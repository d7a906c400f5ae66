SPECIFICATION QueueSpec
CONSTANTS
    Thread = {t1, t2}
    Element = {e1, e2}
    Poll = 2
    Ahead = 0
    MaxTime = 3
CHECK_DEADLOCK FALSE
INVARIANTS QueueInvariant
PROPERTIES EarliestFirst Served CloseReleases
