SPECIFICATION Spec
CONSTANTS
    Signal = {g1, g2, g3}
    Slot = {s1}
    None = None
    Liberty = {}
    Heard = {g1, g2}
    MaxMade = 2
CHECK_DEADLOCK FALSE
INVARIANTS GraphInvariant NoCallAfterEnd
PROPERTIES EverythingEnds
