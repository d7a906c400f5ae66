SPECIFICATION Spec
CONSTANTS
    Block = {b1, b2, b3, b4, b5}
    Thread = {t1, t2}
    limit = 5
    IdSpace = 100
    LastId = 4
SYMMETRY Symmetry
CHECK_DEADLOCK FALSE
INVARIANTS CacheInvariant
PROPERTIES ActsOnOwnBlock Implements2Q
