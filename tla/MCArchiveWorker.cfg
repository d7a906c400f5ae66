SPECIFICATION Spec
CONSTANTS
    MaxCount = 3
    MaxThread = 3
CHECK_DEADLOCK FALSE
INVARIANTS ThreadsAccounted SessionInvariant
PROPERTIES ClearReturns ConnectsAgain
