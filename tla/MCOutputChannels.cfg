SPECIFICATION Spec
CONSTANTS
    Projects <- MCProjects
    Garbage <- MCGarbage
    MaxFaults = 2
    MaxRestarts = 1
INVARIANTS MaskInvariant LampsShown
PROPERTIES OneLampPerWrite OutputsSettle
