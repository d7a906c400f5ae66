SPECIFICATION Spec
CONSTANTS
    ResetCycles = 3
    LampInputs <- AllLampInputs
    MaxFaults = 2
    MaxRestarts = 1
INVARIANTS FBInvariant LampsShown
PROPERTIES OneShot SupplyRestored
