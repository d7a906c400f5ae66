SPECIFICATION Spec
CONSTANTS
    ResetCycles = 2
    LampInputs <- MCLampInputs
    Projects <- MCProjects
    Garbage <- MCGarbage
    MaxFaults = 0
    MaxRestarts = 1
INVARIANTS BoardInvariant
PROPERTIES PulseKept AgreementHolds NeitherWriterWins
