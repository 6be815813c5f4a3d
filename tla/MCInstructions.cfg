CONSTANTS
    ByteMod = 128
    Size = 64
    Programs = {}
    Alu <- Compute
    MaxLoads = 3
    MaxTicks = 8
SPECIFICATION LoadsSpec
INVARIANTS
    TypeOK
    HalfLoadedRunsNothing
PROPERTIES
    FailedStepChangesNothing
CHECK_DEADLOCK FALSE
