CONSTANTS
    ByteMod = 128
    Size = 128
    Programs = {}
    Alu <- Compute
    MaxLoads = 1
    MaxTicks = 60
    Sources <- MCSources
    OldFile <- MCOldFile
    Executed <- MCExecuted
SPECIFICATION ChainSpec
INVARIANTS
    SuccessIsWritten
CHECK_DEADLOCK FALSE
