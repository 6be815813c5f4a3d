CONSTANTS
    ByteMod = 128
    Size = 64
    Programs <- StackPrograms
    Alu <- Compute
    MaxLoads = 1
    MaxTicks = 10
SPECIFICATION MainSpec
INVARIANTS
    FreeStackIsUninitialized
    FreeStackIsZero
PROPERTIES
    StackStaysInWindow
CHECK_DEADLOCK FALSE
