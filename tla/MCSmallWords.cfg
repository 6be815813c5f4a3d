CONSTANTS
    ByteMod = 4
    Size = 16
    Programs <- SmallPrograms
    Alu <- Compute
    MaxLoads = 2
    MaxTicks = 3
SPECIFICATION SmallSpec
INVARIANTS
    IInv
    IntegerArithmetic
    ShiftsScale
    ConversionsRoundTrip
CHECK_DEADLOCK FALSE
