CONSTANTS
    ByteMod = 128
    Size = 268435456
    Programs <- TracedPrograms
    Alu <- Compute
    MaxLoads = 1
    MaxTicks = 8
    TickFilters <- SomeTicks
    AddressFilters <- SomeAddresses
SPECIFICATION TracedRuns
INVARIANTS
    ScrrShowsItsValue
CHECK_DEADLOCK FALSE
