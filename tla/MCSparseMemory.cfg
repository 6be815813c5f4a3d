SPECIFICATION CallerSpec
CONSTANTS
    Size <- MCSize
    BlockSize <- MCBlockSize
    ByteMod <- MCByteMod
    CallAddress <- MCCallAddress
    ByteCounts <- MCByteCounts
    WriteData <- MCWriteData
    Images <- MCImages
    Ptr = {p1, p2}
    NoBlock = NoBlock
    NoByte = NoByte
SYMMETRY PtrSymmetry
VIEW StateView
INVARIANTS
    TypeOK
    CacheCoherent
    AllocatedExactly
    NothingPastTheEnd
PROPERTIES
    AllocationDiscipline
    ImplementsFlatMemory
