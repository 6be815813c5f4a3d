CONSTANTS
    ByteMod = 128
    Size = 64
    Texts <- MCTexts
    NumberLimit = 256
SPECIFICATION Spec
INVARIANTS
    ReadsRunsOfLines
PROPERTIES
    LexerEnds
CHECK_DEADLOCK FALSE
