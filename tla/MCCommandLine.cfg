CONSTANTS
    CommandLines <- MCCommandLines
    DefaultRamSize = 64
    MaxRamSize = 1024
SPECIFICATION Spec
INVARIANTS
    RefusedIfWrong
    RunsAsAsked
CHECK_DEADLOCK FALSE
