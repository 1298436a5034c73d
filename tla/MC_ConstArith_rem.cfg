\* The remainders of a signed division.
SPECIFICATION Spec
CONSTANTS
    WordBits = 3
    Types <- Narrow
PROPERTY RemainderSign
CHECK_DEADLOCK FALSE
