\* Every operation on every value of six integer types.
SPECIFICATION Spec
CONSTANTS
    WordBits = 3
    Types <- AllWidths
PROPERTIES
    WrapsAround
    OverflowNoticed
    DivisionExact
    ShiftsKeepSign
    ValuesKept
\* The compiler stops at an error in a constant.
CHECK_DEADLOCK FALSE
