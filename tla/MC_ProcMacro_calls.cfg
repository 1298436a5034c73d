SPECIFICATION FairSpec
CONSTANTS
    a = a
    b = b
    brace = brace
    Tokens = {a, b, brace}
    Close = brace
    Inputs <- SomeInputs
    Outputs <- SomeOutputs
    PipeSize = 2
INVARIANTS
    ExpansionExact
    FailsForCause
PROPERTY CallEnds
CHECK_DEADLOCK FALSE
