SPECIFICATION Spec
CONSTANTS
  NArgs = 1
  NLocals = 2
  Bodies <- NestedOnly
INVARIANTS
  NoInvalidUse
CHECK_DEADLOCK FALSE
