SPECIFICATION Spec
CONSTANTS
  NArgs = 1
  NLocals = 2
  Bodies <- OnceOrAgain
INVARIANTS
  NoLeak
  LastDeclaredFirst
  NoInvalidUse
CHECK_DEADLOCK FALSE
