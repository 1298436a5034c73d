SPECIFICATION CarefulSpec
CONSTANTS
  Pkgs = {1, 2, 3}
  Root = 1
  Topologies <- AnyShapes
  TestMode = FALSE
  IgnoreTools = FALSE
  MaxEdits = 2
  MaxBuilds = 3
INVARIANTS
  SuccessMeansFresh
  StaleNoticed
  RebuildIsNoop
  InputsReady
  PlanClosed
CHECK_DEADLOCK FALSE
