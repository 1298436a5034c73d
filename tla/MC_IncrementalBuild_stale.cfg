SPECIFICATION Spec
CONSTANTS
  Pkgs = {1, 2, 3}
  Root = 1
  Topologies <- StaleShapes
  TestMode = FALSE
  IgnoreTools = FALSE
  MaxEdits = 1
  MaxBuilds = 3
INVARIANTS
  SuccessMeansFresh
CHECK_DEADLOCK FALSE
