SPECIFICATION Spec
CONSTANTS
  Pkgs = {1, 2, 3, 4}
  Root = 1
  Graphs <- AllGraphs
  ProcMacros = {3}
  Scripted = {1, 2}
  Rank <- ByNumber
  TargetNamed = TRUE
  EmitMmir = FALSE
  Overrides = FALSE
  TestMode = TRUE
INVARIANTS
  ConsideredFirst
  LevelsIncrease
  OneJobPerLibrary
CHECK_DEADLOCK FALSE
