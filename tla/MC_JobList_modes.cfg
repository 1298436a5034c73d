SPECIFICATION Spec
CONSTANTS
  t1 = t1
  t2 = t2
  p1 = p1
  p2 = p2
  p3 = p3
  Procs = {p1, p2, p3}
  Jobs = {1, 2, 3, 4, 5, 6, 7}
  Owner <- ThreeOwners
  NameOf <- Identity
  DepGraphs <- ModeGraphs
  Tokens = {t1, t2}
  NumJobs <- FirstMinusJ2
  JobserverAuth = TRUE
  DryRun = {p3}
  RunOnce = {p2}
  SpawnMayFail = TRUE
  BlockingPipe = FALSE
SYMMETRY TokenSymmetry
INVARIANTS
  TokenLedger
  WithinTokens
  DependenciesBuilt
  SuccessMeansAllBuilt
  FailureReported
  CleanReturn
PROPERTIES
  NoStartAfterFailure
  ImplementsSchedule
CHECK_DEADLOCK FALSE
