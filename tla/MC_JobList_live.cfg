SPECIFICATION FairSpec
CONSTANTS
  t1 = t1
  t2 = t2
  p1 = p1
  p2 = p2
  p3 = p3
  Procs = {p1, p2}
  Jobs = {1, 2, 3, 4}
  Owner <- SplitOwner
  NameOf <- Identity
  DepGraphs <- AllGraphs
  Tokens = {t1}
  NumJobs <- NoLimit
  JobserverAuth = TRUE
  DryRun = {}
  RunOnce = {}
  SpawnMayFail = FALSE
  BlockingPipe = TRUE
PROPERTIES
  Terminates
  TokensComeHome
CHECK_DEADLOCK FALSE
