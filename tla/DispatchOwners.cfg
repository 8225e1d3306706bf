SPECIFICATION Spec
CONSTANTS
  n1 = n1
  n2 = n2
  t1 = t1
  t2 = t2
  Nodes = {n1}
  Threads = {t1, t2}
  NodeOf <- OneNode
  Serves <- EveryJob
  Home = n1
  NJobs = 1
  MaxClaims = 3
  MaxAttempts = 2
  Retaining = FALSE
  Limit = 1
  MaxCrashes = 1
  SlowOwners = FALSE
  StoreFaults = TRUE
  QueuedAgeCap = TRUE
INVARIANTS
  DoneServesItsResult
  StagedInputSafe
SYMMETRY SameProcess
CHECK_DEADLOCK FALSE
