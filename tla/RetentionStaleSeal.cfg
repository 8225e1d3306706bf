SPECIFICATION RetentionSpec
CONSTANTS
  n1 = n1
  n2 = n2
  t1 = t1
  Nodes = {n1}
  Threads = {t1}
  NodeOf <- OneThread
  Serves <- EveryJob
  Home = n1
  NJobs = 1
  MaxClaims = 2
  MaxAttempts = 1
  Retaining = FALSE
  Limit = 1
  MaxCrashes = 1
  SlowOwners = FALSE
  StoreFaults = FALSE
  QueuedAgeCap = FALSE
  UndoFails = FALSE
INVARIANTS RepairedServesItsResult
CHECK_DEADLOCK FALSE
