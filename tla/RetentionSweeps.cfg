SPECIFICATION RetentionSpec
CONSTANTS
  n1 = n1
  n2 = n2
  t1 = t1
  Nodes = {n1, n2}
  Threads = {t1}
  NodeOf <- OneThread
  Serves <- EveryJob
  Home = n2
  NJobs = 1
  MaxClaims = 1
  MaxAttempts = 1
  Retaining = TRUE
  Limit = 1
  MaxCrashes = 0
  SlowOwners = FALSE
  StoreFaults = TRUE
  QueuedAgeCap = TRUE
  UndoFails = TRUE
INVARIANTS
  RepairedServesItsResult
  LastCopySafe
CHECK_DEADLOCK FALSE
