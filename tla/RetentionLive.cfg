SPECIFICATION RetentionFairSpec
CONSTANTS
  n1 = n1
  n2 = n2
  t1 = t1
  Nodes = {n1}
  Threads = {t1}
  NodeOf <- OneThread
  Serves <- EveryJob
  Home = n1
  NJobs = 1
  MaxClaims = 1
  MaxAttempts = 1
  Retaining = TRUE
  Limit = 1
  MaxCrashes = 1
  SlowOwners = FALSE
  StoreFaults = FALSE
  QueuedAgeCap = FALSE
  UndoFails = FALSE
PROPERTIES RetainedResultStored ExpiryCompletes
CHECK_DEADLOCK FALSE
