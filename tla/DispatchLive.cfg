SPECIFICATION FairSpec
CONSTANTS
  n1 = n1
  n2 = n2
  t1 = t1
  t2 = t2
  Nodes = {n1}
  Threads = {t1, t2}
  NodeOf <- OneNode
  Serves <- EveryJob
  Home = n1
  NJobs = 1
  MaxClaims = 2
  MaxAttempts = 2
  Retaining = FALSE
  Limit = 1
  MaxCrashes = 1
  SlowOwners = FALSE
  StoreFaults = FALSE
  QueuedAgeCap = FALSE
INVARIANTS KeptResultOnDisk
PROPERTIES RunningEnds OrphansReconciled
CHECK_DEADLOCK FALSE
