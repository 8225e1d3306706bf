SPECIFICATION Spec
CONSTANTS
  n1 = n1
  n2 = n2
  t1 = t1
  t2 = t2
  Nodes = {n1}
  Threads = {t1, t2}
  NodeOf <- OneNode
  Serves <- EveryJob
  Home = n1
  NJobs = 1
  MaxClaims = 2
  MaxAttempts = 1
  Retaining = FALSE
  Limit = 1
  MaxCrashes = 0
  SlowOwners = TRUE
  StoreFaults = TRUE
  QueuedAgeCap = TRUE
INVARIANTS TypeOK DoneWasPublished AttemptsBounded
PROPERTIES ImplementsLifecycle
CHECK_DEADLOCK FALSE
SYMMETRY SameProcess
