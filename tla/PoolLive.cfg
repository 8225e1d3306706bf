SPECIFICATION FairSpec
CONSTANTS
  Slots = {s1, s2}
  Clients = {c1}
  Reapers = {r1, r2}
  Hanging = {r1}
  MaxReapers = 1
  MaxCeiling = 2
  WarmSize = 1
  BurstSize = 0
  SpawnConcurrency = 1
  Recycles = FALSE
  JobsPerRecycle = 1
  MaxJobsPerSlot = 1
  MaxTries = 2
  Maintains = FALSE
  Resizes = FALSE
  Stops = FALSE
PROPERTIES HusksTaken PoolRefills
CHECK_DEADLOCK FALSE
