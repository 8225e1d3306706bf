SPECIFICATION Spec
CONSTANTS
  Slots = {s1, s2}
  Clients = {c1, c2}
  Reapers = {r1}
  Hanging = {}
  MaxReapers = 1
  MaxCeiling = 2
  WarmSize = 1
  BurstSize = 1
  SpawnConcurrency = 2
  Recycles = FALSE
  JobsPerRecycle = 1
  MaxJobsPerSlot = 1
  MaxTries = 2
  Maintains = TRUE
  Resizes = FALSE
  Stops = TRUE
INVARIANTS
  PoolTypeOK
  SlotsAccounted
SYMMETRY Alike
CHECK_DEADLOCK FALSE
