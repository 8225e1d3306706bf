SPECIFICATION Spec
CONSTANTS
  Slots = {s1, s2}
  Clients = {c1, c2}
  Reapers = {r1}
  Hanging = {}
  MaxReapers = 1
  MaxCeiling = 2
  WarmSize = 2
  BurstSize = 0
  SpawnConcurrency = 2
  Recycles = TRUE
  JobsPerRecycle = 2
  MaxJobsPerSlot = 2
  MaxTries = 2
  Maintains = FALSE
  Resizes = TRUE
  Stops = FALSE
INVARIANTS CleanHandOut
PROPERTIES CeilingKept
SYMMETRY Alike
CHECK_DEADLOCK FALSE
