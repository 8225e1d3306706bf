SPECIFICATION ProgressSpec
CONSTANTS
  Sizers = {1, 2}
  EngineOf <- TwoEngines
  NodeSlots = 3
  MinWarm = 0
  MaxCeiling = 2
  MaxJobs = 1
  Events = {{"job", "stop"}, {"memory"}, {"stall"}}
PROPERTIES
  ClaimsProgress
  CeilingsFit
  TiersRecover
  NodeRecovers
CHECK_DEADLOCK FALSE
