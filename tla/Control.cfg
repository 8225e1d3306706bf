SPECIFICATION ControlSpec
INVARIANTS
  ServedResultsAreCurrent
  StoreBootsExactly
  OutcomesAreKept
  BoxesConserved
  LinksContained
  TrafficContained
  ReleasesAreWhole
  ExpiredLeavesNoResult
  MachinesHeld
PROPERTIES
  ImplementLifecycle
  RepairsItsOwnAttempt
  NoForbiddenStep
CHECK_DEADLOCK FALSE
