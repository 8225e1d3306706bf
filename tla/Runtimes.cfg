SPECIFICATION RuntimesSpec
CONSTANTS
  t1 = t1
  t2 = t2
INVARIANTS
  TiersAccounted
  EvidenceDecides
  BasesHeld
  RunsEndClean
  ContainersAccounted
SYMMETRY SameProcess
CHECK_DEADLOCK FALSE
