SPECIFICATION Spec
CONSTANTS
  Nodes = {n1}
  Passages = {p1}
  GoneFrom <- PointsGone
  LogTries = 2
  DbTries = 2
  Threads = {s1, s2}
  Backlog = 1
  MaxVersion = 1
  MaxCrashes = 1
CHECK_DEADLOCK FALSE
INVARIANTS
  TypeOK
  NothingVanishes
  SentBeforeDropped
PROPERTIES
  EveryPassageSettled
  NodesCatchUp
