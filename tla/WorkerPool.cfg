SPECIFICATION FairSpec
CONSTANTS
  Workers = {w1, w2, w3}
  QSize = 2
  Conns = {1, 2, 3, 4, 5}
  NoConn = 0
  SpuriousWakeups = TRUE
CHECK_DEADLOCK FALSE
INVARIANTS
  TypeOK
  OnePlace
  ThreadCountExact
  QuietAtReturn
  MasterSleepsWithReason
  WorkNotSleptOn
PROPERTIES
  ServiceRefined
  QueuedIsServed
  StopEndsOrSleeps
