SPECIFICATION FairSpec
CONSTANTS
  Workers = {w1, w2}
  QSize = 2
  Conns = {1}
  NoConn = 0
  SpuriousWakeups = FALSE
CHECK_DEADLOCK FALSE
PROPERTY
  StopTerminates
