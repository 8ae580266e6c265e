SPECIFICATION FairSpec
CONSTANTS
  MaxSeq = 2
  Conns = {c1, c2}
  NoConn = NoConn
  Pruners = {}
  Classes <- LiveClasses
  MaxInFlight = 1
  PruneLimit = 2
  MaxFaults = 1
  InOrder = TRUE
PROPERTIES EveryRecordReleased
CHECK_DEADLOCK FALSE
