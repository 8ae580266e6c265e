SPECIFICATION Spec
CONSTANTS
  MaxSeq = 2
  Conns = {c1}
  NoConn = NoConn
  Pruners = {p1}
  Classes <- PruneClasses
  MaxInFlight = 2
  PruneLimit = 2
  MaxFaults = 1
  InOrder = FALSE
INVARIANTS IndInv
PROPERTIES PrefixNeverCollapses ImplementsDurable
CHECK_DEADLOCK FALSE
