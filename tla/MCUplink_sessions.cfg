SPECIFICATION Spec
CONSTANTS
  MaxSeq = 2
  Conns = {c1, c2}
  NoConn = NoConn
  Pruners = {}
  Classes <- SessionClasses
  MaxInFlight = 2
  PruneLimit = 2
  MaxFaults = 2
  InOrder = TRUE
SYMMETRY ConnSymmetry
INVARIANTS NoRecordLost HubSafe ReplaysHarmless
CHECK_DEADLOCK FALSE
