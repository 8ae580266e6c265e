SPECIFICATION SyncSpec
CONSTANTS
  SyncCards = {c1, c2}
  Contents = {blocked}
  NoPolicy = NoPolicy
  Requests = {request}
  MaxDeliveries = 3
  PendingLimit = 32
  MaxPolicySaves = 3
  MaxSecond = 0
  MaxLapses = 0
  MaxFaults = 0
INVARIANT TakenAllHoldsTheSet
CHECK_DEADLOCK FALSE
