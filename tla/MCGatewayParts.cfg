SPECIFICATION PartsSpec
CONSTANTS
  MaxSeq = 6
  MaxMissingRanges = 2
  MaxFaults = 1
  SyncCards = {card}
  Contents = {blocked}
  NoPolicy = NoPolicy
  Requests = {request}
  MaxDeliveries = 2
  PendingLimit = 2
  MaxPolicySaves = 2
  MaxSecond = 1
  MaxLapses = 2
  Links = {l1, l2}
  NoLink = NoLink
  IdleTimeout = 1
  OfflineGrace = 2
  TenantMemory = 2
  MaxClock = 8
  MaxDials = 2
  Senders = {s1, s2}
  HourlyLimit = 2
  Hour = 1
  MaxTime = 3
  MaxTexts = 5
  MaxMisses = 1
INVARIANTS WindowsExact RepeatsBounded NewestAppliedHeld ConnectedIsKnown QuotaHolds
PROPERTIES AnnouncedWasAway PartsSettle
CHECK_DEADLOCK FALSE
