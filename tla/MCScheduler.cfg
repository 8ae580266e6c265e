SPECIFICATION FairSpec
CONSTANTS
  Runners = {r1, r2}
  Selectors = {s1}
  Places = {d1, NoPlace}
  NoPlace = NoPlace
  Actions = {"command", "public_ip_check"}
  Anchor = 0
  Start = 2
  Interval = 1
  MaxTime = 3
  MaxEdits = 1
  MaxFaults = 1
INVARIANTS OneCommandPerOccurrence EveryOccurrenceAccounted SilenceKept
PROPERTIES OwedIsClosed
CHECK_DEADLOCK FALSE
