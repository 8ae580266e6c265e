SPECIFICATION CommandsSpec
CONSTANTS
  MaxCmds = 1
  Workers = {w1}
  NoWorker = NoWorker
  Outcomes = {"succeeded"}
  Receipts = {"accepted"}
  Limit = 1
  MaxFaults = 0
  MaxQueued = 1
  ReadLimit = 1
INVARIANT QueuedIsHonest
CHECK_DEADLOCK FALSE
