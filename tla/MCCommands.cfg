SPECIFICATION CommandsFairSpec
CONSTANTS
  MaxCmds = 1
  Workers = {w1, w2}
  NoWorker = NoWorker
  Outcomes = {"succeeded", "expired"}
  Receipts = {"accepted", "retry_later"}
  Limit = 1
  MaxFaults = 1
  MaxQueued = 2
  ReadLimit = 1
INVARIANTS AnswerKept MessageTruthful
PROPERTIES VerdictStands ImplementsQueue LateAreRetired WaitingAreServed
CHECK_DEADLOCK FALSE
