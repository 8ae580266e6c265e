SPECIFICATION DevicePageFairSpec
CONSTANTS
  Absent = Absent
  MaxFaults = 1
  Modems = {m1}
  First = m1
  AtCommands = {}
  Kinds = {}
  Limit = 2
  TTL = 0
  Skews = {0}
  MaxCommands = 2
  MaxPolls = 1
  MaxClock = 1
  EsimModems = {euicc}
  Iccids = {profile1, profile2}
  Home <- MCHome
  Codes = {code}
  EsimLimit = 1
  EsimKinds = {"read_esim_info", "switch_esim_profile"}
  MaxEsimCommands = 2
  MaxEsimPolls = 1
  MaxChipClock = 1
INVARIANTS VerdictTruthful CodeSpentOnce
PROPERTIES FailureNotCrowdedOut DevicePageSettles
CHECK_DEADLOCK FALSE
