SPECIFICATION Spec
CONSTANTS
  Modems = {m1, m2}
  First = m1
  Absent = Absent
  AtCommands <- MCAtCommands
  Kinds = {"set_radio", "update_modem", "create_modem"}
  Limit = 1
  TTL = 0
  Skews <- MCSkews
  MaxCommands = 2
  MaxPolls = 1
  MaxClock = 2
  MaxFaults = 1
INVARIANTS PostedAsMeant ReplyOfferedInTime ShownIsTrue
CHECK_DEADLOCK FALSE
