SPECIFICATION ConsoleFairSpec
CONSTANTS
  MaxFaults = 1
  Cards = {card}
  NoRow = NoRow
  MaxPolicyEdits = 2
  Secrets = {secret}
  Marker = Marker
  Nothing = Nothing
  MaxSaves = 2
  Absent = Absent
  EsimModems = {euicc}
  Iccids = {profile1, profile2}
  Home <- MCHome
  Codes = {}
  EsimLimit = 1
  EsimKinds = {"disable_esim_profile", "rename_esim_profile"}
  MaxEsimCommands = 1
  MaxEsimPolls = 1
  MaxChipClock = 1
  SmsDevices = {d1, d2}
  SmsModems = {m1, m2, m3}
  SmsBlocked = {m2}
  SmsUnseen = {m3}
  Nowhere = Nowhere
  Msgs = {x1, x2}
  MaxFleetMoves = 1
  Upstreams = {upstream}
  Listeners = {listener}
  Countries = {country}
  Direct = Direct
  MaxPresses = 2
  Certs = {certificate}
  Pairings = {pairing}
  Unnamed = Unnamed
  MaxFleetCalls = 3
  JournalDevices = {j1, j2}
  MaxSeq = 2
  PayloadRows = 2
  Undefined = Undefined
  Null = Null
  Slugs = {slug}
  TabTenant = slug
  NoTenant = NoTenant
  MaxRequests = 3
  MaxDirectoryEdits = 2
  LOST_AFTER_FAILURES = 2
  MaxWatched = 3
  MaxFlying = 2
  MaxOutages = 2
  Imeis = {1, 2}
  Missing = Missing
  MaxReading = 2
  MaxChanges = 1
  MaxNeedles = 1
  Pages = {"policies", "esim", "settings", "inbox", "thread", "proxy", "journal", "access", "lost",
           "install", "tables", "devices", "admin", "ledger", "overview", "fleet", "device",
           "inboxList", "threadList", "sessions", "schedule", "rules", "journalList",
           "ledgerList", "proxyList", "settingsList", "audit"}
INVARIANTS EditsSafe MessagingSafe ProxySafe  AccessSafe MonitorSafe DrawnAsTold
PROPERTIES RowsStayPut PagesSettle
CHECK_DEADLOCK FALSE
