------------------------------ MODULE PageLoads ------------------------------
(***************************************************************************)
(* How the console's pages are loaded on the server: each reads lists from *)
(* the gateway through lib/catalog.ts, several at a time or one after      *)
(* another, and draws what it got. A read may be answered, with rows that  *)
(* the parser accepts or drops, refused, broken, or given up after 2.5     *)
(* seconds. A page is a sequence of tries; a try is a sequence of awaits;  *)
(* an await is a set of reads (Promise.all), whose rows are assigned when  *)
(* all of them are in, and none of them when one fails.                    *)
(***************************************************************************)
EXTENDS TableQuery, Functions

CONSTANT MaxNeedles    \* bound: searches submitted on a loaded page

ASSUME LoadsAssumption == MaxNeedles \in Nat

VARIABLES
  tryNo, awaitNo,      \* where the page's function is
  answers,             \* of the reads of the await: rows received, kept, and whether here
  heard,               \* every read answered: the same
  rows,                \* the page's lists: rows kept
  failed,              \* tries whose catch was taken
  role,                \* what fetchConsoleRole returned
  needle, hit,         \* ?q=, and whether it matches a row
  needles              \* searches submitted so far

loadVars == <<tryNo, awaitNo, answers, heard, rows, failed, role, needle, hit, needles>>

-----------------------------------------------------------------------------
(* The pages, in the order of their code: what each reads and what its catch *)
(* says, the lists it has a text for when they are empty, the ones it narrows *)
(* to its own device or to a module of it, the ones its search box narrows,   *)
(* the ones it tells "no match" for, and the controls it draws only for an    *)
(* account that may write.                                                    *)

All(reads, tells) == [awaits |-> <<reads>>, tells |-> tells]
Each(reads, tells) == [awaits |-> [i \in DOMAIN reads |-> {reads[i]}], tells |-> tells]
fetchConsoleRole == All({"role"}, "readonly")

OverviewPage ==
  [tries |-> << All({"devices", "messages", "sessions"}, "loadError") >>,
   lists |-> {"messages"}, own |-> {}, narrowed |-> {}, blamed |-> {}, controls |-> {}]

\* Certificates and codes are not worth failing the page for: a gateway with no
\* authority answers 503, and its devices are shown all the same. A search that
\* matches no modem leaves the table without rows.
DevicesPage ==
  [tries |-> << fetchConsoleRole, All({"devices", "modems", "policies", "alerts"}, "loadError"),
                All({"certificates"}, "silent"), All({"codes"}, "silent") >>,
   lists |-> {"alerts", "devices", "modems", "policies", "certificates"}, own |-> {},
   narrowed |-> {"modems"}, blamed |-> {}, controls |-> {"enrollment", "card policies"}]

\* The panels of a device: what is on it, what can be read of its radio, what
\* it can be told, its eSIM.
Panel(lists, own, narrowed, controls) ==
  [lists |-> lists, own |-> own, narrowed |-> narrowed, controls |-> controls]
OverviewPanel == Panel({"modems", "proxies", "uptime"}, {"modems", "proxies"}, {"modems"}, {})
DiagnosticsPanel == Panel({"modems"}, {"modems"}, {}, {"readings"})
ConsolePanel == Panel({"modems", "candidates"}, {"modems", "candidates"}, {}, {"commands", "administration"})
EsimTab == Panel({"esim"}, {}, {}, {"eSIM"})
DEVICE_TABS == {OverviewPanel, DiagnosticsPanel, ConsolePanel, EsimTab}

\* One failed read leaves every panel without rows.
DevicePage ==
  [tries |-> << fetchConsoleRole,
                All({"devices", "modems", "esim", "proxies", "uptime", "candidates"}, "loadError") >>,
   lists |-> UNION {p.lists : p \in DEVICE_TABS}, own |-> UNION {p.own : p \in DEVICE_TABS},
   narrowed |-> OverviewPanel.narrowed, blamed |-> OverviewPanel.narrowed,
   controls |-> UNION {p.controls : p \in DEVICE_TABS}]

\* The modems have a catch of their own, which says they are unknown.
InboxPage ==
  [tries |-> << fetchConsoleRole, Each(<<"threads", "contacts", "devices">>, "loadError"),
                All({"modems"}, "modemsUnknown") >>,
   lists |-> {"contacts", "threads"}, own |-> {}, narrowed |-> {"threads"}, blamed |-> {"threads"},
   controls |-> {"send"}]

ThreadPage ==
  [tries |-> << fetchConsoleRole, Each(<<"thread", "threads">>, "loadError") >>,
   lists |-> {"thread"}, own |-> {}, narrowed |-> {}, blamed |-> {}, controls |-> {"conversation"}]

\* A page of one list and no controls; a searched one narrows it.
Listing(x) ==
  [tries |-> << All({x}, "loadError") >>, lists |-> {x}, own |-> {}, narrowed |-> {},
   blamed |-> {}, controls |-> {}]
Searched(x) == [Listing(x) EXCEPT !.narrowed = {x}, !.blamed = {x}]

SessionsPage == Searched("sessions")
SchedulePage == Searched("schedules")
RulesPage == Listing("rules")
JournalListPage == Listing("journal")
\* loadAudit catches its own failure.
AuditPage == Searched("audit")

SupportLedgerPage ==
  [Searched("ledger") EXCEPT !.tries = << fetchConsoleRole, All({"ledger"}, "loadError") >>,
                             !.controls = {"ledger"}]

\* Only the export of the listeners' passwords is kept from a reader.
ProxyListPage ==
  [tries |-> << All({"upstreams", "instances", "devices", "traffic", "countryRules"}, "loadError"),
                fetchConsoleRole >>,
   lists |-> {"traffic", "upstreams", "instances", "countryRules"}, own |-> {},
   narrowed |-> {"traffic"}, blamed |-> {"traffic"}, controls |-> {"export"}]

SettingsPage ==
  [tries |-> << All({"settings"}, "loadError"), All({"channels"}, "silent"), fetchConsoleRole >>,
   lists |-> {"channels"}, own |-> {}, narrowed |-> {}, blamed |-> {}, controls |-> {"settings"}]

PageOf ==
  [overview |-> OverviewPage, fleet |-> DevicesPage, device |-> DevicePage,
   inboxList |-> InboxPage, threadList |-> ThreadPage, sessions |-> SessionsPage,
   schedule |-> SchedulePage, rules |-> RulesPage, journalList |-> JournalListPage,
   ledgerList |-> SupportLedgerPage, proxyList |-> ProxyListPage,
   settingsList |-> SettingsPage, audit |-> AuditPage]

LoadPages == DOMAIN PageOf

-----------------------------------------------------------------------------
(* What is kept of an answer: of no rows, whole ones, ones with a field       *)
(* missing, or whole ones of elsewhere: of another device than the page's, or *)
(* for a listener of another module. A parser that needs an id drops the ones *)
(* with a gap; the others fill it.                                            *)

Bodies(x) == {"none", "whole", "partial"} \cup IF x \in PageOf[page].own THEN {"elsewhere"} ELSE {}
NeedsId == [none |-> 0, whole |-> 1, partial |-> 0, elsewhere |-> 1]
FillsGaps == [none |-> 0, whole |-> 1, partial |-> 1, elsewhere |-> 1]

parseDevice == NeedsId
parseModem == NeedsId
parseMessage == NeedsId
parseSession == NeedsId
parseCertificate == NeedsId
parseEnrollmentCode == NeedsId
parseSchedule == NeedsId
isRule == NeedsId
parseAuditEvent == NeedsId
parseChannelHealth == NeedsId
fetchSettings == NeedsId
fetchDeviceUptime == NeedsId
fetchCandidates == NeedsId
fetchAlerts == NeedsId
fetchLedger == FillsGaps
fetchUpstreams == FillsGaps
fetchProxyInstances == FillsGaps
fetchTraffic == FillsGaps
fetchCountryRules == FillsGaps
fetchThreads == FillsGaps
fetchContacts == FillsGaps
fetchThread == FillsGaps
fetchCardPolicies == FillsGaps
fetchJournal == FillsGaps
fetchEsimProfiles == FillsGaps

\* Only a body that says admin is an administrator's.
roleFromSessionBody == NeedsId

Parser ==
  [devices |-> parseDevice, modems |-> parseModem, messages |-> parseMessage,
   sessions |-> parseSession, certificates |-> parseCertificate, codes |-> parseEnrollmentCode,
   schedules |-> parseSchedule, rules |-> isRule, audit |-> parseAuditEvent,
   channels |-> parseChannelHealth, settings |-> fetchSettings, uptime |-> fetchDeviceUptime,
   candidates |-> fetchCandidates, alerts |-> fetchAlerts, ledger |-> fetchLedger,
   upstreams |-> fetchUpstreams, instances |-> fetchProxyInstances, proxies |-> fetchProxyInstances,
   traffic |-> fetchTraffic, countryRules |-> fetchCountryRules, threads |-> fetchThreads,
   contacts |-> fetchContacts, thread |-> fetchThread, policies |-> fetchCardPolicies,
   journal |-> fetchJournal, esim |-> fetchEsimProfiles, role |-> roleFromSessionBody]

-----------------------------------------------------------------------------
(* The page's function.                                                      *)

Tries == PageOf[page].tries
Loaded == tryNo > Len(Tries)
Awaited == Tries[tryNo].awaits[awaitNo]
ReadsOf(p) == UNION UNION {Range(PageOf[p].tries[t].awaits) : t \in DOMAIN PageOf[p].tries}

NextTry == tryNo' = tryNo + 1 /\ awaitNo' = 1

Merged(f, g) == [x \in DOMAIN f \cup DOMAIN g |-> IF x \in DOMAIN g THEN g[x] ELSE f[x]]

\* getCatalog answered 200.
ReadAnswered(x, body) ==
  /\ ~Loaded /\ x \in Awaited \ DOMAIN answers
  /\ LET kept == Parser[x][body]
         now == Merged(answers, [r \in {x} |-> [received |-> FillsGaps[body], kept |-> kept,
                                                 here |-> body # "elsewhere"]])
         last == DOMAIN now = Awaited
         kept_ == [r \in DOMAIN now |-> now[r].kept]
     IN /\ answers' = IF last THEN << >> ELSE now
        /\ heard' = IF last THEN Merged(heard, now) ELSE heard
        /\ rows' = IF last THEN Merged(rows, kept_) ELSE rows
        /\ role' = IF x = "role" THEN (IF kept = 1 THEN "admin" ELSE "readonly") ELSE role
        /\ IF ~last THEN UNCHANGED <<tryNo, awaitNo>>
           ELSE IF awaitNo < Len(Tries[tryNo].awaits)
                THEN awaitNo' = awaitNo + 1 /\ UNCHANGED tryNo
                ELSE NextTry
  /\ UNCHANGED <<failed, needle, hit, needles>> /\ ConnectionHolds

\* Slip: an empty catch.
CaughtSilently(x) ==
  /\ ~Loaded /\ x \in Awaited \ DOMAIN answers
  /\ answers' = << >>
  /\ role' = IF x = "role" THEN "readonly" ELSE role
  /\ NextTry
  /\ UNCHANGED <<heard, rows, failed, needle, hit, needles>> /\ ConnectionHolds

\* The try is left: what the await had already got is not assigned.
Caught(x) ==
  /\ ~Loaded /\ x \in Awaited \ DOMAIN answers
  /\ answers' = << >>
  /\ failed' = failed \cup {tryNo}
  /\ role' = IF x = "role" THEN "readonly" ELSE role
  /\ NextTry
  /\ UNCHANGED <<heard, rows, needle, hit, needles>> /\ ConnectionHolds

\* getCatalog throws: 404, 401, 403, another refusal, or a broken connection.
ReadFails(x) == Caught(x)

\* Slip: only the read of the role is given up.
TimesOutForRole(x) == x = "role" /\ Caught(x)

\* AbortSignal.timeout(2500) ends a read that has not been answered.
ReadTimesOut(x) == Caught(x)

\* The search form submits a GET: the page is loaded again with `?q=`.
Search(n, h) ==
  /\ Loaded /\ needles < MaxNeedles /\ needles' = needles + 1
  /\ needle' = n /\ hit' = h
  /\ tryNo' = 1 /\ awaitNo' = 1 /\ answers' = << >> /\ heard' = << >>
  /\ rows' = [x \in ReadsOf(page) |-> 0] /\ failed' = {} /\ role' = "readonly"
  /\ ConnectionHolds

-----------------------------------------------------------------------------
(* What is drawn.                                                            *)

mayWrite(r) == r = "admin"

loadError == \E i \in failed : Tries[i].tells = "loadError"

\* The filters of the device page: rows of this device, listeners of this module.
Here(x) == IF x \in DOMAIN heard /\ ~heard[x].here THEN 0 ELSE rows[x]

Shown(x) == IF x \in PageOf[page].narrowed /\ needle # "" /\ ~hit THEN 0 ELSE Here(x)

\* A page that tells no match apart asks emptyKind; another only counts rows.
emptyKindOf(x) ==
  emptyKind(Here(x), IF x \in PageOf[page].blamed THEN Shown(x) ELSE Here(x), needle)

\* auditScreen(loadAudit()).
auditScreen ==
  CASE failed # {} -> "failed"
    [] failed = {} /\ heard["audit"].kept > 0 -> emptyKindOf("audit")
    [] failed = {} /\ heard["audit"].kept = 0 /\ heard["audit"].received > 0 -> "unreadable"
    [] OTHER -> "empty"

\* The ledger's empty state is drawn only for a load that succeeded.
ledgerScreen ==
  IF emptyKindOf("ledger") = "none" /\ failed # {} THEN "table" ELSE emptyKindOf("ledger")

Section(x) ==
  CASE x = "audit" -> auditScreen
    [] x = "ledger" -> ledgerScreen
    [] OTHER -> emptyKindOf(x)

\* The controls in the page's answer.
Controls == IF Loaded /\ mayWrite(role) THEN PageOf[page].controls ELSE {}

-----------------------------------------------------------------------------
LoadsRest ==
  /\ tryNo = 1 /\ awaitNo = 1 /\ answers = << >> /\ heard = << >> /\ failed = {}
  /\ role = "readonly" /\ needle = "" /\ hit = FALSE /\ needles = 0

LoadsInit ==
  /\ LoadsRest
  /\ rows = IF page \in LoadPages THEN [x \in ReadsOf(page) |-> 0] ELSE << >>

LoadsNext ==
  \/ ~Loaded /\ \E x \in Awaited : ReadFails(x) \/ ReadTimesOut(x)
  \/ ~Loaded /\ \E x \in Awaited : \E body \in Bodies(x) : ReadAnswered(x, body)
  \/ PageOf[page].narrowed # {} /\ \E h \in BOOLEAN : Search("typed", h)

\* A read is given up after 2.5 seconds, whatever the gateway does.
LoadsFairness ==
  WF_<<loadVars, page, faults>>(page \in LoadPages /\ ~Loaded /\ \E x \in Awaited : ReadTimesOut(x))

-----------------------------------------------------------------------------
(* Properties.                                                               *)

\* A page says a list is empty only when the gateway was asked and answered, or
\* when it also says that loading failed; of a list whose rows are never dropped
\* and of the audit log, only when there are no rows, or, on the page of a device,
\* none of that device or module: the list is read for the whole fleet.
\* Certificates and channel health may be left out (the catches of the pages; "a
\* convincing but wrong empty console").
EmptyMeansRead ==
  page \in LoadPages /\ Loaded /\ ~loadError =>
    \A x \in PageOf[page].lists \ {"certificates", "channels"} :
      Section(x) \in {"none", "empty"} =>
        /\ x \in DOMAIN heard
        /\ Parser[x] = FillsGaps \/ x = "audit" =>
             heard[x].received = 0 \/ (x \in PageOf[page].own /\ ~heard[x].here)

\* Controls that write are drawn only for an account the gateway said may
\* write, on the load that drew them (fetchConsoleRole fails closed).
WritersOnly ==
  page \in LoadPages /\ Controls # {} => \E i \in DOMAIN Tries :
    Tries[i] = fetchConsoleRole /\ i \notin failed /\ heard["role"].kept = 1

\* The audit page never blames the search for a log that could not be loaded or
\* read, and calls the log empty only when it is (auditScreen, emptyKind).
AuditEmptyIsEmpty ==
  page = "audit" /\ Loaded =>
    /\ auditScreen = "empty" => "audit" \in DOMAIN heard /\ heard["audit"].received = 0
    /\ auditScreen = "noMatch" => needle # "" /\ heard["audit"].kept > 0

\* Every page is drawn in the end, when the gateway never answers too.
EveryPageDrawn == (page \in LoadPages /\ ~Loaded) ~> (page \in LoadPages /\ Loaded)

\* A page draws what it was told and no more: empty only what was read as empty,
\* the audit log by the same rule, and controls only for an account that was
\* said to be a writer's (the catches of the pages, auditScreen, fetchConsoleRole).
DrawnAsTold == EmptyMeansRead /\ AuditEmptyIsEmpty /\ WritersOnly
=============================================================================
