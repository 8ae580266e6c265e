----------------------------- MODULE ConsolePages -----------------------------
(***************************************************************************)
(* The console in one browser tab: the page it is on, and the state of     *)
(* that page. The pages share the connection, and two of them lead to      *)
(* another one by themselves: a deleted conversation to the inbox, a       *)
(* removed device to the device list. What a page that is not shown holds  *)
(* is at rest.                                                             *)
(***************************************************************************)
EXTENDS CardPolicies, SettingsForm, EsimPanel, MessagingPages, ProxyPage,
        FleetForms, JournalPage, ConsoleAccess, ConnectionMonitor, PageLoads

CONSTANT Pages         \* the pages a tab may be opened on

formPages == {"devices", "admin", "ledger"}
AllPages ==
  {"policies", "settings", "esim", "inbox", "thread", "proxy", "journal", "access",
   "lost", "install", "tables"} \cup formPages \cup LoadPages

ASSUME PagesAssumption == Pages \subseteq AllPages

consoleVars ==
  <<page, faults, policyVars, settingsVars, esimVars, sendVars, threadVars, proxyVars,
    formVars, journalVars, accessVars, monitorVars, tableVars, loadVars>>

-----------------------------------------------------------------------------
\* The page shown starts in one of its initial states; a page that is not shown
\* is in a fixed one of its own.
ConsoleInit ==
  /\ page \in Pages /\ faults = 0
  /\ EsimInit /\ JournalInit /\ LoadsInit
  /\ PolicyInit /\ (page # "policies" => policies = [c \in Cards |-> NoRow])
  /\ SettingsInit /\ (page # "settings" => stored.secret = Nothing)
  /\ InboxInit /\ (page # "inbox" => fleet = NoFleet)
  /\ ThreadInit /\ (page # "thread" => thread = NoMsgs /\ contact = FALSE)
  /\ ProxyInit /\ (page # "proxy" => proxyRows.upstreams = {})
  /\ FormsInit /\ (page # "ledger" => DOMAIN ledger = {})
  /\ AccessInit /\ (page # "access" => directory = [s \in Slugs |-> NoTenant] /\ ~cookie)
  /\ MonitorInit
  /\ page # "lost" => net = "up" /\ ~connectionView(monitor)
  /\ page # "install" => offer.standalone /\ offer.dismissed /\ offer.platform = "ios"
  /\ IF page = "tables" THEN TableInit ELSE TableRests /\ TablePinned

\* Only the part that is shown moves.
Rest(part) ==
  /\ IF part = "policies" THEN TRUE ELSE UNCHANGED policyVars
  /\ IF part = "settings" THEN TRUE ELSE UNCHANGED settingsVars
  /\ IF part = "esim" THEN TRUE ELSE UNCHANGED esimVars
  /\ IF part = "messages" THEN TRUE ELSE UNCHANGED <<sendVars, threadVars>>
  /\ IF part = "proxy" THEN TRUE ELSE UNCHANGED proxyVars
  /\ IF part = "forms" THEN TRUE ELSE UNCHANGED formVars
  /\ IF part = "journal" THEN TRUE ELSE UNCHANGED journalVars
  /\ IF part = "access" THEN TRUE ELSE UNCHANGED accessVars
  /\ IF part = "monitor" THEN TRUE ELSE UNCHANGED monitorVars
  /\ IF part = "tables" THEN TRUE ELSE UNCHANGED tableVars
  /\ IF part = "loads" THEN TRUE ELSE UNCHANGED loadVars

ConsoleNext ==
  \/ page = "policies" /\ PolicyNext /\ Rest("policies")
  \/ page = "settings" /\ SettingsNext /\ Rest("settings")
  \/ page = "esim" /\ EsimNext /\ Rest("esim")
  \/ page = "inbox" /\ InboxNext /\ Rest("messages")
  \/ page = "thread" /\ ThreadNext /\ Rest("messages")
  \/ page = "proxy" /\ ProxyNext /\ Rest("proxy")
  \/ page \in formPages /\ FormsNext /\ Rest("forms")
  \/ page = "journal" /\ JournalNext /\ Rest("journal")
  \/ page = "access" /\ AccessNext /\ Rest("access")
  \/ page = "lost" /\ MonitorStep /\ Rest("monitor")
  \/ page = "install" /\ InstallStep /\ Rest("monitor")
  \/ page = "tables" /\ TableNext /\ Rest("tables")
  \/ page \in LoadPages /\ LoadsNext /\ Rest("loads")

ConsoleSpec == ConsoleInit /\ [][ConsoleNext]_consoleVars

ConsoleFairSpec ==
  /\ ConsoleSpec
  /\ EsimFairness /\ ThreadFairness /\ ProxyFairness /\ FormsFairness /\ AccessFairness
  /\ MonitorFairness /\ LoadsFairness

-----------------------------------------------------------------------------
\* What is stored is what was edited: a card's row is the one that was asked about
\* with nothing beside the edit changed, and the dots that stand for a credential
\* never become it (card-policies' save and removePolicy, settings.Merge).
EditsSafe == SavedIsTheEdit /\ MarkerNeverStored

\* No page stays stuck where its code catches failures: writes and sign-ins come
\* back, every page is drawn, the banner comes down, and what was marked read is
\* shown (the finally blocks, the timeouts of lib/catalog.ts and lib/tenant.ts, the
\* monitor's probe and the conversation's refresh).
PagesSettle ==
  /\ ReadIsShown /\ ProxyBusyEnds /\ EnrollmentBusyEnds
  /\ SigningEnds /\ BannerComesDown /\ EveryPageDrawn
=============================================================================
