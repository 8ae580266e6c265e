------------------------ MODULE ConsolePages_proofs -------------------------
(***************************************************************************)
(* The pages of the console, for any cards, keys, devices, tenants and     *)
(* connections and any number of edits, requests and outages: what is      *)
(* saved, sent, forwarded and shown is what the operator asked for and     *)
(* what the gateway holds. A step of the console is a step of one page;    *)
(* each page has its inductive invariant.                                  *)
(***************************************************************************)
EXTENDS ConsolePages, FiniteSetTheorems, TLAPS

-----------------------------------------------------------------------------
(* A step of the console is a step of one page, and leaves the others.       *)

LEMMA PolicyPart == [ConsoleNext]_consoleVars => [PolicyNext]_policyVars
  BY DEF ConsoleNext, consoleVars, Rest

LEMMA SettingsPart == [ConsoleNext]_consoleVars => [SettingsNext]_settingsVars
  BY DEF ConsoleNext, consoleVars, Rest

LEMMA ProxyPart == [ConsoleNext]_consoleVars => [ProxyNext]_proxyVars
  BY DEF ConsoleNext, consoleVars, Rest

LEMMA FormsPart == [ConsoleNext]_consoleVars => [FormsNext]_formVars
  BY DEF ConsoleNext, consoleVars, Rest

LEMMA AccessPart == [ConsoleNext]_consoleVars => [AccessNext]_accessVars
  BY DEF ConsoleNext, consoleVars, Rest

LEMMA MonitorPart == [ConsoleNext]_consoleVars => [MonitorStep \/ InstallStep]_monitorVars
  BY DEF ConsoleNext, consoleVars, Rest

LEMMA TablePart == [ConsoleNext]_consoleVars => [TableNext]_tableVars
  BY DEF ConsoleNext, consoleVars, Rest

-----------------------------------------------------------------------------
(* The card policies.                                                        *)

\* The request a confirmed edit makes, of a card the page shows so.
PutFor(edit, c, row) ==
  [card |-> c, guard |-> cardPolicyGuardFor(edit),
   body |-> IF edit.kind = "remove" THEN NoRow ELSE SaveBody(edit, row),
   edit |-> edit, from |-> row]

PolicyTypes ==
  /\ policies \in [Cards -> PolicyRows \cup {NoRow}]
  /\ seen \in [Cards -> PolicyRows \cup {NoRow}]
  /\ proposed # NoEdit => proposed.card \in Cards /\ Edit(proposed.kind, proposed.value) \in AnyEdit
  /\ \A q \in put : \E edit \in AnyEdit, c \in Cards, row \in PolicyRows \cup {NoRow} :
                      q = PutFor(edit, c, row)

LEMMA EditIsPair == ASSUME NEW edit \in AnyEdit PROVE edit = Edit(edit.kind, edit.value)
<1>1. CASE edit \in {Edit("add", ""), Edit("remove", "")}
  BY <1>1 DEF Edit
<1>2. CASE edit \in {Edit("cellular", b) : b \in BOOLEAN}
  <2>1. PICK b \in BOOLEAN : edit = [kind |-> "cellular", value |-> b]
    BY <1>2, Zenon DEF Edit
  <2> QED BY <2>1 DEF Edit
<1>3. CASE edit \in {Edit("vertical", v) : v \in Verticals}
  BY <1>3 DEF Edit
<1>4. CASE edit \in {Edit("capability", d) : d \in Declarations}
  BY <1>4 DEF Edit
<1> QED BY <1>1, <1>2, <1>3, <1>4 DEF AnyEdit

\* The edits there are.
LEMMA EditKinds ==
    ASSUME NEW edit \in AnyEdit
    PROVE  \/ edit.kind \in {"add", "remove"}
           \/ edit.kind = "cellular" /\ edit.value \in BOOLEAN
           \/ edit.kind = "vertical" /\ edit.value \in Verticals
           \/ edit.kind = "capability" /\ edit.value \in Declarations
<1>1. CASE edit \in {Edit("add", ""), Edit("remove", "")}
  <2>1. edit = [kind |-> "add", value |-> ""] \/ edit = [kind |-> "remove", value |-> ""]
    BY <1>1 DEF Edit
  <2>2. ASSUME edit = [kind |-> "add", value |-> ""] PROVE edit.kind = "add"
    BY <2>2
  <2>3. ASSUME edit = [kind |-> "remove", value |-> ""] PROVE edit.kind = "remove"
    BY <2>3
  <2> QED BY <2>1, <2>2, <2>3, Zenon
<1>2. CASE edit \in {Edit("cellular", b) : b \in BOOLEAN}
  <2>1. PICK b \in BOOLEAN : edit = [kind |-> "cellular", value |-> b]
    BY <1>2, Zenon DEF Edit
  <2>2. edit.kind = "cellular"
    BY <2>1
  <2>3. edit.value \in BOOLEAN
    BY <2>1, Zenon
  <2> QED BY <2>2, <2>3, Zenon
<1>3. CASE edit \in {Edit("vertical", v) : v \in Verticals}
  BY <1>3 DEF Edit
<1>4. CASE edit \in {Edit("capability", d) : d \in Declarations}
  BY <1>4 DEF Edit
<1> QED BY <1>1, <1>2, <1>3, <1>4 DEF AnyEdit

\* The body of a save is a row, with the field of the edit set and the others
\* those of the row it was made from.
LEMMA SaveBodyIsRow ==
    ASSUME NEW edit \in AnyEdit, edit.kind # "remove", NEW row \in PolicyRows \cup {NoRow}
    PROVE  /\ SaveBody(edit, row) \in PolicyRows
           /\ edit.kind \in {"cellular", "vertical", "capability"} =>
                /\ SaveBody(edit, row)[edit.kind] = edit.value
                /\ row # NoRow => SaveBody(edit, row) = [row EXCEPT ![edit.kind] = edit.value]
<1>0. NoRow \notin PolicyRows
  BY PolicyAssumption
<1>1. CASE edit.kind = "add"
  BY <1>0, <1>1 DEF SaveBody, cardPolicyPatch, declared, PolicyRows, Verticals, Declarations
<1>2. CASE edit.kind = "cellular" /\ edit.value \in BOOLEAN
  BY <1>0, <1>2 DEF SaveBody, cardPolicyPatch, declared, PolicyRows, Verticals, Declarations
<1>3. CASE edit.kind = "vertical" /\ edit.value \in Verticals
  <2>1. cardPolicyPatch(edit) = [f \in {"vertical"} |-> edit.value]
    BY <1>3 DEF cardPolicyPatch
  <2>2. CASE row = NoRow
    BY <1>0, <1>3, <2>1, <2>2 DEF SaveBody, declared, PolicyRows, Declarations
  <2>3. CASE row \in PolicyRows
    <3>1. SaveBody(edit, row) = [cellular |-> row.cellular, vertical |-> edit.value, capability |-> row.capability]
      BY <1>0, <2>1, <2>3 DEF SaveBody, declared
    <3>2. SaveBody(edit, row) \in PolicyRows
      BY <3>1, <1>3, <2>3 DEF PolicyRows
    <3>3. SaveBody(edit, row) = [row EXCEPT !.vertical = edit.value]
      BY <3>1, <2>3 DEF PolicyRows
    <3> QED BY <3>1, <3>2, <3>3, <1>3
  <2> QED BY <2>2, <2>3
<1>4. CASE edit.kind = "capability" /\ edit.value \in Declarations
  <2>1. cardPolicyPatch(edit) = [f \in {"capability"} |-> edit.value]
    BY <1>4 DEF cardPolicyPatch
  <2>2. CASE row = NoRow
    BY <1>0, <1>4, <2>1, <2>2 DEF SaveBody, declared, PolicyRows, Verticals
  <2>3. CASE row \in PolicyRows
    <3>1. SaveBody(edit, row) = [cellular |-> row.cellular, vertical |-> row.vertical, capability |-> edit.value]
      BY <1>0, <2>1, <2>3 DEF SaveBody, declared
    <3>2. SaveBody(edit, row) \in PolicyRows
      BY <3>1, <1>4, <2>3 DEF PolicyRows
    <3>3. SaveBody(edit, row) = [row EXCEPT !.capability = edit.value]
      BY <3>1, <2>3 DEF PolicyRows
    <3> QED BY <3>1, <3>2, <3>3, <1>4
  <2> QED BY <2>2, <2>3
<1> QED BY <1>1, <1>2, <1>3, <1>4, EditKinds

LEMMA PolicyStep == PolicyTypes /\ [ConsoleNext]_consoleVars => PolicyTypes'
<1> SUFFICES ASSUME PolicyTypes, [PolicyNext]_policyVars PROVE PolicyTypes'
  BY PolicyPart
<1> USE DEF PolicyTypes
<1>1. ASSUME NEW c \in Cards, NEW edit \in AnyEdit, Propose(c, edit) PROVE PolicyTypes'
  <2>1. edit = Edit(edit.kind, edit.value)
    BY EditIsPair
  <2>2. proposed'.card = c /\ Edit(proposed'.kind, proposed'.value) = edit
    BY <1>1, <2>1 DEF Propose
  <2> QED BY <1>1, <2>2 DEF Propose
<1>2. ASSUME NEW c \in Cards, NEW edit \in AnyEdit, PolicyElsewhere(c, edit) PROVE PolicyTypes'
  <2>1. policies[c] \in PolicyRows \cup {NoRow}
    OBVIOUS
  <2>2. edit.kind # "remove" => SaveBody(edit, policies[c]) \in PolicyRows
    BY <2>1, SaveBodyIsRow
  <2> QED BY <1>2, <2>2 DEF PolicyElsewhere
<1>3. CASE DismissProposal
  BY <1>3 DEF DismissProposal
<1>4. CASE ConfirmProposal
  <2> DEFINE edit == Edit(proposed.kind, proposed.value)
             row == seen[proposed.card]
  <2>1. edit \in AnyEdit /\ proposed.card \in Cards /\ row \in PolicyRows \cup {NoRow}
    BY <1>4 DEF ConfirmProposal
  <2>2. put' = {PutFor(edit, proposed.card, row)}
    BY <1>4 DEF ConfirmProposal, PutFor
  <2>3. UNCHANGED <<policies, seen>> /\ proposed' = NoEdit
    BY <1>4 DEF ConfirmProposal
  <2> HIDE DEF edit, row
  <2> QED BY <2>1, <2>2, <2>3
<1>5. ASSUME NEW q \in put, StorePolicy(q) PROVE policies' \in [Cards -> PolicyRows \cup {NoRow}]
  <2>1. PICK edit \in AnyEdit, c \in Cards, row \in PolicyRows \cup {NoRow} : q = PutFor(edit, c, row)
    OBVIOUS
  <2>2. q.card = c /\ q.body \in PolicyRows \cup {NoRow}
    BY <2>1, SaveBodyIsRow DEF PutFor
  <2> QED BY <1>5, <2>2 DEF StorePolicy
<1>6. CASE PolicyAnswered
  BY <1>5, <1>6 DEF PolicyAnswered
<1>7. CASE PolicyBroken
  BY <1>5, <1>7 DEF PolicyBroken
<1>8. CASE PolicyRefreshed
  BY <1>8 DEF PolicyRefreshed
<1>9. CASE UNCHANGED policyVars
  BY <1>9 DEF policyVars
<1> QED BY <1>1, <1>2, <1>3, <1>4, <1>6, <1>7, <1>8, <1>9 DEF PolicyNext

LEMMA PutForIsTheEdit == PolicyTypes => SavedIsTheEdit
<1> SUFFICES ASSUME PolicyTypes, NEW q \in put
             PROVE  /\ q.guard = "remove" <=> q.body = NoRow
                    /\ q.guard \in {"cellularOn", "cellularOff"} => (q.guard = "cellularOn" <=> q.body.cellular)
                    /\ q.edit.kind \in {"cellular", "vertical", "capability"} /\ q.from = policies[q.card] /\ q.from # NoRow
                         => q.body = [policies[q.card] EXCEPT ![q.edit.kind] = q.edit.value]
  BY DEF SavedIsTheEdit
<1>0. NoRow \notin PolicyRows
  BY PolicyAssumption
<1>1. PICK edit \in AnyEdit, c \in Cards, row \in PolicyRows \cup {NoRow} : q = PutFor(edit, c, row)
  BY DEF PolicyTypes
<1>2. /\ q.guard = cardPolicyGuardFor(edit) /\ q.edit = edit /\ q.from = row /\ q.card = c
      /\ q.body = IF edit.kind = "remove" THEN NoRow ELSE SaveBody(edit, row)
  BY <1>1 DEF PutFor
<1>3. q.guard = "remove" <=> edit.kind = "remove"
  BY <1>2, EditKinds DEF cardPolicyGuardFor
<1>4. q.guard \in {"cellularOn", "cellularOff"} => edit.kind = "cellular" /\ (q.guard = "cellularOn" <=> edit.value)
  BY <1>2, EditKinds DEF cardPolicyGuardFor
<1>5. edit.kind = "cellular" => q.body.cellular = edit.value
  BY <1>2, SaveBodyIsRow
<1> QED BY <1>0, <1>2, <1>3, <1>4, <1>5, SaveBodyIsRow

\* What is sent for a card is the edit that was asked about, and nothing else
\* changes, whatever is stored or refreshed meanwhile (save, removePolicy).
THEOREM SavedEditsAreTheirs == ConsoleSpec => []SavedIsTheEdit
<1>1. ConsoleInit => PolicyTypes
  <2> SUFFICES ASSUME PolicyInit PROVE PolicyTypes
    BY DEF ConsoleInit
  <2>1. [cellular |-> FALSE, vertical |-> "cn", capability |-> "undeclared"] \in PolicyRows
        /\ [cellular |-> TRUE, vertical |-> "cn", capability |-> "no"] \in PolicyRows
    BY DEF PolicyRows, Verticals, Declarations
  <2> QED BY <2>1 DEF PolicyInit, PolicyTypes
<1> QED BY <1>1, PolicyStep, PutForIsTheEdit, PTL DEF ConsoleSpec

-----------------------------------------------------------------------------
(* The settings form.                                                        *)

StoredDocs == [on : BOOLEAN, limit : {0, 1}, secret : Secrets \cup {Nothing}]
SentDocs == [on : BOOLEAN, limit : {0, 1}, secret : Secrets \cup {Marker, Nothing}]
Boxes == [on : BOOLEAN, limit : {Blank, "0", "1"}, secret : Secrets \cup {Marker, Blank}]

\* The marker may stand in the boxes and in what is sent, not in what the
\* gateway has merged.
SettingsTypes ==
  /\ stored \in StoredDocs /\ values \in Boxes
  /\ asking.about = "save" => asking.doc \in SentDocs
  /\ request.step = "sent" => request.doc \in SentDocs
  /\ request.step = "merged" => request.doc \in StoredDocs

LEMMA SettingsStep == SettingsTypes /\ [ConsoleNext]_consoleVars => SettingsTypes'
<1> SUFFICES ASSUME SettingsTypes, [SettingsNext]_settingsVars PROVE SettingsTypes'
  BY SettingsPart
<1> USE DEF SettingsTypes, NoDialog, NoRequest
<1>1. ASSUME NEW s \in Secrets \cup {Blank}, ChangeSecret(s) PROVE SettingsTypes'
  BY <1>1 DEF ChangeSecret, Boxes
<1>2. CASE ChangeOther
  <2>1. CASE values' = [values EXCEPT !.on = ~@]
    <3>1. (~values.on) \in BOOLEAN
      OBVIOUS
    <3>2. values' \in Boxes
      BY <2>1, <3>1 DEF Boxes
    <3> QED BY <1>2, <3>2 DEF ChangeOther
  <2>2. CASE \E n \in {Blank, "1"} : values' = [values EXCEPT !.limit = n]
    <3>1. values' \in Boxes
      BY <2>2 DEF Boxes, Blank
    <3> QED BY <1>2, <3>1 DEF ChangeOther
  <2> QED BY <1>2, <2>1, <2>2 DEF ChangeOther
<1>3. CASE AskSave
  BY <1>3 DEF AskSave, settingsDocument, coerceSettingValue, Boxes, SentDocs, Blank
<1>4. CASE AskTest
  BY <1>4 DEF AskTest
<1>5. CASE ConfirmSettings
  BY <1>5 DEF ConfirmSettings
<1>6. CASE CancelSettings \/ TestAnswered
  BY <1>6 DEF CancelSettings, TestAnswered
<1>7. CASE ReadStored
  <2>1. Merge(request.doc, stored) \in StoredDocs
    BY <1>7 DEF ReadStored, Merge, StoredDocs, SentDocs
  <2> QED BY <1>7, <2>1 DEF ReadStored
<1>8. CASE SettingsSaved \/ SettingsBroken
  BY <1>8 DEF SettingsSaved, SettingsBroken, PutStored
<1>9. ASSUME NEW s \in Secrets \cup {Nothing}, SavedElsewhere(s) PROVE SettingsTypes'
  BY <1>9 DEF SavedElsewhere, StoredDocs
<1>10. ASSUME NEW loaded \in BOOLEAN, LoadSettings(loaded) PROVE SettingsTypes'
  BY <1>10 DEF LoadSettings, settingsFormValues, Redact, BoxText, Boxes, StoredDocs, Blank
<1>11. CASE UNCHANGED settingsVars
  BY <1>11 DEF settingsVars
<1> QED BY <1>1, <1>2, <1>3, <1>4, <1>5, <1>6, <1>7, <1>8, <1>9, <1>10, <1>11 DEF SettingsNext

\* The dots never become the credential (Merge).
THEOREM DotsAreNeverStored == ConsoleSpec => []MarkerNeverStored
<1>1. ConsoleInit => SettingsTypes
  <2> SUFFICES ASSUME SettingsInit PROVE SettingsTypes
    BY DEF ConsoleInit
  <2>1. stored \in StoredDocs
    BY DEF SettingsInit, StoredDocs
  <2>2. values \in Boxes
    BY DEF SettingsInit, Boxes, Blank, settingsFormValues, Redact, BoxText
  <2> QED BY <2>1, <2>2 DEF SettingsInit, SettingsTypes, NoDialog, NoRequest
<1>2. SettingsTypes => MarkerNeverStored
  BY DEF SettingsTypes, StoredDocs, MarkerNeverStored
<1> QED BY <1>1, <1>2, SettingsStep, PTL DEF ConsoleSpec

\* What is stored is what was edited, on both pages that edit stored rows (save,
\* removePolicy, Merge).
THEOREM EditsStaySafe == ConsoleSpec => []EditsSafe
<1>1. SavedIsTheEdit /\ MarkerNeverStored => EditsSafe
  BY DEF EditsSafe
<1> QED BY <1>1, SavedEditsAreTheirs, DotsAreNeverStored, PTL

-----------------------------------------------------------------------------
(* The connection monitor and the install offer.                             *)

Monitors == [online : BOOLEAN, failures : Nat, timers : Nat]
Offers == [state : {"installed", "promptable", "ios-guide", "unavailable"}, held : BOOLEAN,
           asking : BOOLEAN, dismissed : BOOLEAN, standalone : BOOLEAN, platform : {"ios", "other"}]

MonitorInv == monitor \in Monitors /\ offer \in Offers /\ MonitorSafe

\* Whatever has changed of a monitor that probed as it should, publishing it
\* arms or disarms the one interval.
LEMMA PublishArms ==
    ASSUME NEW m \in Monitors, m.timers \in {0, 1}
    PROVE  /\ publish(m) \in Monitors
           /\ publish(m).timers = IF connectionView(publish(m)) THEN 1 ELSE 0
  BY MonitorAssumption DEF publish, schedule, connectionView, Monitors

LEMMA MonitorInvStep == MonitorInv /\ [ConsoleNext]_consoleVars => MonitorInv'
<1> SUFFICES ASSUME MonitorInv, [MonitorStep \/ InstallStep]_monitorVars PROVE MonitorInv'
  BY MonitorPart
<1>0. monitor \in Monitors /\ monitor.timers \in {0, 1} /\ offer \in Offers
      /\ ProbesWhileLost /\ InstallButtonWorks
  BY DEF MonitorInv, MonitorSafe, ProbesWhileLost
<1>m. ASSUME monitor' = monitor \/ \E m \in Monitors : m.timers \in {0, 1} /\ monitor' = publish(m)
      PROVE  monitor' \in Monitors /\ ProbesWhileLost'
  BY <1>0, <1>m, PublishArms DEF ProbesWhileLost
<1>o. ASSUME UNCHANGED offer PROVE offer' \in Offers /\ InstallButtonWorks'
  BY <1>0, <1>o DEF InstallButtonWorks, Offered
<1>1. CASE MonitorStep
  <2>1. UNCHANGED offer
    BY <1>1 DEF MonitorStep, WatchedFetch, ProbeTick, Settles, Aborted, NetworkGoes, NetworkReturns, Renewed
  <2>2. monitor' = monitor \/ \E m \in Monitors : m.timers \in {0, 1} /\ monitor' = publish(m)
    <3>1. CASE WatchedFetch \/ ProbeTick \/ Aborted
      BY <3>1 DEF WatchedFetch, ProbeTick, Aborted
    <3>2. CASE Settles
      <4>1. [monitor EXCEPT !.failures = 0, !.online = TRUE] \in Monitors
            /\ [monitor EXCEPT !.failures = 0, !.online = TRUE].timers = monitor.timers
        BY <1>0 DEF Monitors
      <4>2. [monitor EXCEPT !.failures = IF @ < LOST_AFTER_FAILURES THEN @ + 1 ELSE @] \in Monitors
            /\ [monitor EXCEPT !.failures = IF @ < LOST_AFTER_FAILURES THEN @ + 1 ELSE @].timers = monitor.timers
        BY <1>0 DEF Monitors
      <4>3. monitor' \in {monitor, noteReachable(monitor), noteUnreachable(monitor)}
        BY <3>2 DEF Settles
      <4> QED BY <1>0, <4>1, <4>2, <4>3 DEF noteReachable, noteUnreachable
    <3>3. ASSUME NEW noticed \in BOOLEAN, NetworkGoes(noticed) \/ NetworkReturns(noticed)
          PROVE  monitor' = monitor \/ \E m \in Monitors : m.timers \in {0, 1} /\ monitor' = publish(m)
      <4>1. [monitor EXCEPT !.online = FALSE] \in Monitors /\ [monitor EXCEPT !.online = FALSE].timers = monitor.timers
        BY <1>0 DEF Monitors
      <4>2. monitor' \in {monitor, publish([monitor EXCEPT !.online = FALSE])}
        BY <3>3 DEF NetworkGoes, NetworkReturns
      <4> QED BY <1>0, <4>1, <4>2
    <3>4. ASSUME NEW onLine \in BOOLEAN, Renewed(onLine)
          PROVE  \E m \in Monitors : m.timers \in {0, 1} /\ monitor' = publish(m)
      <4> DEFINE m == [online |-> onLine, failures |-> 0, timers |-> stop(monitor).timers]
      <4>1. stop(monitor).timers = 0
        BY <1>0 DEF stop, Monitors
      <4>2. m \in Monitors /\ m.timers = 0
        BY <4>1 DEF Monitors
      <4>3. monitor' = publish(m)
        BY <3>4 DEF Renewed, createConnectionMonitor, publish
      <4> HIDE DEF m
      <4> QED BY <4>2, <4>3
    <3> QED BY <1>1, <3>1, <3>2, <3>3, <3>4 DEF MonitorStep
  <2> QED BY <2>1, <2>2, <1>m, <1>o DEF MonitorInv, MonitorSafe
<1>2. CASE InstallStep
  <2>1. UNCHANGED monitor
    BY <1>2 DEF InstallStep, BeforeInstallPrompt, AppInstalled, Install, DismissOffer, UserChoice
  <2>2. offer' \in Offers /\ InstallButtonWorks'
    BY <1>0, <1>2 DEF InstallStep, BeforeInstallPrompt, AppInstalled, Install, DismissOffer, UserChoice,
                      installState, InstallButtonWorks, Offered, Offers
  <2> QED BY <2>1, <2>2, <1>m DEF MonitorInv, MonitorSafe
<1>3. CASE UNCHANGED monitorVars
  BY <1>3, <1>m, <1>o DEF monitorVars, MonitorInv, MonitorSafe
<1> QED BY <1>1, <1>2, <1>3

\* The tab probes exactly while the banner is up, and an install button has
\* something to spend, whatever arrives in whatever order (lib/pwa.ts, pwa.tsx).
THEOREM MonitorStaysSafe == ConsoleSpec => []MonitorSafe
<1>1. ConsoleInit => MonitorInv
  <2> SUFFICES ASSUME MonitorInit PROVE MonitorInv
    BY DEF ConsoleInit
  <2>1. PICK onLine \in BOOLEAN : monitor = createConnectionMonitor(onLine, 0)
    BY DEF MonitorInit
  <2>2. monitor \in Monitors /\ ProbesWhileLost
    <3>1. [online |-> onLine, failures |-> 0, timers |-> 0] \in Monitors
      BY DEF Monitors
    <3>2. monitor = publish([online |-> onLine, failures |-> 0, timers |-> 0])
      BY <2>1 DEF createConnectionMonitor, publish
    <3> QED BY <3>1, <3>2, PublishArms DEF ProbesWhileLost
  <2>3. offer \in Offers /\ InstallButtonWorks
    <3>1. PICK standalone \in BOOLEAN, remembered \in BOOLEAN, platform \in {"ios", "other"} :
             offer = [state |-> installState(standalone, FALSE, platform), held |-> FALSE,
                      asking |-> FALSE, dismissed |-> remembered,
                      standalone |-> standalone, platform |-> platform]
      BY DEF MonitorInit
    <3>2. installState(standalone, FALSE, platform) \in {"installed", "ios-guide", "unavailable"}
      BY DEF installState
    <3> QED BY <3>1, <3>2 DEF InstallButtonWorks, Offered, Offers
  <2> QED BY <2>2, <2>3 DEF MonitorInv, MonitorSafe
<1>2. MonitorInv => MonitorSafe
  BY DEF MonitorInv
<1> QED BY <1>1, <1>2, MonitorInvStep, PTL DEF ConsoleSpec

-----------------------------------------------------------------------------
(* The forms over the fleet.                                                 *)

IsFormCall(q) ==
  q = [kind |-> q.kind, about |-> q.about, outcome |-> q.outcome, number |-> q.number, code |-> q.code]

\* The write the page waits for: the last one sent, and what its answer says has
\* happened.
AwaitedStands(q) ==
  /\ formBusy /\ q.kind = lastWrite.kind /\ q.about = lastWrite.about
  /\ q.outcome = "ok" =>
       /\ q.kind = "revoke" => q.about \in revoked
       /\ q.kind = "remove" => ~deviceKept
       /\ q.kind = "publish" => routed # {}
       /\ q.kind = "mint" => /\ q.code \in Nat /\ lastWrite.before < q.code /\ q.code <= minted
                            /\ \A n \in told : n <= q.code

FormsInv ==
  /\ minted \in Nat /\ lastWrite.before \in Nat /\ lastWrite.before <= minted
  /\ \A n \in told : n \in Nat /\ n <= minted
  /\ \A q \in formCalls : IsFormCall(q) /\ (q.outcome # "lost" => AwaitedStands(q))
  /\ \A p, q \in formCalls : p.outcome # "lost" /\ q.outcome # "lost" => p = q
  /\ FormsSafe

\* A request with its outcome, and the number of the last code when it was given.
Outcome(q, o, n) == [q EXCEPT !.outcome = o, !.code = n]

LEMMA HandledCall ==
    ASSUME NEW q, IsFormCall(q), NEW o, NEW n
    PROVE  /\ IsFormCall(Outcome(q, o, n)) /\ Outcome(q, o, n).kind = q.kind /\ Outcome(q, o, n).about = q.about
           /\ Outcome(q, o, n).outcome = o /\ Outcome(q, o, n).code = n
<1>1. PICK a : a = [q EXCEPT !.outcome = o]
  OBVIOUS
<1>2. a = [kind |-> q.kind, about |-> q.about, outcome |-> o, number |-> q.number, code |-> q.code]
  BY <1>1 DEF IsFormCall
<1>3. PICK b : b = [a EXCEPT !.code = n]
  OBVIOUS
<1>4. b = [kind |-> q.kind, about |-> q.about, outcome |-> o, number |-> q.number, code |-> n]
  BY <1>2, <1>3
<1>5. Outcome(q, o, n) = b
  BY <1>1, <1>3, Zenon DEF Outcome
<1>6. IsFormCall(b) /\ b.kind = q.kind /\ b.about = q.about /\ b.outcome = o /\ b.code = n
  BY <1>4 DEF IsFormCall
<1> QED BY <1>5, <1>6

\* What the gateway has done is not undone by the next write it accepts.
LEMMA AcceptGrows ==
    ASSUME FormsInv, NEW q, Accept(q)
    PROVE  /\ minted' \in Nat /\ minted' >= minted /\ revoked \subseteq revoked' /\ routed \subseteq routed'
           /\ (~deviceKept => ~deviceKept') /\ EmptyNeverPublished'
           /\ q.kind = "revoke" => q.about \in revoked'
           /\ q.kind = "remove" => ~deviceKept'
           /\ q.kind = "publish" => routed' # {}
           /\ q.kind = "mint" => minted' = minted + 1
<1>1. minted \in Nat /\ EmptyNeverPublished
  BY DEF FormsInv, FormsSafe
<1>2. CASE q.kind = "mint" /\ createEnrollmentCode
  BY <1>1, <1>2 DEF createEnrollmentCode, EmptyNeverPublished
<1>3. CASE q.kind = "revoke" /\ revoked' = revoked \cup {q.about}
             /\ UNCHANGED <<minted, liveCodes, deviceKept, ledger, routed>>
  BY <1>1, <1>3 DEF EmptyNeverPublished
<1>4. CASE q.kind = "rename" /\ UNCHANGED gatewayForms
  BY <1>1, <1>4 DEF gatewayForms, EmptyNeverPublished
<1>5. CASE q.kind = "remove" /\ deviceKept' = FALSE /\ UNCHANGED <<minted, liveCodes, revoked, ledger, routed>>
  BY <1>1, <1>5 DEF EmptyNeverPublished
<1>6. CASE q.kind = "save" /\ writeLedger(q.about)
  BY <1>1, <1>6 DEF writeLedger, EmptyNeverPublished
<1>7. CASE q.kind = "publish" /\ publishLedger
  BY <1>1, <1>7 DEF publishLedger, EmptyNeverPublished
<1> QED BY <1>2, <1>3, <1>4, <1>5, <1>6, <1>7 DEF Accept

\* Neither the gateway's records nor the answers change.
LEMMA FormsRests ==
    ASSUME FormsInv, UNCHANGED <<minted, revoked, deviceKept, routed, shownCode, told, drawnForms, formBusy,
                                 formError, formCalls, formRedraw, lastWrite>>
    PROVE  FormsInv'
  BY DEF FormsInv, AwaitedStands, IsFormCall, FormsSafe, SilenceMeansDone, ShownCodeIsNewest, EmptyNeverPublished

LEMMA FormSent ==
    ASSUME FormsInv, NEW kind, NEW about, SendForm(kind, about),
           UNCHANGED <<minted, revoked, deviceKept, routed, shownCode, told>>
    PROVE  FormsInv'
<1>a. PICK new : new = [kind |-> kind, about |-> about, outcome |-> "awaited", number |-> fleetCalls + 1, code |-> 0]
  OBVIOUS
<1>1. \A q \in formCalls : q.outcome = "lost" /\ IsFormCall(q)
  BY DEF FormsInv, SendForm, AwaitedStands
<1>2. formCalls' = formCalls \cup {new} /\ formBusy' /\ lastWrite' = Write(kind, about)
  BY <1>a DEF SendForm
<1>3. lastWrite'.kind = kind /\ lastWrite'.about = about /\ lastWrite'.before = minted
  BY <1>2 DEF Write
<1>4. IsFormCall(new) /\ new.kind = kind /\ new.about = about /\ new.outcome = "awaited"
  BY <1>a DEF IsFormCall
<1>5. AwaitedStands(new)'
  BY <1>2, <1>3, <1>4 DEF AwaitedStands
<1>6. FormsSafe'
  BY <1>2 DEF FormsInv, FormsSafe, SilenceMeansDone, ShownCodeIsNewest, EmptyNeverPublished
<1>7. minted' \in Nat /\ lastWrite'.before \in Nat /\ lastWrite'.before <= minted'
      /\ \A n \in told' : n \in Nat /\ n <= minted'
  BY <1>3 DEF FormsInv
<1>8. /\ \A q \in formCalls' : IsFormCall(q) /\ (q.outcome # "lost" => AwaitedStands(q)')
      /\ \A p, q \in formCalls' : p.outcome # "lost" /\ q.outcome # "lost" => p = q
  BY <1>1, <1>2, <1>4, <1>5
<1>9. \A q : IsFormCall(q)' <=> IsFormCall(q)
  BY DEF IsFormCall
<1> QED BY <1>6, <1>7, <1>8, <1>9 DEF FormsInv

\* The gateway handles a request, in time or late.
LEMMA HandledForm == FormsInv /\ FormHandled => FormsInv'
<1> SUFFICES ASSUME FormsInv, NEW q \in formCalls, q.outcome \in {"awaited", "lost"}, NEW o \in {"ok", "refused"},
                    IF o = "ok" THEN Accept(q) ELSE UNCHANGED gatewayForms,
                    formCalls' = (formCalls \ {q}) \cup
                      {r \in {Outcome(q, o, minted')} : q.outcome = "awaited"},
                    UNCHANGED <<shownCode, told, drawnForms, formBusy, formError, formRedraw, lastWrite>>
             PROVE  FormsInv'
  BY DEF FormHandled, pageForms, Outcome
<1>t. /\ minted \in Nat /\ lastWrite.before \in Nat /\ lastWrite.before <= minted
      /\ \A n \in told : n \in Nat /\ n <= minted
      /\ \A p \in formCalls : IsFormCall(p) /\ (p.outcome # "lost" => AwaitedStands(p))
      /\ \A p, b \in formCalls : p.outcome # "lost" /\ b.outcome # "lost" => p = b
      /\ SilenceMeansDone /\ ShownCodeIsNewest /\ EmptyNeverPublished
  BY DEF FormsInv, FormsSafe
<1>1. /\ minted' \in Nat /\ minted' >= minted /\ revoked \subseteq revoked' /\ routed \subseteq routed'
      /\ (~deviceKept => ~deviceKept') /\ EmptyNeverPublished'
  BY <1>t, AcceptGrows DEF gatewayForms, EmptyNeverPublished
<1>2. lastWrite'.before \in Nat /\ lastWrite'.before <= minted' /\ \A n \in told' : n \in Nat /\ n <= minted'
  BY <1>t, <1>1
<1>3. FormsSafe'
  <2>1. SilenceMeansDone'
    BY <1>t, <1>1 DEF SilenceMeansDone
  <2> QED BY <1>t, <1>1, <2>1 DEF FormsSafe, ShownCodeIsNewest
<1>4. ASSUME NEW p \in formCalls, p.outcome # "lost" PROVE AwaitedStands(p)'
  <2>1. AwaitedStands(p)
    BY <1>t, <1>4
  <2> QED BY <1>t, <1>1, <2>1 DEF AwaitedStands
<1>5. CASE q.outcome = "lost"
  <2>1. formCalls' = formCalls \ {q}
    BY <1>5
  <2> QED BY <1>t, <1>1, <1>2, <1>3, <1>4, <2>1 DEF FormsInv, IsFormCall
<1>6. CASE q.outcome = "awaited"
  <2>1. PICK n : n = minted'
    OBVIOUS
  <2>a. PICK r : r = Outcome(q, o, n)
    OBVIOUS
  <2>2. formCalls' = (formCalls \ {q}) \cup {r}
    BY <1>6, <2>1, <2>a
  <2>3. IsFormCall(r) /\ r.kind = q.kind /\ r.about = q.about /\ r.outcome = o /\ r.code = minted'
    BY <1>t, <2>1, <2>a, HandledCall
  <2>4. AwaitedStands(q) /\ \A p \in formCalls \ {q} : p.outcome = "lost"
    BY <1>t, <1>6
  <2>5. CASE o = "ok"
    <3>1. /\ q.kind = "revoke" => q.about \in revoked'
          /\ q.kind = "remove" => ~deviceKept'
          /\ q.kind = "publish" => routed' # {}
          /\ q.kind = "mint" => minted' = minted + 1
      BY <2>5, AcceptGrows
    <3>2. q.kind = "mint" => lastWrite.before < minted' /\ \A k \in told : k <= minted'
      BY <1>t, <3>1
    <3>3. AwaitedStands(r)'
      BY <1>1, <2>3, <2>4, <3>1, <3>2 DEF AwaitedStands
    <3> QED BY <1>t, <1>1, <1>2, <1>3, <2>2, <2>3, <2>4, <3>3 DEF FormsInv, IsFormCall
  <2>6. CASE o = "refused"
    <3>1. AwaitedStands(r)'
      BY <2>3, <2>4, <2>6 DEF AwaitedStands
    <3> QED BY <1>t, <1>1, <1>2, <1>3, <2>2, <2>3, <2>4, <3>1 DEF FormsInv, IsFormCall
  <2> QED BY <2>5, <2>6
<1> QED BY <1>5, <1>6

\* The answer is read before the page does anything with it.
LEMMA AnsweredForm == FormsInv /\ FormAnswered => FormsInv'
<1> SUFFICES ASSUME FormsInv, NEW q \in formCalls, formCalls' = formCalls \ {q}, formBusy' = FALSE,
                    \/ q.outcome = "ok" /\ FormDone(q)
                    \/ q.outcome = "refused" /\ formError' = TRUE /\ UNCHANGED <<pageForms, formRedraw>>,
                    UNCHANGED <<gatewayForms, drawnForms, lastWrite>>
             PROVE  FormsInv'
  BY DEF FormAnswered
<1>t. /\ minted \in Nat /\ lastWrite.before \in Nat /\ lastWrite.before <= minted
      /\ \A n \in told : n \in Nat /\ n <= minted
      /\ \A p \in formCalls : IsFormCall(p) /\ (p.outcome # "lost" => AwaitedStands(p))
      /\ \A p, b \in formCalls : p.outcome # "lost" /\ b.outcome # "lost" => p = b
      /\ SilenceMeansDone /\ ShownCodeIsNewest /\ EmptyNeverPublished
  BY DEF FormsInv, FormsSafe
<1>1. AwaitedStands(q) /\ \A p \in formCalls' : p.outcome = "lost" /\ IsFormCall(p)
  BY <1>t
<1>2. UNCHANGED <<minted, revoked, deviceKept, routed, drawnForms, lastWrite>>
  BY DEF gatewayForms
<1>3. EmptyNeverPublished'
  BY <1>t, <1>2 DEF EmptyNeverPublished
<1>4. CASE q.outcome = "refused" /\ formError' = TRUE /\ UNCHANGED <<pageForms, formRedraw>>
  <2>1. UNCHANGED <<shownCode, told>> /\ formError'
    BY <1>4 DEF pageForms
  <2>2. SilenceMeansDone' /\ ShownCodeIsNewest'
    BY <1>t, <2>1 DEF SilenceMeansDone, ShownCodeIsNewest
  <2> QED BY <1>t, <1>1, <1>2, <1>3, <2>1, <2>2 DEF FormsInv, FormsSafe, IsFormCall
<1>5. CASE q.outcome = "ok" /\ FormDone(q)
  <2>1. /\ shownCode' = IF q.kind = "mint" THEN q.code ELSE shownCode
        /\ told' = IF q.kind = "mint" THEN told \cup {q.code} ELSE told
    BY <1>5 DEF FormDone
  <2>2. q.kind = "revoke" => formRedraw'
    BY <1>5 DEF FormDone
  <2>3. /\ q.kind = "revoke" => q.about \in revoked
        /\ q.kind = "remove" => ~deviceKept
        /\ q.kind = "publish" => routed # {}
        /\ q.kind = "mint" => /\ q.code \in Nat /\ lastWrite.before < q.code /\ q.code <= minted
                             /\ \A n \in told : n <= q.code
        /\ q.kind = lastWrite.kind /\ q.about = lastWrite.about
    BY <1>1, <1>5 DEF AwaitedStands
  <2>4. SilenceMeansDone'
    BY <1>2, <2>1, <2>2, <2>3 DEF SilenceMeansDone
  <2>5. ShownCodeIsNewest' /\ \A n \in told' : n \in Nat /\ n <= minted'
    BY <1>t, <1>2, <2>1, <2>3 DEF ShownCodeIsNewest
  <2> QED BY <1>t, <1>1, <1>2, <1>3, <2>4, <2>5 DEF FormsInv, FormsSafe, IsFormCall
<1> QED BY <1>4, <1>5

\* A broken connection leaves an error, or the page busy.
LEMMA BrokenForm == FormsInv /\ FormBroken => FormsInv'
<1> SUFFICES ASSUME FormsInv, NEW q \in formCalls, q.outcome # "lost",
                    formCalls' = (formCalls \ {q}) \cup
                      {r \in {[q EXCEPT !.outcome = "lost"]} : q.outcome = "awaited"},
                    formBusy' = (q.kind \notin {"mint", "revoke"}),
                    formError' = (formError \/ q.kind \in {"mint", "revoke"}),
                    UNCHANGED <<minted, revoked, deviceKept, routed, shownCode, told, drawnForms, formRedraw, lastWrite>>
             PROVE  FormsInv'
  BY DEF FormBroken, gatewayForms, pageForms
<1>t. /\ \A p \in formCalls : IsFormCall(p)
      /\ \A p, b \in formCalls : p.outcome # "lost" /\ b.outcome # "lost" => p = b
      /\ ShownCodeIsNewest /\ EmptyNeverPublished
  BY DEF FormsInv, FormsSafe
<1>1. formBusy' \/ formError'
  OBVIOUS
<1>2. FormsSafe'
  BY <1>t, <1>1 DEF FormsSafe, SilenceMeansDone, ShownCodeIsNewest, EmptyNeverPublished
<1>3. \A p \in formCalls' : IsFormCall(p) /\ p.outcome = "lost"
  <2>1. PICK r : r = [q EXCEPT !.outcome = "lost"]
    OBVIOUS
  <2>2. IsFormCall(r) /\ r.outcome = "lost"
    BY <1>t, <2>1 DEF IsFormCall
  <2>3. \A p \in formCalls' : p = r \/ p \in formCalls \ {q}
    BY <2>1
  <2> QED BY <1>t, <2>2, <2>3
<1>4. /\ minted' \in Nat /\ lastWrite'.before \in Nat /\ lastWrite'.before <= minted'
      /\ \A n \in told' : n \in Nat /\ n <= minted'
  BY DEF FormsInv
<1> QED BY <1>2, <1>3, <1>4 DEF FormsInv, IsFormCall

LEMMA FormsStep == FormsInv /\ [FormsNext]_formVars => FormsInv'
<1> SUFFICES ASSUME FormsInv, [FormsNext]_formVars PROVE FormsInv'
  OBVIOUS
<1>1. CASE mint \/ revoke \/ renameOrRemove \/ saveLedger \/ ConfirmPublish
  BY <1>1, FormSent DEF mint, revoke, renameOrRemove, saveLedger, ConfirmPublish, pageForms, gatewayForms
<1>2. CASE CancelForms \/ AskPublish \/ (\E c \in Certs : AskRevoke(c))
           \/ (\E p \in Pairings, v \in Verdicts : TypeLedger(p, v)) \/ FleetElsewhere \/ UNCHANGED formVars
  BY <1>2, FormsRests DEF CancelForms, AskPublish, AskRevoke, TypeLedger, FleetElsewhere, formVars, gatewayForms,
                          pageForms
<1>3. CASE FormsRedrawn
  <2>1. UNCHANGED <<minted, revoked, deviceKept, routed, shownCode, told, formBusy, formError, formCalls, lastWrite>>
    BY <1>3 DEF FormsRedrawn, gatewayForms, pageForms
  <2>2. drawnForms'.revoked = revoked
    BY <1>3 DEF FormsRedrawn, Served
  <2>3. FormsSafe'
    BY <2>1, <2>2 DEF FormsInv, FormsSafe, SilenceMeansDone, ShownCodeIsNewest, EmptyNeverPublished
  <2> QED BY <2>1, <2>3 DEF FormsInv, AwaitedStands, IsFormCall
<1> QED BY <1>1, <1>2, <1>3, HandledForm, AnsweredForm, BrokenForm DEF FormsNext

\* A form that is neither busy nor showing an error has had its last press carried
\* out; the code shown is the newest; no empty ledger is given out (enrollment.tsx,
\* device-admin.tsx, support-ledger.tsx), although dialogs close at the press and
\* lost requests arrive late.
THEOREM FormsStaySafe == ConsoleSpec => []FormsSafe
<1>1. ConsoleInit => FormsInv
  <2> SUFFICES ASSUME FormsRest PROVE FormsInv
    BY DEF ConsoleInit, FormsInit
  <2>1. lastWrite.kind = "none" /\ lastWrite.before = 0
    BY DEF FormsRest, Write
  <2> QED BY <2>1 DEF FormsRest, FormsInv, FormsSafe, SilenceMeansDone, ShownCodeIsNewest, EmptyNeverPublished
<1>2. FormsInv => FormsSafe
  BY DEF FormsInv
<1>3. FormsInv /\ [ConsoleNext]_consoleVars => FormsInv'
  BY FormsPart, FormsStep
<1> QED BY <1>1, <1>2, <1>3, PTL DEF ConsoleSpec

-----------------------------------------------------------------------------
(* Requests that fail, and the page that is open.                            *)

\* A request was answered, or one more failed.
FaultsCounted == faults' = faults \/ faults' = faults + 1

LEMMA PolicyKeeps == PolicyNext => FaultsCounted /\ page' = page
  BY DEF PolicyNext, Propose, PolicyElsewhere, DismissProposal, ConfirmProposal, PolicyAnswered, PolicyBroken,
         PolicyRefreshed, ConnectionHolds, ConnectionBreaks, FaultsCounted

LEMMA SettingsKeeps == SettingsNext => FaultsCounted /\ page' = page
  BY DEF SettingsNext, ChangeSecret, ChangeOther, AskSave, AskTest, ConfirmSettings, CancelSettings, TestAnswered,
         ReadStored, SettingsSaved, SettingsBroken, SavedElsewhere, LoadSettings,
         ConnectionHolds, ConnectionBreaks, FaultsCounted

LEMMA EsimKeeps == EsimNext => FaultsCounted /\ page' = page
<1> SUFFICES ASSUME EsimNext PROVE ConnectionHolds \/ ConnectionBreaks
  BY DEF ConnectionHolds, ConnectionBreaks, FaultsCounted
<1>1. CASE PanelOperator
  BY <1>1 DEF PanelOperator, PanelRead, PanelRowAction, PanelRename, PanelTypeCode, PanelDownload, PanelProceed,
              PanelCancel, PanelReload
<1>2. CASE PanelAccepted \/ PanelRefused \/ PanelBroken \/ ChipTick \/ PanelPollTimer
  BY <1>2 DEF PanelAccepted, PanelRefused, PanelBroken, ChipTick, PanelPollTimer
<1>3. CASE DeviceStep
  BY <1>3 DEF DeviceStep, DeviceExecutes
<1>4. CASE RefreshStep
  BY <1>4 DEF RefreshStep, RefreshWhole, RefreshKinds
<1>5. ASSUME NEW q \in panelPolls, RefreshBroken(q) PROVE ConnectionHolds \/ ConnectionBreaks
  BY <1>5 DEF RefreshBroken
<1> QED BY <1>1, <1>2, <1>3, <1>4, <1>5 DEF EsimNext

LEMMA InboxKeeps == InboxNext => FaultsCounted /\ page' = page
  BY DEF InboxNext, Pick, SubmitSms, CancelSms, sendMessage, SmsAnswered, SmsBroken, LiveReload, FleetMoves,
         ConnectionHolds, ConnectionBreaks, FaultsCounted

LEMMA ThreadKeeps == ThreadNext => FaultsCounted /\ page' \in {page, "inbox"}
  BY DEF ThreadNext, Arrives, MarkRead, MarkAnswered, MarkLost, ThreadRedrawn, AskErase, CancelErase, Erase,
         EraseAnswered, EraseBroken, EditName, NameAnswered, NameBroken,
         ConnectionHolds, ConnectionBreaks, FaultsCounted

LEMMA ProxyKeeps == ProxyNext => FaultsCounted /\ page' = page
  BY DEF ProxyNext, PressAtOnce, AskProxy, CancelProxy, ProceedProxy, ProxyHandled, ProxyAnswered, PushFails,
         ProxyBroken, ProxyLate, ProxyRedrawn, ExportRun, ExportAnswered, ExportBroken, ExportHide, ConnectionHolds, ConnectionBreaks, FaultsCounted

LEMMA FormsKeep == FormsNext => FaultsCounted /\ page' \in {page, "devices"}
  BY DEF FormsNext, mint, revoke, CancelForms, renameOrRemove, saveLedger, AskPublish, ConfirmPublish, AskRevoke,
         TypeLedger, FleetElsewhere, FormHandled, FormAnswered, FormDone, FormBroken, FormsRedrawn,
         ConnectionHolds, ConnectionBreaks, FaultsCounted

LEMMA JournalKeeps == JournalNext => FaultsCounted /\ page' = page
  BY DEF JournalNext, expand, PayloadFetched, PayloadLost, Reports, ConnectionHolds, ConnectionBreaks, FaultsCounted

LEMMA MonitorKeeps == MonitorStep \/ InstallStep => FaultsCounted /\ page' = page
  BY DEF MonitorStep, InstallStep, WatchedFetch, ProbeTick, Settles, Aborted, NetworkGoes, NetworkReturns, Renewed,
         BeforeInstallPrompt, AppInstalled, Install, DismissOffer, UserChoice,
         ConnectionHolds, ConnectionBreaks, FaultsCounted

LEMMA TableKeeps == TableNext => FaultsCounted /\ page' = page
  BY DEF TableNext, TableServed, ReadingChanges, ConnectionHolds, FaultsCounted

LEMMA LoadsKeep == LoadsNext => FaultsCounted /\ page' = page
  BY DEF LoadsNext, ReadFails, ReadTimesOut, Caught, ReadAnswered, Search, ConnectionHolds, FaultsCounted

\* Everything a request to the middleware may come to.
LEMMA AccessKeeps == AccessNext => FaultsCounted /\ page' = page
  BY DEF AccessNext, Visit, SignIn, SignOutPressed, middleware, Pass, loginRoute, logoutRoute,
         DirectoryRead, resolve, LookupGivenUp, SignBroken, SessionExpires, DirectoryEdited,
         ConnectionHolds, ConnectionBreaks, FaultsCounted

\* A failed request is counted once, and a page leads only where it should: a
\* conversation to the inbox, a form to the device list.
LEMMA ConsoleKeeps ==
    [ConsoleNext]_consoleVars =>
      /\ FaultsCounted
      /\ page' = page \/ (page = "thread" /\ page' = "inbox") \/ (page \in formPages /\ page' = "devices")
<1> SUFFICES ASSUME [ConsoleNext]_consoleVars
             PROVE  /\ FaultsCounted
                    /\ page' = page \/ (page = "thread" /\ page' = "inbox") \/ (page \in formPages /\ page' = "devices")
  OBVIOUS
<1>1. CASE UNCHANGED consoleVars
  BY <1>1 DEF consoleVars, FaultsCounted
<1> QED BY <1>1, PolicyKeeps, SettingsKeeps, EsimKeeps, InboxKeeps, ThreadKeeps, ProxyKeeps, FormsKeep, JournalKeeps,
           MonitorKeeps, TableKeeps, LoadsKeep, AccessKeeps DEF ConsoleNext

-----------------------------------------------------------------------------
(* The proxy page.                                                           *)

ProxyVerbs == {"none", "start", "probe", "addUpstream", "addListener", "putRule",
               "stop", "restart", "removeListener", "removeUpstream", "removeRule"}
ProxyThings == Listeners \cup Upstreams \cup Countries \cup {Direct}
ProxyActs == [verb : ProxyVerbs, on : ProxyThings, via : ProxyThings]
Lifecycles == [verb : ProxyVerbs, on : ProxyThings, press : Nat, lost : BOOLEAN]
IsProxyCall(q) ==
  q = [act |-> q.act, press |-> q.press, lost |-> q.lost, stored |-> q.stored, push |-> q.push]

\* The three tables, and the rows they refer to.
IsProxyRows(served) ==
  /\ served = [upstreams |-> served.upstreams, listeners |-> served.listeners, rules |-> served.rules]
  /\ served.upstreams \subseteq ProxyThings
  /\ DOMAIN served.listeners \subseteq ProxyThings /\ DOMAIN served.rules \subseteq ProxyThings

ChainsStandIn(served) ==
  /\ \A l \in DOMAIN served.listeners : served.listeners[l] \in served.upstreams \cup {Direct}
  /\ \A c \in DOMAIN served.rules : served.rules[c] \in served.upstreams \cup {Direct}

ProxyTypes ==
  /\ IsProxyRows(proxyRows) /\ IsProxyRows(drawnProxy) /\ ChainsStandIn(proxyRows)
  /\ presses \in Nat /\ proxyPending \in ProxyActs /\ faults \in Nat
  /\ \A q \in proxyCalls : /\ IsProxyCall(q) /\ q.act \in ProxyActs /\ q.lost \in BOOLEAN
                           /\ q.press \in Nat /\ q.press <= presses

\* The page waits for one write at most, the last one pressed, with busy set; the
\* others, whose connection broke, were pressed before it.
OneAwaited ==
  /\ \A q \in proxyCalls : ~q.lost => q.press = presses /\ proxyBusy
  /\ \A p, q \in proxyCalls : p.press = q.press => p = q
  /\ proxyPending # NoAct => ~proxyBusy

\* What is queued for the listeners was pressed before the write that is awaited.
QueuedEarlier ==
  /\ lifecycle \in Seq(Lifecycles)
  /\ \A i \in DOMAIN lifecycle : lifecycle[i].press <= presses
  /\ \A q \in proxyCalls : ~q.lost /\ ~q.stored => \A i \in DOMAIN lifecycle : lifecycle[i].press < presses

\* Where nothing failed, no request travels unwatched, and what the device was last
\* told is what is stored, or about to be told.
PushedIsTold ==
  /\ \A q \in proxyCalls : ~q.stored => q.push = {}
  /\ faults = 0 =>
       /\ \A q \in proxyCalls : ~q.lost /\ q.push \subseteq {DOMAIN proxyRows.listeners}
       /\ configured = DOMAIN proxyRows.listeners \/ \E q \in proxyCalls : q.push # {}

ProxyInv == ProxyTypes /\ OneAwaited /\ QueuedEarlier /\ LifecycleInOrder /\ PushedIsTold

\* Whatever write the gateway takes, it leaves tables whose references stand.
LEMMA StoredStands ==
    ASSUME IsProxyRows(proxyRows), ChainsStandIn(proxyRows), NEW act \in ProxyActs, Acceptable(act)
    PROVE  IsProxyRows(Stored(proxyRows, act)) /\ ChainsStandIn(Stored(proxyRows, act))
<1> USE DEF IsProxyRows, ChainsStandIn, ProxyActs
<1>0. act.on \in ProxyThings /\ act.via \in ProxyThings
  OBVIOUS
<1>1. CASE act.verb = "addUpstream"
  <2>1. Stored(proxyRows, act) = [proxyRows EXCEPT !.upstreams = @ \cup {act.on}]
    BY <1>1 DEF Stored
  <2> QED BY <2>1, <1>0
<1>2. CASE act.verb = "removeUpstream"
  <2>1. Stored(proxyRows, act) = deleteUpstream(proxyRows, act.on)
    BY <1>2 DEF Stored
  <2> QED BY <2>1, <1>0 DEF deleteUpstream
<1>3. CASE act.verb = "addListener"
  <2>1. Stored(proxyRows, act) = [proxyRows EXCEPT !.listeners = With(@, act.on, act.via)]
        /\ act.via \in proxyRows.upstreams \cup {Direct}
    BY <1>3 DEF Stored, Acceptable
  <2> QED BY <2>1, <1>0 DEF With
<1>4. CASE act.verb = "removeListener"
  <2>1. Stored(proxyRows, act) = [proxyRows EXCEPT !.listeners = Without(@, act.on)]
    BY <1>4 DEF Stored
  <2> QED BY <2>1 DEF Without
<1>5. CASE act.verb = "putRule"
  <2>1. Stored(proxyRows, act) = [proxyRows EXCEPT !.rules = With(@, act.on, act.via)]
        /\ act.via \in proxyRows.upstreams \cup {Direct}
    BY <1>5 DEF Stored, Acceptable
  <2> QED BY <2>1, <1>0 DEF With
<1>6. CASE act.verb = "removeRule"
  <2>1. Stored(proxyRows, act) = [proxyRows EXCEPT !.rules = Without(@, act.on)]
    BY <1>6 DEF Stored
  <2> QED BY <2>1 DEF Without
<1>7. CASE act.verb \in ProxyVerbs \ {"addUpstream", "removeUpstream", "addListener", "removeListener",
                                      "putRule", "removeRule"}
  <2>1. Stored(proxyRows, act) = proxyRows
    BY <1>7 DEF Stored
  <2> QED BY <2>1
<1> QED BY <1>1, <1>2, <1>3, <1>4, <1>5, <1>6, <1>7 DEF ProxyVerbs

LEMMA OfferedIsAct ==
    ASSUME IsProxyRows(drawnProxy)
    PROVE  AtOnce \subseteq ProxyActs /\ Asks \subseteq ProxyActs
  BY DEF AtOnce, Asks, Act, ProxyActs, ProxyVerbs, ProxyThings, IsProxyRows

\* A write that is not announced leaves the listeners there are.
LEMMA UnannouncedKeeps ==
    ASSUME IsProxyRows(proxyRows), NEW act \in ProxyActs, Acceptable(act), ~Pushes(act)
    PROVE  DOMAIN Stored(proxyRows, act).listeners = DOMAIN proxyRows.listeners
<1> USE DEF IsProxyRows, ProxyActs
<1>1. CASE act.verb = "addUpstream"
  BY <1>1 DEF Stored
<1>2. CASE act.verb = "removeUpstream"
  BY <1>2 DEF Stored, deleteUpstream
<1>3. CASE act.verb = "removeListener"
  <2>1. Stored(proxyRows, act) = [proxyRows EXCEPT !.listeners = Without(@, act.on)]
    BY <1>3 DEF Stored
  <2>2. act.on \notin DOMAIN proxyRows.listeners
    BY <1>3 DEF Pushes
  <2> QED BY <2>1, <2>2 DEF Without
<1>4. CASE act.verb = "putRule"
  BY <1>4 DEF Stored
<1>5. CASE act.verb = "removeRule"
  BY <1>5 DEF Stored
<1>6. CASE act.verb \in ProxyVerbs \ {"addUpstream", "removeUpstream", "addListener", "removeListener",
                                      "putRule", "removeRule"}
  BY <1>6 DEF Stored
<1>7. act.verb # "addListener"
  BY DEF Pushes
<1> QED BY <1>1, <1>2, <1>3, <1>4, <1>5, <1>6, <1>7 DEF ProxyVerbs

LEMMA StoredCall ==
    ASSUME NEW q, IsProxyCall(q), NEW t
    PROVE  [q EXCEPT !.stored = TRUE, !.push = t]
             = [act |-> q.act, press |-> q.press, lost |-> q.lost, stored |-> TRUE, push |-> t]
<1>1. PICK a : a = [q EXCEPT !.stored = TRUE]
  OBVIOUS
<1>2. a = [act |-> q.act, press |-> q.press, lost |-> q.lost, stored |-> TRUE, push |-> q.push]
  BY <1>1 DEF IsProxyCall
<1>s. PICK yes : yes = TRUE
  OBVIOUS
<1>l. PICK l : l = q.lost
  OBVIOUS
<1>4. a = [act |-> q.act, press |-> q.press, lost |-> l, stored |-> yes, push |-> q.push]
  BY <1>2, <1>s, <1>l, Zenon
<1>5. [a EXCEPT !.push = t] = [act |-> q.act, press |-> q.press, lost |-> l, stored |-> yes, push |-> t]
  BY <1>4
<1>3. [a EXCEPT !.push = t] = [act |-> q.act, press |-> q.press, lost |-> q.lost, stored |-> TRUE, push |-> t]
  BY <1>5, <1>s, <1>l, Zenon
<1> QED BY <1>1, <1>3, Zenon

\* Nothing of the gateway's or of the writes on their way changes.
LEMMA ProxyRests ==
    ASSUME ProxyInv, faults' = faults \/ faults' = faults + 1,
           UNCHANGED <<proxyRows, lifecycle, configured, proxyCalls, proxyBusy, presses>>,
           IsProxyRows(drawnProxy'), proxyPending' \in ProxyActs, proxyPending' # NoAct => ~proxyBusy
    PROVE  ProxyInv'
<1>1. ProxyTypes'
  BY DEF ProxyInv, ProxyTypes
<1>2. OneAwaited' /\ QueuedEarlier' /\ LifecycleInOrder'
  BY DEF ProxyInv, OneAwaited, QueuedEarlier, LifecycleInOrder
<1>3. faults' = 0 => faults = 0
  BY DEF ProxyInv, ProxyTypes
<1>4. PushedIsTold'
  BY <1>3 DEF ProxyInv, PushedIsTold
<1> QED BY <1>1, <1>2, <1>4 DEF ProxyInv

\* A press: the page waited for nothing.
LEMMA ProxyPressed ==
    ASSUME ProxyInv, NEW act \in ProxyActs, ~proxyBusy, call(act), proxyPending' = NoAct, NoAct \in ProxyActs,
           UNCHANGED <<proxyRows, lifecycle, configured, drawnProxy, faults>>
    PROVE  ProxyInv'
<1> DEFINE new == [act |-> act, press |-> presses + 1, lost |-> FALSE, stored |-> FALSE, push |-> {}]
<1>1. proxyCalls' = proxyCalls \cup {new} /\ proxyBusy' = TRUE /\ presses' = presses + 1
  BY DEF call
<1>2. IsProxyCall(new) /\ new.act = act /\ new.press = presses + 1 /\ new.push = {} /\ ~new.lost /\ ~new.stored
      /\ new.lost \in BOOLEAN
  BY DEF IsProxyCall
<1>3. \A q \in proxyCalls : q.lost
  BY DEF ProxyInv, OneAwaited
<1> HIDE DEF new
<1>4. ProxyTypes'
  <2>1. presses \in Nat /\ \A q \in proxyCalls : q.press \in Nat /\ q.press <= presses + 1
    BY DEF ProxyInv, ProxyTypes
  <2> QED BY <1>1, <1>2, <2>1 DEF ProxyInv, ProxyTypes
<1>5. OneAwaited'
  <2>1. \A q \in proxyCalls : q.press # presses + 1
    BY DEF ProxyInv, ProxyTypes
  <2>2. \A p, q \in proxyCalls' : p.press = q.press => p = q
    BY <1>1, <1>2, <2>1 DEF ProxyInv, OneAwaited
  <2> QED BY <1>1, <1>2, <1>3, <2>2 DEF OneAwaited
<1>6. \A i \in DOMAIN lifecycle : lifecycle[i].press < presses + 1 /\ lifecycle[i].press <= presses + 1
  <2> SUFFICES ASSUME NEW i \in DOMAIN lifecycle
               PROVE  lifecycle[i].press < presses + 1 /\ lifecycle[i].press <= presses + 1
    OBVIOUS
  <2>1. lifecycle[i] \in Lifecycles
    BY DEF ProxyInv, QueuedEarlier
  <2>2. lifecycle[i].press \in Nat /\ lifecycle[i].press <= presses /\ presses \in Nat
    BY <2>1 DEF Lifecycles, ProxyInv, QueuedEarlier, ProxyTypes
  <2> QED BY <2>2
<1>7. QueuedEarlier' /\ LifecycleInOrder'
  BY <1>1, <1>6 DEF ProxyInv, QueuedEarlier, LifecycleInOrder
<1>8. PushedIsTold'
  BY <1>1, <1>2 DEF ProxyInv, PushedIsTold
<1> QED BY <1>4, <1>5, <1>7, <1>8 DEF ProxyInv

\* The gateway carries a write out, in time or late.
LEMMA HandledKeeps == ProxyInv /\ ProxyHandled => ProxyInv'
<1> SUFFICES ASSUME ProxyInv, NEW q \in proxyCalls, ~q.stored, Acceptable(q.act),
                    proxyRows' = Stored(proxyRows, q.act), instanceAction(q),
                    proxyCalls' = (proxyCalls \ {q}) \cup
                      {[q EXCEPT !.stored = TRUE,
                                 !.push = IF Pushes(q.act) THEN {DOMAIN proxyRows'.listeners} ELSE {}]},
                    UNCHANGED <<configured, drawnProxy, proxyPending, proxyBusy, presses, faults>>
             PROVE  ProxyInv'
  BY DEF ProxyHandled, ConnectionHolds
<1>t. ProxyTypes /\ OneAwaited /\ QueuedEarlier /\ LifecycleInOrder /\ PushedIsTold
  BY DEF ProxyInv
<1>q. IsProxyCall(q) /\ q.act \in ProxyActs /\ q.press \in Nat /\ q.press <= presses /\ q.lost \in BOOLEAN
      /\ IsProxyRows(proxyRows) /\ ChainsStandIn(proxyRows) /\ presses \in Nat
  BY <1>t DEF ProxyTypes
<1>p. PICK t : t = IF Pushes(q.act) THEN {DOMAIN proxyRows'.listeners} ELSE {}
  OBVIOUS
<1>r. PICK r : r = [act |-> q.act, press |-> q.press, lost |-> q.lost, stored |-> TRUE, push |-> t]
  OBVIOUS
<1>1. proxyCalls' = (proxyCalls \ {q}) \cup {r}
  BY <1>q, <1>p, <1>r, StoredCall
<1>2. IsProxyCall(r) /\ r.act = q.act /\ r.press = q.press /\ r.lost = q.lost /\ r.push = t
  BY <1>r DEF IsProxyCall
<1>3. r.stored
  BY <1>r
<1>4. IsProxyRows(proxyRows') /\ ChainsStandIn(proxyRows')
  BY <1>q, StoredStands
<1>5. ProxyTypes'
  BY <1>t, <1>q, <1>1, <1>2, <1>4 DEF ProxyTypes
<1>6. OneAwaited'
  <2>1. \A b \in proxyCalls' : ~b.lost => b.press = presses /\ proxyBusy
    BY <1>t, <1>1, <1>2 DEF OneAwaited
  <2>2. \A b, d \in proxyCalls' : b.press = d.press => b = d
    BY <1>t, <1>1, <1>2 DEF OneAwaited
  <2> QED BY <1>t, <2>1, <2>2 DEF OneAwaited
<1>7. QueuedEarlier' /\ LifecycleInOrder'
  <2>1. lifecycle' = lifecycle \/ \E e \in Lifecycles : /\ e.press = q.press /\ e.lost = q.lost
                                                       /\ lifecycle' = Append(lifecycle, e)
    <3>1. CASE q.act.verb \in {"start", "stop", "restart"}
      <4>1. PICK e : e = [verb |-> q.act.verb, on |-> q.act.on, press |-> q.press, lost |-> q.lost]
        OBVIOUS
      <4>2. q.act.verb \in ProxyVerbs /\ q.act.on \in ProxyThings
        BY <1>q DEF ProxyActs
      <4>3. e \in Lifecycles /\ e.press = q.press /\ e.lost = q.lost
        BY <1>q, <4>1, <4>2 DEF Lifecycles
      <4>4. lifecycle' = Append(lifecycle, e)
        BY <3>1, <4>1 DEF instanceAction
      <4> QED BY <4>3, <4>4
    <3>2. CASE q.act.verb \notin {"start", "stop", "restart"}
      BY <3>2 DEF instanceAction
    <3> QED BY <3>1, <3>2
  <2>2. CASE lifecycle' = lifecycle
    <3>1. \A b \in proxyCalls' : ~b.stored => b \in proxyCalls
      BY <1>1, <1>3
    <3> QED BY <1>t, <2>2, <3>1 DEF QueuedEarlier, LifecycleInOrder
  <2>3. ASSUME NEW e \in Lifecycles, e.press = q.press, e.lost = q.lost, lifecycle' = Append(lifecycle, e)
        PROVE  QueuedEarlier' /\ LifecycleInOrder'
    <3>0. lifecycle \in Seq(Lifecycles)
      BY <1>t DEF QueuedEarlier
    <3>1. lifecycle' \in Seq(Lifecycles) /\ Len(lifecycle') = Len(lifecycle) + 1
          /\ (\A i \in 1 .. Len(lifecycle) : lifecycle'[i] = lifecycle[i]) /\ lifecycle'[Len(lifecycle) + 1] = e
      BY <2>3, <3>0
    <3>2. \A i \in DOMAIN lifecycle' : lifecycle'[i].press <= presses
      BY <1>t, <1>q, <2>3, <3>0, <3>1 DEF QueuedEarlier
    <3>3. ASSUME NEW b \in proxyCalls', ~b.lost, ~b.stored
          PROVE  \A i \in DOMAIN lifecycle' : lifecycle'[i].press < presses
      <4>1. b \in proxyCalls /\ b # q
        BY <1>1, <1>3, <3>3
      <4>2. b.press = presses
        BY <1>t, <3>3, <4>1 DEF OneAwaited
      <4>3. q.press < presses
        BY <1>t, <1>q, <4>1, <4>2 DEF OneAwaited
      <4>4. \A i \in DOMAIN lifecycle : lifecycle[i].press < presses
        BY <1>t, <3>3, <4>1 DEF QueuedEarlier
      <4> QED BY <2>3, <3>0, <3>1, <4>3, <4>4
    <3>4. LifecycleInOrder'
      <4> SUFFICES ASSUME NEW i \in DOMAIN lifecycle', NEW j \in DOMAIN lifecycle', i < j
                   PROVE  lifecycle'[i].press < lifecycle'[j].press \/ lifecycle'[j].lost
        BY DEF LifecycleInOrder
      <4>1. i \in 1 .. Len(lifecycle) /\ i \in DOMAIN lifecycle
        BY <3>0, <3>1
      <4>2. CASE j \in 1 .. Len(lifecycle)
        BY <1>t, <3>0, <3>1, <4>1, <4>2 DEF LifecycleInOrder
      <4>3. CASE j = Len(lifecycle) + 1 /\ q.lost
        BY <2>3, <3>1, <4>3
      <4>4. CASE j = Len(lifecycle) + 1 /\ ~q.lost
        <5>1. q.press = presses /\ lifecycle[i].press < presses
          BY <1>t, <4>1, <4>4 DEF OneAwaited, QueuedEarlier
        <5> QED BY <2>3, <3>1, <4>1, <4>4, <5>1
      <4> QED BY <3>0, <3>1, <4>2, <4>3, <4>4
    <3> QED BY <3>1, <3>2, <3>3, <3>4 DEF QueuedEarlier
  <2> QED BY <2>1, <2>2, <2>3
<1>8. PushedIsTold'
  <2>1. \A b \in proxyCalls' : ~b.stored => b.push = {}
    BY <1>t, <1>1, <1>3 DEF PushedIsTold
  <2>2. ASSUME faults = 0
        PROVE  /\ \A b \in proxyCalls' : ~b.lost /\ b.push \subseteq {DOMAIN proxyRows'.listeners}
               /\ configured = DOMAIN proxyRows'.listeners \/ \E b \in proxyCalls' : b.push # {}
    <3>1. proxyCalls = {q} /\ ~q.lost
      BY <1>t, <2>2 DEF PushedIsTold, OneAwaited
    <3>2. proxyCalls' = {r}
      BY <1>1, <3>1
    <3>3. ~r.lost /\ r.push \subseteq {DOMAIN proxyRows'.listeners}
      BY <1>p, <1>2, <3>1
    <3>4. CASE Pushes(q.act)
      BY <1>p, <1>2, <3>2, <3>3, <3>4
    <3>5. CASE ~Pushes(q.act)
      <4>1. DOMAIN proxyRows'.listeners = DOMAIN proxyRows.listeners
        BY <1>q, <3>5, UnannouncedKeeps
      <4>2. configured = DOMAIN proxyRows.listeners
        BY <1>t, <2>2, <3>1 DEF PushedIsTold
      <4> QED BY <3>2, <3>3, <4>1, <4>2
    <3> QED BY <3>4, <3>5
  <2> QED BY <2>1, <2>2 DEF PushedIsTold
<1> QED BY <1>5, <1>6, <1>7, <1>8 DEF ProxyInv

\* The answer comes, and with it the page's redrawing or an error.
LEMMA AnsweredKeeps == ProxyInv /\ ProxyAnswered => ProxyInv'
<1> SUFFICES ASSUME ProxyInv, NEW q \in proxyCalls, ~q.lost,
                    proxyCalls' = proxyCalls \ {q}, proxyBusy' = FALSE,
                    \/ q.stored /\ ((pushProxyConfig(q) /\ ConnectionHolds) \/ PushFails(q))
                    \/ ~q.stored /\ UNCHANGED configured /\ ConnectionHolds,
                    UNCHANGED <<proxyRows, lifecycle, drawnProxy, proxyPending, presses>>
             PROVE  ProxyInv'
  BY DEF ProxyAnswered
<1>t. ProxyTypes /\ OneAwaited /\ QueuedEarlier /\ LifecycleInOrder /\ PushedIsTold
  BY DEF ProxyInv
<1>1. faults' = faults \/ faults' = faults + 1
  BY DEF PushFails, ConnectionHolds, ConnectionBreaks
<1>2. faults' \in Nat /\ (faults' = 0 => faults = 0 /\ ~PushFails(q))
  BY <1>t, <1>1 DEF ProxyTypes, PushFails, ConnectionBreaks
<1>3. ProxyTypes'
  BY <1>t, <1>2 DEF ProxyTypes
<1>4. \A b \in proxyCalls' : b.lost
  BY <1>t DEF OneAwaited
<1>5. OneAwaited' /\ QueuedEarlier' /\ LifecycleInOrder'
  BY <1>t, <1>4 DEF OneAwaited, QueuedEarlier, LifecycleInOrder
<1>6. PushedIsTold'
  <2>1. ASSUME faults' = 0
        PROVE  /\ \A b \in proxyCalls' : ~b.lost /\ b.push \subseteq {DOMAIN proxyRows.listeners}
               /\ configured' = DOMAIN proxyRows.listeners
    <3>1. proxyCalls = {q} /\ q.push \subseteq {DOMAIN proxyRows.listeners}
      BY <1>t, <1>2, <1>4, <2>1 DEF PushedIsTold
    <3>2. CASE q.push = {}
      <4>1. configured = DOMAIN proxyRows.listeners
        BY <1>t, <1>2, <2>1, <3>1, <3>2 DEF PushedIsTold
      <4>2. configured' = configured
        BY <1>2, <2>1, <3>2 DEF pushProxyConfig
      <4> QED BY <3>1, <4>1, <4>2
    <3>3. CASE q.push # {}
      <4>1. q.push = {DOMAIN proxyRows.listeners}
        BY <3>1, <3>3
      <4>2. q.stored
        BY <1>t, <3>3 DEF PushedIsTold
      <4>3. pushProxyConfig(q)
        BY <1>2, <2>1, <4>2
      <4>4. configured' \in q.push
        BY <3>3, <4>3 DEF pushProxyConfig
      <4> QED BY <3>1, <4>1, <4>4
    <3> QED BY <3>2, <3>3
  <2> QED BY <1>t, <2>1 DEF PushedIsTold
<1> QED BY <1>3, <1>5, <1>6 DEF ProxyInv

\* fetch rejects: the request goes on, and nobody waits for it.
LEMMA BrokenKeeps == ProxyInv /\ ProxyBroken => ProxyInv'
<1> SUFFICES ASSUME ProxyInv, NEW q \in proxyCalls, ~q.lost,
                    proxyCalls' = (proxyCalls \ {q}) \cup {[q EXCEPT !.lost = TRUE]}, proxyBusy' = FALSE,
                    UNCHANGED <<proxyRows, lifecycle, configured, drawnProxy, proxyPending, presses>>,
                    faults' = faults + 1
             PROVE  ProxyInv'
  BY DEF ProxyBroken, ConnectionBreaks
<1>t. ProxyTypes /\ OneAwaited /\ QueuedEarlier /\ LifecycleInOrder /\ PushedIsTold
  BY DEF ProxyInv
<1>q. IsProxyCall(q) /\ q.act \in ProxyActs /\ q.press \in Nat /\ q.press <= presses
  BY <1>t DEF ProxyTypes
<1>r. PICK r : r = [act |-> q.act, press |-> q.press, lost |-> TRUE, stored |-> q.stored, push |-> q.push]
  OBVIOUS
<1>1. proxyCalls' = (proxyCalls \ {q}) \cup {r}
  BY <1>q, <1>r DEF IsProxyCall
<1>2. IsProxyCall(r) /\ r.act = q.act /\ r.press = q.press /\ r.stored = q.stored /\ r.push = q.push
  BY <1>r DEF IsProxyCall
<1>3. r.lost /\ r.lost \in BOOLEAN
  BY <1>r
<1>4. ProxyTypes'
  <2>1. ASSUME NEW b \in proxyCalls'
        PROVE  IsProxyCall(b) /\ b.act \in ProxyActs /\ b.lost \in BOOLEAN /\ b.press \in Nat /\ b.press <= presses
    <3>1. CASE b = r
      BY <1>q, <1>2, <1>3, <3>1
    <3>2. CASE b \in proxyCalls
      BY <1>t, <3>2 DEF ProxyTypes
    <3> QED BY <1>1, <3>1, <3>2
  <2>2. \A b : IsProxyCall(b)' <=> IsProxyCall(b)
    BY DEF IsProxyCall
  <2>3. IsProxyRows(proxyRows)' /\ IsProxyRows(drawnProxy)' /\ ChainsStandIn(proxyRows)' /\ faults' \in Nat
        /\ presses' \in Nat /\ proxyPending' \in ProxyActs
    BY <1>t DEF ProxyTypes, IsProxyRows, ChainsStandIn
  <2> QED BY <2>1, <2>2, <2>3 DEF ProxyTypes
<1>5. \A b \in proxyCalls' : b.lost
  BY <1>t, <1>1, <1>3 DEF OneAwaited
<1>6. \A b, d \in proxyCalls' : b.press = d.press => b = d
  BY <1>t, <1>1, <1>2 DEF OneAwaited
<1>7. OneAwaited' /\ QueuedEarlier' /\ LifecycleInOrder'
  BY <1>t, <1>5, <1>6 DEF OneAwaited, QueuedEarlier, LifecycleInOrder
<1>8. faults' # 0
  BY <1>t DEF ProxyTypes
<1>9. PushedIsTold'
  BY <1>t, <1>1, <1>2, <1>8 DEF PushedIsTold
<1> QED BY <1>4, <1>7, <1>9 DEF ProxyInv

\* A request nobody waits for ends; something has failed before.
LEMMA LateKeeps == ProxyInv /\ ProxyLate => ProxyInv'
<1> SUFFICES ASSUME ProxyInv, NEW q \in proxyCalls, q.lost, proxyCalls' = proxyCalls \ {q},
                    UNCHANGED <<proxyRows, lifecycle, drawnProxy, proxyPending, proxyBusy, presses, faults>>
             PROVE  ProxyInv'
  BY DEF ProxyLate, ConnectionHolds
<1>t. ProxyTypes /\ OneAwaited /\ QueuedEarlier /\ LifecycleInOrder /\ PushedIsTold
  BY DEF ProxyInv
<1>1. faults # 0
  BY <1>t DEF PushedIsTold
<1>2. ProxyTypes'
  BY <1>t DEF ProxyTypes
<1>3. OneAwaited' /\ QueuedEarlier' /\ LifecycleInOrder'
  BY <1>t DEF OneAwaited, QueuedEarlier, LifecycleInOrder
<1>4. PushedIsTold'
  BY <1>t, <1>1 DEF PushedIsTold
<1> QED BY <1>2, <1>3, <1>4 DEF ProxyInv

LEMMA ProxyStep == ProxyInv /\ [ConsoleNext]_consoleVars => ProxyInv'
<1> SUFFICES ASSUME ProxyInv, [ProxyNext]_proxyVars, faults' = faults \/ faults' = faults + 1 PROVE ProxyInv'
  BY ProxyPart, ConsoleKeeps DEF FaultsCounted
<1>n. NoAct \in ProxyActs
  BY DEF NoAct, Act, ProxyActs, ProxyVerbs, ProxyThings
<1>t. IsProxyRows(drawnProxy) /\ IsProxyRows(proxyRows) /\ proxyPending \in ProxyActs
      /\ (proxyPending # NoAct => ~proxyBusy)
  BY DEF ProxyInv, ProxyTypes, OneAwaited
<1>1. ASSUME NEW act \in AtOnce, PressAtOnce(act) PROVE ProxyInv'
  BY <1>n, <1>t, <1>1, ProxyPressed, OfferedIsAct DEF PressAtOnce, ConnectionHolds
<1>2. ASSUME NEW act \in Asks, AskProxy(act) PROVE ProxyInv'
  BY <1>t, <1>2, ProxyRests, OfferedIsAct DEF AskProxy
<1>3. CASE CancelProxy
  BY <1>n, <1>t, <1>3, ProxyRests DEF CancelProxy
<1>4. CASE ProceedProxy
  BY <1>n, <1>t, <1>4, ProxyPressed DEF ProceedProxy, ConnectionHolds
<1>5. CASE ProxyRedrawn
  BY <1>t, <1>5, ProxyRests DEF ProxyRedrawn
<1>6. CASE ExportRun \/ ExportAnswered \/ ExportBroken \/ ExportHide
  BY <1>t, <1>6, ProxyRests DEF ExportRun, ExportAnswered, ExportBroken, ExportHide
<1>7. CASE UNCHANGED proxyVars
  BY <1>t, <1>7, ProxyRests DEF proxyVars
<1> QED BY <1>1, <1>2, <1>3, <1>4, <1>5, <1>6, <1>7, HandledKeeps, AnsweredKeeps, BrokenKeeps, LateKeeps
        DEF ProxyNext

\* Listeners are started and stopped in the order of the presses, but for the ones
\* reported as failed; the device is handed the listeners that are stored unless
\* something failed; and nothing chains through an upstream that is gone
\* (proxy-manager.tsx, proxy_routes.go, migration 0017).
THEOREM ProxyStaysSafe == ConsoleSpec => []ProxySafe
<1>1. ConsoleInit => ProxyInv
  <2> SUFFICES ASSUME ProxyInit, faults = 0 PROVE ProxyInv
    BY DEF ConsoleInit
  <2>1. IsProxyRows(proxyRows) /\ ChainsStandIn(proxyRows)
    BY DEF ProxyInit, IsProxyRows, ChainsStandIn, ProxyThings
  <2>2. NoAct \in ProxyActs
    BY DEF NoAct, Act, ProxyActs, ProxyVerbs, ProxyThings
  <2>3. lifecycle \in Seq(Lifecycles) /\ DOMAIN lifecycle = {}
    BY DEF ProxyInit
  <2>4. proxyCalls = {} /\ drawnProxy = proxyRows /\ presses = 0 /\ proxyPending = NoAct
        /\ configured = DOMAIN proxyRows.listeners
    BY DEF ProxyInit
  <2>5. ProxyTypes /\ OneAwaited /\ QueuedEarlier /\ LifecycleInOrder /\ PushedIsTold
    BY <2>1, <2>2, <2>3, <2>4 DEF ProxyTypes, OneAwaited, QueuedEarlier, LifecycleInOrder, PushedIsTold
  <2> QED BY <2>5 DEF ProxyInv
<1>2. ProxyInv => ProxySafe
  BY DEF ProxyInv, ProxyTypes, PushedIsTold, ProxySafe, DeviceIsTold, ChainsStand, ChainsStandIn
<1> QED BY <1>1, <1>2, ProxyStep, PTL DEF ConsoleSpec

-----------------------------------------------------------------------------
(* Tenants and sessions.                                                     *)

Requests == [path : {"page", "login", "logout"}, slug : Slugs, cookie : BOOLEAN, step : {"asking", "answered"},
             region : Regions \cup {NoTenant}, known : BOOLEAN, number : Nat]

AccessTypes ==
  /\ directory \in [Slugs -> Regions \cup {NoTenant}] /\ cache \in [Slugs -> Regions \cup {NoTenant}]
  /\ requests \subseteq Requests /\ arrivals \in Nat /\ faults \in Nat
  /\ cookie \in BOOLEAN

\* What was passed on is what is cached, and what is cached the directory has.
CacheDecides ==
  /\ \A a \in passedOn : a.slug \in Slugs /\ a.region # NoTenant /\ cache[a.slug] = a.region
  /\ \A s \in Slugs : cache[s] # NoTenant => directory[s] # NoTenant

\* What a request in the middleware has been told is still so; a sign-out was
\* sent by somebody whose tenant there is.
LookupsTruthful ==
  \A r \in requests :
    /\ r.known => directory[r.slug] # NoTenant
    /\ r.step = "answered" => /\ r.known => r.region # NoTenant
                              /\ r.region # NoTenant => directory[r.slug] # NoTenant
    /\ r.path # "page" => r.slug = TabTenant
    /\ r.path = "logout" => r.known

CookieHasTenant == cookie => directory[TabTenant] # NoTenant

AccessInv ==
  /\ AccessTypes /\ CacheDecides /\ LookupsTruthful /\ CookieHasTenant
  /\ KnownIsServed /\ SignOutEndsSession

\* The host of a request the middleware takes for a tenant's names one.
LEMMA TenantHosts ==
    ASSUME NEW host \in Hosts, classifyHost(host) = "tenant"
    PROVE  slugFromHost(host) \in Slugs
<1>1. CASE host \in {HostOf(<<>>, TRUE), HostOf(<<"www">>, TRUE)}
  BY <1>1 DEF classifyHost, slugFromHost, HostOf
<1>2. ASSUME NEW s \in Slugs, NEW ours \in BOOLEAN, host = HostOf(<<s>>, ours) PROVE slugFromHost(host) \in Slugs
  BY <1>2 DEF classifyHost, slugFromHost, HostOf
<1>3. ASSUME NEW s \in Slugs, host = HostOf(<<s, s>>, TRUE) PROVE slugFromHost(host) \in Slugs
  <2>1. host.labels = <<s, s>> /\ Len(host.labels) = 2 /\ host.labels \notin {<<>>, <<"www">>}
    BY <1>3 DEF HostOf
  <2>2. slugFromHost(host) = NoTenant
    BY <2>1 DEF slugFromHost
  <2>3. classifyHost(host) # "tenant"
    BY <2>1, <2>2 DEF classifyHost
  <2> QED BY <2>3
<1>4. \/ host \in {HostOf(<<>>, TRUE), HostOf(<<"www">>, TRUE)}
      \/ \E s \in Slugs : host = HostOf(<<s>>, TRUE)
      \/ \E s \in Slugs : host = HostOf(<<s>>, FALSE)
      \/ \E s \in Slugs : host = HostOf(<<s, s>>, TRUE)
  BY Zenon DEF Hosts
<1> QED BY <1>1, <1>2, <1>3, <1>4

LEMMA TabHost ==
    LET host == HostOf(<<TabTenant>>, TRUE) IN classifyHost(host) = "tenant" /\ slugFromHost(host) = TabTenant
<1>1. TabTenant # "www" /\ TabTenant # NoTenant
  BY AccessAssumption
<1> QED BY <1>1 DEF classifyHost, slugFromHost, HostOf

\* Serving a request of a known tenant keeps the session's part of the invariant.
LEMMA PassKeeps ==
    ASSUME AccessInv, NEW r, NEW slug \in Slugs, NEW region, Pass(r, slug, region),
           r.path # "page" => slug = TabTenant, directory[slug] # NoTenant, UNCHANGED directory
    PROVE  CookieHasTenant' /\ SignOutEndsSession' /\ cookie' \in BOOLEAN
<1>1. faults \in Nat /\ cookie \in BOOLEAN /\ CookieHasTenant /\ SignOutEndsSession
  BY DEF AccessInv, AccessTypes
<1>2. CASE r.path = "page" /\ UNCHANGED flowVars /\ ConnectionHolds
  BY <1>1, <1>2 DEF flowVars, ConnectionHolds, CookieHasTenant, SignOutEndsSession
<1>3. CASE r.path = "login" /\ loginRoute /\ ConnectionHolds
  <2>1. directory'[TabTenant] # NoTenant
    BY <1>3
  <2>2. CASE cookie' = TRUE /\ signedOut' = FALSE
    BY <2>1, <2>2, Zenon DEF CookieHasTenant, SignOutEndsSession
  <2>3. CASE UNCHANGED <<cookie, live, signedOut>>
    BY <1>1, <1>3, <2>1, <2>3, Zenon DEF ConnectionHolds, CookieHasTenant, SignOutEndsSession
  <2> QED BY <1>3, <2>2, <2>3 DEF loginRoute
<1>4. CASE r.path = "logout" /\ logoutRoute /\ SignOutDone
  <2>1. cookie' = FALSE
    BY <1>4 DEF logoutRoute
  <2>2. live' = FALSE \/ faults' # 0
    BY <1>1, <1>4 DEF logoutRoute, ConnectionBreaks
  <2> QED BY <2>1, <2>2, Zenon DEF CookieHasTenant, SignOutEndsSession
<1> QED BY <1>2, <1>3, <1>4 DEF Pass

\* So does turning one away, if something failed or nobody was signing out.
LEMMA RefuseKeeps ==
    ASSUME AccessInv, NEW r, Refuse(r), r.path = "logout" => faults' # 0,
           faults' = 0 => faults = 0, UNCHANGED directory
    PROVE  CookieHasTenant' /\ SignOutEndsSession' /\ cookie' \in BOOLEAN
  BY DEF AccessInv, AccessTypes, Refuse, SignOutDone, CookieHasTenant, SignOutEndsSession

LEMMA RequestTyped ==
    ASSUME AccessTypes, NEW path \in {"page", "login", "logout"}, NEW slug \in Slugs
    PROVE  /\ Request(path, slug) \in Requests
           /\ Request(path, slug).path = path /\ Request(path, slug).slug = slug
           /\ Request(path, slug).step = "asking"
           /\ Request(path, slug).known <=> directory[slug] # NoTenant
<1> DEFINE c == cookie /\ slug = TabTenant
           k == directory[slug] # NoTenant
<1>1. c \in BOOLEAN /\ k \in BOOLEAN
  OBVIOUS
<1>2. Request(path, slug) = [path |-> path, slug |-> slug, cookie |-> c, step |-> "asking",
                             region |-> NoTenant, known |-> k, number |-> arrivals]
  BY DEF Request
<1>3. arrivals \in Nat
  BY DEF AccessTypes
<1>4. Request(path, slug).known = k
  <2> HIDE DEF c, k
  <2> QED BY <1>2
<1>5. Request(path, slug) \in Requests /\ Request(path, slug).path = path /\ Request(path, slug).slug = slug
      /\ Request(path, slug).step = "asking"
  <2> HIDE DEF c, k
  <2> QED BY <1>1, <1>2, <1>3 DEF Requests
<1> QED BY <1>4, <1>5

LEMMA AnsweredTyped ==
    ASSUME NEW r \in Requests, NEW region \in Regions \cup {NoTenant}, NEW q,
           q = [r EXCEPT !.step = "answered", !.region = region]
    PROVE  /\ q \in Requests /\ q.step = "answered" /\ q.region = region
           /\ q.path = r.path /\ q.slug = r.slug /\ q.known = r.known
  BY DEF Requests

LEMMA AccessStep == AccessInv /\ [ConsoleNext]_consoleVars => AccessInv'
<1> SUFFICES ASSUME AccessInv, [ConsoleNext]_consoleVars PROVE AccessInv'
  OBVIOUS
<1>0. [AccessNext]_accessVars /\ FaultsCounted
  BY AccessPart, ConsoleKeeps
<1>a. /\ TabTenant \in Slugs /\ NoTenant \notin Slugs /\ NoTenant \notin Regions /\ MaxFaults > 0 /\ MaxFaults \in Nat
  BY AccessAssumption, FaultsAssumption
<1>t. /\ AccessTypes /\ CacheDecides /\ LookupsTruthful /\ CookieHasTenant /\ KnownIsServed /\ SignOutEndsSession
  BY DEF AccessInv
<1>f. faults \in Nat /\ faults' \in Nat /\ (faults' = 0 => faults = 0)
  BY <1>0, <1>t DEF AccessTypes, FaultsCounted
<1>m. ASSUME NEW path \in {"page", "login", "logout"}, NEW host, middleware(path, host),
             classifyHost(host) = "tenant" => slugFromHost(host) \in Slugs,
             path # "page" => classifyHost(host) = "tenant" /\ slugFromHost(host) = TabTenant,
             path = "logout" => cookie
      PROVE  AccessInv'
  <2> DEFINE slug == slugFromHost(host)
  <2>0. UNCHANGED <<directory, cache, dirEdits, turnedAway>> /\ arrivals' = arrivals + 1
    BY <1>m DEF middleware
  <2>1. CASE /\ classifyHost(host) # "tenant"
             /\ Refuse([path |-> path]) /\ UNCHANGED requests /\ ConnectionHolds
    <3>1. CookieHasTenant' /\ SignOutEndsSession' /\ cookie' \in BOOLEAN
      BY <1>f, <1>m, <2>0, <2>1, RefuseKeeps
    <3>2. UNCHANGED passedOn
      BY <2>1 DEF Refuse
    <3> QED BY <1>t, <1>f, <2>0, <2>1, <3>1, <3>2 DEF AccessInv, AccessTypes, CacheDecides, LookupsTruthful, KnownIsServed
  <2>2. CASE /\ classifyHost(host) = "tenant" /\ lookup(slug) # NoTenant
             /\ Pass(Request(path, slug), slug, lookup(slug)) /\ UNCHANGED requests
    <3>1. slug \in Slugs /\ cache[slug] # NoTenant /\ directory[slug] # NoTenant
      BY <1>m, <1>t, <2>2 DEF lookup, CacheDecides
    <3>2. Request(path, slug).path = path
      BY <1>t, <3>1, RequestTyped
    <3>3. CookieHasTenant' /\ SignOutEndsSession' /\ cookie' \in BOOLEAN
      BY <1>m, <2>0, <2>2, <3>1, <3>2, PassKeeps
    <3>4. CacheDecides'
      <4>1. \A a \in passedOn' : a \in passedOn \/ (a.slug = slug /\ a.region = cache[slug])
        BY <2>2 DEF Pass, lookup
      <4> HIDE DEF slug
      <4> QED BY <1>t, <2>0, <3>1, <4>1 DEF CacheDecides
    <3> QED BY <1>t, <1>f, <2>0, <2>2, <3>3, <3>4 DEF AccessInv, AccessTypes, LookupsTruthful, KnownIsServed
  <2>3. CASE /\ classifyHost(host) = "tenant" /\ lookup(slug) = NoTenant
             /\ requests' = requests \cup {Request(path, slug)}
             /\ UNCHANGED <<passedOn, cookie, live, signedOut>> /\ ConnectionHolds
    <3>1. slug \in Slugs /\ (path # "page" => slug = TabTenant)
      BY <1>m, <2>3
    <3> DEFINE r == Request(path, slug)
    <3>2. r \in Requests /\ r.path = path /\ r.slug = slug /\ r.step = "asking" /\ (r.known <=> directory[slug] # NoTenant)
      BY <1>t, <3>1, RequestTyped
    <3>3. path = "logout" => directory[slug] # NoTenant
      BY <1>t, <1>m, <3>1 DEF CookieHasTenant
    <3>4. LookupsTruthful'
      <4> HIDE DEF slug, r
      <4>1. requests' = requests \cup {r}
        BY <2>3 DEF r, slug
      <4> QED BY <1>t, <2>0, <3>1, <3>2, <3>3, <4>1 DEF LookupsTruthful
    <3>5. requests' \subseteq Requests
      BY <1>t, <2>3, <3>2 DEF AccessTypes
    <3>6. SignOutEndsSession' /\ CookieHasTenant' /\ CacheDecides'
      BY <1>t, <2>0, <2>3 DEF SignOutEndsSession, CookieHasTenant, CacheDecides, ConnectionHolds
    <3> QED BY <1>t, <1>f, <2>0, <2>3, <3>4, <3>5, <3>6 DEF AccessInv, AccessTypes, KnownIsServed
  <2> QED BY <1>m, <2>1, <2>2, <2>3 DEF middleware
<1>1. ASSUME NEW host \in Hosts, Visit(host) PROVE AccessInv'
  BY <1>1, <1>m, TenantHosts DEF Visit
<1>2. CASE SignIn
  BY <1>2, <1>a, <1>m, TabHost DEF SignIn
<1>3. CASE SignOutPressed
  BY <1>3, <1>a, <1>m, TabHost DEF SignOutPressed
<1>4. CASE DirectoryRead
  <2>1. PICK r \in requests :
          /\ r.step = "asking"
          /\ requests' = (requests \ {r}) \cup {[r EXCEPT !.step = "answered", !.region = directory[r.slug]]}
    BY <1>4 DEF DirectoryRead
  <2>2. UNCHANGED <<directory, cache, arrivals, dirEdits, passedOn, turnedAway, flowVars>> /\ ConnectionHolds
    BY <1>4 DEF DirectoryRead
  <2>3. PICK q : q = [r EXCEPT !.step = "answered", !.region = directory[r.slug]]
    OBVIOUS
  <2>4. r \in Requests /\ r.slug \in Slugs /\ directory[r.slug] \in Regions \cup {NoTenant}
    BY <1>t DEF AccessTypes, Requests
  <2>5. /\ q \in Requests /\ q.step = "answered" /\ q.region = directory[r.slug]
        /\ q.path = r.path /\ q.slug = r.slug /\ q.known = r.known
    <3>1. PICK region \in Regions \cup {NoTenant} : region = directory[r.slug]
      BY <2>4
    <3>2. q = [r EXCEPT !.step = "answered", !.region = region]
      BY <2>3, <3>1
    <3>3. /\ q \in Requests /\ q.step = "answered" /\ q.region = region
          /\ q.path = r.path /\ q.slug = r.slug /\ q.known = r.known
      BY <2>4, <3>2 DEF Requests
    <3> QED BY <3>1, <3>3
  <2>6. requests' = (requests \ {r}) \cup {q}
    BY <2>1, <2>3
  <2>7. LookupsTruthful'
    BY <1>t, <2>1, <2>2, <2>5, <2>6 DEF LookupsTruthful
  <2>8. AccessTypes'
    BY <1>t, <1>f, <2>2, <2>5, <2>6 DEF AccessTypes, flowVars
  <2> QED BY <1>t, <2>2, <2>7, <2>8 DEF AccessInv, CacheDecides, CookieHasTenant, KnownIsServed, SignOutEndsSession,
                                     flowVars, ConnectionHolds
<1>5. CASE resolve
  <2>1. PICK r \in requests :
          /\ r.step = "answered" /\ requests' = requests \ {r}
          /\ \/ /\ r.region = NoTenant
                /\ Refuse(r) /\ turnedAway' = IF r.known THEN turnedAway \cup {r.slug} ELSE turnedAway
                /\ UNCHANGED cache /\ ConnectionHolds
             \/ /\ r.region # NoTenant
                /\ cache' = store(r.slug, r.region)
                /\ Pass(r, r.slug, cache'[r.slug]) /\ UNCHANGED turnedAway
    BY <1>5 DEF resolve
  <2>2. UNCHANGED <<directory, arrivals, dirEdits>>
    BY <1>5 DEF resolve
  <2>3. r \in Requests /\ r.slug \in Slugs /\ r.region \in Regions \cup {NoTenant}
    BY <1>t DEF AccessTypes, Requests
  <2>4. LookupsTruthful' /\ requests' \subseteq Requests
    BY <1>t, <2>1, <2>2 DEF LookupsTruthful, AccessTypes
  <2>5. CASE /\ r.region = NoTenant
             /\ Refuse(r) /\ turnedAway' = IF r.known THEN turnedAway \cup {r.slug} ELSE turnedAway
             /\ UNCHANGED cache /\ ConnectionHolds
    <3>1. ~r.known /\ r.path # "logout"
      BY <1>t, <2>1, <2>5 DEF LookupsTruthful
    <3>2. CookieHasTenant' /\ SignOutEndsSession' /\ cookie' \in BOOLEAN
      BY <1>f, <2>2, <2>5, <3>1, RefuseKeeps
    <3>3. UNCHANGED passedOn
      BY <2>5 DEF Refuse
    <3> QED BY <1>t, <1>f, <2>2, <2>4, <2>5, <3>1, <3>2, <3>3 DEF AccessInv, AccessTypes, CacheDecides, KnownIsServed
  <2>6. CASE /\ r.region # NoTenant
             /\ cache' = store(r.slug, r.region)
             /\ Pass(r, r.slug, cache'[r.slug]) /\ UNCHANGED turnedAway
    <3>1. directory[r.slug] # NoTenant /\ (r.path # "page" => r.slug = TabTenant)
      BY <1>t, <2>1, <2>6 DEF LookupsTruthful
    <3>2. CookieHasTenant' /\ SignOutEndsSession' /\ cookie' \in BOOLEAN
      BY <2>2, <2>3, <2>6, <3>1, PassKeeps
    <3>3. /\ cache' \in [Slugs -> Regions \cup {NoTenant}] /\ cache'[r.slug] # NoTenant
          /\ \A s \in Slugs : s # r.slug => cache'[s] = cache[s]
          /\ cache[r.slug] # NoTenant => cache'[r.slug] = cache[r.slug]
      BY <1>t, <2>3, <2>6 DEF store, AccessTypes
    <3>4. \A a \in passedOn' : a \in passedOn \/ (a.slug = r.slug /\ a.region = cache'[r.slug])
      BY <2>6 DEF Pass
    <3>5. CacheDecides'
      BY <1>t, <2>2, <2>3, <3>1, <3>3, <3>4 DEF CacheDecides
    <3> QED BY <1>t, <1>f, <2>2, <2>4, <2>6, <3>2, <3>3, <3>5 DEF AccessInv, AccessTypes, KnownIsServed
  <2> QED BY <2>1, <2>5, <2>6
<1>6. ASSUME NEW r \in requests, requests' = requests \ {r}, Refuse(r), faults' # 0,
             UNCHANGED <<directory, cache, arrivals, dirEdits, turnedAway>>
      PROVE  AccessInv'
  <2>1. CookieHasTenant' /\ SignOutEndsSession' /\ cookie' \in BOOLEAN
    BY <1>6, RefuseKeeps
  <2>2. UNCHANGED passedOn
    BY <1>6 DEF Refuse
  <2> QED BY <1>t, <1>f, <1>6, <2>1, <2>2 DEF AccessInv, AccessTypes, CacheDecides, LookupsTruthful, KnownIsServed
<1>7. CASE LookupGivenUp
  <2>1. faults' # 0
    BY <1>7, <1>a, <1>f DEF LookupGivenUp
  <2> QED BY <1>6, <1>7, <2>1 DEF LookupGivenUp
<1>8. CASE SignBroken
  <2>1. faults' # 0
    BY <1>8, <1>f DEF SignBroken, ConnectionBreaks
  <2> QED BY <1>6, <1>8, <2>1 DEF SignBroken
<1>9. CASE SessionExpires
  BY <1>9, <1>t, <1>f DEF SessionExpires, AccessInv, AccessTypes, CacheDecides, LookupsTruthful, CookieHasTenant,
                          KnownIsServed, SignOutEndsSession
<1>10. ASSUME NEW s \in Slugs, NEW region \in Regions, DirectoryEdited(s, region) PROVE AccessInv'
  <2>1. /\ directory' = [directory EXCEPT ![s] = region] /\ region # NoTenant
        /\ UNCHANGED <<cache, requests, arrivals, passedOn, turnedAway, cookie, live, signing, signedOut>>
    BY <1>10, <1>a DEF DirectoryEdited, flowVars
  <2>2. directory' \in [Slugs -> Regions \cup {NoTenant}] /\ \A t \in Slugs : directory[t] # NoTenant => directory'[t] # NoTenant
    BY <1>t, <2>1 DEF AccessTypes
  <2>3. \A r \in requests : r.slug \in Slugs
    BY <1>t DEF AccessTypes, Requests
  <2> QED BY <1>t, <1>f, <1>a, <2>1, <2>2, <2>3
          DEF AccessInv, AccessTypes, CacheDecides, LookupsTruthful, CookieHasTenant, KnownIsServed, SignOutEndsSession
<1>11. CASE UNCHANGED accessVars
  BY <1>11, <1>t, <1>f DEF accessVars, AccessInv, AccessTypes, CacheDecides, LookupsTruthful, CookieHasTenant,
                           KnownIsServed, SignOutEndsSession
<1> QED BY <1>0, <1>1, <1>2, <1>3, <1>4, <1>5, <1>7, <1>8, <1>9, <1>10, <1>11 DEF AccessNext

\* A tenant keeps the region it was first found in, is not turned away while it
\* exists, and nobody goes on with a session that was signed out.
THEOREM AccessStaysSafe == ConsoleSpec => []AccessSafe
<1>1. ConsoleInit => AccessInv
  BY AccessAssumption DEF ConsoleInit, AccessInit, AccessInv, AccessTypes, CacheDecides, LookupsTruthful,
     CookieHasTenant, KnownIsServed, SignOutEndsSession
<1>2. AccessInv => AccessSafe
  BY DEF AccessInv, CacheDecides, AccessSafe, RegionNeverMoves
<1> QED BY <1>1, <1>2, AccessStep, PTL DEF ConsoleSpec

-----------------------------------------------------------------------------
(* The messaging pages.                                                      *)

LEMMA SendPart == [ConsoleNext]_consoleVars => [InboxNext]_sendVars
<1>1. ThreadNext => UNCHANGED sendVars
  BY DEF ThreadNext, Arrives, MarkRead, MarkAnswered, MarkLost, ThreadRedrawn, AskErase, CancelErase, Erase,
         EraseAnswered, EraseBroken, EditName, NameAnswered, NameBroken
<1>2. [ConsoleNext]_consoleVars => InboxNext \/ ThreadNext \/ UNCHANGED sendVars
  BY DEF ConsoleNext, consoleVars, Rest
<1> QED BY <1>1, <1>2

\* The devices drawn are none, or all there are and perhaps some that are gone.
DrawnCovers == drawnFleet.devices = {} \/ fleet.devices \subseteq drawnFleet.devices

\* The draft is about the device picked, or that device is gone for good; its
\* module may send.
DraftAsPicked ==
  /\ draft # NoDraft => \/ draft.device = pickDevice
                        \/ pickDevice \notin fleet.devices \cup drawnFleet.devices
  /\ draft.modem \notin SmsBlocked \cup SmsUnseen

AsAsked(p) ==
  /\ p.device = p.asked.device /\ p.modem = p.asked.modem
  /\ p.listed => p.device = p.named
  /\ p.modem \notin SmsBlocked \cup SmsUnseen

\* A conversation that was left for the inbox has no messages.
LeftIsEmpty == page = "inbox" => DOMAIN thread = {}

Fleets == [devices : SUBSET SmsDevices, at : [SmsModems -> SmsDevices \cup {Nowhere}]]

MessagingInv ==
  /\ fleet \in Fleets
  /\ DrawnCovers /\ DraftAsPicked /\ LeftIsEmpty
  /\ \A p \in sendPost : AsAsked(p)
  /\ \A p \in sentSms : AsAsked(p)

LEMMA LeftStep == LeftIsEmpty /\ [ConsoleNext]_consoleVars => LeftIsEmpty'
<1> SUFFICES ASSUME LeftIsEmpty, [ConsoleNext]_consoleVars, page' = "inbox" PROVE DOMAIN thread' = {}
  BY DEF LeftIsEmpty
<1>e. {"thread", "inbox"} \cap (formPages \cup LoadPages) = {}
  BY DEF formPages, LoadPages, PageOf
<1>1. CASE page = "thread" /\ ThreadNext
  <2>1. page' # page
    BY <1>1
  <2>2. EraseAnswered
    BY <1>1, <2>1 DEF ThreadNext, Arrives, MarkRead, MarkAnswered, MarkLost, ThreadRedrawn, AskErase, CancelErase, Erase,
         EraseBroken, EditName, NameAnswered, NameBroken, ConnectionHolds, ConnectionBreaks
  <2>3. threadPost = "thread" /\ Erased(threadPost)
    BY <2>1, <2>2 DEF EraseAnswered
  <2> QED BY <2>3 DEF Erased
<1>2. CASE page = "inbox" /\ UNCHANGED thread
  BY <1>2 DEF LeftIsEmpty
<1>3. CASE page = "inbox" /\ InboxNext
  <2>1. UNCHANGED thread
    BY <1>3 DEF InboxNext, Pick, SubmitSms, CancelSms, sendMessage, SmsAnswered, SmsBroken, LiveReload, FleetMoves, threadVars
  <2> QED BY <1>2, <1>3, <2>1
<1>4. page = "inbox" \/ (page = "thread" /\ ThreadNext)
  <2>1. page \in {"inbox", "thread"}
    BY ConsoleKeeps
  <2>2. page = "thread" => ThreadNext
    BY <1>e DEF ConsoleNext, consoleVars
  <2> QED BY <2>1, <2>2
<1>5. page = "inbox" => InboxNext \/ UNCHANGED thread
  BY <1>e DEF ConsoleNext, consoleVars, threadVars
<1> QED BY <1>1, <1>2, <1>3, <1>4, <1>5

LEMMA SendStep == MessagingInv /\ [ConsoleNext]_consoleVars => MessagingInv'
<1> SUFFICES ASSUME MessagingInv, [ConsoleNext]_consoleVars PROVE MessagingInv'
  OBVIOUS
<1>0. [InboxNext]_sendVars /\ LeftIsEmpty'
  BY SendPart, LeftStep DEF MessagingInv
<1>t. fleet \in Fleets /\ DrawnCovers /\ DraftAsPicked /\ (\A p \in sendPost : AsAsked(p)) /\ (\A p \in sentSms : AsAsked(p))
  BY DEF MessagingInv
<1>n. NoDraft.modem \notin SmsBlocked \cup SmsUnseen
  BY MessagingAssumption DEF NoDraft
<1> SUFFICES fleet' \in Fleets /\ DrawnCovers' /\ DraftAsPicked' /\ (\A p \in sendPost' : AsAsked(p)) /\ (\A p \in sentSms' : AsAsked(p))
  <2>1. (\A p \in sendPost' : AsAsked(p)) = (\A p \in sendPost : AsAsked(p))'
    BY DEF AsAsked
  <2> QED BY <1>0 DEF MessagingInv, AsAsked
<1>1. CASE Pick
  BY <1>1, <1>t, <1>n DEF Pick, DrawnCovers, DraftAsPicked
<1>2. CASE SubmitSms
  <2>1. PICK m \in SmsModems \cup {Nowhere} : activeImei(m) /\ draft' = [device |-> chosen, modem |-> m]
    BY <1>2 DEF SubmitSms
  <2>2. UNCHANGED <<fleet, drawnFleet, pickDevice, sendPost, sentSms>> /\ drawnFleet.devices # {}
    BY <1>2 DEF SubmitSms, Drawn
  <2>3. draft'.device = chosen /\ draft'.modem = m
    BY <2>1
  <2>4. m \notin SmsBlocked \cup SmsUnseen
    BY <2>1, MessagingAssumption DEF activeImei, sendable, allowed, blockedSendModules
  <2>5. chosen = pickDevice \/ pickDevice \notin fleet.devices \cup drawnFleet.devices
    BY <1>t, <2>2 DEF chosen, DrawnCovers
  <2> QED BY <1>t, <2>2, <2>3, <2>4, <2>5 DEF DrawnCovers, DraftAsPicked
<1>3. CASE CancelSms
  BY <1>3, <1>t, <1>n DEF CancelSms, DrawnCovers, DraftAsPicked
<1>4. CASE sendMessage
  <2> DEFINE l == pickDevice \in drawnFleet.devices
  <2>1. /\ sendPost' = {[device |-> draft.device, modem |-> draft.modem, asked |-> draft, named |-> chosen, listed |-> l]}
        /\ draft # NoDraft /\ draft' = NoDraft /\ UNCHANGED <<fleet, drawnFleet, pickDevice, sentSms>>
    BY <1>4 DEF sendMessage
  <2>2. ASSUME NEW p \in sendPost' PROVE AsAsked(p)
    <3>1. p = [device |-> draft.device, modem |-> draft.modem, asked |-> draft, named |-> chosen, listed |-> l]
      BY <2>1, <2>2
    <3>2. p.device = draft.device /\ p.modem = draft.modem /\ p.asked = draft /\ p.named = chosen /\ (p.listed <=> l)
      <4> HIDE DEF l
      <4>1. l \in BOOLEAN
        BY DEF l
      <4> QED BY <3>1, <4>1
    <3>3. l => draft.device = chosen
      BY <1>t, <2>1 DEF DraftAsPicked, chosen
    <3> QED BY <1>t, <3>2, <3>3 DEF AsAsked, DraftAsPicked
  <2> QED BY <1>t, <1>n, <2>1, <2>2 DEF DrawnCovers, DraftAsPicked
<1>5. CASE SmsAnswered
  <2>1. \A p \in sentSms' : p \in sentSms \/ p \in sendPost
    BY <1>5 DEF SmsAnswered
  <2> QED BY <1>5, <1>t, <1>n, <2>1 DEF SmsAnswered, DrawnCovers, DraftAsPicked
<1>6. CASE SmsBroken
  <2>1. \A p \in sentSms' : p \in sentSms \/ p \in sendPost
    BY <1>6 DEF SmsBroken
  <2> QED BY <1>6, <1>t, <2>1 DEF SmsBroken, DrawnCovers, DraftAsPicked
<1>7. CASE LiveReload
  <2>1. drawnFleet'.devices \in {fleet.devices, {}} /\ UNCHANGED <<fleet, pickDevice, draft, sendPost, sentSms>>
    BY <1>7 DEF LiveReload
  <2> QED BY <1>t, <2>1 DEF DrawnCovers, DraftAsPicked
<1>8. CASE FleetMoves
  <2>1. UNCHANGED <<drawnFleet, pickDevice, draft, sendPost, sentSms>>
    BY <1>8 DEF FleetMoves
  <2>2. ASSUME NEW m \in SmsModems, NEW d \in fleet.devices, fleet' = [fleet EXCEPT !.at[m] = d]
        PROVE  fleet' \in Fleets /\ fleet'.devices \subseteq fleet.devices
    BY <1>t, <2>2 DEF Fleets
  <2>3. ASSUME NEW d \in fleet.devices,
               fleet' = [devices |-> fleet.devices \ {d},
                         at |-> [m \in SmsModems |-> IF fleet.at[m] = d THEN Nowhere ELSE fleet.at[m]]]
        PROVE  fleet' \in Fleets /\ fleet'.devices \subseteq fleet.devices
    BY <1>t, <2>3 DEF Fleets
  <2>4. fleet' \in Fleets /\ fleet'.devices \subseteq fleet.devices
    BY <1>8, <2>2, <2>3 DEF FleetMoves
  <2> QED BY <1>t, <2>1, <2>4 DEF DrawnCovers, DraftAsPicked
<1>9. CASE UNCHANGED sendVars
  BY <1>9, <1>t DEF sendVars, DrawnCovers, DraftAsPicked
<1> QED BY <1>0, <1>1, <1>2, <1>3, <1>4, <1>5, <1>6, <1>7, <1>8, <1>9 DEF InboxNext

\* A message leaves from the device and the module that were asked for, never
\* from a module that must not send, and a conversation is left as deleted only
\* when it is.
THEOREM MessagingStaysSafe == ConsoleSpec => []MessagingSafe
<1>1. ConsoleInit => MessagingInv
  <2> SUFFICES ASSUME ConsoleInit PROVE MessagingInv
    OBVIOUS
  <2>0. fleet \in Fleets
    <3>1. CASE fleet \in [devices : {SmsDevices}, at : [SmsModems -> SmsDevices]]
      BY <3>1 DEF Fleets
    <3>2. CASE fleet = NoFleet
      BY <3>2 DEF NoFleet, Fleets
    <3> QED BY <3>1, <3>2 DEF ConsoleInit, InboxInit
  <2>1. SendRests
    BY DEF ConsoleInit, InboxInit
  <2>2. LeftIsEmpty
    BY DEF ConsoleInit, NoMsgs, LeftIsEmpty
  <2>3. DrawnCovers
    BY <2>1 DEF SendRests, DrawnCovers
  <2>4. draft = NoDraft /\ sendPost = {} /\ sentSms = {}
    BY <2>1 DEF SendRests
  <2>5. DraftAsPicked
    BY <2>4, MessagingAssumption DEF NoDraft, DraftAsPicked
  <2> QED BY <2>0, <2>2, <2>3, <2>4, <2>5 DEF MessagingInv
<1>2. MessagingInv => MessagingSafe
  BY DEF MessagingInv, AsAsked, MessagingSafe, NeverFromBlocked, SentAsAsked, LeftMeansErased, LeftIsEmpty
<1> QED BY <1>1, <1>2, SendStep, PTL DEF ConsoleSpec

-----------------------------------------------------------------------------
(* The loads of the pages.                                                   *)

\* What the code of a page must be like: every try awaits something, the role is
\* awaited in a try of its own, and a list whose emptiness is told is read in a try
\* that tells of its failure.
Told(pg) == pg.lists \ {"certificates", "channels"}
IsList(s) == Len(s) \in Nat \ {0} /\ DOMAIN s = 1 .. Len(s)
TryShape(pg) == IsList(pg.tries) /\ \A t \in DOMAIN pg.tries : IsList(pg.tries[t].awaits)
RoleShape(pg) ==
  \A t \in DOMAIN pg.tries : \A a \in DOMAIN pg.tries[t].awaits :
    "role" \in pg.tries[t].awaits[a] => pg.tries[t] = fetchConsoleRole
ListShape(pg) ==
  \A x \in Told(pg) : \E t \in DOMAIN pg.tries :
    pg.tries[t].tells = "loadError" /\ \E a \in DOMAIN pg.tries[t].awaits : x \in pg.tries[t].awaits[a]
PageShape(pg) == TryShape(pg) /\ RoleShape(pg) /\ ListShape(pg)

LEMMA ListingShape ==
  ASSUME NEW x, x # "role"
  PROVE  PageShape(Listing(x)) /\ PageShape(Searched(x))
<1>1. PageShape(Listing(x))
  <2>1. TryShape(Listing(x))
    BY DEF TryShape, IsList, Listing, All
  <2>2. RoleShape(Listing(x))
    BY DEF RoleShape, Listing, All
  <2>3. ListShape(Listing(x))
    BY DEF ListShape, Told, Listing, All
  <2> QED BY <2>1, <2>2, <2>3 DEF PageShape
<1>2. Searched(x).tries = Listing(x).tries /\ Searched(x).lists = Listing(x).lists
  BY DEF Searched, Listing
<1> QED BY <1>1, <1>2 DEF PageShape, TryShape, RoleShape, ListShape, Told

LEMMA LedgerShape == PageShape(SupportLedgerPage)
<1>3. SupportLedgerPage.tries = << fetchConsoleRole, All({"ledger"}, "loadError") >>
  BY DEF SupportLedgerPage, Searched, Listing
<1>4. SupportLedgerPage.lists = {"ledger"}
  BY DEF SupportLedgerPage, Searched, Listing
<1>5. PageShape(SupportLedgerPage)
  <2>1. TryShape(SupportLedgerPage)
    BY <1>3, <1>4 DEF TryShape, IsList, fetchConsoleRole, All
  <2>2. RoleShape(SupportLedgerPage)
    BY <1>3, <1>4 DEF RoleShape, fetchConsoleRole, All
  <2>3. ListShape(SupportLedgerPage)
    BY <1>3, <1>4 DEF ListShape, Told, fetchConsoleRole, All
  <2> QED BY <2>1, <2>2, <2>3 DEF PageShape
<1> QED BY <1>5

LEMMA PagesShape == \A p \in LoadPages : PageShape(PageOf[p])
<1>1. PageShape(OverviewPage)
  <2>1. TryShape(OverviewPage)
    BY DEF TryShape, IsList, All, OverviewPage
  <2>2. RoleShape(OverviewPage)
    BY DEF RoleShape, All, OverviewPage
  <2>3. ListShape(OverviewPage)
    BY DEF ListShape, Told, All, OverviewPage
  <2> QED BY <2>1, <2>2, <2>3 DEF PageShape
<1>2. PageShape(DevicesPage)
  <2>1. TryShape(DevicesPage)
    BY DEF TryShape, IsList, All, DevicesPage, fetchConsoleRole
  <2>a. DevicesPage.tries = << fetchConsoleRole, All({"devices", "modems", "policies", "alerts"}, "loadError"),
                               All({"certificates"}, "silent"), All({"codes"}, "silent") >>
    BY DEF DevicesPage
  <2>2. RoleShape(DevicesPage)
    BY <2>a DEF RoleShape, All, fetchConsoleRole
  <2>3. ListShape(DevicesPage)
    BY DEF ListShape, Told, All, DevicesPage, fetchConsoleRole
  <2> QED BY <2>1, <2>2, <2>3 DEF PageShape
<1>3. PageShape(DevicePage)
  <2>1. TryShape(DevicePage)
    BY DEF TryShape, IsList, All, DevicePage, fetchConsoleRole, DEVICE_TABS, OverviewPanel, DiagnosticsPanel,
            ConsolePanel, EsimTab, Panel
  <2>2. RoleShape(DevicePage)
    BY DEF RoleShape, All, DevicePage, fetchConsoleRole, DEVICE_TABS, OverviewPanel, DiagnosticsPanel,
            ConsolePanel, EsimTab, Panel
  <2>3. ListShape(DevicePage)
    BY DEF ListShape, Told, All, DevicePage, fetchConsoleRole, DEVICE_TABS, OverviewPanel, DiagnosticsPanel,
            ConsolePanel, EsimTab, Panel
  <2> QED BY <2>1, <2>2, <2>3 DEF PageShape
<1>4. PageShape(ProxyListPage)
  <2>1. TryShape(ProxyListPage)
    BY DEF TryShape, IsList, All, ProxyListPage, fetchConsoleRole
  <2>2. RoleShape(ProxyListPage)
    BY DEF RoleShape, All, ProxyListPage, fetchConsoleRole
  <2>3. ListShape(ProxyListPage)
    BY DEF ListShape, Told, All, ProxyListPage, fetchConsoleRole
  <2> QED BY <2>1, <2>2, <2>3 DEF PageShape
<1>5. PageShape(SettingsPage)
  <2>1. TryShape(SettingsPage)
    BY DEF TryShape, IsList, All, SettingsPage, fetchConsoleRole
  <2>2. RoleShape(SettingsPage)
    BY DEF RoleShape, All, SettingsPage, fetchConsoleRole
  <2>3. ListShape(SettingsPage)
    BY DEF ListShape, Told, All, SettingsPage, fetchConsoleRole
  <2> QED BY <2>1, <2>2, <2>3 DEF PageShape
<1>6. PageShape(InboxPage)
  <2>1. TryShape(InboxPage)
    BY DEF TryShape, IsList, All, InboxPage, fetchConsoleRole, Each
  <2>2. RoleShape(InboxPage)
    BY DEF RoleShape, All, InboxPage, fetchConsoleRole, Each
  <2>3. /\ InboxPage.lists = {"contacts", "threads"} /\ 2 \in DOMAIN InboxPage.tries
        /\ InboxPage.tries[2] = Each(<<"threads", "contacts", "devices">>, "loadError")
    BY DEF InboxPage
  <2>4. LET e == Each(<<"threads", "contacts", "devices">>, "loadError")
        IN  /\ e.tells = "loadError" /\ 1 \in DOMAIN e.awaits /\ 2 \in DOMAIN e.awaits
            /\ e.awaits[1] = {"threads"} /\ e.awaits[2] = {"contacts"}
    BY DEF Each
  <2>5. ListShape(InboxPage)
    BY <2>3, <2>4 DEF ListShape, Told
  <2> QED BY <2>1, <2>2, <2>5 DEF PageShape
<1>7. PageShape(ThreadPage)
  <2>1. TryShape(ThreadPage)
    BY DEF TryShape, IsList, All, ThreadPage, fetchConsoleRole, Each
  <2>2. RoleShape(ThreadPage)
    BY DEF RoleShape, All, ThreadPage, fetchConsoleRole, Each
  <2>3. /\ ThreadPage.lists = {"thread"} /\ 2 \in DOMAIN ThreadPage.tries
        /\ ThreadPage.tries[2] = Each(<<"thread", "threads">>, "loadError")
    BY DEF ThreadPage
  <2>4. LET e == Each(<<"thread", "threads">>, "loadError")
        IN  e.tells = "loadError" /\ 1 \in DOMAIN e.awaits /\ e.awaits[1] = {"thread"}
    BY DEF Each
  <2>5. ListShape(ThreadPage)
    BY <2>3, <2>4 DEF ListShape, Told
  <2> QED BY <2>1, <2>2, <2>5 DEF PageShape
<1>8. \A pg \in {SessionsPage, SchedulePage, RulesPage, JournalListPage, AuditPage} : PageShape(pg)
  <2>1. \A x \in {"sessions", "schedules", "rules", "journal", "audit"} : x # "role"
    OBVIOUS
  <2> QED BY <2>1, ListingShape DEF SessionsPage, SchedulePage, RulesPage, JournalListPage, AuditPage
<1> QED BY <1>1, <1>2, <1>3, <1>4, <1>5, <1>6, <1>7, <1>8, LedgerShape DEF LoadPages, PageOf


LEMMA LoadsPart == [ConsoleNext]_consoleVars =>
    /\ page' \in LoadPages => page \in LoadPages
    /\ page \in LoadPages => page' = page /\ [LoadsNext]_loadVars
<1> SUFFICES ASSUME [ConsoleNext]_consoleVars
             PROVE  /\ page' \in LoadPages => page \in LoadPages
                    /\ page \in LoadPages => page' = page /\ [LoadsNext]_loadVars
  OBVIOUS
<1>1. ({"thread", "inbox"} \cup formPages) \cap LoadPages = {} /\ "devices" \in formPages
  BY DEF formPages, LoadPages, PageOf
<1>2. page' = page \/ (page = "thread" /\ page' = "inbox") \/ (page \in formPages /\ page' = "devices")
  BY ConsoleKeeps
<1>3. [LoadsNext]_loadVars
  BY DEF ConsoleNext, consoleVars, Rest
<1> QED BY <1>1, <1>2, <1>3

\* What is kept and what was received of an answer.
Answer(x, body) == [received |-> FillsGaps[body], kept |-> Parser[x][body], here |-> body # "elsewhere"]

\* What has been heard is what the reads were answered; the rows are what was kept
\* of it.
HeardIsTold ==
  /\ \A x \in DOMAIN answers : \E body \in Bodies(x) : answers[x] = Answer(x, body)
  /\ \A x \in DOMAIN heard : \E body \in Bodies(x) : heard[x] = Answer(x, body)
  /\ \A x \in DOMAIN heard : x \in DOMAIN rows /\ rows[x] = heard[x].kept

\* Where the page's function is, and what it has not caught it has heard.
Progress ==
  /\ tryNo \in Nat /\ tryNo >= 1 /\ awaitNo \in Nat /\ failed \subseteq 1 .. (tryNo - 1)
  /\ ~Loaded => /\ awaitNo \in DOMAIN Tries[tryNo].awaits
                /\ DOMAIN answers \subseteq Awaited
  /\ \A t \in DOMAIN Tries : \A a \in DOMAIN Tries[t].awaits :
       (t < tryNo /\ t \notin failed) \/ (t = tryNo /\ a < awaitNo)
         => Tries[t].awaits[a] \subseteq DOMAIN heard

RoleIsTold ==
  role = "admin" =>
    /\ "role" \in DOMAIN heard /\ heard["role"].kept = 1
    /\ \E i \in DOMAIN Tries : i < tryNo /\ i \notin failed /\ Tries[i] = fetchConsoleRole

LoadInv == HeardIsTold /\ Progress /\ RoleIsTold
LoadsInv == page \in LoadPages => LoadInv

LEMMA TriesFacts ==
  ASSUME page \in LoadPages
  PROVE  /\ Len(Tries) \in Nat /\ DOMAIN Tries = 1 .. Len(Tries)
         /\ \A t \in DOMAIN Tries : Len(Tries[t].awaits) \in Nat /\ 1 \in DOMAIN Tries[t].awaits
                                    /\ DOMAIN Tries[t].awaits = 1 .. Len(Tries[t].awaits)
         /\ \A t \in DOMAIN Tries : \A a \in DOMAIN Tries[t].awaits :
              "role" \in Tries[t].awaits[a] => Tries[t] = fetchConsoleRole
<1>1. PageShape(PageOf[page])
  BY PagesShape
<1> QED BY <1>1 DEF PageShape, TryShape, RoleShape, IsList, Tries

LEMMA MergedFacts ==
  ASSUME NEW f, NEW g
  PROVE  /\ DOMAIN Merged(f, g) = DOMAIN f \cup DOMAIN g
         /\ \A x \in DOMAIN g : Merged(f, g)[x] = g[x]
         /\ \A x \in DOMAIN f \ DOMAIN g : Merged(f, g)[x] = f[x]
  BY DEF Merged

\* A try is caught.
LEMMA CaughtStep ==
  ASSUME page \in LoadPages, page' = page, LoadInv, NEW x, Caught(x)
  PROVE  LoadInv'
<1>0. /\ Len(Tries) \in Nat /\ DOMAIN Tries = 1 .. Len(Tries)
      /\ \A t \in DOMAIN Tries : 1 \in DOMAIN Tries[t].awaits
      /\ Tries' = Tries /\ tryNo \in Nat /\ tryNo >= 1
  BY TriesFacts DEF LoadInv, Progress, Tries
<1>1. /\ ~Loaded /\ answers' = << >> /\ failed' = failed \cup {tryNo} /\ tryNo' = tryNo + 1 /\ awaitNo' = 1
      /\ heard' = heard /\ rows' = rows /\ (role' = role \/ role' = "readonly")
  BY DEF Caught, NextTry
<1>2. HeardIsTold'
  BY <1>1 DEF LoadInv, HeardIsTold, Bodies
<1>3. Progress'
  <2>1. tryNo' \in Nat /\ tryNo' >= 1 /\ awaitNo' \in Nat
    BY <1>0, <1>1
  <2>f. failed \subseteq 1 .. (tryNo - 1)
    BY DEF LoadInv, Progress
  <2>2. failed' \subseteq 1 .. (tryNo' - 1)
    BY <1>0, <1>1, <2>f
  <2>3. ~Loaded' => awaitNo' \in DOMAIN Tries[tryNo'].awaits
    BY <1>0, <1>1, <2>1 DEF Loaded
  <2>4. DOMAIN answers' = {}
    BY <1>1
  <2>5. ASSUME NEW t \in DOMAIN Tries, NEW a \in DOMAIN Tries[t].awaits,
               (t < tryNo' /\ t \notin failed') \/ (t = tryNo' /\ a < awaitNo')
        PROVE  Tries[t].awaits[a] \subseteq DOMAIN heard
    <3>1. a \in Nat /\ a >= 1
      BY TriesFacts
    <3>2. t < tryNo /\ t \notin failed
      BY <1>0, <1>1, <2>5, <3>1
    <3> QED BY <3>2 DEF LoadInv, Progress
  <2>6. (~Loaded => awaitNo \in DOMAIN Tries[tryNo].awaits)' /\ (~Loaded => DOMAIN answers \subseteq Awaited)'
    BY <1>0, <2>3, <2>4
  <2> QED BY <1>0, <1>1, <2>1, <2>2, <2>5, <2>6 DEF Progress
<1>4. RoleIsTold'
  <2>1. CASE role' = "readonly"
    BY <2>1 DEF RoleIsTold
  <2>2. CASE role' = role /\ role = "admin"
    <3>1. PICK i \in DOMAIN Tries : i < tryNo /\ i \notin failed /\ Tries[i] = fetchConsoleRole
      BY <2>2 DEF LoadInv, RoleIsTold
    <3>2. i < tryNo' /\ i \notin failed'
      BY <1>0, <1>1, <3>1
    <3> QED BY <1>0, <1>1, <2>2, <3>1, <3>2 DEF LoadInv, RoleIsTold
  <2> QED BY <1>1, <2>1, <2>2 DEF RoleIsTold
<1> QED BY <1>2, <1>3, <1>4 DEF LoadInv

\* A read is answered: the await goes on, or is over.
LEMMA AnsweredStep ==
  ASSUME page \in LoadPages, page' = page, LoadInv, NEW x, NEW body \in Bodies(x), ReadAnswered(x, body)
  PROVE  LoadInv'
<1>0. /\ Len(Tries) \in Nat /\ DOMAIN Tries = 1 .. Len(Tries)
      /\ Tries' = Tries /\ tryNo \in Nat /\ tryNo >= 1 /\ awaitNo \in Nat
      /\ ~Loaded /\ x \in Awaited
  BY TriesFacts DEF LoadInv, Progress, Tries, ReadAnswered
<1>1. /\ tryNo \in DOMAIN Tries /\ awaitNo \in DOMAIN Tries[tryNo].awaits /\ DOMAIN answers \subseteq Awaited
      /\ Len(Tries[tryNo].awaits) \in Nat /\ DOMAIN Tries[tryNo].awaits = 1 .. Len(Tries[tryNo].awaits)
  <2>1. tryNo \in DOMAIN Tries
    BY <1>0 DEF Loaded
  <2> QED BY <1>0, <2>1, TriesFacts DEF LoadInv, Progress
<1>b. \A r : Bodies(r)' = Bodies(r)
  BY DEF Bodies
<1> DEFINE now == Merged(answers, [r \in {x} |-> [received |-> FillsGaps[body], kept |-> Parser[x][body],
                                                  here |-> body # "elsewhere"]])
           kept == [r \in DOMAIN now |-> now[r].kept]
<1>2. /\ answers' = IF DOMAIN now = Awaited THEN << >> ELSE now
      /\ heard' = IF DOMAIN now = Awaited THEN Merged(heard, now) ELSE heard
      /\ rows' = IF DOMAIN now = Awaited THEN Merged(rows, kept) ELSE rows
      /\ role' = IF x = "role" THEN (IF Parser[x][body] = 1 THEN "admin" ELSE "readonly") ELSE role
      /\ failed' = failed
      /\ IF ~(DOMAIN now = Awaited) THEN UNCHANGED <<tryNo, awaitNo>>
         ELSE IF awaitNo < Len(Tries[tryNo].awaits)
              THEN awaitNo' = awaitNo + 1 /\ UNCHANGED tryNo
              ELSE NextTry
  BY DEF ReadAnswered
<1>3. /\ DOMAIN now = DOMAIN answers \cup {x} /\ DOMAIN now \subseteq Awaited
      /\ \A r \in DOMAIN now : \E b \in Bodies(r) : now[r] = Answer(r, b)
      /\ now[x] = Answer(x, body) /\ x \in DOMAIN now
  <2>1. DOMAIN now = DOMAIN answers \cup {x} /\ now[x] = Answer(x, body)
    BY DEF Merged, Answer
  <2>2. \A r \in DOMAIN answers : r # x => now[r] = answers[r]
    BY DEF Merged
  <2> HIDE DEF now
  <2>3. ASSUME NEW r \in DOMAIN now PROVE \E b \in Bodies(r) : now[r] = Answer(r, b)
    BY <2>1, <2>2 DEF LoadInv, HeardIsTold
  <2> QED BY <1>0, <1>1, <2>1, <2>3
<1>4. DOMAIN kept = DOMAIN now /\ \A r \in DOMAIN now : kept[r] = now[r].kept
  OBVIOUS
<1> HIDE DEF now, kept
<1>5. CASE DOMAIN now # Awaited
  <2>1. /\ answers' = now /\ heard' = heard /\ rows' = rows /\ tryNo' = tryNo /\ awaitNo' = awaitNo
    BY <1>2, <1>5
  <2>2. x # "role"
    <3> SUFFICES ASSUME x = "role" PROVE FALSE
      OBVIOUS
    <3>1. Tries[tryNo] = fetchConsoleRole
      BY <1>0, <1>1, TriesFacts DEF Awaited
    <3>2. awaitNo = 1 /\ Awaited = {"role"}
      BY <1>1, <3>1 DEF Awaited, fetchConsoleRole, All
    <3> QED BY <1>3, <1>5, <3>2
  <2>3. role' = role
    BY <1>2, <2>2
  <2>4. HeardIsTold'
    BY <1>3, <1>b, <2>1 DEF LoadInv, HeardIsTold
  <2>5. Progress'
    BY <1>0, <1>2, <1>3, <2>1 DEF LoadInv, Progress, Loaded, Awaited
  <2>6. RoleIsTold'
    BY <1>0, <1>2, <2>1, <2>3 DEF LoadInv, RoleIsTold
  <2> QED BY <2>4, <2>5, <2>6 DEF LoadInv
<1>6. CASE DOMAIN now = Awaited
  <2>1. answers' = << >> /\ heard' = Merged(heard, now) /\ rows' = Merged(rows, kept)
    BY <1>2, <1>6
  <2>a. /\ DOMAIN Merged(heard, now) = DOMAIN heard \cup DOMAIN now
        /\ \A r \in DOMAIN now : Merged(heard, now)[r] = now[r]
        /\ \A r \in DOMAIN heard \ DOMAIN now : Merged(heard, now)[r] = heard[r]
    BY MergedFacts
  <2>b. /\ DOMAIN Merged(rows, kept) = DOMAIN rows \cup DOMAIN kept
        /\ \A r \in DOMAIN kept : Merged(rows, kept)[r] = kept[r]
        /\ \A r \in DOMAIN rows \ DOMAIN kept : Merged(rows, kept)[r] = rows[r]
    BY MergedFacts
  <2>2. /\ DOMAIN heard' = DOMAIN heard \cup Awaited
        /\ \A r \in Awaited : heard'[r] = now[r]
        /\ \A r \in DOMAIN heard \ Awaited : heard'[r] = heard[r]
    BY <1>6, <2>1, <2>a
  <2>3. /\ \A r \in Awaited : r \in DOMAIN rows' /\ rows'[r] = now[r].kept
        /\ \A r \in DOMAIN rows \ Awaited : r \in DOMAIN rows' /\ rows'[r] = rows[r]
    BY <1>4, <1>6, <2>1, <2>b
  <2>4. HeardIsTold'
    BY <1>3, <1>6, <1>b, <2>1, <2>2, <2>3 DEF LoadInv, HeardIsTold
  <2>5. Progress'
    <3>0. failed' = failed /\ tryNo \notin failed /\ failed \subseteq 1 .. (tryNo - 1) /\ DOMAIN answers' = {}
      BY <1>0, <1>2, <2>1 DEF LoadInv, Progress
    <3>1. ASSUME NEW t \in DOMAIN Tries, NEW a \in DOMAIN Tries[t].awaits,
                 \/ t < tryNo /\ t \notin failed
                 \/ t = tryNo /\ a <= awaitNo
          PROVE  Tries[t].awaits[a] \subseteq DOMAIN heard'
      <4>1. CASE t = tryNo /\ a = awaitNo
        BY <2>2, <4>1 DEF Awaited
      <4>2. CASE (t < tryNo /\ t \notin failed) \/ (t = tryNo /\ a < awaitNo)
        <5>1. Tries[t].awaits[a] \subseteq DOMAIN heard
          BY <4>2 DEF LoadInv, Progress
        <5> QED BY <2>2, <5>1
      <4>3. a \in Nat
        BY TriesFacts
      <4> QED BY <1>0, <3>1, <4>1, <4>2, <4>3
    <3>2. CASE awaitNo < Len(Tries[tryNo].awaits)
      <4>1. awaitNo' = awaitNo + 1 /\ tryNo' = tryNo
        BY <1>2, <1>6, <3>2
      <4>2. awaitNo' \in DOMAIN Tries[tryNo].awaits
        BY <1>0, <1>1, <3>2, <4>1
      <4>3. ASSUME NEW t \in DOMAIN Tries, NEW a \in DOMAIN Tries[t].awaits,
                   (t < tryNo' /\ t \notin failed') \/ (t = tryNo' /\ a < awaitNo')
            PROVE  Tries[t].awaits[a] \subseteq DOMAIN heard'
        <5>1. a \in Nat
          BY TriesFacts
        <5>2. (t < tryNo /\ t \notin failed) \/ (t = tryNo /\ a <= awaitNo)
          BY <1>0, <3>0, <4>1, <4>3, <5>1
        <5> QED BY <3>1, <5>2
      <4>4. (~Loaded => awaitNo \in DOMAIN Tries[tryNo].awaits)' /\ (~Loaded => DOMAIN answers \subseteq Awaited)'
        BY <1>0, <3>0, <4>1, <4>2
      <4>5. tryNo' \in Nat /\ tryNo' >= 1 /\ awaitNo' \in Nat /\ failed' \subseteq 1 .. (tryNo' - 1)
        BY <1>0, <3>0, <4>1
      <4> QED BY <1>0, <4>3, <4>4, <4>5 DEF Progress
    <3>3. CASE ~(awaitNo < Len(Tries[tryNo].awaits))
      <4>1. awaitNo' = 1 /\ tryNo' = tryNo + 1
        BY <1>2, <1>6, <3>3 DEF NextTry
      <4>2. \A a \in DOMAIN Tries[tryNo].awaits : a <= awaitNo
        BY <1>0, <1>1, <3>3
      <4>3. ASSUME NEW t \in DOMAIN Tries, NEW a \in DOMAIN Tries[t].awaits,
                   (t < tryNo' /\ t \notin failed') \/ (t = tryNo' /\ a < awaitNo')
            PROVE  Tries[t].awaits[a] \subseteq DOMAIN heard'
        <5>1. a \in Nat /\ a >= 1 /\ t \in Nat
          BY <1>0, TriesFacts
        <5>2. (t < tryNo /\ t \notin failed) \/ (t = tryNo /\ a <= awaitNo)
          BY <1>0, <3>0, <4>1, <4>2, <4>3, <5>1
        <5> QED BY <3>1, <5>2
      <4>4. (~Loaded)' => awaitNo' \in DOMAIN Tries'[tryNo'].awaits
        <5>1. (~Loaded)' => tryNo' \in DOMAIN Tries
          BY <1>0, <4>1 DEF Loaded
        <5> QED BY <1>0, <4>1, <5>1, TriesFacts
      <4>5. tryNo' \in Nat /\ tryNo' >= 1 /\ awaitNo' \in Nat /\ failed' \subseteq 1 .. (tryNo' - 1)
        BY <1>0, <3>0, <4>1
      <4> QED BY <1>0, <3>0, <4>3, <4>4, <4>5 DEF Progress
    <3> QED BY <3>2, <3>3
  <2>6. RoleIsTold'
    <3>0. tryNo \notin failed /\ failed' = failed
      BY <1>0, <1>2 DEF LoadInv, Progress
    <3>1. CASE x = "role"
      <4>1. Tries[tryNo] = fetchConsoleRole
        BY <1>0, <1>1, <3>1, TriesFacts DEF Awaited
      <4>2. Len(Tries[tryNo].awaits) = 1
        BY <4>1 DEF fetchConsoleRole, All
      <4>3. tryNo' = tryNo + 1
        BY <1>0, <1>1, <1>2, <1>6, <4>2 DEF NextTry
      <4>4. role' = "admin" => Parser[x][body] = 1
        BY <1>2, <3>1
      <4>5. "role" \in DOMAIN heard' /\ heard'["role"].kept = Parser[x][body]
        BY <1>0, <1>3, <2>2, <3>1 DEF Answer
      <4> QED BY <1>0, <1>1, <3>0, <4>1, <4>3, <4>4, <4>5 DEF RoleIsTold
    <3>2. CASE x # "role"
      <4>1. "role" \notin Awaited
        <5> SUFFICES ASSUME "role" \in Awaited PROVE FALSE
          OBVIOUS
        <5>1. Tries[tryNo] = fetchConsoleRole
          BY <1>1, TriesFacts DEF Awaited
        <5>2. Awaited = {"role"}
          BY <1>1, <5>1 DEF Awaited, fetchConsoleRole, All
        <5> QED BY <1>0, <3>2, <5>2
      <4>2. role' = role /\ tryNo' >= tryNo /\ tryNo' \in Nat
        BY <1>0, <1>2, <1>6, <3>2 DEF NextTry
      <4>3. CASE role = "admin"
        <5>1. PICK i \in DOMAIN Tries : i < tryNo /\ i \notin failed /\ Tries[i] = fetchConsoleRole
          BY <4>3 DEF LoadInv, RoleIsTold
        <5>2. i < tryNo' /\ i \notin failed' /\ i \in DOMAIN Tries' /\ Tries'[i] = fetchConsoleRole
          BY <1>0, <3>0, <4>2, <5>1
        <5>3. "role" \in DOMAIN heard' /\ heard'["role"].kept = 1
          BY <2>2, <4>1, <4>3 DEF LoadInv, RoleIsTold
        <5> QED BY <5>2, <5>3 DEF RoleIsTold
      <4> QED BY <4>2, <4>3 DEF RoleIsTold
    <3> QED BY <3>1, <3>2
  <2> QED BY <2>4, <2>5, <2>6 DEF LoadInv
<1> QED BY <1>5, <1>6

LEMMA SearchStep ==
  ASSUME page \in LoadPages, page' = page, NEW n, NEW h, Search(n, h)
  PROVE  LoadInv'
<1>1. /\ tryNo' = 1 /\ awaitNo' = 1 /\ answers' = << >> /\ heard' = << >> /\ failed' = {} /\ role' = "readonly"
      /\ Tries' = Tries
  BY DEF Search, Tries
<1>2. HeardIsTold' /\ RoleIsTold'
  BY <1>1 DEF HeardIsTold, RoleIsTold
<1>3. Progress'
  <2>1. 1 \in DOMAIN Tries => 1 \in DOMAIN Tries[1].awaits
    BY TriesFacts
  <2>2. (~Loaded)' => 1 \in DOMAIN Tries
    BY <1>1, TriesFacts DEF Loaded
  <2>3. \A t \in DOMAIN Tries : \A a \in DOMAIN Tries[t].awaits : t >= 1 /\ a >= 1 /\ t \in Nat /\ a \in Nat
    BY TriesFacts
  <2> QED BY <1>1, <2>1, <2>2, <2>3 DEF Progress
<1> QED BY <1>2, <1>3 DEF LoadInv

LEMMA LoadsStep == LoadsInv /\ [ConsoleNext]_consoleVars => LoadsInv'
<1> SUFFICES ASSUME LoadsInv, [ConsoleNext]_consoleVars, page \in LoadPages PROVE LoadInv'
  BY LoadsPart DEF LoadsInv
<1>0. page' = page /\ [LoadsNext]_loadVars /\ LoadInv
  BY LoadsPart DEF LoadsInv
<1>1. ASSUME NEW x, Caught(x) PROVE LoadInv'
  BY <1>0, <1>1, CaughtStep
<1>2. ASSUME NEW x, NEW body \in Bodies(x), ReadAnswered(x, body) PROVE LoadInv'
  BY <1>0, <1>2, AnsweredStep
<1>3. ASSUME NEW h \in BOOLEAN, Search("typed", h) PROVE LoadInv'
  BY <1>0, <1>3, SearchStep
<1>4. CASE UNCHANGED loadVars
  BY <1>0, <1>4 DEF loadVars, LoadInv, HeardIsTold, Bodies, Progress, RoleIsTold, Loaded, Awaited, Tries
<1> QED BY <1>0, <1>1, <1>2, <1>3, <1>4 DEF LoadsNext, ReadFails, ReadTimesOut

\* What is drawn follows from what was heard.
LEMMA DrawnFromHeard == LoadsInv => DrawnAsTold
<1> SUFFICES ASSUME LoadInv, page \in LoadPages PROVE DrawnAsTold
  BY DEF LoadsInv, DrawnAsTold, EmptyMeansRead, AuditEmptyIsEmpty, WritersOnly, LoadPages, PageOf
<1>1. \A x \in DOMAIN heard : rows[x] = heard[x].kept
  BY DEF LoadInv, HeardIsTold
<1>2. ASSUME NEW x, Parser[x] = FillsGaps, x \in DOMAIN heard, rows[x] = 0 PROVE heard[x].received = 0
  <2>1. PICK body \in Bodies(x) : heard[x] = Answer(x, body)
    BY <1>2 DEF LoadInv, HeardIsTold
  <2> QED BY <1>1, <1>2, <2>1 DEF Answer
<1>h. ASSUME NEW x \in DOMAIN heard, ~heard[x].here PROVE x \in PageOf[page].own
  <2>1. PICK body \in Bodies(x) : heard[x] = Answer(x, body)
    BY DEF LoadInv, HeardIsTold
  <2>3. heard[x].here = (body # "elsewhere")
    BY <2>1 DEF Answer
  <2>2. body = "elsewhere"
    BY <1>h, <2>3, Zenon
  <2> QED BY <2>2 DEF Bodies
<1>3. ASSUME NEW x, emptyKindOf(x) = "none" PROVE rows[x] = 0 \/ (x \in DOMAIN heard /\ ~heard[x].here)
  <2>1. Here(x) = 0
    BY <1>3 DEF emptyKindOf, emptyKind, Shown
  <2> QED BY <2>1 DEF Here
<1>4. "audit" \in DOMAIN heard => heard["audit"].kept \in {0, 1} /\ heard["audit"].received \in {0, 1}
  <2> SUFFICES ASSUME "audit" \in DOMAIN heard
               PROVE  heard["audit"].kept \in {0, 1} /\ heard["audit"].received \in {0, 1}
    OBVIOUS
  <2>1. PICK body \in Bodies("audit") : heard["audit"] = Answer("audit", body)
    BY DEF LoadInv, HeardIsTold
  <2>2. Parser["audit"] = NeedsId
    BY DEF Parser, parseAuditEvent
  <2>3. NeedsId[body] \in {0, 1} /\ FillsGaps[body] \in {0, 1}
    BY DEF Bodies, NeedsId, FillsGaps
  <2> QED BY <2>1, <2>2, <2>3 DEF Answer
<1>5. ASSUME Loaded, ~loadError, NEW x \in Told(PageOf[page]) PROVE x \in DOMAIN heard
  <2>1. PICK t \in DOMAIN Tries : Tries[t].tells = "loadError" /\ \E a \in DOMAIN Tries[t].awaits : x \in Tries[t].awaits[a]
    BY PagesShape DEF PageShape, ListShape, Tries
  <2>2. t \notin failed /\ t < tryNo
    BY <1>5, <2>1, TriesFacts DEF loadError, Loaded, LoadInv, Progress
  <2> QED BY <2>1, <2>2 DEF LoadInv, Progress
<1>6. Section("audit") = auditScreen /\ Section("ledger") = ledgerScreen
      /\ \A x : x # "audit" /\ x # "ledger" => Section(x) = emptyKindOf(x)
  BY DEF Section
<1>7. \A x : emptyKindOf(x) \in {"none", "noMatch", "rows"}
  BY DEF emptyKindOf, emptyKind
<1>8. auditScreen \in {"none", "empty"} =>
        failed = {} /\ (auditScreen = "none" => /\ rows["audit"] = 0 \/ ("audit" \in DOMAIN heard /\ ~heard["audit"].here)
                                                /\ heard["audit"].kept > 0)
        /\ (auditScreen = "empty" => ~(heard["audit"].kept > 0) /\ ~(heard["audit"].kept = 0 /\ heard["audit"].received > 0))
  BY <1>3, <1>7 DEF auditScreen
<1>9. ASSUME "audit" \in DOMAIN heard, auditScreen \in {"none", "empty"}
      PROVE  \/ auditScreen = "empty" /\ heard["audit"].received = 0
             \/ auditScreen = "none" /\ "audit" \in PageOf[page].own /\ ~heard["audit"].here
  BY <1>1, <1>4, <1>8, <1>9, <1>h
<1>10. EmptyMeansRead
  <2> SUFFICES ASSUME Loaded, ~loadError, NEW x \in Told(PageOf[page]), Section(x) \in {"none", "empty"}
               PROVE  /\ x \in DOMAIN heard
                      /\ Parser[x] = FillsGaps \/ x = "audit" =>
                           heard[x].received = 0 \/ (x \in PageOf[page].own /\ ~heard[x].here)
    BY DEF EmptyMeansRead, Told
  <2>1. x \in DOMAIN heard
    BY <1>5
  <2>2. CASE x = "audit"
    BY <1>6, <1>9, <2>1, <2>2
  <2>3. CASE x # "audit"
    <3>1. emptyKindOf(x) = "none"
      BY <1>6, <1>7, <2>3 DEF ledgerScreen
    <3> QED BY <1>2, <1>3, <1>h, <2>1, <2>3, <3>1
  <2> QED BY <2>1, <2>2, <2>3
<1>11. AuditEmptyIsEmpty
  <2> SUFFICES ASSUME page = "audit", Loaded
               PROVE  /\ auditScreen = "empty" => "audit" \in DOMAIN heard /\ heard["audit"].received = 0
                      /\ auditScreen = "noMatch" => needle # "" /\ heard["audit"].kept > 0
    BY DEF AuditEmptyIsEmpty
  <2>1. auditScreen = "empty" => "audit" \in DOMAIN heard
    <3> SUFFICES ASSUME failed = {} PROVE "audit" \in DOMAIN heard
      BY <1>8
    <3>1. ~loadError
      BY DEF loadError
    <3>2. "audit" \in Told(PageOf[page])
      BY DEF Told, PageOf, AuditPage, Searched, Listing
    <3> QED BY <1>5, <3>1, <3>2
  <2>2. auditScreen = "noMatch" => needle # "" /\ heard["audit"].kept > 0
    BY <1>7 DEF auditScreen, emptyKindOf, emptyKind
  <2> QED BY <1>9, <2>1, <2>2
<1>12. WritersOnly
  <2> SUFFICES ASSUME Controls # {}
               PROVE  \E i \in DOMAIN Tries : Tries[i] = fetchConsoleRole /\ i \notin failed /\ heard["role"].kept = 1
    BY DEF WritersOnly
  <2>1. role = "admin"
    BY DEF Controls, mayWrite
  <2> QED BY <2>1 DEF LoadInv, RoleIsTold
<1> QED BY <1>10, <1>11, <1>12 DEF DrawnAsTold

\* Every page draws what it was told, for any number of searches: each of its reads
\* answered, with rows kept or dropped, refused, broken or given up, in any order
\* (the catches of the pages, auditScreen, fetchConsoleRole).
THEOREM PagesDrawnAsTold == ConsoleSpec => []DrawnAsTold
<1>1. ConsoleInit => LoadsInv
  <2> SUFFICES ASSUME LoadsInit, page \in LoadPages PROVE LoadInv
    BY DEF ConsoleInit, LoadsInv
  <2>1. /\ tryNo = 1 /\ awaitNo = 1 /\ answers = << >> /\ heard = << >> /\ failed = {} /\ role = "readonly"
    BY DEF LoadsInit, LoadsRest
  <2>2. HeardIsTold /\ RoleIsTold
    BY <2>1 DEF HeardIsTold, RoleIsTold
  <2>3. Progress
    BY <2>1, TriesFacts DEF Progress, Loaded
  <2> QED BY <2>2, <2>3 DEF LoadInv
<1> QED BY <1>1, LoadsStep, DrawnFromHeard, PTL DEF ConsoleSpec

-----------------------------------------------------------------------------
(* The order of a table.                                                     *)

\* Rows as the gateway serves them: one for each modem.
Readings == [imei : Nat, signal : Int \cup {Missing}, seen : Int \cup {Missing}]
IsTable(S) == IsFiniteSet(S) /\ S \subseteq Readings /\ \A r, s \in S : r.imei = s.imei => r = s

\* Row `r` is drawn above row `s`.
Above(r, s, order) == orderModems(r, s, order) < 0

LEMMA BiggestFirstSign ==
  ASSUME NEW x \in Int \cup {Missing}, NEW y \in Int \cup {Missing}
  PROVE  /\ biggestFirst(x, y) \in Int
         /\ biggestFirst(x, y) = 0 <=> x = y
         /\ biggestFirst(x, y) < 0 <=> x # Missing /\ (y = Missing \/ x > y)
  BY TableAssumption DEF biggestFirst

\* What is compared first, and what it says.
Key(r, order) == IF order = "signal" THEN r.signal ELSE IF order = "seen" THEN r.seen ELSE Missing

LEMMA AboveMeans ==
  ASSUME NEW r \in Readings, NEW s \in Readings, NEW order
  PROVE  /\ Key(r, order) \in Int \cup {Missing} /\ Key(s, order) \in Int \cup {Missing}
         /\ orderModems(r, s, order) \in Int
         /\ orderModems(r, s, order) = 0 <=> Key(r, order) = Key(s, order) /\ r.imei = s.imei
         /\ Above(r, s, order) <=>
              \/ Key(r, order) = Key(s, order) /\ r.imei < s.imei
              \/ Key(r, order) # Missing /\ (Key(s, order) = Missing \/ Key(r, order) > Key(s, order))
<1> DEFINE x == Key(r, order)
           y == Key(s, order)
<1>1. r.imei \in Nat /\ s.imei \in Nat /\ r.signal \in Int \cup {Missing} /\ s.signal \in Int \cup {Missing}
      /\ r.seen \in Int \cup {Missing} /\ s.seen \in Int \cup {Missing}
  BY DEF Readings
<1>2. x \in Int \cup {Missing} /\ y \in Int \cup {Missing}
  BY <1>1 DEF Key
<1>3. PICK c \in Int : c = biggestFirst(x, y)
  BY <1>2, BiggestFirstSign
<1>4. /\ c = 0 <=> x = y
      /\ c < 0 <=> x # Missing /\ (y = Missing \/ x > y)
  BY <1>2, <1>3, BiggestFirstSign
<1>5. orderModems(r, s, order) = IF c # 0 THEN c ELSE r.imei - s.imei
  <2>1. CASE order = "signal"
    BY <1>3, <2>1 DEF orderModems, by, alphabetical, Key
  <2>2. CASE order = "seen"
    BY <1>3, <2>2 DEF orderModems, by, alphabetical, Key
  <2>3. CASE order # "signal" /\ order # "seen"
    BY <1>4, <2>3 DEF orderModems, by, alphabetical, Key
  <2> QED BY <2>1, <2>2, <2>3
<1> QED BY <1>1, <1>2, <1>4, <1>5, TableAssumption DEF Above

\* The order is total on the rows of a table.
LEMMA AboveIsOrder ==
  ASSUME NEW S, IsTable(S), NEW order
  PROVE  /\ \A r \in S : ~Above(r, r, order)
         /\ \A r, s, t \in S : Above(r, s, order) /\ Above(s, t, order) => Above(r, t, order)
         /\ \A r, s \in S : r # s => Above(r, s, order) \/ Above(s, r, order)
         /\ \A r, s \in S : orderModems(r, s, order) = 0 => r = s
<1>0. \A r \in S : r \in Readings /\ r.imei \in Nat
  BY DEF IsTable, Readings
<1>1. \A r \in S : ~Above(r, r, order)
  <2> TAKE r \in S
  <2>1. Key(r, order) \in Int \cup {Missing}
    BY <1>0, AboveMeans
  <2> QED BY <1>0, <2>1, AboveMeans, TableAssumption
<1>2. ASSUME NEW r \in S, NEW s \in S, NEW t \in S, Above(r, s, order), Above(s, t, order) PROVE Above(r, t, order)
  <2>1. PICK x \in Int \cup {Missing}, y \in Int \cup {Missing}, z \in Int \cup {Missing} :
          x = Key(r, order) /\ y = Key(s, order) /\ z = Key(t, order)
    BY <1>0, AboveMeans
  <2>2. (x = y /\ r.imei < s.imei) \/ (x # Missing /\ (y = Missing \/ x > y))
    BY <1>0, <1>2, <2>1, AboveMeans
  <2>3. (y = z /\ s.imei < t.imei) \/ (y # Missing /\ (z = Missing \/ y > z))
    BY <1>0, <1>2, <2>1, AboveMeans
  <2>4. (x = z /\ r.imei < t.imei) \/ (x # Missing /\ (z = Missing \/ x > z))
    BY <1>0, <2>2, <2>3, TableAssumption
  <2> QED BY <1>0, <2>1, <2>4, AboveMeans
<1>3. ASSUME NEW r \in S, NEW s \in S, r # s PROVE Above(r, s, order) \/ Above(s, r, order)
  <2>1. PICK x \in Int \cup {Missing}, y \in Int \cup {Missing} : x = Key(r, order) /\ y = Key(s, order)
    BY <1>0, AboveMeans
  <2>2. r.imei < s.imei \/ s.imei < r.imei
    BY <1>0, <1>3 DEF IsTable
  <2>3. \/ (x = y /\ r.imei < s.imei) \/ (x # Missing /\ (y = Missing \/ x > y))
        \/ (y = x /\ s.imei < r.imei) \/ (y # Missing /\ (x = Missing \/ y > x))
    BY <2>2, TableAssumption
  <2> QED BY <1>0, <2>1, <2>3, AboveMeans
<1>4. ASSUME NEW r \in S, NEW s \in S, orderModems(r, s, order) = 0 PROVE r = s
  BY <1>0, <1>4, AboveMeans DEF IsTable
<1> QED BY <1>1, <1>2, <1>3, <1>4

\* The rows drawn above a row, its place, and the rows in their places: nothing here
\* depends on how the rows arrived.
AboveIn(S, r, order) == {s \in S : Above(s, r, order)}
Place(S, r, order) == Cardinality(AboveIn(S, r, order)) + 1
Lined(S, order) == [k \in 1..Cardinality(S) |-> CHOOSE r \in S : Place(S, r, order) = k]

\* Every row has a place of its own, and every place a row.
LEMMA PlacesAreTaken ==
  ASSUME NEW S, IsTable(S), NEW order
  PROVE  /\ Cardinality(S) \in Nat
         /\ \A r \in S : Place(S, r, order) \in 1..Cardinality(S)
         /\ \A r, s \in S : Above(r, s, order) => Place(S, r, order) < Place(S, s, order)
         /\ \A r, s \in S : Place(S, r, order) = Place(S, s, order) => r = s
         /\ \A k \in 1..Cardinality(S) : \E r \in S : Place(S, r, order) = k
<1>0. IsFiniteSet(S) /\ Cardinality(S) \in Nat
  BY FS_CardinalityType DEF IsTable
<1>1. ASSUME NEW r \in S
      PROVE  /\ IsFiniteSet(AboveIn(S, r, order)) /\ Cardinality(AboveIn(S, r, order)) \in Nat
             /\ Cardinality(AboveIn(S, r, order)) < Cardinality(S)
  <2>1. AboveIn(S, r, order) \in SUBSET S /\ r \notin AboveIn(S, r, order)
    BY AboveIsOrder DEF AboveIn
  <2>2. /\ IsFiniteSet(AboveIn(S, r, order)) /\ Cardinality(AboveIn(S, r, order)) <= Cardinality(S)
        /\ Cardinality(S) = Cardinality(AboveIn(S, r, order)) => S = AboveIn(S, r, order)
    BY <1>0, <2>1, FS_Subset
  <2>3. Cardinality(AboveIn(S, r, order)) \in Nat
    BY <2>2, FS_CardinalityType
  <2> QED BY <1>0, <2>1, <2>2, <2>3
<1>2. \A r \in S : Place(S, r, order) \in 1..Cardinality(S)
  BY <1>0, <1>1 DEF Place
<1>3. ASSUME NEW r \in S, NEW s \in S, Above(r, s, order) PROVE Place(S, r, order) < Place(S, s, order)
  <2>1. AboveIn(S, r, order) \in SUBSET AboveIn(S, s, order) /\ r \in AboveIn(S, s, order) /\ r \notin AboveIn(S, r, order)
    BY <1>3, AboveIsOrder DEF AboveIn
  <2>2. /\ Cardinality(AboveIn(S, r, order)) <= Cardinality(AboveIn(S, s, order))
        /\ Cardinality(AboveIn(S, s, order)) = Cardinality(AboveIn(S, r, order)) => AboveIn(S, s, order) = AboveIn(S, r, order)
    BY <1>1, <2>1, FS_Subset
  <2> QED BY <1>1, <2>1, <2>2 DEF Place
<1>4. ASSUME NEW r \in S, NEW s \in S, Place(S, r, order) = Place(S, s, order) PROVE r = s
  <2>1. Place(S, r, order) \in Nat
    BY <1>0, <1>2
  <2>2. r # s => Place(S, r, order) < Place(S, s, order) \/ Place(S, s, order) < Place(S, r, order)
    BY <1>3, AboveIsOrder
  <2> QED BY <1>4, <2>1, <2>2
<1>5. \A k \in 1..Cardinality(S) : \E r \in S : Place(S, r, order) = k
  <2>1. PICK f : f = [r \in S |-> Place(S, r, order)]
    OBVIOUS
  <2>2. f \in Injection(S, 1..Cardinality(S))
    BY <1>2, <1>4, <2>1 DEF Injection, IsInjective
  <2>3. IsFiniteSet(1..Cardinality(S)) /\ Cardinality(1..Cardinality(S)) = Cardinality(S)
    BY <1>0, FS_Interval
  <2>4. f \in Surjection(S, 1..Cardinality(S))
    BY <1>0, <2>2, <2>3, FS_Injection
  <2> QED BY <2>1, <2>4 DEF Surjection
<1> QED BY <1>0, <1>2, <1>3, <1>4, <1>5

\* Rows that arrive each once, at the positions that are kept.
Brings(arrived, keep, S) ==
  /\ \A i \in keep : arrived[i] \in S
  /\ \A i, j \in keep : arrived[i] = arrived[j] => i = j
  /\ \A r \in S : \E i \in keep : arrived[i] = r

LEMMA BringsCount ==
  ASSUME NEW arrived, NEW keep, NEW S, IsFiniteSet(S), Brings(arrived, keep, S)
  PROVE  IsFiniteSet(keep) /\ Cardinality(keep) = Cardinality(S)
<1>1. PICK f : f = [i \in keep |-> arrived[i]]
  OBVIOUS
<1>2. f \in Injection(keep, S) /\ f \in Surjection(keep, S)
  BY <1>1 DEF Brings, Injection, IsInjective, Surjection
<1> QED BY <1>2, FS_Injection

\* The table that is drawn is the one in the rows' own places.
LEMMA SortedIsLined ==
  ASSUME NEW S, IsTable(S), NEW order, NEW arrived, NEW keep, keep \subseteq Nat, Brings(arrived, keep, S)
  PROVE  Sorted(arrived, keep, order) = Lined(S, order)
<1>0. IsFiniteSet(S) /\ IsFiniteSet(keep) /\ Cardinality(keep) = Cardinality(S)
  BY BringsCount DEF IsTable
<1> DEFINE before(i) == {j \in keep : LET c == orderModems(arrived[j], arrived[i], order)
                                      IN c < 0 \/ (c = 0 /\ j < i)}
<1>1. ASSUME NEW i \in keep PROVE Cardinality(before(i)) + 1 = Place(S, arrived[i], order)
  <2>1. before(i) = {j \in keep : Above(arrived[j], arrived[i], order)}
    <3>1. ASSUME NEW j \in keep, orderModems(arrived[j], arrived[i], order) = 0 PROVE ~(j < i)
      <4>1. arrived[j] = arrived[i]
        BY <3>1, AboveIsOrder DEF Brings
      <4>2. j = i
        BY <4>1 DEF Brings
      <4> QED BY <4>2
    <3> QED BY <3>1 DEF Above
  <2>2. PICK B, A : B = before(i) /\ A = AboveIn(S, arrived[i], order)
    OBVIOUS
  <2>3. Brings(arrived, B, A)
    BY <2>1, <2>2 DEF Brings, AboveIn
  <2>4. IsFiniteSet(A)
    BY <1>0, <2>2, FS_Subset DEF AboveIn
  <2>5. Cardinality(B) = Cardinality(A)
    BY <2>3, <2>4, BringsCount
  <2> QED BY <2>2, <2>5 DEF Place
<1>2. ASSUME NEW k \in 1..Cardinality(S)
      PROVE  arrived[CHOOSE i \in keep : Cardinality(before(i)) + 1 = k] = CHOOSE r \in S : Place(S, r, order) = k
  <2> HIDE DEF before
  <2>1. PICK r \in S : r = (CHOOSE s \in S : Place(S, s, order) = k) /\ Place(S, r, order) = k
    BY PlacesAreTaken
  <2>2. \E i \in keep : Cardinality(before(i)) + 1 = k
    BY <1>1, <2>1 DEF Brings
  <2>3. PICK i \in keep : i = (CHOOSE j \in keep : Cardinality(before(j)) + 1 = k) /\ Cardinality(before(i)) + 1 = k
    BY <2>2
  <2>4. arrived[i] \in S /\ Place(S, arrived[i], order) = k
    BY <1>1, <2>3 DEF Brings
  <2>5. arrived[i] = r
    BY <2>1, <2>4, PlacesAreTaken
  <2> QED BY <2>1, <2>3, <2>5
<1>3. Sorted(arrived, keep, order)
        = [k \in 1..Cardinality(keep) |-> arrived[CHOOSE i \in keep : Cardinality(before(i)) + 1 = k]]
  BY DEF Sorted
<1> HIDE DEF before
<1> QED BY <1>0, <1>2, <1>3 DEF Lined

\* What is drawn is the rows it was drawn of, those the address asks for, in their
\* places.
Asked(S) == {r \in S : matches(query.needle, query.hits, r)}

TableInv ==
  /\ modemRows \in [Imeis -> [signal : Int \cup {Missing}, seen : Int \cup {Missing}]]
  /\ IsTable(table.of)
  /\ table.rows = Lined(Asked(table.of), OrderOf(query))

LEMMA AskedIsTable == ASSUME NEW S, IsTable(S) PROVE IsTable(Asked(S))
<1>1. Asked(S) \in SUBSET S
  BY DEF Asked
<1>2. IsFiniteSet(Asked(S))
  BY <1>1, FS_Subset DEF IsTable
<1> QED BY <1>1, <1>2 DEF IsTable

LEMMA RowsAreTable ==
  ASSUME modemRows \in [Imeis -> [signal : Int \cup {Missing}, seen : Int \cup {Missing}]]
  PROVE  IsTable(TableRows) /\ Cardinality(TableRows) = Cardinality(Imeis)
<1>1. PICK f : f = [imei \in Imeis |-> Row(imei)]
  OBVIOUS
<1>2. \A imei \in Imeis : f[imei] = Row(imei) /\ Row(imei) \in TableRows /\ Row(imei).imei = imei /\ Row(imei) \in Readings
  BY <1>1, TableAssumption DEF Row, TableRows, Readings
<1>3. f \in Surjection(Imeis, TableRows)
  BY <1>1, <1>2 DEF TableRows, Surjection
<1>4. f \in Injection(Imeis, TableRows)
  BY <1>1, <1>2 DEF Injection, IsInjective
<1>5. IsFiniteSet(TableRows) /\ Cardinality(TableRows) = Cardinality(Imeis)
  BY <1>3, <1>4, FS_Surjection, TableAssumption
<1>6. TableRows \subseteq Readings /\ \A r, s \in TableRows : r.imei = s.imei => r = s
  BY <1>2 DEF TableRows
<1> QED BY <1>5, <1>6 DEF IsTable

\* Whatever the order the rows arrive in, they are drawn in their places.
LEMMA DrawnInPlace ==
  ASSUME modemRows \in [Imeis -> [signal : Int \cup {Missing}, seen : Int \cup {Missing}]],
         NEW arrived \in Arrivals
  PROVE  /\ Drawing(arrived).of = TableRows
         /\ Drawing(arrived).rows = Lined(Asked(TableRows), OrderOf(query))
<1> DEFINE keep == {i \in DOMAIN arrived : matches(query.needle, query.hits, arrived[i])}
<1>1. /\ DOMAIN arrived = 1..Cardinality(Imeis) /\ arrived \in [1..Cardinality(Imeis) -> TableRows]
      /\ \A row \in TableRows : \E i \in DOMAIN arrived : arrived[i] = row
  BY DEF Arrivals
<1>2. IsTable(TableRows) /\ Cardinality(TableRows) = Cardinality(Imeis) /\ Cardinality(Imeis) \in Nat
  BY RowsAreTable, FS_CardinalityType, TableAssumption
<1>3. IsFiniteSet(1..Cardinality(Imeis)) /\ Cardinality(1..Cardinality(Imeis)) = Cardinality(Imeis)
  BY <1>2, FS_Interval
<1>4. arrived \in Surjection(1..Cardinality(Imeis), TableRows)
  BY <1>1 DEF Surjection
<1>5. arrived \in Injection(1..Cardinality(Imeis), TableRows)
  BY <1>2, <1>3, <1>4, FS_Surjection
<1>6. Brings(arrived, keep, Asked(TableRows))
  BY <1>1, <1>5 DEF Brings, Asked, Injection, IsInjective
<1>7. keep \subseteq Nat
  BY <1>1, <1>2
<1>8. Drawing(arrived).of = TableRows /\ Drawing(arrived).rows = Sorted(arrived, keep, OrderOf(query))
  BY DEF Drawing
<1> HIDE DEF keep
<1> QED BY <1>2, <1>6, <1>7, <1>8, AskedIsTable, SortedIsLined

LEMMA TableStep ==
    TableInv /\ [TableNext]_tableVars =>
      TableInv' /\ query' = query /\ (table'.of = table.of => table'.rows = table.rows)
<1> SUFFICES ASSUME TableInv, [TableNext]_tableVars
             PROVE  TableInv' /\ query' = query /\ (table'.of = table.of => table'.rows = table.rows)
  OBVIOUS
<1>1. CASE TableServed
  <2>1. PICK arrived \in Arrivals : table' = Drawing(arrived) /\ modemRows' = modemRows /\ query' = query
    BY <1>1 DEF TableServed
  <2>2. table'.of = TableRows /\ table'.rows = Lined(Asked(TableRows), OrderOf(query))
    BY <2>1, DrawnInPlace DEF TableInv
  <2>3. IsTable(TableRows)
    BY RowsAreTable DEF TableInv
  <2>4. \A S : Asked(S)' = Asked(S)
    BY <2>1 DEF Asked
  <2> QED BY <2>1, <2>2, <2>3 DEF TableInv, Asked
<1>2. CASE ReadingChanges
  <2>1. table' = table /\ query' = query
    BY <1>2 DEF ReadingChanges
  <2>2. PICK imei \in Imeis, reading \in Signals : modemRows' = [modemRows EXCEPT ![imei].signal = reading]
    BY <1>2 DEF ReadingChanges
  <2>3. reading \in Int \cup {Missing}
    BY TableAssumption DEF Signals
  <2>4. modemRows' \in [Imeis -> [signal : Int \cup {Missing}, seen : Int \cup {Missing}]]
    BY <2>2, <2>3 DEF TableInv
  <2> QED BY <2>1, <2>4 DEF TableInv, Asked
<1>3. CASE UNCHANGED tableVars
  BY <1>3 DEF tableVars, TableInv, Asked
<1> QED BY <1>1, <1>2, <1>3 DEF TableNext

LEMMA LinedByStrength == TableInv => UnmeasuredLast
<1> SUFFICES ASSUME TableInv, query.sort = "signal",
                    NEW i \in DOMAIN table.rows, NEW j \in DOMAIN table.rows, i < j, table.rows[j].signal # Missing
             PROVE  table.rows[i].signal # Missing /\ table.rows[i].signal >= table.rows[j].signal
  BY DEF UnmeasuredLast
<1>1. PICK S : S = Asked(table.of) /\ IsTable(S) /\ OrderOf(query) = "signal"
  BY AskedIsTable DEF TableInv, OrderOf, pickSort
<1>2. table.rows = Lined(S, "signal")
  BY <1>1 DEF TableInv
<1>3. i \in 1..Cardinality(S) /\ j \in 1..Cardinality(S) /\ Cardinality(S) \in Nat
  BY <1>1, <1>2, PlacesAreTaken DEF Lined
<1>4. PICK r \in S : r = table.rows[i] /\ Place(S, r, "signal") = i
  BY <1>1, <1>2, <1>3, PlacesAreTaken DEF Lined
<1>5. PICK s \in S : s = table.rows[j] /\ Place(S, s, "signal") = j
  BY <1>1, <1>2, <1>3, PlacesAreTaken DEF Lined
<1>6. r # s /\ ~Above(s, r, "signal")
  BY <1>1, <1>3, <1>4, <1>5, PlacesAreTaken
<1>7. Above(r, s, "signal")
  BY <1>1, <1>6, AboveIsOrder
<1>8. r \in Readings /\ s \in Readings /\ Key(r, "signal") = r.signal /\ Key(s, "signal") = s.signal
  BY <1>1 DEF IsTable, Key
<1>9. r.signal = s.signal \/ (r.signal # Missing /\ (s.signal = Missing \/ r.signal > s.signal))
  BY <1>7, <1>8, AboveMeans
<1>10. r.signal \in Int \cup {Missing} /\ s.signal \in Int \cup {Missing}
  BY <1>8 DEF Readings
<1> QED BY <1>4, <1>5, <1>9, <1>10, TableAssumption

\* Rows the gateway sends in another order are drawn where they were, and a modem
\* without a reading below every one that has one, for any number of modems and
\* any readings (by, orderModems, biggestFirst).
THEOREM RowsAreDrawnInPlace == ConsoleSpec => RowsStayPut
<1>1. ConsoleInit => TableInv
  <2> SUFFICES ASSUME ConsoleInit PROVE TableInv
    OBVIOUS
  <2>0. (page = "tables" /\ TableInit) \/ (TableRests /\ TablePinned)
    BY DEF ConsoleInit
  <2>1. modemRows \in [Imeis -> [signal : Int \cup {Missing}, seen : Int \cup {Missing}]]
    <3>1. Signals \subseteq Int \cup {Missing} /\ Times \subseteq Int \cup {Missing}
      BY TableAssumption DEF Signals, Times
    <3>2. CASE TableInit
      <4>1. modemRows \in [Imeis -> [signal : Signals, seen : Times]]
        BY <3>2 DEF TableInit
      <4> QED BY <3>1, <4>1
    <3>3. CASE TablePinned
      BY <3>3 DEF TablePinned
    <3> QED BY <2>0, <3>2, <3>3
  <2>2. table = [of |-> {}, rows |-> <<>>, empty |-> "none"]
    BY <2>0 DEF TableInit, TableRests
  <2>3. IsTable({})
    BY FS_EmptySet DEF IsTable
  <2>4. Asked({}) = {}
    BY DEF Asked
  <2>5. Lined({}, OrderOf(query)) = << >>
    <3>1. 1..Cardinality({}) = {}
      BY FS_EmptySet
    <3> QED BY <3>1 DEF Lined
  <2> QED BY <2>1, <2>2, <2>3, <2>4, <2>5 DEF TableInv
<1>2. TableInv /\ [ConsoleNext]_consoleVars =>
        TableInv' /\ (table'.of = table.of => table'.rows = table.rows)
  BY TableStep, TablePart
<1>3. TableInv' => UnmeasuredLast'
  BY LinedByStrength, PTL
<1>4. TableInv /\ [ConsoleNext]_consoleVars =>
        TableInv' /\ [ /\ table'.of = table.of => table'.rows = table.rows
                       /\ UnmeasuredLast' ]_tableVars
  BY <1>2, <1>3
<1> QED BY <1>1, <1>4, PTL DEF ConsoleSpec, RowsStayPut
=============================================================================
