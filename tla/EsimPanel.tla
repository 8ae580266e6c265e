------------------------------ MODULE EsimPanel ------------------------------
(***************************************************************************)
(* The eSIM tab of the device page (components/esim-panel.tsx) and the     *)
(* functions of lib/catalog.ts and lib/tokens.ts it is drawn from: which   *)
(* profiles are on the chip, whether the last switch is borne out by a     *)
(* reading taken after it, which module failed to be read.                 *)
(*                                                                         *)
(* A command is carried out by the device at one moment, stamped with the  *)
(* device's clock; two commands may carry the same stamp. A refresh reads  *)
(* the command list twice, first whole and then by kind, so that the two   *)
(* halves of what it shows may come from different moments.                *)
(***************************************************************************)
EXTENDS CommandGuards, ConsolePage, FiniteSets

CONSTANTS
  EsimModems,    \* IMEIs; the eUICC of a module is known by its IMEI
  Iccids,        \* the profiles
  Home,          \* the module each of them was delivered to
  Codes,         \* activation codes an operator was given
  EsimLimit,     \* rows one query returns (60 in the code)
  EsimKinds,     \* bound: the commands an operator presses
  MaxEsimCommands, MaxEsimPolls, MaxChipClock    \* bounds

ASSUME EsimAssumption ==
  /\ Absent \notin EsimModems \cup Iccids \cup Codes /\ "" \notin Codes
  /\ Home \in [Iccids -> EsimModems]
  /\ EsimLimit \in Nat /\ MaxEsimCommands \in Nat /\ MaxEsimPolls \in Nat /\ MaxChipClock \in Nat

VARIABLES
  chipLog,       \* gateway: accepted commands, oldest first
  chip,          \* per module: the profiles on its chip, and the one in service
  chipClock,     \* the device's clock
  executed,      \* commands carried out so far (their order, for the properties)
  panelPost,     \* the POST on its way
  panelPolls,    \* refreshes on their way
  panelPending,  \* useState pending
  panelBusy,     \* useState busy
  panelRows,     \* useState commands
  codeBox,       \* useState activationCode
  codesLeft      \* codes the operator has not typed yet

esimVars == <<chipLog, chip, chipClock, executed, panelPost, panelPolls, panelPending,
              panelBusy, panelRows, codeBox, codesLeft>>
deviceVars == <<chipLog, chip, chipClock, executed>>
panelVars == <<panelPost, panelPolls, panelPending, panelBusy, panelRows, codeBox, codesLeft>>

-----------------------------------------------------------------------------
(* Reading the command list.                                                 *)

ESIM_CHIP_COMMANDS == {"read_esim_info", "list_esim_profiles"}
isEsimRead(kind) == kind \in {"read_esim_info", "retrieve_esim_notification"}
Waiting(rows) ==
  {r \in rows : /\ r.status = "queued"
                /\ \/ isEsimRead(r.kind)
                   \/ r.kind \in {"initiate_esim_authentication", "download_esim_profile"}}

\* Of rows that compete, the ones with the newest stamp.
Newest(rows) == {r \in rows : \A s \in rows : s.at <= r.at}

\* The newest EsimLimit rows among those a query asks for.
QueryRows(ids) ==
  {chipLog[i] : i \in {j \in ids : Cardinality({k \in ids : k > j}) < EsimLimit}}

\* One row per id; the batch named first wins.
mergeCommandBatches(first, second) ==
  first \cup {r \in second : \A s \in first : s.id # r.id}

\* Only read_esim_info names the eUICC; a listing borrows it from one.
latestEsimChipReads(rows) ==
  {r \in rows : r.kind = "read_esim_info" /\ r.status = "succeeded"}

latestEsimProfileListings(rows) ==
  LET reads == {r \in rows : r.kind \in ESIM_CHIP_COMMANDS /\ r.status = "succeeded"}
  IN UNION {Newest({r \in reads : r.imei = m}) : m \in EsimModems}

\* Rows of the profile table that come from readings: <<module, profile>>,
\* state and time.
esimProfileRowsFromReads(rows) ==
  LET named(l) == \E r \in latestEsimChipReads(rows) : r.imei = l.imei IN
  UNION {{[imei |-> l.imei, iccid |-> p, at |-> l.at,
           state |-> IF p = l.reading.enabled THEN "enabled" ELSE "disabled"] :
             p \in l.reading.installed} :
         l \in {k \in latestEsimProfileListings(rows) : named(k)}}

\* The chips as delivered: at most one profile of a module in service.
InService(m) == IF \E p \in Iccids : Home[p] = m THEN CHOOSE p \in Iccids : Home[p] = m ELSE Absent
Delivered(m) == [installed |-> {p \in Iccids : Home[p] = m}, enabled |-> InService(m)]

\* The durable inventory the page is served with, collected on delivery.
Inventory ==
  {[imei |-> Home[p], iccid |-> p, at |-> 0,
    state |-> IF p = InService(Home[p]) THEN "enabled" ELSE "disabled"] : p \in Iccids}

\* Per profile the newest of both; at equal times the reading, listed second.
mergeEsimProfiles(inventory, fromReads) ==
  fromReads \cup {i \in inventory :
    \A r \in fromReads : r.imei = i.imei /\ r.iccid = i.iccid => i.at > r.at}

\* The newest switch shown, and whether a reading strictly after it agrees.
newestSwitch(rows) ==
  Newest({r \in rows : r.kind = "switch_esim_profile" /\ r.status = "succeeded"})

\* Slip: a reading with the stamp of the switch counts as taken after it.
VerdictAtSameStamp(rows, switch) ==
  LET observed == mergeEsimProfiles(Inventory, esimProfileRowsFromReads(rows))
      latest == Newest({p \in observed : p.iccid = switch.iccid /\ p.at >= switch.at})
  IN IF latest = {} THEN "unverified"
     ELSE IF \E p \in latest : p.state = "enabled" THEN "confirmed" ELSE "contradicted"

esimSwitchVerdict(rows, switch) ==
  LET observed == mergeEsimProfiles(Inventory, esimProfileRowsFromReads(rows))
      latest == Newest({p \in observed : p.iccid = switch.iccid /\ p.at > switch.at})
  IN IF latest = {} THEN "unverified"
     ELSE IF \E p \in latest : p.state = "enabled" THEN "confirmed" ELSE "contradicted"

\* Modules whose newest attempt to be read failed.
esimReadFailures(rows) ==
  LET reads == {r \in rows : r.kind \in ESIM_CHIP_COMMANDS}
      done(m, status) == {r \in reads : r.imei = m /\ r.status = status}
  IN {m \in EsimModems : \E f \in done(m, "failed") : \A s \in done(m, "succeeded") : s.at < f.at}

-----------------------------------------------------------------------------
(* Sending.                                                                  *)

PanelPost(kind, m, p, code) == [kind |-> kind, imei |-> m, iccid |-> p, code |-> code]

\* runNow: the only function that posts.
panelRunNow(p) == panelPost' = p /\ panelBusy' = TRUE

\* request: the dialog when the ledger says so.
panelRequest(p) ==
  /\ Len(chipLog) < MaxEsimCommands
  /\ IF deviceCommandGuard(p.kind, NoExtra)
     THEN panelPending' = p /\ UNCHANGED <<panelPost, panelBusy>>
     ELSE panelRunNow(p) /\ UNCHANGED panelPending

PanelUsable == ~panelBusy /\ panelPending = Absent

\* Reading the chip, authenticating: the module of the picker.
PanelRead(kind, m) ==
  /\ kind \in (ESIM_CHIP_COMMANDS \cup {"initiate_esim_authentication"}) \cap EsimKinds
  /\ PanelUsable
  /\ panelRequest(PanelPost(kind, m, Absent, Absent))
  /\ UNCHANGED <<deviceVars, panelPolls, panelRows, codeBox, codesLeft>> /\ ConnectionHolds

\* The buttons of a profile row: which are drawn depends on the state shown.
PanelRowAction(kind, row) ==
  /\ kind \in EsimKinds
  /\ \/ kind \in {"switch_esim_profile", "delete_esim_profile"} /\ row.state = "disabled"
     \/ kind = "disable_esim_profile" /\ row.state = "enabled"
  /\ PanelUsable
  /\ panelRequest(PanelPost(kind, row.imei, row.iccid, Absent))
  /\ UNCHANGED <<deviceVars, panelPolls, panelRows, codeBox, codesLeft>> /\ ConnectionHolds

\* The rename form lists the durable inventory, not the readings.
PanelRename(row) ==
  /\ "rename_esim_profile" \in EsimKinds /\ PanelUsable
  /\ panelRequest(PanelPost("rename_esim_profile", row.imei, row.iccid, Absent))
  /\ UNCHANGED <<deviceVars, panelPolls, panelRows, codeBox, codesLeft>> /\ ConnectionHolds

PanelTypeCode(c) ==
  /\ codeBox = "" /\ panelPending = Absent
  /\ codeBox' = c /\ codesLeft' = codesLeft \ {c}
  /\ UNCHANGED <<deviceVars, panelPost, panelPolls, panelPending, panelBusy, panelRows>>
  /\ ConnectionHolds

\* Slip: the code stays in the box.
DownloadKeepsCode(m) ==
  /\ codeBox # "" /\ PanelUsable
  /\ panelRequest(PanelPost("download_esim_profile", m, Absent, codeBox))
  /\ UNCHANGED <<deviceVars, panelPolls, panelRows, codeBox, codesLeft>> /\ ConnectionHolds

\* The box is emptied before the dialog opens.
PanelDownload(m) ==
  /\ codeBox # "" /\ PanelUsable
  /\ codeBox' = ""
  /\ panelRequest(PanelPost("download_esim_profile", m, Absent, codeBox))
  /\ UNCHANGED <<deviceVars, panelPolls, panelRows, codesLeft>> /\ ConnectionHolds

PanelProceed ==
  /\ panelPending # Absent
  /\ panelPending' = Absent
  /\ panelRunNow(panelPending)
  /\ UNCHANGED <<deviceVars, panelPolls, panelRows, codeBox, codesLeft>> /\ ConnectionHolds

PanelCancel ==
  /\ panelPending # Absent
  /\ panelPending' = Absent
  /\ UNCHANGED <<deviceVars, panelPost, panelPolls, panelBusy, panelRows, codeBox, codesLeft>>
  /\ ConnectionHolds

-----------------------------------------------------------------------------
(* The gateway and the device.                                               *)

Refresh == [step |-> "sent", first |-> {}, failed |-> {}]
NoReading == [installed |-> {}, enabled |-> Absent]
ChipRow(p) == [id |-> Len(chipLog) + 1, kind |-> p.kind, imei |-> p.imei, iccid |-> p.iccid,
               code |-> p.code, status |-> "queued", at |-> 0, order |-> 0, reading |-> NoReading]

\* Accepted: the controls come back and the list is read again.
PanelAccepted ==
  /\ panelPost # Absent
  /\ chipLog' = Append(chipLog, ChipRow(panelPost))
  /\ panelPost' = Absent /\ panelBusy' = FALSE
  /\ panelPolls' = panelPolls \cup {Refresh}
  /\ UNCHANGED <<chip, chipClock, executed, panelPending, panelRows, codeBox, codesLeft>>
  /\ ConnectionHolds

PanelRefused ==
  /\ panelPost # Absent
  /\ panelPost' = Absent /\ panelBusy' = FALSE
  /\ UNCHANGED <<deviceVars, panelPolls, panelPending, panelRows, codeBox, codesLeft>>
  /\ ConnectionHolds

\* fetch rejects, before or after the gateway took the command; runNow does
\* not catch it, so that busy stays set.
PanelBroken ==
  /\ panelPost # Absent
  /\ panelPost' = Absent
  /\ \/ chipLog' = Append(chipLog, ChipRow(panelPost))
     \/ UNCHANGED chipLog
  /\ UNCHANGED <<chip, chipClock, executed, panelPolls, panelPending, panelBusy, panelRows,
                 codeBox, codesLeft>>
  /\ ConnectionBreaks

\* What the device may make of a command: the outcome, the chip afterwards and
\* what was read. A switch may be reported done without having taken effect;
\* a reading may come without its profile list.
Outcomes(r) ==
  LET c == chip[r.imei]
      done(after) == [status |-> "succeeded", chip |-> after, reading |-> NoReading]
      failed == [status |-> "failed", chip |-> c, reading |-> NoReading]
  IN {failed} \cup
     CASE r.kind \in ESIM_CHIP_COMMANDS -> {[done(c) EXCEPT !.reading = c], done(c)}
       [] r.kind = "switch_esim_profile" ->
            {done(c)} \cup {done([c EXCEPT !.enabled = p]) : p \in c.installed \cap {r.iccid}}
       [] r.kind = "disable_esim_profile" ->
            {done([c EXCEPT !.enabled = Absent]) : p \in {c.enabled} \cap {r.iccid}}
       [] r.kind = "delete_esim_profile" ->
            {done([c EXCEPT !.installed = @ \ {p}]) : p \in (c.installed \ {c.enabled}) \cap {r.iccid}}
       [] OTHER -> {done(c)}

DeviceExecutes(i) ==
  /\ chipLog[i].status = "queued"
  /\ \E o \in Outcomes(chipLog[i]) :
       /\ chipLog' = [chipLog EXCEPT ![i].status = o.status, ![i].at = chipClock,
                                     ![i].order = executed + 1, ![i].reading = o.reading]
       /\ chip' = [chip EXCEPT ![chipLog[i].imei] = o.chip]
  /\ executed' = executed + 1
  /\ UNCHANGED <<chipClock, panelVars>> /\ ConnectionHolds

ChipTick ==
  /\ chipClock < MaxChipClock
  /\ chipClock' = chipClock + 1
  /\ UNCHANGED <<chipLog, chip, executed, panelVars>> /\ ConnectionHolds

-----------------------------------------------------------------------------
(* Refreshing: the whole list first, then one query per chip command.        *)

PanelPollTimer ==
  /\ Waiting(panelRows) # {} /\ Cardinality(panelPolls) < MaxEsimPolls
  /\ panelPolls' = panelPolls \cup {Refresh}
  /\ UNCHANGED <<deviceVars, panelPost, panelPending, panelBusy, panelRows, codeBox, codesLeft>>
  /\ ConnectionHolds

\* An error answer counts as an empty list.
RefreshWhole(q) ==
  /\ q.step = "sent"
  /\ \E rows \in {QueryRows(DOMAIN chipLog)} \cup (IF faults < MaxFaults THEN {{}} ELSE {}) :
       /\ panelPolls' = (panelPolls \ {q}) \cup
            {[step |-> "half", first |-> rows,
              failed |-> {chipLog[i] : i \in {j \in DOMAIN chipLog : chipLog[j].status = "failed"}}]}
       /\ IF rows = {} /\ chipLog # <<>> THEN ConnectionBreaks ELSE ConnectionHolds
  /\ UNCHANGED <<deviceVars, panelPost, panelPending, panelBusy, panelRows, codeBox, codesLeft>>

KindQuery(kind) == QueryRows({i \in DOMAIN chipLog : chipLog[i].kind = kind})
KindRows(kinds) == UNION {KindQuery(kind) : kind \in kinds}

\* Slip: only the newest commands of the device are read.
RefreshNewestOnly(q) ==
  /\ q.step = "half"
  /\ panelPolls' = panelPolls \ {q}
  /\ panelRows' = q.first
  /\ UNCHANGED <<deviceVars, panelPost, panelPending, panelBusy, codeBox, codesLeft>>
  /\ ConnectionHolds

\* A kind's query that is refused counts as an empty list.
RefreshKinds(q) ==
  /\ q.step = "half"
  /\ panelPolls' = panelPolls \ {q}
  /\ \E answered \in SUBSET ESIM_CHIP_COMMANDS :
       /\ panelRows' = mergeCommandBatches(q.first, KindRows(answered))
       /\ IF answered = ESIM_CHIP_COMMANDS THEN ConnectionHolds ELSE ConnectionBreaks
  /\ UNCHANGED <<deviceVars, panelPost, panelPending, panelBusy, codeBox, codesLeft>>

\* refresh rejects: nothing is shown of it.
RefreshBroken(q) ==
  /\ panelPolls' = panelPolls \ {q}
  /\ UNCHANGED <<deviceVars, panelPost, panelPending, panelBusy, panelRows, codeBox, codesLeft>>
  /\ ConnectionBreaks

\* The page is loaded again; a POST on its way may still arrive.
PanelReload ==
  /\ \/ panelPost # Absent /\ chipLog' = Append(chipLog, ChipRow(panelPost))
     \/ UNCHANGED chipLog
  /\ panelPost' = Absent /\ panelPending' = Absent /\ panelBusy' = FALSE
  /\ panelRows' = {} /\ panelPolls' = {Refresh} /\ codeBox' = ""
  /\ UNCHANGED <<chip, chipClock, executed, codesLeft>> /\ ConnectionHolds

-----------------------------------------------------------------------------
EsimInit ==
  /\ chipLog = <<>> /\ chipClock = 0 /\ executed = 0
  /\ chip = [m \in EsimModems |-> Delivered(m)]
  /\ panelPost = Absent /\ panelPolls = {Refresh} /\ panelPending = Absent
  /\ panelBusy = FALSE /\ panelRows = {} /\ codeBox = "" /\ codesLeft = Codes

PanelOperator ==
  \/ \E kind \in EsimKinds, m \in EsimModems : PanelRead(kind, m)
  \/ \E kind \in EsimKinds, row \in mergeEsimProfiles(Inventory, esimProfileRowsFromReads(panelRows)) :
       PanelRowAction(kind, row)
  \/ \E row \in Inventory : PanelRename(row)
  \/ \E c \in codesLeft : PanelTypeCode(c)
  \/ \E m \in EsimModems : PanelDownload(m)
  \/ PanelProceed \/ PanelCancel \/ PanelReload

RefreshStep == \E q \in panelPolls : RefreshWhole(q) \/ RefreshKinds(q)
DeviceStep == \E i \in DOMAIN chipLog : DeviceExecutes(i)

EsimNext ==
  \/ PanelOperator \/ PanelAccepted \/ PanelRefused \/ PanelBroken
  \/ DeviceStep \/ ChipTick
  \/ PanelPollTimer \/ RefreshStep \/ \E q \in panelPolls : RefreshBroken(q)

\* Timers fire, requests are answered, and the device carries out what it is
\* sent.
EsimFairness ==
  /\ WF_<<esimVars, page, faults>>(page = "esim" /\ PanelPollTimer)
  /\ WF_<<esimVars, page, faults>>(page = "esim" /\ RefreshStep)
  /\ WF_<<esimVars, page, faults>>(page = "esim" /\ DeviceStep)
  /\ WF_<<esimVars, page, faults>>(page = "esim" /\ (PanelAccepted \/ PanelRefused \/ PanelBroken))

-----------------------------------------------------------------------------
(* Properties.                                                               *)

\* The panel says a switch is confirmed, or contradicted, only on the word of
\* a reading that was carried out after the switch, whatever was shown before,
\* however the stamps of the two coincide and whichever half of a refresh is
\* the older one (esimSwitchVerdict: "a read of the chip taken after").
VerdictTruthful ==
  \A s \in newestSwitch(panelRows) :
    LET verdict == esimSwitchVerdict(panelRows, s)
        after == {i \in DOMAIN chipLog : chipLog[i].order > s.order /\ chipLog[i].kind \in ESIM_CHIP_COMMANDS}
    IN /\ verdict = "confirmed" => \E i \in after : chipLog[i].reading.enabled = s.iccid
       /\ verdict = "contradicted" =>
            \E i \in after : /\ s.iccid \in chipLog[i].reading.installed
                             /\ chipLog[i].reading.enabled # s.iccid

\* A failed reading that no success answered yet, and that fewer than EsimLimit
\* commands of its kind came after.
LastWord(f) ==
  /\ f.kind \in ESIM_CHIP_COMMANDS
  /\ Cardinality({i \in DOMAIN chipLog : chipLog[i].kind = f.kind /\ i > f.id}) < EsimLimit
  /\ \A i \in DOMAIN chipLog :
       chipLog[i].kind \in ESIM_CHIP_COMMANDS /\ chipLog[i].imei = f.imei =>
         (chipLog[i].status = "succeeded" => chipLog[i].at < f.at)

\* A module that could not be read is reported by every refresh that began
\* after the failure and whose queries by kind were answered, until a reading
\* succeeds or EsimLimit readings of that kind were asked for since: other traffic
\* of the device does not push it off the list, and neither does a first query
\* that was refused, or one that is older than the second (refresh,
\* mergeCommandBatches). A refused query by kind counts as empty, and then the
\* failure may well be missing.
FailureNotCrowdedOut ==
  [][\A q \in panelPolls \ panelPolls' :
       q.step = "half" /\ ~PanelReload /\ faults' = faults =>
         \A f \in q.failed : LastWord(f) => f.imei \in esimReadFailures(panelRows')]_esimVars

\* A one-time activation code reaches the gateway at most once, though the
\* operator may press again at any time, before or after a dialog, a lost
\* answer or a reload (the box is emptied before the dialog opens).
CodeSpentOnce ==
  \A c \in Codes : Cardinality({i \in DOMAIN chipLog : chipLog[i].code = c}) <= 1

\* "Waiting" for a reading, an authentication or a download does not last: the
\* panel polls until the outcome is there.
EsimWaitingEnds ==
  \A i \in 1..MaxEsimCommands :
    (\E r \in Waiting(panelRows) : r.id = i) ~> ~(\E r \in Waiting(panelRows) : r.id = i)

\* The panel's controls come back after every command whose request was answered.
\* After a broken connection they do not: runNow has no finally.
PanelBusyEnds == panelBusy ~> (~panelBusy \/ faults > 0)
=============================================================================
