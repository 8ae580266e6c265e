---------------------------- MODULE DeviceConsole ----------------------------
(***************************************************************************)
(* The command relay of the console's device page: the page asks what      *)
(* stands in front of a command, posts it to the gateway and then polls    *)
(* GET /v1/commands for the outcome (components/device-console.tsx).       *)
(* Included: the guard ledger of lib/tokens.ts, the confirmation dialog,   *)
(* the modem picker, the AT console, USSD sessions with their deadline     *)
(* (lib/catalog.ts) and the adoption note.                                 *)
(*                                                                         *)
(* The gateway is the list of commands it accepted; a device answers each  *)
(* of them at most once. POSTs and polls travel independently: an answer   *)
(* may be overtaken by the answer to a later poll, or be lost.             *)
(***************************************************************************)
EXTENDS CommandGuards, ConsolePage, FiniteSets

CONSTANTS
  Modems,        \* IMEIs of the modems of the device
  First,         \* modems[0]
  AtCommands,    \* AT commands an operator types, as <<verb, argument, ...>>
  Kinds,         \* bound: the command kinds an operator presses
  Limit,         \* rows GET /v1/commands returns (25 in the code)
  TTL,           \* USSD_SESSION_TTL_MS, in clock ticks
  Skews,         \* gateway clock minus browser clock
  MaxCommands,   \* bound: POSTs issued
  MaxPolls,      \* bound: refreshes in flight
  MaxClock       \* bound: time

ASSUME ConsoleAssumption ==
  /\ Absent \notin Modems \cup {"start", "continue", "cancel"} /\ First \in Modems
  /\ Limit \in Nat /\ TTL \in Nat /\ Skews \subseteq Int
  /\ MaxCommands \in Nat /\ MaxPolls \in Nat /\ MaxClock \in Nat

VARIABLES
  log,       \* gateway: accepted commands, oldest first
  clock,     \* the browser's clock
  skew,      \* how far the gateway's clock is ahead of it
  posts,     \* POSTs of this page on their way, with the modem the operator meant
  polls,     \* GETs on their way: a timer's or a mount's ("page"), or runNow's ("post")
  open,      \* whether the page (its diagnostics or console tab) is mounted
  selected,  \* useState imei
  pending,   \* useState pending: the confirmation on screen
  busy,      \* useState busy
  shown,     \* useState commands
  observed,  \* UssdConsole: when this page first saw the answer of a command
  pageNow,   \* UssdConsole: the clock the page last rendered with
  draftFor   \* AdoptionCard: the modem the note in the box was typed for

relayVars == <<log, clock, skew, posts, polls, open, selected, pending, busy,
               shown, observed, pageNow, draftFor>>
vars == <<relayVars, page, faults>>
gatewayVars == <<log, clock, skew, page, faults>>
viewVars == <<open, selected, shown, observed, pageNow, draftFor>>

-----------------------------------------------------------------------------
(* The controls and what they send.                                          *)

TERMINAL == {"succeeded", "failed", "expired", "cancelled", "unknown"}
READ_ONLY == {"modem_report", "list_esim_profiles"}
DISRUPTIVE == {"restart_modem", "reset_modem_usb", "scan_operators", "rotate_ip",
               "set_radio", "set_data_network", "reregister_network", "unregister_modem"}
TURNS_OFF(kind) ==
  IF kind \in {"set_radio", "set_data_network"}
  THEN [NoExtra EXCEPT !.enabled = "false"] ELSE NoExtra

\* Buttons and forms that send a fixed payload: <<kind, extra>>.
DiagnosticButtons ==
  {<<k, NoExtra>> : k \in READ_ONLY \cup {"reconfirm_modem", "refresh_modems"}}
DangerZone ==
  {<<k, TURNS_OFF(k)>> : k \in DISRUPTIVE}
    \cup {<<k, [NoExtra EXCEPT !.enabled = "true"]>> : k \in {"set_radio", "set_data_network"}}
OperatorControls ==
  {<<"select_operator", [NoExtra EXCEPT !.mode = m]>> : m \in {"manual", "automatic"}}
UsbnetControls ==
  {<<"set_usbnet_mode", [NoExtra EXCEPT !.usbnet_mode = m]>> : m \in {"rmnet", "ecm", "mbim", "rndis"}}
CandidatesCard ==
  {<<k, NoExtra>> : k \in {"claim_modem_candidate", "revoke_modem_candidate"}}
AgentLogCard == {<<"read_logs", NoExtra>>}
ApnEditor == {<<"configure_apn", NoExtra>>}
Buttons ==
  {b \in DiagnosticButtons \cup DangerZone \cup OperatorControls \cup UsbnetControls
           \cup CandidatesCard \cup AgentLogCard \cup ApnEditor : b[1] \in Kinds}

-----------------------------------------------------------------------------
(* The USSD session a page may offer to continue.                            *)

NotSeen == [id |-> 0, at |-> 0]

\* The newest send_ussd among the rows, as a set of at most one row.
latestUssdExchange(rows) ==
  LET ussd == {r \in rows : r.ussd} IN
  {r \in ussd : \A s \in ussd : s.id <= r.id}

\* Slip: the age is counted from when the page first saw the answer.
AgeByPageOnly(r, obs, now) == IF obs.id = r.id THEN now - obs.at ELSE 0

\* The larger of the ages by the gateway's stamp and by the page's own clock.
ussdSessionAge(r, obs, now) ==
  LET byGateway == now - (r.done + skew)
      byPage == IF obs.id = r.id THEN now - obs.at ELSE 0
  IN IF byGateway > byPage THEN byGateway ELSE byPage

ussdSessionState(rows, obs, now) ==
  LET answered == {r \in latestUssdExchange(rows) : r.expects /\ r.status = "succeeded"} IN
  IF answered = {} THEN "none"
  ELSE IF \E r \in answered : ussdSessionAge(r, obs, now) > TTL THEN "expired"
  ELSE "open"

\* The effect that remembers when an answer was first seen on this page.
Observe(rows, obs) ==
  LET seen == {r \in latestUssdExchange(rows) : r.status = "succeeded"} IN
  IF seen = {} THEN obs
  ELSE LET r == CHOOSE r \in seen : TRUE
       IN IF obs.id = r.id THEN obs ELSE [id |-> r.id, at |-> clock]

-----------------------------------------------------------------------------
(* Sending.                                                                  *)

Drop(s, i) == SubSeq(s, 1, i - 1) \o SubSeq(s, i + 1, Len(s))

Target(extra) == IF extra.modem_imei = Absent THEN selected ELSE extra.modem_imei

\* The POST itself. `meant` is the modem the operator was shown, `since` the
\* moment the menu being replied to was answered.
runNow(kind, extra, meant, since, asked) ==
  /\ Len(log) + Len(posts) < MaxCommands
  /\ posts' = Append(posts,
       [kind |-> kind, extra |-> extra, imei |-> Target(extra), meant |-> meant,
        since |-> since, at |-> IF extra.stage = "continue" THEN clock ELSE 0,
        asked |-> asked, step |-> "sent"])
  /\ busy' = TRUE

\* What every control calls: the dialog when the guard asks, the POST if not.
request(kind, extra, meant, since) ==
  \/ /\ ~deviceCommandGuard(kind, extra)
     /\ runNow(kind, extra, meant, since, FALSE)
     /\ UNCHANGED pending
  \/ /\ deviceCommandGuard(kind, extra)
     /\ pending' = [kind |-> kind, extra |-> extra, meant |-> meant, since |-> since,
                     at |-> IF extra.stage = "continue" THEN clock ELSE 0]
     /\ UNCHANGED <<posts, busy>>

\* Controls are disabled while busy, and the dialog is modal.
Usable == open /\ ~busy /\ pending = Absent

Proceed ==
  /\ pending # Absent /\ ~busy
  /\ pending' = Absent
  /\ runNow(pending.kind, pending.extra, pending.meant, pending.since, TRUE)
  /\ UNCHANGED <<gatewayVars, polls, viewVars>>

CancelPending ==
  /\ pending # Absent /\ ~busy
  /\ pending' = Absent
  /\ UNCHANGED <<gatewayVars, posts, polls, busy, viewVars>>

-----------------------------------------------------------------------------
(* The controls.                                                             *)

SelectModem(m) ==
  /\ open /\ ~busy /\ pending = Absent /\ m # selected
  /\ selected' = m
  /\ draftFor' = m                    \* AdoptionCard starts from that modem's note
  /\ UNCHANGED <<gatewayVars, posts, polls, open, pending, busy, shown, observed, pageNow>>

Press(b) ==
  /\ Usable
  /\ request(b[1], b[2], selected, 0)
  /\ UNCHANGED <<gatewayVars, polls, viewVars>>

SubmitAt(c) ==
  /\ Usable
  /\ request("run_at_command", [NoExtra EXCEPT !.command = c], selected, 0)
  /\ UNCHANGED <<gatewayVars, polls, viewVars>>

\* Adopting a candidate, or entering a modem by hand: the form names the IMEI.
SubmitRegister(kind, m) ==
  /\ kind \in {"register_modem", "create_modem"} \cap Kinds
  /\ Usable
  /\ request(kind, [NoExtra EXCEPT !.modem_imei = m], m, 0)
  /\ UNCHANGED <<gatewayVars, polls, viewVars>>

SaveNote ==
  /\ "update_modem" \in Kinds
  /\ Usable
  /\ request("update_modem", [NoExtra EXCEPT !.modem_imei = selected], draftFor, 0)
  /\ UNCHANGED <<gatewayVars, polls, viewVars>>

Ussd(m, stage) == [NoExtra EXCEPT !.modem_imei = m, !.stage = stage]

UssdStart ==
  /\ Usable
  /\ request("send_ussd", Ussd(selected, "start"), selected, 0)
  /\ UNCHANGED <<gatewayVars, polls, viewVars>>

UssdCancel ==
  LET e == latestUssdExchange(shown)
      m == IF e = {} THEN selected ELSE (CHOOSE r \in e : TRUE).imei
  IN /\ Usable
     /\ request("send_ussd", Ussd(m, "cancel"), m, 0)
     /\ UNCHANGED <<gatewayVars, polls, viewVars>>

\* Slip: the reply names no modem, and goes to the one in the picker.
ReplyToPicked(r) == [NoExtra EXCEPT !.stage = "continue"]

ussdContinueRequest(r) == Ussd(r.imei, "continue")

\* The reply box: drawn by the page's clock, checked again by the real one.
UssdReply ==
  /\ Usable
  /\ ussdSessionState(shown, observed, pageNow) = "open"
  /\ \/ /\ ussdSessionState(shown, observed, clock) = "open"
        /\ \E r \in latestUssdExchange(shown) :
             request("send_ussd", ussdContinueRequest(r), r.imei, r.done)
        /\ UNCHANGED pageNow
     \/ /\ ussdSessionState(shown, observed, clock) # "open"
        /\ pageNow' = clock
        /\ UNCHANGED <<posts, pending, busy>>
  /\ UNCHANGED <<gatewayVars, polls, open, selected, shown, observed, draftFor>>

\* The one-second timer that runs while a session is on offer.
PageTick ==
  /\ open /\ ussdSessionState(shown, observed, pageNow) = "open"
  /\ pageNow # clock
  /\ pageNow' = clock
  /\ UNCHANGED <<gatewayVars, posts, polls, open, selected, pending, busy, shown, observed, draftFor>>

-----------------------------------------------------------------------------
(* The gateway and the device.                                               *)

\* What the page reads back of a row: the payload matters for USSD only.
Row(p) == [id |-> Len(log) + 1, ussd |-> p.kind = "send_ussd",
           imei |-> IF p.kind = "send_ussd" THEN p.imei ELSE Absent, stage |-> p.extra.stage,
           status |-> "queued", done |-> 0, expects |-> FALSE]

AcceptPost(i) ==
  /\ posts[i].step = "sent"
  /\ log' = Append(log, Row(posts[i]))
  /\ posts' = [posts EXCEPT ![i].step = "accepted"]
  /\ UNCHANGED <<clock, skew, page, faults, polls, pending, busy, viewVars>>

\* An error answer: the finally of runNow gives the controls back.
RefusePost(i) ==
  /\ posts[i].step = "sent"
  /\ posts' = Drop(posts, i) /\ busy' = FALSE
  /\ UNCHANGED <<gatewayVars, polls, pending, viewVars>>

\* The request, or the answer to it, never arrives: fetch rejects.
LosePost(i) ==
  /\ ConnectionBreaks
  /\ posts' = Drop(posts, i) /\ busy' = FALSE
  /\ UNCHANGED <<log, clock, skew, polls, pending, viewVars>>

DeviceAnswers(i, status, expects) ==
  /\ log[i].status = "queued"
  /\ expects => log[i].ussd /\ log[i].stage # "cancel" /\ status = "succeeded"
  /\ status = "failed" => log[i].ussd    \* of other commands only the end is told apart
  /\ log' = [log EXCEPT ![i].status = status, ![i].done = IF expects THEN clock ELSE 0, ![i].expects = expects]
  /\ UNCHANGED <<clock, skew, page, faults, posts, polls, pending, busy, viewVars>>

Tick ==
  /\ clock < MaxClock
  /\ clock' = clock + 1
  /\ UNCHANGED <<log, skew, page, faults, posts, polls, pending, busy, viewVars>>

-----------------------------------------------------------------------------
(* Watching for the outcome.                                                 *)

Poll(by) == [by |-> by, step |-> "sent", rows |-> {}]

\* runNow after its POST was accepted: it awaits a refresh.
PostSettled(i) ==
  /\ posts[i].step = "accepted"
  /\ posts' = Drop(posts, i)
  /\ polls' = polls \cup {Poll("post")}
  /\ UNCHANGED <<gatewayVars, pending, busy, viewVars>>

Outstanding(rows) == {r \in rows : r.status \notin TERMINAL}

\* Slip: the interval runs while a POST is outstanding, not while a row is.
PollWhileBusy ==
  /\ open /\ busy /\ Cardinality(polls) < MaxPolls
  /\ polls' = polls \cup {Poll("page")}
  /\ UNCHANGED <<gatewayVars, posts, pending, busy, viewVars>>

PollTimer ==
  /\ open /\ Outstanding(shown) # {} /\ Cardinality(polls) < MaxPolls
  /\ polls' = polls \cup {Poll("page")}
  /\ UNCHANGED <<gatewayVars, posts, pending, busy, viewVars>>

\* The newest rows, at most Limit of them.
Window == {log[i] : i \in {j \in DOMAIN log : j > Len(log) - Limit}}

ReadPoll(q) ==
  /\ q.step = "sent"
  /\ polls' = (polls \ {q}) \cup {[q EXCEPT !.step = "read", !.rows = Window]}
  /\ UNCHANGED <<gatewayVars, posts, pending, busy, viewVars>>

\* refresh() returns; the one runNow awaits also ends the busy state.
ApplyPoll(q) ==
  /\ q.step = "read"
  /\ shown' = q.rows
  /\ observed' = Observe(q.rows, observed)
  /\ busy' = (busy /\ q.by # "post")
  /\ polls' = polls \ {q}
  /\ UNCHANGED <<gatewayVars, posts, pending, open, selected, pageNow, draftFor>>

\* Slip: a refresh that fails marks what was waiting as failed.
FailPollMarksRows(q) ==
  /\ ConnectionBreaks
  /\ polls' = polls \ {q} /\ busy' = (busy /\ q.by # "post")
  /\ shown' = {[r EXCEPT !.status = "failed"] : r \in shown}
  /\ UNCHANGED <<log, clock, skew, posts, pending, open, selected, observed, pageNow, draftFor>>

\* An error answer, or none at all: the list stays as it is.
FailPoll(q) ==
  /\ ConnectionBreaks
  /\ polls' = polls \ {q}
  /\ busy' = (busy /\ q.by # "post")
  /\ UNCHANGED <<log, clock, skew, posts, pending, viewVars>>

\* Mounting a panel, and leaving the page with requests still on their way.
Open ==
  /\ ~open
  /\ open' = TRUE /\ selected' = First /\ draftFor' = First
  /\ pageNow' = clock
  /\ polls' = {Poll("page")}
  /\ UNCHANGED <<gatewayVars, posts, pending, busy, shown, observed>>

\* Its answers find no page any more; a POST not yet handled still may be.
Leave ==
  /\ open
  /\ open' = FALSE
  /\ \/ UNCHANGED log
     \/ \E i \in DOMAIN posts : posts[i].step = "sent" /\ log' = Append(log, Row(posts[i]))
  /\ posts' = <<>> /\ polls' = {}
  /\ pending' = Absent /\ busy' = FALSE
  /\ shown' = {} /\ observed' = NotSeen
  /\ selected' = First /\ draftFor' = First /\ pageNow' = 0
  /\ UNCHANGED <<clock, skew, page, faults>>

-----------------------------------------------------------------------------
RelayInit ==
  /\ log = <<>> /\ clock = 0 /\ skew \in Skews
  /\ posts = <<>> /\ polls = {}
  /\ open = FALSE /\ selected = First /\ draftFor = First
  /\ pending = Absent /\ busy = FALSE
  /\ shown = {} /\ observed = NotSeen /\ pageNow = 0

Operator ==
  \/ Proceed \/ CancelPending \/ SaveNote \/ UssdStart \/ UssdCancel \/ UssdReply
  \/ \E m \in Modems : SelectModem(m)
  \/ \E b \in Buttons : Press(b)
  \/ \E c \in AtCommands : SubmitAt(c)
  \/ \E kind \in Kinds, m \in Modems : SubmitRegister(kind, m)
  \/ Open \/ Leave

GatewayPost(i) == i \in DOMAIN posts /\ (AcceptPost(i) \/ RefusePost(i))
PageContinues(i) == i \in DOMAIN posts /\ PostSettled(i)
PollAnswered(q) == q \in polls /\ (ReadPoll(q) \/ ApplyPoll(q))
Answered(i) == i \in DOMAIN log /\
  \E status \in {"succeeded", "failed"}, expects \in BOOLEAN : DeviceAnswers(i, status, expects)

Next ==
  \/ Operator
  \/ \E i \in DOMAIN posts : GatewayPost(i) \/ PageContinues(i) \/ LosePost(i)
  \/ \E q \in polls : PollAnswered(q) \/ FailPoll(q)
  \/ \E i \in DOMAIN log : Answered(i)
  \/ PollTimer \/ PageTick \/ Tick

Init == page = "commands" /\ faults = 0 /\ RelayInit

Spec == Init /\ [][Next]_vars

\* The browser's timers fire, the gateway and the network answer every request
\* (or lose it), and a device answers, or its command expires.
RelayFairness ==
  /\ WF_vars(page = "commands" /\ PollTimer) /\ WF_vars(page = "commands" /\ PageTick)
  /\ \A i \in 1..MaxCommands : /\ WF_vars(page = "commands" /\ GatewayPost(i))
                               /\ WF_vars(page = "commands" /\ PageContinues(i))
                               /\ WF_vars(page = "commands" /\ Answered(i))
  /\ WF_vars(page = "commands" /\ \E q \in polls : ReadPoll(q))
  /\ WF_vars(page = "commands" /\ \E q \in polls : ApplyPoll(q))

-----------------------------------------------------------------------------
(* Properties.                                                               *)

\* A command goes to the modem its operator was looking at when composing it:
\* the one the confirmation named, the one beside the reply box, the one whose
\* note was being edited - although runNow reads the picker when it posts, long
\* after the control was pressed (device-console.tsx, request and proceed).
ReachesTheModemMeant == \A i \in DOMAIN posts : posts[i].imei = posts[i].meant

\* busy is exactly "a POST of this page, or the refresh after it, is under way":
\* two are never under way at once, so one press is one command, and the
\* controls never stay disabled with nothing left to wait for (runNow).
BusyIsExact ==
  LET awaited == {q \in polls : q.by = "post"} IN
  Len(posts) + Cardinality(awaited) = IF busy THEN 1 ELSE 0

\* No command whose payload the ledger guards leaves without a confirmation,
\* whichever control composed it (deviceCommandGuard, request).
GuardedWereConfirmed ==
  \A i \in DOMAIN posts : deviceCommandGuard(posts[i].kind, posts[i].extra) => posts[i].asked

\* A reply to a USSD menu is offered only while the menu is young: by real time
\* at most TTL old, plus the lead of a gateway clock that runs ahead
\* (ussdSessionAgeMs takes the larger of two clocks that disagree).
ReplyOfferedInTime ==
  pending # Absent /\ pending.extra.stage = "continue" =>
    pending.at - pending.since <= TTL + (IF skew > 0 THEN skew ELSE 0)

\* What the page shows came from the gateway: a row never shows an outcome its
\* command did not have, and an outcome shown is the final one, however polls
\* overtake one another (refresh).
ShownIsTrue ==
  \A r \in shown :
    /\ r.id \in DOMAIN log
    /\ r.status \in TERMINAL => r = log[r.id]

\* No row says "waiting" for ever: polling goes on while one does (the interval
\* effect of useDeviceCommands), whatever is lost or overtaken.
WaitingIsNotForever ==
  \A i \in 1..MaxCommands :
    (\E r \in Outstanding(shown) : r.id = i) ~> ~(\E r \in Outstanding(shown) : r.id = i)

\* An offer to reply that has gone stale withdraws itself, without a click
\* (the timer of UssdConsole).
StaleOfferWithdrawn ==
  LET stale == /\ ussdSessionState(shown, observed, clock) = "expired"
               /\ ussdSessionState(shown, observed, pageNow) = "open"
  IN stale ~> ~stale

\* A press is settled: the controls come back, with or without an error
\* (the finally of runNow).
BusyEnds == busy ~> ~busy

\* A command leaves as its operator meant it: to the modem looked at, after the
\* confirmation its payload needs, and one command for one press (request,
\* proceed, runNow).
PostedAsMeant == ReachesTheModemMeant /\ GuardedWereConfirmed /\ BusyIsExact
=============================================================================
