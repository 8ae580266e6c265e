---------------------------- MODULE MessagingPages ----------------------------
(***************************************************************************)
(* The inbox's send form (components/send-sms.tsx, lib/sms-safety.ts,      *)
(* app/inbox/page.tsx) and an open conversation (components/conversation   *)
(* .tsx, app/inbox/[peer]/page.tsx). The inbox is drawn again whenever a   *)
(* device reports (components/live-reload.tsx), under a form half filled   *)
(* in and under an open dialog. A conversation is drawn again only after a *)
(* write of its own; messages go on arriving meanwhile.                    *)
(***************************************************************************)
EXTENDS ConsolePage

CONSTANTS
  SmsDevices,          \* devices of the tenant
  SmsModems,           \* modules
  SmsBlocked,          \* SMS_BLOCKED_MODULES: a send takes one of these off the bus
  SmsUnseen,           \* modules adopted by hand that no device has seen
  Nowhere,             \* no device, no module
  Msgs,                \* inbound messages of the conversation
  MaxFleetMoves        \* bound: modules that move and devices that are removed

ASSUME MessagingAssumption ==
  /\ SmsBlocked \subseteq SmsModems /\ SmsUnseen \subseteq SmsModems
  /\ Nowhere \notin SmsDevices \cup SmsModems
  /\ MaxFleetMoves \in Nat

VARIABLES
  fleet,               \* gateway: its devices, and the device of each module
  drawnFleet,          \* props: the fleet as last drawn, and the device listed first
  modemsUnknown,       \* prop: whether the module list failed to load
  pickDevice,          \* useState deviceId
  pickModem,           \* useState modemImei
  draft,               \* useState pending of the send form
  sendBusy,            \* useState busy of the send form
  sendPost,            \* the POST /v1/commands on its way
  sentSms,             \* messages the gateway took
  moves,               \* fleet changes so far
  thread,              \* gateway: the conversation's messages, unread or read
  drawnThread,         \* props: the messages as the page was last drawn
  marked,              \* useRef marked, and whether its POST is on its way
  erase,               \* useState pending: the deletion asked about
  erasing,             \* the messages a deletion on its way names
  threadBusy,          \* useState busy of the conversation
  threadPost,          \* the deletion or the contact's PUT or DELETE on its way
  contact,             \* gateway: whether the number has a name
  naming,              \* ContactName: closed, editing, or asking whether to forget
  redraw               \* whether a router.refresh is on its way

sendVars == <<fleet, drawnFleet, modemsUnknown, pickDevice, pickModem, draft,
              sendBusy, sendPost, sentSms, moves>>
threadVars == <<thread, drawnThread, marked, erase, erasing, threadBusy, threadPost,
                contact, naming, redraw>>

NoDraft == [device |-> Nowhere, modem |-> Nowhere]

-----------------------------------------------------------------------------
(* What the send form works out on every render.                             *)

\* The device the form is about: the one picked, or the first if it is gone.
chosen == IF pickDevice \in drawnFleet.devices THEN pickDevice ELSE drawnFleet.first

ModemsOn(d) == {m \in SmsModems : drawnFleet.at[m] = d}

\* The modules of a device that this console will not send from.
blockedSendModules(d) == ModemsOn(d) \cap SmsBlocked

allowed == ModemsOn(chosen) \ blockedSendModules(chosen)
sendable == allowed \ SmsUnseen

\* The module picked if it is still there, or the first that can send: whichever
\* was heard from last.
activeImei(m) ==
  IF pickModem \in sendable THEN m = pickModem
  ELSE m \in sendable \/ (sendable = {} /\ m = Nowhere)

sendHold ==
  IF blockedSendModules(chosen) # {} THEN "blocked-module"
  ELSE IF modemsUnknown THEN "modules-unknown" ELSE "none"

Drawn == drawnFleet.devices # {}      \* with no device there is no form

-----------------------------------------------------------------------------
(* The operator sends a message.                                             *)

\* Picking another device leaves the module picked before as it was.
Pick ==
  /\ Drawn /\ draft = NoDraft
  /\ \/ \E d \in drawnFleet.devices : pickDevice' = d /\ UNCHANGED pickModem
     \/ \E m \in sendable : pickModem' = m /\ UNCHANGED pickDevice
  /\ UNCHANGED <<fleet, drawnFleet, modemsUnknown, draft, sendBusy, sendPost, sentSms, moves>>
  /\ UNCHANGED threadVars /\ ConnectionHolds

\* onSubmit: the draft is read from the form as it is drawn now.
SubmitSms ==
  /\ Drawn /\ draft = NoDraft /\ ~sendBusy /\ sendHold = "none"
  /\ \E m \in SmsModems \cup {Nowhere} : activeImei(m) /\ draft' = [device |-> chosen, modem |-> m]
  /\ UNCHANGED <<fleet, drawnFleet, modemsUnknown, pickDevice, pickModem, sendBusy, sendPost, sentSms, moves>>
  /\ UNCHANGED threadVars /\ ConnectionHolds

CancelSms ==
  /\ Drawn /\ draft # NoDraft
  /\ draft' = NoDraft
  /\ UNCHANGED <<fleet, drawnFleet, modemsUnknown, pickDevice, pickModem, sendBusy, sendPost, sentSms, moves>>
  /\ UNCHANGED threadVars /\ ConnectionHolds

\* Slip: the request is read from the form when the dialog is confirmed.
SendsFormNow ==
  /\ Drawn /\ draft # NoDraft /\ ~sendBusy
  /\ sendBusy' = TRUE /\ draft' = NoDraft
  /\ \E m \in SmsModems \cup {Nowhere} :
       /\ activeImei(m)
       /\ sendPost' = {[device |-> chosen, modem |-> m, asked |-> draft, named |-> chosen,
                        listed |-> pickDevice \in drawnFleet.devices]}
  /\ UNCHANGED <<fleet, drawnFleet, modemsUnknown, pickDevice, pickModem, sentSms, moves>>
  /\ UNCHANGED threadVars /\ ConnectionHolds

\* The dialog's confirmation, which also closes it. It names the device the form
\* is about now; the request carries the draft.
sendMessage ==
  /\ Drawn /\ draft # NoDraft /\ ~sendBusy
  /\ sendBusy' = TRUE /\ draft' = NoDraft
  /\ sendPost' = {[device |-> draft.device, modem |-> draft.modem, asked |-> draft,
                   named |-> chosen, listed |-> pickDevice \in drawnFleet.devices]}
  /\ UNCHANGED <<fleet, drawnFleet, modemsUnknown, pickDevice, pickModem, sentSms, moves>>
  /\ UNCHANGED threadVars /\ ConnectionHolds

\* The gateway takes a message for a device it has, and with a module named.
Takes(p) == p.device \in fleet.devices /\ p.modem # Nowhere

SmsAnswered ==
  \E p \in sendPost :
    /\ sentSms' = IF Takes(p) THEN sentSms \cup {p} ELSE sentSms
    /\ sendPost' = {} /\ sendBusy' = FALSE /\ draft' = NoDraft
    /\ UNCHANGED <<fleet, drawnFleet, modemsUnknown, pickDevice, pickModem, moves>>
    /\ UNCHANGED threadVars /\ ConnectionHolds

\* fetch rejects, before or after the gateway took it: busy is not cleared.
SmsBroken ==
  \E p \in sendPost :
    /\ \/ Takes(p) /\ sentSms' = sentSms \cup {p}
       \/ UNCHANGED sentSms
    /\ sendPost' = {}
    /\ UNCHANGED <<fleet, drawnFleet, modemsUnknown, pickDevice, pickModem, draft, sendBusy, moves>>
    /\ UNCHANGED threadVars /\ ConnectionBreaks

\* A device reports and the page is drawn again: the devices and the modules
\* are two reads, and either may fail on its own. The devices come by name, so
\* that a name given elsewhere puts another one first.
LiveReload ==
  \E devicesRead, modemsRead \in BOOLEAN, first \in fleet.devices \cup {Nowhere} :
    /\ first = Nowhere <=> (~devicesRead \/ fleet.devices = {})
    /\ drawnFleet' = [devices |-> IF devicesRead THEN fleet.devices ELSE {}, first |-> first,
                      at |-> IF modemsRead THEN fleet.at ELSE [m \in SmsModems |-> Nowhere]]
    /\ modemsUnknown' = ~modemsRead
    /\ UNCHANGED <<fleet, pickDevice, pickModem, draft, sendBusy, sendPost, sentSms, moves>>
    /\ UNCHANGED threadVars
    /\ IF devicesRead /\ modemsRead THEN ConnectionHolds ELSE ConnectionBreaks

\* A module is moved to another device, or a device is removed.
FleetMoves ==
  /\ moves < MaxFleetMoves /\ moves' = moves + 1
  /\ \/ \E m \in SmsModems, d \in fleet.devices :
          /\ fleet.at[m] # d
          /\ fleet' = [fleet EXCEPT !.at[m] = d]
     \/ \E d \in fleet.devices :
          fleet' = [devices |-> fleet.devices \ {d},
                    at |-> [m \in SmsModems |-> IF fleet.at[m] = d THEN Nowhere ELSE fleet.at[m]]]
  /\ UNCHANGED <<drawnFleet, modemsUnknown, pickDevice, pickModem, draft, sendBusy, sendPost, sentSms>>
  /\ UNCHANGED threadVars /\ ConnectionHolds

-----------------------------------------------------------------------------
(* A conversation is open.                                                   *)

Unread(messages) == {m \in DOMAIN messages : messages[m] = "unread"}

Arrives(m) ==
  /\ m \notin DOMAIN thread /\ m \notin DOMAIN drawnThread
  /\ thread' = [k \in DOMAIN thread \cup {m} |-> IF k = m THEN "unread" ELSE thread[k]]
  /\ UNCHANGED <<drawnThread, marked, erase, erasing, threadBusy, threadPost, contact, naming, redraw>>
  /\ UNCHANGED sendVars /\ ConnectionHolds

\* The effect: once per mount, if the page shows an unread message.
MarkRead ==
  /\ marked = "not" /\ Unread(drawnThread) # {}
  /\ marked' = "posted"
  /\ UNCHANGED <<thread, drawnThread, erase, erasing, threadBusy, threadPost, contact, naming, redraw>>
  /\ UNCHANGED sendVars /\ ConnectionHolds

\* The gateway marks the whole conversation as it stands.
MarkThreadRead == thread' = [m \in DOMAIN thread |-> "read"]

MarkAnswered ==
  /\ marked = "posted" /\ marked' = "done"
  /\ MarkThreadRead /\ redraw' = TRUE
  /\ UNCHANGED <<drawnThread, erase, erasing, threadBusy, threadPost, contact, naming>>
  /\ UNCHANGED sendVars /\ ConnectionHolds

\* Refused, or the connection broke before or after the gateway did it.
MarkLost ==
  /\ marked = "posted" /\ marked' = "done"
  /\ MarkThreadRead \/ UNCHANGED thread
  /\ UNCHANGED <<drawnThread, erase, erasing, threadBusy, threadPost, contact, naming, redraw>>
  /\ UNCHANGED sendVars /\ ConnectionBreaks

\* router.refresh: the page is drawn from what the gateway holds now.
ThreadRedrawn ==
  /\ redraw /\ redraw' = FALSE
  /\ drawnThread' = thread
  /\ UNCHANGED <<thread, marked, erase, erasing, threadBusy, threadPost, contact, naming>>
  /\ UNCHANGED sendVars /\ ConnectionHolds

\* A deletion is asked about, with the contact's editor open or not.
AskErase(what) ==
  /\ ~threadBusy /\ erase = {} /\ naming # "asking"
  /\ what \subseteq DOMAIN drawnThread
  /\ erase' = IF what = {} THEN {"thread"} ELSE what
  /\ UNCHANGED <<thread, drawnThread, marked, erasing, threadBusy, threadPost, contact, naming, redraw>>
  /\ UNCHANGED sendVars /\ ConnectionHolds

CancelErase ==
  /\ erase # {} /\ erase' = {}
  /\ UNCHANGED <<thread, drawnThread, marked, erasing, threadBusy, threadPost, contact, naming, redraw>>
  /\ UNCHANGED sendVars /\ ConnectionHolds

\* removeThread and removeMessage. The press closes the dialog.
Erase ==
  /\ erase # {} /\ ~threadBusy
  /\ threadBusy' = TRUE /\ erase' = {}
  /\ threadPost' = IF erase = {"thread"} THEN "thread" ELSE "message"
  /\ erasing' = erase \ {"thread"}
  /\ UNCHANGED <<thread, drawnThread, marked, contact, naming, redraw>>
  /\ UNCHANGED sendVars /\ ConnectionHolds

\* The rows that go: the conversation's as it stands, or the one named if it is there.
Erased(kind) ==
  thread' = [m \in (IF kind = "thread" THEN {} ELSE DOMAIN thread \ erasing) |-> thread[m]]

\* Only an accepted deletion of the whole conversation leaves the page.
EraseAnswered ==
  /\ threadPost \in {"thread", "message"}
  /\ threadPost' = "none" /\ threadBusy' = FALSE /\ erase' = {} /\ erasing' = {}
  /\ \/ /\ Erased(threadPost)
        /\ page' = IF threadPost = "thread" THEN "inbox" ELSE page
        /\ redraw' = (threadPost = "message")
     \/ UNCHANGED <<thread, page, redraw>>
  /\ UNCHANGED <<drawnThread, marked, contact, naming, faults>> /\ UNCHANGED sendVars

\* fetch rejects: busy stays, and nothing says what became of the deletion.
EraseBroken ==
  /\ threadPost \in {"thread", "message"} /\ threadPost' = "none" /\ erasing' = {}
  /\ Erased(threadPost) \/ UNCHANGED thread
  /\ UNCHANGED <<drawnThread, marked, erase, threadBusy, contact, naming, redraw>>
  /\ UNCHANGED sendVars /\ ConnectionBreaks

\* ContactName: an emptied box asks before the name is forgotten, and the press
\* that forgets it closes the question. An open dialog covers the page.
EditName ==
  /\ erase = {} /\ ~threadBusy
  /\ \/ naming = "closed" /\ naming' = "editing" /\ UNCHANGED <<threadBusy, threadPost>>
     \/ naming \in {"editing", "asking"} /\ naming' = (IF naming = "asking" THEN "editing" ELSE "closed")
          /\ UNCHANGED <<threadBusy, threadPost>>
     \/ naming = "editing" /\ naming' = "asking" /\ UNCHANGED <<threadBusy, threadPost>>
     \/ naming = "editing" /\ threadBusy' = TRUE /\ threadPost' = "name" /\ UNCHANGED naming
     \/ naming = "asking" /\ threadBusy' = TRUE /\ threadPost' = "forget" /\ naming' = "editing"
  /\ UNCHANGED <<thread, drawnThread, marked, erase, erasing, contact, redraw>>
  /\ UNCHANGED sendVars /\ ConnectionHolds

NameAnswered ==
  /\ threadPost \in {"name", "forget"} /\ threadPost' = "none" /\ threadBusy' = FALSE
  /\ \/ contact' = (threadPost = "name") /\ naming' = "closed" /\ redraw' = TRUE
     \/ naming' = "editing" /\ UNCHANGED <<contact, redraw>>          \* refused
  /\ UNCHANGED <<thread, drawnThread, marked, erase, erasing>>
  /\ UNCHANGED sendVars /\ ConnectionHolds

NameBroken ==
  /\ threadPost \in {"name", "forget"} /\ threadPost' = "none"
  /\ contact' = (threadPost = "name") \/ UNCHANGED contact
  /\ UNCHANGED <<thread, drawnThread, marked, erase, erasing, threadBusy, naming, redraw>>
  /\ UNCHANGED sendVars /\ ConnectionBreaks

-----------------------------------------------------------------------------
NoMsgs == [m \in {} |-> "read"]

SendRests ==
  /\ draft = NoDraft /\ sendBusy = FALSE /\ sendPost = {} /\ sentSms = {} /\ moves = 0
  /\ pickModem = Nowhere /\ modemsUnknown = FALSE
  /\ drawnFleet = [devices |-> fleet.devices, first |-> pickDevice, at |-> fleet.at]

ThreadRests ==
  /\ drawnThread = thread /\ marked = "not" /\ erase = {} /\ erasing = {} /\ threadBusy = FALSE
  /\ threadPost = "none" /\ naming = "closed" /\ redraw = FALSE

NoFleet == [devices |-> {}, at |-> [m \in SmsModems |-> Nowhere]]

InboxInit ==
  /\ \/ fleet \in [devices : {SmsDevices}, at : [SmsModems -> SmsDevices]] /\ pickDevice \in SmsDevices
     \/ fleet = NoFleet /\ pickDevice = Nowhere
  /\ SendRests

ThreadInit ==
  /\ thread \in {NoMsgs} \cup [{CHOOSE m \in Msgs : TRUE} -> {"unread", "read"}]
  /\ contact \in BOOLEAN
  /\ ThreadRests

InboxNext ==
  \/ Pick \/ SubmitSms \/ CancelSms \/ sendMessage
  \/ SmsAnswered \/ SmsBroken \/ LiveReload \/ FleetMoves

ThreadNext ==
  \/ \E m \in Msgs : Arrives(m)
  \/ MarkRead \/ MarkAnswered \/ MarkLost \/ ThreadRedrawn
  \/ \E what \in {{}} \cup {{m} : m \in Msgs} : AskErase(what)
  \/ CancelErase \/ Erase \/ EraseAnswered \/ EraseBroken
  \/ EditName \/ NameAnswered \/ NameBroken

\* An open page runs its effect, and a read that was sent is answered or breaks.
ThreadFairness ==
  /\ WF_<<threadVars, page, faults>>(page = "thread" /\ (MarkAnswered \/ MarkLost))
  /\ WF_<<threadVars, page, faults>>(page = "thread" /\ ThreadRedrawn)

-----------------------------------------------------------------------------
(* Properties.                                                               *)

\* Whatever moves while the form is filled in and the dialog is open, no
\* message is sent from a module that a send takes off the bus, nor one whose
\* device it was never shown on (SMS_BLOCKED_MODULES, `allowed`, sendHold).
NeverFromBlocked == \A p \in sentSms : p.modem \notin SmsBlocked \cup SmsUnseen

\* A message leaves from the device and the module that were selected when the
\* form was submitted, and from the device the dialog named when it was confirmed
\* as long as the picked one was listed, although the page is drawn again in
\* between (onSubmit reads the form, sendMessage the draft, the dialog `chosen`).
SentAsAsked ==
  \A p \in sentSms :
    /\ p.device = p.asked.device /\ p.modem = p.asked.modem
    /\ p.listed => p.device = p.named

\* The page goes back to the inbox only when the conversation it showed is gone
\* ("Navigating to /inbox would be the page saying it is gone").
LeftMeansErased == threadPost = "none" /\ erase = {} /\ page = "inbox" =>
                     DOMAIN thread \cap DOMAIN drawnThread = {}

\* Opening a conversation marks messages read that arrived after the page was
\* drawn; each of them is then drawn, or gone, unless the connection broke
\* (the effect's router.refresh).
ReadIsShown ==
  \A m \in Msgs :
    (m \in DOMAIN thread /\ m \notin Unread(thread))
      ~> (m \in DOMAIN drawnThread \/ m \notin DOMAIN thread \/ faults > 0 \/ page # "thread")

\* What the messaging pages do is what was asked of them: a message leaves from
\* the device and module named, never from one that must not send, and a
\* conversation is left as deleted only when it is (send-sms, conversation).
MessagingSafe == NeverFromBlocked /\ SentAsAsked /\ LeftMeansErased
=============================================================================
