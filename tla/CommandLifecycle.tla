-------------------------- MODULE CommandLifecycle --------------------------
(***************************************************************************)
(* The life of the commands issued to one device, from the console's POST  *)
(* to the message the operator reads: app.commands and app.command_outbox  *)
(* (app.enqueue_command and the expiry functions), the session goroutines  *)
(* that deliver commands and take receipts and results off the wire        *)
(* (internal/wss/serve.go, internal/commands/lifecycle.go), and the row of *)
(* app.messages that mirrors a send (internal/messaging).                  *)
(*                                                                         *)
(* The device is external.  It executes a command once, answers every      *)
(* delivery with a receipt that is not durable, and keeps its result in    *)
(* the sequenced uplink until it is acknowledged (see UplinkJournal).      *)
(* Every command here is a send_sms, the one kind with a message.          *)
(***************************************************************************)
EXTENDS Naturals, FiniteSets

CONSTANTS
    MaxCmds,      \* bound: how many commands are ever issued
    Workers,      \* session goroutines of the device
    NoWorker,
    Outcomes,     \* what the device may report
    Receipts,     \* how it may answer a delivery it has not executed yet
    Limit,        \* LIMIT of the pending read (32 in the code)
    MaxFaults     \* bound: failures the environment causes

Terminal == {"succeeded", "failed", "unknown", "expired", "cancelled"}
CloudRetired == {"expired", "cancelled"}

ASSUME CommandAssumption ==
    /\ MaxCmds \in Nat /\ MaxFaults \in Nat
    /\ Limit \in Nat \ {0}
    /\ NoWorker \notin Workers
    /\ Outcomes \subseteq Terminal
    /\ Receipts \subseteq {"accepted", "retry_later"}

Cmds == 1 .. MaxCmds

VARIABLES
    \* PostgreSQL
    status, accepted, reason, late, outbox, receipts, msg, why, lapsed,
    \* the console's request handlers
    nextCmd, handler,
    \* session goroutines
    sess, phase, batch, hand,
    \* the link: deliveries down, receipts up, acknowledgements down
    wire, rwire, acks,
    \* the device
    outcome, answers,
    \* what has happened
    recorded, told, refused, faults

store == <<status, accepted, reason, late, outbox, receipts, msg, why>>
console == <<nextCmd, handler>>
session == <<sess, phase, batch, hand>>
link == <<wire, rwire, acks>>
device == <<outcome, answers>>
history == <<recorded, told, refused>>
vars == <<store, lapsed, console, session, link, device, history, faults>>

Open == {"queued", "accepted"}

Init ==
    /\ status = [c \in Cmds |-> "none"] /\ accepted = {}
    /\ reason = [c \in Cmds |-> "none"] /\ late = [c \in Cmds |-> "none"]
    /\ outbox = [c \in Cmds |-> "none"] /\ receipts = {}
    /\ msg = [c \in Cmds |-> "none"] /\ why = [c \in Cmds |-> "none"]
    /\ lapsed = {}
    /\ nextCmd = 1 /\ handler = [c \in Cmds |-> "idle"]
    /\ sess = NoWorker /\ phase = [w \in Workers |-> "off"]
    /\ batch = [w \in Workers |-> {}] /\ hand = [w \in Workers |-> 0]
    /\ wire = {} /\ rwire = {} /\ acks = {}
    /\ outcome = [c \in Cmds |-> "none"] /\ answers = {}
    /\ recorded = {} /\ told = {} /\ refused = {}
    /\ faults = 0

-----------------------------------------------------------------------------
(* The console: enqueueCommand queues the command in one transaction and   *)
(* mirrors it into the conversation in another.                            *)

\* app.enqueue_command: the command and its wakeup commit together.
Enqueue ==
    /\ nextCmd <= MaxCmds
    /\ status' = [status EXCEPT ![nextCmd] = "queued"]
    /\ outbox' = [outbox EXCEPT ![nextCmd] = "pending"]
    /\ handler' = [handler EXCEPT ![nextCmd] = "mirror"]
    /\ nextCmd' = nextCmd + 1
    /\ UNCHANGED <<accepted, reason, late, receipts, msg, why, lapsed,
                   session, link, device, history, faults>>

\* RecordOutbound: ON CONFLICT DO NOTHING; a failure is only logged.
RecordOutbound(c) ==
    /\ handler[c] = "mirror"
    /\ handler' = [handler EXCEPT ![c] = "done"]
    /\ \/ /\ msg' = [msg EXCEPT ![c] = "queued"] /\ faults' = faults
       \/ /\ msg' = msg /\ faults < MaxFaults /\ faults' = faults + 1
    /\ UNCHANGED <<status, accepted, reason, late, outbox, receipts, why, lapsed,
                   nextCmd, session, link, device, history>>

\* expires_at passes.  A request handler does not live for the ten minutes of
\* a command's TTL.
Lapse(c) ==
    /\ status[c] # "none" /\ c \notin lapsed /\ handler[c] = "done"
    /\ lapsed' = lapsed \union {c}
    /\ UNCHANGED <<store, console, session, link, device, history, faults>>

-----------------------------------------------------------------------------
(* Expiry: app.expire_overdue_commands and app.expire_overdue_tenant_      *)
(* commands, which differ only in the device filter.                       *)

\* Slip: a command the device has accepted is never given up.
OverdueQueuedOnly == {c \in lapsed : status[c] = "queued"}

Overdue == {c \in lapsed : status[c] \in Open}

ExpireOverdue ==
    /\ status' = [c \in Cmds |-> IF c \in Overdue THEN "expired" ELSE status[c]]
    /\ reason' = [c \in Cmds |->
         IF c \notin Overdue THEN reason[c]
         ELSE IF status[c] = "accepted" THEN "cloud_expired_after_accept" ELSE "cloud_expired"]
    /\ outbox' = [c \in Cmds |-> IF c \in Overdue THEN "resolved" ELSE outbox[c]]
    /\ LET dead == {c \in Overdue : msg[c] = "queued"} IN
       /\ msg' = [c \in Cmds |-> IF c \in dead THEN "failed" ELSE msg[c]]
       /\ why' = [c \in Cmds |-> IF c \in dead THEN "expiry" ELSE why[c]]
    /\ UNCHANGED <<accepted, late, receipts>>

\* The scheduler's housekeeping pass, for a tenant with a device connected now
\* or not long ago (Runner.Recent).
ExpireTenantCommands ==
    /\ Overdue # {}
    /\ ExpireOverdue
    /\ UNCHANGED <<lapsed, console, session, link, device, history, faults>>

-----------------------------------------------------------------------------
(* Session goroutines.                                                     *)

Connect(w) ==
    /\ sess = NoWorker /\ phase[w] = "off"
    /\ sess' = w
    /\ phase' = [phase EXCEPT ![w] = "resume"]
    /\ UNCHANGED <<store, lapsed, console, batch, hand, link, device, history, faults>>

\* The pending read, after the expiry in its transaction: the Limit oldest
\* commands that are queued and not overdue.
Pending ==
    LET due == {c \in Cmds : status[c] = "queued" /\ c \notin lapsed}
    IN  {c \in due : Cardinality({d \in due : d < c}) < Limit}

\* deliverPending's read, at Resume and then off any inbound traffic.
PendingForDevice(w) ==
    /\ w = sess /\ phase[w] \in {"resume", "loop"}
    /\ ExpireOverdue
    /\ batch' = [batch EXCEPT ![w] = Pending]
    /\ phase' = [phase EXCEPT ![w] = IF Pending = {} THEN "loop" ELSE "deliver"]
    /\ UNCHANGED <<lapsed, console, sess, hand, link, device, history, faults>>

\* The read fails and is only logged: nothing is delivered this time.
PendingReadFails(w) ==
    /\ w = sess /\ phase[w] \in {"resume", "loop"}
    /\ faults < MaxFaults /\ faults' = faults + 1
    /\ phase' = [phase EXCEPT ![w] = "loop"]
    /\ UNCHANGED <<store, lapsed, console, sess, batch, hand, link, device, history>>

\* One CommandDeliver frame, oldest command first.
Deliver(w) ==
    /\ w = sess /\ phase[w] = "deliver"
    /\ \E c \in batch[w] :
       /\ \A d \in batch[w] : c <= d
       /\ wire' = wire \union {c}
       /\ batch' = [batch EXCEPT ![w] = @ \ {c}]
       /\ phase' = [phase EXCEPT ![w] = IF batch[w] = {c} THEN "loop" ELSE "deliver"]
    /\ UNCHANGED <<store, lapsed, console, sess, hand, rwire, acks, device, history, faults>>

\* Slip: a duplicate leaves the command in the queue.
StoreReceiptOnce(w, c, kind) ==
    /\ kind # "retry_later"
    /\ receipts' = receipts \union {<<c, kind>>}
    /\ IF status[c] = "queued" /\ kind = "accepted"
       THEN status' = [status EXCEPT ![c] = "accepted"] /\ accepted' = accepted \union {c}
       ELSE UNCHANGED <<status, accepted>>
    /\ rwire' = rwire \ {<<c, kind>>}
    /\ UNCHANGED <<sess, phase, wire, acks, refused>>

\* RecordReceipt.  A retry_later receipt carries no retry_at and violates
\* command_receipts_retry_at_shape: the transaction fails and ends the session.
StoreReceipt(w, c, kind) ==
    /\ kind # "retry_later"
    /\ receipts' = receipts \union {<<c, kind>>}
    /\ IF status[c] = "queued"
       THEN status' = [status EXCEPT ![c] = "accepted"] /\ accepted' = accepted \union {c}
       ELSE UNCHANGED <<status, accepted>>
    /\ rwire' = rwire \ {<<c, kind>>}
    /\ UNCHANGED <<sess, phase, wire, acks, refused>>

EndSession(w) ==
    /\ sess' = IF sess = w THEN NoWorker ELSE sess
    /\ phase' = [phase EXCEPT ![w] = "off"]

LoseLink == wire' = {} /\ rwire' = {} /\ acks' = {}

RefuseReceipt(w, c, kind) ==
    /\ kind = "retry_later"
    /\ refused' = refused \union {<<c, kind>>}
    /\ EndSession(w) /\ LoseLink
    /\ UNCHANGED <<receipts, status, accepted>>

RecordReceipt(w) ==
    /\ w = sess /\ phase[w] = "loop"
    /\ \E r \in rwire : StoreReceipt(w, r[1], r[2]) \/ RefuseReceipt(w, r[1], r[2])
    /\ UNCHANGED <<reason, late, outbox, msg, why, lapsed, console, batch, hand,
                   device, recorded, told, faults>>

\* A CommandResult is in the journal and acknowledged before it is applied.
TakeResult(w, c) ==
    /\ w = sess /\ phase[w] = "loop" /\ c \in answers
    /\ hand' = [hand EXCEPT ![w] = c]
    /\ phase' = [phase EXCEPT ![w] = "record"]
    /\ acks' = acks \union {c}
    /\ UNCHANGED <<store, lapsed, console, sess, batch, wire, rwire, device, history, faults>>

\* Slips: the answer overwrites any verdict, and an answer to a retired command
\* is dropped.
ApplyResultOverwrites(c) ==
    /\ status' = [status EXCEPT ![c] = outcome[c]]
    /\ reason' = [reason EXCEPT ![c] = "device"]
    /\ outbox' = [outbox EXCEPT ![c] = "resolved"]
    /\ UNCHANGED <<accepted, late, receipts, msg, why>>

ApplyResultDropsLate(c) ==
    /\ status' = [status EXCEPT ![c] = IF @ \in Terminal THEN @ ELSE outcome[c]]
    /\ reason' = [reason EXCEPT ![c] = IF status[c] \in Terminal THEN @ ELSE "device"]
    /\ outbox' = [outbox EXCEPT ![c] = "resolved"]
    /\ UNCHANGED <<accepted, late, receipts, msg, why>>

\* SQLLifecycle.RecordResult: the answer settles an open command, and is kept
\* beside the verdict of one the cloud has retired; the wakeup is settled.
ApplyResult(c) ==
    /\ status' = [status EXCEPT ![c] = IF @ \in Terminal THEN @ ELSE outcome[c]]
    /\ reason' = [reason EXCEPT ![c] = IF status[c] \in Terminal THEN @ ELSE "device"]
    /\ late' = [late EXCEPT ![c] = IF status[c] \in CloudRetired THEN outcome[c] ELSE @]
    /\ outbox' = [outbox EXCEPT ![c] = "resolved"]
    /\ UNCHANGED <<accepted, receipts, msg, why>>

RecordResult(w) ==
    /\ phase[w] = "record"
    /\ ApplyResult(hand[w])
    /\ phase' = [phase EXCEPT ![w] = "settle"]
    /\ recorded' = recorded \union {hand[w]}
    /\ UNCHANGED <<lapsed, console, sess, batch, hand, link, device, told, refused, faults>>

\* messaging.SettleOutbound, in a transaction of its own.
MessageStatus(c) == IF outcome[c] = "succeeded" THEN "sent" ELSE "failed"

Settleable(c) == msg[c] = "queued" \/ (msg[c] = "failed" /\ status[c] \in CloudRetired)

\* Slip: a late answer is noted on the message but does not change its status.
SettleMessageLateIgnored(c) ==
    /\ msg' = [msg EXCEPT ![c] = IF @ = "queued" THEN MessageStatus(c) ELSE @]
    /\ why' = [why EXCEPT ![c] = IF Settleable(c) THEN "late" ELSE @]
    /\ told' = IF Settleable(c) THEN told \union {c} ELSE told

SettleMessage(c) ==
    /\ msg' = [msg EXCEPT ![c] =
         CASE ~Settleable(c) -> @
           [] @ = "queued" -> MessageStatus(c)
           [] OTHER -> IF MessageStatus(c) = "sent" THEN "sent" ELSE @]
    /\ why' = [why EXCEPT ![c] =
         CASE ~Settleable(c) -> @
           [] msg[c] = "queued" -> "device"
           [] OTHER -> "late"]
    /\ told' = IF Settleable(c) THEN told \union {c} ELSE told

SettleOutbound(w) ==
    /\ phase[w] = "settle"
    /\ \/ SettleMessage(hand[w]) /\ faults' = faults
       \/ /\ faults < MaxFaults /\ faults' = faults + 1
          /\ UNCHANGED <<msg, why, told>>
    /\ phase' = [phase EXCEPT ![w] = "loop"]
    /\ hand' = [hand EXCEPT ![w] = 0]
    /\ UNCHANGED <<status, accepted, reason, late, outbox, receipts, lapsed, console,
                   sess, batch, link, device, recorded, refused>>

\* The socket is gone: frames in flight are lost.  The goroutine finds out when
\* it next reads or writes.
LinkDown ==
    /\ sess # NoWorker /\ faults < MaxFaults /\ faults' = faults + 1
    /\ sess' = NoWorker /\ LoseLink
    /\ UNCHANGED <<store, lapsed, console, phase, batch, hand, device, history>>

SessionEnds(w) ==
    /\ w # sess /\ phase[w] \in {"resume", "deliver", "loop"}
    /\ phase' = [phase EXCEPT ![w] = "off"]
    /\ batch' = [batch EXCEPT ![w] = {}]
    /\ UNCHANGED <<store, lapsed, console, sess, hand, link, device, history, faults>>

\* RecordResult fails: ServeDevice returns, with the result acknowledged.
RecordResultFails(w) ==
    /\ phase[w] = "record" /\ faults < MaxFaults /\ faults' = faults + 1
    /\ EndSession(w)
    /\ hand' = [hand EXCEPT ![w] = 0]
    /\ IF sess = w THEN LoseLink ELSE UNCHANGED link
    /\ UNCHANGED <<store, lapsed, console, batch, device, history>>

\* The gateway dies: sessions and request handlers with it.
Crash ==
    /\ faults < MaxFaults /\ faults' = faults + 1
    /\ sess' = NoWorker /\ LoseLink
    /\ phase' = [w \in Workers |-> "off"] /\ batch' = [w \in Workers |-> {}]
    /\ hand' = [w \in Workers |-> 0]
    /\ handler' = [c \in Cmds |-> IF handler[c] = "mirror" THEN "done" ELSE handler[c]]
    /\ UNCHANGED <<store, lapsed, nextCmd, device, history>>

-----------------------------------------------------------------------------
(* The device (external).                                                  *)

Executed == {c \in Cmds : outcome[c] # "none"}

\* A delivery arrives: executed now, postponed, or recognised.
Execute(c) ==
    /\ c \in wire
    /\ wire' = wire \ {c}
    /\ \/ /\ c \notin Executed /\ "accepted" \in Receipts
          /\ \E o \in Outcomes : outcome' = [outcome EXCEPT ![c] = o]
          /\ answers' = answers \union {c}
          /\ rwire' = rwire \union {<<c, "accepted">>}
       \/ /\ c \notin Executed /\ "retry_later" \in Receipts
          /\ rwire' = rwire \union {<<c, "retry_later">>}
          /\ UNCHANGED device
       \/ /\ c \in Executed
          /\ rwire' = rwire \union {<<c, "duplicate">>}
          /\ UNCHANGED device
    /\ UNCHANGED <<store, lapsed, console, session, acks, history, faults>>

\* The UplinkAck: the device drops the result it covers.
AckArrives(c) ==
    /\ c \in acks
    /\ acks' = acks \ {c}
    /\ answers' = answers \ {c}
    /\ UNCHANGED <<store, lapsed, console, session, wire, rwire, outcome, history, faults>>

-----------------------------------------------------------------------------
SessionStep(w) ==
    \/ PendingForDevice(w) \/ Deliver(w) \/ RecordReceipt(w)
    \/ \E c \in Cmds : TakeResult(w, c)
    \/ RecordResult(w) \/ SettleOutbound(w) \/ SessionEnds(w)

Next ==
    \/ Enqueue \/ ExpireTenantCommands \/ LinkDown \/ Crash
    \/ \E c \in Cmds : RecordOutbound(c) \/ Lapse(c) \/ Execute(c) \/ AckArrives(c)
    \/ \E w \in Workers : Connect(w) \/ SessionStep(w) \/ PendingReadFails(w) \/ RecordResultFails(w)

Spec == Init /\ [][Next]_vars
-----------------------------------------------------------------------------
(* Properties.                                                             *)

StoreType ==
    /\ status \in [Cmds -> {"none", "queued", "accepted"} \union Terminal]
    /\ accepted \subseteq Cmds
    /\ reason \in [Cmds -> {"none", "device", "cloud_expired", "cloud_expired_after_accept"}]
    /\ late \in [Cmds -> {"none"} \union Outcomes]
    /\ outbox \in [Cmds -> {"none", "pending", "resolved"}]
    /\ receipts \subseteq Cmds \X {"accepted", "duplicate"}
    /\ msg \in [Cmds -> {"none", "queued", "sent", "failed"}]
    /\ why \in [Cmds -> {"none", "device", "expiry", "late"}]
    /\ lapsed \subseteq Cmds

SessionType ==
    /\ nextCmd \in 1 .. (MaxCmds + 1) /\ handler \in [Cmds -> {"idle", "mirror", "done"}]
    /\ sess \in Workers \union {NoWorker}
    /\ phase \in [Workers -> {"off", "resume", "deliver", "loop", "record", "settle"}]
    /\ batch \in [Workers -> SUBSET Cmds] /\ hand \in [Workers -> 0 .. MaxCmds]

DeviceType ==
    /\ wire \subseteq Cmds /\ acks \subseteq Cmds
    /\ rwire \subseteq Cmds \X {"accepted", "duplicate", "retry_later"}
    /\ outcome \in [Cmds -> {"none"} \union Outcomes] /\ answers \subseteq Cmds
    /\ recorded \subseteq Cmds /\ told \subseteq Cmds
    /\ refused \subseteq Cmds \X {"retry_later"} /\ faults \in Nat

TypeOK == StoreType /\ SessionType /\ DeviceType

\* A wakeup is resolved exactly when its command is over, whichever of the
\* device's answer, the resume sweep and the tenant sweep ended it (0037).
OutboxFollowsCommand == \A c \in Cmds : (outbox[c] = "resolved") <=> (status[c] \in Terminal)

\* A verdict stands: neither a late answer, a duplicate, a receipt nor a sweep
\* moves a command out of a terminal status (recordLateResultSQL's reason).
VerdictStands ==
    [][\A c \in Cmds : status[c] \in Terminal
                       => status'[c] = status[c] /\ reason'[c] = reason[c]]_vars

\* Once RecordResult has committed, the device's answer is on the command, as
\* its status or beside the cloud's own verdict, and no later step loses it.
AnswerKept ==
    \A c \in recorded : outcome[c] # "none" /\ outcome[c] \in {status[c], late[c]}

\* The conversation never claims a send the device did not make, and once the
\* device's answer reached the message the two agree, however many sweeps,
\* replays and crashes came between.
MessageTruthful ==
    \A c \in Cmds : /\ msg[c] = "sent" => outcome[c] = "succeeded"
                    /\ c \in told => (msg[c] = "sent" <=> outcome[c] = "succeeded")

\* An expiry that says the device never accepted says so only when no receipt
\* had been applied (reason_code of the expiry functions).
ExpiryReasonHonest ==
    \A c \in Cmds : /\ reason[c] = "cloud_expired" => c \notin accepted
                    /\ reason[c] = "cloud_expired_after_accept" => c \in accepted

\* No command outlives its deadline: a lost receipt, a result acknowledged and
\* then lost in a crash, and a device that never answers all end in a verdict.
OverdueIsRetired == \A c \in Cmds : c \in lapsed ~> status[c] \in Terminal

\* A message saying `queued` is honest: its command has no device answer yet.
QueuedIsHonest ==
    \A c \in recorded : msg[c] = "queued" => \E w \in Workers : hand[w] = c

\* What the delivery of the queue sees of all this: of a verdict that the
\* command is over, of the sessions the one that serves the device.
Standing == [c \in Cmds |-> IF status[c] \in Terminal THEN "over" ELSE status[c]]
Talk ==
    IF sess = NoWorker THEN "down"
    ELSE IF phase[sess] \in {"record", "settle"} THEN "loop" ELSE phase[sess]
Reading == IF sess = NoWorker THEN {} ELSE batch[sess]
PutOff == {c \in Cmds : <<c, "retry_later">> \in refused}

Delivery == INSTANCE CommandQueue WITH
    MaxQueued <- MaxCmds, ReadLimit <- Limit, stage <- Standing, overdue <- lapsed, talk <- Talk,
    reading <- Reading, sent <- wire, replies <- rwire, executed <- Executed, putOff <- PutOff

\* The sessions, stale ones included, the results and the sweeps together
\* implement the queue: no goroutine but the serving one sends or takes a
\* receipt, and no verdict comes from anything but an answer or a deadline.
ImplementsQueue == Delivery!QueueSpec
=============================================================================
