----------------------- MODULE CommandLifecycle_proofs -----------------------
(***************************************************************************)
(* The safety properties of CommandLifecycle, for every number of commands *)
(* and session goroutines and every set of outcomes and receipts.          *)
(*                                                                         *)
(* Four writers meet on one command: the console, the expiry sweeps, the   *)
(* receipts and the device's answer.  CommandSteps lists what any step may *)
(* do to one command, MessageSteps what it may do to its message; each     *)
(* part of the invariant then follows one command through the two lists.   *)
(***************************************************************************)
EXTENDS CommandLifecycle, TLAPS

-----------------------------------------------------------------------------
(* The inductive invariant.                                                *)

\* A command that has not been queued has left no trace.
FreshOK ==
    \A c \in Cmds :
        /\ c >= nextCmd => status[c] = "none"
        /\ status[c] = "none" =>
             /\ outcome[c] = "none" /\ msg[c] = "none" /\ handler[c] = "idle"
             /\ c \notin accepted /\ c \notin wire /\ \A w \in Workers : c \notin batch[w]

\* accepted_at and reason_code follow the status; the device's own verdicts are
\* the device's.
VerdictOK ==
    \A c \in Cmds :
        /\ status[c] = "queued" => c \notin accepted
        /\ status[c] = "accepted" => c \in accepted
        /\ status[c] \notin Terminal => reason[c] = "none"
        /\ status[c] \in Terminal \ CloudRetired => status[c] = outcome[c]

\* An answer in the device's outbox or in a goroutine's hands is the answer of
\* an executed command.
AnswerOK ==
    /\ \A c \in answers : outcome[c] # "none"
    /\ \A w \in Workers : phase[w] \in {"record", "settle"} =>
           hand[w] \in Cmds /\ outcome[hand[w]] # "none"

\* The answer reaches a message only once there is one.
MirrorOK ==
    /\ \A c \in told : outcome[c] # "none"
    /\ \A c \in Cmds : handler[c] = "mirror" => c \notin told /\ msg[c] = "none"

IInv ==
    /\ TypeOK /\ FreshOK /\ VerdictOK /\ AnswerOK /\ MirrorOK
    /\ OutboxFollowsCommand /\ AnswerKept /\ MessageTruthful /\ ExpiryReasonHonest

-----------------------------------------------------------------------------
(* What a step may do to one command.                                      *)

Same(c) ==
    /\ status'[c] = status[c] /\ reason'[c] = reason[c]
    /\ late'[c] = late[c] /\ outbox'[c] = outbox[c]
    /\ c \in accepted' <=> c \in accepted
    /\ c \in recorded' => c \in recorded

Queued(c) ==
    /\ nextCmd = c /\ nextCmd' = c + 1 /\ status'[c] = "queued" /\ outbox'[c] = "pending"
    /\ reason'[c] = reason[c] /\ late'[c] = late[c]
    /\ accepted' = accepted /\ recorded' = recorded

Received(c) ==
    /\ status[c] = "queued" /\ status'[c] = "accepted" /\ c \in accepted'
    /\ reason'[c] = reason[c] /\ late'[c] = late[c] /\ outbox'[c] = outbox[c]
    /\ recorded' = recorded

Retired(c) ==
    /\ status[c] \in Open /\ status'[c] = "expired" /\ outbox'[c] = "resolved"
    /\ reason'[c] = IF status[c] = "accepted" THEN "cloud_expired_after_accept" ELSE "cloud_expired"
    /\ late'[c] = late[c] /\ accepted' = accepted /\ recorded' = recorded

Answered(c) ==
    /\ \E w \in Workers : phase[w] = "record" /\ hand[w] = c
    /\ status'[c] = IF status[c] \in Terminal THEN status[c] ELSE outcome[c]
    /\ reason'[c] = IF status[c] \in Terminal THEN reason[c] ELSE "device"
    /\ late'[c] = IF status[c] \in CloudRetired THEN outcome[c] ELSE late[c]
    /\ outbox'[c] = "resolved" /\ accepted' = accepted
    /\ outcome' = outcome

\* What it may do to its message.
Untouched(c) ==
    /\ msg'[c] = msg[c] /\ (c \in told' <=> c \in told)

Mirrored(c) ==
    /\ handler[c] = "mirror" /\ handler'[c] = "done" /\ msg'[c] = "queued" /\ told' = told

Buried(c) ==
    /\ msg[c] = "queued" /\ msg'[c] = "failed" /\ told' = told

Settled(c) ==
    /\ \E w \in Workers : phase[w] = "settle" /\ hand[w] = c
    /\ outcome' = outcome
    /\ Settleable(c) /\ c \in told'
    /\ msg'[c] = IF msg[c] = "queued" \/ MessageStatus(c) = "sent" THEN MessageStatus(c) ELSE msg[c]

LEMMA CommandSteps ==
    ASSUME IInv, [Next]_vars, NEW c \in Cmds
    PROVE  Same(c) \/ Queued(c) \/ Received(c) \/ Retired(c) \/ Answered(c)
  <1> USE DEF IInv, TypeOK, StoreType
  <1>1. ASSUME UNCHANGED <<status, accepted, reason, late, outbox, recorded>>
        PROVE  Same(c)
    BY <1>1 DEF Same
  <1>2. CASE LinkDown \/ Crash \/ UNCHANGED vars
    BY <1>1, <1>2 DEF LinkDown, Crash, vars, store, history
  <1>3. CASE \E d \in Cmds : RecordOutbound(d) \/ Lapse(d) \/ Execute(d) \/ AckArrives(d)
    BY <1>1, <1>3 DEF RecordOutbound, Lapse, Execute, AckArrives, store, history
  <1>4. CASE \E w \in Workers : Connect(w) \/ PendingReadFails(w) \/ RecordResultFails(w)
    BY <1>1, <1>4 DEF Connect, PendingReadFails, RecordResultFails, store, history
  <1>5. CASE \E w \in Workers : Deliver(w) \/ SettleOutbound(w) \/ SessionEnds(w)
                                \/ \E d \in Cmds : TakeResult(w, d)
    BY <1>1, <1>5 DEF Deliver, SettleOutbound, SessionEnds, TakeResult, store, history
  <1>6. CASE Enqueue
    <2>1. nextCmd \in Cmds
      BY <1>6 DEF Enqueue, SessionType, Cmds
    <2> QED
      BY <1>6, <2>1 DEF Enqueue, Same, Queued, history
  <1>7. ASSUME ExpireOverdue, UNCHANGED recorded
        PROVE  Same(c) \/ Retired(c)
    <2>1. CASE c \in Overdue
      BY <1>7, <2>1 DEF ExpireOverdue, Overdue, Retired
    <2>2. CASE c \notin Overdue
      BY <1>7, <2>2 DEF ExpireOverdue, Same
    <2> QED
      BY <2>1, <2>2
  <1>8. CASE ExpireTenantCommands
    BY <1>7, <1>8 DEF ExpireTenantCommands, history
  <1>9. CASE \E w \in Workers : PendingForDevice(w)
    BY <1>7, <1>9 DEF PendingForDevice, history
  <1>10. ASSUME NEW w \in Workers, RecordReceipt(w)
         PROVE  Same(c) \/ Received(c)
    <2>1. PICK r \in rwire : StoreReceipt(w, r[1], r[2]) \/ RefuseReceipt(w, r[1], r[2])
      BY <1>10 DEF RecordReceipt
    <2>2. UNCHANGED <<reason, late, outbox, recorded>>
      BY <1>10 DEF RecordReceipt
    <2>3. CASE UNCHANGED <<status, accepted>>
      BY <2>2, <2>3 DEF Same
    <2>4. CASE /\ status[r[1]] = "queued" /\ status' = [status EXCEPT ![r[1]] = "accepted"]
               /\ accepted' = accepted \union {r[1]}
      BY <2>2, <2>4 DEF Same, Received
    <2> QED
      BY <2>1, <2>3, <2>4 DEF StoreReceipt, RefuseReceipt
  <1>11. ASSUME NEW w \in Workers, RecordResult(w)
         PROVE  Same(c) \/ Answered(c)
    <2>1. hand[w] \in Cmds /\ phase[w] = "record"
      BY <1>11 DEF RecordResult, AnswerOK
    <2>2. CASE c = hand[w]
      BY <1>11, <2>1, <2>2 DEF RecordResult, ApplyResult, Answered, device
    <2>3. CASE c # hand[w]
      BY <1>11, <2>1, <2>3 DEF RecordResult, ApplyResult, Same
    <2> QED
      BY <2>2, <2>3
  <1> QED
    BY <1>2, <1>3, <1>4, <1>5, <1>6, <1>8, <1>9, <1>10, <1>11 DEF Next, SessionStep

LEMMA MessageSteps ==
    ASSUME IInv, [Next]_vars, NEW c \in Cmds
    PROVE  Untouched(c) \/ Mirrored(c) \/ Buried(c) \/ Settled(c)
  <1> USE DEF IInv, TypeOK, StoreType
  <1>1. ASSUME UNCHANGED <<msg, told>>
        PROVE  Untouched(c)
    BY <1>1 DEF Untouched
  <1>2. CASE LinkDown \/ Crash \/ Enqueue \/ UNCHANGED vars
    BY <1>1, <1>2 DEF LinkDown, Crash, Enqueue, vars, store, history
  <1>3. CASE \E d \in Cmds : Lapse(d) \/ Execute(d) \/ AckArrives(d)
    BY <1>1, <1>3 DEF Lapse, Execute, AckArrives, store, history
  <1>4. CASE \E w \in Workers : Connect(w) \/ PendingReadFails(w) \/ RecordResultFails(w)
    BY <1>1, <1>4 DEF Connect, PendingReadFails, RecordResultFails, store, history
  <1>5. CASE \E w \in Workers : Deliver(w) \/ SessionEnds(w) \/ RecordReceipt(w)
                                \/ \E d \in Cmds : TakeResult(w, d)
    BY <1>1, <1>5 DEF Deliver, SessionEnds, RecordReceipt, TakeResult, store, history
  <1>6. CASE \E w \in Workers : RecordResult(w)
    BY <1>1, <1>6 DEF RecordResult, ApplyResult
  <1>7. CASE \E d \in Cmds : RecordOutbound(d)
    BY <1>7 DEF RecordOutbound, Untouched, Mirrored, history, SessionType
  <1>8. ASSUME ExpireOverdue, UNCHANGED told
        PROVE  Untouched(c) \/ Buried(c)
    BY <1>8 DEF ExpireOverdue, Untouched, Buried
  <1>9. CASE ExpireTenantCommands
    BY <1>8, <1>9 DEF ExpireTenantCommands, history
  <1>10. CASE \E w \in Workers : PendingForDevice(w)
    BY <1>8, <1>10 DEF PendingForDevice, history
  <1>11. ASSUME NEW w \in Workers, SettleOutbound(w)
         PROVE  Untouched(c) \/ Settled(c)
    <2>1. hand[w] \in Cmds /\ phase[w] = "settle" /\ outcome' = outcome
      BY <1>11 DEF SettleOutbound, AnswerOK, device
    <2>2. CASE UNCHANGED <<msg, told>>
      BY <1>1, <2>2
    <2>3. CASE SettleMessage(hand[w]) /\ c # hand[w]
      BY <2>1, <2>3 DEF SettleMessage, Untouched
    <2>4. CASE SettleMessage(hand[w]) /\ c = hand[w] /\ ~Settleable(c)
      <3>1. msg' = [msg EXCEPT ![c] = msg[c]] /\ told' = told
        BY <2>4 DEF SettleMessage, Settleable
      <3> QED
        BY <3>1 DEF Untouched
    <2>5. CASE SettleMessage(hand[w]) /\ c = hand[w] /\ Settleable(c)
      <3>1. c \in told' /\ msg[c] \in {"queued", "failed"}
        BY <2>5 DEF SettleMessage, Settleable
      <3>2. msg' = [msg EXCEPT ![c] = IF msg[c] = "queued" THEN MessageStatus(c)
                                      ELSE IF MessageStatus(c) = "sent" THEN "sent" ELSE msg[c]]
        BY <2>5 DEF SettleMessage
      <3>3. msg'[c] = IF msg[c] = "queued" \/ MessageStatus(c) = "sent" THEN MessageStatus(c) ELSE msg[c]
        BY <3>2
      <3> QED
        BY <2>1, <2>5, <3>1, <3>3 DEF Settled
    <2> QED
      BY <1>11, <2>2, <2>3, <2>4, <2>5 DEF SettleOutbound
  <1> QED
    BY <1>2, <1>3, <1>4, <1>5, <1>6, <1>7, <1>9, <1>10, <1>11 DEF Next, SessionStep

\* A device executes a delivered command once, and its outcome stands.
LEMMA OutcomeStep ==
    ASSUME IInv, [Next]_vars, NEW c \in Cmds
    PROVE  \/ outcome'[c] = outcome[c]
           \/ outcome[c] = "none" /\ outcome'[c] \in Outcomes /\ c \in wire /\ UNCHANGED <<store, history>>
  <1>1. CASE UNCHANGED outcome
    BY <1>1
  <1>2. CASE \E d \in Cmds : Execute(d)
    BY <1>2 DEF Execute, Executed, device, IInv, TypeOK, DeviceType
  <1>3. CASE ~\E d \in Cmds : Execute(d)
    <2>1. UNCHANGED outcome
      BY <1>3 DEF Next, SessionStep, Enqueue, ExpireTenantCommands, LinkDown, Crash, RecordOutbound,
             Lapse, AckArrives, Connect, PendingReadFails, RecordResultFails, PendingForDevice,
             Deliver, RecordReceipt, TakeResult, RecordResult, SettleOutbound, SessionEnds,
             vars, device
    <2> QED
      BY <1>1, <2>1
  <1> QED
    BY <1>2, <1>3

-----------------------------------------------------------------------------
(* Types.                                                                  *)

LEMMA StoreTypeStep ==
    ASSUME IInv, [Next]_vars
    PROVE  StoreType'
  <1> USE DEF IInv, TypeOK, StoreType
  <1>1. CASE UNCHANGED <<store, lapsed>>
    BY <1>1 DEF store
  <1>2. CASE LinkDown \/ Crash \/ UNCHANGED vars
    BY <1>1, <1>2 DEF LinkDown, Crash, vars
  <1>3. CASE \E c \in Cmds : Execute(c) \/ AckArrives(c)
    BY <1>1, <1>3 DEF Execute, AckArrives
  <1>4. CASE \E w \in Workers : Connect(w) \/ PendingReadFails(w) \/ RecordResultFails(w)
    BY <1>1, <1>4 DEF Connect, PendingReadFails, RecordResultFails
  <1>5. CASE \E w \in Workers : Deliver(w) \/ SessionEnds(w) \/ \E c \in Cmds : TakeResult(w, c)
    BY <1>1, <1>5 DEF Deliver, SessionEnds, TakeResult
  <1>6. CASE Enqueue
    BY <1>6 DEF Enqueue, Terminal
  <1>7. CASE \E c \in Cmds : RecordOutbound(c) \/ Lapse(c)
    BY <1>7 DEF RecordOutbound, Lapse, store
  <1>8. ASSUME ExpireOverdue, UNCHANGED lapsed
        PROVE  StoreType'
    BY <1>8 DEF ExpireOverdue, Terminal
  <1>9. CASE ExpireTenantCommands \/ \E w \in Workers : PendingForDevice(w)
    BY <1>8, <1>9 DEF ExpireTenantCommands, PendingForDevice
  <1>10. ASSUME NEW w \in Workers, RecordReceipt(w)
         PROVE  StoreType'
    <2>1. PICK r \in rwire : StoreReceipt(w, r[1], r[2]) \/ RefuseReceipt(w, r[1], r[2])
      BY <1>10 DEF RecordReceipt
    <2>2. r[1] \in Cmds /\ r[2] \in {"accepted", "duplicate", "retry_later"}
      BY DEF DeviceType
    <2>3. receipts' \subseteq Cmds \X {"accepted", "duplicate"}
      BY <2>1, <2>2 DEF StoreReceipt, RefuseReceipt
    <2>4. status' \in [Cmds -> {"none", "queued", "accepted"} \union Terminal] /\ accepted' \subseteq Cmds
      BY <2>1, <2>2 DEF StoreReceipt, RefuseReceipt
    <2> QED
      BY <1>10, <2>3, <2>4 DEF RecordReceipt
  <1>11. ASSUME NEW w \in Workers, RecordResult(w)
         PROVE  StoreType'
    <2>1. hand[w] \in Cmds /\ outcome[hand[w]] \in Outcomes /\ outcome[hand[w]] \in Terminal
      BY <1>11, CommandAssumption DEF RecordResult, AnswerOK, DeviceType
    <2> QED
      BY <1>11, <2>1 DEF RecordResult, ApplyResult
  <1>12. ASSUME NEW w \in Workers, SettleOutbound(w)
         PROVE  StoreType'
    <2>1. hand[w] \in Cmds
      BY <1>12 DEF SettleOutbound, AnswerOK
    <2>2. msg' \in [Cmds -> {"none", "queued", "sent", "failed"}]
      <3>1. \A c \in Cmds : msg'[c] \in {"none", "queued", "sent", "failed"}
        BY MessageSteps DEF Untouched, Mirrored, Buried, Settled, MessageStatus
      <3>2. msg' = [c \in Cmds |-> msg'[c]]
        BY <1>12 DEF SettleOutbound, SettleMessage
      <3> QED
        BY <3>1, <3>2
    <2>3. why' \in [Cmds -> {"none", "device", "expiry", "late"}]
      BY <1>12, <2>1 DEF SettleOutbound, SettleMessage
    <2> QED
      BY <1>12, <2>2, <2>3 DEF SettleOutbound
  <1> QED
    BY <1>2, <1>3, <1>4, <1>5, <1>6, <1>7, <1>9, <1>10, <1>11, <1>12 DEF Next, SessionStep

LEMMA SessionTypeStep ==
    ASSUME IInv, [Next]_vars
    PROVE  SessionType'
  <1> USE DEF IInv, TypeOK, SessionType
  <1>1. MaxCmds \in Nat /\ Cmds = 1 .. MaxCmds
    BY CommandAssumption DEF Cmds
  <1>2. CASE UNCHANGED <<console, session>>
    BY <1>2 DEF console, session
  <1>3. CASE ExpireTenantCommands \/ UNCHANGED vars
    BY <1>2, <1>3 DEF ExpireTenantCommands, vars
  <1>4. CASE \E c \in Cmds : Lapse(c) \/ Execute(c) \/ AckArrives(c)
    BY <1>2, <1>4 DEF Lapse, Execute, AckArrives
  <1>5. CASE Enqueue
    BY <1>1, <1>5 DEF Enqueue, session
  <1>6. CASE LinkDown \/ Crash
    BY <1>1, <1>6 DEF LinkDown, Crash, console
  <1>7. CASE \E c \in Cmds : RecordOutbound(c)
    BY <1>7 DEF RecordOutbound, session
  <1>8. CASE \E w \in Workers : Connect(w) \/ PendingReadFails(w) \/ SessionEnds(w)
    BY <1>8 DEF Connect, PendingReadFails, SessionEnds, console
  <1>9. CASE \E w \in Workers : RecordResultFails(w)
    BY <1>1, <1>9 DEF RecordResultFails, EndSession, console
  <1>10. CASE \E w \in Workers : PendingForDevice(w)
    <2>1. Pending \in SUBSET Cmds
      BY DEF Pending
    <2> QED
      BY <1>10, <2>1 DEF PendingForDevice, console
  <1>11. CASE \E w \in Workers : Deliver(w)
    BY <1>11 DEF Deliver, console
  <1>12. ASSUME NEW w \in Workers, RecordReceipt(w)
         PROVE  SessionType'
    <2>1. UNCHANGED <<nextCmd, handler, batch, hand>>
      BY <1>12 DEF RecordReceipt, console
    <2>2. UNCHANGED <<sess, phase>> \/ EndSession(w)
      BY <1>12 DEF RecordReceipt, StoreReceipt, RefuseReceipt
    <2> QED
      BY <2>1, <2>2 DEF EndSession
  <1>13. ASSUME NEW w \in Workers, RecordResult(w) \/ SettleOutbound(w)
         PROVE  SessionType'
    <2>1. UNCHANGED <<nextCmd, handler, sess, batch>>
      BY <1>13 DEF RecordResult, SettleOutbound, console
    <2>2. phase' \in [Workers -> {"off", "resume", "deliver", "loop", "record", "settle"}]
      BY <1>13 DEF RecordResult, SettleOutbound
    <2>3. hand' \in [Workers -> 0 .. MaxCmds]
      <3>1. hand' = hand \/ hand' = [hand EXCEPT ![w] = 0]
        BY <1>13 DEF RecordResult, SettleOutbound
      <3>2. 0 \in 0 .. MaxCmds
        BY <1>1
      <3> QED
        BY <3>1, <3>2
    <2> QED
      BY <2>1, <2>2, <2>3
  <1>14. CASE \E w \in Workers, c \in Cmds : TakeResult(w, c)
    BY <1>1, <1>14 DEF TakeResult, console
  <1> QED
    BY <1>3, <1>4, <1>5, <1>6, <1>7, <1>8, <1>9, <1>10, <1>11, <1>12, <1>13, <1>14
    DEF Next, SessionStep

LEMMA DeviceTypeStep ==
    ASSUME IInv, [Next]_vars
    PROVE  DeviceType'
  <1> USE DEF IInv, TypeOK, DeviceType
  <1>1. CASE Enqueue \/ ExpireTenantCommands \/ UNCHANGED vars
    BY <1>1 DEF Enqueue, ExpireTenantCommands, vars, link, device, history
  <1>2. CASE LinkDown \/ Crash
    BY <1>2 DEF LinkDown, Crash, LoseLink, device, history
  <1>3. CASE \E c \in Cmds : RecordOutbound(c) \/ Lapse(c) \/ AckArrives(c)
    BY <1>3 DEF RecordOutbound, Lapse, AckArrives, link, device, history
  <1>4. CASE \E w \in Workers : \/ Connect(w) \/ PendingReadFails(w) \/ RecordResultFails(w)
                                \/ SessionEnds(w) \/ PendingForDevice(w)
    BY <1>4 DEF Connect, PendingReadFails, RecordResultFails, SessionEnds, PendingForDevice,
           LoseLink, link, device, history
  <1>5. ASSUME NEW c \in Cmds, Execute(c)
        PROVE  DeviceType'
    <2>1. outcome' \in [Cmds -> {"none"} \union Outcomes] /\ answers' \subseteq Cmds
      BY <1>5 DEF Execute, device
    <2>2. rwire' \subseteq Cmds \X {"accepted", "duplicate", "retry_later"}
      BY <1>5 DEF Execute
    <2> QED
      BY <1>5, <2>1, <2>2 DEF Execute, history
  <1>6. ASSUME NEW w \in Workers, Deliver(w)
        PROVE  DeviceType'
    BY <1>6 DEF Deliver, device, history, SessionType
  <1>7. ASSUME NEW w \in Workers, RecordReceipt(w)
        PROVE  DeviceType'
    <2>1. PICK r \in rwire : StoreReceipt(w, r[1], r[2]) \/ RefuseReceipt(w, r[1], r[2])
      BY <1>7 DEF RecordReceipt
    <2>2. r[1] \in Cmds /\ r[2] \in {"accepted", "duplicate", "retry_later"}
      OBVIOUS
    <2>3. UNCHANGED <<outcome, answers, recorded, told, faults>>
      BY <1>7 DEF RecordReceipt, device
    <2>4. /\ wire' \subseteq Cmds /\ acks' \subseteq Cmds
          /\ rwire' \subseteq Cmds \X {"accepted", "duplicate", "retry_later"}
      BY <2>1 DEF StoreReceipt, RefuseReceipt, LoseLink
    <2>5. refused' \subseteq Cmds \X {"retry_later"}
      BY <2>1, <2>2 DEF StoreReceipt, RefuseReceipt
    <2> QED
      BY <2>3, <2>4, <2>5
  <1>8. ASSUME NEW w \in Workers, RecordResult(w) \/ SettleOutbound(w)
        PROVE  DeviceType'
    <2>1. hand[w] \in Cmds
      BY <1>8 DEF RecordResult, SettleOutbound, AnswerOK
    <2> QED
      BY <1>8, <2>1 DEF RecordResult, SettleOutbound, SettleMessage, link, device
  <1>9. CASE \E w \in Workers, c \in Cmds : TakeResult(w, c)
    BY <1>9 DEF TakeResult, device, history
  <1> QED
    BY <1>1, <1>2, <1>3, <1>4, <1>5, <1>6, <1>7, <1>8, <1>9 DEF Next, SessionStep

-----------------------------------------------------------------------------
(* The other parts of the invariant.                                       *)

\* Where deliveries, batches and request handlers come from.
LEMMA WireStep ==
    ASSUME IInv, [Next]_vars, NEW c \in wire', c \notin wire
    PROVE  \E w \in Workers : c \in batch[w]
  <1>1. PICK w \in Workers : Deliver(w)
    BY DEF Next, SessionStep, Enqueue, ExpireTenantCommands, LinkDown, Crash, LoseLink,
           RecordOutbound, Lapse, Execute, AckArrives, Connect, PendingReadFails, RecordResultFails,
           PendingForDevice, RecordReceipt, StoreReceipt, RefuseReceipt, TakeResult, RecordResult,
           SettleOutbound, SessionEnds, vars, link
  <1> QED
    BY <1>1 DEF Deliver

LEMMA BatchStep ==
    ASSUME IInv, [Next]_vars, NEW q \in Workers, NEW c \in batch'[q], c \notin batch[q]
    PROVE  status[c] = "queued"
  <1> USE DEF IInv, TypeOK, SessionType
  <1>1. CASE \E w \in Workers : PendingForDevice(w)
    BY <1>1 DEF PendingForDevice, Pending
  <1>2. CASE Enqueue \/ ExpireTenantCommands \/ LinkDown \/ Crash \/ UNCHANGED vars
    BY <1>2 DEF Enqueue, ExpireTenantCommands, LinkDown, Crash, vars, session
  <1>3. CASE \E d \in Cmds : RecordOutbound(d) \/ Lapse(d) \/ Execute(d) \/ AckArrives(d)
    BY <1>3 DEF RecordOutbound, Lapse, Execute, AckArrives, session
  <1>4. CASE \E w \in Workers : \/ Connect(w) \/ PendingReadFails(w) \/ RecordResultFails(w)
                                \/ RecordReceipt(w) \/ RecordResult(w) \/ SettleOutbound(w)
                                \/ \E d \in Cmds : TakeResult(w, d)
    BY <1>4 DEF Connect, PendingReadFails, RecordResultFails, RecordReceipt, RecordResult,
           SettleOutbound, TakeResult
  <1>5. CASE \E w \in Workers : Deliver(w) \/ SessionEnds(w)
    BY <1>5 DEF Deliver, SessionEnds
  <1> QED
    BY <1>1, <1>2, <1>3, <1>4, <1>5 DEF Next, SessionStep

LEMMA HandlerStep ==
    ASSUME IInv, [Next]_vars, NEW c \in Cmds
    PROVE  \/ handler'[c] = handler[c]
           \/ handler[c] = "mirror"
           \/ handler'[c] = "mirror" /\ c = nextCmd /\ status'[c] = "queued"
  <1> USE DEF IInv, TypeOK, SessionType, StoreType
  <1>1. CASE UNCHANGED handler
    BY <1>1
  <1>2. CASE Enqueue
    BY <1>2 DEF Enqueue
  <1>3. CASE Crash
    BY <1>3 DEF Crash
  <1>4. CASE \E d \in Cmds : RecordOutbound(d)
    BY <1>4 DEF RecordOutbound
  <1>5. CASE ~Enqueue /\ ~Crash /\ ~\E d \in Cmds : RecordOutbound(d)
    <2>1. UNCHANGED handler
      BY <1>5 DEF Next, SessionStep, ExpireTenantCommands, LinkDown, Lapse, Execute, AckArrives,
             Connect, PendingReadFails, RecordResultFails, PendingForDevice, Deliver, RecordReceipt,
             TakeResult, RecordResult, SettleOutbound, SessionEnds, vars, console
    <2> QED
      BY <1>1, <2>1
  <1> QED
    BY <1>2, <1>3, <1>4, <1>5

LEMMA NextCmdStep ==
    ASSUME [Next]_vars
    PROVE  nextCmd' = nextCmd \/ nextCmd' = nextCmd + 1
  BY DEF Next, SessionStep, Enqueue, ExpireTenantCommands, LinkDown, Crash, RecordOutbound, Lapse,
         Execute, AckArrives, Connect, PendingReadFails, RecordResultFails, PendingForDevice, Deliver,
         RecordReceipt, TakeResult, RecordResult, SettleOutbound, SessionEnds, vars, console

LEMMA OutcomeTypes ==
    ASSUME IInv, NEW c \in Cmds, outcome[c] # "none"
    PROVE  outcome[c] \in Terminal /\ status[c] # "none"
  BY CommandAssumption DEF IInv, TypeOK, DeviceType, FreshOK

\* A command answered by a goroutine has been executed.
LEMMA AnsweredExecuted ==
    ASSUME IInv, NEW c \in Cmds, Answered(c)
    PROVE  outcome[c] # "none" /\ outcome[c] \in Terminal /\ status[c] # "none"
  <1>1. outcome[c] # "none"
    BY DEF IInv, AnswerOK, Answered
  <1> QED
    BY <1>1, OutcomeTypes

LEMMA FreshStep ==
    ASSUME IInv, [Next]_vars
    PROVE  FreshOK'
  <1> SUFFICES ASSUME NEW c \in Cmds
               PROVE  /\ c >= nextCmd' => status'[c] = "none"
                      /\ status'[c] = "none" =>
                           /\ outcome'[c] = "none" /\ msg'[c] = "none" /\ handler'[c] = "idle"
                           /\ c \notin accepted' /\ c \notin wire'
                           /\ \A w \in Workers : c \notin batch'[w]
    BY DEF FreshOK
  <1>1. c \in Nat /\ nextCmd \in Nat /\ nextCmd' \in Nat /\ nextCmd <= nextCmd'
    BY NextCmdStep, CommandAssumption DEF IInv, TypeOK, SessionType, Cmds
  <1>2. ASSUME status[c] = "none", ~Queued(c)
        PROVE  Same(c)
    <2>1. ~Answered(c)
      BY <1>2, AnsweredExecuted
    <2> QED
      BY <1>2, <2>1, CommandSteps DEF Received, Retired, Open
  <1>3. c >= nextCmd' => status'[c] = "none"
    <2>1. CASE Queued(c)
      BY <1>1, <2>1 DEF Queued
    <2>2. CASE ~Queued(c)
      BY <1>1, <1>2, <2>2 DEF IInv, FreshOK, Same
    <2> QED
      BY <2>1, <2>2
  <1>4. ASSUME status'[c] = "none"
        PROVE  Same(c) /\ status[c] = "none"
    <2>1. ~Answered(c)
      BY <1>4, AnsweredExecuted DEF Answered, Terminal
    <2> QED
      BY <1>4, <2>1, CommandSteps DEF Same, Queued, Received, Retired
  <1>5. ASSUME status'[c] = "none"
        PROVE  /\ outcome'[c] = "none" /\ msg'[c] = "none" /\ handler'[c] = "idle"
               /\ c \notin accepted' /\ c \notin wire' /\ \A w \in Workers : c \notin batch'[w]
    <2>1. /\ outcome[c] = "none" /\ msg[c] = "none" /\ handler[c] = "idle"
          /\ c \notin accepted /\ c \notin wire /\ \A w \in Workers : c \notin batch[w]
      BY <1>4, <1>5 DEF IInv, FreshOK
    <2>2. outcome'[c] = "none"
      BY <2>1, OutcomeStep
    <2>3. msg'[c] = "none"
      BY <2>1, MessageSteps DEF IInv, AnswerOK, Untouched, Mirrored, Buried, Settled
    <2>4. c \notin accepted'
      BY <1>4, <1>5, <2>1 DEF Same
    <2>5. c \notin wire' /\ \A w \in Workers : c \notin batch'[w]
      BY <1>4, <1>5, <2>1, WireStep, BatchStep
    <2>6. handler'[c] = "idle"
      BY <1>5, <2>1, HandlerStep
    <2> QED
      BY <2>2, <2>3, <2>4, <2>5, <2>6
  <1> QED
    BY <1>3, <1>5

LEMMA VerdictStep ==
    ASSUME IInv, [Next]_vars
    PROVE  VerdictOK' /\ OutboxFollowsCommand' /\ ExpiryReasonHonest'
  <1> USE DEF IInv, VerdictOK, OutboxFollowsCommand, ExpiryReasonHonest
  <1>1. ASSUME NEW c \in Cmds
        PROVE  /\ status'[c] = "queued" => c \notin accepted'
               /\ status'[c] = "accepted" => c \in accepted'
               /\ status'[c] \notin Terminal => reason'[c] = "none"
               /\ status'[c] \in Terminal \ CloudRetired => status'[c] = outcome'[c]
               /\ (outbox'[c] = "resolved") <=> (status'[c] \in Terminal)
               /\ reason'[c] = "cloud_expired" => c \notin accepted'
               /\ reason'[c] = "cloud_expired_after_accept" => c \in accepted'
    <2>1. CASE Same(c)
      <3>1. status[c] \in Terminal \ CloudRetired => outcome'[c] = outcome[c]
        BY OutcomeStep DEF Terminal
      <3> QED
        BY <2>1, <3>1 DEF Same
    <2>2. CASE Queued(c)
      <3>1. status[c] = "none"
        BY <2>2, CommandAssumption DEF Queued, FreshOK, Cmds
      <3>2. c \notin accepted /\ reason[c] = "none"
        BY <3>1 DEF FreshOK, Terminal
      <3> QED
        BY <2>2, <3>2 DEF Queued, Terminal
    <2>3. CASE Received(c)
      <3>1. reason[c] = "none" /\ outbox[c] # "resolved"
        BY <2>3 DEF Received, Terminal
      <3> QED
        BY <2>3, <3>1 DEF Received, Terminal
    <2>4. CASE Retired(c)
      BY <2>4 DEF Retired, Open, Terminal, CloudRetired
    <2>5. CASE Answered(c)
      <3>1. outcome[c] \in Terminal /\ outcome'[c] = outcome[c]
        BY <2>5, AnsweredExecuted DEF Answered
      <3>2. CASE status[c] \in Terminal
        BY <2>5, <3>1, <3>2 DEF Answered, Terminal
      <3>3. CASE status[c] \notin Terminal
        BY <2>5, <3>1, <3>3 DEF Answered, Terminal
      <3> QED
        BY <3>2, <3>3
    <2> QED
      BY <2>1, <2>2, <2>3, <2>4, <2>5, CommandSteps
  <1> QED
    BY <1>1

LEMMA AnswerStep ==
    ASSUME IInv, [Next]_vars
    PROVE  AnswerOK'
  <1> USE DEF IInv, TypeOK
  <1>1. \A c \in Cmds : outcome[c] # "none" => outcome'[c] # "none"
    BY OutcomeStep
  <1>2. ASSUME NEW c \in answers'
        PROVE  outcome'[c] # "none"
    <2>1. CASE c \in answers
      BY <1>1, <2>1 DEF AnswerOK, DeviceType
    <2>2. CASE c \notin answers
      <3>1. PICK d \in Cmds : Execute(d)
        BY <2>2 DEF Next, SessionStep, Enqueue, ExpireTenantCommands, LinkDown, Crash, RecordOutbound,
               Lapse, AckArrives, Connect, PendingReadFails, RecordResultFails, PendingForDevice,
               Deliver, RecordReceipt, TakeResult, RecordResult, SettleOutbound, SessionEnds,
               vars, device
      <3>2. c = d /\ \E o \in Outcomes : outcome' = [outcome EXCEPT ![c] = o]
        BY <2>2, <3>1 DEF Execute, device
      <3> QED
        BY <3>2, CommandAssumption DEF DeviceType, Terminal
    <2> QED
      BY <2>1, <2>2
  <1>3. ASSUME NEW q \in Workers, phase'[q] \in {"record", "settle"}
        PROVE  hand'[q] \in Cmds /\ outcome[hand'[q]] # "none"
    <2> USE DEF SessionType
    <2>1. ASSUME phase'[q] = phase[q], hand'[q] = hand[q]
          PROVE  hand'[q] \in Cmds /\ outcome[hand'[q]] # "none"
      BY <1>3, <2>1 DEF AnswerOK
    <2>2. CASE Enqueue \/ ExpireTenantCommands \/ LinkDown \/ UNCHANGED vars
      BY <2>1, <2>2 DEF Enqueue, ExpireTenantCommands, LinkDown, vars, session
    <2>3. CASE Crash
      BY <1>3, <2>3 DEF Crash
    <2>4. CASE \E d \in Cmds : RecordOutbound(d) \/ Lapse(d) \/ Execute(d) \/ AckArrives(d)
      BY <2>1, <2>4 DEF RecordOutbound, Lapse, Execute, AckArrives, session
    <2>5. CASE \E w \in Workers : \/ Connect(w) \/ PendingReadFails(w) \/ PendingForDevice(w)
                                  \/ Deliver(w) \/ SessionEnds(w)
      BY <1>3, <2>1, <2>5 DEF Connect, PendingReadFails, PendingForDevice, Deliver, SessionEnds
    <2>6. ASSUME NEW w \in Workers, RecordReceipt(w)
          PROVE  hand'[q] \in Cmds /\ outcome[hand'[q]] # "none"
      <3>1. hand' = hand /\ (phase' = phase \/ phase' = [phase EXCEPT ![w] = "off"])
        BY <2>6 DEF RecordReceipt, StoreReceipt, RefuseReceipt, EndSession
      <3> QED
        BY <1>3, <2>1, <3>1
    <2>7. CASE \E w \in Workers : RecordResultFails(w) \/ SettleOutbound(w)
      BY <1>3, <2>1, <2>7 DEF RecordResultFails, SettleOutbound, EndSession
    <2>8. CASE \E w \in Workers : RecordResult(w)
      BY <1>3, <2>1, <2>8 DEF RecordResult, AnswerOK
    <2>9. CASE \E w \in Workers, d \in Cmds : TakeResult(w, d)
      BY <1>3, <2>1, <2>9 DEF TakeResult, AnswerOK
    <2> QED
      BY <2>2, <2>3, <2>4, <2>5, <2>6, <2>7, <2>8, <2>9 DEF Next, SessionStep
  <1> QED
    BY <1>1, <1>2, <1>3 DEF AnswerOK

LEMMA KeptStep ==
    ASSUME IInv, [Next]_vars
    PROVE  AnswerKept'
  <1> SUFFICES ASSUME NEW c \in recorded'
               PROVE  outcome'[c] # "none" /\ (outcome'[c] = status'[c] \/ outcome'[c] = late'[c])
    BY DEF AnswerKept
  <1>1. c \in Cmds
    BY DeviceTypeStep DEF DeviceType
  <1>2. CASE Answered(c)
    <2>1. outcome'[c] = outcome[c] /\ outcome[c] # "none"
      BY <1>1, <1>2, AnsweredExecuted DEF Answered
    <2>2. status[c] \in Terminal \ CloudRetired => status[c] = outcome[c]
      BY <1>1 DEF IInv, VerdictOK
    <2> QED
      BY <1>2, <2>1, <2>2 DEF Answered, CloudRetired, Terminal
  <1>3. CASE ~Answered(c)
    <2>1. c \in recorded
      BY <1>1, <1>3, CommandSteps DEF Same, Queued, Received, Retired, IInv
    <2>2. outcome[c] # "none" /\ (outcome[c] = status[c] \/ outcome[c] = late[c])
      BY <2>1 DEF IInv, AnswerKept
    <2>3. outcome'[c] = outcome[c] /\ outcome[c] \in Terminal /\ status[c] # "none"
      BY <1>1, <2>2, OutcomeStep, OutcomeTypes
    <2>4. late'[c] = late[c] /\ (status[c] \in Terminal => status'[c] = status[c])
      <3>1. ~Queued(c)
        BY <1>1, <2>3, CommandAssumption DEF Queued, IInv, FreshOK, Cmds
      <3> QED
        BY <1>1, <1>3, <3>1, CommandSteps DEF Same, Received, Retired, Open, Terminal
    <2> QED
      BY <2>2, <2>3, <2>4
  <1> QED
    BY <1>2, <1>3

LEMMA MessageStep ==
    ASSUME IInv, [Next]_vars
    PROVE  MirrorOK' /\ MessageTruthful'
  <1> USE DEF IInv, MirrorOK, MessageTruthful
  <1>1. ASSUME NEW c \in Cmds
        PROVE  /\ c \in told' => outcome'[c] # "none"
               /\ handler'[c] = "mirror" => c \notin told' /\ msg'[c] = "none"
               /\ msg'[c] = "sent" => outcome'[c] = "succeeded"
               /\ c \in told' => (msg'[c] = "sent" <=> outcome'[c] = "succeeded")
    <2>1. outcome[c] # "none" => outcome'[c] = outcome[c]
      BY OutcomeStep
    <2>2. handler'[c] = "mirror" => c \notin told /\ msg[c] = "none"
      <3>1. CASE c = nextCmd
        BY <3>1, CommandAssumption DEF FreshOK, Cmds
      <3>2. CASE c # nextCmd
        BY <3>2, HandlerStep
      <3> QED
        BY <3>1, <3>2
    <2>3. CASE Untouched(c)
      BY <2>1, <2>2, <2>3 DEF Untouched
    <2>4. CASE Mirrored(c)
      BY <2>1, <2>2, <2>4 DEF Mirrored
    <2>5. CASE Buried(c)
      BY <2>1, <2>2, <2>5 DEF Buried
    <2>6. CASE Settled(c)
      <3>1. outcome[c] # "none" /\ outcome'[c] = outcome[c]
        BY <2>6 DEF Settled, AnswerOK
      <3>2. msg[c] \in {"queued", "failed"}
        BY <2>6 DEF Settled, Settleable
      <3>3. handler'[c] # "mirror"
        BY <2>2, <3>2
      <3> QED
        BY <2>6, <3>1, <3>2, <3>3 DEF Settled, MessageStatus
    <2> QED
      BY <2>3, <2>4, <2>5, <2>6, MessageSteps
  <1>2. told' \subseteq Cmds
    BY DeviceTypeStep DEF DeviceType
  <1> QED
    BY <1>1, <1>2

-----------------------------------------------------------------------------
(* The theorems.                                                           *)

LEMMA InitIInv == Init => IInv
  <1> SUFFICES ASSUME Init
               PROVE  IInv
    OBVIOUS
  <1>1. TypeOK
    BY CommandAssumption DEF Init, TypeOK, StoreType, SessionType, DeviceType
  <1>2. FreshOK /\ VerdictOK /\ AnswerOK /\ MirrorOK
    BY DEF Init, FreshOK, VerdictOK, AnswerOK, MirrorOK, Terminal
  <1>3. OutboxFollowsCommand /\ AnswerKept /\ MessageTruthful /\ ExpiryReasonHonest
    BY DEF Init, OutboxFollowsCommand, AnswerKept, MessageTruthful, ExpiryReasonHonest, Terminal
  <1> QED
    BY <1>1, <1>2, <1>3 DEF IInv

LEMMA NextIInv == IInv /\ [Next]_vars => IInv'
  <1> SUFFICES ASSUME IInv, [Next]_vars
               PROVE  IInv'
    OBVIOUS
  <1>1. TypeOK'
    BY StoreTypeStep, SessionTypeStep, DeviceTypeStep DEF TypeOK
  <1> QED
    BY <1>1, FreshStep, VerdictStep, AnswerStep, KeptStep, MessageStep DEF IInv

\* The invariant that follows a command through its four writers.
THEOREM CommandInvariant == Spec => []IInv
  BY InitIInv, NextIInv, PTL DEF Spec

\* Type correctness: every status, reason and message is one the schema knows.
THEOREM CommandTypes == Spec => []TypeOK
  <1>1. IInv => TypeOK
    BY DEF IInv
  <1> QED
    BY <1>1, CommandInvariant, PTL

\* A wakeup is resolved exactly when its command is over, whoever ended it.
THEOREM WakeupsFollowCommands == Spec => []OutboxFollowsCommand
  <1>1. IInv => OutboxFollowsCommand
    BY DEF IInv
  <1> QED
    BY <1>1, CommandInvariant, PTL

\* An answer RecordResult has committed stays on its command.
THEOREM AnswersAreKept == Spec => []AnswerKept
  <1>1. IInv => AnswerKept
    BY DEF IInv
  <1> QED
    BY <1>1, CommandInvariant, PTL

\* The conversation never claims a send the device did not make.
THEOREM ConversationTruthful == Spec => []MessageTruthful
  <1>1. IInv => MessageTruthful
    BY DEF IInv
  <1> QED
    BY <1>1, CommandInvariant, PTL

\* The reason of an expiry agrees with accepted_at.
THEOREM ReasonsHonest == Spec => []ExpiryReasonHonest
  <1>1. IInv => ExpiryReasonHonest
    BY DEF IInv
  <1> QED
    BY <1>1, CommandInvariant, PTL

\* No receipt, answer, replay or sweep moves a command out of its verdict.
THEOREM VerdictsStand == Spec => VerdictStands
  <1>1. IInv /\ [Next]_vars =>
          [\A c \in Cmds : status[c] \in Terminal
                           => status'[c] = status[c] /\ reason'[c] = reason[c]]_vars
    <2> SUFFICES ASSUME IInv, [Next]_vars, NEW c \in Cmds, status[c] \in Terminal
                 PROVE  status'[c] = status[c] /\ reason'[c] = reason[c]
      OBVIOUS
    <2>1. ~Queued(c)
      BY CommandAssumption DEF Queued, IInv, FreshOK, Cmds, Terminal
    <2> QED
      BY <2>1, CommandSteps DEF Same, Received, Retired, Answered, Open, Terminal
  <1> QED
    BY <1>1, CommandInvariant, PTL DEF Spec, VerdictStands

-----------------------------------------------------------------------------
(* The implementation of CommandQueue.                                     *)

\* Commands are issued in order, and only the goroutine that is delivering has
\* anything in its batch.
IssuedOK == \A c \in Cmds : c < nextCmd => status[c] # "none"
ServingOK ==
    /\ sess # NoWorker => phase[sess] # "off"
    /\ \A w \in Workers : batch[w] # {} => phase[w] = "deliver"
\* Nothing is on the way where there is no socket.
QuietOK == sess = NoWorker => wire = {} /\ rwire = {}
QInv == IssuedOK /\ ServingOK /\ QuietOK

LEMMA IssuedStep ==
    ASSUME IInv, IssuedOK, [Next]_vars
    PROVE  IssuedOK'
  <1> SUFFICES ASSUME NEW c \in Cmds, c < nextCmd'
               PROVE  status'[c] # "none"
    BY DEF IssuedOK
  <1>1. c \in Nat /\ nextCmd \in Nat /\ nextCmd' \in {nextCmd, nextCmd + 1}
    <2>1. nextCmd' \in {nextCmd, nextCmd + 1}
      BY DEF Next, SessionStep, Enqueue, ExpireTenantCommands, LinkDown, Crash, RecordOutbound,
             Lapse, Execute, AckArrives, Connect, PendingReadFails, RecordResultFails, PendingForDevice,
             Deliver, RecordReceipt, TakeResult, RecordResult, SettleOutbound, SessionEnds, vars, console
    <2> QED
      BY <2>1, CommandAssumption DEF IInv, TypeOK, SessionType, Cmds
  <1>2. CASE Queued(c)
    BY <1>2 DEF Queued
  <1>3. CASE ~Queued(c)
    <2>1. c < nextCmd
      <3>1. CASE nextCmd' = nextCmd
        BY <3>1
      <3>2. CASE nextCmd' = nextCmd + 1 /\ nextCmd' # nextCmd
        <4>1. Enqueue
          BY <3>2 DEF Next, SessionStep, ExpireTenantCommands, LinkDown, Crash, RecordOutbound,
             Lapse, Execute, AckArrives, Connect, PendingReadFails, RecordResultFails, PendingForDevice,
             Deliver, RecordReceipt, TakeResult, RecordResult, SettleOutbound, SessionEnds, vars, console
        <4>2. status'[nextCmd] = "queued" /\ outbox'[nextCmd] = "pending"
          BY <4>1 DEF Enqueue, IInv, TypeOK, StoreType, SessionType, Cmds
        <4>3. c # nextCmd
          BY <1>3, <3>2, <4>1, <4>2 DEF Enqueue, Queued, history
        <4> QED
          BY <1>1, <3>2, <4>3
      <3> QED
        BY <1>1, <3>1, <3>2
    <2>2. status[c] # "none"
      BY <2>1 DEF IssuedOK
    <2>3. CASE Answered(c)
      BY <2>2, <2>3, AnsweredExecuted DEF Answered
    <2> QED
      BY <1>3, <2>2, <2>3, CommandSteps DEF Same, Received, Retired
  <1> QED
    BY <1>2, <1>3

LEMMA ServingStep ==
    ASSUME IInv, ServingOK, [Next]_vars
    PROVE  ServingOK'
  <1> USE CommandAssumption DEF ServingOK
  <1>0. SessionType
    BY DEF IInv, TypeOK
  <1> USE DEF SessionType
  <1>1. ASSUME UNCHANGED <<sess, phase, batch>>
        PROVE  ServingOK'
    BY <1>1
  <1>2. CASE Enqueue \/ ExpireTenantCommands \/ UNCHANGED vars
    BY <1>1, <1>2 DEF Enqueue, ExpireTenantCommands, vars, session
  <1>3. CASE LinkDown \/ Crash
    BY <1>3 DEF LinkDown, Crash
  <1>4. CASE \E c \in Cmds : RecordOutbound(c) \/ Lapse(c) \/ Execute(c) \/ AckArrives(c)
    BY <1>1, <1>4 DEF RecordOutbound, Lapse, Execute, AckArrives, session
  <1>5. ASSUME NEW w \in Workers, Connect(w)
        PROVE  ServingOK'
    BY <1>0, <1>5 DEF Connect
  <1>6. ASSUME NEW w \in Workers, PendingForDevice(w)
        PROVE  ServingOK'
    <2>1. batch' = [batch EXCEPT ![w] = Pending] /\ sess' = sess
      BY <1>6 DEF PendingForDevice
    <2>2. phase' = [phase EXCEPT ![w] = IF Pending = {} THEN "loop" ELSE "deliver"]
      BY <1>6 DEF PendingForDevice
    <2> QED
      BY <1>0, <2>1, <2>2
  <1>7. ASSUME NEW w \in Workers, PendingReadFails(w)
        PROVE  ServingOK'
    BY <1>0, <1>7 DEF PendingReadFails
  <1>8. ASSUME NEW w \in Workers, Deliver(w)
        PROVE  ServingOK'
    <2>1. PICK c \in batch[w] :
            /\ batch' = [batch EXCEPT ![w] = @ \ {c}]
            /\ phase' = [phase EXCEPT ![w] = IF batch[w] = {c} THEN "loop" ELSE "deliver"]
      BY <1>8 DEF Deliver
    <2>2. sess' = sess
      BY <1>8 DEF Deliver
    <2> QED
      BY <1>0, <2>1, <2>2
  <1>9. ASSUME NEW w \in Workers, RecordReceipt(w)
        PROVE  ServingOK'
    <2>1. batch' = batch /\ phase[w] = "loop"
      BY <1>9 DEF RecordReceipt
    <2>2. \/ sess' = sess /\ phase' = phase
          \/ sess' = NoWorker /\ phase' = [phase EXCEPT ![w] = "off"]
      BY <1>9 DEF RecordReceipt, StoreReceipt, RefuseReceipt, EndSession
    <2> QED
      BY <1>0, <2>1, <2>2
  <1>10. ASSUME NEW w \in Workers,
                (\E c \in Cmds : TakeResult(w, c)) \/ RecordResult(w) \/ SettleOutbound(w)
         PROVE  ServingOK'
    BY <1>0, <1>10 DEF TakeResult, RecordResult, SettleOutbound
  <1>11. ASSUME NEW w \in Workers, SessionEnds(w)
         PROVE  ServingOK'
    BY <1>0, <1>11 DEF SessionEnds
  <1>12. ASSUME NEW w \in Workers, RecordResultFails(w)
         PROVE  ServingOK'
    <2>1. batch' = batch /\ phase[w] = "record" /\ phase' = [phase EXCEPT ![w] = "off"]
      BY <1>12 DEF RecordResultFails, EndSession
    <2>2. sess' = IF sess = w THEN NoWorker ELSE sess
      BY <1>12 DEF RecordResultFails, EndSession
    <2> QED
      BY <1>0, <2>1, <2>2
  <1> QED
    BY <1>2, <1>3, <1>4, <1>5, <1>6, <1>7, <1>8, <1>9, <1>10, <1>11, <1>12 DEF Next, SessionStep

LEMMA QuietStep ==
    ASSUME IInv, QuietOK, [Next]_vars
    PROVE  QuietOK'
  <1> USE CommandAssumption DEF QuietOK
  <1>1. ASSUME UNCHANGED <<sess, wire, rwire>>
        PROVE  QuietOK'
    BY <1>1
  <1>2. CASE Enqueue \/ ExpireTenantCommands \/ UNCHANGED vars
    BY <1>1, <1>2 DEF Enqueue, ExpireTenantCommands, vars, session, link
  <1>3. CASE LinkDown \/ Crash
    BY <1>3 DEF LinkDown, Crash, LoseLink
  <1>4. CASE \E c \in Cmds : RecordOutbound(c) \/ Lapse(c) \/ AckArrives(c)
    BY <1>1, <1>4 DEF RecordOutbound, Lapse, AckArrives, session, link
  <1>5. CASE \E c \in Cmds : Execute(c)
    BY <1>5 DEF Execute, session
  <1>6. CASE \E w \in Workers : Connect(w) \/ Deliver(w) \/ (\E c \in Cmds : TakeResult(w, c))
    BY <1>6 DEF Connect, Deliver, TakeResult
  <1>7. CASE \E w \in Workers : PendingForDevice(w) \/ PendingReadFails(w) \/ RecordResult(w)
                                \/ SettleOutbound(w) \/ SessionEnds(w)
    BY <1>1, <1>7 DEF PendingForDevice, PendingReadFails, RecordResult, SettleOutbound, SessionEnds, link
  <1>8. CASE \E w \in Workers : RecordReceipt(w)
    BY <1>8 DEF RecordReceipt, StoreReceipt, RefuseReceipt, LoseLink
  <1>9. CASE \E w \in Workers : RecordResultFails(w)
    BY <1>9 DEF RecordResultFails, EndSession, LoseLink, link
  <1> QED
    BY <1>2, <1>3, <1>4, <1>5, <1>6, <1>7, <1>8, <1>9 DEF Next, SessionStep

LEMMA QueueInitImplemented == Init => QInv /\ Delivery!QueueInit
  <1> SUFFICES ASSUME Init
               PROVE  QInv /\ Delivery!QueueInit
    OBVIOUS
  <1>1. QInv
    BY CommandAssumption DEF Init, QInv, IssuedOK, ServingOK, QuietOK, Cmds
  <1>2. Standing = [c \in Cmds |-> "none"]
    BY DEF Init, Standing, Terminal
  <1>3. Talk = "down" /\ Reading = {} /\ Executed = {} /\ PutOff = {}
    BY DEF Init, Talk, Reading, Executed, PutOff
  <1> QED
    BY <1>1, <1>2, <1>3 DEF Init, Delivery!QueueInit, Delivery!Line, Cmds

LEMMA QInvStep == IInv /\ QInv /\ [Next]_vars => QInv'
  BY IssuedStep, ServingStep, QuietStep DEF QInv

\* What leaves a part of the abstract state alone.
LEMMA QueueFrame ==
    /\ UNCHANGED status => UNCHANGED Standing
    /\ UNCHANGED outcome => UNCHANGED Executed
    /\ UNCHANGED refused => UNCHANGED PutOff
    /\ UNCHANGED <<sess, phase, batch>> => UNCHANGED <<Talk, Reading>>
  BY DEF Standing, Executed, PutOff, Talk, Reading

\* The abstract state is left alone.
Still == UNCHANGED <<Standing, lapsed, Talk, Reading, wire, rwire, Executed, PutOff>>

LEMMA StillIsQueueStep == Still => UNCHANGED Delivery!queueVars
  BY DEF Still, Delivery!queueVars, Delivery!socket

\* The steps of the console, the clock, the sweeps and the device.
LEMMA OutsideStep ==
    ASSUME IInv, QInv,
           \/ Enqueue \/ ExpireTenantCommands
           \/ \E c \in Cmds : RecordOutbound(c) \/ Lapse(c) \/ Execute(c) \/ AckArrives(c)
    PROVE  Still \/ Delivery!QueueNext
  <1>1. CASE Enqueue
    <2>1. nextCmd \in Cmds /\ nextCmd \in Nat
      BY <1>1, CommandAssumption DEF Enqueue, IInv, TypeOK, SessionType, Cmds
    <2>2. status[nextCmd] = "none" /\ \A d \in 1 .. (nextCmd - 1) : status[d] # "none"
      BY <2>1, CommandAssumption DEF IInv, FreshOK, QInv, IssuedOK, Cmds
    <2>3. Standing[nextCmd] = "none" /\ \A d \in 1 .. (nextCmd - 1) : Standing[d] # "none"
      BY <2>1, <2>2, CommandAssumption DEF Standing, Terminal, Cmds
    <2>4. Standing' = [Standing EXCEPT ![nextCmd] = "queued"]
      BY <1>1, <2>1 DEF Enqueue, Standing, Terminal, IInv, TypeOK, StoreType
    <2>5. UNCHANGED <<lapsed, Talk, Reading, wire, rwire, Executed, PutOff>>
      BY <1>1, QueueFrame DEF Enqueue, session, link, device, history
    <2>6. Delivery!Issue(nextCmd)
      BY <2>3, <2>4, <2>5 DEF Delivery!Issue, Delivery!socket
    <2> QED
      BY <2>1, <2>6 DEF Delivery!QueueNext, Delivery!QueueStep, Delivery!Line, Cmds
  <1>2. CASE ExpireTenantCommands
    <2>1. Standing' = Delivery!Retired
      BY <1>2 DEF ExpireTenantCommands, ExpireOverdue, Overdue, Standing, Delivery!Retired, Delivery!Line,
             Delivery!Undecided, Open, Terminal, Cmds, IInv, TypeOK, StoreType
    <2>2. UNCHANGED <<lapsed, Talk, Reading, wire, rwire, Executed, PutOff>>
      BY <1>2, QueueFrame DEF ExpireTenantCommands, session, link, device, history
    <2> QED
      BY <2>1, <2>2 DEF Delivery!QueueNext, Delivery!QueueStep, Delivery!RetireOverdue, Delivery!socket
  <1>3. CASE \E c \in Cmds : RecordOutbound(c) \/ AckArrives(c)
    BY <1>3, QueueFrame DEF RecordOutbound, AckArrives, Still, session, link, device, history, store
  <1>4. ASSUME NEW c \in Cmds, Lapse(c)
        PROVE  Delivery!QueueNext
    <2>1. Standing[c] # "none" /\ c \notin lapsed /\ lapsed' = lapsed \union {c}
      BY <1>4 DEF Lapse, Standing, Terminal
    <2>2. UNCHANGED <<Standing, Talk, Reading, wire, rwire, Executed, PutOff>>
      BY <1>4, QueueFrame DEF Lapse, store, session, link, device, history
    <2>3. Delivery!FallDue(c)
      BY <2>1, <2>2 DEF Delivery!FallDue, Delivery!socket
    <2> QED
      BY <2>3 DEF Delivery!QueueNext, Delivery!QueueStep, Delivery!Line, Cmds
  <1>5. ASSUME NEW c \in Cmds, Execute(c)
        PROVE  Delivery!QueueNext
    <2>1. c \in wire /\ wire' = wire \ {c}
      BY <1>5 DEF Execute
    <2>2. UNCHANGED <<Standing, lapsed, Talk, Reading, PutOff>>
      BY <1>5, QueueFrame DEF Execute, store, session, history
    <2>3. \/ /\ Executed' = Executed \union {c}
             /\ rwire' = rwire \union {<<c, IF c \in Executed THEN "duplicate" ELSE "accepted">>}
          \/ /\ c \notin Executed /\ Executed' = Executed
             /\ rwire' = rwire \union {<<c, "retry_later">>}
      <3>1. CASE c \notin Executed /\ \E o \in Outcomes : outcome' = [outcome EXCEPT ![c] = o]
                 /\ rwire' = rwire \union {<<c, "accepted">>}
        <4>1. PICK o \in Outcomes : outcome' = [outcome EXCEPT ![c] = o]
          BY <3>1
        <4>2. o # "none"
          BY CommandAssumption DEF Terminal
        <4>3. Executed' = Executed \union {c}
          BY <4>1, <4>2 DEF Executed, IInv, TypeOK, DeviceType
        <4> QED
          BY <3>1, <4>3
      <3>2. CASE UNCHANGED device /\ (c \in Executed => rwire' = rwire \union {<<c, "duplicate">>})
                 /\ (c \notin Executed => rwire' = rwire \union {<<c, "retry_later">>})
        <4>1. Executed' = Executed
          BY <3>2, QueueFrame DEF device
        <4>2. c \in Executed => Executed \union {c} = Executed
          OBVIOUS
        <4> QED
          BY <3>2, <4>1, <4>2
      <3> QED
        BY <1>5, <3>1, <3>2 DEF Execute
    <2>4. Delivery!Handle(c)
      BY <2>1, <2>2, <2>3 DEF Delivery!Handle
    <2> QED
      BY <2>4 DEF Delivery!QueueNext, Delivery!QueueStep, Delivery!Line, Cmds
  <1> QED
    BY <1>1, <1>2, <1>3, <1>4, <1>5

\* The steps of the goroutines that read and deliver the queue.
LEMMA ReadingStep ==
    ASSUME IInv, QInv, NEW w \in Workers,
           Connect(w) \/ PendingForDevice(w) \/ PendingReadFails(w) \/ Deliver(w) \/ SessionEnds(w)
    PROVE  Still \/ Delivery!QueueNext
  <1> USE CommandAssumption
  <1>0. /\ sess \in Workers \union {NoWorker}
        /\ phase \in [Workers -> {"off", "resume", "deliver", "loop", "record", "settle"}]
        /\ batch \in [Workers -> SUBSET Cmds] /\ NoWorker \notin Workers
    BY DEF IInv, TypeOK, SessionType
  <1>1. CASE Connect(w)
    <2>1. batch[w] = {}
      BY <1>1 DEF Connect, QInv, ServingOK
    <2>2. Talk = "down" /\ Talk' = "resume" /\ Reading' = Reading
      BY <1>0, <1>1, <2>1 DEF Connect, Talk, Reading
    <2>3. UNCHANGED <<Standing, lapsed, wire, rwire, Executed, PutOff>>
      BY <1>1, QueueFrame DEF Connect, store, link, device, history
    <2> QED
      BY <2>2, <2>3 DEF Delivery!QueueNext, Delivery!QueueStep, Delivery!Redial, Delivery!socket
  <1>2. CASE PendingForDevice(w)
    <2>1. Standing' = Delivery!Retired
      BY <1>2 DEF PendingForDevice, ExpireOverdue, Overdue, Standing, Delivery!Retired, Delivery!Line,
             Delivery!Undecided, Open, Terminal, Cmds, IInv, TypeOK, StoreType
    <2>2. Pending = Delivery!FirstInLine
      <3> DEFINE due == {c \in Cmds : status[c] = "queued" /\ c \notin lapsed}
                 inLine == {c \in Delivery!Line : Standing[c] = "queued" /\ c \notin lapsed}
      <3>1. due = inLine
        BY DEF Standing, Terminal, Delivery!Line, Cmds
      <3>2. Pending = {c \in due : Cardinality({d \in due : d < c}) < Limit}
        BY DEF Pending
      <3>3. Delivery!FirstInLine = {c \in inLine : Cardinality({d \in inLine : d < c}) < Limit}
        BY DEF Delivery!FirstInLine, Delivery!Cardinality, Cardinality
      <3> HIDE DEF due, inLine
      <3> QED
        BY <3>1, <3>2, <3>3
    <2>3. Talk \in {"resume", "loop"} /\ Reading' = Pending
          /\ Talk' = IF Pending = {} THEN "loop" ELSE "deliver"
      BY <1>0, <1>2 DEF PendingForDevice, Talk, Reading
    <2>4. UNCHANGED <<lapsed, wire, rwire, Executed, PutOff>>
      BY <1>2, QueueFrame DEF PendingForDevice, link, device, history
    <2>5. Delivery!ReadQueue
      BY <2>1, <2>2, <2>3, <2>4 DEF Delivery!ReadQueue, Delivery!socket
    <2> QED
      BY <2>5 DEF Delivery!QueueNext, Delivery!QueueStep
  <1>3. CASE PendingReadFails(w)
    <2>1. Talk \in {"resume", "loop"} /\ Talk' = "loop" /\ Reading' = Reading
      BY <1>0, <1>3 DEF PendingReadFails, Talk, Reading
    <2>2. UNCHANGED <<Standing, lapsed, wire, rwire, Executed, PutOff>>
      BY <1>3, QueueFrame DEF PendingReadFails, store, link, device, history
    <2> QED
      BY <2>1, <2>2 DEF Still, Delivery!QueueNext, Delivery!QueueFault, Delivery!ReadQueueFails,
             Delivery!socket
  <1>4. CASE Deliver(w)
    <2>1. PICK c \in batch[w] :
            /\ \A d \in batch[w] : c <= d
            /\ wire' = wire \union {c}
            /\ batch' = [batch EXCEPT ![w] = @ \ {c}]
            /\ phase' = [phase EXCEPT ![w] = IF batch[w] = {c} THEN "loop" ELSE "deliver"]
      BY <1>4 DEF Deliver
    <2>2. sess = w /\ sess' = w /\ phase[w] = "deliver"
      BY <1>4 DEF Deliver
    <2>3. Talk = "deliver" /\ Talk' = IF batch[w] = {c} THEN "loop" ELSE "deliver"
      BY <1>0, <2>1, <2>2 DEF Talk
    <2>4. Reading = batch[w] /\ Reading' = batch[w] \ {c}
      BY <1>0, <2>1, <2>2 DEF Reading
    <2>5. UNCHANGED <<Standing, lapsed, rwire, Executed, PutOff>>
      BY <1>4, QueueFrame DEF Deliver, store, device, history
    <2>6. Delivery!DeliverNext
      BY <2>1, <2>3, <2>4, <2>5 DEF Delivery!DeliverNext
    <2> QED
      BY <2>6 DEF Delivery!QueueNext, Delivery!QueueStep
  <1>5. CASE SessionEnds(w)
    <2>1. UNCHANGED <<Talk, Reading>>
      BY <1>0, <1>5 DEF SessionEnds, Talk, Reading
    <2> QED
      BY <1>5, <2>1, QueueFrame DEF SessionEnds, Still, store, link, device, history
  <1> QED
    BY <1>1, <1>2, <1>3, <1>4, <1>5

\* The steps that take what the device sent, and the failures.
LEMMA TakingStep ==
    ASSUME IInv, QInv, NEW w \in Workers,
           \/ RecordReceipt(w) \/ RecordResult(w) \/ SettleOutbound(w) \/ RecordResultFails(w)
           \/ \E c \in Cmds : TakeResult(w, c)
    PROVE  Still \/ Delivery!QueueNext
  <1> USE CommandAssumption
  <1>0. /\ sess \in Workers \union {NoWorker}
        /\ phase \in [Workers -> {"off", "resume", "deliver", "loop", "record", "settle"}]
        /\ batch \in [Workers -> SUBSET Cmds] /\ NoWorker \notin Workers
    BY DEF IInv, TypeOK, SessionType
  <1>1. CASE RecordReceipt(w)
    <2>0. w = sess /\ phase[w] = "loop" /\ Talk = "loop" /\ Reading = {}
      BY <1>0, <1>1 DEF RecordReceipt, Talk, Reading, QInv, ServingOK
    <2>1. PICK r \in rwire : StoreReceipt(w, r[1], r[2]) \/ RefuseReceipt(w, r[1], r[2])
      BY <1>1 DEF RecordReceipt
    <2>2. PICK c \in Cmds, k \in {"accepted", "duplicate", "retry_later"} : r = <<c, k>>
      BY <2>1 DEF IInv, TypeOK, DeviceType
    <2>3. UNCHANGED <<lapsed, batch, Executed>>
      BY <1>1, QueueFrame DEF RecordReceipt, device
    <2>4. CASE StoreReceipt(w, c, k)
      <3>1. k \in {"accepted", "duplicate"} /\ rwire' = rwire \ {<<c, k>>}
        BY <2>2, <2>4 DEF StoreReceipt
      <3>2. Standing' = [Standing EXCEPT ![c] = IF @ = "queued" THEN "accepted" ELSE @]
        <4>1. status' = [status EXCEPT ![c] = IF @ = "queued" THEN "accepted" ELSE @]
          BY <2>4 DEF StoreReceipt, IInv, TypeOK, StoreType
        <4> QED
          BY <4>1 DEF Standing, Terminal, IInv, TypeOK, StoreType
      <3>3. UNCHANGED <<Talk, Reading, wire, PutOff>>
        BY <2>3, <2>4, QueueFrame DEF StoreReceipt
      <3>4. Delivery!TakeReply(c)
        BY <2>0, <2>1, <2>2, <2>3, <3>1, <3>2, <3>3 DEF Delivery!TakeReply
      <3> QED
        BY <3>4 DEF Delivery!QueueNext, Delivery!QueueStep, Delivery!Line, Cmds
    <2>5. CASE RefuseReceipt(w, c, k)
      <3>1. k = "retry_later" /\ UNCHANGED Standing
        BY <2>5, QueueFrame DEF RefuseReceipt
      <3>2. PutOff' = PutOff \union {c}
        BY <2>5 DEF RefuseReceipt, PutOff
      <3>3. Delivery!HangUp
        BY <2>0, <2>5 DEF RefuseReceipt, EndSession, LoseLink, Delivery!HangUp, Talk, Reading
      <3>4. Delivery!TakeReply(c)
        BY <2>0, <2>1, <2>2, <2>3, <3>1, <3>2, <3>3 DEF Delivery!TakeReply
      <3> QED
        BY <3>4 DEF Delivery!QueueNext, Delivery!QueueStep, Delivery!Line, Cmds
    <2> QED
      BY <2>1, <2>2, <2>4, <2>5
  <1>2. CASE RecordResult(w)
    <2>1. hand[w] \in Cmds /\ outcome[hand[w]] # "none" /\ outcome[hand[w]] \in Terminal
      BY <1>2, OutcomeTypes DEF RecordResult, IInv, AnswerOK
    <2>2. PICK c \in Cmds : c = hand[w]
      BY <2>1
    <2>3. UNCHANGED <<lapsed, Talk, Reading, wire, rwire, Executed, PutOff>>
      <3>1. UNCHANGED <<Talk, Reading>>
        BY <1>0, <1>2 DEF RecordResult, Talk, Reading
      <3> QED
        BY <1>2, <3>1, QueueFrame DEF RecordResult, link, device
    <2>4. status' = [status EXCEPT ![c] = IF @ \in Terminal THEN @ ELSE outcome[c]]
      BY <1>2, <2>2 DEF RecordResult, ApplyResult
    <2>5. CASE status[c] \in Terminal
      <3>1. status' = status
        BY <2>4, <2>5 DEF IInv, TypeOK, StoreType
      <3> QED
        BY <2>3, <3>1, QueueFrame DEF Still
    <2>6. CASE status[c] \notin Terminal
      <3>1. Standing[c] \in {"queued", "accepted"}
        BY <2>1, <2>2, <2>6, OutcomeTypes DEF Standing, IInv, TypeOK, StoreType
      <3>2. Standing' = [Standing EXCEPT ![c] = "over"]
        BY <2>1, <2>2, <2>4, <2>6 DEF Standing, IInv, TypeOK, StoreType
      <3>3. c \in Executed
        BY <2>1, <2>2 DEF Executed
      <3>4. Delivery!Settle(c)
        BY <2>3, <3>1, <3>2, <3>3 DEF Delivery!Settle, Delivery!Undecided, Delivery!socket
      <3> QED
        BY <3>4 DEF Delivery!QueueNext, Delivery!QueueStep, Delivery!Line, Cmds
    <2> QED
      BY <2>5, <2>6
  <1>3. CASE SettleOutbound(w) \/ \E c \in Cmds : TakeResult(w, c)
    <2>1. UNCHANGED <<Talk, Reading>>
      BY <1>0, <1>3 DEF SettleOutbound, TakeResult, Talk, Reading
    <2> QED
      BY <1>3, <2>1, QueueFrame DEF SettleOutbound, TakeResult, Still, store, link, device, history
  <1>4. CASE RecordResultFails(w)
    <2>1. UNCHANGED <<Standing, lapsed, Executed, PutOff, batch>>
      BY <1>4, QueueFrame DEF RecordResultFails, store, device, history
    <2>2. CASE w = sess
      <3>1. Talk # "down" /\ Delivery!HangUp
        BY <1>0, <1>4, <2>2 DEF RecordResultFails, EndSession, LoseLink, Delivery!HangUp, Talk, Reading
      <3> QED
        BY <2>1, <3>1 DEF Delivery!QueueNext, Delivery!QueueFault, Delivery!SocketLost
    <2>3. CASE w # sess
      <3>1. UNCHANGED <<Talk, Reading, wire, rwire>>
        BY <1>0, <1>4, <2>1, <2>3 DEF RecordResultFails, EndSession, link, Talk, Reading
      <3> QED
        BY <2>1, <3>1 DEF Still
    <2> QED
      BY <2>2, <2>3
  <1> QED
    BY <1>1, <1>2, <1>3, <1>4

LEMMA LosingStep ==
    ASSUME IInv, QInv, LinkDown \/ Crash
    PROVE  Still \/ Delivery!QueueNext
  <1>1. UNCHANGED <<Standing, lapsed, Executed, PutOff>>
    BY QueueFrame DEF LinkDown, Crash, store, device, history
  <1>2. Delivery!HangUp
    BY DEF LinkDown, Crash, LoseLink, Delivery!HangUp, Talk, Reading
  <1>3. CASE sess = NoWorker
    BY <1>1, <1>2, <1>3 DEF Still, Delivery!HangUp, Talk, Reading, QInv, QuietOK
  <1>4. CASE sess # NoWorker
    <2>1. Talk # "down"
      BY <1>4, CommandAssumption DEF Talk, IInv, TypeOK, SessionType
    <2> QED
      BY <1>1, <1>2, <2>1 DEF Delivery!QueueNext, Delivery!QueueFault, Delivery!SocketLost
  <1> QED
    BY <1>3, <1>4

\* What any number of sessions, sweeps and results do to the commands of a
\* device is what the queue of CommandQueue may do.
THEOREM CommandsImplementQueue == Spec => ImplementsQueue
  <1>1. Init => QInv /\ Delivery!QueueInit
    BY QueueInitImplemented
  <1>2. IInv /\ QInv /\ [Next]_vars => [Delivery!QueueNext]_(Delivery!queueVars)
    <2> SUFFICES ASSUME IInv, QInv, [Next]_vars
                 PROVE  [Delivery!QueueNext]_(Delivery!queueVars)
      OBVIOUS
    <2>1. CASE UNCHANGED vars
      BY <2>1, QueueFrame, StillIsQueueStep DEF Still, vars, store, session, link, device, history
    <2>2. CASE Next
      BY <2>2, OutsideStep, ReadingStep, TakingStep, LosingStep, StillIsQueueStep DEF Next, SessionStep
    <2> QED
      BY <2>1, <2>2
  <1> QED
    BY <1>1, <1>2, CommandInvariant, QInvStep, PTL DEF Spec, ImplementsQueue, Delivery!QueueSpec
=============================================================================
