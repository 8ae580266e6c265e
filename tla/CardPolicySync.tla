---------------------------- MODULE CardPolicySync ----------------------------
(***************************************************************************)
(* How a device comes to hold the tenant's card policies. A save or a      *)
(* removal pushes the whole set to the device as a command                 *)
(* (cmd/gateway/card_routes.go); a device that resumes with another        *)
(* version is sent the set again (main.go, reconcileCardPolicies); and a   *)
(* push that lapsed untaken is queued again, a bounded number of times     *)
(* (internal/commands: redeliverCardPolicy). What keeps these from piling  *)
(* up is the idempotency key of app.enqueue_command, made of the version,  *)
(* the payload and the attempt.                                            *)
(*                                                                         *)
(* Every read and every write is a transaction of its own, so requests,    *)
(* the session and the device interleave between them. The device is       *)
(* external: it replaces the set it holds by the one it is sent, once per  *)
(* command, and keeps its result until the gateway has it.                 *)
(***************************************************************************)
EXTENDS ConsolePage, Sequences, FiniteSets

CONSTANTS
  SyncCards,       \* ICCIDs a policy may be written for
  Contents,        \* what a policy may say
  NoPolicy,        \* a card without one
  Requests,        \* console requests under way at once
  MaxDeliveries,   \* MaxCardPolicyDeliveries (3 in the code)
  PendingLimit,    \* LIMIT of the pending read (32 in the code)
  MaxPolicySaves,  \* bound: saves and removals
  MaxSecond,       \* bound: the wall clock
  MaxLapses        \* bound: pushes that outlive their 30 minutes

ASSUME SyncAssumption ==
  /\ NoPolicy \notin Contents
  /\ MaxDeliveries \in Nat \ {0} /\ PendingLimit \in Nat \ {0}
  /\ MaxPolicySaves \in Nat /\ MaxSecond \in Nat /\ MaxLapses \in Nat

VARIABLES
  policyTable, \* app.card_policies: per card, what it says and the second it was written
  second,      \* when the table was last written, in the whole seconds of cards.Version
  push,        \* per request: the pushCardPolicies it is in
  sess,        \* the session goroutine: the reconciliation, redelivery or read it is in
  linked,      \* whether the device is connected
  wire,        \* deliveries on their way down
  commands,    \* app.commands of this kind, oldest first
  lapsed,      \* those whose expires_at has passed
  held,        \* device: the set it enforces, and its version
  done,        \* device: the commands it has carried out, and how they ended
  results,     \* device: those whose result the gateway does not have yet
  saved        \* saves and removals so far

cloudVars == <<policyTable, second, saved>>
boxVars == <<held, results, done>>
syncVars == <<cloudVars, push, sess, linked, wire, commands, lapsed, boxVars>>

Nobody == [c \in SyncCards |-> NoPolicy]        \* the set without a policy
NoVersion == <<0, 0>>
Step(at, set, version) == [at |-> at, set |-> set, version |-> version]
Idle == Step("idle", Nobody, NoVersion)

-----------------------------------------------------------------------------
(* The stored set.                                                           *)

\* What List returns and a push carries: what the policies say.
List == [c \in SyncCards |-> IF policyTable[c] = NoPolicy THEN NoPolicy ELSE policyTable[c].says]

Written == {c \in SyncCards : policyTable[c] # NoPolicy}

\* Version: how many there are, and the newest second one was written in.
Version ==
  <<Cardinality(Written),
    IF Written = {} THEN 0
    ELSE CHOOSE s \in {policyTable[c].at : c \in Written} : \A c \in Written : policyTable[c].at <= s>>

-----------------------------------------------------------------------------
(* The queue.                                                                *)

Intent(k) == <<k.version, k.set>>
CardPolicyKey(version, set) == [version |-> version, set |-> set, attempt |-> 0]

\* How many commands an intent has had, by the key of the newest.
cardPolicyAttempts(key) == key.attempt + 1
cardPolicyRevivalKey(key) == [key EXCEPT !.attempt = cardPolicyAttempts(key)]

\* Slip: what has lapsed stays as it is.
PlanNever(i) == FALSE

\* Slip: a command that can still be delivered is queued again.
PlanEager(i) ==
  /\ commands[i].status \in {"queued", "expired"} /\ ~commands[i].accepted /\ ~commands[i].late
  /\ cardPolicyAttempts(commands[i].key) < MaxDeliveries

\* Only a push the device has shown no sign of, that can no longer be delivered
\* and whose budget is not spent is queued again.
planCardPolicyRedelivery(i) ==
  /\ commands[i].status \in {"queued", "expired"} /\ ~commands[i].accepted /\ ~commands[i].late
  /\ i \in lapsed
  /\ cardPolicyAttempts(commands[i].key) < MaxDeliveries

\* app.enqueue_command: a key that is known already leaves everything as it is.
Enqueue(key) ==
  commands' = IF \E i \in DOMAIN commands : commands[i].key = key THEN commands
              ELSE Append(commands, [key |-> key, status |-> "queued", accepted |-> FALSE, late |-> FALSE])

-----------------------------------------------------------------------------
(* The console: saveCardPolicy, deleteCardPolicy and pushCardPolicies.       *)

\* Two saves may fall into one second; a removal may find nothing to remove.
SavePolicy(h, c, says) ==
  /\ push[h] = Idle /\ saved < MaxPolicySaves
  /\ second' \in second .. MaxSecond
  /\ policyTable' = [policyTable EXCEPT ![c] = IF says = NoPolicy THEN NoPolicy ELSE [says |-> says, at |-> second']]
  /\ saved' = saved + 1
  /\ push' = [push EXCEPT ![h] = Step("list", Nobody, NoVersion)]
  /\ UNCHANGED <<sess, linked, wire, commands, lapsed, boxVars, page, faults>>

\* An emptied set is not pushed.
PushLists(h) ==
  /\ push[h].at = "list"
  /\ push' = [push EXCEPT ![h] = IF List = Nobody THEN Idle ELSE Step("version", List, NoVersion)]
  /\ UNCHANGED <<cloudVars, sess, linked, wire, commands, lapsed, boxVars, page, faults>>

PushVersions(h) ==
  /\ push[h].at = "version"
  /\ push' = [push EXCEPT ![h] = Step("enqueue", push[h].set, Version)]
  /\ UNCHANGED <<cloudVars, sess, linked, wire, commands, lapsed, boxVars, page, faults>>

PushEnqueues(h) ==
  /\ push[h].at = "enqueue"
  /\ Enqueue(CardPolicyKey(push[h].version, push[h].set))
  /\ push' = [push EXCEPT ![h] = Idle]
  /\ UNCHANGED <<cloudVars, sess, linked, wire, lapsed, boxVars, page, faults>>

\* Any of them fails: nobody is told, and the save stands.
PushFails(h) ==
  /\ push[h] # Idle
  /\ push' = [push EXCEPT ![h] = Idle] /\ ConnectionBreaks
  /\ UNCHANGED <<cloudVars, sess, linked, wire, commands, lapsed, boxVars>>

-----------------------------------------------------------------------------
(* The session: Resume and reconcileCardPolicies, then the pending reads.    *)

Resume ==
  /\ ~linked /\ sess = Idle
  /\ linked' = TRUE
  /\ sess' = Step("reconcile", Nobody, held.version)
  /\ UNCHANGED <<cloudVars, push, wire, commands, lapsed, boxVars, page, faults>>

ReconcileVersions ==
  /\ sess.at = "reconcile"
  /\ sess' = IF sess.version # NoVersion /\ sess.version = Version
             THEN Step("redeliver", Nobody, NoVersion) ELSE Step("list", Nobody, Version)
  /\ UNCHANGED <<cloudVars, push, linked, wire, commands, lapsed, boxVars, page, faults>>

ReconcileLists ==
  /\ sess.at = "list"
  /\ sess' = IF List = Nobody THEN Step("redeliver", Nobody, NoVersion)
             ELSE Step("enqueue", List, sess.version)
  /\ UNCHANGED <<cloudVars, push, linked, wire, commands, lapsed, boxVars, page, faults>>

ReconcileEnqueues ==
  /\ sess.at = "enqueue"
  /\ Enqueue(CardPolicyKey(sess.version, sess.set))
  /\ sess' = Step("redeliver", Nobody, NoVersion)
  /\ UNCHANGED <<cloudVars, push, linked, wire, lapsed, boxVars, page, faults>>

ReconcileFails ==
  /\ sess.at \in {"reconcile", "list", "enqueue"}
  /\ sess' = Step("redeliver", Nobody, NoVersion) /\ ConnectionBreaks
  /\ UNCHANGED <<cloudVars, push, linked, wire, commands, lapsed, boxVars>>

\* Inbound traffic, at least five seconds after the last pending read. The next
\* read waits until the device has what was sent before.
CheckPending ==
  /\ linked /\ sess = Idle /\ wire = <<>>
  /\ sess' = Step("redeliver", Nobody, NoVersion)
  /\ UNCHANGED <<cloudVars, push, linked, wire, commands, lapsed, boxVars, page, faults>>

\* redeliverCardPolicy reads the newest command ...
RedeliverReads ==
  /\ sess.at = "redeliver"
  /\ LET n == Len(commands) IN
     sess' = IF n > 0 /\ planCardPolicyRedelivery(n)
             THEN [at |-> "revive", key |-> cardPolicyRevivalKey(commands[n].key)]
             ELSE Step("read", Nobody, NoVersion)
  /\ UNCHANGED <<cloudVars, push, linked, wire, commands, lapsed, boxVars, page, faults>>

\* ... and queues it again, or fails to.
Revive ==
  /\ sess.at = "revive"
  /\ \/ Enqueue(sess.key) /\ ConnectionHolds
     \/ UNCHANGED commands /\ ConnectionBreaks
  /\ sess' = Step("read", Nobody, NoVersion)
  /\ UNCHANGED <<cloudVars, push, linked, wire, lapsed, boxVars>>

Deliverable(i) == commands[i].status = "queued" /\ i \notin lapsed

\* What PendingForDevice selects: ORDER BY issued_at LIMIT PendingLimit.
Pending ==
  LET upTo[n \in 0 .. Len(commands)] ==
        IF n = 0 THEN <<>>
        ELSE IF Deliverable(n) /\ Len(upTo[n - 1]) < PendingLimit
             THEN Append(upTo[n - 1], n) ELSE upTo[n - 1]
  IN  upTo[Len(commands)]

\* Slip: the newest first.
SendsNewestFirst ==
  /\ sess.at = "read"
  /\ commands' = [i \in DOMAIN commands |->
       IF i \in lapsed /\ commands[i].status \in {"queued", "accepted"}
       THEN [commands[i] EXCEPT !.status = "expired"] ELSE commands[i]]
  /\ wire' = IF linked THEN SelectSeq([i \in DOMAIN commands |-> Len(commands) + 1 - i], Deliverable) ELSE <<>>
  /\ sess' = Idle
  /\ UNCHANGED <<cloudVars, push, linked, lapsed, boxVars, page, faults>>

\* PendingForDevice: what has lapsed expires, what is left is sent in order.
ReadsPending ==
  /\ sess.at = "read"
  /\ commands' = [i \in DOMAIN commands |->
       IF i \in lapsed /\ commands[i].status \in {"queued", "accepted"}
       THEN [commands[i] EXCEPT !.status = "expired"] ELSE commands[i]]
  /\ wire' = IF linked THEN Pending ELSE <<>>
  /\ sess' = Idle
  /\ UNCHANGED <<cloudVars, push, linked, lapsed, boxVars, page, faults>>

\* The read fails: nothing is sent until the next one.
PendingFails ==
  /\ sess.at = "read"
  /\ sess' = Idle /\ ConnectionBreaks
  /\ UNCHANGED <<cloudVars, push, linked, wire, commands, lapsed, boxVars>>

\* The link is lost; the goroutine finds out when it is done.
LinkLost ==
  /\ linked /\ ConnectionBreaks
  /\ linked' = FALSE /\ wire' = <<>>
  /\ UNCHANGED <<cloudVars, push, sess, commands, lapsed, boxVars>>

-----------------------------------------------------------------------------
(* The device.                                                               *)

\* It applies what it is sent, or reports that it cannot. A command it knows it
\* only acknowledges. Its receipt is recorded, or lost with the link.
DeviceReceives ==
  /\ wire # <<>>
  /\ LET i == Head(wire) IN
     /\ IF \E d \in done : d.cmd = i THEN UNCHANGED boxVars
        ELSE \E end \in {"succeeded", "failed"} :
               /\ done' = done \cup {[cmd |-> i, end |-> end]}
               /\ results' = results \cup {i}
               /\ held' = IF end = "failed" THEN held
                          ELSE [set |-> commands[i].key.set, version |-> commands[i].key.version]
     /\ \/ /\ commands' = [commands EXCEPT ![i] =
                IF @.status = "queued" THEN [@ EXCEPT !.status = "accepted", !.accepted = TRUE] ELSE @]
           /\ wire' = Tail(wire) /\ UNCHANGED <<linked, page, faults>>
        \/ wire' = <<>> /\ linked' = FALSE /\ ConnectionBreaks /\ UNCHANGED commands
  /\ UNCHANGED <<cloudVars, push, sess, lapsed>>

\* RecordResult: the verdict, or a late answer beside the expiry.
RecordResult(d) ==
  /\ linked /\ d.cmd \in results
  /\ commands' = [commands EXCEPT ![d.cmd] =
       IF @.status = "expired" THEN [@ EXCEPT !.late = TRUE] ELSE [@ EXCEPT !.status = d.end]]
  /\ results' = results \ {d.cmd}
  /\ UNCHANGED <<cloudVars, push, sess, linked, wire, lapsed, held, done, page, faults>>

\* expires_at passes, which matters to a command that is not over. Neither a
\* request nor a pending read takes that long.
Lapse(i) ==
  /\ i \in DOMAIN commands \ lapsed /\ commands[i].status \in {"queued", "accepted"}
  /\ Cardinality(lapsed) < MaxLapses
  /\ sess = Idle /\ \A h \in Requests : push[h] = Idle
  /\ lapsed' = lapsed \cup {i}
  /\ UNCHANGED <<cloudVars, push, sess, linked, wire, commands, boxVars, page, faults>>

-----------------------------------------------------------------------------
SyncInit ==
  /\ policyTable = Nobody /\ second = 0 /\ saved = 0
  /\ push = [h \in Requests |-> Idle] /\ sess = Idle /\ linked = FALSE /\ wire = <<>>
  /\ commands = <<>> /\ lapsed = {}
  /\ held = [set |-> Nobody, version |-> NoVersion]
  /\ results = {} /\ done = {}

RequestStep == \E h \in Requests : PushLists(h) \/ PushVersions(h) \/ PushEnqueues(h)
SessionStep ==
  \/ ReconcileVersions \/ ReconcileLists \/ ReconcileEnqueues
  \/ RedeliverReads \/ Revive \/ ReadsPending

SyncNext ==
  \/ \E h \in Requests, c \in SyncCards, says \in Contents \cup {NoPolicy} : SavePolicy(h, c, says)
  \/ RequestStep \/ \E h \in Requests : PushFails(h)
  \/ Resume \/ SessionStep \/ ReconcileFails \/ PendingFails \/ CheckPending \/ LinkLost
  \/ DeviceReceives \/ \E d \in done : RecordResult(d)
  \/ \E i \in DOMAIN commands : Lapse(i)

syncSpecVars == <<syncVars, page, faults>>

SyncSpec == page = "push" /\ faults = 0 /\ SyncInit /\ [][SyncNext]_syncSpecVars

\* Requests and the session go on, the device redials, keeps talking (so that
\* what is pending is read again and again) and delivers what it has.
SyncFairness ==
  /\ WF_syncSpecVars(page = "push" /\ RequestStep)
  /\ WF_syncSpecVars(page = "push" /\ SessionStep)
  /\ WF_syncSpecVars(page = "push" /\ Resume)
  /\ SF_syncSpecVars(page = "push" /\ CheckPending)
  /\ WF_syncSpecVars(page = "push" /\ DeviceReceives)
  /\ WF_syncSpecVars(page = "push" /\ \E d \in done : RecordResult(d))

-----------------------------------------------------------------------------
(* Properties.                                                               *)

\* One intent is at most MaxDeliveries commands, however many saves, reconnects
\* and pending reads repeat it, and no attempt at it is queued twice
\* (CardPolicyKey, cardPolicyRevivalKey, planCardPolicyRedelivery).
DeliveriesBounded ==
  \A i, j \in DOMAIN commands :
    /\ commands[i].key.attempt < MaxDeliveries
    /\ commands[i].key = commands[j].key => i = j

\* Two commands of one intent are never deliverable at once: the device is not
\* sent the same set twice over (planCardPolicyRedelivery, "it is still
\* deliverable").
OneLivePerIntent ==
  \A i, j \in DOMAIN commands :
    Deliverable(i) /\ Deliverable(j) /\ Intent(commands[i].key) = Intent(commands[j].key) => i = j

\* The device enforces the newest of the sets it was able to apply, whatever
\* was lost, sent again or queued again: an older push never undoes a newer one
\* (ORDER BY issued_at in PendingForDevice).
NewestAppliedHeld ==
  \A d \in done :
    /\ d.end = "succeeded"
    /\ \A e \in done : e.cmd > d.cmd => e.end # "succeeded"
    => held = [set |-> commands[d.cmd].key.set, version |-> commands[d.cmd].key.version]

\* The newest push does not stay with the cloud: over and over the device has it,
\* or its budget is spent. One that lapses before the device talks is queued
\* again (redeliverCardPolicy before every pending read).
UntakenIsRepeated ==
  LET n == Len(commands)
      taken == \E d \in done : d.cmd = n
      spent == n \in lapsed /\ cardPolicyAttempts(commands[n].key) >= MaxDeliveries
  IN []<>(n > 0 => taken \/ spent)

\* Once a device has taken everything it was sent, it enforces the tenant's set
\* (reconcileCardPolicies: "re-sends the tenant's policy set to a device holding
\* a different one").
TakenAllHoldsTheSet ==
  /\ linked /\ sess = Idle /\ wire = <<>> /\ \A h \in Requests : push[h] = Idle
  /\ \A i \in DOMAIN commands : commands[i].status = "succeeded"
  /\ List # Nobody
  => held.set = List

\* Repeating a push is bounded: an intent has at most MaxDeliveries commands and
\* never two that the device could be sent (planCardPolicyRedelivery and the keys).
RepeatsBounded == DeliveriesBounded /\ OneLivePerIntent
=============================================================================
