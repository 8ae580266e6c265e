---------------------------- MODULE CommandQueue ----------------------------
(***************************************************************************)
(* The queue of commands to one device, as their delivery sees it: where   *)
(* each command stands in app.commands, what the session has read of the   *)
(* queue and put on the socket, and what the device made of it             *)
(* (internal/commands/lifecycle.go, internal/wss/serve.go).  Verdicts,     *)
(* messages and the journal are left to CommandLifecycle, which implements *)
(* this specification: what is left is small enough to check with commands *)
(* that wait for each other's turn.  The device is external.               *)
(***************************************************************************)
EXTENDS Naturals, FiniteSets

CONSTANTS
    MaxQueued,    \* bound: how many commands are ever issued
    ReadLimit     \* LIMIT of the pending read (32 in the code)

ASSUME QueueAssumption == MaxQueued \in Nat /\ ReadLimit \in Nat \ {0}

Line == 1 .. MaxQueued

VARIABLES
    stage,        \* app.commands.status: none, queued, accepted or over
    overdue,      \* commands whose expires_at has passed
    talk,         \* the device's session: down, resume, loop or deliver
    reading,      \* what the session read and has not sent yet
    sent,         \* CommandDeliver frames on the socket
    replies,      \* CommandReceipt frames on the socket
    executed,     \* commands the device has executed
    putOff        \* commands whose retry_later the gateway could not store

socket == <<sent, replies>>
queueVars == <<stage, overdue, talk, reading, socket, executed, putOff>>

QueueInit ==
    /\ stage = [c \in Line |-> "none"] /\ overdue = {}
    /\ talk = "down" /\ reading = {} /\ sent = {} /\ replies = {}
    /\ executed = {} /\ putOff = {}

Undecided == {"queued", "accepted"}

-----------------------------------------------------------------------------
\* app.enqueue_command.
Issue(c) ==
    /\ stage[c] = "none" /\ \A d \in 1 .. (c - 1) : stage[d] # "none"
    /\ stage' = [stage EXCEPT ![c] = "queued"]
    /\ UNCHANGED <<overdue, talk, reading, socket, executed, putOff>>

\* expires_at passes.
FallDue(c) ==
    /\ stage[c] # "none" /\ c \notin overdue
    /\ overdue' = overdue \union {c}
    /\ UNCHANGED <<stage, talk, reading, socket, executed, putOff>>

\* app.expire_overdue_commands.
Retired == [c \in Line |-> IF c \in overdue /\ stage[c] \in Undecided THEN "over" ELSE stage[c]]

\* The housekeeping pass.
RetireOverdue ==
    /\ stage' = Retired
    /\ UNCHANGED <<overdue, talk, reading, socket, executed, putOff>>

\* A CommandResult is applied, by whichever goroutine holds it.
Settle(c) ==
    /\ c \in executed /\ stage[c] \in Undecided
    /\ stage' = [stage EXCEPT ![c] = "over"]
    /\ UNCHANGED <<overdue, talk, reading, socket, executed, putOff>>

-----------------------------------------------------------------------------
Redial ==
    /\ talk = "down"
    /\ talk' = "resume"
    /\ UNCHANGED <<stage, overdue, reading, socket, executed, putOff>>

\* The pending read: the ReadLimit oldest commands queued and not overdue.
FirstInLine ==
    LET due == {c \in Line : stage[c] = "queued" /\ c \notin overdue}
    IN  {c \in due : Cardinality({d \in due : d < c}) < ReadLimit}

\* Slip: the queue is only read at Resume.
ReadQueueAtResume ==
    /\ talk = "resume"
    /\ stage' = Retired
    /\ reading' = FirstInLine
    /\ talk' = IF FirstInLine = {} THEN "loop" ELSE "deliver"
    /\ UNCHANGED <<overdue, socket, executed, putOff>>

\* PendingForDevice, at Resume and then off any inbound traffic.
ReadQueue ==
    /\ talk \in {"resume", "loop"}
    /\ stage' = Retired
    /\ reading' = FirstInLine
    /\ talk' = IF FirstInLine = {} THEN "loop" ELSE "deliver"
    /\ UNCHANGED <<overdue, socket, executed, putOff>>

\* The read fails, which is only logged.
ReadQueueFails ==
    /\ talk = "resume"
    /\ talk' = "loop"
    /\ UNCHANGED <<stage, overdue, reading, socket, executed, putOff>>

\* deliverPending: one frame, the oldest command first.
DeliverNext ==
    /\ talk = "deliver"
    /\ \E c \in reading :
       /\ \A d \in reading : c <= d
       /\ sent' = sent \union {c}
       /\ reading' = reading \ {c}
       /\ talk' = IF reading = {c} THEN "loop" ELSE "deliver"
    /\ UNCHANGED <<stage, overdue, replies, executed, putOff>>

\* A delivery arrives: executed now, put off, or recognised.
Handle(c) ==
    /\ c \in sent
    /\ sent' = sent \ {c}
    /\ \/ /\ executed' = executed \union {c}
          /\ replies' = replies \union {<<c, IF c \in executed THEN "duplicate" ELSE "accepted">>}
       \/ /\ c \notin executed /\ executed' = executed
          /\ replies' = replies \union {<<c, "retry_later">>}
    /\ UNCHANGED <<stage, overdue, talk, reading, putOff>>

HangUp == talk' = "down" /\ reading' = {} /\ sent' = {} /\ replies' = {}

\* RecordReceipt: accepted and duplicate both take the command off the queue; a
\* retry_later violates command_receipts_retry_at_shape and ends the session.
TakeReply(c) ==
    /\ talk = "loop"
    /\ \/ \E k \in {"accepted", "duplicate"} :
          /\ <<c, k>> \in replies
          /\ replies' = replies \ {<<c, k>>}
          /\ stage' = [stage EXCEPT ![c] = IF @ = "queued" THEN "accepted" ELSE @]
          /\ UNCHANGED <<talk, reading, sent, putOff>>
       \/ /\ <<c, "retry_later">> \in replies
          /\ putOff' = putOff \union {c}
          /\ HangUp
          /\ stage' = stage
    /\ UNCHANGED <<overdue, executed>>

\* The socket or the gateway is lost, and what was on the way with it.
SocketLost ==
    /\ talk # "down"
    /\ HangUp
    /\ UNCHANGED <<stage, overdue, executed, putOff>>

-----------------------------------------------------------------------------
QueueFault == ReadQueueFails \/ SocketLost

QueueStep ==
    \/ RetireOverdue \/ Redial \/ ReadQueue \/ DeliverNext
    \/ \E c \in Line : Issue(c) \/ FallDue(c) \/ Settle(c) \/ Handle(c) \/ TakeReply(c)

QueueNext == QueueStep \/ QueueFault

QueueSpec == QueueInit /\ [][QueueNext]_queueVars

QueueType ==
    /\ stage \in [Line -> {"none", "queued", "accepted", "over"}] /\ overdue \subseteq Line
    /\ talk \in {"down", "resume", "loop", "deliver"} /\ reading \subseteq Line
    /\ sent \subseteq Line /\ replies \subseteq Line \X {"accepted", "duplicate", "retry_later"}
    /\ executed \subseteq Line /\ putOff \subseteq Line

\* The device put command d off, and it is still in line: the pending read's
\* LIMIT lets it hold up the commands behind it.
Holding(d) == stage[d] = "queued" /\ d \notin overdue /\ d \in putOff

\* A queued command reaches the device, though it waits behind others for its
\* turn in the pending read: deliveries, receipts and sessions that are lost
\* only delay it, and a command executed by the device whose receipt was lost
\* makes way in the end. What stops it is its own deadline, or a command no
\* younger than it that the device puts off, for as long as that one is queued
\* (PendingForDevice, deliverPending, RecordReceipt).
QueuedReachesDevice ==
    \A c \in Line : stage[c] = "queued" ~>
        c \in executed \/ c \in overdue \/ \E d \in 1 .. c : Holding(d)
=============================================================================
