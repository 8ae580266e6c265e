------------------------------ MODULE SendQuota -------------------------------
(***************************************************************************)
(* The hourly send limit (cmd/gateway/main.go, sendAllowed). A sender, a   *)
(* console request or the scheduler, counts the messages of the last hour, *)
(* queues its command and records its message, each in a transaction of    *)
(* its own. What is counted is messages, what the limit is about commands: *)
(* senders overtake one another, a message may not be recorded, an         *)
(* operator may delete it, and a count that fails lets the send through.   *)
(***************************************************************************)
EXTENDS Naturals, FiniteSets

CONSTANTS
  Senders,       \* requests and scheduler runs under way at once
  HourlyLimit,   \* settings.hourly_limit
  Hour,          \* the window, in units of the model's time
  MaxTime,       \* bound
  MaxTexts,      \* bound: messages in all
  MaxMisses      \* bound: failures and deletions

ASSUME QuotaAssumption ==
  /\ IsFiniteSet(Senders)
  /\ HourlyLimit \in Nat \ {0} /\ Hour \in Nat \ {0}
  /\ MaxTime \in Nat /\ MaxTexts \in Nat /\ MaxMisses \in Nat

VARIABLES
  time,
  sender,     \* per sender: what it does next, and the text it has queued
  queued,     \* the commands: a number, and when it was queued
  messages,   \* the outbound rows of app.messages: a number, and created_at
  misses      \* failed counts, messages not recorded, messages deleted

quotaVars == <<time, sender, queued, messages, misses>>

Free == [at |-> "free", text |-> 0]
Missed == misses < MaxMisses /\ misses' = misses + 1

\* CountOutboundSince: an hour back, the moment itself included.
CountOutboundSince(since) == Cardinality({m \in messages : m.at >= since})
Since == IF time >= Hour THEN time - Hour ELSE 0

\* Slip: one more than the limit.
AllowedAtLimit == CountOutboundSince(Since) <= HourlyLimit

sendAllowed == CountOutboundSince(Since) < HourlyLimit

\* A sender asks. A count that fails allows the send; a refusal ends it.
Ask(s) ==
  /\ sender[s] = Free
  /\ \/ sendAllowed /\ UNCHANGED misses
     \/ ~sendAllowed /\ Missed
  /\ sender' = [sender EXCEPT ![s].at = "queue"]
  /\ UNCHANGED <<time, queued, messages>>

\* The command commits, or the sender gives up.
Queue(s) ==
  /\ sender[s].at = "queue"
  /\ \/ /\ Cardinality(queued) < MaxTexts
        /\ LET n == Cardinality(queued) + 1 IN
           /\ queued' = queued \cup {[text |-> n, at |-> time]}
           /\ sender' = [sender EXCEPT ![s] = [at |-> "record", text |-> n]]
     \/ sender' = [sender EXCEPT ![s] = Free] /\ UNCHANGED queued
  /\ UNCHANGED <<time, messages, misses>>

\* RecordOutbound, or the mirror of a scheduled send; a failure is logged.
Record(s) ==
  /\ sender[s].at = "record"
  /\ sender' = [sender EXCEPT ![s] = Free]
  /\ \/ messages' = messages \cup {[text |-> sender[s].text, at |-> time]} /\ UNCHANGED misses
     \/ UNCHANGED messages /\ Missed
  /\ UNCHANGED <<time, queued>>

\* DeleteMessage, and DeleteThread a row at a time.
DeleteMessage(m) ==
  /\ messages' = messages \ {m} /\ Missed
  /\ UNCHANGED <<time, sender, queued>>

Pass == time < MaxTime /\ time' = time + 1 /\ UNCHANGED <<sender, queued, messages, misses>>

QuotaInit ==
  /\ time = 0 /\ sender = [s \in Senders |-> Free]
  /\ queued = {} /\ messages = {} /\ misses = 0

QuotaNext ==
  \/ \E s \in Senders : Ask(s) \/ Queue(s) \/ Record(s)
  \/ \E m \in messages : DeleteMessage(m)
  \/ Pass

QuotaSpec == QuotaInit /\ [][QuotaNext]_quotaVars

-----------------------------------------------------------------------------
\* In no hour are more texts queued than the limit, the other senders under way
\* and what the count missed: however requests, scheduler runs and deletions
\* interleave, one sender is at most one text over, and a slow one does not let
\* a second hour's worth through (sendAllowed, CountOutboundSince).
QuotaHolds ==
  \A t \in 0 .. MaxTime :
    Cardinality({q \in queued : q.at <= t /\ t <= q.at + Hour})
      <= HourlyLimit + Cardinality(Senders) - 1 + misses
=============================================================================
