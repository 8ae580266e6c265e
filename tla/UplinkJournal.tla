--------------------------- MODULE UplinkJournal ---------------------------
(***************************************************************************)
(* One device's sequenced uplink, end to end: the edge agent's durable     *)
(* outbox (external: known only through what the gateway tells it and      *)
(* expects of it), the connections it opens, the gateway goroutines that   *)
(* serve them (internal/wss/serve.go, ServeDevice), the session hub they   *)
(* share (internal/session/hub.go), the PostgreSQL journal they write      *)
(* (app.accept_ingress, app.record_unstorable_ingress, app.ingress_window) *)
(* and the retention pass that deletes from it (app.prune_ingress).        *)
(*                                                                         *)
(* Several goroutines can serve the same device at once: a session that a  *)
(* newer Resume superseded runs on until it next touches the hub or its    *)
(* closed socket.  A transaction is one action; what happens between two   *)
(* calls of a goroutine is not.                                            *)
(***************************************************************************)
EXTENDS IngressWindow

CONSTANTS
    MaxSeq,       \* bound: how many records the device ever produces
    Conns,        \* connection ids; an id is free again once its session is over
    NoConn,
    Pruners,      \* concurrent callers of app.prune_ingress (one per gateway)
    Classes,      \* the records a device may produce: [kind, fault]
    MaxInFlight,  \* bound: frames buffered on one connection, each way
    PruneLimit,   \* p_limit of app.prune_ingress
    MaxFaults,    \* bound: failures the environment causes
    InOrder       \* TRUE: the device sends in ascending sequence order

\* Where a record's fault shows: nowhere; before the INSERT; in the projection
\* that follows it; or in its envelope id, which no INSERT can take.
Faults == {"none", "early", "late", "id"}

ASSUME ConstAssumption ==
    /\ MaxSeq \in Nat
    /\ MaxInFlight \in Nat
    /\ PruneLimit \in Nat \ {0}
    /\ MaxFaults \in Nat
    /\ NoConn \notin Conns
    /\ InOrder \in BOOLEAN
    /\ \A r \in Classes : r.fault \in Faults

Seqs == 1 .. MaxSeq
Marks == 0 .. MaxSeq

VARIABLES
    \* the edge agent
    rec, nextSeq, outbox, cur, link, cursor,
    \* the sockets: frames to the gateway, acknowledgements to the device
    up, down, open,
    \* one ServeDevice goroutine per connection
    pc, job, status, win,
    \* session.Hub, and what it handed back to be closed: to a goroutine that
    \* bound in another's place, and to the reaper
    byDevice, byID, prev, reaped,
    \* PostgreSQL: app.ingress, received_at, app.ingress_pruned
    rows, aged, mark,
    \* app.prune_ingress in progress
    ppc, base, fresh, ceiling,
    \* what has happened: effects of a stored record, refused replays, faults
    projected, handled, settled, conflicts, faults

edge == <<rec, nextSeq, outbox, cur, link, cursor>>
net == <<up, down, open>>
session == <<pc, job, status, win>>
hub == <<byDevice, byID, prev, reaped>>
db == <<rows, aged, mark>>
prune == <<ppc, base, fresh, ceiling>>
history == <<projected, handled, settled, conflicts>>
vars == <<edge, net, session, hub, db, prune, history, faults>>

PcStates == {"off", "resume", "supersede", "snapshot", "resumeAck", "read", "accept", "tombstone",
             "window", "dropAck", "ack", "result", "after", "closing"}

Produced == 1 .. (nextSeq - 1)
Present == {s \in Seqs : rows[s] # "none"}
CommittedThrough == SqlCommitted(mark, Present)
DeviceState(s) == rec[s].kind = "DeviceState"

Init ==
    /\ rec \in [Seqs -> Classes]
    /\ nextSeq = 1 /\ outbox = {} /\ cur = NoConn /\ link = "down" /\ cursor = 0
    /\ up = [c \in Conns |-> <<>>] /\ down = [c \in Conns |-> <<>>]
    /\ open = {}
    /\ pc = [c \in Conns |-> "off"] /\ job = [c \in Conns |-> 0]
    /\ status = [c \in Conns |-> "none"] /\ win = [c \in Conns |-> 0]
    /\ byDevice = NoConn /\ byID = {} /\ prev = [c \in Conns |-> NoConn] /\ reaped = {}
    /\ rows = [s \in Seqs |-> "none"] /\ aged = {} /\ mark = 0
    /\ ppc = [p \in Pruners |-> "idle"] /\ base = [p \in Pruners |-> 0]
    /\ fresh = [p \in Pruners |-> 0] /\ ceiling = [p \in Pruners |-> 0]
    /\ projected = [s \in Seqs |-> 0] /\ handled = [s \in Seqs |-> 0]
    /\ settled = {} /\ conflicts = {}
    /\ faults = 0

-----------------------------------------------------------------------------
(* The edge agent (external).                                              *)

Produce ==
    /\ nextSeq <= MaxSeq
    /\ outbox' = outbox \union {nextSeq}
    /\ nextSeq' = nextSeq + 1
    /\ UNCHANGED <<rec, cur, link, cursor, net, session, hub, db, prune, history, faults>>

\* Taken out of the hub, its socket not closed yet.
BeingClosed(c) == c \in reaped \/ \E d \in Conns : prev[d] = c

\* A new connection, up to and including the Resume frame it starts with.
Dial(c) ==
    /\ cur = NoConn /\ pc[c] = "off" /\ ~BeingClosed(c)
    /\ cur' = c /\ link' = "resuming" /\ cursor' = 0
    /\ open' = open \union {c}
    /\ up' = [up EXCEPT ![c] = <<>>] /\ down' = [down EXCEPT ![c] = <<>>]
    /\ pc' = [pc EXCEPT ![c] = "resume"]
    /\ UNCHANGED <<rec, nextSeq, outbox, job, status, win, hub, db, prune, history, faults>>

\* The device sends a record it still holds, on a resumed connection.
Send(s) ==
    /\ cur # NoConn /\ link = "up" /\ cur \in open
    /\ s \in outbox
    /\ Len(up[cur]) < MaxInFlight
    /\ \A i \in 1 .. Len(up[cur]) : up[cur][i] # s
    /\ InOrder => /\ s > cursor
                  /\ \A t \in outbox : t > cursor => s <= t
    /\ up' = [up EXCEPT ![cur] = Append(@, s)]
    /\ cursor' = IF InOrder THEN s ELSE cursor
    /\ UNCHANGED <<rec, nextSeq, outbox, cur, link, down, open,
                   session, hub, db, prune, history, faults>>

\* Everything was sent and some of it is still not covered: the device starts
\* over from its oldest record.
Replay ==
    /\ InOrder /\ cur # NoConn /\ link = "up" /\ cursor # 0
    /\ outbox # {} /\ \A t \in outbox : t <= cursor
    /\ cursor' = 0
    /\ UNCHANGED <<rec, nextSeq, outbox, cur, link, net, session, hub, db, prune, history, faults>>

\* ResumeAck or UplinkAck: the device drops every record the committed prefix
\* covers.
ReceiveAck ==
    /\ cur # NoConn /\ down[cur] # <<>>
    /\ outbox' = {s \in outbox : s > Head(down[cur])}
    /\ down' = [down EXCEPT ![cur] = Tail(@)]
    /\ link' = "up"
    /\ UNCHANGED <<rec, nextSeq, cur, cursor, up, open, session, hub, db, prune, history, faults>>

\* The device gives the connection up.  Frames already sent stay readable on
\* the gateway's side.
Abandon ==
    /\ cur # NoConn
    /\ \/ cur \notin open /\ faults' = faults
       \/ faults < MaxFaults /\ faults' = faults + 1
    /\ cur' = NoConn /\ link' = "down"
    /\ down' = [down EXCEPT ![cur] = <<>>]
    /\ UNCHANGED <<rec, nextSeq, outbox, cursor, up, open, session, hub, db, prune, history>>

-----------------------------------------------------------------------------
(* session.Hub.                                                            *)

\* Touch and Unbind both ask whether this connection is still the binding.
IsBound(c) == c \in byID /\ byDevice = c

\* Slip: the deferred Unbind does not ask whether it is still the binding.
UnbindAnyway(c) == byDevice' = NoConn /\ byID' = byID \ {c} /\ UNCHANGED <<prev, reaped>>

\* The connection this one replaces is returned for the caller to close.
Bind(c) ==
    /\ byDevice' = c
    /\ byID' = (byID \ {byDevice}) \union {c}
    /\ prev' = [prev EXCEPT ![c] = byDevice]

Unbind(c) ==
    IF IsBound(c)
    THEN byDevice' = NoConn /\ byID' = byID \ {c} /\ UNCHANGED <<prev, reaped>>
    ELSE UNCHANGED hub

\* SweepIdle from reapIdleSessions: a bound session that went silent is unbound;
\* the reaper closes its socket afterwards.
SweepIdle(c) ==
    /\ byDevice = c /\ faults < MaxFaults
    /\ faults' = faults + 1
    /\ byDevice' = NoConn /\ byID' = byID \ {c} /\ reaped' = reaped \union {c}
    /\ UNCHANGED <<edge, net, session, prev, db, prune, history>>

ReaperCloses(c) ==
    /\ c \in reaped
    /\ reaped' = reaped \ {c}
    /\ open' = open \ {c}
    /\ UNCHANGED <<edge, up, down, session, byDevice, byID, prev, db, prune, history, faults>>

Reap(c) == SweepIdle(c) \/ ReaperCloses(c)

-----------------------------------------------------------------------------
(* ServeDevice.                                                            *)

Goto(c, label) == pc' = [pc EXCEPT ![c] = label]

\* The locals of one turn of the loop go out of scope.
EndIteration(c) ==
    /\ job' = [job EXCEPT ![c] = 0]
    /\ status' = [status EXCEPT ![c] = "none"]

\* Every early return of ServeDevice.  The deferred Unbind and Close run later.
End(c) == Goto(c, "closing") /\ EndIteration(c) /\ win' = [win EXCEPT ![c] = 0]

\* The Resume envelope: Bind replaces the previous connection in the hub.
HandleResume(c) ==
    /\ pc[c] = "resume" /\ c \in open
    /\ Bind(c) /\ reaped' = reaped
    /\ Goto(c, IF byDevice = NoConn THEN "snapshot" ELSE "supersede")
    /\ UNCHANGED <<edge, net, job, status, win, db, prune, history, faults>>

\* previous.Close(): its goroutine finds out at its next read or write.
CloseSuperseded(c) ==
    /\ pc[c] = "supersede"
    /\ open' = open \ {prev[c]}
    /\ prev' = [prev EXCEPT ![c] = NoConn]
    /\ Goto(c, "snapshot")
    /\ UNCHANGED <<edge, up, down, job, status, win, byDevice, byID, reaped,
                   db, prune, history, faults>>

\* Slip: the highest sequence stored instead of the contiguous prefix.
SnapshotHighest(c) ==
    /\ win' = [win EXCEPT ![c] = LastOr(mark, Present)]
    /\ UNCHANGED <<edge, net, job, status, hub, db, prune, history, faults>>

Snapshot(c) ==
    /\ win' = [win EXCEPT ![c] = CommittedThrough]
    /\ UNCHANGED <<edge, net, job, status, hub, db, prune, history, faults>>

ResumeSnapshot(c) == pc[c] = "snapshot" /\ Snapshot(c) /\ Goto(c, "resumeAck")

\* writeEnvelope of a ResumeAck or UplinkAck; on a closed socket it fails.
\* What is written to a socket the device has abandoned is never read.
WriteEnvelope(c) ==
    /\ c \in open
    /\ \/ /\ cur = c /\ Len(down[c]) < MaxInFlight
          /\ down' = [down EXCEPT ![c] = Append(@, win[c])]
       \/ cur # c /\ down' = down
    /\ win' = [win EXCEPT ![c] = 0]

WriteFails(c) == c \notin open /\ down' = down /\ End(c)

WriteResumeAck(c) ==
    /\ pc[c] = "resumeAck"
    /\ \/ WriteEnvelope(c) /\ Goto(c, "read") /\ UNCHANGED <<job, status>>
       \/ WriteFails(c)
    /\ UNCHANGED <<edge, up, open, hub, db, prune, history, faults>>

WriteUplinkAck(c) ==
    /\ pc[c] = "ack"
    /\ \/ WriteEnvelope(c) /\ Goto(c, "result") /\ UNCHANGED <<job, status>>
       \/ WriteFails(c)
    /\ UNCHANGED <<edge, up, open, hub, db, prune, history, faults>>

WriteDropAck(c) ==
    /\ pc[c] = "dropAck"
    /\ \/ WriteEnvelope(c) /\ Goto(c, "read") /\ EndIteration(c)
       \/ WriteFails(c)
    /\ UNCHANGED <<edge, up, open, hub, db, prune, history, faults>>

\* readEnvelope, then Hub.Touch.  A superseded or swept session ends here.
ReadFrame(c) ==
    /\ pc[c] = "read"
    /\ \/ /\ c \in open /\ up[c] # <<>>
          /\ up' = [up EXCEPT ![c] = Tail(@)]
          /\ IF IsBound(c)
             THEN /\ Goto(c, "accept")
                  /\ job' = [job EXCEPT ![c] = Head(up[c])]
                  /\ UNCHANGED <<status, win>>
             ELSE End(c)
       \/ c \notin open /\ up' = up /\ End(c)
    /\ UNCHANGED <<edge, down, open, hub, db, prune, history, faults>>

\* app.accept_ingress for a record that PostgreSQL refuses: the transaction
\* leaves nothing behind.  A fault in the projection is only reached by a
\* record that was really inserted.
Unstorable(s) ==
    \/ rec[s].fault \in {"early", "id"}
    \/ rec[s].fault = "late" /\ rows[s] = "none"

RejectMalformed(c) ==
    /\ Unstorable(job[c])
    /\ Goto(c, "tombstone")
    /\ UNCHANGED <<job, status, win, rows, projected, conflicts>>

\* The row in place differs from the record offered: a tombstone against a
\* record whose fault shows only after the INSERT.  The session ends.
RejectConflict(c) ==
    /\ ~Unstorable(job[c]) /\ rows[job[c]] = "tomb"
    /\ conflicts' = conflicts \union {job[c]}
    /\ End(c)
    /\ UNCHANGED <<rows, projected>>

\* Slip: a duplicate is projected again.
StoreReprojects(c) ==
    /\ ~Unstorable(job[c]) /\ rows[job[c]] # "tomb"
    /\ rows' = [rows EXCEPT ![job[c]] = "real"]
    /\ status' = [status EXCEPT ![c] = IF rows[job[c]] = "none" THEN "inserted" ELSE "duplicate"]
    /\ projected' = [projected EXCEPT ![job[c]] = @ + 1]
    /\ win' = [win EXCEPT ![c] = SqlCommitted(mark, Present \union {job[c]})]
    /\ Goto(c, "ack")
    /\ UNCHANGED <<job, conflicts>>

\* Inserted and projected, or found identical; the window is read in the same
\* transaction.
Store(c) ==
    /\ ~Unstorable(job[c]) /\ rows[job[c]] # "tomb"
    /\ rows' = [rows EXCEPT ![job[c]] = "real"]
    /\ LET new == rows[job[c]] = "none" IN
       /\ status' = [status EXCEPT ![c] = IF new THEN "inserted" ELSE "duplicate"]
       /\ projected' = [projected EXCEPT ![job[c]] = IF new THEN @ + 1 ELSE @]
    /\ win' = [win EXCEPT ![c] = SqlCommitted(mark, Present \union {job[c]})]
    /\ Goto(c, "ack")
    /\ UNCHANGED <<job, conflicts>>

Accept(c) ==
    /\ pc[c] = "accept"
    /\ RejectMalformed(c) \/ RejectConflict(c) \/ Store(c)
    /\ aged' = IF rows'[job[c]] # rows[job[c]] THEN aged \ {job[c]} ELSE aged
    /\ UNCHANGED <<edge, net, hub, mark, prune, handled, settled, faults>>

\* RecordUnstorable.  Its INSERT also needs a UUID; a failure is only logged.
TombstoneFails(c) ==
    /\ \/ rec[job[c]].fault = "id" /\ faults' = faults
       \/ rec[job[c]].fault # "id" /\ faults < MaxFaults /\ faults' = faults + 1
    /\ UNCHANGED db

\* Slip: a record that cannot be stored is dropped without a trace.
TombstoneSkipped(c) ==
    /\ rec[job[c]].fault # "id"
    /\ UNCHANGED <<db, faults>>

TombstoneWritten(c) ==
    /\ rec[job[c]].fault # "id"
    /\ rows' = [rows EXCEPT ![job[c]] = IF @ = "none" THEN "tomb" ELSE @]
    /\ aged' = IF rows[job[c]] = "none" THEN aged \ {job[c]} ELSE aged
    /\ UNCHANGED <<mark, faults>>

RecordUnstorable(c) ==
    /\ pc[c] = "tombstone"
    /\ TombstoneFails(c) \/ TombstoneWritten(c)
    /\ Goto(c, "window")
    /\ UNCHANGED <<edge, net, job, status, win, hub, prune, history>>

DropSnapshot(c) == pc[c] = "window" /\ Snapshot(c) /\ Goto(c, "dropAck")

\* After the acknowledgement: a command result settles its command whatever
\* the status was; OnAlert, AfterInsert and the event hint run only for a new
\* record.
RecordResult(c) ==
    /\ pc[c] = "result"
    /\ settled' = IF rec[job[c]].kind = "CommandResult" THEN settled \union {job[c]} ELSE settled
    /\ Goto(c, "after")
    /\ UNCHANGED <<edge, net, job, status, win, hub, db, prune, projected, handled, conflicts, faults>>

AfterInsert(c) ==
    /\ pc[c] = "after"
    /\ handled' = [handled EXCEPT ![job[c]] = IF status[c] = "inserted" THEN @ + 1 ELSE @]
    /\ Goto(c, "read") /\ EndIteration(c)
    /\ UNCHANGED <<edge, net, win, hub, db, prune, projected, settled, conflicts, faults>>

\* A deadline, a transport error or a failed call ends the session anywhere.
Fail(c) ==
    /\ pc[c] \notin {"off", "supersede", "closing"}
    /\ faults < MaxFaults /\ faults' = faults + 1
    /\ End(c)
    /\ UNCHANGED <<edge, net, hub, db, prune, history>>

\* The handshake never completes on a socket that is gone.
ResumeDeadline(c) ==
    /\ pc[c] = "resume" /\ (c \notin open \/ cur # c)
    /\ End(c)
    /\ UNCHANGED <<edge, net, hub, db, prune, history, faults>>

\* The read deadline: the device has gone and everything it sent was read.
IdleTimeout(c) ==
    /\ pc[c] = "read" /\ cur # c /\ up[c] = <<>>
    /\ End(c)
    /\ UNCHANGED <<edge, net, hub, db, prune, history, faults>>

\* The deferred function of ServeDevice.
Cleanup(c) ==
    /\ pc[c] = "closing"
    /\ Unbind(c)
    /\ open' = open \ {c}
    /\ up' = [up EXCEPT ![c] = <<>>]
    /\ Goto(c, "off")
    /\ UNCHANGED <<edge, down, job, status, win, db, prune, history, faults>>

\* The gateway process dies: every goroutine, socket and hub entry with it.
Crash ==
    /\ faults < MaxFaults /\ faults' = faults + 1
    /\ pc' = [c \in Conns |-> "off"]
    /\ open' = {}
    /\ up' = [c \in Conns |-> <<>>]
    /\ byDevice' = NoConn /\ byID' = {} /\ prev' = [c \in Conns |-> NoConn] /\ reaped' = {}
    /\ ppc' = [p \in Pruners |-> "idle"]
    /\ job' = [c \in Conns |-> 0] /\ status' = [c \in Conns |-> "none"]
    /\ win' = [c \in Conns |-> 0]
    /\ base' = [p \in Pruners |-> 0] /\ fresh' = [p \in Pruners |-> 0]
    /\ ceiling' = [p \in Pruners |-> 0]
    /\ UNCHANGED <<edge, down, db, history>>

-----------------------------------------------------------------------------
(* Retention.  app.prune_ingress runs READ COMMITTED: every statement sees *)
(* the journal as it is then; the DELETE and the mark commit together.     *)

InFlight(s) ==
    \E c \in Conns : \/ \E i \in 1 .. Len(up[c]) : up[c][i] = s
                     \/ pc[c] \in {"accept", "tombstone"} /\ job[c] = s

\* received_at falls out of the retention window (30 days).  No frame and no
\* connection with the record unacknowledged lives that long.
Age(s) ==
    /\ rows[s] # "none" /\ s \notin aged
    /\ ~InFlight(s) /\ (cur = NoConn \/ s \notin outbox)
    /\ aged' = aged \union {s}
    /\ UNCHANGED <<edge, net, session, hub, rows, mark, prune, history, faults>>

PruneStart(p) ==
    /\ ppc[p] = "idle"
    /\ base' = [base EXCEPT ![p] = mark]
    /\ ppc' = [ppc EXCEPT ![p] = "fresh"]
    /\ UNCHANGED <<edge, net, session, hub, db, fresh, ceiling, history, faults>>

\* v_fresh: the first row above the mark still inside the window; 0 is NULL.
PruneFresh(p) ==
    /\ ppc[p] = "fresh"
    /\ fresh' = [fresh EXCEPT ![p] =
                   FirstOr(0, {s \in Present : s > base[p] /\ s \notin aged})]
    /\ ppc' = [ppc EXCEPT ![p] = "ceiling"]
    /\ UNCHANGED <<edge, net, session, hub, db, base, ceiling, history, faults>>

AtMost(a, b) == IF a <= b THEN a ELSE b
AtLeast(a, b) == IF a >= b THEN a ELSE b

PruneCeiling(p) ==
    /\ ppc[p] = "ceiling"
    /\ LET top == IF fresh[p] = 0
                  THEN LastOr(base[p], {s \in Present : s > base[p]})
                  ELSE fresh[p] - 1
           ceil == AtMost(top, base[p] + PruneLimit)
       IN  /\ ceiling' = [ceiling EXCEPT ![p] = ceil]
           /\ ppc' = [ppc EXCEPT ![p] = IF ceil <= base[p] THEN "idle" ELSE "count"]
    /\ UNCHANGED <<edge, net, session, hub, db, base, fresh, history, faults>>

Between(b, t) == {s \in Present : b < s /\ s <= t}

\* Slip: the range is not checked for gaps.
PruneCountUnchecked(p) ==
    /\ ppc[p] = "count"
    /\ ppc' = [ppc EXCEPT ![p] = "delete"]
    /\ UNCHANGED <<edge, net, session, hub, db, base, fresh, ceiling, history, faults>>

\* v_present: a range with a gap goes through the lowering query first.
PruneCount(p) ==
    /\ ppc[p] = "count"
    /\ ppc' = [ppc EXCEPT ![p] =
                 IF Cardinality(Between(base[p], ceiling[p])) = ceiling[p] - base[p]
                 THEN "delete" ELSE "lower"]
    /\ UNCHANGED <<edge, net, session, hub, db, base, fresh, ceiling, history, faults>>

PruneLower(p) ==
    /\ ppc[p] = "lower"
    /\ LET ceil == SqlCommitted(base[p], Between(base[p], ceiling[p]))
       IN  /\ ceiling' = [ceiling EXCEPT ![p] = ceil]
           /\ ppc' = [ppc EXCEPT ![p] = IF ceil <= base[p] THEN "idle" ELSE "delete"]
    /\ UNCHANGED <<edge, net, session, hub, db, base, fresh, history, faults>>

\* DELETE of the aged DeviceState rows and the upsert of the mark.
Expired(p) ==
    {s \in Between(base[p], ceiling[p]) : rows[s] = "real" /\ DeviceState(s) /\ s \in aged}

\* Slip: the rows go and the mark stays.
PruneDeleteUnmarked(p) ==
    /\ ppc[p] = "delete"
    /\ rows' = [s \in Seqs |-> IF s \in Expired(p) THEN "none" ELSE rows[s]]
    /\ aged' = aged \ Expired(p)
    /\ mark' = mark
    /\ ppc' = [ppc EXCEPT ![p] = "idle"]
    /\ UNCHANGED <<edge, net, session, hub, base, fresh, ceiling, history, faults>>

PruneDelete(p) ==
    /\ ppc[p] = "delete"
    /\ rows' = [s \in Seqs |-> IF s \in Expired(p) THEN "none" ELSE rows[s]]
    /\ aged' = aged \ Expired(p)
    /\ mark' = AtLeast(mark, ceiling[p])
    /\ ppc' = [ppc EXCEPT ![p] = "idle"]
    /\ UNCHANGED <<edge, net, session, hub, base, fresh, ceiling, history, faults>>

-----------------------------------------------------------------------------
Edge ==
    \/ Produce \/ Replay \/ ReceiveAck \/ Abandon
    \/ \E c \in Conns : Dial(c)
    \/ \E s \in Seqs : Send(s)

ServeStep(c) ==
    \/ HandleResume(c) \/ CloseSuperseded(c) \/ ResumeSnapshot(c) \/ WriteResumeAck(c) \/ ReadFrame(c)
    \/ Accept(c) \/ WriteUplinkAck(c) \/ RecordResult(c) \/ AfterInsert(c)
    \/ RecordUnstorable(c) \/ DropSnapshot(c) \/ WriteDropAck(c)
    \/ ResumeDeadline(c) \/ IdleTimeout(c) \/ Cleanup(c)

PruneStep(p) ==
    PruneStart(p) \/ PruneFresh(p) \/ PruneCeiling(p) \/ PruneCount(p) \/ PruneLower(p) \/ PruneDelete(p)

Next ==
    \/ Edge
    \/ \E c \in Conns : ServeStep(c) \/ Fail(c) \/ Reap(c)
    \/ Crash
    \/ \E s \in Seqs : Age(s)
    \/ \E p \in Pruners : PruneStep(p)

Spec == Init /\ [][Next]_vars

\* The device redials, sends, replays and reads what it is sent; a goroutine
\* runs until it returns.  Nothing is promised about failures or retention.
Fairness ==
    /\ WF_vars(\E c \in Conns : Dial(c))
    /\ WF_vars(\E s \in Seqs : Send(s))
    /\ WF_vars(Replay)
    /\ WF_vars(ReceiveAck)
    /\ WF_vars(cur # NoConn /\ cur \notin open /\ Abandon)
    /\ \A c \in Conns : WF_vars(ServeStep(c)) /\ WF_vars(ReaperCloses(c))

FairSpec == Spec /\ Fairness
-----------------------------------------------------------------------------
(* Properties.                                                             *)

EdgeType ==
    /\ rec \in [Seqs -> Classes] /\ nextSeq \in 1 .. (MaxSeq + 1)
    /\ outbox \subseteq Produced /\ cur \in Conns \union {NoConn}
    /\ link \in {"down", "resuming", "up"} /\ cursor \in Marks

NetType ==
    /\ up \in [Conns -> Seq(Seqs)] /\ down \in [Conns -> Seq(Marks)]
    /\ open \subseteq Conns

SessionType ==
    /\ pc \in [Conns -> PcStates] /\ job \in [Conns -> Marks]
    /\ status \in [Conns -> {"none", "inserted", "duplicate"}]
    /\ win \in [Conns -> Marks]

HubType ==
    /\ byDevice \in Conns \union {NoConn} /\ byID \subseteq Conns
    /\ prev \in [Conns -> Conns \union {NoConn}] /\ reaped \subseteq Conns

DbType ==
    rows \in [Seqs -> {"none", "real", "tomb"}] /\ aged \subseteq Seqs /\ mark \in Marks

PruneType ==
    /\ ppc \in [Pruners -> {"idle", "fresh", "ceiling", "count", "lower", "delete"}]
    /\ base \in [Pruners -> Marks] /\ fresh \in [Pruners -> Marks]
    /\ ceiling \in [Pruners -> Marks]

HistoryType ==
    /\ projected \in [Seqs -> Nat] /\ handled \in [Seqs -> Nat]
    /\ settled \subseteq Seqs /\ conflicts \subseteq Seqs /\ faults \in Nat

TypeOK ==
    EdgeType /\ NetType /\ SessionType /\ HubType /\ DbType /\ PruneType /\ HistoryType

\* The cloud accounts for sequence s: it has a row, or retention passed it.
Covered(s) == rows[s] # "none" \/ s <= mark

\* No record is ever lost by both sides: a record the device has dropped on the
\* strength of an acknowledgement is still in the journal, as itself or as the
\* tombstone that says what was lost, unless retention deleted it, and then it
\* was a DeviceState at or below the mark (ServeDevice's ordering of Accept,
\* Snapshot and UplinkAck against app.prune_ingress).
NoRecordLost ==
    \A s \in Produced :
        \/ s \in outbox
        \/ rows[s] # "none"
        \/ s <= mark /\ DeviceState(s)

\* Every window a goroutine holds and every acknowledgement on the wire, fresh
\* or stale, claims only sequences the journal accounts for.
AcksTruthful ==
    \A c \in Conns :
        /\ \A s \in 1 .. win[c] : Covered(s)
        /\ \A i \in 1 .. Len(down[c]) : \A s \in 1 .. down[c][i] : Covered(s)

\* A retention pass that has checked its range and is about to delete still
\* holds a range the journal accounts for, whatever other passes and sessions
\* did between its statements; and the base it started from is never ahead of
\* the mark.
PruneRangeCovered ==
    \A p \in Pruners :
        /\ base[p] <= mark
        /\ ppc[p] = "delete" => \A s \in 1 .. ceiling[p] : Covered(s)

\* The mark never crosses a sequence that was never stored, nor hides a row of
\* a kind retention keeps (SmsReceived, CommandResult, Alert, tombstones).
MarkOverStored == \A s \in 1 .. mark : rows[s] # "none" \/ DeviceState(s)

\* Session.Hub: whatever order Bind, Unbind, SweepIdle and the zombies' cleanup
\* run in, the hub's two maps agree: at most one connection, and it is the one
\* bound to the device.
HubConsistent == byID = IF byDevice = NoConn THEN {} ELSE {byDevice}

\* A session that finished its Resume is the bound one, unless its socket is
\* closed or about to be: a superseded session's deferred Unbind never drops the
\* newer binding.
LiveSessionBound ==
    \A c \in Conns :
        c \in open /\ ~BeingClosed(c) /\ pc[c] \notin {"off", "resume", "closing"}
        => byDevice = c

\* The contiguous prefix the device is told never moves backwards: not when
\* retention deletes the rows it was counted from, not between two gateways
\* pruning at once, not on a crash.
PrefixNeverCollapses == [][CommittedThrough' >= CommittedThrough]_vars

\* Retention never deletes a row of a kind it must keep, and never rewrites one.
KeptRowsStay ==
    [][\A s \in Seqs : rows[s] # "none" /\ ~(rows[s] = "real" /\ DeviceState(s))
                       => rows'[s] = rows[s]]_vars

\* A record that retention cannot touch is projected once and announced (SSE,
\* AfterInsert, OnAlert) at most once, however often the device replays it.
ProjectedOnce ==
    \A s \in Seqs : ~DeviceState(s) => projected[s] <= 1 /\ handled[s] <= projected[s]

\* The only replay that ends a session as a sequence conflict is the replay of
\* a record already replaced by a tombstone.
ConflictOnlyOnTombstone == \A s \in conflicts : rows[s] = "tomb"

\* Every record the device holds is acknowledged in the end, once failures
\* stop: no storable or tombstoned record, and no conflict on a replay, stalls
\* the uplink for good.
EveryRecordReleased == \A s \in Seqs : s \in outbox ~> s \notin outbox

\* Nothing the cloud stores, marks or acknowledges was invented: no cursor it
\* gives out reaches past the last sequence the device allocated, which a
\* device refuses as a protocol error.
NothingInvented ==
    /\ \A s \in Seqs : Covered(s) => s < nextSeq
    /\ \A c \in Conns : win[c] < nextSeq /\ \A i \in 1 .. Len(down[c]) : down[c][i] < nextSeq

\* The sessions, the journal and the retention pass together implement the
\* custody protocol of DurableUplink.
Durable == INSTANCE DurableUplink WITH
    next <- nextSeq, held <- outbox, kept <- {s \in Seqs : Covered(s)}

ImplementsDurable == Durable!Spec

\* The parts of the inductive invariant that are not properties in their own
\* right: a goroutine working on a record has one, and what the device dropped
\* is accounted for.
JobPresent ==
    \A c \in Conns :
        pc[c] \in {"accept", "tombstone", "window", "dropAck", "ack", "result", "after"}
        => job[c] \in Seqs

DroppedCovered == \A s \in Produced : s \in outbox \/ Covered(s)

\* A frame on a socket, a record in a goroutine's hands and a row all come from
\* a sequence the device allocated.
Allocated ==
    /\ \A c \in Conns : /\ \A i \in 1 .. Len(up[c]) : up[c][i] < nextSeq
                        /\ job[c] < nextSeq
    /\ \A s \in Seqs : Covered(s) => s < nextSeq

\* What makes custody hold at every step, in whoever's hands a record is: every
\* window and acknowledgement claims only what the journal accounts for, what
\* the device dropped is accounted for, and retention deletes only below a
\* mark that crosses nothing it must not (ServeDevice, app.prune_ingress).
IndInv ==
    /\ TypeOK /\ JobPresent
    /\ AcksTruthful /\ DroppedCovered /\ MarkOverStored /\ PruneRangeCovered

\* The hub holds exactly the session that serves the device, and its two maps
\* agree on it (Bind, Touch, Unbind, SweepIdle).
HubSafe == HubConsistent /\ LiveSessionBound

\* A replayed record does no harm: its effects happen once, and unless it was
\* tombstoned it does not end the session (accept_ingress, handleSequenced).
ReplaysHarmless == ProjectedOnce /\ ConflictOnlyOnTombstone
=============================================================================
