------------------------ MODULE DurableUplink_proofs ------------------------
(***************************************************************************)
(* The uplink implements DurableUplink: every step of a device, a session, *)
(* a crash or a retention pass is a step of the custody protocol or none.  *)
(***************************************************************************)
EXTENDS UplinkJournal_proofs

\* What a step adds to the sequences the cloud accounts for: nothing, or the
\* one record a goroutine is working on.
LEMMA NewlyCovered ==
    ASSUME TypeOK, JobPresent, PruneRangeCovered, MarkOverStored, [Next]_vars
    PROVE  \/ \A s \in Seqs : Covered(s)' <=> Covered(s)
           \/ \E c \in Conns : /\ job[c] \in Seqs /\ UNCHANGED edge
                               /\ \A s \in Seqs : Covered(s)' <=> (Covered(s) \/ s = job[c])
<1> DEFINE Same == \A s \in Seqs : Covered(s)' <=> Covered(s)
           Added(c) == /\ job[c] \in Seqs /\ UNCHANGED edge
                       /\ \A s \in Seqs : Covered(s)' <=> (Covered(s) \/ s = job[c])
<1>0. /\ rows \in [Seqs -> {"none", "real", "tomb"}] /\ mark \in Marks
      /\ \A s \in Seqs : s \in Nat
      /\ \A m \in Marks : m \in Nat
  BY ConstAssumption DEF TypeOK, DbType, Seqs, Marks
<1>1. ASSUME rows' = rows, mark' = mark PROVE Same
  BY <1>1 DEF Covered
<1>2. Edge \/ Crash \/ (\E s \in Seqs : Age(s)) \/ UNCHANGED vars
      \/ (\E c \in Conns : Fail(c) \/ Reap(c)) => rows' = rows /\ mark' = mark
  BY DEF Edge, Produce, Replay, ReceiveAck, Abandon, Dial, Send, Crash, Age, vars, db, Fail,
         Reap, SweepIdle, ReaperCloses
<1>3. ASSUME NEW c \in Conns, ServeStep(c) PROVE Same \/ Added(c)
  <2>1. CASE UNCHANGED db
    BY <1>1, <2>1 DEF db
  <2>2. CASE /\ mark' = mark /\ job[c] \in Seqs
             /\ \E v \in {"real", "tomb"} : rows' = [rows EXCEPT ![job[c]] = v]
    <3>1. UNCHANGED edge
      BY <1>3, ServeFrame
    <3> QED BY <1>0, <2>2, <3>1 DEF Covered
  <2> QED BY <1>3, <2>1, <2>2, ServeRows
<1>4. ASSUME NEW p \in Pruners, PruneStep(p) PROVE Same
  <2>1. CASE PruneDelete(p)
    <3>1. /\ ceiling[p] \in Marks /\ \A s \in 1 .. ceiling[p] : Covered(s)
      BY <2>1 DEF PruneDelete, TypeOK, PruneType, PruneRangeCovered
    <3>2. /\ rows' = [s \in Seqs |-> IF s \in Expired(p) THEN "none" ELSE rows[s]]
          /\ mark' = AtLeast(mark, ceiling[p])
      BY <2>1 DEF PruneDelete
    <3>3. ASSUME NEW s \in Seqs, Covered(s)' PROVE Covered(s)
      <4>1. CASE rows'[s] # "none"
        BY <3>2, <4>1 DEF Covered
      <4>2. CASE s <= mark'
        <5>1. s \in Nat /\ mark \in Nat /\ ceiling[p] \in Nat /\ s >= 1
          BY <1>0, <3>1 DEF Seqs
        <5>2. CASE s <= mark
          BY <5>2 DEF Covered
        <5>3. CASE s <= ceiling[p]
          BY <3>1, <5>1, <5>3
        <5> QED BY <3>2, <4>2, <5>1, <5>2, <5>3 DEF AtLeast
      <4> QED BY <3>3, <4>1, <4>2 DEF Covered
    <3>4. \A s \in Seqs : Covered(s) => Covered(s)'
      BY CoveredGrows
    <3> QED BY <3>3, <3>4
  <2>2. CASE ~PruneDelete(p)
    BY <1>1, <1>4, <2>2 DEF PruneStep, PruneStart, PruneFresh, PruneCeiling, PruneCount,
         PruneLower, db
  <2> QED BY <2>1, <2>2
<1> QED BY <1>1, <1>2, <1>3, <1>4 DEF Next

\* What is on the wire to the gateway was there before, or the device sent it.
LEMMA UpStep ==
    ASSUME TypeOK, [Next]_vars
    PROVE  \A c \in Conns : \A i \in 1 .. Len(up'[c]) :
               \/ up'[c][i] \in outbox
               \/ \E j \in 1 .. Len(up[c]) : up'[c][i] = up[c][j]
<1>0. NetType /\ EdgeType
  BY DEF TypeOK
<1> USE <1>0 DEF NetType, EdgeType
<1> DEFINE Good == \A c \in Conns : \A i \in 1 .. Len(up'[c]) :
                     \/ up'[c][i] \in outbox
                     \/ \E j \in 1 .. Len(up[c]) : up'[c][i] = up[c][j]
<1>1. CASE up' = up
  BY <1>1
<1>2. CASE \E c \in Conns : up' = [up EXCEPT ![c] = <<>>]
  BY <1>2
<1>3. ASSUME NEW c \in Conns, up[c] # <<>>, up' = [up EXCEPT ![c] = Tail(@)] PROVE Good
  <2>1. up[c] \in Seq(Seqs)
    OBVIOUS
  <2> QED BY <1>3, <2>1
<1>4. ASSUME NEW s \in Seqs, Send(s) PROVE Good
  <2>1. cur \in Conns /\ s \in outbox /\ up' = [up EXCEPT ![cur] = Append(@, s)]
        /\ up[cur] \in Seq(Seqs)
    BY <1>4 DEF Send
  <2> QED BY <2>1
<1>5. Produce \/ Replay \/ ReceiveAck \/ Abandon \/ (\E s \in Seqs : Age(s))
      \/ UNCHANGED vars => up' = up
  BY DEF Produce, Replay, ReceiveAck, Abandon, Age, vars, net
<1>6. ASSUME NEW c \in Conns, Dial(c) \/ Cleanup(c) PROVE up' = [up EXCEPT ![c] = <<>>]
  BY <1>6 DEF Dial, Cleanup
<1>7. CASE Crash
  BY <1>7 DEF Crash
<1>8. ASSUME NEW c \in Conns, ServeStep(c) \/ Fail(c) \/ Reap(c), ~Cleanup(c)
      PROVE  up' = up \/ (up[c] # <<>> /\ up' = [up EXCEPT ![c] = Tail(@)])
  BY <1>8 DEF ServeStep, HandleResume, CloseSuperseded, Bind, WriteResumeAck, WriteUplinkAck, WriteDropAck,
       ReadFrame, ResumeSnapshot, DropSnapshot, Snapshot, RecordResult, AfterInsert,
       RecordUnstorable, ResumeDeadline, IdleTimeout, Accept, Fail, Reap, SweepIdle, ReaperCloses, net
<1>9. ASSUME NEW p \in Pruners, PruneStep(p) PROVE up' = up
  BY <1>9, PruneFrame DEF net
<1> QED
  BY <1>1, <1>2, <1>3, <1>4, <1>5, <1>6, <1>7, <1>8, <1>9 DEF Next, Edge

\* The record in a goroutine's hands was there before, is none, or has just
\* been read off its socket.
LEMMA JobStep ==
    ASSUME TypeOK, [Next]_vars
    PROVE  \A c \in Conns : \/ job'[c] \in {job[c], 0}
                            \/ up[c] # <<>> /\ job'[c] = Head(up[c])
<1>0. job \in [Conns -> Marks]
  BY DEF TypeOK, SessionType
<1>1. CASE job' = job
  BY <1>1
<1>2. Edge \/ (\E s \in Seqs : Age(s)) \/ UNCHANGED vars => job' = job
  BY DEF Edge, Produce, Replay, ReceiveAck, Abandon, Dial, Send, Age, vars, session
<1>3. ASSUME NEW c \in Conns, ServeStep(c) \/ Fail(c) \/ Reap(c)
      PROVE  \/ job' = job
             \/ job' = [job EXCEPT ![c] = 0]
             \/ up[c] # <<>> /\ job' = [job EXCEPT ![c] = Head(up[c])]
  BY <1>3 DEF ServeStep, HandleResume, CloseSuperseded, Bind, Cleanup, WriteResumeAck, WriteUplinkAck, WriteDropAck,
       WriteFails, ReadFrame, ResumeSnapshot, DropSnapshot, Snapshot, RecordResult,
       AfterInsert, RecordUnstorable, ResumeDeadline, IdleTimeout, Accept, RejectMalformed,
       RejectConflict, Store, Fail, Reap, SweepIdle, ReaperCloses, EndIteration, End, session
<1>4. CASE Crash
  BY <1>4 DEF Crash
<1>5. ASSUME NEW p \in Pruners, PruneStep(p) PROVE job' = job
  BY <1>5, PruneFrame DEF session
<1> QED BY <1>0, <1>1, <1>2, <1>3, <1>4, <1>5 DEF Next

LEMMA AllocatedStep == IndInv /\ Allocated /\ [Next]_vars => Allocated'
<1> SUFFICES ASSUME IndInv, Allocated, [Next]_vars PROVE Allocated'
  OBVIOUS
<1>0. /\ TypeOK /\ JobPresent /\ PruneRangeCovered /\ MarkOverStored /\ TypeOK'
  BY TypeStep DEF IndInv
<1>1. /\ nextSeq \in Nat /\ nextSeq' \in Nat /\ nextSeq >= 1 /\ nextSeq' >= nextSeq
      /\ \A s \in outbox : s \in Nat /\ s < nextSeq
      /\ \A s \in Seqs : s \in Nat
      /\ \A m \in Marks : m \in Nat
  <2>1. nextSeq' = nextSeq \/ nextSeq' = nextSeq + 1
    BY ServeFrame, PruneFrame
    DEF Next, Edge, Produce, Replay, ReceiveAck, Abandon, Dial, Send, Crash, Age, Fail,
        Reap, SweepIdle, ReaperCloses, vars, edge
  <2>2. nextSeq \in 1 .. (MaxSeq + 1) /\ MaxSeq \in Nat /\ outbox \subseteq Produced
    BY <1>0, ConstAssumption DEF TypeOK, EdgeType
  <2> QED BY <2>1, <2>2 DEF Produced, Seqs, Marks
<1>2. ASSUME NEW c \in Conns, NEW i \in 1 .. Len(up'[c]) PROVE up'[c][i] < nextSeq'
  <2>1. CASE up'[c][i] \in outbox
    BY <1>1, <2>1
  <2>2. CASE \E j \in 1 .. Len(up[c]) : up'[c][i] = up[c][j]
    <3>1. PICK j \in 1 .. Len(up[c]) : up'[c][i] = up[c][j]
      BY <2>2
    <3>2. up[c] \in Seq(Seqs) /\ up[c][j] < nextSeq
      BY <1>0 DEF TypeOK, NetType, Allocated
    <3>3. up[c][j] \in Nat
      BY <1>1, <3>2
    <3> QED BY <1>1, <3>1, <3>2, <3>3
  <2> QED BY <1>0, <2>1, <2>2, UpStep
<1>3. ASSUME NEW c \in Conns PROVE job'[c] < nextSeq'
  <2>1. job[c] \in Nat /\ job[c] < nextSeq
    BY <1>0, <1>1 DEF TypeOK, SessionType, Allocated
  <2>2. CASE job'[c] \in {job[c], 0}
    BY <1>1, <2>1, <2>2
  <2>3. CASE up[c] # <<>> /\ job'[c] = Head(up[c])
    <3>1. up[c] \in Seq(Seqs)
      BY <1>0 DEF TypeOK, NetType
    <3>2. 1 \in 1 .. Len(up[c]) /\ Head(up[c]) = up[c][1] /\ up[c][1] \in Seqs
      BY <2>3, <3>1
    <3>3. up[c][1] < nextSeq
      BY <3>2 DEF Allocated
    <3> QED BY <1>1, <2>3, <3>2, <3>3
  <2> QED BY <1>0, <2>2, <2>3, JobStep
<1>4. ASSUME NEW s \in Seqs, Covered(s)' PROVE s < nextSeq'
  <2>1. s < nextSeq
    BY <1>0, <1>4, NewlyCovered DEF Allocated
  <2> QED BY <1>1, <2>1
<1> QED BY <1>2, <1>3, <1>4 DEF Allocated

\* Nothing the cloud stores, marks or acknowledges lies past the last sequence
\* the device allocated, however stale the acknowledgement is.
THEOREM NothingEverInvented == Spec => []NothingInvented
<1>1. Init => Allocated
  BY ConstAssumption DEF Init, Allocated, Covered, Seqs
<1>2. IndInv /\ Allocated => NothingInvented
  <2> SUFFICES ASSUME IndInv, Allocated PROVE NothingInvented
    OBVIOUS
  <2>1. /\ \A m \in Marks : m \in Nat /\ (m = 0 \/ (m \in 1 .. m /\ m \in Seqs))
        /\ nextSeq \in Nat /\ nextSeq >= 1
    BY ConstAssumption DEF IndInv, TypeOK, EdgeType, Marks, Seqs
  <2>2. ASSUME NEW m \in Marks, \A s \in 1 .. m : Covered(s) PROVE m < nextSeq
    BY <2>1, <2>2 DEF Allocated
  <2>3. ASSUME NEW c \in Conns PROVE win[c] < nextSeq
    <3>1. win[c] \in Marks /\ \A s \in 1 .. win[c] : Covered(s)
      BY DEF IndInv, TypeOK, SessionType, AcksTruthful
    <3> QED BY <2>2, <3>1
  <2>4. ASSUME NEW c \in Conns, NEW i \in 1 .. Len(down[c]) PROVE down[c][i] < nextSeq
    <3>1. down[c] \in Seq(Marks) /\ \A s \in 1 .. down[c][i] : Covered(s)
      BY DEF IndInv, TypeOK, NetType, AcksTruthful
    <3>2. down[c][i] \in Marks
      BY <3>1
    <3> QED BY <2>2, <3>1, <3>2
  <2> QED BY <2>3, <2>4 DEF NothingInvented, Allocated
<1> QED BY <1>1, <1>2, AllocatedStep, UplinkInvariant, PTL DEF Spec

\* Sessions, journal, crashes and retention implement the custody protocol.
THEOREM UplinkImplementsDurable == Spec => ImplementsDurable
<1> DEFINE kept == {s \in Seqs : Covered(s)}
<1>1. Init => Durable!Init
  BY ConstAssumption DEF Init, Durable!Init, Covered, Seqs
<1>2. IndInv /\ Allocated /\ [Next]_vars => [Durable!Next]_(Durable!dvars)
  <2> SUFFICES ASSUME IndInv, Allocated, [Next]_vars
               PROVE  Durable!Next \/ UNCHANGED Durable!dvars
    OBVIOUS
  <2>0. TypeOK /\ JobPresent /\ PruneRangeCovered /\ MarkOverStored /\ AcksTruthful
    BY DEF IndInv
  <2>1. CASE UNCHANGED edge /\ kept' = kept
    BY <2>1 DEF Durable!dvars, edge
  <2>2. ASSUME NEW c \in Conns, job[c] \in Seqs, UNCHANGED edge,
               \A s \in Seqs : Covered(s)' <=> (Covered(s) \/ s = job[c])
        PROVE  Durable!Next \/ UNCHANGED Durable!dvars
    <3>1. CASE Covered(job[c])
      <4>1. kept' = kept
        BY <2>2, <3>1
      <4> QED BY <2>1, <2>2, <4>1
    <3>2. CASE ~Covered(job[c])
      <4>1. kept' = kept \union {job[c]} /\ job[c] \notin kept /\ job[c] < nextSeq
        BY <2>2, <3>2 DEF Allocated
      <4>2. Durable!TakeCharge(job[c])
        BY <2>2, <4>1 DEF Durable!TakeCharge, edge
      <4> QED BY <2>2, <4>2 DEF Durable!Next, Seqs
    <3> QED BY <3>1, <3>2
  <2>3. CASE Edge
    <3>1. rows' = rows /\ mark' = mark
      BY <2>3 DEF Edge, Produce, Replay, ReceiveAck, Abandon, Dial, Send, db
    <3>2. kept' = kept
      BY <3>1 DEF Covered
    <3>3. CASE Produce
      <4>1. Durable!Allocate
        BY <3>2, <3>3 DEF Produce, Durable!Allocate
      <4> QED BY <4>1 DEF Durable!Next
    <3>4. CASE ReceiveAck
      <4>1. /\ cur \in Conns /\ down[cur] # <<>> /\ nextSeq' = nextSeq
            /\ outbox' = {s \in outbox : s > Head(down[cur])}
        BY <2>0, <3>4 DEF ReceiveAck, TypeOK, EdgeType
      <4>2. down[cur] \in Seq(Marks)
        BY <2>0, <4>1 DEF TypeOK, NetType
      <4>3. /\ 1 \in 1 .. Len(down[cur])
            /\ Head(down[cur]) = down[cur][1] /\ Head(down[cur]) \in Marks
        BY <4>1, <4>2
      <4>4. \A s \in 1 .. Head(down[cur]) : s \in kept
        BY <2>0, <4>1, <4>3, ConstAssumption DEF AcksTruthful, Marks, Seqs
      <4>5. Durable!Release(Head(down[cur]))
        BY <3>2, <4>1, <4>4 DEF Durable!Release
      <4> QED BY <4>3, <4>5 DEF Durable!Next, Marks
    <3>5. CASE ~Produce /\ ~ReceiveAck
      <4>1. outbox' = outbox /\ nextSeq' = nextSeq
        BY <2>3, <3>5 DEF Edge, Replay, Abandon, Dial, Send
      <4> QED BY <3>2, <4>1 DEF Durable!dvars
    <3> QED BY <3>3, <3>4, <3>5
  <2>4. ~Edge => UNCHANGED edge
    BY ServeFrame, PruneFrame DEF Next, Crash, Age, Fail, Reap, SweepIdle, ReaperCloses, vars
  <2>5. ASSUME \A s \in Seqs : Covered(s)' <=> Covered(s) PROVE kept' = kept
    BY <2>5
  <2> QED BY <2>0, <2>1, <2>2, <2>3, <2>4, <2>5, NewlyCovered
<1>3. Init => Allocated
  BY ConstAssumption DEF Init, Allocated, Covered, Seqs
<1> QED
  BY <1>1, <1>2, <1>3, AllocatedStep, UplinkInvariant, PTL
  DEF Spec, ImplementsDurable, Durable!Spec
=============================================================================
