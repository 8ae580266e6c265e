------------------------ MODULE UplinkJournal_proofs ------------------------
(***************************************************************************)
(* Safety of the sequenced uplink for every number of records, connections *)
(* and concurrent retention passes, and for every pattern of failures.     *)
(***************************************************************************)
EXTENDS UplinkJournal, IngressWindow_proofs

\* committed_through over a journal that holds only sequences of the device.
LEMMA WindowFacts ==
    ASSUME NEW m \in Marks, NEW S \in SUBSET Seqs
    PROVE  /\ SqlCommitted(m, S) \in Marks
           /\ SqlCommitted(m, S) >= m
           /\ \A s \in (m + 1) .. SqlCommitted(m, S) : s \in S
           /\ \A n \in Marks : n > m /\ (\A s \in (m + 1) .. n : s \in S)
                               => n <= SqlCommitted(m, S)
<1>1. MaxSeq \in Nat /\ m \in Nat /\ S \in SUBSET (0 .. MaxSeq)
  BY ConstAssumption DEF Marks, Seqs
<1>2. /\ SqlCommitted(m, S) \in Nat
      /\ SqlCommitted(m, S) >= m
      /\ SqlCommitted(m, S) = m \/ SqlCommitted(m, S) \in S
      /\ (m + 1) .. SqlCommitted(m, S) \subseteq S
      /\ \A n \in Nat : (m + 1) .. n \subseteq S /\ n > m => n <= SqlCommitted(m, S)
  BY <1>1, CommittedIsLongestRun
<1>3. SqlCommitted(m, S) \in Marks
  BY <1>1, <1>2 DEF Marks, Seqs
<1>4. \A n \in Marks : n \in Nat
  BY ConstAssumption DEF Marks
<1> QED BY <1>2, <1>3, <1>4

\* MAX over the sequences above the base stays within the device's sequences.
LEMMA LastFacts ==
    ASSUME NEW b \in Marks, NEW S \in SUBSET Seqs
    PROVE  LastOr(b, S) \in Marks
<1>1. MaxSeq \in Nat /\ b \in Nat /\ S \in SUBSET (0 .. MaxSeq)
  BY ConstAssumption DEF Marks, Seqs
<1>2. LastOr(b, S) = b \/ LastOr(b, S) \in S
  BY <1>1, LastOrIsMax
<1> QED BY <1>1, <1>2 DEF Marks, Seqs

-----------------------------------------------------------------------------
(* Which variables an operation leaves alone.                              *)

LEMMA ServeFrame ==
    ASSUME NEW c \in Conns, ServeStep(c)
    PROVE  UNCHANGED <<edge, mark, prune, faults>> \/ (RecordUnstorable(c) /\ UNCHANGED <<edge, mark, prune>>)
  BY DEF ServeStep, HandleResume, CloseSuperseded, Bind, ResumeSnapshot, Snapshot, WriteResumeAck, ReadFrame, Accept,
         WriteUplinkAck, RecordResult, AfterInsert, RecordUnstorable, TombstoneFails,
         TombstoneWritten, DropSnapshot, WriteDropAck, ResumeDeadline, IdleTimeout, Cleanup,
         edge, db, prune

LEMMA PruneFrame ==
    ASSUME NEW p \in Pruners, PruneStep(p)
    PROVE  UNCHANGED <<edge, net, session, hub, history, faults>>
  BY DEF PruneStep, PruneStart, PruneFresh, PruneCeiling, PruneCount, PruneLower, PruneDelete

-----------------------------------------------------------------------------
(* Types.                                                                  *)

LEMMA InitTypeOK == Init => TypeOK
<1> SUFFICES ASSUME Init PROVE TypeOK
  OBVIOUS
<1> USE ConstAssumption DEF Init, Seqs, Marks
<1>1. EdgeType BY DEF EdgeType, Produced
<1>2. NetType BY DEF NetType
<1>3. SessionType BY DEF SessionType, PcStates
<1>4. HubType BY DEF HubType
<1>5. DbType BY DEF DbType
<1>6. PruneType BY DEF PruneType
<1>7. HistoryType BY DEF HistoryType
<1> QED BY <1>1, <1>2, <1>3, <1>4, <1>5, <1>6, <1>7 DEF TypeOK

LEMMA EdgeTypeStep == TypeOK /\ [Next]_vars => EdgeType'
<1> SUFFICES ASSUME TypeOK, [Next]_vars PROVE EdgeType'
  OBVIOUS
<1>0. EdgeType /\ NetType
  BY DEF TypeOK
<1> USE <1>0, ConstAssumption
<1> USE DEF EdgeType, Produced, Marks, Seqs
<1>1. CASE Produce
  BY <1>1 DEF Produce
<1>2. CASE Replay
  BY <1>2 DEF Replay
<1>3. CASE ReceiveAck
  BY <1>3 DEF ReceiveAck
<1>4. CASE Abandon
  BY <1>4 DEF Abandon
<1>5. ASSUME NEW c \in Conns, Dial(c) PROVE EdgeType'
  BY <1>5 DEF Dial
<1>6. ASSUME NEW s \in Seqs, Send(s) PROVE EdgeType'
  BY <1>6 DEF Send
<1>7. CASE UNCHANGED edge
  BY <1>7 DEF edge
<1>8. ASSUME NEW c \in Conns, Fail(c) \/ Reap(c) PROVE UNCHANGED edge
  BY <1>8 DEF Fail, Reap, SweepIdle, ReaperCloses
<1>9. Crash \/ (\E s \in Seqs : Age(s)) \/ UNCHANGED vars => UNCHANGED edge
  BY DEF Crash, Age, vars
<1> QED
  BY <1>1, <1>2, <1>3, <1>4, <1>5, <1>6, <1>7, <1>8, <1>9, ServeFrame, PruneFrame
  DEF Next, Edge

LEMMA NetTypeStep == TypeOK /\ [Next]_vars => NetType'
<1> SUFFICES ASSUME TypeOK, [Next]_vars PROVE NetType'
  OBVIOUS
<1>0. EdgeType /\ NetType /\ SessionType
  BY DEF TypeOK
<1> USE <1>0, ConstAssumption
<1> USE DEF NetType
<1>1. Produce \/ Replay => UNCHANGED net
  BY DEF Produce, Replay
<1>2. CASE ReceiveAck
  BY <1>2 DEF ReceiveAck, EdgeType
<1>3. CASE Abandon
  BY <1>3 DEF Abandon, EdgeType
<1>4. ASSUME NEW c \in Conns, Dial(c) PROVE NetType'
  BY <1>4 DEF Dial
<1>5. ASSUME NEW s \in Seqs, Send(s) PROVE NetType'
  BY <1>5 DEF Send, EdgeType
<1>6. ASSUME NEW c \in Conns, WriteEnvelope(c) \/ WriteFails(c), UNCHANGED <<up, open>>
      PROVE  NetType'
  <2>1. Append(down[c], win[c]) \in Seq(Marks)
    BY DEF SessionType
  <2>2. down' = down \/ down' = [down EXCEPT ![c] = Append(down[c], win[c])]
    BY <1>6 DEF WriteEnvelope, WriteFails
  <2> QED BY <1>6, <2>1, <2>2
<1>7. ASSUME NEW c \in Conns, ServeStep(c) PROVE NetType'
  <2>1. CASE HandleResume(c) \/ CloseSuperseded(c)
    BY <2>1 DEF HandleResume, CloseSuperseded, net
  <2>2. CASE WriteResumeAck(c) \/ WriteUplinkAck(c) \/ WriteDropAck(c)
    BY <2>2, <1>6 DEF WriteResumeAck, WriteUplinkAck, WriteDropAck
  <2>3. CASE ReadFrame(c)
    <3>1. up[c] # <<>> => Tail(up[c]) \in Seq(Seqs)
      OBVIOUS
    <3>2. up' = up \/ (up[c] # <<>> /\ up' = [up EXCEPT ![c] = Tail(up[c])])
      BY <2>3 DEF ReadFrame
    <3> QED BY <2>3, <3>1, <3>2 DEF ReadFrame
  <2>4. CASE Cleanup(c)
    BY <2>4 DEF Cleanup
  <2>5. CASE ResumeSnapshot(c) \/ Accept(c) \/ RecordResult(c) \/ AfterInsert(c)
             \/ RecordUnstorable(c) \/ DropSnapshot(c) \/ ResumeDeadline(c) \/ IdleTimeout(c)
    BY <2>5 DEF ResumeSnapshot, Snapshot, Accept, RecordResult, AfterInsert,
                RecordUnstorable, DropSnapshot, ResumeDeadline, IdleTimeout, net
  <2> QED BY <1>7, <2>1, <2>2, <2>3, <2>4, <2>5 DEF ServeStep
<1>8. ASSUME NEW c \in Conns, Fail(c) \/ Reap(c) PROVE NetType'
  BY <1>8 DEF Fail, Reap, SweepIdle, ReaperCloses, net
<1>9. CASE Crash
  BY <1>9 DEF Crash
<1>10. (\E s \in Seqs : Age(s)) \/ UNCHANGED vars => UNCHANGED net
  BY DEF Age, vars
<1>11. CASE UNCHANGED net
  BY <1>11 DEF net
<1> QED
  BY <1>1, <1>2, <1>3, <1>4, <1>5, <1>7, <1>8, <1>9, <1>10, <1>11, PruneFrame DEF Next, Edge

LEMMA SessionTypeStep == TypeOK /\ JobPresent /\ [Next]_vars => SessionType'
<1> SUFFICES ASSUME TypeOK, JobPresent, [Next]_vars PROVE SessionType'
  OBVIOUS
<1>0. EdgeType /\ NetType /\ SessionType /\ DbType
  BY DEF TypeOK
<1> USE <1>0
<1> USE DEF SessionType, PcStates, Goto, EndIteration, End
<1>1. 0 \in Marks /\ Seqs \subseteq Marks
  BY ConstAssumption DEF Marks, Seqs
<1>2. CommittedThrough \in Marks
  BY WindowFacts DEF CommittedThrough, Present, DbType
<1>3. Produce \/ Replay \/ ReceiveAck \/ Abandon => UNCHANGED session
  BY DEF Produce, Replay, ReceiveAck, Abandon
<1>4. ASSUME NEW c \in Conns, Dial(c) PROVE SessionType'
  BY <1>4 DEF Dial
<1>5. ASSUME NEW s \in Seqs, Send(s) \/ Age(s) PROVE UNCHANGED session
  BY <1>5 DEF Send, Age
<1>6. ASSUME NEW c \in Conns, ServeStep(c) PROVE SessionType'
  <2>1. CASE HandleResume(c) \/ CloseSuperseded(c)
    BY <2>1 DEF HandleResume, CloseSuperseded, Bind
  <2>2. CASE WriteResumeAck(c) \/ WriteUplinkAck(c) \/ WriteDropAck(c)
    BY <2>2, <1>1 DEF WriteResumeAck, WriteUplinkAck, WriteDropAck, WriteEnvelope, WriteFails
  <2>3. CASE ReadFrame(c)
    <3>1. up[c] # <<>> => Head(up[c]) \in Seqs
      BY DEF NetType
    <3>2. \/ End(c)
          \/ /\ up[c] # <<>> /\ Goto(c, "accept")
             /\ job' = [job EXCEPT ![c] = Head(up[c])]
             /\ UNCHANGED <<status, win>>
      BY <2>3 DEF ReadFrame
    <3> QED BY <3>1, <3>2, <1>1
  <2>4. CASE Cleanup(c)
    BY <2>4 DEF Cleanup
  <2>5. CASE ResumeSnapshot(c) \/ DropSnapshot(c)
    BY <2>5, <1>2 DEF ResumeSnapshot, DropSnapshot, Snapshot
  <2>6. CASE Accept(c)
    <3>1. CASE RejectMalformed(c)
      BY <3>1 DEF RejectMalformed
    <3>2. CASE RejectConflict(c)
      BY <3>2, <1>1 DEF RejectConflict
    <3>3. CASE Store(c) /\ job[c] \in Seqs
      <4>1. SqlCommitted(mark, Present \union {job[c]}) \in Marks
        BY <3>3, WindowFacts DEF Present, DbType
      <4> QED BY <3>3, <4>1 DEF Store
    <3> QED BY <2>6, <3>1, <3>2, <3>3 DEF Accept, JobPresent
  <2>7. CASE RecordResult(c) \/ AfterInsert(c) \/ RecordUnstorable(c)
             \/ ResumeDeadline(c) \/ IdleTimeout(c)
    BY <2>7, <1>1 DEF RecordResult, AfterInsert, RecordUnstorable, ResumeDeadline, IdleTimeout
  <2> QED BY <1>6, <2>1, <2>2, <2>3, <2>4, <2>5, <2>6, <2>7 DEF ServeStep
<1>7. ASSUME NEW c \in Conns, Fail(c) \/ Reap(c) PROVE SessionType'
  BY <1>7, <1>1 DEF Fail, Reap, SweepIdle, ReaperCloses, session
<1>8. CASE Crash
  BY <1>8, <1>1 DEF Crash
<1>9. CASE UNCHANGED session
  BY <1>9 DEF session
<1>10. UNCHANGED vars => UNCHANGED session
  BY DEF vars
<1> QED
  BY <1>3, <1>4, <1>5, <1>6, <1>7, <1>8, <1>9, <1>10, PruneFrame DEF Next, Edge

LEMMA HubTypeStep == TypeOK /\ [Next]_vars => HubType'
<1> SUFFICES ASSUME TypeOK, [Next]_vars PROVE HubType'
  OBVIOUS
<1>0. HubType
  BY DEF TypeOK
<1>1. CASE UNCHANGED hub
  BY <1>0, <1>1 DEF HubType, hub
<1>2. Edge => UNCHANGED hub
  BY DEF Edge, Produce, Replay, ReceiveAck, Abandon, Dial, Send
<1>3. ASSUME NEW c \in Conns, ServeStep(c) PROVE HubType' \/ UNCHANGED hub
  <2>1. CASE HandleResume(c) \/ CloseSuperseded(c)
    BY <1>0, <2>1 DEF HandleResume, CloseSuperseded, Bind, HubType
  <2>2. CASE Cleanup(c)
    BY <1>0, <2>2 DEF Cleanup, Unbind, HubType, hub
  <2>3. CASE ~HandleResume(c) /\ ~CloseSuperseded(c) /\ ~Cleanup(c)
    BY <1>3, <2>3 DEF ServeStep, ResumeSnapshot, Snapshot, WriteResumeAck, ReadFrame, Accept,
         WriteUplinkAck, RecordResult, AfterInsert, RecordUnstorable, DropSnapshot,
         WriteDropAck, ResumeDeadline, IdleTimeout
  <2> QED BY <2>1, <2>2, <2>3
<1>4. ASSUME NEW c \in Conns, Fail(c) \/ Reap(c) PROVE HubType'
  BY <1>0, <1>4 DEF Fail, Reap, SweepIdle, ReaperCloses, HubType, hub
<1>5. CASE Crash
  BY <1>5 DEF Crash, HubType
<1>6. (\E s \in Seqs : Age(s)) \/ UNCHANGED vars => UNCHANGED hub
  BY DEF Age, vars
<1> QED BY <1>1, <1>2, <1>3, <1>4, <1>5, <1>6, PruneFrame DEF Next

\* How a goroutine's step may change the journal: not at all, or by giving the
\* record it works on a row.
LEMMA ServeRows ==
    ASSUME TypeOK, JobPresent, NEW c \in Conns, ServeStep(c)
    PROVE  /\ mark' = mark
           /\ \/ UNCHANGED db
              \/ /\ job[c] \in Seqs
                 /\ \E v \in {"real", "tomb"} : rows' = [rows EXCEPT ![job[c]] = v]
                 /\ aged' \subseteq aged
<1> USE DEF TypeOK, DbType, JobPresent
<1>1. CASE Accept(c)
  BY <1>1 DEF Accept, RejectMalformed, RejectConflict, Store, db
<1>2. CASE RecordUnstorable(c)
  <2>1. job[c] \in Seqs
    BY <1>2 DEF RecordUnstorable
  <2>2. CASE UNCHANGED db
    BY <2>2 DEF db
  <2>3. CASE TombstoneWritten(c)
    <3>1. CASE rows[job[c]] = "none"
      BY <2>1, <2>3, <3>1 DEF TombstoneWritten
    <3>2. CASE rows[job[c]] # "none"
      <4>1. rows' = rows /\ aged' = aged /\ mark' = mark
        BY <2>1, <2>3, <3>2 DEF TombstoneWritten
      <4> QED BY <4>1 DEF db
    <3> QED BY <3>1, <3>2
  <2> QED BY <1>2, <2>2, <2>3 DEF RecordUnstorable, TombstoneFails
<1>3. CASE ~Accept(c) /\ ~RecordUnstorable(c)
  BY <1>3 DEF ServeStep, HandleResume, CloseSuperseded, Bind, ResumeSnapshot, Snapshot, WriteResumeAck, ReadFrame,
       WriteUplinkAck, RecordResult, AfterInsert, DropSnapshot, WriteDropAck,
       ResumeDeadline, IdleTimeout, Cleanup, db
<1> QED BY <1>1, <1>2, <1>3

LEMMA DbTypeStep == TypeOK /\ JobPresent /\ [Next]_vars => DbType'
<1> SUFFICES ASSUME TypeOK, JobPresent, [Next]_vars PROVE DbType'
  OBVIOUS
<1>0. DbType /\ PruneType
  BY DEF TypeOK
<1>1. CASE UNCHANGED db
  BY <1>0, <1>1 DEF DbType, db
<1>2. Edge \/ Crash \/ UNCHANGED vars => UNCHANGED db
  BY DEF Edge, Produce, Replay, ReceiveAck, Abandon, Dial, Send, Crash, vars
<1>3. ASSUME NEW c \in Conns, ServeStep(c) PROVE DbType'
  BY <1>0, <1>3, ServeRows DEF DbType, db
<1>4. ASSUME NEW c \in Conns, Fail(c) \/ Reap(c) PROVE UNCHANGED db
  BY <1>4 DEF Fail, Reap, SweepIdle, ReaperCloses
<1>5. ASSUME NEW s \in Seqs, Age(s) PROVE DbType'
  BY <1>0, <1>5 DEF Age, DbType
<1>6. ASSUME NEW p \in Pruners, PruneStep(p) PROVE DbType'
  <2>1. CASE PruneDelete(p)
    BY <1>0, <2>1 DEF PruneDelete, DbType, PruneType, AtLeast
  <2>2. CASE ~PruneDelete(p)
    BY <1>1, <1>6, <2>2 DEF PruneStep, PruneStart, PruneFresh, PruneCeiling, PruneCount, PruneLower
  <2> QED BY <2>1, <2>2
<1> QED BY <1>1, <1>2, <1>3, <1>4, <1>5, <1>6 DEF Next

LEMMA PruneTypeStep == TypeOK /\ [Next]_vars => PruneType'
<1> SUFFICES ASSUME TypeOK, [Next]_vars PROVE PruneType'
  OBVIOUS
<1>0. DbType /\ PruneType
  BY DEF TypeOK
<1>00. MaxSeq \in Nat /\ 0 \in Marks /\ Seqs \subseteq Marks /\ Present \in SUBSET Seqs
       /\ Marks \subseteq Nat /\ PruneLimit \in Nat
  BY ConstAssumption DEF Marks, Seqs, Present
<1>1. CASE UNCHANGED prune
  BY <1>0, <1>1 DEF PruneType, prune
<1>2. Edge \/ (\E s \in Seqs : Age(s)) \/ UNCHANGED vars => UNCHANGED prune
  BY DEF Edge, Produce, Replay, ReceiveAck, Abandon, Dial, Send, Age, vars
<1>3. ASSUME NEW c \in Conns, Fail(c) \/ Reap(c) PROVE UNCHANGED prune
  BY <1>3 DEF Fail, Reap, SweepIdle, ReaperCloses
<1>4. CASE Crash
  BY <1>00, <1>4 DEF Crash, PruneType
<1>5. ASSUME NEW p \in Pruners, PruneStep(p) PROVE PruneType'
  <2>0. base[p] \in Marks /\ fresh[p] \in Marks /\ ceiling[p] \in Marks
    BY <1>0 DEF PruneType
  <2>1. CASE PruneStart(p)
    BY <1>0, <2>1 DEF PruneStart, PruneType, DbType
  <2>2. CASE PruneFresh(p)
    <3> DEFINE F == {s \in Present : s > base[p] /\ s \notin aged}
    <3>1. F \in SUBSET Nat /\ F \subseteq Marks
      BY <1>00
    <3>2. FirstOr(0, F) \in Marks
      <4> HIDE DEF F
      <4> QED BY <1>00, <3>1, FirstOrIsMin
    <3>3. fresh' = [fresh EXCEPT ![p] = FirstOr(0, F)]
      BY <2>2 DEF PruneFresh
    <3> HIDE DEF F
    <3> QED BY <1>0, <2>2, <3>2, <3>3 DEF PruneFresh, PruneType
  <2>3. CASE PruneCeiling(p)
    <3> DEFINE top == IF fresh[p] = 0 THEN LastOr(base[p], {s \in Present : s > base[p]})
                                      ELSE fresh[p] - 1
    <3>1. LastOr(base[p], {s \in Present : s > base[p]}) \in Marks
      BY <1>00, <2>0, LastFacts
    <3>2. top \in Marks
      BY <2>0, <3>1, <1>00 DEF Marks
    <3>3. AtMost(top, base[p] + PruneLimit) \in Marks
      <4> HIDE DEF top
      <4> QED BY <2>0, <3>2, <1>00 DEF Marks, AtMost
    <3>4. /\ ceiling' = [ceiling EXCEPT ![p] = AtMost(top, base[p] + PruneLimit)]
          /\ \E v \in {"idle", "count"} : ppc' = [ppc EXCEPT ![p] = v]
      BY <2>3 DEF PruneCeiling
    <3> HIDE DEF top
    <3> QED BY <1>0, <2>3, <3>3, <3>4 DEF PruneCeiling, PruneType
  <2>4. CASE PruneCount(p)
    <3>1. \E v \in {"delete", "lower"} : ppc' = [ppc EXCEPT ![p] = v]
      BY <2>4 DEF PruneCount
    <3> QED BY <1>0, <2>4, <3>1 DEF PruneCount, PruneType
  <2>5. CASE PruneLower(p)
    <3>1. SqlCommitted(base[p], Between(base[p], ceiling[p])) \in Marks
      BY <1>00, <2>0, WindowFacts DEF Between
    <3>2. /\ ceiling' = [ceiling EXCEPT ![p] = SqlCommitted(base[p], Between(base[p], ceiling[p]))]
          /\ \E v \in {"idle", "delete"} : ppc' = [ppc EXCEPT ![p] = v]
      BY <2>5 DEF PruneLower
    <3> QED BY <1>0, <2>5, <3>1, <3>2 DEF PruneLower, PruneType
  <2>6. CASE PruneDelete(p)
    BY <1>0, <2>6 DEF PruneDelete, PruneType
  <2> QED BY <1>5, <2>1, <2>2, <2>3, <2>4, <2>5, <2>6 DEF PruneStep
<1> QED BY <1>1, <1>2, <1>3, <1>4, <1>5, ServeFrame DEF Next

LEMMA HistoryTypeStep == TypeOK /\ JobPresent /\ [Next]_vars => HistoryType'
<1> SUFFICES ASSUME TypeOK, JobPresent, [Next]_vars PROVE HistoryType'
  OBVIOUS
<1>0. HistoryType
  BY DEF TypeOK
<1> USE <1>0
<1> USE DEF HistoryType
<1>1. CASE UNCHANGED history /\ faults' \in Nat
  BY <1>1 DEF history
<1>2. Edge => UNCHANGED history /\ faults' \in Nat
  BY DEF Edge, Produce, Replay, ReceiveAck, Abandon, Dial, Send
<1>3. ASSUME NEW c \in Conns, ServeStep(c) PROVE HistoryType'
  <2>1. CASE Accept(c)
    <3>1. job[c] \in Seqs
      BY <2>1 DEF Accept, JobPresent
    <3>2. \/ projected' = projected
          \/ projected' = [projected EXCEPT ![job[c]] = projected[job[c]] + 1]
      BY <2>1, <3>1 DEF Accept, RejectMalformed, RejectConflict, Store
    <3>3. conflicts' \subseteq Seqs
      BY <2>1, <3>1 DEF Accept, RejectMalformed, RejectConflict, Store
    <3> QED BY <2>1, <3>1, <3>2, <3>3 DEF Accept
  <2>2. CASE RecordResult(c)
    <3>1. job[c] \in Seqs
      BY <2>2 DEF RecordResult, JobPresent
    <3> QED BY <2>2, <3>1 DEF RecordResult
  <2>3. CASE AfterInsert(c)
    <3>1. job[c] \in Seqs
      BY <2>3 DEF AfterInsert, JobPresent
    <3>2. \/ handled' = handled
          \/ handled' = [handled EXCEPT ![job[c]] = handled[job[c]] + 1]
      BY <2>3, <3>1 DEF AfterInsert
    <3> QED BY <2>3, <3>1, <3>2 DEF AfterInsert
  <2>4. CASE RecordUnstorable(c)
    BY <2>4 DEF RecordUnstorable, TombstoneFails, TombstoneWritten, history
  <2>5. CASE ~Accept(c) /\ ~RecordResult(c) /\ ~AfterInsert(c) /\ ~RecordUnstorable(c)
    BY <1>3, <2>5 DEF ServeStep, HandleResume, CloseSuperseded, Bind, ResumeSnapshot, Snapshot, WriteResumeAck,
         ReadFrame, WriteUplinkAck, DropSnapshot, WriteDropAck, ResumeDeadline, IdleTimeout,
         Cleanup, history
  <2> QED BY <2>1, <2>2, <2>3, <2>4, <2>5
<1>4. ASSUME NEW c \in Conns, Fail(c) \/ Reap(c) PROVE HistoryType'
  BY <1>4 DEF Fail, Reap, SweepIdle, ReaperCloses, history
<1>5. Crash \/ (\E s \in Seqs : Age(s)) \/ UNCHANGED vars => UNCHANGED history /\ faults' \in Nat
  BY DEF Crash, Age, vars
<1> QED BY <1>1, <1>2, <1>3, <1>4, <1>5, PruneFrame DEF Next

LEMMA JobPresentStep == TypeOK /\ JobPresent /\ [Next]_vars => JobPresent'
<1> SUFFICES ASSUME TypeOK, JobPresent, [Next]_vars PROVE JobPresent'
  OBVIOUS
<1>0. NetType /\ SessionType
  BY DEF TypeOK
<1> USE <1>0
<1> USE DEF JobPresent, SessionType, PcStates, Goto, EndIteration, End
<1>1. CASE UNCHANGED session
  BY <1>1 DEF session
<1>2. Produce \/ Replay \/ ReceiveAck \/ Abandon \/ UNCHANGED vars => UNCHANGED session
  BY DEF Produce, Replay, ReceiveAck, Abandon, vars
<1>3. ASSUME NEW c \in Conns, Dial(c) PROVE JobPresent'
  BY <1>3 DEF Dial
<1>4. ASSUME NEW s \in Seqs, Send(s) \/ Age(s) PROVE UNCHANGED session
  BY <1>4 DEF Send, Age
<1>5. ASSUME NEW c \in Conns, ServeStep(c) PROVE JobPresent'
  <2>1. CASE HandleResume(c) \/ CloseSuperseded(c) \/ Cleanup(c)
    BY <2>1 DEF HandleResume, CloseSuperseded, Bind, Cleanup
  <2>2. CASE WriteResumeAck(c) \/ WriteUplinkAck(c) \/ WriteDropAck(c)
    BY <2>2 DEF WriteResumeAck, WriteUplinkAck, WriteDropAck, WriteEnvelope, WriteFails
  <2>3. CASE ReadFrame(c)
    <3>1. up[c] # <<>> => Head(up[c]) \in Seqs
      BY DEF NetType
    <3>2. \/ End(c)
          \/ /\ up[c] # <<>> /\ Goto(c, "accept")
             /\ job' = [job EXCEPT ![c] = Head(up[c])]
      BY <2>3 DEF ReadFrame
    <3> QED BY <3>1, <3>2
  <2>4. CASE ResumeSnapshot(c) \/ DropSnapshot(c)
    BY <2>4 DEF ResumeSnapshot, DropSnapshot, Snapshot
  <2>5. CASE Accept(c)
    BY <2>5 DEF Accept, RejectMalformed, RejectConflict, Store
  <2>6. CASE RecordResult(c) \/ AfterInsert(c) \/ RecordUnstorable(c)
             \/ ResumeDeadline(c) \/ IdleTimeout(c)
    BY <2>6 DEF RecordResult, AfterInsert, RecordUnstorable, ResumeDeadline, IdleTimeout
  <2> QED BY <1>5, <2>1, <2>2, <2>3, <2>4, <2>5, <2>6 DEF ServeStep
<1>6. ASSUME NEW c \in Conns, Fail(c) \/ Reap(c) PROVE JobPresent'
  BY <1>6 DEF Fail, Reap, SweepIdle, ReaperCloses, session
<1>7. CASE Crash
  BY <1>7 DEF Crash
<1> QED BY <1>1, <1>2, <1>3, <1>4, <1>5, <1>6, <1>7, PruneFrame DEF Next, Edge

LEMMA TypeStep == TypeOK /\ JobPresent /\ [Next]_vars => TypeOK' /\ JobPresent'
  BY EdgeTypeStep, NetTypeStep, SessionTypeStep, HubTypeStep, DbTypeStep, PruneTypeStep,
     HistoryTypeStep, JobPresentStep
  DEF TypeOK

\* Every variable keeps its type in every reachable state.
THEOREM TypeCorrect == Spec => []TypeOK
<1>1. Init => TypeOK /\ JobPresent
  BY InitTypeOK DEF Init, JobPresent
<1> QED BY <1>1, TypeStep, PTL DEF Spec

-----------------------------------------------------------------------------
(* Safety.  The heart of the argument: what the journal accounts for only  *)
(* grows, so an acknowledgement that was true when it was computed is true *)
(* whenever it is read.                                                    *)

\* The window a transaction reads claims only what the journal accounts for.
LEMMA CommittedCovered ==
    TypeOK => CommittedThrough \in Marks /\ \A s \in 1 .. CommittedThrough : Covered(s)
<1> SUFFICES ASSUME TypeOK
             PROVE  CommittedThrough \in Marks /\ \A s \in 1 .. CommittedThrough : Covered(s)
  OBVIOUS
<1>1. mark \in Marks /\ Present \in SUBSET Seqs
  BY DEF TypeOK, DbType, Present
<1>2. /\ CommittedThrough \in Marks
      /\ \A s \in (mark + 1) .. CommittedThrough : s \in Present
  BY <1>1, WindowFacts DEF CommittedThrough
<1>3. mark \in Nat /\ CommittedThrough \in Nat
  BY <1>1, <1>2, ConstAssumption DEF Marks
<1>4. ASSUME NEW s \in 1 .. CommittedThrough PROVE Covered(s)
  <2>1. s <= mark \/ s \in (mark + 1) .. CommittedThrough
    BY <1>3
  <2> QED BY <1>2, <2>1 DEF Covered, Present
<1> QED BY <1>2, <1>4

LEMMA CoveredGrows ==
    ASSUME TypeOK, JobPresent, PruneRangeCovered, MarkOverStored, [Next]_vars
    PROVE  /\ \A s \in Seqs : Covered(s) => Covered(s)'
           /\ mark' >= mark
           /\ MarkOverStored'
<1>0. /\ rows \in [Seqs -> {"none", "real", "tomb"}] /\ mark \in Marks
      /\ Seqs \subseteq Nat /\ Marks \subseteq Nat
      /\ \A m \in Marks : 1 .. m \subseteq Seqs
  BY ConstAssumption DEF TypeOK, DbType, Seqs, Marks
<1> USE DEF Covered, MarkOverStored, DeviceState
<1>1. CASE rows' = rows /\ mark' = mark /\ rec' = rec
  BY <1>0, <1>1
<1>2. UNCHANGED <<db, edge>> => rows' = rows /\ mark' = mark /\ rec' = rec
  BY DEF db, edge
<1>3. Edge \/ Crash \/ (\E s \in Seqs : Age(s)) \/ UNCHANGED vars
      => rows' = rows /\ mark' = mark /\ rec' = rec
  BY DEF Edge, Produce, Replay, ReceiveAck, Abandon, Dial, Send, Crash, Age, vars, db, edge
<1>4. ASSUME NEW c \in Conns, Fail(c) \/ Reap(c) PROVE UNCHANGED <<db, edge>>
  BY <1>4 DEF Fail, Reap, SweepIdle, ReaperCloses
<1>5. ASSUME NEW c \in Conns, ServeStep(c)
      PROVE  /\ \A s \in Seqs : Covered(s) => Covered(s)'
             /\ mark' >= mark
             /\ MarkOverStored'
  <2>1. rec' = rec
    BY <1>5, ServeFrame DEF edge
  <2>2. CASE UNCHANGED db
    BY <1>1, <2>1, <2>2 DEF db
  <2>3. CASE /\ mark' = mark /\ job[c] \in Seqs
             /\ \E v \in {"real", "tomb"} : rows' = [rows EXCEPT ![job[c]] = v]
    BY <1>0, <2>1, <2>3
  <2> QED BY <1>5, <2>2, <2>3, ServeRows
<1>6. ASSUME NEW p \in Pruners, PruneStep(p)
      PROVE  /\ \A s \in Seqs : Covered(s) => Covered(s)'
             /\ mark' >= mark
             /\ MarkOverStored'
  <2>1. CASE PruneDelete(p)
    <3>1. /\ ceiling[p] \in Marks /\ base[p] \in Marks
          /\ \A s \in 1 .. ceiling[p] : Covered(s)
      BY <2>1 DEF PruneDelete, TypeOK, PruneType, PruneRangeCovered
    <3>2. /\ rows' = [s \in Seqs |-> IF s \in Expired(p) THEN "none" ELSE rows[s]]
          /\ mark' = AtLeast(mark, ceiling[p]) /\ rec' = rec
      BY <2>1 DEF PruneDelete, edge
    <3>3. mark' \in Nat /\ mark' >= mark /\ mark' >= ceiling[p]
      BY <1>0, <3>1, <3>2 DEF AtLeast
    <3>4. \A s \in Expired(p) : s \in Seqs /\ s <= ceiling[p] /\ rec[s].kind = "DeviceState"
      BY DEF Expired, Between, Present
    <3>5. ASSUME NEW s \in Seqs, rows[s] # "none" \/ s <= mark
          PROVE  rows'[s] # "none" \/ s <= mark'
      <4>1. CASE s \in Expired(p)
        <5>1. s \in Nat /\ s <= ceiling[p] /\ ceiling[p] \in Nat
          BY <1>0, <3>1, <3>4, <4>1
        <5> QED BY <3>3, <5>1
      <4>2. CASE s \notin Expired(p) /\ rows[s] # "none"
        BY <3>2, <4>2
      <4>3. CASE s <= mark
        BY <1>0, <3>3, <4>3
      <4> QED BY <3>5, <4>1, <4>2, <4>3
    <3>6. ASSUME NEW s \in 1 .. mark' PROVE rows'[s] # "none" \/ rec'[s].kind = "DeviceState"
      <4>1. mark' = mark \/ mark' = ceiling[p]
        BY <3>2 DEF AtLeast
      <4>2. s \in Seqs /\ s \in Nat
        BY <1>0, <3>1, <4>1
      <4>3. rows[s] # "none" \/ rec[s].kind = "DeviceState"
        <5>1. CASE s <= mark
          BY <1>0, <4>2, <5>1
        <5>2. CASE s > mark
          <6>1. s \in 1 .. ceiling[p]
            BY <1>0, <4>1, <4>2, <5>2
          <6> QED BY <1>0, <3>1, <4>2, <5>2, <6>1
        <5> QED BY <1>0, <4>2, <5>1, <5>2
      <4> QED BY <3>2, <3>4, <4>2, <4>3
    <3> QED BY <3>3, <3>5, <3>6
  <2>2. CASE ~PruneDelete(p)
    <3>1. UNCHANGED <<db, edge>>
      BY <1>6, <2>2 DEF PruneStep, PruneStart, PruneFresh, PruneCeiling, PruneCount, PruneLower
    <3> QED BY <1>1, <1>2, <3>1
  <2> QED BY <2>1, <2>2
<1> QED BY <1>1, <1>2, <1>3, <1>4, <1>5, <1>6 DEF Next

\* A window held by a goroutine after a step is an old one, nothing, or the
\* window of the journal as the step leaves it.
LEMMA WindowsStep ==
    ASSUME TypeOK, JobPresent, [Next]_vars
    PROVE  \A c \in Conns : win'[c] \in {win[c], 0, CommittedThrough, CommittedThrough'}
<1>0. SessionType
  BY DEF TypeOK
<1> USE DEF Goto, EndIteration, End
<1>1. CASE UNCHANGED session
  BY <1>1 DEF session
<1>2. Produce \/ Replay \/ ReceiveAck \/ Abandon \/ UNCHANGED vars => UNCHANGED session
  BY DEF Produce, Replay, ReceiveAck, Abandon, vars
<1>3. ASSUME NEW c \in Conns, Dial(c) PROVE win' = win
  BY <1>3 DEF Dial
<1>4. ASSUME NEW s \in Seqs, Send(s) \/ Age(s) PROVE UNCHANGED session
  BY <1>4 DEF Send, Age
<1>5. ASSUME NEW c \in Conns, ServeStep(c)
      PROVE  \A d \in Conns : win'[d] \in {win[d], 0, CommittedThrough, CommittedThrough'}
  <2>1. CASE ~Accept(c)
    <3>1. \/ win' = win
          \/ win' = [win EXCEPT ![c] = 0]
          \/ win' = [win EXCEPT ![c] = CommittedThrough]
      BY <1>5, <2>1 DEF ServeStep, HandleResume, CloseSuperseded, Bind, Cleanup, WriteResumeAck, WriteUplinkAck,
           WriteDropAck, WriteEnvelope, WriteFails, ReadFrame, ResumeSnapshot, DropSnapshot,
           Snapshot, RecordResult, AfterInsert, RecordUnstorable, ResumeDeadline, IdleTimeout
    <3> QED BY <1>0, <3>1 DEF SessionType
  <2>2. CASE Accept(c)
    <3>1. job[c] \in Seqs /\ rows \in [Seqs -> {"none", "real", "tomb"}]
      BY <2>2 DEF Accept, JobPresent, TypeOK, DbType
    <3>2. CASE Store(c)
      <4>1. Present' = Present \union {job[c]}
        BY <3>1, <3>2 DEF Store, Present
      <4>2. win' = [win EXCEPT ![c] = CommittedThrough']
        BY <2>2, <3>2, <4>1 DEF Accept, Store, CommittedThrough
      <4> QED BY <1>0, <4>2 DEF SessionType
    <3>3. CASE win' = win \/ win' = [win EXCEPT ![c] = 0]
      BY <1>0, <3>3 DEF SessionType
    <3> QED BY <2>2, <3>2, <3>3 DEF Accept, RejectMalformed, RejectConflict
  <2> QED BY <2>1, <2>2
<1>6. ASSUME NEW c \in Conns, Fail(c) \/ Reap(c)
      PROVE  win' = win \/ win' = [win EXCEPT ![c] = 0]
  BY <1>6 DEF Fail, Reap, SweepIdle, ReaperCloses, session
<1>7. CASE Crash
  BY <1>7 DEF Crash
<1> QED
  BY <1>0, <1>1, <1>2, <1>3, <1>4, <1>5, <1>6, <1>7, PruneFrame DEF Next, Edge, SessionType

\* What is on the wire to the device after a step was there before, or is the
\* window its goroutine held.
LEMMA DownStep ==
    ASSUME TypeOK, [Next]_vars
    PROVE  \A c \in Conns : \A i \in 1 .. Len(down'[c]) :
               \/ down'[c][i] = win[c]
               \/ \E j \in 1 .. Len(down[c]) : down'[c][i] = down[c][j]
<1>0. NetType /\ EdgeType /\ SessionType
  BY DEF TypeOK
<1> USE <1>0 DEF NetType, EdgeType
<1> DEFINE Good == \A c \in Conns : \A i \in 1 .. Len(down'[c]) :
                     \/ down'[c][i] = win[c]
                     \/ \E j \in 1 .. Len(down[c]) : down'[c][i] = down[c][j]
<1>1. CASE down' = down
  BY <1>1
<1>2. CASE \E c \in Conns : down' = [down EXCEPT ![c] = <<>>]
  BY <1>2
<1>3. ASSUME NEW c \in Conns, down' = [down EXCEPT ![c] = Append(@, win[c])] PROVE Good
  <2>1. win[c] \in Marks /\ down[c] \in Seq(Marks)
    BY DEF SessionType
  <2> QED BY <1>3, <2>1
<1>4. CASE ReceiveAck
  <2>1. /\ cur \in Conns /\ down[cur] \in Seq(Marks) /\ down[cur] # <<>>
        /\ down' = [down EXCEPT ![cur] = Tail(@)]
    BY <1>4 DEF ReceiveAck
  <2> QED BY <2>1
<1>5. Produce \/ Replay \/ Crash \/ UNCHANGED vars => down' = down
  BY DEF Produce, Replay, Crash, vars, net
<1>6. Abandon => \E c \in Conns : down' = [down EXCEPT ![c] = <<>>]
  BY DEF Abandon
<1>7. ASSUME NEW c \in Conns, Dial(c) PROVE down' = [down EXCEPT ![c] = <<>>]
  BY <1>7 DEF Dial
<1>8. ASSUME NEW s \in Seqs, Send(s) \/ Age(s) PROVE down' = down
  BY <1>8 DEF Send, Age, net
<1>9. ASSUME NEW c \in Conns, ServeStep(c) \/ Fail(c) \/ Reap(c)
      PROVE  down' = down \/ down' = [down EXCEPT ![c] = Append(@, win[c])]
  BY <1>9 DEF ServeStep, HandleResume, CloseSuperseded, Bind, Cleanup, WriteResumeAck, WriteUplinkAck,
       WriteDropAck, WriteEnvelope, WriteFails, ReadFrame, ResumeSnapshot, DropSnapshot,
       Snapshot, RecordResult, AfterInsert, RecordUnstorable, ResumeDeadline, IdleTimeout,
       Accept, Fail, Reap, SweepIdle, ReaperCloses, net
<1>10. ASSUME NEW p \in Pruners, PruneStep(p) PROVE down' = down
  BY <1>10, PruneFrame DEF net
<1> QED
  BY <1>1, <1>2, <1>3, <1>4, <1>5, <1>6, <1>7, <1>8, <1>9, <1>10 DEF Next, Edge

LEMMA AcksStep == IndInv /\ [Next]_vars => AcksTruthful'
<1> SUFFICES ASSUME IndInv, [Next]_vars PROVE AcksTruthful'
  OBVIOUS
<1>0. TypeOK /\ JobPresent /\ AcksTruthful /\ PruneRangeCovered /\ MarkOverStored /\ TypeOK'
  BY TypeStep DEF IndInv
<1>1. /\ Marks \subseteq Nat /\ \A m \in Marks : 1 .. m \subseteq Seqs
      /\ 0 \in Marks /\ 1 .. 0 = {}
  BY ConstAssumption DEF Marks, Seqs
<1>2. \A s \in Seqs : Covered(s) => Covered(s)'
  BY <1>0, CoveredGrows
<1>3. CommittedThrough \in Marks /\ \A s \in 1 .. CommittedThrough : Covered(s)
  BY <1>0, CommittedCovered
<1>4. (CommittedThrough \in Marks /\ \A s \in 1 .. CommittedThrough : Covered(s))'
  BY <1>0, CommittedCovered, PTL
<1>5. ASSUME NEW c \in Conns PROVE \A s \in 1 .. win'[c] : Covered(s)'
  <2>1. win'[c] \in {win[c], 0, CommittedThrough, CommittedThrough'} /\ win[c] \in Marks
    BY <1>0, WindowsStep DEF TypeOK, SessionType
  <2>2. \A s \in 1 .. win[c] : Covered(s)
    BY <1>0 DEF AcksTruthful
  <2>3. CASE win'[c] = win[c]
    BY <1>1, <1>2, <2>1, <2>2, <2>3
  <2>4. CASE win'[c] = 0
    BY <1>1, <2>4
  <2>5. CASE win'[c] = CommittedThrough
    BY <1>1, <1>2, <1>3, <2>5
  <2>6. CASE win'[c] = CommittedThrough'
    BY <1>4, <2>6
  <2> QED BY <2>1, <2>3, <2>4, <2>5, <2>6
<1>6. ASSUME NEW c \in Conns, NEW i \in 1 .. Len(down'[c]), NEW s \in 1 .. down'[c][i]
      PROVE  Covered(s)'
  <2>1. win[c] \in Marks /\ \A x \in 1 .. win[c] : Covered(x)
    BY <1>0 DEF AcksTruthful, TypeOK, SessionType
  <2>2. CASE down'[c][i] = win[c]
    BY <1>1, <1>2, <2>1, <2>2
  <2>3. CASE \E j \in 1 .. Len(down[c]) : down'[c][i] = down[c][j]
    <3>1. PICK j \in 1 .. Len(down[c]) : down'[c][i] = down[c][j]
      BY <2>3
    <3>2. down[c] \in Seq(Marks)
      BY <1>0 DEF TypeOK, NetType
    <3>3. down[c][j] \in Marks
      BY <3>2
    <3>4. Covered(s)
      BY <1>0, <3>1 DEF AcksTruthful
    <3> QED BY <1>1, <1>2, <3>1, <3>3, <3>4
  <2> QED BY <1>0, <2>2, <2>3, DownStep
<1> QED BY <1>5, <1>6 DEF AcksTruthful

LEMMA DroppedStep == IndInv /\ [Next]_vars => DroppedCovered'
<1> SUFFICES ASSUME IndInv, [Next]_vars PROVE DroppedCovered'
  OBVIOUS
<1>0. /\ TypeOK /\ JobPresent /\ AcksTruthful /\ DroppedCovered
      /\ PruneRangeCovered /\ MarkOverStored
  BY DEF IndInv
<1>1. /\ \A m \in Marks : m \in Nat
      /\ MaxSeq \in Nat /\ nextSeq \in 1 .. (MaxSeq + 1)
      /\ Produced \subseteq Seqs /\ outbox \subseteq Produced /\ cur \in Conns \union {NoConn}
  BY <1>0, ConstAssumption DEF TypeOK, EdgeType, Produced, Marks, Seqs
<1>2. \A s \in Seqs : Covered(s) => Covered(s)'
  BY <1>0, CoveredGrows
<1>3. CASE outbox' = outbox /\ nextSeq' = nextSeq
  BY <1>0, <1>1, <1>2, <1>3 DEF DroppedCovered, Produced
<1>4. CASE Produce
  <2>1. outbox' = outbox \union {nextSeq} /\ nextSeq' = nextSeq + 1
    BY <1>4 DEF Produce
  <2>2. \A s \in Produced' : s \in Produced \/ s = nextSeq
    BY <1>1, <2>1 DEF Produced
  <2> QED BY <1>0, <1>1, <1>2, <2>1, <2>2 DEF DroppedCovered
<1>5. CASE ReceiveAck
  <2>1. /\ cur \in Conns /\ down[cur] # <<>> /\ nextSeq' = nextSeq
        /\ outbox' = {s \in outbox : s > Head(down[cur])}
    BY <1>1, <1>5 DEF ReceiveAck
  <2>2. down[cur] \in Seq(Marks)
    BY <1>0, <2>1 DEF TypeOK, NetType
  <2>3. /\ Len(down[cur]) \in Nat /\ 1 \in 1 .. Len(down[cur])
        /\ Head(down[cur]) = down[cur][1] /\ Head(down[cur]) \in Marks
    BY <2>1, <2>2
  <2>4. \A s \in 1 .. Head(down[cur]) : Covered(s)
    BY <1>0, <2>1, <2>3 DEF AcksTruthful
  <2>5. ASSUME NEW s \in Produced, s \notin outbox' PROVE Covered(s)
    <3>1. s \in Nat /\ s >= 1 /\ Head(down[cur]) \in Nat
      BY <1>1, <2>3 DEF Produced
    <3>2. CASE s \in outbox
      BY <2>1, <2>4, <2>5, <3>1, <3>2
    <3>3. CASE s \notin outbox
      BY <1>0, <3>3 DEF DroppedCovered
    <3> QED BY <3>2, <3>3
  <2> QED BY <1>1, <1>2, <2>1, <2>5 DEF DroppedCovered, Produced
<1>6. UNCHANGED edge => outbox' = outbox /\ nextSeq' = nextSeq
  BY DEF edge
<1>7. /\ Replay \/ Abandon \/ (\E c \in Conns : Dial(c)) \/ (\E s \in Seqs : Send(s))
         => outbox' = outbox /\ nextSeq' = nextSeq
      /\ Crash \/ (\E s \in Seqs : Age(s)) \/ (\E c \in Conns : Fail(c) \/ Reap(c))
         \/ UNCHANGED vars => UNCHANGED edge
  BY DEF Replay, Abandon, Dial, Send, Crash, Age, Fail, Reap, SweepIdle, ReaperCloses, vars
<1> QED
  BY <1>3, <1>4, <1>5, <1>6, <1>7, ServeFrame, PruneFrame DEF Next, Edge

LEMMA PruneRangeStep == IndInv /\ [Next]_vars => PruneRangeCovered'
<1> SUFFICES ASSUME IndInv, [Next]_vars PROVE PruneRangeCovered'
  OBVIOUS
<1>0. TypeOK /\ JobPresent /\ PruneRangeCovered /\ MarkOverStored /\ TypeOK'
  BY TypeStep DEF IndInv
<1>1. /\ MaxSeq \in Nat /\ mark \in Marks /\ mark \in Nat /\ mark' \in Nat
      /\ \A m \in Marks : m \in Nat /\ 1 .. m \subseteq Seqs
      /\ \A q \in Pruners : /\ base[q] \in Marks /\ ceiling[q] \in Marks
                            /\ base[q] \in Nat /\ ceiling[q] \in Nat
      /\ Present \in SUBSET Seqs
  BY <1>0, ConstAssumption DEF TypeOK, DbType, PruneType, Marks, Seqs, Present
<1>2. /\ \A s \in Seqs : Covered(s) => Covered(s)'
      /\ mark' >= mark
  BY <1>0, CoveredGrows
<1>3. CASE base' = base /\ ceiling' = ceiling /\ \A q \in Pruners : ppc'[q] = "delete" => ppc[q] = "delete"
  <2> SUFFICES ASSUME NEW q \in Pruners
               PROVE  /\ base'[q] <= mark'
                      /\ ppc'[q] = "delete" => \A s \in 1 .. ceiling'[q] : Covered(s)'
    BY DEF PruneRangeCovered
  <2>1. base[q] <= mark' /\ base'[q] = base[q]
    BY <1>0, <1>1, <1>2, <1>3 DEF PruneRangeCovered
  <2>2. ppc'[q] = "delete" => \A s \in 1 .. ceiling[q] : s \in Seqs /\ Covered(s)
    BY <1>0, <1>1, <1>3 DEF PruneRangeCovered
  <2> QED BY <1>2, <1>3, <2>1, <2>2
<1>4. CASE UNCHANGED prune
  BY <1>3, <1>4 DEF prune
<1>5. CASE Crash
  BY <1>0, <1>1, <1>5 DEF Crash, PruneRangeCovered, TypeOK, DbType
<1>6. ASSUME NEW p \in Pruners, PruneStep(p) PROVE PruneRangeCovered'
  <2>0. /\ base \in [Pruners -> Marks] /\ ceiling \in [Pruners -> Marks]
        /\ ppc \in [Pruners -> {"idle", "fresh", "ceiling", "count", "lower", "delete"}]
        /\ base[p] <= mark
    BY <1>0 DEF TypeOK, PruneType, PruneRangeCovered
  <2>00. \A s \in 1 .. base[p] : Covered(s)
    BY <1>1, <2>0 DEF Covered
  <2>1. CASE PruneStart(p)
    BY <1>0, <1>1, <1>2, <2>0, <2>1 DEF PruneStart, PruneRangeCovered, db, Covered
  <2>2. CASE PruneFresh(p) \/ PruneDelete(p)
    BY <1>3, <2>0, <2>2 DEF PruneFresh, PruneDelete
  <2>3. CASE PruneCeiling(p)
    <3>1. /\ db' = db /\ base' = base
          /\ \A q \in Pruners : q # p => ceiling'[q] = ceiling[q] /\ ppc'[q] = ppc[q]
          /\ ppc'[p] # "delete"
      BY <2>0, <2>3 DEF PruneCeiling, db
    <3> QED BY <1>0, <1>1, <1>2, <3>1 DEF PruneRangeCovered
  <2>4. CASE PruneCount(p)
    <3>1. /\ base' = base /\ ceiling' = ceiling
          /\ \A q \in Pruners : q # p => ppc'[q] = ppc[q]
          /\ ppc'[p] = "delete"
             => Cardinality(Between(base[p], ceiling[p])) = ceiling[p] - base[p]
      BY <2>0, <2>4 DEF PruneCount
    <3>2. ASSUME ppc'[p] = "delete", NEW s \in 1 .. ceiling[p] PROVE Covered(s)
      <4>1. s \in Nat /\ base[p] \in Nat /\ ceiling[p] \in Nat /\ mark \in Nat
        BY <1>1
      <4>2. CASE s <= base[p]
        BY <2>00, <4>1, <4>2
      <4>3. CASE s > base[p]
        <5> DEFINE I == (base[p] + 1) .. ceiling[p]
        <5> DEFINE B == Between(base[p], ceiling[p])
        <5>0. /\ base[p] + 1 \in Int /\ ceiling[p] \in Int /\ ~(base[p] + 1 > ceiling[p])
              /\ ceiling[p] - (base[p] + 1) + 1 = ceiling[p] - base[p]
          BY <4>1, <4>3
        <5>1. IsFiniteSet(I) /\ Cardinality(I) = ceiling[p] - base[p]
          BY <5>0, FS_Interval
        <5>2. B \in SUBSET I
          <6> SUFFICES ASSUME NEW x \in B PROVE x \in I
            OBVIOUS
          <6>1. x \in Seqs /\ base[p] < x /\ x <= ceiling[p]
            BY DEF Between, Present
          <6>2. x \in Nat
            BY <1>1, <6>1 DEF Seqs
          <6> QED BY <4>1, <6>1, <6>2
        <5>3. Cardinality(B) = Cardinality(I)
          BY <3>1, <3>2, <5>1
        <5>4. B = I
          <6> HIDE DEF B, I
          <6> QED BY <5>1, <5>2, <5>3, FS_Subset
        <5>5. s \in I
          BY <4>1, <4>3
        <5>6. s \in Present
          BY <5>4, <5>5 DEF Between
        <5> QED BY <5>6 DEF Present, Covered
      <4> QED BY <4>1, <4>2, <4>3
    <3> QED BY <1>0, <1>1, <1>2, <3>1, <3>2 DEF PruneRangeCovered
  <2>5. CASE PruneLower(p)
    <3> DEFINE ceil == SqlCommitted(base[p], Between(base[p], ceiling[p]))
    <3>1. /\ base' = base /\ ceiling' = [ceiling EXCEPT ![p] = ceil]
          /\ \A q \in Pruners : q # p => ppc'[q] = ppc[q]
      BY <2>0, <2>5 DEF PruneLower
    <3>2. /\ ceil \in Marks
          /\ \A s \in (base[p] + 1) .. ceil : s \in Between(base[p], ceiling[p])
      BY <1>1, WindowFacts DEF Between
    <3> HIDE DEF ceil
    <3>3. ASSUME NEW s \in 1 .. ceil PROVE Covered(s) /\ s \in Seqs
      <4>0. ceil \in Nat /\ base[p] \in Nat
        BY <1>1, <3>2
      <4>1. ceil \in Nat /\ base[p] \in Nat /\ s \in Nat
        BY <4>0
      <4>2. s <= base[p] \/ s \in (base[p] + 1) .. ceil
        BY <4>1
      <4>3. CASE s <= base[p]
        BY <1>1, <2>00, <3>2, <4>1, <4>3
      <4>4. CASE s \in (base[p] + 1) .. ceil
        BY <1>1, <3>2, <4>4 DEF Between, Present, Covered
      <4> QED BY <4>2, <4>3, <4>4
    <3> QED BY <1>0, <1>1, <1>2, <2>0, <3>1, <3>2, <3>3 DEF PruneRangeCovered
  <2> QED BY <1>6, <2>1, <2>2, <2>3, <2>4, <2>5 DEF PruneStep
<1>7. Edge \/ (\E s \in Seqs : Age(s)) \/ UNCHANGED vars => UNCHANGED prune
  BY DEF Edge, Produce, Replay, ReceiveAck, Abandon, Dial, Send, Age, vars
<1>8. ASSUME NEW c \in Conns, Fail(c) \/ Reap(c) PROVE UNCHANGED prune
  BY <1>8 DEF Fail, Reap, SweepIdle, ReaperCloses
<1> QED BY <1>4, <1>5, <1>6, <1>7, <1>8, ServeFrame DEF Next

LEMMA InitIndInv == Init => IndInv
<1> SUFFICES ASSUME Init PROVE IndInv
  OBVIOUS
<1>1. TypeOK
  BY InitTypeOK
<1>2. JobPresent
  BY DEF Init, JobPresent
<1>3. AcksTruthful
  BY DEF Init, AcksTruthful
<1>4. DroppedCovered
  BY DEF Init, DroppedCovered, Produced
<1>5. MarkOverStored
  BY DEF Init, MarkOverStored
<1>6. PruneRangeCovered
  BY DEF Init, PruneRangeCovered
<1> QED BY <1>1, <1>2, <1>3, <1>4, <1>5, <1>6 DEF IndInv

LEMMA IndInvStep == IndInv /\ [Next]_vars => IndInv'
<1> SUFFICES ASSUME IndInv, [Next]_vars PROVE IndInv'
  OBVIOUS
<1>1. TypeOK' /\ JobPresent'
  BY TypeStep DEF IndInv
<1>2. MarkOverStored'
  BY CoveredGrows DEF IndInv
<1> QED BY <1>1, <1>2, AcksStep, DroppedStep, PruneRangeStep DEF IndInv

THEOREM UplinkInvariant == Spec => []IndInv
  BY InitIndInv, IndInvStep, PTL DEF Spec

\* No record is ever lost by both sides, for any number of records,
\* connections, gateways pruning at once and failures.
THEOREM NoRecordEverLost == Spec => []NoRecordLost
<1>1. IndInv => NoRecordLost
  <2> SUFFICES ASSUME IndInv, NEW s \in Produced, s \notin outbox, rows[s] = "none"
               PROVE  s <= mark /\ DeviceState(s)
    BY DEF NoRecordLost
  <2>1. s <= mark
    BY DEF IndInv, DroppedCovered, Covered
  <2>2. mark \in Nat /\ nextSeq \in Nat
    BY ConstAssumption DEF IndInv, TypeOK, DbType, EdgeType, Marks
  <2>3. s \in 1 .. mark
    BY <2>1, <2>2 DEF Produced
  <2> QED BY <2>1, <2>3 DEF IndInv, MarkOverStored
<1> QED BY <1>1, UplinkInvariant, PTL

\* Every acknowledgement, wherever it is between the gateway and the device and
\* however old, is true of the journal as it is now.
THEOREM AcksAlwaysTruthful == Spec => []AcksTruthful
<1>1. IndInv => AcksTruthful
  BY DEF IndInv
<1> QED BY <1>1, UplinkInvariant, PTL

\* The mark of app.ingress_pruned passes only what was stored and what retention
\* may delete, with any number of passes running statement by statement.
THEOREM MarkAlwaysOverStored == Spec => []MarkOverStored
<1>1. IndInv => MarkOverStored
  BY DEF IndInv
<1> QED BY <1>1, UplinkInvariant, PTL

\* What a retention pass has checked is still accounted for when it deletes,
\* whatever sessions and other passes did between its statements.
THEOREM PruneRangesStayCovered == Spec => []PruneRangeCovered
<1>1. IndInv => PruneRangeCovered
  BY DEF IndInv
<1> QED BY <1>1, UplinkInvariant, PTL

\* What lies above the newer mark lies above the older one.
LEMMA NarrowInterval ==
    \A a, b, c \in Nat : b >= a =>
        \A s \in (b + 1) .. c : s \in (a + 1) .. c /\ ~(s <= b)
  OBVIOUS

\* The prefix the device is told never moves backwards, retention included.
THEOREM PrefixMonotone == Spec => PrefixNeverCollapses
<1>1. IndInv /\ [Next]_vars => CommittedThrough' >= CommittedThrough
  <2> SUFFICES ASSUME IndInv, [Next]_vars PROVE CommittedThrough' >= CommittedThrough
    OBVIOUS
  <2>1. TypeOK /\ JobPresent /\ PruneRangeCovered /\ MarkOverStored /\ TypeOK'
    BY TypeStep DEF IndInv
  <2>2. /\ \A m \in Marks : m \in Nat
        /\ mark \in Marks /\ Present \in SUBSET Seqs /\ mark' \in Marks /\ Present' \in SUBSET Seqs
    BY <2>1, ConstAssumption DEF TypeOK, DbType, Marks, Present
  <2>3. /\ CommittedThrough \in Marks /\ CommittedThrough' \in Marks
        /\ CommittedThrough' >= mark'
        /\ \A s \in (mark + 1) .. CommittedThrough : s \in Present
        /\ \A n \in Marks : n > mark' /\ (\A s \in (mark' + 1) .. n : s \in Present')
                            => n <= CommittedThrough'
    BY <2>2, WindowFacts DEF CommittedThrough
  <2>4. /\ mark' >= mark
        /\ \A s \in Seqs : Covered(s) => Covered(s)'
    BY <2>1, CoveredGrows
  <2>5. CASE mark' >= CommittedThrough
    BY <2>2, <2>3, <2>5
  <2>6. CASE mark' < CommittedThrough
    <3>1. ASSUME NEW s \in (mark' + 1) .. CommittedThrough PROVE s \in Present'
      <4>1. mark \in Nat /\ mark' \in Nat /\ CommittedThrough \in Nat
        BY <2>2, <2>3
      <4>2. s \in (mark + 1) .. CommittedThrough /\ ~(s <= mark')
        BY <2>4, <4>1, NarrowInterval
      <4>3. s \in Present
        BY <2>3, <4>2
      <4>4. s \in Seqs /\ Covered(s)
        BY <4>3 DEF Present, Covered
      <4> QED BY <2>4, <4>2, <4>4 DEF Covered, Present
    <3> QED BY <2>2, <2>3, <2>6, <3>1
  <2>7. mark' \in Nat /\ CommittedThrough \in Nat
    BY <2>2, <2>3
  <2> QED BY <2>5, <2>6, <2>7
<1> QED BY <1>1, UplinkInvariant, PTL DEF Spec, PrefixNeverCollapses

\* A row that is not a stored DeviceState stays as it is in every step.
LEMMA KeptRowsStep ==
    IndInv /\ [Next]_vars =>
        \A s \in Seqs : rows[s] # "none" /\ ~(rows[s] = "real" /\ DeviceState(s))
                        => rows'[s] = rows[s]
<1> DEFINE Stay == \A s \in Seqs : rows[s] # "none" /\ ~(rows[s] = "real" /\ DeviceState(s))
                                   => rows'[s] = rows[s]
<1>1. IndInv /\ [Next]_vars => Stay
  <2> SUFFICES ASSUME IndInv, [Next]_vars PROVE Stay
    OBVIOUS
  <2>0. TypeOK /\ JobPresent /\ rows \in [Seqs -> {"none", "real", "tomb"}]
    BY DEF IndInv, TypeOK, DbType
  <2>1. CASE rows' = rows
    BY <2>1
  <2>2. Edge \/ Crash \/ (\E s \in Seqs : Age(s)) \/ UNCHANGED vars
        \/ (\E c \in Conns : Fail(c) \/ Reap(c)) => rows' = rows
    BY DEF Edge, Produce, Replay, ReceiveAck, Abandon, Dial, Send, Crash, Age, vars, db,
           Fail, Reap, SweepIdle, ReaperCloses
  <2>3. ASSUME NEW c \in Conns, ServeStep(c) PROVE Stay
    <3>1. CASE ~Accept(c) /\ ~RecordUnstorable(c)
      BY <2>3, <3>1 DEF ServeStep, HandleResume, CloseSuperseded, Bind, ResumeSnapshot, Snapshot, WriteResumeAck,
           ReadFrame, WriteUplinkAck, RecordResult, AfterInsert, DropSnapshot, WriteDropAck,
           ResumeDeadline, IdleTimeout, Cleanup, db
    <3>2. CASE Accept(c)
      <4>1. job[c] \in Seqs
        BY <2>0, <3>2 DEF Accept, JobPresent
      <4>2. rows' = rows \/ (rows[job[c]] # "tomb" /\ rows' = [rows EXCEPT ![job[c]] = "real"])
        BY <3>2 DEF Accept, RejectMalformed, RejectConflict, Store
      <4> QED BY <2>0, <4>1, <4>2
    <3>3. CASE RecordUnstorable(c)
      <4>1. job[c] \in Seqs
        BY <2>0, <3>3 DEF RecordUnstorable, JobPresent
      <4>2. rows' = rows \/ (rows[job[c]] = "none" /\ rows' = [rows EXCEPT ![job[c]] = "tomb"])
        BY <2>0, <3>3, <4>1 DEF RecordUnstorable, TombstoneFails, TombstoneWritten, db
      <4> QED BY <2>0, <4>1, <4>2
    <3> QED BY <3>1, <3>2, <3>3
  <2>4. ASSUME NEW p \in Pruners, PruneStep(p) PROVE Stay
    <3>1. CASE PruneDelete(p)
      BY <2>0, <3>1 DEF PruneDelete, Expired
    <3>2. CASE ~PruneDelete(p)
      BY <2>1, <2>4, <3>2 DEF PruneStep, PruneStart, PruneFresh, PruneCeiling, PruneCount,
           PruneLower, db
    <3> QED BY <3>1, <3>2
  <2> QED BY <2>1, <2>2, <2>3, <2>4 DEF Next
<1> QED BY <1>1

\* Retention deletes nothing but DeviceState rows, and no step rewrites a row.
THEOREM KeptRowsNeverDeleted == Spec => KeptRowsStay
  BY KeptRowsStep, UplinkInvariant, PTL DEF Spec, KeptRowsStay

\* A goroutine holds a connection to close only while it is about to close it.
ClosesOnce == \A c \in Conns : pc[c] # "supersede" => prev[c] = NoConn

\* The hub's two maps agree and the live session is the bound one, whatever
\* the order of binds, sweeps, failures and the cleanups of superseded sessions.
HubInv == HubConsistent /\ LiveSessionBound /\ ClosesOnce

LEMMA HubStep == TypeOK /\ HubInv /\ [Next]_vars => HubInv'
<1> SUFFICES ASSUME TypeOK, HubInv, [Next]_vars PROVE HubInv'
  OBVIOUS
<1>0. /\ pc \in [Conns -> PcStates] /\ open \subseteq Conns
      /\ byDevice \in Conns \union {NoConn} /\ byID \subseteq Conns /\ NoConn \notin Conns
      /\ prev \in [Conns -> Conns \union {NoConn}] /\ reaped \subseteq Conns
  BY ConstAssumption DEF TypeOK, SessionType, NetType, HubType
<1>1. CASE Edge
  <2>1. CASE \E c \in Conns : Dial(c)
    BY <1>0, <2>1 DEF Dial, HubInv, HubConsistent, LiveSessionBound, ClosesOnce, BeingClosed, hub
  <2>2. CASE ~\E c \in Conns : Dial(c)
    <3>1. UNCHANGED <<pc, open, hub>>
      BY <1>1, <2>2 DEF Edge, Produce, Replay, ReceiveAck, Abandon, Send, net, session
    <3> QED BY <3>1 DEF HubInv, HubConsistent, LiveSessionBound, ClosesOnce, BeingClosed, hub
  <2> QED BY <2>1, <2>2
<1>2. ASSUME NEW c \in Conns, HandleResume(c) PROVE HubInv'
  <2>1. /\ byDevice' = c /\ byID' = {c} /\ UNCHANGED <<open, reaped>>
        /\ prev' = [prev EXCEPT ![c] = byDevice] /\ prev[c] = NoConn
        /\ \/ byDevice = NoConn /\ pc' = [pc EXCEPT ![c] = "snapshot"]
           \/ byDevice # NoConn /\ pc' = [pc EXCEPT ![c] = "supersede"]
    BY <1>0, <1>2 DEF HandleResume, Bind, Goto, HubInv, HubConsistent, ClosesOnce, net
  <2>2. \A d \in Conns : BeingClosed(d) => BeingClosed(d)'
    BY <1>0, <2>1 DEF BeingClosed
  <2>3. \A d \in Conns : d = byDevice => BeingClosed(d)'
    BY <1>0, <2>1 DEF BeingClosed
  <2>4. HubConsistent' /\ ClosesOnce'
    BY <1>0, <2>1 DEF HubInv, HubConsistent, ClosesOnce
  <2>5. LiveSessionBound'
    BY <1>0, <2>1, <2>2, <2>3 DEF HubInv, LiveSessionBound
  <2> QED BY <2>4, <2>5 DEF HubInv
<1>9. ASSUME NEW c \in Conns, CloseSuperseded(c) PROVE HubInv'
  <2>1. /\ UNCHANGED <<byDevice, byID, reaped>> /\ open' = open \ {prev[c]}
        /\ prev' = [prev EXCEPT ![c] = NoConn] /\ pc[c] = "supersede"
        /\ pc' = [pc EXCEPT ![c] = "snapshot"]
    BY <1>9 DEF CloseSuperseded, Goto
  <2>2. \A d \in Conns : BeingClosed(d) => BeingClosed(d)' \/ d = prev[c]
    BY <1>0, <2>1 DEF BeingClosed
  <2>3. HubConsistent' /\ ClosesOnce'
    BY <1>0, <2>1 DEF HubInv, HubConsistent, ClosesOnce
  <2>4. LiveSessionBound'
    BY <1>0, <2>1, <2>2 DEF HubInv, LiveSessionBound
  <2> QED BY <2>3, <2>4 DEF HubInv
<1>3. ASSUME NEW c \in Conns, Cleanup(c) PROVE HubInv'
  <2>1. /\ open' = open \ {c} /\ pc' = [pc EXCEPT ![c] = "off"]
        /\ pc[c] = "closing" /\ UNCHANGED <<prev, reaped>>
        /\ \/ byDevice = c /\ byDevice' = NoConn /\ byID' = byID \ {c}
           \/ byDevice # c /\ byDevice' = byDevice /\ byID' = byID
    BY <1>0, <1>3 DEF Cleanup, Goto, Unbind, IsBound, hub, HubInv, HubConsistent
  <2> QED BY <1>0, <2>1 DEF HubInv, HubConsistent, LiveSessionBound, ClosesOnce, BeingClosed
<1>4. ASSUME NEW c \in Conns, Reap(c) PROVE HubInv'
  <2>1. CASE SweepIdle(c)
    BY <1>0, <2>1 DEF SweepIdle, net, session, HubInv, HubConsistent, LiveSessionBound,
                      ClosesOnce, BeingClosed
  <2>2. CASE ReaperCloses(c)
    BY <1>0, <2>2 DEF ReaperCloses, session, HubInv, HubConsistent, LiveSessionBound,
                      ClosesOnce, BeingClosed
  <2> QED BY <1>4, <2>1, <2>2 DEF Reap
<1>5. CASE Crash
  BY <1>5 DEF Crash, HubInv, HubConsistent, LiveSessionBound, ClosesOnce, BeingClosed
<1>6. ASSUME NEW c \in Conns, Fail(c) PROVE HubInv'
  BY <1>0, <1>6 DEF Fail, End, Goto, net, hub, HubInv, HubConsistent, LiveSessionBound, ClosesOnce, BeingClosed
<1>7. CASE (\E s \in Seqs : Age(s)) \/ (\E p \in Pruners : PruneStep(p)) \/ UNCHANGED vars
  <2>1. UNCHANGED <<pc, open, hub>>
    BY <1>7 DEF Age, PruneStep, PruneStart, PruneFresh, PruneCeiling, PruneCount, PruneLower,
                PruneDelete, net, session, vars
  <2> QED BY <2>1 DEF HubInv, HubConsistent, LiveSessionBound, ClosesOnce, BeingClosed, hub
<1>8. ASSUME NEW c \in Conns, ServeStep(c), ~HandleResume(c), ~CloseSuperseded(c), ~Cleanup(c) PROVE HubInv'
  <2>1. UNCHANGED <<open, hub>>
    BY <1>8 DEF ServeStep, ResumeSnapshot, Snapshot, WriteResumeAck, ReadFrame, Accept,
                WriteUplinkAck, RecordResult, AfterInsert, RecordUnstorable, DropSnapshot,
                WriteDropAck, ResumeDeadline, IdleTimeout, net
  <2>2. \E l \in PcStates : /\ pc' = [pc EXCEPT ![c] = l]
                            /\ pc[c] # "supersede" /\ l # "supersede"
                            /\ pc[c] \in {"off", "resume", "closing"} => l = "closing"
    BY <1>8 DEF ServeStep, ResumeSnapshot, WriteResumeAck, WriteFails, ReadFrame, Accept,
                RejectMalformed, RejectConflict, Store, WriteUplinkAck, RecordResult,
                AfterInsert, RecordUnstorable, DropSnapshot, WriteDropAck, ResumeDeadline,
                IdleTimeout, End, Goto, PcStates
  <2> QED BY <1>0, <2>1, <2>2 DEF hub, HubInv, HubConsistent, LiveSessionBound, ClosesOnce, BeingClosed
<1> QED BY <1>1, <1>2, <1>3, <1>4, <1>5, <1>6, <1>7, <1>8, <1>9 DEF Next

LEMMA HubInvariant == Spec => []HubInv
<1>1. Init => HubInv
  BY DEF Init, HubInv, HubConsistent, LiveSessionBound, ClosesOnce, BeingClosed
<1> QED BY <1>1, HubStep, TypeCorrect, PTL DEF Spec

\* No order of binds, sweeps and deferred cleanups leaves the hub with a second
\* entry, or its two maps at odds.
THEOREM HubSound == Spec => []HubConsistent
<1>1. HubInv => HubConsistent
  BY DEF HubInv
<1> QED BY <1>1, HubInvariant, PTL

\* A superseded session's deferred Unbind, an idle sweep or a late failure
\* never leaves the live session unbound.
THEOREM LiveSessionsStayBound == Spec => []LiveSessionBound
<1>1. HubInv => LiveSessionBound
  BY DEF HubInv
<1> QED BY <1>1, HubInvariant, PTL

\* The hub holds exactly the session that serves the device, whatever order
\* Bind, Unbind, SweepIdle and the zombies' cleanup run in, for any number of
\* connections (internal/session/hub.go).
THEOREM HubStaysSafe == Spec => []HubSafe
  BY HubSound, LiveSessionsStayBound, PTL DEF HubSafe

-----------------------------------------------------------------------------
(* What storing a record brings about.                                       *)

\* A step adds to the conflicts at most the record of a goroutine that met a
\* tombstone.
LEMMA ConflictsStep ==
    ASSUME [Next]_vars
    PROVE  \/ conflicts' = conflicts
           \/ \E c \in Conns : /\ rows[job[c]] = "tomb" /\ rows' = rows
                               /\ conflicts' = conflicts \union {job[c]}
<1>1. CASE Edge \/ Crash \/ (\E s \in Seqs : Age(s)) \/ UNCHANGED vars
  BY <1>1 DEF Edge, Produce, Replay, ReceiveAck, Abandon, Dial, Send, Crash, Age, vars, history
<1>2. ASSUME NEW p \in Pruners, PruneStep(p) PROVE conflicts' = conflicts
  BY <1>2, PruneFrame DEF history
<1>3. ASSUME NEW c \in Conns, Fail(c) \/ Reap(c) PROVE conflicts' = conflicts
  BY <1>3 DEF Fail, Reap, SweepIdle, ReaperCloses, history
<1>4. ASSUME NEW c \in Conns, ServeStep(c), ~Accept(c) PROVE conflicts' = conflicts
  BY <1>4 DEF ServeStep, HandleResume, CloseSuperseded, ResumeSnapshot, Snapshot, WriteResumeAck,
       ReadFrame, WriteUplinkAck, RecordResult, AfterInsert, RecordUnstorable, DropSnapshot,
       WriteDropAck, ResumeDeadline, IdleTimeout, Cleanup, history
<1>5. ASSUME NEW c \in Conns, Accept(c)
      PROVE  \/ conflicts' = conflicts
             \/ /\ rows[job[c]] = "tomb" /\ rows' = rows
                /\ conflicts' = conflicts \union {job[c]}
  BY <1>5 DEF Accept, RejectMalformed, RejectConflict, Store
<1> QED BY <1>1, <1>2, <1>3, <1>4, <1>5 DEF Next

\* A replay ends a session as a sequence conflict only when the record was
\* replaced by a tombstone, and that tombstone is there to stay.
THEOREM ConflictsMeanTombstones == Spec => []ConflictOnlyOnTombstone
<1>1. Init => ConflictOnlyOnTombstone
  BY DEF Init, ConflictOnlyOnTombstone
<1>2. IndInv /\ ConflictOnlyOnTombstone /\ [Next]_vars => ConflictOnlyOnTombstone'
  <2> SUFFICES ASSUME IndInv, ConflictOnlyOnTombstone, [Next]_vars, NEW s \in conflicts'
               PROVE  rows'[s] = "tomb"
    BY DEF ConflictOnlyOnTombstone
  <2>1. CASE s \in conflicts
    <3>1. s \in Seqs /\ rows[s] = "tomb"
      BY <2>1 DEF ConflictOnlyOnTombstone, IndInv, TypeOK, HistoryType
    <3> QED BY <3>1, KeptRowsStep
  <2>2. CASE s \notin conflicts
    BY <2>2, ConflictsStep
  <2> QED BY <2>1, <2>2
<1> QED BY <1>1, <1>2, UplinkInvariant, PTL DEF Spec

-----------------------------------------------------------------------------
(* Projected and announced once.                                           *)

\* The goroutine that inserted s has not yet announced it.
Carries(c, s) == pc[c] \in {"ack", "result", "after"} /\ status[c] = "inserted" /\ job[c] = s

\* A record is projected only as a row that is there for good; at most one
\* goroutine is about to announce it, and then nobody has.
EffectsOf(s) ==
    /\ projected[s] <= 1 /\ handled[s] <= projected[s]
    /\ rows[s] # "real" => projected[s] = 0
    /\ \A c \in Conns : Carries(c, s) => handled[s] = 0 /\ projected[s] = 1
    /\ \A c, d \in Conns : Carries(c, s) /\ Carries(d, s) => c = d

EffectsOnce == \A s \in Seqs : ~DeviceState(s) => EffectsOf(s)

\* Every step but an insertion and an announcement: no new effect, no new row
\* of the real kind and nobody new with something to announce.
Quiet ==
    /\ UNCHANGED <<projected, handled>>
    /\ \A s \in Seqs : rows'[s] = "real" => rows[s] = "real"
    /\ \A c \in Conns, s \in Seqs : Carries(c, s)' => Carries(c, s)

LEMMA QuietStep ==
    ASSUME TypeOK, JobPresent, [Next]_vars,
           \A c \in Conns : ~(Accept(c) /\ Store(c)) /\ ~AfterInsert(c)
    PROVE  Quiet
<1>0. /\ pc \in [Conns -> PcStates] /\ job \in [Conns -> Marks]
      /\ status \in [Conns -> {"none", "inserted", "duplicate"}]
      /\ rows \in [Seqs -> {"none", "real", "tomb"}]
  BY DEF TypeOK, SessionType, DbType
<1>1. CASE Edge
  <2>1. UNCHANGED <<projected, handled, rows, job, status>>
    BY <1>1 DEF Edge, Produce, Replay, ReceiveAck, Abandon, Dial, Send, history, db, session
  <2>2. pc' = pc \/ \E c \in Conns : pc' = [pc EXCEPT ![c] = "resume"]
    BY <1>1 DEF Edge, Produce, Replay, ReceiveAck, Abandon, Dial, Send, session
  <2> QED BY <1>0, <2>1, <2>2 DEF Quiet, Carries
<1>2. CASE Crash
  BY <1>0, <1>2 DEF Crash, Quiet, Carries, history, db
<1>3. CASE (\E s \in Seqs : Age(s)) \/ (\E c \in Conns : Reap(c)) \/ UNCHANGED vars
  <2>1. UNCHANGED <<history, session, rows>>
    BY <1>3 DEF Age, Reap, SweepIdle, ReaperCloses, vars, db
  <2> QED BY <2>1 DEF history, session, Quiet, Carries
<1>4. ASSUME NEW p \in Pruners, PruneStep(p) PROVE Quiet
  <2>1. UNCHANGED <<history, session>>
    BY <1>4, PruneFrame
  <2>2. \A s \in Seqs : rows'[s] = "real" => rows[s] = "real"
    BY <1>0, <1>4 DEF PruneStep, PruneStart, PruneFresh, PruneCeiling, PruneCount, PruneLower,
         PruneDelete, db
  <2> QED BY <2>1, <2>2 DEF history, session, Quiet, Carries
<1>5. ASSUME NEW c \in Conns, ServeStep(c) \/ Fail(c) PROVE Quiet
  <2>1. UNCHANGED <<projected, handled>>
    BY <1>5 DEF ServeStep, Fail, HandleResume, CloseSuperseded, ResumeSnapshot, Snapshot,
         WriteResumeAck, ReadFrame, Accept, RejectMalformed, RejectConflict, WriteUplinkAck,
         RecordResult, RecordUnstorable, DropSnapshot, WriteDropAck, ResumeDeadline,
         IdleTimeout, Cleanup, history
  <2>2. \A s \in Seqs : rows'[s] = "real" => rows[s] = "real"
    <3>1. CASE RecordUnstorable(c)
      BY <1>0, <3>1 DEF RecordUnstorable, TombstoneFails, TombstoneWritten, db
    <3>2. CASE ~RecordUnstorable(c)
      BY <1>5, <3>2 DEF ServeStep, Fail, HandleResume, CloseSuperseded, ResumeSnapshot, Snapshot,
           WriteResumeAck, ReadFrame, Accept, RejectMalformed, RejectConflict, WriteUplinkAck,
           RecordResult, AfterInsert, DropSnapshot, WriteDropAck, ResumeDeadline,
           IdleTimeout, Cleanup, db
    <3> QED BY <3>1, <3>2
  <2>3. \/ /\ UNCHANGED <<job, status>>
           /\ \E l \in PcStates : /\ pc' = [pc EXCEPT ![c] = l]
                                  /\ l \in {"ack", "result", "after"} => pc[c] \in {"ack", "result", "after"}
        \/ \E l \in PcStates \ {"ack", "result", "after"} :
              pc' = [pc EXCEPT ![c] = l] /\ \A d \in Conns \ {c} : job'[d] = job[d] /\ status'[d] = status[d]
    BY <1>0, <1>5 DEF ServeStep, Fail, HandleResume, CloseSuperseded, ResumeSnapshot, Snapshot,
         WriteResumeAck, WriteFails, ReadFrame, Accept, RejectMalformed, RejectConflict,
         WriteUplinkAck, RecordResult, RecordUnstorable, DropSnapshot, WriteDropAck,
         ResumeDeadline, IdleTimeout, Cleanup, End, EndIteration, Goto, PcStates
  <2> QED BY <1>0, <2>1, <2>2, <2>3 DEF Quiet, Carries
<1> QED BY <1>1, <1>2, <1>3, <1>4, <1>5 DEF Next

\* The class of a record is fixed from the start.
LEMMA RecStep == [Next]_vars => rec' = rec
  BY ServeFrame, PruneFrame
  DEF Next, Edge, Produce, Replay, ReceiveAck, Abandon, Dial, Send, Crash, Age, Fail, Reap,
      SweepIdle, ReaperCloses, vars, edge

LEMMA EffectsStep == IndInv /\ EffectsOnce /\ [Next]_vars => EffectsOnce'
<1> SUFFICES ASSUME IndInv, EffectsOnce, [Next]_vars, NEW s \in Seqs, ~DeviceState(s)'
             PROVE  EffectsOf(s)'
  BY DEF EffectsOnce
<1>0. /\ TypeOK /\ JobPresent
      /\ pc \in [Conns -> PcStates] /\ job \in [Conns -> Marks]
      /\ status \in [Conns -> {"none", "inserted", "duplicate"}]
      /\ rows \in [Seqs -> {"none", "real", "tomb"}]
      /\ projected \in [Seqs -> Nat] /\ handled \in [Seqs -> Nat]
  BY DEF IndInv, TypeOK, SessionType, DbType, HistoryType
<1>1. ~DeviceState(s) /\ EffectsOf(s)
  BY RecStep DEF DeviceState, EffectsOnce
<1>2. rows[s] # "none" => rows'[s] = rows[s]
  BY <1>1, KeptRowsStep
<1>3. CASE Quiet
  BY <1>0, <1>1, <1>2, <1>3 DEF Quiet, EffectsOf
<1>4. ASSUME NEW c \in Conns, Accept(c), Store(c) PROVE EffectsOf(s)'
  <2>1. /\ pc[c] = "accept" /\ job[c] \in Seqs /\ handled' = handled /\ job' = job
        /\ rows' = [rows EXCEPT ![job[c]] = "real"] /\ rows[job[c]] # "tomb"
        /\ pc' = [pc EXCEPT ![c] = "ack"]
    BY <1>0, <1>4 DEF Accept, Store, JobPresent, Goto
  <2>2. CASE rows[job[c]] = "none"
    <3>1. /\ projected' = [projected EXCEPT ![job[c]] = @ + 1]
          /\ status' = [status EXCEPT ![c] = "inserted"]
      BY <1>4, <2>2 DEF Store
    <3>2. CASE job[c] # s
      <4>1. \A d \in Conns : Carries(d, s)' => Carries(d, s)
        BY <1>0, <2>1, <3>1, <3>2 DEF Carries
      <4> QED BY <1>0, <1>1, <2>1, <3>1, <3>2, <4>1 DEF EffectsOf
    <3>3. CASE job[c] = s
      <4>1. projected[s] = 0 /\ handled[s] = 0
        BY <1>0, <1>1, <2>2, <3>3 DEF EffectsOf
      <4>2. \A d \in Conns : Carries(d, s)' => d = c
        BY <1>0, <1>1, <2>1, <3>1, <4>1 DEF Carries, EffectsOf
      <4> QED BY <1>0, <2>1, <3>1, <3>3, <4>1, <4>2 DEF EffectsOf
    <3> QED BY <3>2, <3>3
  <2>3. CASE rows[job[c]] # "none"
    <3>1. projected' = projected /\ status' = [status EXCEPT ![c] = "duplicate"]
      BY <1>0, <1>4, <2>1, <2>3 DEF Store
    <3>2. \A d \in Conns : Carries(d, s)' => Carries(d, s)
      BY <1>0, <2>1, <3>1 DEF Carries
    <3> QED BY <1>0, <1>1, <1>2, <2>1, <2>3, <3>1, <3>2 DEF EffectsOf
  <2> QED BY <2>2, <2>3
<1>5. ASSUME NEW c \in Conns, AfterInsert(c) PROVE EffectsOf(s)'
  <2>1. /\ pc[c] = "after" /\ job[c] \in Seqs /\ UNCHANGED <<projected, rows>>
        /\ handled' = [handled EXCEPT ![job[c]] = IF status[c] = "inserted" THEN @ + 1 ELSE @]
        /\ pc' = [pc EXCEPT ![c] = "read"]
        /\ job' = [job EXCEPT ![c] = 0] /\ status' = [status EXCEPT ![c] = "none"]
    BY <1>0, <1>5 DEF AfterInsert, JobPresent, Goto, EndIteration, db
  <2>2. \A d \in Conns : Carries(d, s)' => d # c /\ Carries(d, s)
    BY <1>0, <2>1 DEF Carries
  <2>3. CASE Carries(c, s)
    <3>1. handled[s] = 0 /\ projected[s] = 1 /\ job[c] = s /\ status[c] = "inserted"
      BY <1>1, <2>3 DEF EffectsOf, Carries
    <3>2. \A d \in Conns : ~Carries(d, s)'
      BY <1>1, <2>2, <2>3 DEF EffectsOf
    <3> QED BY <1>0, <1>1, <2>1, <3>1, <3>2 DEF EffectsOf
  <2>4. CASE ~Carries(c, s)
    <3>1. handled'[s] = handled[s]
      BY <1>0, <2>1, <2>4 DEF Carries
    <3> QED BY <1>0, <1>1, <2>1, <2>2, <3>1 DEF EffectsOf
  <2> QED BY <2>3, <2>4
<1> QED BY <1>0, <1>3, <1>4, <1>5, QuietStep

\* A record retention cannot touch is projected once and announced at most once,
\* however often the device replays it and whatever dies in between.
THEOREM EffectsHappenOnce == Spec => []ProjectedOnce
<1>1. Init => EffectsOnce
  BY DEF Init, EffectsOnce, EffectsOf, Carries
<1>2. EffectsOnce => ProjectedOnce
  BY DEF EffectsOnce, EffectsOf, ProjectedOnce
<1> QED BY <1>1, <1>2, EffectsStep, UplinkInvariant, PTL DEF Spec

\* A replayed record does no harm, for any number of records, connections and
\* failures: its effects happen once, and only a tombstone's replay ends a session
\* (accept_ingress, handleSequenced).
THEOREM ReplaysStayHarmless == Spec => []ReplaysHarmless
  BY EffectsHappenOnce, ConflictsMeanTombstones, PTL DEF ReplaysHarmless
=============================================================================
