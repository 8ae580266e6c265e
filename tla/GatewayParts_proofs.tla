------------------------ MODULE GatewayParts_proofs -------------------------
(***************************************************************************)
(* Four parts of the gateway, each for every value of its constants: that  *)
(* the two journals keep answering the same windows, what saves,           *)
(* reconnects and redeliveries together put into the queue of card policy  *)
(* pushes and which of them the device ends up with, what the gateway      *)
(* concludes from a device's sessions, and what the hourly limit lets      *)
(* through however senders overtake one another.                           *)
(***************************************************************************)
EXTENDS JournalStores, CardPolicySync, Presence, SendQuota, IngressWindow_proofs

-----------------------------------------------------------------------------
(* The two journals.                                                         *)

Records == {"none", "real", "tomb"}

\* The database has every record the memory has, but for some that were pruned; the
\* mark is inside the prefix, and the in-memory cursor at its end.
StoresInv ==
    /\ bySeq \in [Seqs -> Records] /\ rows \in [Seqs -> Records] /\ mark \in Nat
    /\ RunEnd(0, committed, Stored(bySeq))
    /\ 1 .. mark \subseteq Stored(bySeq)
    /\ \A s \in Seqs : rows[s] # "none" => bySeq[s] # "none"
    /\ \A s \in Seqs : s > mark /\ bySeq[s] # "none" => rows[s] # "none"

LEMMA StoredFacts ==
    ASSUME StoresInv
    PROVE  /\ MaxSeq \in Nat /\ Stored(bySeq) \in SUBSET (0 .. MaxSeq) /\ Stored(rows) \in SUBSET (0 .. MaxSeq)
           /\ Stored(rows) \subseteq Stored(bySeq)
           /\ \A s \in Stored(bySeq) : s > mark => s \in Stored(rows)
  BY StoreAssumption DEF StoresInv, Stored, Seqs

\* Both prefixes end at the same sequence.
LEMMA SameCommitted ==
    ASSUME StoresInv
    PROVE  SqlCommitted(mark, Stored(rows)) = committed /\ mark <= committed /\ committed \in Nat
<1>1. PICK S, R : S = Stored(bySeq) /\ R = Stored(rows)
  OBVIOUS
<1>2. /\ MaxSeq \in Nat /\ S \in SUBSET (0 .. MaxSeq) /\ R \in SUBSET (0 .. MaxSeq) /\ R \subseteq S
      /\ \A s \in S : s > mark => s \in R
  BY <1>1, StoredFacts
<1>3. /\ committed \in Nat /\ 1 .. committed \subseteq S /\ committed + 1 \notin S
      /\ mark \in Nat /\ 1 .. mark \subseteq S
  BY <1>1 DEF StoresInv, RunEnd
<1>4. mark <= committed
  <2> SUFFICES ASSUME ~(mark <= committed) PROVE FALSE
    OBVIOUS
  <2>1. committed + 1 \in 1 .. mark
    BY <1>3
  <2> QED BY <1>3, <2>1
<1>5. RunEnd(mark, committed, R)
  <2>1. ASSUME NEW s \in (mark + 1) .. committed PROVE s \in R
    <3>1. s \in 1 .. committed /\ s > mark
      BY <1>3
    <3> QED BY <1>2, <1>3, <3>1
  <2> QED BY <1>2, <1>3, <1>4, <2>1 DEF RunEnd
<1>6. RunEnd(mark, SqlCommitted(mark, R), R)
  BY <1>2, <1>3, SqlCommittedEnds
<1>7. SqlCommitted(mark, R) = committed
  BY <1>3, <1>5, <1>6, RunEndUnique
<1> QED BY <1>1, <1>3, <1>4, <1>7

LEMMA PutStores ==
    ASSUME NEW r \in [Seqs -> Records], NEW s \in Seqs, NEW content \in {"real", "tomb"}
    PROVE  /\ Put(r, s, content) \in [Seqs -> Records]
           /\ Stored(Put(r, s, content)) = Stored(r) \cup {s}
           /\ \A t \in Seqs : Put(r, s, content)[t] # "none" <=> r[t] # "none" \/ t = s
<1>1. Put(r, s, content) \in [Seqs -> Records]
  BY DEF Put, Records
<1>2. \A t \in Seqs : Put(r, s, content)[t] # "none" <=> r[t] # "none" \/ t = s
  BY DEF Put, Records
<1> QED BY <1>1, <1>2 DEF Stored

LEMMA PutStep ==
    ASSUME StoresInv, NEW s \in Seqs, NEW content \in {"real", "tomb"},
           MemoryPut(s, content), SqlPut(s, content), mark' = mark
    PROVE  StoresInv'
<1>1. PICK S, T : S = Stored(bySeq) /\ T = Stored(bySeq')
  OBVIOUS
<1>2. /\ bySeq' \in [Seqs -> Records] /\ T = S \cup {s} /\ rows' \in [Seqs -> Records]
      /\ \A t \in Seqs : bySeq'[t] # "none" <=> bySeq[t] # "none" \/ t = s
      /\ \A t \in Seqs : rows'[t] # "none" <=> rows[t] # "none" \/ t = s
  BY <1>1, PutStores DEF StoresInv, MemoryPut, SqlPut
<1>3. /\ committed \in Nat /\ 1 .. committed \subseteq S /\ MaxSeq \in Nat
      /\ S \in SUBSET (0 .. MaxSeq) /\ s \in 0 .. MaxSeq
  BY <1>1, StoreAssumption, StoredFacts DEF StoresInv, RunEnd, Seqs
<1>4. RunEnd(committed, committed', T)
  <2>1. committed' = GoAdvance(committed, T)
    BY <1>1 DEF MemoryPut
  <2>2. T \in SUBSET (0 .. MaxSeq) /\ (committed = 0 \/ committed \in T)
    BY <1>2, <1>3
  <2> QED BY <1>3, <2>1, <2>2, GoAdvanceEnds
<1>5. RunEnd(0, committed', T)
  <2>1. committed' \in Nat /\ committed <= committed' /\ (committed + 1) .. committed' \subseteq T /\ committed' + 1 \notin T
    BY <1>4 DEF RunEnd
  <2>2. ASSUME NEW t \in (0 + 1) .. committed' PROVE t \in T
    <3>1. t \in 1 .. committed \/ t \in (committed + 1) .. committed'
      BY <1>3, <2>1
    <3> QED BY <1>2, <1>3, <2>1, <3>1
  <2>3. 0 <= committed' /\ (0 + 1) .. committed' \subseteq T
    BY <2>1, <2>2
  <2> QED BY <2>1, <2>3 DEF RunEnd
<1>6. 1 .. mark' \subseteq T /\ mark' \in Nat
  BY <1>1, <1>2 DEF StoresInv
<1>7. \A t \in Seqs : rows'[t] # "none" => bySeq'[t] # "none"
  BY <1>2 DEF StoresInv
<1>8. \A t \in Seqs : t > mark' /\ bySeq'[t] # "none" => rows'[t] # "none"
  BY <1>2 DEF StoresInv
<1>9. RunEnd(0, committed, Stored(bySeq))' /\ (1 .. mark \subseteq Stored(bySeq))'
  BY <1>1, <1>5, <1>6 DEF Stored
<1> QED BY <1>2, <1>6, <1>7, <1>8, <1>9 DEF StoresInv

LEMMA PruneStep ==
    ASSUME StoresInv, NEW ceiling \in Seqs, NEW aged \in SUBSET Seqs, PruneIngress(ceiling, aged)
    PROVE  StoresInv'
<1>1. SqlCommitted(mark, Stored(rows)) = committed /\ mark <= committed /\ committed \in Nat
  BY SameCommitted
<1>2. /\ ceiling > mark /\ ceiling <= committed /\ mark' = ceiling /\ ceiling \in Nat /\ mark \in Nat
      /\ aged \subseteq (mark + 1) .. ceiling
      /\ rows' = [s \in Seqs |-> IF s \in aged THEN "none" ELSE rows[s]]
      /\ bySeq' = bySeq /\ committed' = committed
  BY <1>1 DEF PruneIngress, StoresInv, Seqs
<1>3. rows' \in [Seqs -> Records]
  BY <1>2 DEF StoresInv, Records
<1>4. \A s \in Seqs : rows'[s] # "none" => bySeq'[s] # "none"
  BY <1>2 DEF StoresInv
<1>5. ASSUME NEW s \in Seqs, s > mark', bySeq'[s] # "none" PROVE rows'[s] # "none"
  <2>1. s \in Nat /\ s \notin aged /\ s > mark
    BY <1>2, <1>5 DEF Seqs
  <2>2. rows'[s] = rows[s]
    BY <1>2, <2>1
  <2> QED BY <1>2, <1>5, <2>1, <2>2 DEF StoresInv
<1>6. (1 .. mark \subseteq Stored(bySeq))'
  <2>1. 1 .. committed \subseteq Stored(bySeq)
    BY DEF StoresInv, RunEnd
  <2>2. 1 .. mark' \subseteq Stored(bySeq)
    BY <1>1, <1>2, <2>1
  <2> QED BY <1>2, <2>2 DEF Stored
<1>7. RunEnd(0, committed, Stored(bySeq))'
  BY <1>2 DEF StoresInv, RunEnd, Stored
<1> QED BY <1>2, <1>3, <1>4, <1>5, <1>6, <1>7 DEF StoresInv

LEMMA StoresInvariant == Spec => []StoresInv
<1>1. Init => StoresInv
  <2> SUFFICES ASSUME Init PROVE StoresInv
    OBVIOUS
  <2>1. Stored(bySeq) = {}
    BY DEF Init, Stored
  <2>2. RunEnd(0, 0, Stored(bySeq))
    BY <2>1 DEF RunEnd
  <2> QED BY <2>1, <2>2 DEF Init, StoresInv, Records
<1>2. StoresInv /\ [Next]_vars => StoresInv'
  <2> SUFFICES ASSUME StoresInv, [Next]_vars PROVE StoresInv'
    OBVIOUS
  <2>1. ASSUME NEW s \in Seqs, Accept(s) PROVE StoresInv'
    BY <2>1, PutStep DEF Accept
  <2>2. ASSUME NEW s \in Seqs, RecordUnstorable(s) PROVE StoresInv'
    BY <2>2, PutStep DEF RecordUnstorable
  <2>3. ASSUME NEW ceiling \in Seqs, NEW aged \in SUBSET Seqs, PruneIngress(ceiling, aged) PROVE StoresInv'
    BY <2>3, PruneStep
  <2>4. CASE UNCHANGED vars
    BY <2>4 DEF vars, StoresInv, RunEnd, Stored
  <2> QED BY <2>1, <2>2, <2>3, <2>4 DEF Next
<1> QED BY <1>1, <1>2, PTL DEF Spec

\* The holes the loop closes up to the last row are the holes there are.
LEMMA AllHolesClosed ==
    ASSUME NEW S, S \in SUBSET Seqs, NEW c \in Nat
    PROVE  HoleStarts(S, c) = ClosedBy(S, c, LastAbove(c, S))
<1>1. PICK last : last = LastAbove(c, S)
  OBVIOUS
<1>2. MaxSeq \in Nat /\ S \in SUBSET (0 .. MaxSeq) /\ S \in SUBSET Nat
  BY StoreAssumption DEF Seqs
<1>3. last \in Nat /\ c <= last /\ last \in S \cup {c} /\ \A s \in S : s <= last \/ s <= c
  BY <1>1, <1>2, LastAboveFacts
<1>4. ASSUME NEW h \in HoleStarts(S, c) PROVE h \in ClosedBy(S, c, last)
  <2>1. h \in Nat /\ h > c /\ h \notin S /\ h - 1 \in S \cup {c}
    BY DEF HoleStarts, Seqs
  <2>2. PICK s \in S : s > h
    BY DEF HoleStarts
  <2>3. s \in Nat /\ s <= last
    BY <1>2, <1>3, <2>1, <2>2
  <2>4. h \in (c + 1) .. last /\ h < s
    BY <1>3, <2>1, <2>2, <2>3
  <2> QED BY <2>1, <2>3, <2>4 DEF ClosedBy
<1>5. ASSUME NEW h \in ClosedBy(S, c, last) PROVE h \in HoleStarts(S, c)
  <2>1. h \in (c + 1) .. last /\ h \notin S /\ h - 1 \in S \cup {c}
    BY DEF ClosedBy
  <2>2. PICK s \in S : h < s
    BY DEF ClosedBy
  <2>3. s \in 1 .. MaxSeq /\ h \in Nat /\ h > c /\ h \in Seqs
    BY <1>2, <1>3, <2>1, <2>2 DEF Seqs
  <2> QED BY <2>1, <2>2, <2>3 DEF HoleStarts
<1> QED BY <1>1, <1>4, <1>5

\* Both journals tell the device the right window, in every state that can be
\* reached: whatever order the records came in, and whatever has been pruned.
THEOREM WindowsStayExact == Spec => []WindowsExact
<1>1. StoresInv => WindowsExact
  <2> SUFFICES ASSUME StoresInv PROVE WindowsExact
    OBVIOUS
  <2>1. PICK S, R, c, cap : S = Stored(bySeq) /\ R = Stored(rows) /\ c = committed /\ cap = MaxMissingRanges
    OBVIOUS
  <2>2. /\ MaxSeq \in Nat /\ S \in SUBSET (0 .. MaxSeq) /\ R \in SUBSET (0 .. MaxSeq)
        /\ S \in SUBSET Nat /\ R \in SUBSET Nat /\ S \in SUBSET Seqs /\ cap \in Nat
        /\ R \subseteq S /\ \A s \in S : s > mark => s \in R
    BY <2>1, StoreAssumption, StoredFacts DEF Stored
  <2>3. c = SqlCommitted(mark, R) /\ c \in Nat /\ mark <= c /\ mark \in Nat
    BY <2>1, SameCommitted DEF StoresInv
  <2>4. \A s \in Nat : s > c => (s \in R <=> s \in S)
    BY <2>2, <2>3
  <2>5. PICK last : last = LastAbove(c, R)
    OBVIOUS
  <2>6. last = LastAbove(c, S)
    BY <2>2, <2>3, <2>4, <2>5, SameRuns
  <2>7. last \in Nat /\ c <= last /\ last \in S \cup {c} /\ last \in c .. last
    BY <2>2, <2>3, <2>6, LastAboveFacts
  <2>8. PICK F : SqlLoops(F, c, last, R, cap) /\ SqlRanges(mark, R, cap) = F[last]
    <3>1. SqlEnds(SqlRanges(mark, R, cap), c, last, R, cap)
      BY <2>2, <2>3, <2>5, SqlRangesRun
    <3> QED BY <3>1 DEF SqlEnds
  <2>9. SqlLoops(F, c, last, S, cap)
    BY <2>2, <2>3, <2>4, <2>7, <2>8, SameRuns
  <2>10. PICK G : GoLoops(G, c, last, S, cap) /\ GoScan(c, S, cap) = G[last]
    <3>1. GoEnds(GoScan(c, S, cap), c, last, S, cap)
      BY <2>2, <2>3, <2>6, GoScanRun
    <3> QED BY <3>1 DEF GoEnds
  <2>11. PICK p, g : p = F[last] /\ g = G[last]
    OBVIOUS
  <2>12. Abreast(p, g, last, S, c, cap)
    BY <2>2, <2>3, <2>7, <2>9, <2>10, <2>11, LoopsAbreast
  <2>13. Collected(p, last, S, c, cap)
    BY <2>2, <2>3, <2>7, <2>9, <2>11, LoopCollects
  <2>14. PICK w : w = SqlWindow(mark, R, cap)
    OBVIOUS
  <2>15. w = [committed |-> c, ranges |-> p.ranges, more |-> p.more]
    BY <2>3, <2>8, <2>11, <2>14 DEF SqlWindow
  <2>16. StoresAgree
    <3>1. g.ranges = p.ranges /\ ~g.inHole
      BY <2>7, <2>12 DEF Abreast
    <3>2. g.more <=> p.more
      BY <2>7, <2>12 DEF Abreast
    <3>3. g.more \in BOOLEAN /\ p.more \in BOOLEAN
      BY <2>12 DEF Abreast, GoStates, SqlStates
    <3>4. (g.more \/ (g.inHole /\ Len(g.ranges) = cap)) = p.more
      BY <3>1, <3>2, <3>3
    <3>5. GoWindow(c, S, cap) = [committed |-> c, ranges |-> g.ranges, more |-> p.more]
      BY <2>10, <2>11, <3>1, <3>4 DEF GoWindow
    <3> QED BY <2>1, <2>14, <2>15, <3>1, <3>5 DEF StoresAgree
  <2>17. WindowExact
    <3>1. PICK H : H = HoleStarts(S, c)
      OBVIOUS
    <3>2. H = ClosedBy(S, c, last)
      BY <2>2, <2>3, <2>6, <3>1, AllHolesClosed
    <3>3. IsFiniteSet(H) /\ Cardinality(H) \in Nat
      BY <2>2, <2>3, <2>7, <3>2, ClosedFinite
    <3>4. w.committed = c /\ w.ranges = p.ranges
      BY <2>15
    <3>5. w.more = p.more
      BY <2>15
    <3>6. 1 .. w.committed \subseteq S /\ w.committed + 1 \notin S
      BY <2>1, <3>4 DEF StoresInv, RunEnd
    <3>7. p.more \in BOOLEAN
      BY <2>13 DEF Collected, SqlStates
    <3>8. p.more => Cardinality(H) > cap /\ Len(p.ranges) = cap
      BY <2>13, <3>2 DEF Collected
    <3>9. ~p.more => Len(p.ranges) = Cardinality(H) /\ ~(Cardinality(H) > cap)
      BY <2>2, <2>13, <3>2, <3>3 DEF Collected
    <3>10. w.more = (Cardinality(H) > cap)
      BY <3>5, <3>7, <3>8, <3>9
    <3>11. Len(w.ranges) = IF w.more THEN cap ELSE Cardinality(H)
      BY <3>4, <3>5, <3>8, <3>9
    <3>12. \A n \in H : Cardinality({m \in H : m <= n}) <= cap
              => w.ranges[Cardinality({m \in H : m <= n})] = Interval(n, HoleEnd(S, n))
      BY <2>13, <3>2, <3>4 DEF Collected, UpTo
    <3>13. H = HoleStarts(S, w.committed)
      BY <3>1, <3>4
    <3> QED BY <2>1, <2>14, <3>6, <3>10, <3>11, <3>12, <3>13 DEF WindowExact
  <2> QED BY <2>16, <2>17 DEF WindowsExact
<1> QED BY <1>1, StoresInvariant, PTL

-----------------------------------------------------------------------------
(* The queue of card policy pushes.                                          *)

IsKey(k) == k = [version |-> k.version, set |-> k.set, attempt |-> k.attempt] /\ k.attempt \in Nat
IsRow(r) ==
  r = [key |-> r.key, status |-> r.status, accepted |-> r.accepted, late |-> r.late] /\ IsKey(r.key)
NewRow(k) == [key |-> k, status |-> "queued", accepted |-> FALSE, late |-> FALSE]

\* app.commands is a sequence of rows under keys of the right shape.
QueueTypes ==
  /\ \E S : commands \in Seq(S)
  /\ \A i \in DOMAIN commands : IsRow(commands[i])

\* Every earlier attempt at the intent of k is there, and its time is up.
Earlier(k, a) == [version |-> k.version, set |-> k.set, attempt |-> a]
EarlierLapsed(k) ==
  \A a \in 0 .. (k.attempt - 1) :
    \E j \in DOMAIN commands : commands[j].key = Earlier(k, a) /\ j \in lapsed

\* A key a push may be queued under: within the budget, all before it lapsed.
MayQueue(k) == IsKey(k) /\ k.attempt < MaxDeliveries /\ EarlierLapsed(k)

KeysDiffer == \A i, j \in DOMAIN commands : commands[i].key = commands[j].key => i = j

PushInv ==
  /\ QueueTypes /\ KeysDiffer
  /\ \A i \in DOMAIN commands : MayQueue(commands[i].key)
  /\ sess.at = "revive" => MayQueue(sess.key)

-----------------------------------------------------------------------------
(* What a step may do to the queue.                                          *)

\* The same rows under the same keys, and no time given back.
SameKeys ==
  /\ \E S : commands' \in Seq(S)
  /\ DOMAIN commands' = DOMAIN commands /\ lapsed \subseteq lapsed'
  /\ \A i \in DOMAIN commands : IsRow(commands'[i]) /\ commands'[i].key = commands[i].key

\* One more row, under a key that was not there.
Grown(k) ==
  /\ \A i \in DOMAIN commands : commands[i].key # k
  /\ commands' = Append(commands, NewRow(k)) /\ lapsed' = lapsed

LEMMA KeysAreFields ==
  ASSUME NEW k, NEW l, IsKey(k), IsKey(l),
         k.version = l.version, k.set = l.set, k.attempt = l.attempt
  PROVE  k = l
  BY DEF IsKey

LEMMA FirstKey ==
  ASSUME NEW version, NEW set
  PROVE  MayQueue(CardPolicyKey(version, set))
<1>1. CardPolicyKey(version, set).attempt = 0 /\ IsKey(CardPolicyKey(version, set))
  BY DEF CardPolicyKey, IsKey
<1> QED BY <1>1, SyncAssumption DEF MayQueue, EarlierLapsed

LEMMA UnchangedKeys ==
  ASSUME QueueTypes, UNCHANGED commands, lapsed \subseteq lapsed'
  PROVE  SameKeys
  BY DEF QueueTypes, SameKeys

LEMMA EnqueueGrows ==
  ASSUME QueueTypes, NEW k, Enqueue(k), lapsed' = lapsed
  PROVE  SameKeys \/ Grown(k)
<1>1. CASE \E i \in DOMAIN commands : commands[i].key = k
  BY <1>1, UnchangedKeys DEF Enqueue
<1>2. CASE ~\E i \in DOMAIN commands : commands[i].key = k
  BY <1>2 DEF Enqueue, Grown, NewRow
<1> QED BY <1>1, <1>2

\* A step that rewrites rows in place.
LEMMA RewriteKeeps ==
  ASSUME QueueTypes, NEW f, commands' = [i \in DOMAIN commands |-> f[i]], lapsed' = lapsed,
         \A i \in DOMAIN commands : IsRow(f[i]) /\ f[i].key = commands[i].key
  PROVE  SameKeys
<1>1. PICK S : commands \in Seq(S)
  BY DEF QueueTypes
<1>2. DOMAIN commands = 1 .. Len(commands) /\ Len(commands) \in Nat
  BY <1>1
<1> DEFINE T == {f[i] : i \in DOMAIN commands}
<1>3. commands' \in [1 .. Len(commands) -> T]
  BY <1>2
<1>4. commands' \in Seq(T)
  BY <1>2, <1>3
<1> QED BY <1>4 DEF SameKeys

\* Each of the edits the code makes to a row leaves its key alone.
LEMMA RowOf ==
  ASSUME NEW k, IsKey(k), NEW x, NEW y, NEW z
  PROVE  LET r == [key |-> k, status |-> x, accepted |-> y, late |-> z] IN IsRow(r) /\ r.key = k
  BY DEF IsRow

Accepted(r, yes) == [r EXCEPT !.status = "accepted", !.accepted = yes]
Answered(r, end) == [r EXCEPT !.status = end]
AnsweredLate(r, yes) == [r EXCEPT !.late = yes]

LEMMA RowEdits ==
  ASSUME NEW r, IsRow(r), NEW x
  PROVE  /\ IsRow(Accepted(r, x)) /\ Accepted(r, x).key = r.key
         /\ IsRow(Answered(r, x)) /\ Answered(r, x).key = r.key
         /\ IsRow(AnsweredLate(r, x)) /\ AnsweredLate(r, x).key = r.key
<1>0. r = [key |-> r.key, status |-> r.status, accepted |-> r.accepted, late |-> r.late] /\ IsKey(r.key)
  BY DEF IsRow
<1>1. Answered(r, x) = [key |-> r.key, status |-> x, accepted |-> r.accepted, late |-> r.late]
  BY <1>0 DEF Answered
<1>2. AnsweredLate(r, x) = [key |-> r.key, status |-> r.status, accepted |-> r.accepted, late |-> x]
  BY <1>0 DEF AnsweredLate
<1>3. Accepted(r, x) = [key |-> r.key, status |-> "accepted", accepted |-> x, late |-> r.late]
  <2> DEFINE q == [key |-> r.key, status |-> "accepted", accepted |-> r.accepted, late |-> r.late]
  <2>1. [r EXCEPT !.status = "accepted"] = q
    BY <1>0
  <2>2. Accepted(r, x) = [q EXCEPT !.accepted = x]
    BY <2>1, Zenon DEF Accepted
  <2>3. [q EXCEPT !.accepted = x] = [key |-> r.key, status |-> "accepted", accepted |-> x, late |-> r.late]
    OBVIOUS
  <2> QED BY <2>2, <2>3, Zenon
<1> QED BY <1>0, <1>1, <1>2, <1>3, RowOf

LEMMA QueueStep ==
  ASSUME QueueTypes, [SyncNext]_syncSpecVars
  PROVE  \/ SameKeys
         \/ \E version, set : Grown(CardPolicyKey(version, set))
         \/ sess.at = "revive" /\ Grown(sess.key)
<1>1. CASE UNCHANGED <<commands, lapsed>>
  BY <1>1, UnchangedKeys
<1>2. ASSUME NEW h \in Requests, PushEnqueues(h)
      PROVE  SameKeys \/ \E version, set : Grown(CardPolicyKey(version, set))
  BY <1>2, EnqueueGrows DEF PushEnqueues
<1>3. CASE ReconcileEnqueues
  BY <1>3, EnqueueGrows DEF ReconcileEnqueues
<1>4. CASE Revive
  BY <1>1, <1>4, EnqueueGrows DEF Revive
<1>5. CASE ReadsPending
  <2> DEFINE f == [i \in DOMAIN commands |->
                     IF i \in lapsed /\ commands[i].status \in {"queued", "accepted"}
                     THEN [commands[i] EXCEPT !.status = "expired"] ELSE commands[i]]
  <2>1. \A i \in DOMAIN commands : IsRow(f[i]) /\ f[i].key = commands[i].key
    BY DEF QueueTypes, IsRow
  <2>2. commands' = [i \in DOMAIN commands |-> f[i]] /\ lapsed' = lapsed
    BY <1>5 DEF ReadsPending
  <2> HIDE DEF f
  <2> QED BY <2>1, <2>2, RewriteKeeps
<1>6. CASE DeviceReceives
  <2> DEFINE f == [commands EXCEPT ![Head(wire)] =
                     IF @.status = "queued" THEN Accepted(@, TRUE) ELSE @]
  <2>1. ASSUME NEW i \in DOMAIN commands PROVE IsRow(f[i]) /\ f[i].key = commands[i].key
    <3>0. f[i] = commands[i] \/ f[i] = Accepted(commands[i], TRUE)
      OBVIOUS
    <3>1. \E x : f[i] = commands[i] \/ f[i] = Accepted(commands[i], x)
      BY <3>0, Zenon
    <3>2. IsRow(commands[i])
      BY DEF QueueTypes
    <3> HIDE DEF f
    <3> QED BY <3>1, <3>2, RowEdits
  <2>2. lapsed' = lapsed /\ (commands' = commands \/ commands' = f)
    BY <1>6 DEF DeviceReceives, Accepted
  <2>3. f = [i \in DOMAIN commands |-> f[i]]
    OBVIOUS
  <2> HIDE DEF f
  <2>4. CASE commands' = f
    BY <2>1, <2>2, <2>3, <2>4, RewriteKeeps
  <2> QED BY <1>1, <2>2, <2>4
<1>7. ASSUME NEW d \in done, RecordResult(d) PROVE SameKeys
  <2> DEFINE f == [commands EXCEPT ![d.cmd] =
                     IF @.status = "expired" THEN AnsweredLate(@, TRUE) ELSE Answered(@, d.end)]
  <2>1. ASSUME NEW i \in DOMAIN commands PROVE IsRow(f[i]) /\ f[i].key = commands[i].key
    <3>0. f[i] = commands[i] \/ f[i] = AnsweredLate(commands[i], TRUE) \/ f[i] = Answered(commands[i], d.end)
      OBVIOUS
    <3>1. \E x : f[i] = commands[i] \/ f[i] = AnsweredLate(commands[i], x) \/ f[i] = Answered(commands[i], x)
      BY <3>0, Zenon
    <3>2. IsRow(commands[i])
      BY DEF QueueTypes
    <3> HIDE DEF f
    <3> QED BY <3>1, <3>2, RowEdits
  <2>2. lapsed' = lapsed /\ commands' = f
    BY <1>7 DEF RecordResult, Answered, AnsweredLate
  <2>3. f = [i \in DOMAIN commands |-> f[i]]
    OBVIOUS
  <2> HIDE DEF f
  <2> QED BY <2>1, <2>2, <2>3, RewriteKeeps
<1>8. ASSUME NEW i \in DOMAIN commands, Lapse(i) PROVE SameKeys
  BY <1>8, UnchangedKeys DEF Lapse
<1>9. ASSUME NEW h \in Requests, NEW c \in SyncCards, NEW says \in Contents \cup {NoPolicy},
             SavePolicy(h, c, says)
      PROVE  UNCHANGED <<commands, lapsed>>
  BY <1>9 DEF SavePolicy
<1>10. ASSUME NEW h \in Requests, PushLists(h) \/ PushVersions(h) \/ PushFails(h)
       PROVE  UNCHANGED <<commands, lapsed>>
  BY <1>10 DEF PushLists, PushVersions, PushFails
<1>11. Resume \/ ReconcileVersions \/ ReconcileLists \/ ReconcileFails \/ RedeliverReads
       \/ PendingFails \/ CheckPending \/ LinkLost \/ UNCHANGED syncSpecVars
       => UNCHANGED <<commands, lapsed>>
  BY DEF Resume, ReconcileVersions, ReconcileLists, ReconcileFails, RedeliverReads, PendingFails,
         CheckPending, LinkLost, syncSpecVars, syncVars
<1> QED BY <1>1, <1>2, <1>3, <1>4, <1>5, <1>6, <1>7, <1>8, <1>9, <1>10, <1>11
    DEF SyncNext, RequestStep, SessionStep

\* The session comes to hold a key to queue again only from the newest command,
\* lapsed and within its budget.
LEMMA ReviveStep ==
  ASSUME QueueTypes, [SyncNext]_syncSpecVars, sess'.at = "revive"
  PROVE  \/ sess' = sess
         \/ /\ UNCHANGED <<commands, lapsed>>
            /\ \E n \in DOMAIN commands : /\ planCardPolicyRedelivery(n)
                                         /\ sess'.key = cardPolicyRevivalKey(commands[n].key)
<1> USE DEF Step, Idle
<1>1. CASE RedeliverReads
  <2>1. PICK S : commands \in Seq(S)
    BY DEF QueueTypes
  <2>2. Len(commands) > 0 => Len(commands) \in DOMAIN commands
    BY <2>1
  <2> QED BY <1>1, <2>2 DEF RedeliverReads
<1>2. ASSUME NEW h \in Requests, PushLists(h) \/ PushVersions(h) \/ PushEnqueues(h) \/ PushFails(h)
      PROVE  sess' = sess
  BY <1>2 DEF PushLists, PushVersions, PushEnqueues, PushFails
<1>3. ASSUME NEW h \in Requests, NEW c \in SyncCards, NEW says \in Contents \cup {NoPolicy},
             SavePolicy(h, c, says)
      PROVE  sess' = sess
  BY <1>3 DEF SavePolicy
<1>4. LinkLost \/ DeviceReceives \/ (\E d \in done : RecordResult(d))
      \/ (\E i \in DOMAIN commands : Lapse(i)) \/ UNCHANGED syncSpecVars => sess' = sess
  BY DEF LinkLost, DeviceReceives, RecordResult, Lapse, syncSpecVars, syncVars
<1>5. ~(Resume \/ ReconcileVersions \/ ReconcileLists \/ ReconcileEnqueues \/ ReconcileFails
        \/ CheckPending \/ Revive \/ ReadsPending \/ PendingFails)
  BY DEF Resume, ReconcileVersions, ReconcileLists, ReconcileEnqueues, ReconcileFails,
         CheckPending, Revive, ReadsPending, PendingFails
<1> QED BY <1>1, <1>2, <1>3, <1>4, <1>5 DEF SyncNext, RequestStep, SessionStep

-----------------------------------------------------------------------------
(* The invariant.                                                            *)

\* A row more is a row at the end.
LEMMA GrownRows ==
  ASSUME QueueTypes, NEW k, IsKey(k), Grown(k)
  PROVE  /\ QueueTypes' /\ lapsed' = lapsed
         /\ DOMAIN commands \subseteq DOMAIN commands'
         /\ \A i \in DOMAIN commands : commands'[i] = commands[i]
         /\ \E n \in DOMAIN commands' :
              /\ commands'[n].key = k
              /\ \A i \in DOMAIN commands' : i \in DOMAIN commands \/ i = n
<1>1. PICK S : commands \in Seq(S)
  BY DEF QueueTypes
<1>2. NewRow(k).key = k /\ IsRow(NewRow(k))
  BY RowOf DEF NewRow, IsRow
<1> DEFINE r == NewRow(k)
           T == S \cup {r}
<1>3. r.key = k /\ IsRow(r) /\ commands \in Seq(T) /\ r \in T /\ commands' = Append(commands, r)
      /\ lapsed' = lapsed
  BY <1>1, <1>2 DEF Grown
<1> HIDE DEF r, T
<1>4. /\ commands' \in Seq(T) /\ Len(commands) \in Nat
      /\ DOMAIN commands = 1 .. Len(commands) /\ DOMAIN commands' = 1 .. (Len(commands) + 1)
      /\ \A i \in 1 .. Len(commands) : commands'[i] = commands[i]
      /\ commands'[Len(commands) + 1] = r
  BY <1>3
<1>5. Len(commands) + 1 \in DOMAIN commands' /\ DOMAIN commands \subseteq DOMAIN commands'
      /\ \A i \in DOMAIN commands' : i \in DOMAIN commands \/ i = Len(commands) + 1
  BY <1>4
<1>6. QueueTypes'
  BY <1>3, <1>4, <1>5 DEF QueueTypes
<1> QED BY <1>3, <1>4, <1>5, <1>6

\* What may be queued may still be queued after a step.
LEMMA MayQueueStays ==
  ASSUME NEW k, MayQueue(k), lapsed \subseteq lapsed', DOMAIN commands \subseteq DOMAIN commands',
         \A i \in DOMAIN commands : commands'[i].key = commands[i].key
  PROVE  /\ IsKey(k) /\ k.attempt < MaxDeliveries
         /\ \A a \in 0 .. (k.attempt - 1) :
              \E j \in DOMAIN commands' : commands'[j].key = Earlier(k, a) /\ j \in lapsed'
  BY DEF MayQueue, EarlierLapsed

\* The attempt after a lapsed one may be queued.
LEMMA RevivalMayQueue ==
  ASSUME PushInv, NEW n \in DOMAIN commands, planCardPolicyRedelivery(n)
  PROVE  MayQueue(cardPolicyRevivalKey(commands[n].key))
<1> DEFINE k == commands[n].key
           l == cardPolicyRevivalKey(k)
<1>1. MayQueue(k) /\ n \in lapsed /\ k.attempt + 1 < MaxDeliveries
  BY DEF PushInv, planCardPolicyRedelivery, cardPolicyAttempts
<1>2. /\ k = [version |-> k.version, set |-> k.set, attempt |-> k.attempt] /\ k.attempt \in Nat
  BY <1>1 DEF MayQueue, IsKey
<1>3. l = [version |-> k.version, set |-> k.set, attempt |-> k.attempt + 1]
  BY <1>2 DEF cardPolicyRevivalKey, cardPolicyAttempts
<1>4. IsKey(l) /\ l.attempt = k.attempt + 1 /\ l.version = k.version /\ l.set = k.set
  BY <1>2, <1>3 DEF IsKey
<1>5. ASSUME NEW a \in 0 .. (l.attempt - 1)
      PROVE  \E j \in DOMAIN commands : commands[j].key = Earlier(l, a) /\ j \in lapsed
  <2>1. Earlier(l, a) = Earlier(k, a)
    BY <1>4 DEF Earlier
  <2>2. CASE a = k.attempt
    <3>1. Earlier(k, a) = k
      BY <1>2, <2>2 DEF Earlier
    <3> QED BY <1>1, <2>1, <3>1
  <2>3. CASE a \in 0 .. (k.attempt - 1)
    BY <1>1, <2>1, <2>3 DEF MayQueue, EarlierLapsed
  <2> QED BY <1>2, <1>4, <2>2, <2>3
<1> QED BY <1>1, <1>4, <1>5 DEF MayQueue, EarlierLapsed

LEMMA PushStep == PushInv /\ [SyncNext]_syncSpecVars => PushInv'
<1> SUFFICES ASSUME PushInv, [SyncNext]_syncSpecVars PROVE PushInv'
  OBVIOUS
<1>0. QueueTypes /\ KeysDiffer /\ \A i \in DOMAIN commands : MayQueue(commands[i].key)
  BY DEF PushInv
<1>1. /\ QueueTypes' /\ KeysDiffer' /\ \A i \in DOMAIN commands' : MayQueue(commands[i].key)'
      /\ lapsed \subseteq lapsed' /\ DOMAIN commands \subseteq DOMAIN commands'
      /\ \A i \in DOMAIN commands : commands'[i].key = commands[i].key
  <2>1. CASE SameKeys
    <3>1. /\ DOMAIN commands' = DOMAIN commands /\ lapsed \subseteq lapsed'
          /\ \A i \in DOMAIN commands : commands'[i].key = commands[i].key
          /\ QueueTypes'
      BY <2>1 DEF SameKeys, QueueTypes
    <3>2. ASSUME NEW i \in DOMAIN commands' PROVE MayQueue(commands[i].key)'
      <4>1. MayQueue(commands[i].key) /\ commands'[i].key = commands[i].key
        BY <1>0, <3>1
      <4> QED BY <3>1, <4>1, MayQueueStays DEF MayQueue, EarlierLapsed
    <3>3. KeysDiffer'
      BY <1>0, <3>1 DEF KeysDiffer
    <3> QED BY <3>1, <3>2, <3>3
  <2>2. ASSUME NEW k, MayQueue(k), Grown(k)
        PROVE  /\ QueueTypes' /\ KeysDiffer' /\ \A i \in DOMAIN commands' : MayQueue(commands[i].key)'
               /\ lapsed \subseteq lapsed' /\ DOMAIN commands \subseteq DOMAIN commands'
               /\ \A i \in DOMAIN commands : commands'[i].key = commands[i].key
    <3>0. IsKey(k)
      BY <2>2 DEF MayQueue
    <3>1. /\ QueueTypes' /\ lapsed' = lapsed /\ DOMAIN commands \subseteq DOMAIN commands'
          /\ \A i \in DOMAIN commands : commands'[i] = commands[i]
      BY <1>0, <2>2, <3>0, GrownRows
    <3>2. PICK n \in DOMAIN commands' :
            /\ commands'[n].key = k
            /\ \A i \in DOMAIN commands' : i \in DOMAIN commands \/ i = n
      BY <1>0, <2>2, <3>0, GrownRows
    <3>3. ASSUME NEW i \in DOMAIN commands' PROVE MayQueue(commands[i].key)'
      <4>1. MayQueue(commands'[i].key)
        BY <1>0, <2>2, <3>1, <3>2
      <4> QED BY <3>1, <4>1, MayQueueStays DEF MayQueue, EarlierLapsed
    <3>4. KeysDiffer'
      BY <1>0, <2>2, <3>1, <3>2 DEF KeysDiffer, Grown
    <3> QED BY <3>1, <3>3, <3>4
  <2>3. ASSUME NEW version, NEW set PROVE MayQueue(CardPolicyKey(version, set))
    BY FirstKey
  <2>4. sess.at = "revive" => MayQueue(sess.key)
    BY DEF PushInv
  <2> QED BY <1>0, <2>1, <2>2, <2>3, <2>4, QueueStep
<1>2. ASSUME sess'.at = "revive" PROVE MayQueue(sess.key)'
  <2>1. MayQueue(sess'.key)
    <3>1. CASE sess' = sess
      BY <1>2, <3>1 DEF PushInv
    <3>2. CASE \E n \in DOMAIN commands : /\ planCardPolicyRedelivery(n)
                                         /\ sess'.key = cardPolicyRevivalKey(commands[n].key)
      BY <3>2, RevivalMayQueue
    <3> QED BY <1>0, <1>2, <3>1, <3>2, ReviveStep
  <2> QED BY <1>1, <2>1, MayQueueStays DEF MayQueue, EarlierLapsed
<1> QED BY <1>1, <1>2 DEF PushInv

LEMMA PushInvariant == SyncSpec => []PushInv
<1>1. SyncInit => PushInv
  <2> SUFFICES ASSUME SyncInit PROVE PushInv
    OBVIOUS
  <2>1. commands = <<>> /\ sess.at = "idle"
    BY DEF SyncInit, Idle, Step
  <2>2. commands \in Seq({}) /\ DOMAIN commands = {}
    BY <2>1
  <2> QED BY <2>1, <2>2 DEF PushInv, QueueTypes, KeysDiffer
<1> QED BY <1>1, PushStep, PTL DEF SyncSpec

\* However many saves, reconnects and redeliveries repeat it, an intent becomes
\* at most MaxDeliveries commands, and no attempt at it two.
THEOREM DeliveriesStayBounded == SyncSpec => []DeliveriesBounded
<1>1. PushInv => DeliveriesBounded
  BY DEF PushInv, DeliveriesBounded, KeysDiffer, MayQueue
<1> QED BY <1>1, PushInvariant, PTL

\* A redelivery never joins a push that can still be delivered: of one intent at
\* most one command is live.
THEOREM OneIsLive == SyncSpec => []OneLivePerIntent
<1>1. PushInv => OneLivePerIntent
  <2> SUFFICES ASSUME PushInv, NEW i \in DOMAIN commands, NEW j \in DOMAIN commands,
                      Deliverable(i), Deliverable(j), Intent(commands[i].key) = Intent(commands[j].key)
               PROVE  i = j
    BY DEF OneLivePerIntent
  <2> DEFINE k(n) == commands[n].key
  <2>1. /\ k(i).version = k(j).version /\ k(i).set = k(j).set
        /\ i \notin lapsed /\ j \notin lapsed
        /\ MayQueue(k(i)) /\ MayQueue(k(j)) /\ KeysDiffer
    BY DEF PushInv, Intent, Deliverable
  <2>2. ASSUME NEW p \in DOMAIN commands, NEW q \in DOMAIN commands, p \notin lapsed,
               MayQueue(k(p)), MayQueue(k(q)), k(p).version = k(q).version, k(p).set = k(q).set
        PROVE  ~(k(p).attempt < k(q).attempt)
    <3> SUFFICES ASSUME k(p).attempt < k(q).attempt PROVE FALSE
      OBVIOUS
    <3>1. IsKey(k(p)) /\ IsKey(k(q)) /\ k(p).attempt \in Nat /\ k(q).attempt \in Nat
      BY <2>2 DEF MayQueue, IsKey
    <3>2. k(p).attempt \in 0 .. (k(q).attempt - 1)
      BY <3>1
    <3>3. PICK m \in DOMAIN commands : commands[m].key = Earlier(k(q), k(p).attempt) /\ m \in lapsed
      BY <2>2, <3>2 DEF MayQueue, EarlierLapsed
    <3>4. Earlier(k(q), k(p).attempt) = k(p)
      BY <2>2, <3>1 DEF Earlier, IsKey
    <3>5. m = p
      BY <2>1, <3>3, <3>4 DEF KeysDiffer
    <3> QED BY <2>2, <3>3, <3>5
  <2>3. k(i).attempt \in Nat /\ k(j).attempt \in Nat /\ IsKey(k(i)) /\ IsKey(k(j))
    BY <2>1 DEF MayQueue, IsKey
  <2>4. k(i).attempt = k(j).attempt
    BY <2>1, <2>2, <2>3
  <2>5. k(i) = k(j)
    BY <2>1, <2>3, <2>4, KeysAreFields
  <2> QED BY <2>1, <2>5 DEF KeysDiffer
<1> QED BY <1>1, PushInvariant, PTL

\* Repeating a push is bounded, for any number of cards, requests, lapses and
\* reconnects: at most MaxDeliveries commands of an intent, and never two of them
\* deliverable (planCardPolicyRedelivery, app.enqueue_command).
THEOREM RepeatsStayBounded == SyncSpec => []RepeatsBounded
  BY DeliveriesStayBounded, OneIsLive, PTL DEF RepeatsBounded

-----------------------------------------------------------------------------
(* The order of delivery.                                                    *)

\* The commands among the first n that can be delivered, oldest first; those that
\* the limit leaves out are newer than all the others.
InOrder(w, n) ==
  /\ w \in Seq(1 .. n)
  /\ \A j, k \in DOMAIN w : j < k => w[j] < w[k]
  /\ \A k \in DOMAIN w : Deliverable(w[k])
  /\ \A i \in 1 .. n : Deliverable(i) =>
       \/ \E k \in DOMAIN w : w[k] = i
       \/ Len(w) >= PendingLimit /\ \A k \in DOMAIN w : w[k] < i

Selects(F, N) ==
  F = [n \in 0 .. N |-> IF n = 0 THEN <<>>
                        ELSE IF Deliverable(n) /\ Len(F[n - 1]) < PendingLimit
                             THEN Append(F[n - 1], n) ELSE F[n - 1]]

\* The recursion that defines Pending has a solution.
LEMMA SelectionExists == \A N \in Nat : \E F : Selects(F, N)
<1> DEFINE T == {N \in Nat : ~\E F : Selects(F, N)}
<1> SUFFICES ASSUME T # {} PROVE FALSE
  OBVIOUS
<1>1. PICK m \in T : \A t \in T : m <= t
  <2>1. T \in SUBSET Nat
    OBVIOUS
  <2> HIDE DEF T
  <2> QED BY <2>1, SmallestExists
<1>2. m # 0
  <2>1. Selects([n \in 0 .. 0 |-> <<>>], 0)
    BY DEF Selects
  <2> QED BY <1>1, <2>1
<1>3. m - 1 \in Nat /\ m - 1 \notin T /\ m \in Nat
  BY <1>1, <1>2
<1>4. PICK F : Selects(F, m - 1)
  BY <1>3
<1> DEFINE last == IF Deliverable(m) /\ Len(F[m - 1]) < PendingLimit THEN Append(F[m - 1], m) ELSE F[m - 1]
           G == [n \in 0 .. m |-> IF n = m THEN last ELSE F[n]]
<1>5. ASSUME NEW n \in 0 .. m
      PROVE  G[n] = IF n = 0 THEN <<>>
                    ELSE IF Deliverable(n) /\ Len(G[n - 1]) < PendingLimit
                         THEN Append(G[n - 1], n) ELSE G[n - 1]
  <2>1. CASE n = m
    <3>1. G[m - 1] = F[m - 1]
      BY <1>3
    <3> QED BY <1>2, <1>3, <2>1, <3>1
  <2>2. CASE n = 0
    BY <1>2, <1>3, <1>4, <2>2 DEF Selects
  <2>3. CASE n \in 1 .. (m - 1)
    <3>1. n \in 0 .. (m - 1) /\ n - 1 \in 0 .. m /\ n - 1 # m /\ n # m /\ n # 0
      BY <1>3, <2>3
    <3>2. G[n] = F[n] /\ G[n - 1] = F[n - 1]
      BY <1>3, <3>1
    <3>3. F[n] = IF Deliverable(n) /\ Len(F[n - 1]) < PendingLimit THEN Append(F[n - 1], n) ELSE F[n - 1]
      BY <1>4, <3>1 DEF Selects
    <3> HIDE DEF G, last
    <3> QED BY <3>1, <3>2, <3>3
  <2> QED BY <1>3, <2>1, <2>2, <2>3
<1>6. Selects(G, m)
  <2>1. G = [n \in 0 .. m |-> G[n]]
    OBVIOUS
  <2> HIDE DEF G, last
  <2> QED BY <1>5, <2>1 DEF Selects
<1> QED BY <1>1, <1>6

LEMMA SelectionInOrder ==
  ASSUME NEW N \in Nat, NEW F, Selects(F, N)
  PROVE  InOrder(F[N], N)
<1> DEFINE T == {n \in 0 .. N : ~InOrder(F[n], n)}
<1> SUFFICES ASSUME T # {} PROVE FALSE
  OBVIOUS
<1>1. PICK m \in T : \A t \in T : m <= t
  <2>1. T \in SUBSET Nat
    OBVIOUS
  <2> HIDE DEF T
  <2> QED BY <2>1, SmallestExists
<1>2. CASE m = 0
  <2>1. 0 \in 0 .. N /\ ~InOrder(F[0], 0)
    BY <1>1, <1>2
  <2>2. F[0] = << >>
    BY <2>1 DEF Selects
  <2>3. InOrder(<< >>, 0)
    BY DEF InOrder
  <2> QED BY <2>1, <2>2, <2>3
<1>3. CASE m # 0
  <2>1. m \in 1 .. N /\ m - 1 \in 0 .. N /\ m - 1 \notin T
    BY <1>1, <1>3
  <2> DEFINE v == F[m - 1]
  <2>2. InOrder(v, m - 1)
    BY <2>1
  <2>3. F[m] = IF Deliverable(m) /\ Len(v) < PendingLimit THEN Append(v, m) ELSE v
    <3>1. m \in 0 .. N /\ m # 0
      BY <2>1
    <3>2. F[m] = IF m = 0 THEN <<>>
                 ELSE IF Deliverable(m) /\ Len(F[m - 1]) < PendingLimit
                      THEN Append(F[m - 1], m) ELSE F[m - 1]
      BY <3>1, Zenon DEF Selects
    <3> HIDE DEF T
    <3> QED BY <3>1, <3>2, Zenon
  <2>4. v \in Seq(1 .. m - 1) /\ v \in Seq(1 .. m) /\ Len(v) \in Nat /\ DOMAIN v = 1 .. Len(v)
    BY <2>1, <2>2 DEF InOrder
  <2>5. /\ \A j, k \in DOMAIN v : j < k => v[j] < v[k]
        /\ \A k \in DOMAIN v : Deliverable(v[k]) /\ v[k] \in 1 .. (m - 1)
        /\ \A i \in 1 .. (m - 1) : Deliverable(i) =>
             \/ \E k \in DOMAIN v : v[k] = i
             \/ Len(v) >= PendingLimit /\ \A k \in DOMAIN v : v[k] < i
    BY <2>2, <2>4 DEF InOrder
  <2> HIDE DEF v
  <2>6. CASE Deliverable(m) /\ Len(v) < PendingLimit
    <3> DEFINE w == Append(v, m)
    <3>1. /\ w \in Seq(1 .. m) /\ DOMAIN w = 1 .. Len(v) + 1
          /\ \A k \in 1 .. Len(v) : w[k] = v[k] 
          /\ w[Len(v) + 1] = m
      BY <2>1, <2>4
    <3> HIDE DEF w
    <3>0. m \in Nat /\ \A k \in DOMAIN v : v[k] \in Nat /\ v[k] < m
      BY <2>1, <2>5
    <3>2. ASSUME NEW j \in DOMAIN w, NEW k \in DOMAIN w, j < k PROVE w[j] < w[k]
      <4>0. PICK L \in Nat : L = Len(v)
        BY <2>4
      <4>a. j \in 1 .. L + 1 /\ k \in 1 .. L + 1 /\ DOMAIN v = 1 .. L
        BY <2>4, <3>1, <4>0
      <4>b. j \in 1 .. L
        BY <3>2, <4>a
      <4>1. j \in DOMAIN v /\ w[j] = v[j]
        BY <3>1, <4>0, <4>a, <4>b
      <4>2. CASE k \in DOMAIN v
        <5>1. w[k] = v[k]
          BY <2>4, <3>1, <4>2
        <5> QED BY <2>5, <3>2, <4>1, <4>2, <5>1
      <4>3. CASE k = Len(v) + 1
        BY <3>0, <3>1, <4>1, <4>3
      <4> QED BY <2>4, <3>1, <4>2, <4>3
    <3>3. ASSUME NEW i \in 1 .. m, Deliverable(i) PROVE \E k \in DOMAIN w : w[k] = i
      <4>0. Len(v) + 1 \in DOMAIN w /\ DOMAIN v \subseteq DOMAIN w
        BY <2>4, <3>1
      <4>1. CASE i = m
        BY <3>1, <4>0, <4>1
      <4>2. CASE i \in 1 .. (m - 1)
        <5>1. ~(Len(v) >= PendingLimit)
          BY <2>4, <2>6, SyncAssumption
        <5>2. PICK k \in DOMAIN v : v[k] = i
          BY <2>5, <3>3, <4>2, <5>1
        <5> QED BY <2>4, <3>1, <4>0, <5>2
      <4> QED BY <2>1, <4>1, <4>2
    <3>5. ASSUME NEW k \in DOMAIN w PROVE Deliverable(w[k])
      <4>1. CASE k \in DOMAIN v
        BY <2>4, <2>5, <3>1, <4>1
      <4>2. CASE k = Len(v) + 1
        BY <2>6, <3>1, <4>2
      <4> QED BY <2>4, <3>1, <4>1, <4>2
    <3>4. F[m] = w
      BY <2>3, <2>6 DEF w
    <3> QED BY <1>1, <3>1, <3>2, <3>3, <3>4, <3>5 DEF InOrder
  <2>7. CASE ~(Deliverable(m) /\ Len(v) < PendingLimit)
    <3>1. ASSUME NEW i \in 1 .. m, Deliverable(i)
          PROVE  \/ \E k \in DOMAIN v : v[k] = i
                 \/ Len(v) >= PendingLimit /\ \A k \in DOMAIN v : v[k] < i
      <4>1. CASE i = m
        <5>1. Len(v) >= PendingLimit
          BY <2>4, <2>7, <3>1, <4>1, SyncAssumption
        <5>2. \A k \in DOMAIN v : v[k] < i
          BY <2>1, <2>5, <4>1
        <5> QED BY <5>1, <5>2
      <4>2. CASE i \in 1 .. (m - 1)
        BY <2>5, <3>1, <4>2
      <4> QED BY <2>1, <4>1, <4>2
    <3>2. F[m] = v
      BY <2>3, <2>7
    <3> QED BY <1>1, <2>4, <2>5, <3>1, <3>2 DEF InOrder
  <2> QED BY <2>6, <2>7
<1> QED BY <1>2, <1>3

LEMMA PendingInOrder ==
  ASSUME Len(commands) \in Nat
  PROVE  InOrder(Pending, Len(commands))
<1>1. PICK F : Selects(F, Len(commands))
  BY SelectionExists
<1> DEFINE G == CHOOSE f : Selects(f, Len(commands))
<1>2. Selects(G, Len(commands))
  BY <1>1
<1>3. Pending = G[Len(commands)]
  BY DEF Pending, Selects
<1> HIDE DEF G
<1> QED BY <1>2, <1>3, SelectionInOrder

-----------------------------------------------------------------------------
(* An older push never undoes a newer one.                                   *)

IsDone(i) == \E d \in done : d.cmd = i

BoxTypes ==
  /\ \A d \in done : d.cmd \in DOMAIN commands /\ d.end \in {"succeeded", "failed"}
  /\ wire \in Seq(DOMAIN commands)

\* Deliveries travel oldest first.
WireInOrder == \A j, k \in DOMAIN wire : j < k => wire[j] < wire[k]

\* What is older than a command the device has carried out it has too, or it is
\* never sent again.
OlderAreOver ==
  \A d \in done : \A i \in DOMAIN commands : i < d.cmd => IsDone(i) \/ ~Deliverable(i)

\* What is on its way and older than a command carried out is a repetition.
OlderAreRepeats ==
  \A d \in done : \A k \in DOMAIN wire : wire[k] < d.cmd => IsDone(wire[k])

\* Nothing that could still be sent is overtaken by what is on its way.
NoneOvertaken ==
  \A k \in DOMAIN wire : \A i \in DOMAIN commands :
    i < wire[k] => IsDone(i) \/ ~Deliverable(i) \/ \E l \in DOMAIN wire : wire[l] = i

OrderInv ==
  /\ BoxTypes /\ WireInOrder /\ OlderAreOver /\ OlderAreRepeats /\ NoneOvertaken
  /\ NewestAppliedHeld

-----------------------------------------------------------------------------
(* What a step may do to the commands.                                       *)

\* Commands keep their keys, and none becomes deliverable again.
QueueMoves ==
  /\ DOMAIN commands \subseteq DOMAIN commands'
  /\ \A i \in DOMAIN commands' : i \in Nat
  /\ \A i \in DOMAIN commands : commands'[i].key = commands[i].key
  /\ \A i \in DOMAIN commands : Deliverable(i)' => Deliverable(i)
  /\ \A n \in DOMAIN commands' \ DOMAIN commands : \A i \in DOMAIN commands : i < n

StatusStays == \A i \in DOMAIN commands : commands'[i].status = "queued" => commands[i].status = "queued"

LEMMA CommandIndices ==
  ASSUME QueueTypes
  PROVE  Len(commands) \in Nat /\ DOMAIN commands = 1 .. Len(commands) /\ \A i \in DOMAIN commands : i \in Nat
<1>1. PICK S : commands \in Seq(S)
  BY DEF QueueTypes
<1> QED BY <1>1

LEMMA GrownMoves ==
  ASSUME QueueTypes, NEW k, Grown(k)
  PROVE  QueueMoves
<1>1. PICK S : commands \in Seq(S)
  BY DEF QueueTypes
<1> DEFINE r == NewRow(k)
           T == S \cup {r}
<1>2. commands \in Seq(T) /\ r \in T /\ commands' = Append(commands, r) /\ lapsed' = lapsed
  BY <1>1 DEF Grown
<1> HIDE DEF r, T
<1>3. /\ Len(commands) \in Nat /\ DOMAIN commands = 1 .. Len(commands)
      /\ DOMAIN commands' = 1 .. (Len(commands) + 1)
      /\ \A i \in DOMAIN commands : commands'[i] = commands[i]
  BY <1>2
<1>4. \A i \in DOMAIN commands : Deliverable(i)' => Deliverable(i)
  BY <1>2, <1>3 DEF Deliverable
<1>5. /\ DOMAIN commands \subseteq DOMAIN commands' /\ \A i \in DOMAIN commands' : i \in Nat
      /\ \A n \in DOMAIN commands' \ DOMAIN commands : \A i \in DOMAIN commands : i < n
  BY <1>3
<1> QED BY <1>3, <1>4, <1>5 DEF QueueMoves

LEMMA SameMoves ==
  ASSUME QueueTypes, SameKeys, StatusStays
  PROVE  QueueMoves
<1>1. \A i \in DOMAIN commands : i \in Nat
  BY CommandIndices
<1>2. /\ DOMAIN commands' = DOMAIN commands /\ lapsed \subseteq lapsed'
      /\ \A i \in DOMAIN commands : commands'[i].key = commands[i].key
  BY DEF SameKeys
<1>3. \A i \in DOMAIN commands : Deliverable(i)' => Deliverable(i)
  BY <1>2 DEF StatusStays, Deliverable
<1> QED BY <1>1, <1>2, <1>3 DEF QueueMoves

\* A row that is not new is not put back.
LEMMA StatusStep ==
  ASSUME QueueTypes, BoxTypes, [SyncNext]_syncSpecVars, SameKeys
  PROVE  StatusStays
<1>1. CASE commands' = commands
  BY <1>1 DEF StatusStays
<1>2. CASE DeviceReceives
  <2>1. ASSUME NEW i \in DOMAIN commands, commands'[i].status = "queued" PROVE commands[i].status = "queued"
    <3>1. commands'[i] = commands[i] \/ commands[i].status = "queued"
      BY <1>2 DEF DeviceReceives
    <3> QED BY <2>1, <3>1
  <2> QED BY <2>1 DEF StatusStays
<1>3. CASE ReadsPending
  <2>1. ASSUME NEW i \in DOMAIN commands, commands'[i].status = "queued" PROVE commands[i].status = "queued"
    <3>1. commands'[i] = commands[i] \/ commands'[i] = [commands[i] EXCEPT !.status = "expired"]
      BY <1>3 DEF ReadsPending
    <3>2. IsRow(commands[i])
      BY DEF QueueTypes
    <3>3. [commands[i] EXCEPT !.status = "expired"].status = "expired"
      BY <3>2 DEF IsRow
    <3> QED BY <2>1, <3>1, <3>3
  <2> QED BY <2>1 DEF StatusStays
<1>4. ASSUME NEW d \in done, RecordResult(d) PROVE StatusStays
  <2>1. ASSUME NEW i \in DOMAIN commands, commands'[i].status = "queued" PROVE commands[i].status = "queued"
    <3>0. d.end \in {"succeeded", "failed"}
      BY DEF BoxTypes
    <3>1. \/ commands'[i] = commands[i]
          \/ commands[i].status = "expired" /\ commands'[i] = [commands[i] EXCEPT !.late = TRUE]
          \/ commands'[i] = [commands[i] EXCEPT !.status = d.end]
      BY <1>4 DEF RecordResult
    <3>2. IsRow(commands[i])
      BY DEF QueueTypes
    <3>3. [commands[i] EXCEPT !.late = TRUE].status = commands[i].status
      BY <3>2 DEF IsRow
    <3>4. [commands[i] EXCEPT !.status = d.end].status = d.end
      BY <3>2 DEF IsRow
    <3> QED BY <2>1, <3>0, <3>1, <3>3, <3>4
  <2> QED BY <2>1 DEF StatusStays
<1>5. ASSUME NEW k, Enqueue(k) PROVE commands' = commands
  <2>1. PICK S : commands \in Seq(S)
    BY DEF QueueTypes
  <2> DEFINE r == [key |-> k, status |-> "queued", accepted |-> FALSE, late |-> FALSE]
             T == S \cup {r}
  <2>2. commands' = commands \/ commands' = Append(commands, r)
    BY <1>5 DEF Enqueue
  <2>3. commands \in Seq(T) /\ r \in T
    BY <2>1
  <2> HIDE DEF r, T
  <2>4. commands' = Append(commands, r) => DOMAIN commands' # DOMAIN commands
    <3> SUFFICES ASSUME commands' = Append(commands, r) PROVE Len(commands) + 1 \in DOMAIN commands' \ DOMAIN commands
      OBVIOUS
    <3> QED BY <2>3
  <2> QED BY <2>2, <2>4 DEF SameKeys
<1>6. ASSUME NEW h \in Requests, PushEnqueues(h) PROVE commands' = commands
  BY <1>5, <1>6 DEF PushEnqueues
<1>7. ReconcileEnqueues \/ Revive => commands' = commands
  BY <1>5 DEF ReconcileEnqueues, Revive
<1>8. ASSUME NEW h \in Requests, NEW c \in SyncCards, NEW says \in Contents \cup {NoPolicy},
             SavePolicy(h, c, says)
      PROVE  UNCHANGED commands
  BY <1>8 DEF SavePolicy
<1>9. ASSUME NEW h \in Requests, PushLists(h) \/ PushVersions(h) \/ PushFails(h)
       PROVE  UNCHANGED commands
  BY <1>9 DEF PushLists, PushVersions, PushFails
<1>10. Resume \/ ReconcileVersions \/ ReconcileLists \/ ReconcileFails \/ RedeliverReads
       \/ PendingFails \/ CheckPending \/ LinkLost \/ (\E i \in DOMAIN commands : Lapse(i))
       \/ UNCHANGED syncSpecVars
       => UNCHANGED commands
  BY DEF Resume, ReconcileVersions, ReconcileLists, ReconcileFails, RedeliverReads, PendingFails,
         CheckPending, LinkLost, Lapse, syncSpecVars, syncVars
<1> QED BY <1>1, <1>2, <1>3, <1>4, <1>6, <1>7, <1>8, <1>9, <1>10 DEF SyncNext, RequestStep, SessionStep

LEMMA MovesStep ==
  ASSUME QueueTypes, BoxTypes, [SyncNext]_syncSpecVars
  PROVE  QueueMoves
  BY QueueStep, StatusStep, SameMoves, GrownMoves

\* A step that is neither the device's nor a pending read leaves what the device
\* did, and at most takes away what is on its way.
LEMMA OthersRest ==
  ASSUME [SyncNext]_syncSpecVars, ~DeviceReceives, ~ReadsPending
  PROVE  done' = done /\ held' = held /\ (wire' = wire \/ wire' = <<>>)
<1>1. ASSUME NEW h \in Requests, NEW c \in SyncCards, NEW says \in Contents \cup {NoPolicy},
             SavePolicy(h, c, says)
      PROVE  UNCHANGED <<done, held, wire>>
  BY <1>1 DEF SavePolicy, boxVars
<1>2. ASSUME NEW h \in Requests, PushLists(h) \/ PushVersions(h) \/ PushFails(h) \/ PushEnqueues(h)
      PROVE  UNCHANGED <<done, held, wire>>
  BY <1>2 DEF PushLists, PushVersions, PushFails, PushEnqueues, boxVars
<1>3. Resume \/ ReconcileVersions \/ ReconcileLists \/ ReconcileFails \/ RedeliverReads
       \/ PendingFails \/ CheckPending \/ (\E i \in DOMAIN commands : Lapse(i))
       \/ ReconcileEnqueues \/ Revive \/ (\E d \in done : RecordResult(d)) \/ UNCHANGED syncSpecVars
       => UNCHANGED <<done, held, wire>>
  BY DEF Resume, ReconcileVersions, ReconcileLists, ReconcileFails, RedeliverReads, PendingFails,
         CheckPending, Lapse, ReconcileEnqueues, Revive, RecordResult, syncSpecVars, syncVars, boxVars
<1>4. LinkLost => done' = done /\ held' = held /\ wire' = <<>>
  BY DEF LinkLost, boxVars
<1> QED BY <1>1, <1>2, <1>3, <1>4 DEF SyncNext, RequestStep, SessionStep

\* The parts that speak of commands and of what is on its way stay true while the
\* device does nothing.
LEMMA OrderRests ==
  ASSUME OrderInv, QueueMoves, done' = done, held' = held, wire' = wire \/ wire' = <<>>
  PROVE  OrderInv'
<1>0. /\ DOMAIN commands \subseteq DOMAIN commands'
      /\ \A i \in DOMAIN commands' : i \in Nat
      /\ \A i \in DOMAIN commands : commands'[i].key = commands[i].key
      /\ \A i \in DOMAIN commands : Deliverable(i)' => Deliverable(i)
      /\ \A n \in DOMAIN commands' \ DOMAIN commands : \A i \in DOMAIN commands : i < n
  BY DEF QueueMoves
<1>1. /\ \A d \in done : d.cmd \in DOMAIN commands /\ d.end \in {"succeeded", "failed"}
      /\ wire \in Seq(DOMAIN commands)
      /\ WireInOrder /\ OlderAreOver /\ OlderAreRepeats /\ NoneOvertaken /\ NewestAppliedHeld
  BY DEF OrderInv, BoxTypes
<1>2. \A i : IsDone(i)' <=> IsDone(i)
  BY DEF IsDone
<1>3. wire' \in Seq(DOMAIN commands')
  <2>1. CASE wire' = wire
    <3>1. wire' \in Seq(DOMAIN commands)
      BY <1>1, <2>1
    <3> QED BY <1>0, <3>1
  <2>2. CASE wire' = <<>>
    BY <2>2
  <2> QED BY <2>1, <2>2
<1>4. BoxTypes'
  BY <1>0, <1>1, <1>3 DEF BoxTypes
<1>5. DOMAIN wire' \subseteq DOMAIN wire /\ \A k \in DOMAIN wire' : wire' = wire
  OBVIOUS
<1>6. WireInOrder'
  BY <1>1, <1>5 DEF WireInOrder
<1>7. ASSUME NEW i \in DOMAIN commands', NEW j \in DOMAIN commands, i < j PROVE i \in DOMAIN commands
  BY <1>0, <1>7
<1>8. OlderAreOver'
  <2> SUFFICES ASSUME NEW d \in done, NEW i \in DOMAIN commands', i < d.cmd
               PROVE  IsDone(i)' \/ ~Deliverable(i)'
    BY DEF OlderAreOver
  <2>1. i \in DOMAIN commands
    BY <1>1, <1>7
  <2> QED BY <1>0, <1>1, <1>2, <2>1 DEF OlderAreOver
<1>9. OlderAreRepeats'
  <2> SUFFICES ASSUME NEW d \in done, NEW k \in DOMAIN wire', wire'[k] < d.cmd
               PROVE  IsDone(wire[k])'
    BY DEF OlderAreRepeats
  <2>1. k \in DOMAIN wire /\ wire'[k] = wire[k]
    BY <1>5
  <2>2. IsDone(wire[k])
    BY <1>1, <2>1 DEF OlderAreRepeats
  <2> QED BY <2>1, <2>2 DEF IsDone
<1>10. NoneOvertaken'
  <2> SUFFICES ASSUME NEW k \in DOMAIN wire', NEW i \in DOMAIN commands', i < wire'[k]
               PROVE  IsDone(i)' \/ ~Deliverable(i)' \/ \E l \in DOMAIN wire' : wire'[l] = i
    BY DEF NoneOvertaken
  <2>1. k \in DOMAIN wire /\ wire' = wire
    BY <1>5
  <2>2. wire[k] \in DOMAIN commands
    BY <1>1, <2>1
  <2>3. i \in DOMAIN commands
    BY <1>7, <2>1, <2>2
  <2>4. IsDone(i) \/ ~Deliverable(i) \/ \E l \in DOMAIN wire : wire[l] = i
    BY <1>1, <2>1, <2>3 DEF NoneOvertaken
  <2> QED BY <1>0, <1>2, <2>1, <2>3, <2>4
<1>11. NewestAppliedHeld'
  BY <1>0, <1>1 DEF NewestAppliedHeld
<1> QED BY <1>4, <1>6, <1>8, <1>9, <1>10, <1>11 DEF OrderInv

\* A pending read sends what can be delivered, oldest first.
LEMMA OrderRead ==
  ASSUME OrderInv, QueueTypes, QueueMoves, ReadsPending
  PROVE  OrderInv'
<1>0. /\ done' = done /\ held' = held /\ (wire' = Pending \/ wire' = <<>>)
  BY DEF ReadsPending, boxVars
<1>1. CASE wire' = <<>>
  BY <1>0, <1>1, OrderRests
<1>2. CASE wire' = Pending
  <2> DEFINE n == Len(commands)
  <2>1. n \in Nat /\ DOMAIN commands = 1 .. n /\ InOrder(Pending, n)
    BY CommandIndices, PendingInOrder
  <2>2. /\ wire' \in Seq(DOMAIN commands)
        /\ \A j, k \in DOMAIN wire' : j < k => wire'[j] < wire'[k]
        /\ \A k \in DOMAIN wire' : Deliverable(wire'[k])
    BY <1>2, <2>1 DEF InOrder
  <2>a. ASSUME NEW k \in DOMAIN wire', NEW i \in DOMAIN commands, i < wire'[k], Deliverable(i)
        PROVE  \E l \in DOMAIN wire' : wire'[l] = i
    <3>1. i \in Nat /\ wire'[k] \in Nat
      BY <2>1, <2>2
    <3>2. ~(wire'[k] < i)
      BY <2>a, <3>1
    <3> QED BY <1>2, <2>1, <2>a, <3>2 DEF InOrder
  <2> HIDE DEF n
  <2>3. \A k \in DOMAIN wire' : wire'[k] \in DOMAIN commands /\ Deliverable(wire'[k])
    BY <2>2
  <2>4. /\ DOMAIN commands \subseteq DOMAIN commands'
        /\ \A i \in DOMAIN commands' : i \in Nat
        /\ \A i \in DOMAIN commands : commands'[i].key = commands[i].key
        /\ \A i \in DOMAIN commands : Deliverable(i)' => Deliverable(i)
        /\ \A m \in DOMAIN commands' \ DOMAIN commands : \A i \in DOMAIN commands : i < m
    BY DEF QueueMoves
  <2>5. /\ \A d \in done : d.cmd \in DOMAIN commands /\ d.end \in {"succeeded", "failed"}
        /\ OlderAreOver /\ NewestAppliedHeld
    BY DEF OrderInv, BoxTypes
  <2>6. ASSUME NEW i \in DOMAIN commands', NEW j \in DOMAIN commands, i < j PROVE i \in DOMAIN commands
    BY <2>4, <2>6
  <2>7. \A i : IsDone(i)' <=> IsDone(i)
    BY <1>0 DEF IsDone
  <2>8. BoxTypes'
    <3>1. wire' \in Seq(DOMAIN commands')
      BY <2>2, <2>4
    <3> QED BY <1>0, <2>4, <2>5, <3>1 DEF BoxTypes
  <2>9. WireInOrder'
    BY <2>2 DEF WireInOrder
  <2>10. OlderAreOver'
    <3> SUFFICES ASSUME NEW d \in done', NEW i \in DOMAIN commands', i < d.cmd
                 PROVE  IsDone(i)' \/ ~Deliverable(i)'
      BY DEF OlderAreOver
    <3>1. i \in DOMAIN commands /\ d \in done
      BY <1>0, <2>5, <2>6
    <3> QED BY <2>4, <2>5, <2>7, <3>1 DEF OlderAreOver
  <2>11. OlderAreRepeats'
    <3> SUFFICES ASSUME NEW d \in done', NEW k \in DOMAIN wire', wire'[k] < d.cmd
                 PROVE  IsDone(wire[k])'
      BY DEF OlderAreRepeats
    <3>1. IsDone(wire'[k])
      BY <1>0, <2>3, <2>5 DEF OlderAreOver
    <3> QED BY <1>0, <3>1 DEF IsDone
  <2>12. NoneOvertaken'
    <3> SUFFICES ASSUME NEW k \in DOMAIN wire', NEW i \in DOMAIN commands', i < wire'[k]
                 PROVE  ~Deliverable(i)' \/ \E l \in DOMAIN wire' : wire'[l] = i
      BY DEF NoneOvertaken
    <3>1. i \in DOMAIN commands
      BY <2>3, <2>6
    <3> QED BY <2>a, <2>4, <3>1
  <2>13. NewestAppliedHeld'
    BY <1>0, <2>4, <2>5 DEF NewestAppliedHeld
  <2> QED BY <2>8, <2>9, <2>10, <2>11, <2>12, <2>13 DEF OrderInv
<1> QED BY <1>0, <1>1, <1>2

\* The device carries out the oldest of what is on its way, which is newer than
\* everything it has carried out unless it knows it already.
LEMMA OrderReceive ==
  ASSUME OrderInv, QueueMoves, DeviceReceives
  PROVE  OrderInv'
<1>a. PICK i : i = Head(wire)
  OBVIOUS
<1>0. /\ DOMAIN commands \subseteq DOMAIN commands'
      /\ \A j \in DOMAIN commands' : j \in Nat
      /\ \A j \in DOMAIN commands : commands'[j].key = commands[j].key
      /\ \A j \in DOMAIN commands : Deliverable(j)' => Deliverable(j)
      /\ \A n \in DOMAIN commands' \ DOMAIN commands : \A j \in DOMAIN commands : j < n
  BY DEF QueueMoves
<1>1. /\ \A d \in done : d.cmd \in DOMAIN commands /\ d.end \in {"succeeded", "failed"}
      /\ wire \in Seq(DOMAIN commands)
      /\ WireInOrder /\ OlderAreOver /\ OlderAreRepeats /\ NoneOvertaken /\ NewestAppliedHeld
  BY DEF OrderInv, BoxTypes
<1>2. wire # <<>> /\ (wire' = Tail(wire) \/ wire' = <<>>)
  BY DEF DeviceReceives
<1>3. /\ Len(wire) \in Nat /\ Len(wire) >= 1 /\ DOMAIN wire = 1 .. Len(wire) /\ i = wire[1] /\ 1 \in DOMAIN wire
      /\ wire' \in Seq(DOMAIN commands)
      /\ \A k \in DOMAIN wire' : k \in Nat /\ k + 1 \in DOMAIN wire /\ wire'[k] = wire[k + 1]
      /\ wire' = Tail(wire) => \A k \in DOMAIN wire : k = 1 \/ (k - 1 \in DOMAIN wire' /\ wire'[k - 1] = wire[k])
  <2>1. /\ Len(wire) \in Nat /\ Len(wire) >= 1 /\ DOMAIN wire = 1 .. Len(wire) /\ i = wire[1]
    BY <1>1, <1>2, <1>a
  <2>2. CASE wire' = <<>>
    <3>1. Tail(wire) # wire' \/ DOMAIN wire = {1}
      <4>1. Len(Tail(wire)) = Len(wire) - 1
        BY <1>1, <1>2, <2>1
      <4>2. Tail(wire) = wire' => Len(wire) - 1 = 0
        BY <2>2, <4>1
      <4> QED BY <2>1, <4>2
    <3>2. DOMAIN wire' = {} /\ wire' \in Seq(DOMAIN commands)
      BY <2>2
    <3> QED BY <2>1, <3>1, <3>2
  <2>3. CASE wire' = Tail(wire)
    <3>1. /\ wire' \in Seq(DOMAIN commands) /\ DOMAIN wire' = 1 .. (Len(wire) - 1)
          /\ \A k \in 1 .. (Len(wire) - 1) : wire'[k] = wire[k + 1]
      BY <1>1, <1>2, <2>1, <2>3
    <3> QED BY <2>1, <3>1
  <2> QED BY <1>2, <2>2, <2>3
<1>4. i \in DOMAIN commands /\ i \in Nat
  BY <1>0, <1>1, <1>3
<1>5. wire' \in Seq(DOMAIN commands')
  BY <1>0, <1>3
<1>6. WireInOrder'
  BY <1>1, <1>3 DEF WireInOrder
<1>7. ASSUME NEW k \in DOMAIN wire' PROVE wire'[k] \in DOMAIN commands /\ i < wire'[k]
  <2>1. k + 1 \in DOMAIN wire /\ wire'[k] = wire[k + 1] /\ 1 < k + 1 /\ 1 \in DOMAIN wire
    <3>1. k \in Nat /\ k + 1 \in DOMAIN wire /\ wire'[k] = wire[k + 1]
      BY <1>3
    <3>2. \A n \in DOMAIN wire' : n >= 1
      BY <1>3
    <3> QED BY <1>3, <3>1, <3>2
  <2>2. wire[k + 1] \in DOMAIN commands
    BY <1>1, <2>1
  <2> QED BY <1>1, <1>3, <2>1, <2>2 DEF WireInOrder
<1>8. ASSUME NEW m \in DOMAIN commands', NEW j \in DOMAIN commands, m < j PROVE m \in DOMAIN commands
  BY <1>0, <1>8
\* What is done afterwards, the one just received included.
<1>9. /\ \A d \in done' : d.cmd \in DOMAIN commands /\ d.end \in {"succeeded", "failed"}
      /\ done \subseteq done' /\ IsDone(i)'
      /\ \A d \in done' : d \in done \/ (d.cmd = i /\ ~IsDone(i))
  <2>1. CASE IsDone(i)
    <3>1. done' = done
      BY <1>a, <2>1 DEF DeviceReceives, IsDone, boxVars
    <3> QED BY <1>1, <2>1, <3>1 DEF IsDone
  <2>2. CASE ~IsDone(i)
    <3>1. PICK end \in {"succeeded", "failed"} : done' = done \cup {[cmd |-> i, end |-> end]}
      BY <1>a, <2>2 DEF DeviceReceives, IsDone
    <3>2. [cmd |-> i, end |-> end] \in done' /\ [cmd |-> i, end |-> end].cmd = i
      BY <3>1
    <3>3. IsDone(i)'
      BY <3>2 DEF IsDone
    <3> QED BY <1>1, <1>4, <2>2, <3>1, <3>3
  <2> QED BY <2>1, <2>2
<1>10. \A j : IsDone(j) => IsDone(j)'
  BY <1>9 DEF IsDone
<1>11. BoxTypes'
  BY <1>0, <1>5, <1>9 DEF BoxTypes
\* Nothing older than i could still come.
<1>12. ASSUME NEW j \in DOMAIN commands, j < i PROVE IsDone(j) \/ ~Deliverable(j)
  <2>1. IsDone(j) \/ ~Deliverable(j) \/ \E l \in DOMAIN wire : wire[l] = j
    BY <1>1, <1>3, <1>12 DEF NoneOvertaken
  <2>2. ASSUME NEW l \in DOMAIN wire, wire[l] = j PROVE FALSE
    <3>1. l = 1 \/ wire[1] < wire[l]
      BY <1>1, <1>3 DEF WireInOrder
    <3>2. j \in Nat
      BY <1>0
    <3> QED BY <1>3, <1>4, <1>12, <2>2, <3>1, <3>2
  <2> QED BY <2>1, <2>2
<1>13. OlderAreOver'
  <2> SUFFICES ASSUME NEW d \in done', NEW j \in DOMAIN commands', j < d.cmd
               PROVE  IsDone(j)' \/ ~Deliverable(j)'
    BY DEF OlderAreOver
  <2>1. j \in DOMAIN commands
    BY <1>8, <1>9
  <2>2. IsDone(j) \/ ~Deliverable(j)
    BY <1>1, <1>9, <1>12, <2>1 DEF OlderAreOver
  <2> QED BY <1>0, <1>10, <2>1, <2>2
<1>14. OlderAreRepeats'
  <2> SUFFICES ASSUME NEW d \in done', NEW k \in DOMAIN wire', wire'[k] < d.cmd
               PROVE  IsDone(wire[k])'
    BY DEF OlderAreRepeats
  <2>1. wire'[k] \in Nat /\ i < wire'[k]
    BY <1>0, <1>7
  <2>2. d \in done
    BY <1>4, <1>9, <2>1
  <2>3. IsDone(wire'[k])
    BY <1>1, <1>3, <2>2 DEF OlderAreRepeats
  <2> QED BY <1>9, <2>3 DEF IsDone
<1>15. NoneOvertaken'
  <2> SUFFICES ASSUME NEW k \in DOMAIN wire', NEW j \in DOMAIN commands', j < wire'[k],
                      ~IsDone(j)', Deliverable(j)'
               PROVE  \E l \in DOMAIN wire' : wire'[l] = j
    BY DEF NoneOvertaken
  <2>1. j \in DOMAIN commands
    BY <1>7, <1>8
  <2>2. PICK l \in DOMAIN wire : wire[l] = j
    BY <1>0, <1>1, <1>3, <1>10, <2>1 DEF NoneOvertaken
  <2>3. l # 1
    BY <1>3, <1>9, <2>2
  <2>4. wire' = Tail(wire)
    BY <1>2
  <2> QED BY <1>3, <2>2, <2>3, <2>4
<1>16. NewestAppliedHeld'
  <2> SUFFICES ASSUME NEW d \in done', d.end = "succeeded",
                      \A e \in done' : e.cmd > d.cmd => e.end # "succeeded"
               PROVE  held' = [set |-> commands'[d.cmd].key.set, version |-> commands'[d.cmd].key.version]
    BY DEF NewestAppliedHeld
  <2>0. commands'[d.cmd].key = commands[d.cmd].key
    BY <1>0, <1>9
  <2>1. CASE held' = held /\ d \in done
    <3>1. held = [set |-> commands[d.cmd].key.set, version |-> commands[d.cmd].key.version]
      BY <1>1, <1>9, <2>1 DEF NewestAppliedHeld
    <3> QED BY <2>0, <2>1, <3>1
  <2>2. CASE IsDone(i)
    <3>1. done' = done /\ held' = held
      BY <1>a, <2>2 DEF DeviceReceives, IsDone, boxVars
    <3> QED BY <2>1, <3>1
  <2>3. CASE ~IsDone(i)
    <3>1. PICK end \in {"succeeded", "failed"} :
            /\ done' = done \cup {[cmd |-> i, end |-> end]}
            /\ held' = IF end = "failed" THEN held
                       ELSE [set |-> commands[i].key.set, version |-> commands[i].key.version]
      BY <1>a, <2>3 DEF DeviceReceives, IsDone
    <3>2. CASE end = "failed"
      <4>1. d \in done /\ held' = held
        BY <3>1, <3>2
      <4> QED BY <2>1, <4>1
    <3>3. CASE end = "succeeded"
      <4>1. [cmd |-> i, end |-> end] \in done'
        BY <3>1
      <4>2. ~(i > d.cmd)
        BY <3>3, <4>1
      <4>3. d.cmd = i
        <5>1. CASE d \in done
          <6>1. d.cmd # i
            BY <2>3, <5>1 DEF IsDone
          <6>2. ~(i < d.cmd)
            BY <1>1, <1>3, <2>3, <5>1 DEF OlderAreRepeats
          <6>3. d.cmd \in Nat
            BY <1>0, <1>9
          <6> QED BY <1>4, <4>2, <6>1, <6>2, <6>3
        <5> QED BY <3>1, <5>1
      <4> QED BY <2>0, <3>1, <3>3, <4>3
    <3> QED BY <3>2, <3>3
  <2> QED BY <2>2, <2>3
<1> QED BY <1>6, <1>11, <1>13, <1>14, <1>15, <1>16 DEF OrderInv

\* The device enforces the newest of the sets it was able to apply, for any
\* number of saves, requests, lapses and lost links: an older push never undoes a
\* newer one (PendingForDevice, redeliverCardPolicy).
THEOREM NewestStaysHeld == SyncSpec => []NewestAppliedHeld
<1>1. SyncInit => OrderInv
  <2> SUFFICES ASSUME SyncInit PROVE OrderInv
    OBVIOUS
  <2>1. commands = <<>> /\ wire = <<>> /\ done = {}
    BY DEF SyncInit
  <2>2. wire \in Seq(DOMAIN commands) /\ DOMAIN wire = {}
    BY <2>1
  <2> QED BY <2>1, <2>2 DEF OrderInv, BoxTypes, WireInOrder, OlderAreOver, OlderAreRepeats, NoneOvertaken,
                            NewestAppliedHeld
<1>2. OrderInv /\ PushInv /\ [SyncNext]_syncSpecVars => OrderInv'
  <2> SUFFICES ASSUME OrderInv, PushInv, [SyncNext]_syncSpecVars PROVE OrderInv'
    OBVIOUS
  <2>1. QueueTypes /\ QueueMoves
    BY MovesStep DEF PushInv, OrderInv
  <2> QED BY <2>1, OthersRest, OrderRests, OrderRead, OrderReceive
<1>3. OrderInv => NewestAppliedHeld
  BY DEF OrderInv
<1> QED BY <1>1, <1>2, <1>3, PushInvariant, PTL DEF SyncSpec

-----------------------------------------------------------------------------
(* Presence and absence.                                                     *)

Phases == {"none", "bound", "serving", "unbound"}
Aways == [on : BOOLEAN, since : Nat, told : BOOLEAN]
Reporters == [at : {"resting", "looking", "acting"}, now : Nat, bound : BOOLEAN]

\* The variables the theorems speak of are well typed.
PresenceTypes ==
  /\ clock \in Nat /\ clock >= 1
  /\ hub \in Links \cup {NoLink} /\ phase \in [Links -> Phases]
  /\ away \in Aways /\ reporter \in Reporters /\ listed \in BOOLEAN
  /\ seenAt \in Nat /\ lastUp \in Nat /\ sawBound \in Nat

LEMMA TypesStep == PresenceTypes /\ [PresenceNext]_presenceVars => PresenceTypes'
<1> SUFFICES ASSUME PresenceTypes, [PresenceNext]_presenceVars PROVE PresenceTypes'
  OBVIOUS
<1> USE DEF PresenceTypes, Phases
<1>1. ASSUME NEW c \in Links, Bind(c) \/ Refuse(c) \/ Touch(c) \/ Unbind(c) PROVE PresenceTypes'
  BY <1>1 DEF Bind, Refuse, Touch, Unbind, Dial, ghostVars
<1>2. ASSUME NEW c \in Links, Seen(c) PROVE PresenceTypes'
  BY <1>2 DEF Seen
<1>3. ASSUME NEW c \in Links, Left(c) PROVE PresenceTypes'
  BY <1>3 DEF Left, Aways, ghostVars
<1>4. CASE SweepIdle
  BY <1>4 DEF SweepIdle, Resting, Reporters, ghostVars
<1>5. CASE ReportLooks
  BY <1>5 DEF ReportLooks, Reporters, sessionVars
<1>6. CASE ReportActs
  BY <1>6 DEF ReportActs, Resting, Here, Reporters, Aways, sessionVars, ghostVars
<1>7. CASE Tenants
  BY <1>7 DEF Tenants, sessionVars, ghostVars
<1>8. CASE RecentTenants \/ Die
  BY <1>8 DEF RecentTenants, Die, sessionVars, ghostVars
<1>9. CASE Advance
  BY <1>9 DEF Advance, sessionVars
<1>10. CASE UNCHANGED presenceVars
  BY <1>10 DEF presenceVars, sessionVars, ghostVars
<1> QED BY <1>1, <1>2, <1>3, <1>4, <1>5, <1>6, <1>7, <1>8, <1>9, <1>10 DEF PresenceNext

-----------------------------------------------------------------------------
(* The lists.                                                                *)

\* The hub holds a session that has not ended.
HubServes == hub # NoLink => phase[hub] \in {"bound", "serving"}

\* Once the scheduler has read the list in a unit, a device being served has
\* stamped its tenant in that unit.
Stamped == hub # NoLink /\ phase[hub] = "serving" /\ "schedule" \in ticked => seenAt = clock

\* The stamp of the tenant is at most one unit behind its device, until it is
\* dropped; and it is dropped only when the device has been away long enough.
StampFollows ==
  /\ lastUp <= clock /\ seenAt <= clock
  /\ \/ lastUp = 0
     \/ seenAt # 0 /\ lastUp <= seenAt + 1
     \/ seenAt = 0 /\ lastUp + TenantMemory <= clock

ListsInv == PresenceTypes /\ HubServes /\ ServedIsListed /\ Stamped /\ StampFollows

LEMMA ListsStep == ListsInv /\ [PresenceNext]_presenceVars => ListsInv'
<1> SUFFICES ASSUME ListsInv, [PresenceNext]_presenceVars PROVE ListsInv'
  OBVIOUS
<1>0. PresenceTypes /\ HubServes /\ ServedIsListed /\ Stamped /\ StampFollows /\ PresenceTypes'
  BY TypesStep DEF ListsInv
<1>a. TenantMemory \in Nat \ {0} /\ NoLink \notin Links
  BY PresenceAssumption
<1> DEFINE Rest == HubServes' /\ ServedIsListed' /\ Stamped' /\ StampFollows'
<1> SUFFICES Rest
  BY <1>0 DEF ListsInv
<1> USE <1>0, <1>a DEF PresenceTypes, Phases, HubServes, ServedIsListed, Stamped
<1>1. ASSUME NEW c \in Links, Bind(c) \/ Refuse(c) \/ Touch(c) \/ Unbind(c) \/ Left(c) PROVE Rest
  <2>1. UNCHANGED <<clock, listed, seenAt, ticked, lastUp>>
    BY <1>1 DEF Bind, Refuse, Touch, Unbind, Left, ghostVars
  <2>2. CASE Bind(c)
    BY <2>1, <2>2 DEF Bind, StampFollows
  <2>3. CASE Refuse(c)
    BY <2>1, <2>3 DEF Refuse, Dial, StampFollows
  <2>4. CASE Touch(c)
    BY <2>1, <2>4 DEF Touch, StampFollows
  <2>5. CASE Unbind(c)
    BY <2>1, <2>5 DEF Unbind, StampFollows
  <2>6. CASE Left(c)
    BY <2>1, <2>6 DEF Left, StampFollows
  <2> QED BY <1>1, <2>2, <2>3, <2>4, <2>5, <2>6
<1>2. ASSUME NEW c \in Links, Seen(c) PROVE Rest
  <2>1. StampFollows'
    BY <1>2 DEF Seen, StampFollows
  <2> QED BY <1>2, <2>1 DEF Seen
<1>3. CASE SweepIdle
  BY <1>3 DEF SweepIdle, ghostVars, StampFollows
<1>4. CASE ReportLooks \/ Die \/ UNCHANGED presenceVars
  BY <1>4 DEF ReportLooks, Die, presenceVars, sessionVars, ghostVars, StampFollows
<1>5. CASE ReportActs
  BY <1>5 DEF ReportActs, sessionVars, ghostVars, StampFollows
<1>6. CASE Tenants
  <2>1. StampFollows'
    BY <1>6 DEF Tenants, StampFollows, sessionVars, ghostVars
  <2> QED BY <1>6, <2>1 DEF Tenants, sessionVars, ghostVars
<1>7. CASE RecentTenants
  <2>1. StampFollows'
    BY <1>7 DEF RecentTenants, StampFollows, sessionVars, ghostVars
  <2>2. UNCHANGED <<hub, phase, ticked, listed, clock>> /\ seenAt # clock
    BY <1>7 DEF RecentTenants, sessionVars
  <2> QED BY <2>1, <2>2
<1>8. CASE Advance
  <2>1. /\ UNCHANGED <<hub, phase, listed, seenAt>> /\ clock' = clock + 1 /\ ticked' = {}
        /\ lastUp' = IF hub # NoLink THEN clock' ELSE lastUp
        /\ ticked = {"report", "schedule"} /\ \A c \in Links : phase[c] # "bound"
    BY <1>8 DEF Advance, sessionVars
  <2>2. hub # NoLink => seenAt = clock
    BY <2>1
  <2>3. StampFollows'
    BY <2>1, <2>2 DEF StampFollows
  <2> QED BY <2>1, <2>3
<1> QED BY <1>1, <1>2, <1>3, <1>4, <1>5, <1>6, <1>7, <1>8 DEF PresenceNext

LEMMA ListsInvariant == PresenceSpec => []ListsInv
<1>1. PresenceInit => ListsInv
  <2> SUFFICES ASSUME PresenceInit PROVE ListsInv
    OBVIOUS
  <2>1. away \in Aways /\ reporter \in Reporters
    BY DEF PresenceInit, Here, Resting, Aways, Reporters
  <2>3. listed \in BOOLEAN
    BY DEF PresenceInit
  <2>4. /\ clock \in Nat /\ clock >= 1 /\ hub \in Links \cup {NoLink} /\ phase \in [Links -> Phases]
        /\ seenAt \in Nat /\ lastUp \in Nat /\ sawBound \in Nat
    BY DEF PresenceInit, Phases
  <2>2. PresenceTypes
    BY <2>1, <2>3, <2>4 DEF PresenceTypes
  <2> QED BY <2>2 DEF PresenceInit, ListsInv, HubServes, ServedIsListed, Stamped, StampFollows
<1> QED BY <1>1, ListsStep, PTL DEF PresenceSpec

\* No late end of an earlier session takes a served device off the list.
THEOREM ServedStayListed == PresenceSpec => []ServedIsListed
<1>1. ListsInv => ServedIsListed
  BY DEF ListsInv
<1> QED BY <1>1, ListsInvariant, PTL

\* A tenant is remembered for as long as promised after its device was last
\* served, however long that session was.
THEOREM TenantsRemembered == PresenceSpec => []TenantRemembered
<1>1. ListsInv => TenantRemembered
  BY PresenceAssumption DEF ListsInv, StampFollows, TenantRemembered, PresenceTypes
<1> QED BY <1>1, ListsInvariant, PTL

-----------------------------------------------------------------------------
(* The absences.                                                             *)

\* An absence on record began no earlier than the last look that found the
\* device, unless that look is about to strike it off.
AbsenceIsNew ==
  /\ sawBound <= clock
  /\ reporter.at # "resting" => reporter.now = clock
  /\ away.on => away.since >= sawBound \/ (reporter.at = "acting" /\ reporter.bound)

LEMMA AbsenceStep == PresenceTypes /\ AbsenceIsNew /\ [PresenceNext]_presenceVars => AbsenceIsNew'
<1> SUFFICES ASSUME PresenceTypes, AbsenceIsNew, [PresenceNext]_presenceVars PROVE AbsenceIsNew'
  OBVIOUS
<1> USE DEF PresenceTypes, AbsenceIsNew
<1>1. CASE UNCHANGED <<clock, sawBound, reporter, away>>
  BY <1>1
<1>2. ASSUME NEW c \in Links, Left(c) PROVE AbsenceIsNew'
  BY <1>2 DEF Left, ghostVars
<1>3. CASE SweepIdle
  BY <1>3 DEF SweepIdle, Resting, ghostVars
<1>4. CASE ReportLooks
  <2>1. /\ reporter' = [reporter EXCEPT !.at = "acting", !.bound = (hub # NoLink)]
        /\ sawBound' = (IF hub # NoLink THEN reporter.now ELSE sawBound)
        /\ reporter.at = "looking" /\ UNCHANGED <<clock, away>>
    BY <1>4 DEF ReportLooks
  <2>2. /\ reporter'.at = "acting" /\ reporter'.now = reporter.now
        /\ hub # NoLink => reporter'.bound
    BY <2>1 DEF Reporters
  <2>3. /\ reporter'.now = clock' /\ sawBound' <= clock'
        /\ hub = NoLink => away'.since = away.since /\ sawBound' = sawBound
        /\ away'.on <=> away.on
    BY <2>1, <2>2
  <2>4. hub = NoLink /\ away'.on => away'.since >= sawBound'
    BY <2>1, <2>3
  <2> HIDE DEF PresenceTypes
  <2> QED BY <2>2, <2>3, <2>4
<1>5. CASE ReportActs
  BY <1>5 DEF ReportActs, Resting, Here, Aways, ghostVars
<1>6. CASE Advance
  BY <1>6 DEF Advance, Resting
<1> QED BY <1>1, <1>2, <1>3, <1>4, <1>5, <1>6
    DEF PresenceNext, Bind, Refuse, Seen, Touch, Unbind, Tenants, RecentTenants, Die,
        presenceVars, ghostVars

\* A device is announced only when no look within the grace period found it, for
\* every grace period.
THEOREM AnnouncedWereAway == PresenceSpec => AnnouncedWasAway
<1>1. PresenceInit => AbsenceIsNew
  BY DEF PresenceInit, AbsenceIsNew, Here, Resting
<1>2. PresenceTypes /\ AbsenceIsNew /\ [PresenceNext]_presenceVars =>
        (~away.told /\ away'.told => reporter.now >= sawBound + OfflineGrace)
  <2> SUFFICES ASSUME PresenceTypes, AbsenceIsNew, [PresenceNext]_presenceVars,
                      ~away.told, away'.told
               PROVE  reporter.now >= sawBound + OfflineGrace
    OBVIOUS
  <2>1. away' # away
    OBVIOUS
  <2>2. ASSUME NEW c \in Links, Left(c) PROVE FALSE
    BY <2>2 DEF Left
  <2>3. ReportActs
    BY <2>1, <2>2
    DEF PresenceNext, Bind, Refuse, Seen, Touch, Unbind, SweepIdle, ReportLooks, Tenants,
        RecentTenants, Die, Advance, presenceVars
  <2>4. /\ away.on /\ ~reporter.bound /\ away.since + OfflineGrace <= reporter.now
    BY <2>3 DEF ReportActs, Here
  <2>5. away.since \in Nat /\ sawBound \in Nat /\ reporter.now \in Nat /\ OfflineGrace \in Nat
        /\ away.since >= sawBound
    BY <2>4, PresenceAssumption DEF PresenceTypes, AbsenceIsNew, Aways, Reporters
  <2> QED BY <2>4, <2>5
<1>3. ListsInv => PresenceTypes
  BY DEF ListsInv
<1> QED BY <1>1, <1>2, <1>3, AbsenceStep, ListsInvariant, PTL DEF PresenceSpec, AnnouncedWasAway

\* What the scheduler and the sweeps go by is true of a connected device, for any
\* number of connections and every length of the memory (liveDevices).
THEOREM ConnectedStaysKnown == PresenceSpec => []ConnectedIsKnown
  BY ServedStayListed, TenantsRemembered, PTL DEF ConnectedIsKnown

-----------------------------------------------------------------------------
(* The send limit.                                                           *)

Asked == {s \in Senders : sender[s].at = "queue"}
Recording == {s \in Senders : sender[s].at = "record"}
QueuedSince(x) == {q \in queued : q.at >= x}
MessagesSince(x) == {m \in messages : m.at >= x}

IsText(q) == q.text \in Nat /\ q.at \in Nat

QuotaTypes ==
  /\ time \in Nat /\ misses \in Nat
  /\ sender \in [Senders -> [at : {"free", "queue", "record"}, text : Nat]]
  /\ IsFiniteSet(queued) /\ IsFiniteSet(messages)
  /\ \A q \in queued : IsText(q) /\ q.at <= time
  /\ \A m \in messages : IsText(m)

\* A text that is being recorded is nobody else's and has no message yet, and
\* no text is numbered beyond the commands there are.
TextsDiffer ==
  /\ \A s, t \in Recording : sender[s].text = sender[t].text => s = t
  /\ \A s \in Recording, m \in messages : sender[s].text # m.text
  /\ \A s \in Recording : sender[s].text <= Cardinality(queued)
  /\ \A m \in messages : m.text <= Cardinality(queued)
  /\ \A q \in queued : q.text <= Cardinality(queued)

\* What was queued since any moment has a message since then, is being
\* recorded, or was missed.
QueuedIsCounted ==
  \A x \in Nat : Cardinality(QueuedSince(x))
                   <= Cardinality(MessagesSince(x)) + Cardinality(Recording) + misses

\* Those who were allowed and have not queued yet still fit.
AskedFit ==
  Cardinality(QueuedSince(Since)) + Cardinality(Asked)
    <= HourlyLimit + Cardinality(Senders) - 1 + misses

QuotaInv == QuotaTypes /\ TextsDiffer /\ QueuedIsCounted /\ AskedFit /\ QuotaHolds


\* The sets counted are finite, and nobody both asks and records.
QuotaCounts ==
  /\ IsFiniteSet(Asked) /\ IsFiniteSet(Recording)
  /\ Cardinality(Asked) \in Nat /\ Cardinality(Recording) \in Nat
  /\ Cardinality(Senders) \in Nat /\ Cardinality(queued) \in Nat
  /\ Cardinality(Asked) + Cardinality(Recording) <= Cardinality(Senders)
  /\ \A x : /\ IsFiniteSet(QueuedSince(x)) /\ IsFiniteSet(MessagesSince(x))
            /\ Cardinality(QueuedSince(x)) \in Nat
            /\ Cardinality(MessagesSince(x)) \in Nat
  /\ \A x \in Nat : x > time => Cardinality(QueuedSince(x)) = 0
  /\ Since \in Nat /\ Since <= time

\* Two finite sets with nothing in common add up.
LEMMA DisjointSum ==
    ASSUME NEW S, NEW T, IsFiniteSet(S), IsFiniteSet(T), S \cap T = {}
    PROVE  Cardinality(S \cup T) = Cardinality(S) + Cardinality(T)
<1>1. Cardinality(S \cup T) = Cardinality(S) + Cardinality(T) - Cardinality(S \cap T)
  BY FS_Union
<1>2. Cardinality(S \cap T) = 0
  BY FS_EmptySet
<1>3. Cardinality(S) \in Nat /\ Cardinality(T) \in Nat
  BY FS_CardinalityType
<1> QED BY <1>1, <1>2, <1>3

LEMMA QuotaCountsHold == QuotaTypes => QuotaCounts
<1> SUFFICES ASSUME QuotaTypes PROVE QuotaCounts
  OBVIOUS
<1>1. IsFiniteSet(Senders) /\ Cardinality(Senders) \in Nat /\ Hour \in Nat
  BY QuotaAssumption, FS_CardinalityType
<1>2. Asked \in SUBSET Senders /\ Recording \in SUBSET Senders /\ Asked \cup Recording \in SUBSET Senders
  BY DEF Asked, Recording
<1>3. IsFiniteSet(Asked) /\ IsFiniteSet(Recording)
  BY <1>1, <1>2, FS_Subset
<1>4. Asked \cap Recording = {}
  BY DEF Asked, Recording
<1>5. Cardinality(Asked) \in Nat /\ Cardinality(Recording) \in Nat /\ Cardinality({}) = 0
  BY <1>3, FS_CardinalityType, FS_EmptySet
<1>6. Cardinality(Asked \cup Recording) = Cardinality(Asked) + Cardinality(Recording)
  BY <1>3, <1>4, DisjointSum
<1>7. Cardinality(Asked \cup Recording) <= Cardinality(Senders)
  BY <1>1, <1>2, FS_Subset
<1>8. IsFiniteSet(queued) /\ IsFiniteSet(messages)
  BY DEF QuotaTypes
<1>9. ASSUME NEW x
      PROVE  /\ IsFiniteSet(QueuedSince(x)) /\ IsFiniteSet(MessagesSince(x))
             /\ Cardinality(QueuedSince(x)) \in Nat /\ Cardinality(MessagesSince(x)) \in Nat
  <2>1. QueuedSince(x) \in SUBSET queued /\ MessagesSince(x) \in SUBSET messages
    BY DEF QueuedSince, MessagesSince
  <2>2. IsFiniteSet(QueuedSince(x)) /\ IsFiniteSet(MessagesSince(x))
    BY <1>8, <2>1, FS_Subset
  <2> QED BY <2>2, FS_CardinalityType
<1>10. ASSUME NEW x \in Nat, x > time PROVE Cardinality(QueuedSince(x)) = 0
  <2>1. QueuedSince(x) = {}
    BY <1>10 DEF QueuedSince, QuotaTypes, IsText
  <2> QED BY <2>1, <1>5
<1>11. Since \in Nat /\ Since <= time
  BY <1>1 DEF Since, QuotaTypes
<1>12. Cardinality(queued) \in Nat
  BY <1>8, FS_CardinalityType
<1> QED BY <1>1, <1>3, <1>5, <1>6, <1>7, <1>9, <1>10, <1>11, <1>12 DEF QuotaCounts

LEMMA QuotaTypesStep == QuotaTypes /\ [QuotaNext]_quotaVars => QuotaTypes'
<1> SUFFICES ASSUME QuotaTypes, [QuotaNext]_quotaVars PROVE QuotaTypes'
  OBVIOUS
<1>0. Cardinality(queued) \in Nat
  BY QuotaCountsHold DEF QuotaCounts
<1> USE DEF QuotaTypes
<1>1. ASSUME NEW s \in Senders, Ask(s) PROVE QuotaTypes'
  BY <1>1 DEF Ask, Missed, IsText
<1>2. ASSUME NEW s \in Senders, Queue(s) PROVE QuotaTypes'
  <2> DEFINE q == [text |-> Cardinality(queued) + 1, at |-> time]
  <2>0. IsText(q) /\ q.at <= time
    BY <1>0 DEF IsText
  <2>1. IsFiniteSet(queued \cup {q}) /\ IsText(q) /\ q.at <= time
    <3> HIDE DEF q
    <3> QED BY <2>0, FS_AddElement
  <2>2. queued' \in {queued, queued \cup {q}}
    BY <1>2 DEF Queue
  <2>3. IsFiniteSet(queued') /\ \A p \in queued' : IsText(p) /\ p.at <= time
    BY <2>1, <2>2
  <2>4. sender' \in [Senders -> [at : {"free", "queue", "record"}, text : Nat]]
    BY <1>0, <1>2 DEF Queue, Free
  <2> QED BY <1>2, <2>3, <2>4 DEF Queue, IsText
<1>3. ASSUME NEW s \in Senders, Record(s) PROVE QuotaTypes'
  <2> DEFINE m == [text |-> sender[s].text, at |-> time]
  <2>1. IsFiniteSet(messages \cup {m}) /\ IsText(m)
    BY FS_AddElement DEF IsText
  <2>2. messages' \in {messages, messages \cup {m}}
    BY <1>3 DEF Record
  <2>3. IsFiniteSet(messages') /\ \A p \in messages' : IsText(p)
    BY <2>1, <2>2
  <2> QED BY <1>3, <2>3 DEF Record, Missed, Free, IsText
<1>4. ASSUME NEW m \in messages, DeleteMessage(m) PROVE QuotaTypes'
  <2>1. IsFiniteSet(messages')
    BY <1>4, FS_RemoveElement DEF DeleteMessage
  <2> QED BY <1>4, <2>1 DEF DeleteMessage, Missed, IsText
<1>5. CASE Pass
  BY <1>5 DEF Pass, IsText
<1>6. CASE UNCHANGED quotaVars
  BY <1>6 DEF quotaVars, IsText
<1> QED BY <1>1, <1>2, <1>3, <1>4, <1>5, <1>6 DEF QuotaNext

LEMMA QuotaStep == QuotaInv /\ [QuotaNext]_quotaVars => QuotaInv'
<1> SUFFICES ASSUME QuotaInv, [QuotaNext]_quotaVars PROVE QuotaInv'
  OBVIOUS
<1>t. QuotaTypes /\ QuotaTypes' /\ TextsDiffer /\ QueuedIsCounted /\ AskedFit /\ QuotaHolds
  BY QuotaTypesStep DEF QuotaInv
<1>c. /\ IsFiniteSet(Asked) /\ IsFiniteSet(Recording)
      /\ Cardinality(Asked) \in Nat /\ Cardinality(Recording) \in Nat
      /\ Cardinality(Senders) \in Nat /\ Cardinality(queued) \in Nat
      /\ Cardinality(Asked) + Cardinality(Recording) <= Cardinality(Senders)
      /\ \A x : /\ IsFiniteSet(QueuedSince(x)) /\ IsFiniteSet(MessagesSince(x))
                /\ Cardinality(QueuedSince(x)) \in Nat
                /\ Cardinality(MessagesSince(x)) \in Nat
      /\ \A x \in Nat : x > time => Cardinality(QueuedSince(x)) = 0
      /\ Since \in Nat /\ Since <= time
  BY <1>t, QuotaCountsHold DEF QuotaCounts
<1>d. /\ IsFiniteSet(Asked') /\ IsFiniteSet(Recording')
      /\ Cardinality(Asked') \in Nat /\ Cardinality(Recording') \in Nat
      /\ Cardinality(queued') \in Nat
      /\ Cardinality(Asked') + Cardinality(Recording') <= Cardinality(Senders)
      /\ \A x : /\ IsFiniteSet(QueuedSince(x)') /\ IsFiniteSet(MessagesSince(x)')
                /\ Cardinality(QueuedSince(x)') \in Nat
                /\ Cardinality(MessagesSince(x)') \in Nat
      /\ \A x \in Nat : x > time' => Cardinality(QueuedSince(x)') = 0
      /\ Since' \in Nat /\ Since' <= time'
  <2>1. QuotaCounts'
    BY <1>t, QuotaCountsHold, PTL
  <2> QED BY <2>1 DEF QuotaCounts
<1>a. HourlyLimit \in Nat \ {0} /\ Hour \in Nat \ {0} /\ MaxTime \in Nat
  BY QuotaAssumption
<1>m. misses \in Nat /\ misses' \in Nat /\ time \in Nat /\ time' \in Nat
      /\ sender \in [Senders -> [at : {"free", "queue", "record"}, text : Nat]]
  BY <1>t DEF QuotaTypes
<1>w. ASSUME UNCHANGED queued, misses' >= misses PROVE QuotaHolds'
  <2> SUFFICES ASSUME NEW t \in 0 .. MaxTime
               PROVE  Cardinality({q \in queued : q.at <= t /\ t <= q.at + Hour})
                        <= HourlyLimit + Cardinality(Senders) - 1 + misses'
    BY <1>w DEF QuotaHolds
  <2>1. Cardinality({q \in queued : q.at <= t /\ t <= q.at + Hour}) <= HourlyLimit + Cardinality(Senders) - 1 + misses
    BY <1>t DEF QuotaHolds
  <2>2. IsFiniteSet({q \in queued : q.at <= t /\ t <= q.at + Hour})
    BY <1>t, FS_Subset DEF QuotaTypes
  <2>3. Cardinality({q \in queued : q.at <= t /\ t <= q.at + Hour}) \in Nat
    BY <2>2, FS_CardinalityType
  <2> QED BY <1>w, <2>1, <2>3, <1>m, <1>a, <1>c
<1>1. ASSUME NEW s \in Senders, Ask(s) PROVE QuotaInv'
  <2>1. sender[s].at = "free" /\ sender' = [sender EXCEPT ![s].at = "queue"]
        /\ UNCHANGED <<time, queued, messages>> /\ misses' >= misses
    BY <1>1, <1>m DEF Ask, Missed, Free
  <2>2. Recording' = Recording /\ Asked' = Asked \cup {s} /\ s \notin Asked
    BY <2>1, <1>m DEF Recording, Asked
  <2>3. Cardinality(Asked') = Cardinality(Asked) + 1
    BY <2>2, <1>c, FS_AddElement
  <2>4. Since' = Since /\ (\A x : QueuedSince(x)' = QueuedSince(x)) /\ (\A x : MessagesSince(x)' = MessagesSince(x))
    BY <2>1 DEF Since, QueuedSince, MessagesSince
  <2>5. TextsDiffer'
    <3>1. \A t \in Recording : sender'[t].text = sender[t].text
      BY <2>1, <1>m DEF Recording
    <3> QED BY <1>t, <2>1, <2>2, <3>1 DEF TextsDiffer
  <2>6. QueuedIsCounted'
    BY <1>t, <1>c, <1>m, <2>1, <2>2, <2>4 DEF QueuedIsCounted
  <2>7. AskedFit'
    <3>1. CASE sendAllowed /\ UNCHANGED misses
      <4>1. Cardinality(MessagesSince(Since)) < HourlyLimit
        BY <3>1 DEF sendAllowed, CountOutboundSince, MessagesSince
      <4>2. Cardinality(QueuedSince(Since)) <= Cardinality(MessagesSince(Since)) + Cardinality(Recording) + misses
        BY <1>t, <1>c DEF QueuedIsCounted
      <4>3. Cardinality(QueuedSince(Since)') = Cardinality(QueuedSince(Since))
        BY <2>4
      <4>4. Cardinality(Asked') + Cardinality(Recording) <= Cardinality(Senders)
        BY <1>d, <2>2
      <4>5. Cardinality(QueuedSince(Since)) \in Nat /\ Cardinality(MessagesSince(Since)) \in Nat
        BY <1>c
      <4> QED BY <3>1, <4>1, <4>2, <4>3, <4>4, <4>5, <1>c, <1>d, <1>a, <1>m, <2>4 DEF AskedFit
    <3>2. CASE misses' = misses + 1
      <4>1. Cardinality(QueuedSince(Since)) \in Nat
        BY <1>c
      <4> QED BY <3>2, <4>1, <1>t, <1>c, <1>a, <1>m, <2>3, <2>4 DEF AskedFit
    <3> QED BY <1>1, <3>1, <3>2 DEF Ask, Missed
  <2>8. QuotaHolds'
    BY <1>w, <2>1
  <2> QED BY <1>t, <2>5, <2>6, <2>7, <2>8 DEF QuotaInv
<1>2. ASSUME NEW s \in Senders, Queue(s) PROVE QuotaInv'
  <2>0. sender[s].at = "queue" /\ UNCHANGED <<time, messages, misses>>
    BY <1>2 DEF Queue
  <2>1. Since' = Since /\ \A x : MessagesSince(x)' = MessagesSince(x)
    BY <2>0 DEF Since, MessagesSince
  <2>2. CASE sender' = [sender EXCEPT ![s] = Free] /\ UNCHANGED queued
    <3>1. Recording' = Recording /\ Asked' = Asked \ {s} /\ s \in Asked
      BY <2>0, <2>2, <1>m DEF Recording, Asked, Free
    <3>2. Cardinality(Asked') = Cardinality(Asked) - 1
      BY <3>1, <1>c, FS_RemoveElement
    <3>3. \A x : QueuedSince(x)' = QueuedSince(x)
      BY <2>2 DEF QueuedSince
    <3>4. TextsDiffer'
      <4>1. \A t \in Recording : sender'[t].text = sender[t].text
        BY <2>0, <2>2, <1>m DEF Recording
      <4> QED BY <1>t, <2>0, <2>2, <3>1, <4>1 DEF TextsDiffer
    <3>5. QueuedIsCounted'
      BY <1>t, <2>0, <2>1, <3>1, <3>3 DEF QueuedIsCounted
    <3>6. AskedFit'
      <4>1. Cardinality(QueuedSince(Since)) \in Nat
        BY <1>c
      <4> QED BY <4>1, <1>t, <1>c, <1>a, <1>m, <2>0, <2>1, <3>2, <3>3 DEF AskedFit
    <3>7. QuotaHolds'
      BY <1>t, <2>0, <2>2 DEF QuotaHolds
    <3> QED BY <1>t, <3>4, <3>5, <3>6, <3>7 DEF QuotaInv
  <2>3. CASE LET n == Cardinality(queued) + 1 IN
             /\ queued' = queued \cup {[text |-> n, at |-> time]}
             /\ sender' = [sender EXCEPT ![s] = [at |-> "record", text |-> n]]
    <3> DEFINE n == Cardinality(queued) + 1
               q == [text |-> n, at |-> time]
    <3>0. queued' = queued \cup {q} /\ sender' = [sender EXCEPT ![s] = [at |-> "record", text |-> n]]
          /\ q.text = n /\ q.at = time /\ n \in Nat
      BY <2>3, <1>c
    <3>n. q \notin queued
      BY <1>t, <1>c, <3>0 DEF TextsDiffer
    <3>s. Cardinality(queued') = n
      <4> HIDE DEF q
      <4> QED BY <3>0, <3>n, <1>t, FS_AddElement DEF QuotaTypes
    <3>1. Recording' = Recording \cup {s} /\ s \notin Recording /\ Asked' = Asked \ {s} /\ s \in Asked
      BY <2>0, <3>0, <1>m DEF Recording, Asked
    <3>2. Cardinality(Asked') = Cardinality(Asked) - 1 /\ Cardinality(Recording') = Cardinality(Recording) + 1
      BY <3>1, <1>c, FS_RemoveElement, FS_AddElement
    <3>3. ASSUME NEW x \in Nat, x <= time
          PROVE  Cardinality(QueuedSince(x)') = Cardinality(QueuedSince(x)) + 1
      <4>1. QueuedSince(x)' = QueuedSince(x) \cup {q} /\ q \notin QueuedSince(x)
        BY <3>0, <3>n, <3>3, <1>m DEF QueuedSince
      <4>2. IsFiniteSet(QueuedSince(x))
        BY <1>c
      <4> HIDE DEF q
      <4> QED BY <4>1, <4>2, FS_AddElement
    <3>4. TextsDiffer'
      <4>1. \A t \in Recording : sender'[t].text = sender[t].text /\ sender[t].text <= Cardinality(queued) /\ sender[t].text \in Nat
        BY <2>0, <3>0, <1>m, <1>t DEF Recording, TextsDiffer
      <4>2. sender'[s].text = n
        BY <3>0, <1>m
      <4>3. \A m \in messages : m.text <= Cardinality(queued) /\ m.text \in Nat
        BY <1>t DEF TextsDiffer, QuotaTypes, IsText
      <4>4. \A p \in queued : p.text <= Cardinality(queued) /\ p.text \in Nat
        BY <1>t DEF TextsDiffer, QuotaTypes, IsText
      <4>5. \A t, u \in Recording' : sender'[t].text = sender'[u].text => t = u
        BY <1>t, <1>c, <3>1, <4>1, <4>2 DEF TextsDiffer
      <4>6. \A t \in Recording', m \in messages' : sender'[t].text # m.text
        BY <1>t, <1>c, <2>0, <3>1, <4>1, <4>2, <4>3 DEF TextsDiffer
      <4>7. \A t \in Recording' : sender'[t].text <= n
        BY <1>c, <3>1, <4>1, <4>2
      <4>8. (\A m \in messages' : m.text <= n) /\ \A p \in queued' : p.text <= n
        BY <1>c, <2>0, <3>0, <4>3, <4>4
      <4> HIDE DEF n, q
      <4> QED BY <3>s, <4>5, <4>6, <4>7, <4>8 DEF TextsDiffer
    <3>5. QueuedIsCounted'
      <4> SUFFICES ASSUME NEW x \in Nat
                   PROVE  Cardinality(QueuedSince(x)') <= Cardinality(MessagesSince(x)') + Cardinality(Recording') + misses'
        BY DEF QueuedIsCounted
      <4>1. Cardinality(QueuedSince(x)) <= Cardinality(MessagesSince(x)) + Cardinality(Recording) + misses
        BY <1>t DEF QueuedIsCounted
      <4>2. Cardinality(MessagesSince(x)) \in Nat /\ Cardinality(QueuedSince(x)) \in Nat
            /\ Cardinality(MessagesSince(x)') = Cardinality(MessagesSince(x))
        BY <1>c, <2>1
      <4>3. CASE x <= time
        BY <4>1, <4>2, <4>3, <3>2, <3>3, <2>0, <1>c, <1>m
      <4>4. CASE x > time
        BY <4>2, <4>4, <1>d, <1>m, <2>0
      <4> QED BY <4>3, <4>4, <1>m
    <3>6. AskedFit'
      <4>0. PICK z \in Nat : z = Since /\ z = Since' /\ z <= time
        BY <1>c, <2>1
      <4>1. Cardinality(QueuedSince(z)) \in Nat /\ Cardinality(QueuedSince(z)') = Cardinality(QueuedSince(z)) + 1
        BY <1>c, <3>3, <4>0
      <4>2. QueuedSince(Since) = QueuedSince(z) /\ QueuedSince(Since)' = QueuedSince(z)'
        BY <4>0 DEF QueuedSince
      <4> QED BY <4>1, <4>2, <1>t, <1>c, <1>a, <1>m, <2>0, <3>2 DEF AskedFit
    <3>7. QuotaHolds'
      <4> SUFFICES ASSUME NEW t \in 0 .. MaxTime
                   PROVE  Cardinality({p \in queued' : p.at <= t /\ t <= p.at + Hour})
                            <= HourlyLimit + Cardinality(Senders) - 1 + misses'
        BY DEF QuotaHolds
      <4>0. t \in Nat
        BY <1>a
      <4>1. CASE t < time
        <5>1. {p \in queued' : p.at <= t /\ t <= p.at + Hour} = {p \in queued : p.at <= t /\ t <= p.at + Hour}
          BY <3>0, <4>0, <4>1, <1>m
        <5> QED BY <1>t, <5>1, <2>0 DEF QuotaHolds
      <4>2. CASE ~(t < time)
        <5>1. {p \in queued' : p.at <= t /\ t <= p.at + Hour} \subseteq QueuedSince(Since)'
          <6> SUFFICES ASSUME NEW p \in queued', t <= p.at + Hour PROVE p.at >= Since'
            BY DEF QueuedSince
          <6>1. p.at \in Nat
            BY <1>t DEF QuotaTypes, IsText
          <6> QED BY <6>1, <4>0, <4>2, <1>a, <1>m, <2>0 DEF Since
        <5>2. IsFiniteSet(QueuedSince(Since)') /\ Cardinality(QueuedSince(Since)') \in Nat
          BY <1>d
        <5>3. Cardinality({p \in queued' : p.at <= t /\ t <= p.at + Hour}) <= Cardinality(QueuedSince(Since)')
              /\ IsFiniteSet({p \in queued' : p.at <= t /\ t <= p.at + Hour})
          BY <5>1, <5>2, FS_Subset
        <5>4. Cardinality({p \in queued' : p.at <= t /\ t <= p.at + Hour}) \in Nat
          BY <5>3, FS_CardinalityType
        <5>5. Cardinality(QueuedSince(Since)') + Cardinality(Asked') <= HourlyLimit + Cardinality(Senders) - 1 + misses'
          BY <3>6, <2>1 DEF AskedFit
        <5> QED BY <5>2, <5>3, <5>4, <5>5, <1>a, <1>c, <1>d, <1>m
      <4> QED BY <4>1, <4>2
    <3> QED BY <1>t, <3>4, <3>5, <3>6, <3>7 DEF QuotaInv
  <2> QED BY <1>2, <2>2, <2>3 DEF Queue
<1>3. ASSUME NEW s \in Senders, Record(s) PROVE QuotaInv'
  <2>0. sender[s].at = "record" /\ sender' = [sender EXCEPT ![s] = Free]
        /\ UNCHANGED <<time, queued>> /\ misses' >= misses
    BY <1>3, <1>m DEF Record, Missed
  <2>1. Since' = Since /\ \A x : QueuedSince(x)' = QueuedSince(x)
    BY <2>0 DEF Since, QueuedSince
  <2>2. Recording' = Recording \ {s} /\ s \in Recording /\ Asked' = Asked
    BY <2>0, <1>m DEF Recording, Asked, Free
  <2>3. Cardinality(Recording') = Cardinality(Recording) - 1
    BY <2>2, <1>c, FS_RemoveElement
  <2>4. \A t \in Recording' : t \in Recording /\ sender'[t].text = sender[t].text /\ sender[t].text # sender[s].text
    BY <1>t, <2>0, <2>2, <1>m DEF TextsDiffer
  <2>5. AskedFit'
    <3>1. Cardinality(QueuedSince(Since)) \in Nat
      BY <1>c
    <3> QED BY <3>1, <1>t, <1>c, <1>a, <1>m, <2>0, <2>1, <2>2 DEF AskedFit
  <2>6. QuotaHolds'
    BY <1>w, <2>0
  <2>7. CASE messages' = messages \cup {[text |-> sender[s].text, at |-> time]} /\ UNCHANGED misses
    <3> DEFINE m == [text |-> sender[s].text, at |-> time]
    <3>1. messages' = messages \cup {m} /\ m.text = sender[s].text /\ m.at = time /\ UNCHANGED misses
      BY <2>7
    <3> HIDE DEF m
    <3>2. m \notin messages
      BY <1>t, <2>2, <3>1 DEF TextsDiffer
    <3>3. TextsDiffer'
      BY <1>t, <2>0, <2>2, <2>4, <3>1 DEF TextsDiffer
    <3>4. QueuedIsCounted'
      <4> SUFFICES ASSUME NEW x \in Nat
                   PROVE  Cardinality(QueuedSince(x)) <= Cardinality(MessagesSince(x)') + Cardinality(Recording') + misses
        BY <2>1, <3>1 DEF QueuedIsCounted
      <4>1. Cardinality(QueuedSince(x)) <= Cardinality(MessagesSince(x)) + Cardinality(Recording) + misses
        BY <1>t DEF QueuedIsCounted
      <4>2. Cardinality(MessagesSince(x)) \in Nat /\ Cardinality(QueuedSince(x)) \in Nat
            /\ Cardinality(MessagesSince(x)') \in Nat
        BY <1>c, <1>d
      <4>3. CASE x <= time
        <5>1. MessagesSince(x)' = MessagesSince(x) \cup {m} /\ m \notin MessagesSince(x)
          BY <3>1, <3>2, <4>3, <1>m DEF MessagesSince
        <5>2. IsFiniteSet(MessagesSince(x))
          BY <1>c
        <5>3. Cardinality(MessagesSince(x)') = Cardinality(MessagesSince(x)) + 1
          BY <5>1, <5>2, FS_AddElement
        <5> QED BY <5>3, <4>1, <4>2, <2>3, <1>c, <1>m
      <4>4. CASE x > time
        BY <4>2, <4>4, <1>c, <1>d, <1>m
      <4> QED BY <4>3, <4>4, <1>m
    <3> QED BY <1>t, <2>5, <2>6, <3>3, <3>4 DEF QuotaInv
  <2>8. CASE UNCHANGED messages /\ Missed
    <3>1. misses' = misses + 1 /\ \A x : MessagesSince(x)' = MessagesSince(x)
      BY <2>8 DEF Missed, MessagesSince
    <3>2. TextsDiffer'
      BY <1>t, <2>0, <2>2, <2>4, <2>8 DEF TextsDiffer
    <3>3. QueuedIsCounted'
      <4> SUFFICES ASSUME NEW x \in Nat
                   PROVE  Cardinality(QueuedSince(x)) <= Cardinality(MessagesSince(x)) + Cardinality(Recording') + misses'
        BY <2>1, <3>1 DEF QueuedIsCounted
      <4>1. Cardinality(QueuedSince(x)) <= Cardinality(MessagesSince(x)) + Cardinality(Recording) + misses
        BY <1>t DEF QueuedIsCounted
      <4>2. Cardinality(MessagesSince(x)) \in Nat /\ Cardinality(QueuedSince(x)) \in Nat
        BY <1>c
      <4> QED BY <4>1, <4>2, <3>1, <2>3, <1>c, <1>m
    <3> QED BY <1>t, <2>5, <2>6, <3>2, <3>3 DEF QuotaInv
  <2> QED BY <1>3, <2>7, <2>8 DEF Record
<1>4. ASSUME NEW m \in messages, DeleteMessage(m) PROVE QuotaInv'
  <2>0. messages' = messages \ {m} /\ misses' = misses + 1 /\ UNCHANGED <<time, sender, queued>>
    BY <1>4 DEF DeleteMessage, Missed
  <2>1. Since' = Since /\ (\A x : QueuedSince(x)' = QueuedSince(x)) /\ Recording' = Recording /\ Asked' = Asked
    BY <2>0 DEF Since, QueuedSince, Recording, Asked
  <2>2. TextsDiffer'
    BY <1>t, <2>0, <2>1 DEF TextsDiffer
  <2>3. QueuedIsCounted'
    <3> SUFFICES ASSUME NEW x \in Nat
                 PROVE  Cardinality(QueuedSince(x)) <= Cardinality(MessagesSince(x)') + Cardinality(Recording) + misses'
      BY <2>1 DEF QueuedIsCounted
    <3>1. Cardinality(QueuedSince(x)) <= Cardinality(MessagesSince(x)) + Cardinality(Recording) + misses
      BY <1>t DEF QueuedIsCounted
    <3>2. IsFiniteSet(MessagesSince(x)) /\ Cardinality(MessagesSince(x)) \in Nat /\ Cardinality(QueuedSince(x)) \in Nat
      BY <1>c
    <3>3. MessagesSince(x)' = MessagesSince(x) \ {m}
      BY <2>0 DEF MessagesSince
    <3>4. Cardinality(MessagesSince(x)') >= Cardinality(MessagesSince(x)) - 1
      BY <3>2, <3>3, FS_RemoveElement
    <3>5. Cardinality(MessagesSince(x)') \in Nat
      BY <1>d
    <3> QED BY <3>1, <3>2, <3>4, <3>5, <2>0, <1>c, <1>m
  <2>4. AskedFit'
    <3>1. Cardinality(QueuedSince(Since)) \in Nat
      BY <1>c
    <3> QED BY <3>1, <1>t, <1>c, <1>a, <1>m, <2>0, <2>1 DEF AskedFit
  <2>5. QuotaHolds'
    BY <1>w, <2>0, <1>m
  <2> QED BY <1>t, <2>2, <2>3, <2>4, <2>5 DEF QuotaInv
<1>5. CASE Pass
  <2>0. time' = time + 1 /\ UNCHANGED <<sender, queued, messages, misses>>
    BY <1>5 DEF Pass
  <2>1. (\A x : QueuedSince(x)' = QueuedSince(x)) /\ (\A x : MessagesSince(x)' = MessagesSince(x))
        /\ Recording' = Recording /\ Asked' = Asked
    BY <2>0 DEF QueuedSince, MessagesSince, Recording, Asked
  <2>2. TextsDiffer'
    BY <1>t, <2>0, <2>1 DEF TextsDiffer
  <2>3. QueuedIsCounted'
    BY <1>t, <2>0, <2>1 DEF QueuedIsCounted
  <2>4. AskedFit'
    <3>1. QueuedSince(Since)' \subseteq QueuedSince(Since)
      <4> SUFFICES ASSUME NEW q \in queued, q.at >= Since' PROVE q.at >= Since
        BY <2>0 DEF QueuedSince
      <4>1. q.at \in Nat
        BY <1>t DEF QuotaTypes, IsText
      <4> QED BY <4>1, <2>0, <1>m, <1>a DEF Since
    <3>2. IsFiniteSet(QueuedSince(Since)) /\ Cardinality(QueuedSince(Since)) \in Nat
      BY <1>c
    <3>3. Cardinality(QueuedSince(Since)') <= Cardinality(QueuedSince(Since)) /\ IsFiniteSet(QueuedSince(Since)')
      BY <3>1, <3>2, FS_Subset
    <3>4. Cardinality(QueuedSince(Since)') \in Nat
      BY <3>3, FS_CardinalityType
    <3> QED BY <3>2, <3>3, <3>4, <1>t, <1>c, <1>a, <1>m, <2>0, <2>1 DEF AskedFit
  <2>5. QuotaHolds'
    BY <1>t, <2>0 DEF QuotaHolds
  <2> QED BY <1>t, <2>2, <2>3, <2>4, <2>5 DEF QuotaInv
<1>6. CASE UNCHANGED quotaVars
  <2>0. UNCHANGED <<time, sender, queued, messages, misses>>
    BY <1>6 DEF quotaVars
  <2> QED BY <1>t, <2>0 DEF QuotaInv, TextsDiffer, QueuedIsCounted, AskedFit, QuotaHolds, Recording, Asked,
                           QueuedSince, MessagesSince, Since
<1> QED BY <1>1, <1>2, <1>3, <1>4, <1>5, <1>6 DEF QuotaNext

\* However senders interleave, whatever is missed or deleted, no hour takes more
\* texts than the limit, the other senders and the misses (sendAllowed).
THEOREM LimitIsKept == QuotaSpec => []QuotaHolds
<1>1. QuotaInit => QuotaInv
  <2> SUFFICES ASSUME QuotaInit PROVE QuotaInv
    OBVIOUS
  <2>a. HourlyLimit \in Nat \ {0} /\ Hour \in Nat \ {0} /\ MaxTime \in Nat
    BY QuotaAssumption
  <2>0. time = 0 /\ sender = [s \in Senders |-> Free] /\ queued = {} /\ messages = {} /\ misses = 0
    BY DEF QuotaInit
  <2>1. QuotaTypes
    BY <2>0, FS_EmptySet DEF QuotaTypes, Free
  <2>2. QuotaCounts
    BY <2>1, QuotaCountsHold
  <2>3. Recording = {} /\ Asked = {} /\ (\A x : QueuedSince(x) = {}) /\ Cardinality({}) = 0
    BY <2>0, FS_EmptySet DEF Recording, Asked, QueuedSince, Free
  <2>c. /\ Cardinality(Recording) = 0 /\ Cardinality(Asked) = 0 /\ \A x : Cardinality(QueuedSince(x)) = 0
        /\ Cardinality(Senders) \in Nat /\ \A x : Cardinality(MessagesSince(x)) \in Nat
    BY <2>2, <2>3 DEF QuotaCounts
  <2>4. TextsDiffer
    BY <2>0, <2>3 DEF TextsDiffer
  <2>5. QueuedIsCounted
    BY <2>0, <2>c DEF QueuedIsCounted
  <2>6. AskedFit
    BY <2>0, <2>c, <2>a DEF AskedFit
  <2>7. QuotaHolds
    <3> SUFFICES ASSUME NEW t \in 0 .. MaxTime
                 PROVE  Cardinality({q \in queued : q.at <= t /\ t <= q.at + Hour})
                          <= HourlyLimit + Cardinality(Senders) - 1 + misses
      BY DEF QuotaHolds
    <3>1. {q \in queued : q.at <= t /\ t <= q.at + Hour} = {}
      BY <2>0
    <3> QED BY <3>1, <2>0, <2>c, <2>3, <2>a
  <2> QED BY <2>1, <2>4, <2>5, <2>6, <2>7 DEF QuotaInv
<1>2. QuotaInv => QuotaHolds
  BY DEF QuotaInv
<1> QED BY <1>1, <1>2, QuotaStep, PTL DEF QuotaSpec
=============================================================================
