--------------------------- MODULE JournalStores ---------------------------
(***************************************************************************)
(* The two implementations of ingress.Store for one device, driven by the  *)
(* same calls: the in-memory Journal (journal.go), which the repository    *)
(* calls the policy prototype and which serves a gateway with no database, *)
(* and the PostgreSQL journal (app.accept_ingress, record_unstorable and   *)
(* ingress_window).  Only PostgreSQL forgets: a retention pass deletes     *)
(* rows below a mark the window is then counted from.                      *)
(***************************************************************************)
EXTENDS IngressWindow

CONSTANTS
    MaxSeq,            \* bound: the highest sequence
    MaxMissingRanges   \* at most this many holes are reported (128 in the code)

ASSUME StoreAssumption == MaxSeq \in Nat /\ MaxMissingRanges \in Nat \ {0}

Seqs == 1 .. MaxSeq

VARIABLES
    bySeq,      \* deviceJournal.bySeq
    committed,  \* deviceJournal.committed
    rows,       \* app.ingress
    mark        \* app.ingress_pruned.pruned_through

vars == <<bySeq, committed, rows, mark>>

Stored(r) == {s \in Seqs : r[s] # "none"}

Init ==
    /\ bySeq = [s \in Seqs |-> "none"] /\ committed = 0
    /\ rows = [s \in Seqs |-> "none"] /\ mark = 0

\* A sequence that has a record keeps it: the same content is a duplicate,
\* other content a conflict, and neither changes the journal.
Put(r, s, content) == [r EXCEPT ![s] = IF @ = "none" THEN content ELSE @]

\* Slip: the in-memory cursor moves by one record only.
MemoryPutOneStep(s, content) ==
    /\ bySeq' = Put(bySeq, s, content)
    /\ committed' = IF s = committed + 1 THEN s ELSE committed

\* Journal.Accept, and the INSERT ... ON CONFLICT DO NOTHING of accept_ingress.
MemoryPut(s, content) ==
    /\ bySeq' = Put(bySeq, s, content)
    /\ committed' = GoAdvance(committed, Stored(bySeq'))

SqlPut(s, content) == rows' = Put(rows, s, content)

Accept(s) == MemoryPut(s, "real") /\ SqlPut(s, "real") /\ mark' = mark

RecordUnstorable(s) == MemoryPut(s, "tomb") /\ SqlPut(s, "tomb") /\ mark' = mark

\* prune_ingress, one whole pass: some of the DeviceState rows below a ceiling
\* inside the contiguous prefix go, and the mark moves up to the ceiling.
PruneIngress(ceiling, aged) ==
    /\ ceiling > mark /\ ceiling <= SqlCommitted(mark, Stored(rows))
    /\ aged \subseteq {s \in mark + 1 .. ceiling : rows[s] = "real"}
    /\ rows' = [s \in Seqs |-> IF s \in aged THEN "none" ELSE rows[s]]
    /\ mark' = ceiling
    /\ UNCHANGED <<bySeq, committed>>

Next ==
    \/ \E s \in Seqs : Accept(s) \/ RecordUnstorable(s)
    \/ \E ceiling \in Seqs, aged \in SUBSET Seqs : PruneIngress(ceiling, aged)

Spec == Init /\ [][Next]_vars

-----------------------------------------------------------------------------
\* The two stores give the device the same window, holes, cap and overflow
\* flag included, whatever order the records arrived in and whatever retention
\* has deleted from one of them since.
StoresAgree ==
    GoWindow(committed, Stored(bySeq), MaxMissingRanges)
      = SqlWindow(mark, Stored(rows), MaxMissingRanges)

\* The windows are also right: the prefix ends where the first record is
\* missing, the ranges are the first MaxMissingRanges maximal runs of missing
\* sequences below the highest one seen, in ascending order, and the flag says
\* whether there are more.
HoleStarts(S, c) ==
    {n \in Seqs : n > c /\ n \notin S /\ n - 1 \in S \union {c} /\ \E s \in S : s > n}

WindowExact ==
    LET S == Stored(bySeq)
        w == SqlWindow(mark, Stored(rows), MaxMissingRanges)
        starts == HoleStarts(S, w.committed)
        Below(n) == Cardinality({m \in starts : m <= n})
    IN  /\ 1 .. w.committed \subseteq S /\ w.committed + 1 \notin S
        /\ w.more = (Cardinality(starts) > MaxMissingRanges)
        /\ Len(w.ranges) = IF w.more THEN MaxMissingRanges ELSE Cardinality(starts)
        /\ \A n \in starts : Below(n) <= MaxMissingRanges
              => w.ranges[Below(n)] = Interval(n, HoleEnd(S, n))

\* Both journals tell the device the same window, and it is the right one
\* (Journal.Window, app.ingress_window).
WindowsExact == StoresAgree /\ WindowExact
=============================================================================
