--------------------------- MODULE IngressWindow ---------------------------
(***************************************************************************)
(* The acknowledged window of one device's uplink journal, as pure         *)
(* operators.  A journal is the set S of sequences that have a row; base   *)
(* is app.ingress_pruned.pruned_through (0 when the device has no mark).   *)
(*                                                                         *)
(* Two implementations are translated: app.ingress_window (migration 0040) *)
(* and the in-memory Journal of internal/ingress/journal.go.  Recursion is *)
(* written with recursive functions.                                       *)
(***************************************************************************)
EXTENDS Naturals, FiniteSets, Sequences

Interval(a, b) == [from |-> a, through |-> b]

\* The largest element of T, or dflt: COALESCE(MAX(...), dflt).
LastOr(dflt, T) ==
    IF T = {} THEN dflt ELSE CHOOSE m \in T : \A t \in T : t <= m

\* The smallest element of T, or dflt where MIN(...) is NULL.
FirstOr(dflt, T) ==
    IF T = {} THEN dflt ELSE CHOOSE m \in T : \A t \in T : m <= t

\* The rows above base that sit in their own position: seq = base + ROW_NUMBER().
InPosition(base, S) ==
    {s \in S : /\ s > base
               /\ Cardinality({t \in S : base < t /\ t <= s}) = s - base}

\* Slip: the prefix counted from the first row ever, as before migration 0040.
CommittedFromOne(base, S) == LastOr(0, InPosition(0, S))

\* app.ingress_window, first half: committed_through.
SqlCommitted(base, S) == LastOr(base, InPosition(base, S))

\* app.ingress_window, second half: what the loop over the rows above
\* committed_through, in ascending order, does with row n. At most cap holes are
\* collected; the next one ends the loop.
SqlRow(p, n, cap) ==
    IF p.more
    THEN p
    ELSE IF n <= p.prev + 1
    THEN [p EXCEPT !.prev = n]
    ELSE IF Len(p.ranges) >= cap
    THEN [p EXCEPT !.more = TRUE]
    ELSE [prev |-> n, ranges |-> Append(p.ranges, Interval(p.prev + 1, n - 1)), more |-> FALSE]

SqlStart(committed) == [prev |-> committed, ranges |-> <<>>, more |-> FALSE]

SqlRanges(base, S, cap) ==
    LET committed == SqlCommitted(base, S)
        last == LastOr(committed, {s \in S : s > committed})
        Loop[n \in committed .. last] ==
          IF n = committed THEN SqlStart(committed)
          ELSE IF n \in S THEN SqlRow(Loop[n - 1], n, cap) ELSE Loop[n - 1]
    IN  Loop[last]

SqlWindow(base, S, cap) ==
    [committed |-> SqlCommitted(base, S),
     ranges    |-> SqlRanges(base, S, cap).ranges,
     more      |-> SqlRanges(base, S, cap).more]

\* Journal.Accept: the cursor moves while the next sequence is present.
GoAdvance(committed, S) ==
    LET Step[n \in committed .. LastOr(committed, S)] ==
          IF n + 1 \in S /\ n + 1 <= LastOr(committed, S) THEN Step[n + 1] ELSE n
    IN  Step[committed]

\* deviceJournal.window(): a scan of every sequence up to the last one. What it
\* does with sequence n.
GoSequence(p, n, S, cap) ==
    IF p.more
    THEN p
    ELSE IF n \notin S
    THEN IF p.inHole
         THEN [p EXCEPT !.through = n]
         ELSE IF Len(p.ranges) = cap
         THEN [p EXCEPT !.more = TRUE]
         ELSE [p EXCEPT !.inHole = TRUE, !.from = n, !.through = n]
    ELSE IF p.inHole
    THEN [p EXCEPT !.inHole = FALSE,
                   !.ranges = Append(@, Interval(p.from, p.through))]
    ELSE p

GoStart == [ranges |-> <<>>, more |-> FALSE, inHole |-> FALSE, from |-> 0, through |-> 0]

GoScan(committed, S, cap) ==
    LET last == LastOr(committed, {s \in S : s > committed})
        Scan[n \in committed .. last] ==
          IF n = committed THEN GoStart ELSE GoSequence(Scan[n - 1], n, S, cap)
    IN  Scan[last]

GoWindow(committed, S, cap) ==
    LET end == GoScan(committed, S, cap)
    IN  [committed |-> committed,
         ranges |-> IF end.inHole /\ Len(end.ranges) # cap
                    THEN Append(end.ranges, Interval(end.from, end.through))
                    ELSE end.ranges,
         more |-> end.more \/ (end.inHole /\ Len(end.ranges) = cap)]

-----------------------------------------------------------------------------
\* What a window should say of a hole that starts at n: where it ends.
HoleEnd(S, n) == FirstOr(0, {s \in S : s > n}) - 1
=============================================================================
