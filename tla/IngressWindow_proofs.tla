------------------------ MODULE IngressWindow_proofs ------------------------
(***************************************************************************)
(* What app.ingress_window's committed_through is, for every journal: the  *)
(* end of the longest run of stored sequences that starts just above the   *)
(* retention mark.  The SQL finds it by comparing each row with its        *)
(* ROW_NUMBER(); the lemmas say that this positional test is the right one.*)
(***************************************************************************)
EXTENDS IngressWindow, FiniteSetTheorems, WellFoundedInduction, TLAPS

\* A bounded, non-empty set of naturals has a largest element.
LEMMA LargestExists ==
    ASSUME NEW N \in Nat, NEW T \in SUBSET (0 .. N), T # {}
    PROVE  \E m \in T : \A t \in T : t <= m
<1> DEFINE R == {ss \in Nat \X Nat : ss[1] < ss[2]}
<1> DEFINE U == {N - t : t \in T}
<1>1. IsWellFoundedOn(R, Nat)
  BY NatLessThanWellFounded DEF OpToRel
<1>2. U \in SUBSET Nat /\ U # {}
  <2>1. \A t \in T : N - t \in Nat
    OBVIOUS
  <2>2. PICK t0 \in T : TRUE
    OBVIOUS
  <2>3. N - t0 \in U
    BY <2>2
  <2> QED BY <2>1, <2>3
<1>3. PICK u \in U : \A v \in U : ~(<<v, u>> \in R)
  <2> HIDE DEF R, U
  <2> QED BY <1>1, <1>2, WFMin
<1>4. PICK m \in T : u = N - m
  BY <1>3
<1>5. \A t \in T : t <= m
  <2> TAKE t \in T
  <2>1. N - t \in U /\ N - t \in Nat /\ u \in Nat
    BY <1>2, <1>3
  <2>2. ~(N - t < u)
    BY <2>1, <1>3
  <2> QED BY <2>2, <1>4
<1> QED BY <1>5

\* A non-empty set of naturals has a smallest element.
LEMMA SmallestExists ==
    ASSUME NEW T \in SUBSET Nat, T # {}
    PROVE  \E m \in T : \A t \in T : m <= t
<1> DEFINE R == {ss \in Nat \X Nat : ss[1] < ss[2]}
<1>1. IsWellFoundedOn(R, Nat)
  BY NatLessThanWellFounded DEF OpToRel
<1>2. PICK m \in T : \A t \in T : ~(<<t, m>> \in R)
  <2> HIDE DEF R
  <2> QED BY <1>1, WFMin
<1>3. \A t \in T : m <= t
  <2> TAKE t \in T
  <2>1. t \in Nat /\ m \in Nat
    OBVIOUS
  <2>2. ~(t < m)
    BY <1>2, <2>1
  <2> QED BY <2>1, <2>2
<1> QED BY <1>3

\* MIN(...) over a set of naturals is its smallest element.
LEMMA FirstOrIsMin ==
    ASSUME NEW T \in SUBSET Nat, NEW d \in Nat
    PROVE  /\ T = {} => FirstOr(d, T) = d
           /\ T # {} => FirstOr(d, T) \in T /\ \A t \in T : FirstOr(d, T) <= t
  BY SmallestExists DEF FirstOr

\* COALESCE(MAX(...), dflt) over a bounded set really is the maximum.
LEMMA LastOrIsMax ==
    ASSUME NEW N \in Nat, NEW T \in SUBSET (0 .. N), NEW d \in Nat
    PROVE  /\ T = {} => LastOr(d, T) = d
           /\ T # {} => LastOr(d, T) \in T /\ \A t \in T : t <= LastOr(d, T)
  BY LargestExists DEF LastOr

\* A row in its own position has every sequence between the mark and itself
\* stored, and conversely: the ROW_NUMBER() comparison detects gaps exactly.
LEMMA InPositionIffContiguous ==
    ASSUME NEW N \in Nat, NEW S \in SUBSET (0 .. N), NEW b \in Nat, NEW s \in Nat, s > b
    PROVE  s \in InPosition(b, S) <=> (b + 1) .. s \subseteq S
<1> DEFINE A == {t \in S : b < t /\ t <= s}
<1> DEFINE I == (b + 1) .. s
<1>0. \A t \in S : t \in Nat
  OBVIOUS
<1>1. A \subseteq I
  <2> SUFFICES ASSUME NEW t \in A PROVE t \in I
    OBVIOUS
  <2>1. t \in Nat /\ b < t /\ t <= s
    BY <1>0
  <2> QED BY <2>1
<1>2. IsFiniteSet(I) /\ Cardinality(I) = s - b
  BY FS_Interval
<1>3. Cardinality(A) = s - b <=> A = I
  <2> HIDE DEF A, I
  <2> QED BY <1>1, <1>2, FS_Subset
<1>4. A = I <=> I \subseteq S
  <2>1. A = I => I \subseteq S
    OBVIOUS
  <2>2. ASSUME I \subseteq S, NEW t \in I PROVE t \in A
    <3>1. t \in S /\ b < t /\ t <= s
      BY <2>2
    <3> QED BY <3>1
  <2> QED BY <1>1, <2>1, <2>2
<1>5. I \subseteq S => s \in S
  OBVIOUS
<1>6. s \in InPosition(b, S) <=> s \in S /\ Cardinality(A) = s - b
  BY DEF InPosition
<1> QED BY <1>3, <1>4, <1>5, <1>6

\* committed_through is the end of the longest stored run above the mark: it
\* claims nothing that is missing, and it stops at nothing that is there.
THEOREM CommittedIsLongestRun ==
    ASSUME NEW N \in Nat, NEW S \in SUBSET (0 .. N), NEW b \in Nat
    PROVE  /\ SqlCommitted(b, S) \in Nat
           /\ SqlCommitted(b, S) >= b
           /\ SqlCommitted(b, S) = b \/ SqlCommitted(b, S) \in S
           /\ (b + 1) .. SqlCommitted(b, S) \subseteq S
           /\ \A n \in Nat : (b + 1) .. n \subseteq S /\ n > b => n <= SqlCommitted(b, S)
<1> DEFINE T == InPosition(b, S)
<1> DEFINE c == SqlCommitted(b, S)
<1>1. T \in SUBSET (0 .. N) /\ T \subseteq S /\ \A t \in T : t > b
  BY DEF InPosition
<1>2. c = LastOr(b, T)
  BY DEF SqlCommitted
<1>3. /\ T = {} => c = b
      /\ T # {} => c \in T /\ \A t \in T : t <= c
  <2> HIDE DEF T, c
  <2> QED BY <1>1, <1>2, LastOrIsMax
<1>4. c \in Nat /\ c >= b /\ (c = b \/ c \in T)
  <2> HIDE DEF T, c
  <2>1. \A t \in T : t \in Nat /\ t >= b
    BY <1>1
  <2> QED BY <1>3, <2>1
<1>5. c = b \/ c \in S
  <2> HIDE DEF T, c
  <2> QED BY <1>1, <1>4
<1>6. (b + 1) .. c \subseteq S
  <2>1. CASE c = b
    <3> HIDE DEF c
    <3> QED BY <2>1
  <2>2. CASE c \in T
    <3>1. c > b
      BY <1>1, <2>2
    <3> HIDE DEF c
    <3> QED BY <1>4, <2>2, <3>1, InPositionIffContiguous
  <2> HIDE DEF c, T
  <2> QED BY <1>4, <2>1, <2>2
<1>7. ASSUME NEW n \in Nat, (b + 1) .. n \subseteq S, n > b
      PROVE  n <= c
  <2>1. n \in T
    BY <1>7, InPositionIffContiguous
  <2> HIDE DEF c, T
  <2> QED BY <1>3, <2>1
<1> HIDE DEF c, T
<1>8. /\ c \in Nat /\ c >= b /\ (c = b \/ c \in S) /\ (b + 1) .. c \subseteq S
      /\ \A n \in Nat : (b + 1) .. n \subseteq S /\ n > b => n <= c
  BY <1>4, <1>5, <1>6, <1>7
<1> QED BY <1>8 DEF c

-----------------------------------------------------------------------------
(* The loops over the window, one step at a time.                            *)

Holes == [from : Nat, through : Nat]
SqlStates == [prev : Nat, ranges : Seq(Holes), more : BOOLEAN]
GoStates == [ranges : Seq(Holes), more : BOOLEAN, inHole : BOOLEAN, from : Nat, through : Nat]

\* What the SQL loop does with a row.
LEMMA SqlRowFacts ==
    ASSUME NEW p \in SqlStates, NEW n \in Nat \ {0}, NEW cap \in Nat,
           NEW q, q = SqlRow(p, n, cap)
    PROVE  /\ q \in SqlStates
           /\ p.more => q = p
           /\ ~p.more /\ n <= p.prev + 1 =>
                /\ q.prev = n /\ q.ranges = p.ranges
                /\ ~q.more
           /\ ~p.more /\ n > p.prev + 1 /\ Len(p.ranges) >= cap =>
                /\ q.ranges = p.ranges /\ q.more
           /\ ~p.more /\ n > p.prev + 1 /\ Len(p.ranges) < cap =>
                /\ q.prev = n /\ ~q.more
                /\ q.ranges = Append(p.ranges, Interval(p.prev + 1, n - 1))
<1>0. p.prev \in Nat /\ p.ranges \in Seq(Holes) /\ p.more \in BOOLEAN /\ Len(p.ranges) \in Nat
  BY DEF SqlStates
<1>1. CASE p.more
  BY <1>1 DEF SqlRow
<1>2. CASE ~p.more /\ n <= p.prev + 1
  <2>1. SqlRow(p, n, cap) = [p EXCEPT !.prev = n]
    BY <1>2 DEF SqlRow
  <2>2. /\ [p EXCEPT !.prev = n] \in SqlStates /\ [p EXCEPT !.prev = n].prev = n
        /\ [p EXCEPT !.prev = n].ranges = p.ranges
    BY DEF SqlStates
  <2>3. [p EXCEPT !.prev = n].more = p.more
    BY DEF SqlStates
  <2> QED BY <1>0, <1>2, <2>1, <2>2, <2>3
<1>3. CASE ~p.more /\ n > p.prev + 1 /\ Len(p.ranges) >= cap
  <2>1. SqlRow(p, n, cap) = [p EXCEPT !.more = TRUE]
    BY <1>0, <1>3 DEF SqlRow
  <2>2. [p EXCEPT !.more = TRUE] \in SqlStates /\ [p EXCEPT !.more = TRUE].ranges = p.ranges
    BY DEF SqlStates
  <2>3. [p EXCEPT !.more = TRUE].more
    BY DEF SqlStates
  <2> QED BY <1>0, <1>3, <2>1, <2>2, <2>3
<1>4. CASE ~p.more /\ n > p.prev + 1 /\ Len(p.ranges) < cap
  <2>1. SqlRow(p, n, cap) = [prev |-> n, ranges |-> Append(p.ranges, Interval(p.prev + 1, n - 1)), more |-> FALSE]
    BY <1>0, <1>4 DEF SqlRow
  <2>2. Interval(p.prev + 1, n - 1) \in Holes
    BY <1>0 DEF Interval, Holes
  <2>3. Append(p.ranges, Interval(p.prev + 1, n - 1)) \in Seq(Holes)
    BY <1>0, <2>2
  <2>4. SqlRow(p, n, cap) \in SqlStates
    BY <2>1, <2>3 DEF SqlStates
  <2> QED BY <1>0, <1>4, <2>1, <2>4
<1> QED BY <1>0, <1>1, <1>2, <1>3, <1>4

\* The next row moves on.
LEMMA SqlMoves ==
    ASSUME NEW p \in SqlStates, NEW n \in Nat, NEW cap, ~p.more, n <= p.prev + 1, NEW q, q = SqlRow(p, n, cap)
    PROVE  q.prev = n /\ q.ranges = p.ranges /\ ~q.more
<1>1. q = [p EXCEPT !.prev = n]
  BY DEF SqlRow
<1>2. q.prev = n /\ q.ranges = p.ranges
  BY <1>1 DEF SqlStates
<1>3. q.more = p.more
  BY <1>1 DEF SqlStates
<1> QED BY <1>2, <1>3

\* A row beyond the next sequence closes a hole, while there is room for one.
LEMMA SqlCloses ==
    ASSUME NEW p \in SqlStates, NEW n \in Nat \ {0}, NEW cap \in Nat, ~p.more, n > p.prev + 1, Len(p.ranges) < cap,
           NEW q, q = SqlRow(p, n, cap)
    PROVE  /\ q.prev = n /\ ~q.more
           /\ q.ranges = Append(p.ranges, Interval(p.prev + 1, n - 1))
<1>1. p.prev \in Nat /\ Len(p.ranges) \in Nat
  BY DEF SqlStates
<1>2. q = [prev |-> n, ranges |-> Append(p.ranges, Interval(p.prev + 1, n - 1)), more |-> FALSE]
  BY <1>1 DEF SqlRow
<1> QED BY <1>2

\* A row closes the hole the Go loop is in.
LEMMA GoCloses ==
    ASSUME NEW p \in GoStates, NEW n \in Nat, NEW S, NEW cap \in Nat,
           NEW q, q = GoSequence(p, n, S, cap), ~p.more, n \in S, p.inHole
    PROVE  /\ q \in GoStates /\ ~q.inHole /\ ~q.more
           /\ q.ranges = Append(p.ranges, Interval(p.from, p.through))
<1>0. /\ p.ranges \in Seq(Holes) /\ p.more \in BOOLEAN /\ p.from \in Nat /\ p.through \in Nat
  BY DEF GoStates
<1> DEFINE r == Append(p.ranges, Interval(p.from, p.through))
<1>1. q = [p EXCEPT !.inHole = FALSE, !.ranges = r]
  BY DEF GoSequence
<1>2. Interval(p.from, p.through) \in Holes
  BY <1>0 DEF Interval, Holes
<1>3. r \in Seq(Holes)
  BY <1>0, <1>2
<1> HIDE DEF r
<1>4. q = [ranges |-> r, more |-> p.more, inHole |-> FALSE, from |-> p.from, through |-> p.through]
  BY <1>1 DEF GoStates
<1>5. q \in GoStates /\ q.ranges = r
  BY <1>0, <1>3, <1>4 DEF GoStates
<1>6. ~q.inHole /\ q.more = p.more
  BY <1>4
<1> QED BY <1>5, <1>6 DEF r

\* What the Go loop does with a sequence.
LEMMA GoSequenceFacts ==
    ASSUME NEW p \in GoStates, NEW n \in Nat, NEW S, NEW cap \in Nat,
           NEW q, q = GoSequence(p, n, S, cap)
    PROVE  /\ q \in GoStates
           /\ p.more => q = p
           /\ ~p.more /\ n \notin S /\ p.inHole =>
                q.through = n /\ q.from = p.from /\ q.ranges = p.ranges /\ q.inHole /\ ~q.more
           /\ ~p.more /\ n \notin S /\ ~p.inHole /\ Len(p.ranges) = cap =>
                q.ranges = p.ranges /\ q.more /\ ~q.inHole
           /\ ~p.more /\ n \notin S /\ ~p.inHole /\ Len(p.ranges) # cap =>
                q.ranges = p.ranges /\ ~q.more /\ q.inHole /\ q.from = n /\ q.through = n
           /\ ~p.more /\ n \in S /\ p.inHole =>
                q.ranges = Append(p.ranges, Interval(p.from, p.through)) /\ ~q.inHole /\ ~q.more
           /\ ~p.more /\ n \in S /\ ~p.inHole => q = p
<1>0. /\ p.ranges \in Seq(Holes) /\ p.more \in BOOLEAN /\ p.inHole \in BOOLEAN /\ p.from \in Nat /\ p.through \in Nat
  BY DEF GoStates
<1>1. CASE p.more
  BY <1>1 DEF GoSequence
<1>2. CASE ~p.more /\ n \notin S /\ p.inHole
  <2>1. q = [p EXCEPT !.through = n]
    BY <1>2 DEF GoSequence
  <2>2. q \in GoStates /\ q.through = n /\ q.from = p.from /\ q.ranges = p.ranges
    BY <2>1 DEF GoStates
  <2>3. q.inHole = p.inHole /\ q.more = p.more
    BY <2>1 DEF GoStates
  <2> QED BY <1>2, <2>2, <2>3
<1>3. CASE ~p.more /\ n \notin S /\ ~p.inHole /\ Len(p.ranges) = cap
  <2>1. q = [p EXCEPT !.more = TRUE]
    BY <1>3 DEF GoSequence
  <2>2. q \in GoStates /\ q.ranges = p.ranges
    BY <2>1 DEF GoStates
  <2>3. q.inHole = p.inHole /\ q.more
    BY <2>1 DEF GoStates
  <2> QED BY <1>3, <2>2, <2>3
<1>4. CASE ~p.more /\ n \notin S /\ ~p.inHole /\ Len(p.ranges) # cap
  <2>1. q = [p EXCEPT !.inHole = TRUE, !.from = n, !.through = n]
    BY <1>4 DEF GoSequence
  <2>2. q = [ranges |-> p.ranges, more |-> p.more, inHole |-> TRUE, from |-> n, through |-> n]
    BY <2>1 DEF GoStates
  <2>3. q \in GoStates /\ q.ranges = p.ranges /\ q.from = n /\ q.through = n
    BY <1>0, <2>2 DEF GoStates
  <2>4. q.more = p.more /\ q.inHole
    BY <2>2
  <2> QED BY <1>4, <2>3, <2>4
<1>5. CASE ~p.more /\ n \in S /\ p.inHole
  BY <1>5, GoCloses
<1>6. CASE ~p.more /\ n \in S /\ ~p.inHole
  BY <1>6 DEF GoSequence
<1> QED BY <1>0, <1>1, <1>2, <1>3, <1>4, <1>5, <1>6

SqlLoops(F, c, N, S, cap) ==
    F = [n \in c .. N |-> IF n = c THEN SqlStart(c)
                          ELSE IF n \in S THEN SqlRow(F[n - 1], n, cap) ELSE F[n - 1]]
GoLoops(F, c, N, S, cap) ==
    F = [n \in c .. N |-> IF n = c THEN GoStart ELSE GoSequence(F[n - 1], n, S, cap)]

\* Both loops run to their end.
LEMMA SqlLoopRuns ==
    ASSUME NEW c \in Nat, NEW S, NEW cap
    PROVE  \A d \in Nat : \E F : SqlLoops(F, c, c + d, S, cap)
<1> DEFINE T == {d \in Nat : ~\E F : SqlLoops(F, c, c + d, S, cap)}
<1> SUFFICES ASSUME T # {} PROVE FALSE
  OBVIOUS
<1>1. PICK d \in T : \A t \in T : d <= t
  <2>1. T \in SUBSET Nat
    OBVIOUS
  <2> HIDE DEF T
  <2> QED BY <2>1, SmallestExists
<1>2. d # 0
  <2>1. SqlLoops([n \in c .. c |-> SqlStart(c)], c, c, S, cap)
    BY DEF SqlLoops
  <2> QED BY <1>1, <2>1
<1>3. d \in Nat /\ d - 1 \in Nat /\ d - 1 \notin T
  <2>1. T \in SUBSET Nat
    OBVIOUS
  <2> HIDE DEF T
  <2> QED BY <1>1, <1>2, <2>1
<1>4. PICK F : SqlLoops(F, c, c + (d - 1), S, cap)
  BY <1>3
<1>5. PICK m : m = c + d
  OBVIOUS
<1>6. m \in Nat /\ m > c /\ SqlLoops(F, c, m - 1, S, cap)
  <2>1. m \in Nat /\ m > c /\ c + (d - 1) = m - 1
    BY <1>2, <1>3, <1>5
  <2> QED BY <1>4, <2>1
<1> DEFINE last == IF m \in S THEN SqlRow(F[m - 1], m, cap) ELSE F[m - 1]
           G == [n \in c .. m |-> IF n = m THEN last ELSE F[n]]
<1>7. ASSUME NEW n \in c .. m
      PROVE  G[n] = IF n = c THEN SqlStart(c)
                    ELSE IF n \in S THEN SqlRow(G[n - 1], n, cap) ELSE G[n - 1]
  <2>1. CASE n = m
    <3>1. G[m - 1] = F[m - 1] /\ G[m] = last /\ m # c
      BY <1>6
    <3> HIDE DEF G
    <3> QED BY <2>1, <3>1
  <2>2. CASE n \in c .. (m - 1)
    <3>1. n # m /\ G[n] = F[n]
      BY <1>6, <2>2
    <3>2. n # c => G[n - 1] = F[n - 1]
      BY <1>6, <2>2
    <3>3. F[n] = IF n = c THEN SqlStart(c) ELSE IF n \in S THEN SqlRow(F[n - 1], n, cap) ELSE F[n - 1]
      BY <1>6, <2>2, Zenon DEF SqlLoops
    <3> HIDE DEF G
    <3> QED BY <3>1, <3>2, <3>3
  <2> QED BY <1>6, <2>1, <2>2
<1>8. SqlLoops(G, c, m, S, cap)
  <2>1. G = [n \in c .. m |-> G[n]]
    OBVIOUS
  <2> HIDE DEF G, last
  <2> QED BY <1>7, <2>1 DEF SqlLoops
<1> QED BY <1>1, <1>5, <1>8

LEMMA GoLoopRuns ==
    ASSUME NEW c \in Nat, NEW S, NEW cap
    PROVE  \A d \in Nat : \E F : GoLoops(F, c, c + d, S, cap)
<1> DEFINE T == {d \in Nat : ~\E F : GoLoops(F, c, c + d, S, cap)}
<1> SUFFICES ASSUME T # {} PROVE FALSE
  OBVIOUS
<1>1. PICK d \in T : \A t \in T : d <= t
  <2>1. T \in SUBSET Nat
    OBVIOUS
  <2> HIDE DEF T
  <2> QED BY <2>1, SmallestExists
<1>2. d # 0
  <2>1. GoLoops([n \in c .. c |-> GoStart], c, c, S, cap)
    BY DEF GoLoops
  <2> QED BY <1>1, <2>1
<1>3. d \in Nat /\ d - 1 \in Nat /\ d - 1 \notin T
  <2>1. T \in SUBSET Nat
    OBVIOUS
  <2> HIDE DEF T
  <2> QED BY <1>1, <1>2, <2>1
<1>4. PICK F : GoLoops(F, c, c + (d - 1), S, cap)
  BY <1>3
<1>5. PICK m : m = c + d
  OBVIOUS
<1>6. m \in Nat /\ m > c /\ GoLoops(F, c, m - 1, S, cap)
  <2>1. m \in Nat /\ m > c /\ c + (d - 1) = m - 1
    BY <1>2, <1>3, <1>5
  <2> QED BY <1>4, <2>1
<1> DEFINE last == GoSequence(F[m - 1], m, S, cap)
           G == [n \in c .. m |-> IF n = m THEN last ELSE F[n]]
<1>7. ASSUME NEW n \in c .. m
      PROVE  G[n] = IF n = c THEN GoStart ELSE GoSequence(G[n - 1], n, S, cap)
  <2>1. CASE n = m
    <3>1. G[m - 1] = F[m - 1] /\ G[m] = last /\ m # c
      BY <1>6
    <3> HIDE DEF G
    <3> QED BY <2>1, <3>1
  <2>2. CASE n \in c .. (m - 1)
    <3>1. n # m /\ G[n] = F[n]
      BY <1>6, <2>2
    <3>2. n # c => G[n - 1] = F[n - 1]
      BY <1>6, <2>2
    <3>3. F[n] = IF n = c THEN GoStart ELSE GoSequence(F[n - 1], n, S, cap)
      BY <1>6, <2>2, Zenon DEF GoLoops
    <3> HIDE DEF G
    <3> QED BY <3>1, <3>2, <3>3
  <2> QED BY <1>6, <2>1, <2>2
<1>8. GoLoops(G, c, m, S, cap)
  <2>1. G = [n \in c .. m |-> G[n]]
    OBVIOUS
  <2> HIDE DEF G, last
  <2> QED BY <1>7, <2>1 DEF GoLoops
<1> QED BY <1>1, <1>5, <1>8

-----------------------------------------------------------------------------
(* The two loops agree.                                                      *)

\* After sequence n: the Go loop is inside a hole, or has refused one, exactly
\* where the SQL loop has yet to reach the row that closes it.
Abreast(p, g, n, S, c, cap) ==
    /\ p \in SqlStates /\ g \in GoStates /\ g.ranges = p.ranges /\ Len(p.ranges) <= cap
    /\ p.more => g.more /\ ~g.inHole
    /\ ~p.more /\ n \in S \cup {c} => ~g.more /\ ~g.inHole /\ p.prev = n
    /\ ~p.more /\ n \notin S \cup {c} =>
         /\ p.prev < n
         /\ Len(p.ranges) = cap => g.more /\ ~g.inHole
         /\ Len(p.ranges) # cap => ~g.more /\ g.inHole /\ g.from = p.prev + 1 /\ g.through = n

LEMMA AbreastStep ==
    ASSUME NEW c \in Nat, NEW S, NEW cap \in Nat, NEW m \in Nat, m >= c, NEW n, n = m + 1,
           NEW p, NEW g, Abreast(p, g, m, S, c, cap),
           NEW q, q = IF n \in S THEN SqlRow(p, n, cap) ELSE p,
           NEW h, h = GoSequence(g, n, S, cap)
    PROVE  Abreast(q, h, n, S, c, cap)
<1>0. /\ p \in SqlStates /\ g \in GoStates /\ g.ranges = p.ranges /\ Len(p.ranges) <= cap
      /\ p.prev \in Nat /\ p.ranges \in Seq(Holes) /\ Len(p.ranges) \in Nat
      /\ n \in Nat \ {0} /\ n \in Nat /\ n # c /\ m = n - 1
  BY DEF Abreast, SqlStates
<1>2. h \in GoStates
  BY <1>0, GoSequenceFacts
<1>3. q \in SqlStates
  BY <1>0, SqlRowFacts
<1>4. CASE p.more
  <2>1. q = p
    BY <1>4 DEF SqlRow
  <2>2. g.more /\ ~g.inHole
    BY <1>4 DEF Abreast
  <2>3. h = g
    BY <1>0, <2>2, GoSequenceFacts
  <2> QED BY <1>0, <1>4, <2>1, <2>2, <2>3 DEF Abreast
<1>5. CASE ~p.more /\ m \in S \cup {c}
  <2>1. ~g.more /\ ~g.inHole /\ p.prev = m
    BY <1>5 DEF Abreast
  <2>2. CASE n \in S
    <3>1. q.prev = n /\ q.ranges = p.ranges /\ ~q.more
      <4>1. p \in SqlStates /\ n \in Nat \ {0} /\ q = SqlRow(p, n, cap) /\ n <= p.prev + 1 /\ ~p.more
        BY <1>0, <1>5, <2>1, <2>2
      <4> QED BY <4>1, SqlRowFacts
    <3>2. h = g
      BY <1>0, <2>1, <2>2, GoSequenceFacts
    <3> QED BY <1>0, <1>3, <2>1, <2>2, <3>1, <3>2 DEF Abreast
  <2>3. CASE n \notin S
    <3>1. q = p
      BY <2>3
    <3>2. CASE Len(p.ranges) = cap
      <4>1. h.ranges = g.ranges /\ h.more /\ ~h.inHole
        BY <1>0, <2>1, <2>3, <3>2, GoSequenceFacts
      <4> QED BY <1>0, <1>2, <1>5, <2>1, <2>3, <3>1, <3>2, <4>1 DEF Abreast
    <3>3. CASE Len(p.ranges) # cap
      <4>1. h.ranges = g.ranges /\ ~h.more /\ h.inHole /\ h.from = n /\ h.through = n
        BY <1>0, <2>1, <2>3, <3>3, GoSequenceFacts
      <4> QED BY <1>0, <1>2, <1>5, <2>1, <2>3, <3>1, <3>3, <4>1 DEF Abreast
    <3> QED BY <3>2, <3>3
  <2> QED BY <2>2, <2>3
<1>6. CASE ~p.more /\ m \notin S \cup {c} /\ Len(p.ranges) = cap
  <2>1. p.prev < m /\ g.more /\ ~g.inHole
    BY <1>6 DEF Abreast
  <2>2. h = g
    BY <1>0, <2>1, GoSequenceFacts
  <2>3. CASE n \in S
    <3>0. n > p.prev + 1 /\ Len(p.ranges) >= cap /\ q = SqlRow(p, n, cap)
      BY <1>0, <1>6, <2>1, <2>3
    <3>1. q.ranges = p.ranges /\ q.more
      BY <1>0, <1>6, <3>0, SqlRowFacts
    <3> QED BY <1>0, <1>3, <2>1, <2>2, <2>3, <3>1 DEF Abreast
  <2>4. CASE n \notin S
    <3>1. q = p /\ p.prev < n
      BY <1>0, <2>1, <2>4
    <3> QED BY <1>0, <1>6, <2>1, <2>2, <2>4, <3>1 DEF Abreast
  <2> QED BY <2>3, <2>4
<1>7. CASE ~p.more /\ m \notin S \cup {c} /\ Len(p.ranges) # cap
  <2>1. p.prev < m /\ ~g.more /\ g.inHole /\ g.from = p.prev + 1 /\ g.through = m
    BY <1>7 DEF Abreast
  <2>3. CASE n \in S
    <3>0. n > p.prev + 1 /\ Len(p.ranges) < cap /\ q = SqlRow(p, n, cap)
      BY <1>0, <1>7, <2>1, <2>3
    <3>1. q.prev = n /\ ~q.more /\ q.ranges = Append(p.ranges, Interval(p.prev + 1, n - 1))
      <4>1. p \in SqlStates /\ n \in Nat \ {0} /\ cap \in Nat /\ ~p.more
        BY <1>0, <1>7
      <4> QED BY <3>0, <4>1, SqlCloses
    <3>2. h.ranges = Append(g.ranges, Interval(g.from, g.through)) /\ ~h.inHole /\ ~h.more
      <4>1. g \in GoStates /\ n \in Nat /\ h = GoSequence(g, n, S, cap) /\ ~g.more /\ g.inHole
        BY <1>0, <2>1
      <4> QED BY <2>3, <4>1, GoCloses
    <3>3. h.ranges = q.ranges
      BY <1>0, <2>1, <3>1, <3>2
    <3>4. Len(q.ranges) <= cap
      <4>1. Interval(p.prev + 1, n - 1) \in Holes
        BY <1>0 DEF Interval, Holes
      <4>2. Len(q.ranges) = Len(p.ranges) + 1
        BY <1>0, <3>1, <4>1
      <4> QED BY <1>0, <1>7, <4>2
    <3> QED BY <1>2, <1>3, <2>3, <3>1, <3>2, <3>3, <3>4 DEF Abreast
  <2>4. CASE n \notin S
    <3>1. q = p /\ p.prev < n
      BY <1>0, <2>1, <2>4
    <3>2. h.through = n /\ h.from = g.from /\ h.ranges = g.ranges /\ h.inHole /\ ~h.more
      BY <1>0, <2>1, <2>4, GoSequenceFacts
    <3> QED BY <1>0, <1>2, <1>7, <2>1, <2>4, <3>1, <3>2 DEF Abreast
  <2> QED BY <2>3, <2>4
<1> QED BY <1>4, <1>5, <1>6, <1>7

LEMMA LoopsAbreast ==
    ASSUME NEW c \in Nat, NEW N \in Nat, c <= N, NEW S, NEW cap \in Nat,
           NEW F, SqlLoops(F, c, N, S, cap), NEW G, GoLoops(G, c, N, S, cap)
    PROVE  \A n \in c .. N : Abreast(F[n], G[n], n, S, c, cap)
<1> DEFINE T == {n \in c .. N : ~Abreast(F[n], G[n], n, S, c, cap)}
<1> SUFFICES ASSUME T # {} PROVE FALSE
  OBVIOUS
<1>0. T \in SUBSET Nat /\ T \subseteq c .. N /\ \A n \in (c .. N) \ T : Abreast(F[n], G[n], n, S, c, cap)
  OBVIOUS
<1>1. PICK n \in T : \A t \in T : n <= t
  <2> HIDE DEF T
  <2> QED BY <1>0, SmallestExists
<1>2. n \in c .. N /\ ~Abreast(F[n], G[n], n, S, c, cap)
  BY <1>1
<1>3. F[n] = IF n = c THEN SqlStart(c) ELSE IF n \in S THEN SqlRow(F[n - 1], n, cap) ELSE F[n - 1]
  BY <1>2, Zenon DEF SqlLoops
<1>4. G[n] = IF n = c THEN GoStart ELSE GoSequence(G[n - 1], n, S, cap)
  BY <1>2, Zenon DEF GoLoops
<1> HIDE DEF T
<1>5. n # c
  <2> SUFFICES ASSUME n = c PROVE FALSE
    OBVIOUS
  <2>1. F[n] = SqlStart(c) /\ G[n] = GoStart
    BY <1>3, <1>4
  <2>2. SqlStart(c) \in SqlStates /\ SqlStart(c).ranges = <<>> /\ SqlStart(c).prev = c
    BY DEF SqlStart, SqlStates
  <2>3. ~SqlStart(c).more
    BY DEF SqlStart
  <2>4. GoStart \in GoStates /\ GoStart.ranges = <<>>
    BY DEF GoStart, GoStates
  <2>5. ~GoStart.more /\ ~GoStart.inHole
    BY DEF GoStart
  <2>6. Len(<<>>) <= cap
    OBVIOUS
  <2>7. Abreast(SqlStart(c), GoStart, c, S, c, cap)
    BY <2>2, <2>3, <2>4, <2>5, <2>6 DEF Abreast
  <2> QED BY <1>2, <2>1, <2>7
<1>6. n - 1 \in c .. N /\ n - 1 \in Nat /\ n - 1 >= c /\ n = (n - 1) + 1 /\ n - 1 \notin T
  BY <1>0, <1>1, <1>2, <1>5
<1>7. Abreast(F[n - 1], G[n - 1], n - 1, S, c, cap)
  BY <1>0, <1>6
<1>8. F[n] = (IF n \in S THEN SqlRow(F[n - 1], n, cap) ELSE F[n - 1]) /\ G[n] = GoSequence(G[n - 1], n, S, cap)
  BY <1>3, <1>4, <1>5
<1>9. Abreast(F[n], G[n], n, S, c, cap)
  BY <1>6, <1>7, <1>8, AbreastStep
<1> QED BY <1>2, <1>9

-----------------------------------------------------------------------------
(* The holes the SQL loop has collected.                                     *)

\* The first sequences of the holes above c that a row up to n closes.
ClosedBy(S, c, n) ==
    {h \in (c + 1) .. n : h \notin S /\ h - 1 \in S \cup {c} /\ \E s \in S : h < s /\ s <= n}

UpTo(T, h) == {m \in T : m <= h}

\* After row n: the holes closed so far, in ascending order, or the first cap of
\* them and the flag.
Collected(p, n, S, c, cap) ==
    /\ p \in SqlStates
    /\ p.more => Cardinality(ClosedBy(S, c, n)) > cap /\ Len(p.ranges) = cap
    /\ ~p.more => /\ Len(p.ranges) = Cardinality(ClosedBy(S, c, n)) /\ Len(p.ranges) <= cap
                  /\ p.prev \in S \cup {c} /\ c <= p.prev /\ p.prev <= n
                  /\ \A s \in S : s <= n => s <= p.prev
    /\ \A h \in ClosedBy(S, c, n) :
         Cardinality(UpTo(ClosedBy(S, c, n), h)) <= cap
           => p.ranges[Cardinality(UpTo(ClosedBy(S, c, n), h))] = Interval(h, HoleEnd(S, h))

LEMMA ClosedFinite ==
    ASSUME NEW S \in SUBSET Nat, NEW c \in Nat, NEW n \in Nat
    PROVE  /\ IsFiniteSet(ClosedBy(S, c, n)) /\ Cardinality(ClosedBy(S, c, n)) \in Nat
           /\ ClosedBy(S, c, n) \subseteq Nat
           /\ \A h : /\ IsFiniteSet(UpTo(ClosedBy(S, c, n), h))
                     /\ Cardinality(UpTo(ClosedBy(S, c, n), h)) \in Nat
                     /\ Cardinality(UpTo(ClosedBy(S, c, n), h)) <= Cardinality(ClosedBy(S, c, n))
<1> DEFINE H == ClosedBy(S, c, n)
<1>1. H \subseteq (c + 1) .. n
  BY DEF ClosedBy
<1>2. IsFiniteSet((c + 1) .. n)
  BY FS_Interval
<1> HIDE DEF H
<1>3. IsFiniteSet(H) /\ Cardinality(H) \in Nat
  BY <1>1, <1>2, FS_Subset, FS_CardinalityType
<1>4. ASSUME NEW h PROVE /\ IsFiniteSet(UpTo(H, h)) /\ Cardinality(UpTo(H, h)) \in Nat
                         /\ Cardinality(UpTo(H, h)) <= Cardinality(H)
  <2>1. UpTo(H, h) \subseteq H
    BY DEF UpTo
  <2> QED BY <1>3, <2>1, FS_Subset, FS_CardinalityType
<1>5. H \subseteq Nat
  BY <1>1
<1> QED BY <1>3, <1>4, <1>5 DEF H

\* A further sequence closes no hole, or holes above all that were closed.
LEMMA ClosedGrow ==
    ASSUME NEW S \in SUBSET Nat, NEW c \in Nat, NEW m \in Nat, m >= c, NEW n, n = m + 1
    PROVE  /\ ClosedBy(S, c, m) \subseteq ClosedBy(S, c, n)
           /\ \A h \in ClosedBy(S, c, n) \ ClosedBy(S, c, m) :
                n \in S /\ h < n /\ \A k \in ClosedBy(S, c, m) : k < h
<1>1. ClosedBy(S, c, m) \subseteq ClosedBy(S, c, n)
  <2> SUFFICES ASSUME NEW h \in ClosedBy(S, c, m) PROVE h \in ClosedBy(S, c, n)
    OBVIOUS
  <2>1. h \in (c + 1) .. m /\ h \notin S /\ h - 1 \in S \cup {c}
    BY DEF ClosedBy
  <2>2. PICK s \in S : h < s /\ s <= m
    BY DEF ClosedBy
  <2>3. h \in (c + 1) .. n /\ s <= n /\ s \in Nat
    BY <2>1, <2>2
  <2> QED BY <2>1, <2>2, <2>3 DEF ClosedBy
<1>2. ASSUME NEW h \in ClosedBy(S, c, n), h \notin ClosedBy(S, c, m)
      PROVE  n \in S /\ h < n /\ \A k \in ClosedBy(S, c, m) : k < h
  <2>1. h \in (c + 1) .. n /\ h \notin S /\ h - 1 \in S \cup {c}
    BY DEF ClosedBy
  <2>2. PICK s \in S : h < s /\ s <= n
    BY DEF ClosedBy
  <2>3. s \in Nat /\ h \in Nat /\ h \in (c + 1) .. m
    BY <2>1, <2>2
  <2>4. \A t \in S : ~(h < t /\ t <= m)
    BY <1>2, <2>1, <2>3 DEF ClosedBy
  <2>5. s = n
    BY <2>2, <2>3, <2>4
  <2>6. ASSUME NEW k \in ClosedBy(S, c, m) PROVE k < h
    <3>1. PICK t \in S : k < t /\ t <= m
      BY DEF ClosedBy
    <3>2. k \in Nat /\ t \in Nat
      BY DEF ClosedBy
    <3>3. ~(h < t) /\ h # t
      BY <2>1, <2>4, <3>1
    <3> QED BY <2>3, <3>1, <3>2, <3>3
  <2> QED BY <2>2, <2>5, <2>6
<1> QED BY <1>1, <1>2

\* A hole that was closed keeps its place.
LEMMA PlacesStay ==
    ASSUME NEW S \in SUBSET Nat, NEW c \in Nat, NEW m \in Nat, m >= c, NEW n, n = m + 1,
           NEW h \in ClosedBy(S, c, m)
    PROVE  UpTo(ClosedBy(S, c, n), h) = UpTo(ClosedBy(S, c, m), h)
<1> DEFINE H == ClosedBy(S, c, m)
           K == ClosedBy(S, c, n)
<1>1. H \subseteq K /\ \A k \in K \ H : h < k
  BY ClosedGrow
<1>2. H \subseteq Nat /\ K \subseteq Nat
  BY ClosedFinite
<1> HIDE DEF H, K
<1>3. h \in H
  BY DEF H
<1>4. UpTo(K, h) = UpTo(H, h)
  <2>1. ASSUME NEW k \in K, k <= h PROVE k \in H
    BY <1>1, <1>2, <1>3, <2>1
  <2> QED BY <1>1, <2>1 DEF UpTo
<1> QED BY <1>4 DEF H, K

\* The last row up to m is p, or there is none above c and p is c.
LastRow(p, S, c, m) ==
    p \in S \cup {c} /\ c <= p /\ p <= m /\ \A s \in S : s <= m => s <= p

\* Where the last row was p: the only hole n can close starts behind it.
LEMMA ClosedNext ==
    ASSUME NEW S \in SUBSET Nat, NEW c \in Nat, NEW m \in Nat, m >= c, NEW n, n = m + 1,
           NEW p, LastRow(p, S, c, m)
    PROVE  /\ n \in S /\ n > p + 1 =>
                /\ ClosedBy(S, c, n) = ClosedBy(S, c, m) \cup {p + 1}
                /\ p + 1 \notin ClosedBy(S, c, m)
                /\ HoleEnd(S, p + 1) = n - 1
           /\ ~(n \in S /\ n > p + 1) => ClosedBy(S, c, n) = ClosedBy(S, c, m)
<1>0. /\ p \in Nat /\ n \in Nat
      /\ p \in S \cup {c} /\ c <= p /\ p <= m /\ \A s \in S : s <= m => s <= p
  BY DEF LastRow
<1>1. ASSUME NEW h \in ClosedBy(S, c, n), h \notin ClosedBy(S, c, m) PROVE h = p + 1 /\ n \in S /\ n > p + 1
  <2>1. h \in (c + 1) .. n /\ h \notin S /\ h - 1 \in S \cup {c}
    BY DEF ClosedBy
  <2>2. n \in S /\ h < n
    BY <1>1, ClosedGrow
  <2>3. \A t \in S : ~(h < t /\ t <= m)
    BY <1>0, <1>1, <2>1, <2>2 DEF ClosedBy
  <2>4. h \in Nat /\ h - 1 \in Nat /\ h - 1 <= m /\ c < h
    BY <1>0, <2>1
  <2>5. h - 1 <= p
    <3>1. CASE h - 1 \in S
      BY <1>0, <2>4, <3>1
    <3>2. CASE h - 1 = c
      BY <1>0, <3>2
    <3> QED BY <2>1, <3>1, <3>2
  <2>6. ~(h <= p)
    <3> SUFFICES ASSUME h <= p PROVE FALSE
      OBVIOUS
    <3>1. p # c /\ p \in S
      BY <1>0, <2>4
    <3>2. h # p
      BY <2>1, <3>1
    <3>3. h < p
      BY <1>0, <2>4, <3>2
    <3> QED BY <1>0, <2>3, <3>1, <3>3
  <2>7. h = p + 1
    BY <1>0, <2>4, <2>5, <2>6
  <2> QED BY <1>0, <2>2, <2>7
<1>2. ClosedBy(S, c, m) \subseteq ClosedBy(S, c, n)
  BY ClosedGrow
<1>3. CASE n \in S /\ n > p + 1
  <2>1. p + 1 \in (c + 1) .. n /\ p + 1 \notin S /\ (p + 1) - 1 \in S \cup {c} /\ p + 1 < n
    <3>1. p + 1 <= m /\ (p + 1) - 1 = p
      BY <1>0, <1>3
    <3>2. p + 1 \notin S
      BY <1>0, <3>1
    <3> QED BY <1>0, <1>3, <3>1, <3>2
  <2>2. p + 1 \in ClosedBy(S, c, n)
    BY <1>0, <1>3, <2>1 DEF ClosedBy
  <2>3. p + 1 \notin ClosedBy(S, c, m)
    <3> SUFFICES ASSUME p + 1 \in ClosedBy(S, c, m) PROVE FALSE
      OBVIOUS
    <3>1. PICK s \in S : p + 1 < s /\ s <= m
      BY DEF ClosedBy
    <3> QED BY <1>0, <3>1
  <2>4. ClosedBy(S, c, n) = ClosedBy(S, c, m) \cup {p + 1}
    BY <1>1, <1>2, <2>2
  <2>5. HoleEnd(S, p + 1) = n - 1
    <3> DEFINE T == {s \in S : s > p + 1}
    <3>0. T \in SUBSET Nat /\ n \in T
      BY <1>0, <1>3
    <3>1. ASSUME NEW t \in T PROVE n <= t
      <4>1. t \in S /\ t \in Nat /\ t > p + 1
        OBVIOUS
      <4>2. ~(t <= m)
        BY <1>0, <4>1
      <4> QED BY <1>0, <4>1, <4>2
    <3> HIDE DEF T
    <3>2. FirstOr(0, T) \in T /\ \A t \in T : FirstOr(0, T) <= t
      BY <3>0, FirstOrIsMin
    <3>3. FirstOr(0, T) = n
      <4>1. PICK f : f = FirstOr(0, T)
        OBVIOUS
      <4>2. f \in Nat /\ n <= f /\ f <= n
        BY <3>0, <3>1, <3>2, <4>1
      <4> QED BY <1>0, <4>1, <4>2
    <3> QED BY <3>3 DEF HoleEnd, T
  <2> QED BY <1>3, <2>3, <2>4, <2>5
<1>4. CASE ~(n \in S /\ n > p + 1)
  BY <1>1, <1>2, <1>4
<1> QED BY <1>3, <1>4

LEMMA NoneClosed ==
    ASSUME NEW S \in SUBSET Nat, NEW c \in Nat, NEW m \in Nat, m >= c, NEW n, n = m + 1,
           NEW p, LastRow(p, S, c, m), n \notin S \/ n <= p + 1
    PROVE  ClosedBy(S, c, n) = ClosedBy(S, c, m)
<1>1. p \in Nat /\ n \in Nat
  BY DEF LastRow
<1>2. ~(n \in S /\ n > p + 1)
  BY <1>1
<1> QED BY <1>2, ClosedNext

\* A hole among T has a place between 1 and the number of them; the highest one's
\* place is the last.
LEMMA Places ==
    ASSUME NEW T \in SUBSET Nat, IsFiniteSet(T), NEW h \in T
    PROVE  /\ Cardinality(UpTo(T, h)) \in 1 .. Cardinality(T)
           /\ (\A k \in T : k <= h) => UpTo(T, h) = T
<1>1. UpTo(T, h) \subseteq T /\ h \in UpTo(T, h)
  BY DEF UpTo
<1>2. IsFiniteSet(UpTo(T, h)) /\ Cardinality(UpTo(T, h)) <= Cardinality(T) /\ Cardinality(UpTo(T, h)) \in Nat /\ Cardinality(T) \in Nat
  BY <1>1, FS_Subset, FS_CardinalityType
<1>3. Cardinality(UpTo(T, h)) # 0
  BY <1>1, <1>2, FS_EmptySet
<1>4. (\A k \in T : k <= h) => UpTo(T, h) = T
  BY DEF UpTo
<1> QED BY <1>2, <1>3, <1>4

LEMMA CollectedStep ==
    ASSUME NEW S \in SUBSET Nat, NEW c \in Nat, NEW cap \in Nat, NEW m \in Nat, m >= c, NEW n, n = m + 1,
           NEW p, Collected(p, m, S, c, cap),
           NEW q, q = IF n \in S THEN SqlRow(p, n, cap) ELSE p
    PROVE  Collected(q, n, S, c, cap)
<1>1. PICK H, K : H = ClosedBy(S, c, m) /\ K = ClosedBy(S, c, n)
  OBVIOUS
<1>2. n \in Nat /\ n \in Nat \ {0}
  OBVIOUS
<1>3. /\ p \in SqlStates
      /\ p.more => Cardinality(H) > cap /\ Len(p.ranges) = cap
      /\ \A h \in H : Cardinality(UpTo(H, h)) <= cap
           => p.ranges[Cardinality(UpTo(H, h))] = Interval(h, HoleEnd(S, h))
  BY <1>1 DEF Collected
<1>4. ~p.more => /\ Len(p.ranges) = Cardinality(H) /\ Len(p.ranges) <= cap
                 /\ p.prev \in S \cup {c} /\ c <= p.prev /\ p.prev <= m
                 /\ \A s \in S : s <= m => s <= p.prev
  BY <1>1 DEF Collected
<1>5. /\ IsFiniteSet(H) /\ IsFiniteSet(K) /\ H \subseteq Nat /\ K \subseteq Nat
      /\ Cardinality(H) \in Nat /\ Cardinality(K) \in Nat
  BY <1>1, <1>2, ClosedFinite
<1>6. H \subseteq K /\ \A h \in K \ H : \A k \in H : k < h
  BY <1>1, ClosedGrow
<1>7. \A h \in H : UpTo(K, h) = UpTo(H, h)
  BY <1>1, PlacesStay
<1>8. q \in SqlStates
  BY <1>2, <1>3, SqlRowFacts
<1>9. p.prev \in Nat /\ p.ranges \in Seq(Holes) /\ Len(p.ranges) \in Nat
  BY <1>3 DEF SqlStates
<1>10. CASE p.more
  <2>1. q = p
    BY <1>2, <1>3, <1>10, SqlRowFacts
  <2>2. Cardinality(K) > cap
    <3>1. Cardinality(H) <= Cardinality(K)
      BY <1>5, <1>6, FS_Subset
    <3> QED BY <1>3, <1>5, <1>10, <3>1
  <2>3. ASSUME NEW h \in K, h \notin H PROVE ~(Cardinality(UpTo(K, h)) <= cap)
    <3>1. H \subseteq UpTo(K, h) /\ UpTo(K, h) \subseteq K
      BY <1>5, <1>6, <2>3 DEF UpTo
    <3>2. IsFiniteSet(UpTo(K, h))
      BY <1>5, <3>1, FS_Subset
    <3>3. Cardinality(H) <= Cardinality(UpTo(K, h)) /\ Cardinality(UpTo(K, h)) \in Nat
      BY <3>1, <3>2, FS_Subset, FS_CardinalityType
    <3> QED BY <1>3, <1>5, <1>10, <3>3
  <2>4. ASSUME NEW h \in K, Cardinality(UpTo(K, h)) <= cap
        PROVE  p.ranges[Cardinality(UpTo(K, h))] = Interval(h, HoleEnd(S, h))
    <3>1. h \in H
      BY <2>3, <2>4
    <3> QED BY <1>3, <1>7, <2>4, <3>1
  <2> QED BY <1>1, <1>3, <1>10, <2>1, <2>2, <2>4 DEF Collected
<1>11. CASE ~p.more /\ ~(n \in S /\ n > p.prev + 1)
  <2>1. K = H
    <3>1. PICK b : b = p.prev
      OBVIOUS
    <3>2. LastRow(b, S, c, m)
      BY <1>4, <1>11, <3>1 DEF LastRow
    <3>3. n \notin S \/ n <= b + 1
      BY <1>2, <1>9, <1>11, <3>1
    <3> QED BY <1>1, <3>2, <3>3, NoneClosed
  <2>2. q.ranges = p.ranges /\ ~q.more
    <3>1. CASE n \in S
      <4>1. n <= p.prev + 1 /\ q = SqlRow(p, n, cap) /\ ~p.more
        BY <1>2, <1>9, <1>11, <3>1
      <4> QED BY <1>2, <1>3, <4>1, SqlMoves
    <3>2. CASE n \notin S
      BY <1>11, <3>2
    <3> QED BY <3>1, <3>2
  <2>3. q.prev \in S \cup {c} /\ c <= q.prev /\ q.prev <= n /\ \A s \in S : s <= n => s <= q.prev
    <3>1. CASE n \in S
      <4>1. n <= p.prev + 1 /\ q = SqlRow(p, n, cap) /\ ~p.more
        BY <1>2, <1>9, <1>11, <3>1
      <4>2. q.prev = n
        BY <1>2, <1>3, <4>1, SqlMoves
      <4> QED BY <3>1, <4>2
    <3>2. CASE n \notin S
      <4>1. q.prev = p.prev
        BY <3>2
      <4>2. \A s \in S : s <= n => s <= m
        BY <1>2, <3>2
      <4> QED BY <1>2, <1>4, <1>9, <1>11, <4>1, <4>2
    <3> QED BY <3>1, <3>2
  <2>4. Len(q.ranges) = Cardinality(K) /\ Len(q.ranges) <= cap
    BY <1>4, <1>11, <2>1, <2>2
  <2>5. \A h \in K : Cardinality(UpTo(K, h)) <= cap
           => q.ranges[Cardinality(UpTo(K, h))] = Interval(h, HoleEnd(S, h))
    BY <1>3, <2>1, <2>2
  <2> QED BY <1>1, <1>8, <2>2, <2>3, <2>4, <2>5 DEF Collected
<1>12. CASE ~p.more /\ n \in S /\ n > p.prev + 1
  <2>1. PICK x : x = p.prev + 1
    OBVIOUS
  <2>2. K = H \cup {x} /\ x \notin H /\ HoleEnd(S, x) = n - 1
    <3>1. PICK b : b = p.prev
      OBVIOUS
    <3>2. LastRow(b, S, c, m) /\ n \in S /\ n > b + 1
      BY <1>4, <1>12, <3>1 DEF LastRow
    <3>3. /\ ClosedBy(S, c, n) = ClosedBy(S, c, m) \cup {b + 1} /\ b + 1 \notin ClosedBy(S, c, m)
          /\ HoleEnd(S, b + 1) = n - 1
      BY <3>2, ClosedNext
    <3> QED BY <1>1, <2>1, <3>1, <3>3
  <2>3. Cardinality(K) = Cardinality(H) + 1
    BY <1>5, <2>2, FS_AddElement
  <2>4. UpTo(K, x) = K
    <3>1. x \in K /\ x \in Nat /\ \A k \in K : k <= x
      BY <1>5, <1>6, <1>9, <2>1, <2>2
    <3> QED BY <1>5, <3>1, Places
  <2>5. \A h \in H : Cardinality(UpTo(H, h)) \in 1 .. Cardinality(H)
    BY <1>5, Places
  <2>6. CASE Len(p.ranges) >= cap
    <3>1. q.ranges = p.ranges /\ q.more
      BY <1>2, <1>3, <1>12, <2>6, SqlRowFacts
    <3>2. Len(p.ranges) = cap /\ Cardinality(K) > cap
      BY <1>4, <1>5, <1>9, <1>12, <2>3, <2>6
    <3>3. ASSUME NEW h \in K, Cardinality(UpTo(K, h)) <= cap
          PROVE  q.ranges[Cardinality(UpTo(K, h))] = Interval(h, HoleEnd(S, h))
      <4>1. h # x
        BY <1>5, <2>4, <3>2, <3>3
      <4>2. h \in H
        BY <2>2, <4>1
      <4> QED BY <1>3, <1>7, <3>1, <3>3, <4>2
    <3> QED BY <1>1, <1>8, <3>1, <3>2, <3>3 DEF Collected
  <2>7. CASE Len(p.ranges) < cap
    <3>0. PICK i : i = Interval(p.prev + 1, n - 1)
      OBVIOUS
    <3>1. q.prev = n /\ ~q.more /\ q.ranges = Append(p.ranges, i)
      <4>1. p \in SqlStates /\ n \in Nat \ {0} /\ q = SqlRow(p, n, cap) /\ ~p.more /\ n > p.prev + 1
        BY <1>2, <1>3, <1>12
      <4>2. /\ q.prev = n /\ ~q.more
            /\ q.ranges = Append(p.ranges, Interval(p.prev + 1, n - 1))
        BY <2>7, <4>1, SqlCloses
      <4> QED BY <3>0, <4>2
    <3>2. i \in Holes
      BY <1>2, <1>9, <3>0 DEF Interval, Holes
    <3>3. /\ Len(q.ranges) = Len(p.ranges) + 1
          /\ q.ranges[Len(p.ranges) + 1] = i
          /\ \A j \in 1 .. Len(p.ranges) : q.ranges[j] = p.ranges[j]
      <4>1. PICK r : r = p.ranges
        OBVIOUS
      <4>2. r \in Seq(Holes) /\ q.ranges = Append(r, i)
        BY <1>9, <3>1, <4>1
      <4>3. /\ Len(Append(r, i)) = Len(r) + 1 /\ Append(r, i)[Len(r) + 1] = i
            /\ \A j \in 1 .. Len(r) : Append(r, i)[j] = r[j]
        BY <3>2, <4>2
      <4> QED BY <4>1, <4>2, <4>3
    <3>4. Len(p.ranges) = Cardinality(H)
      BY <1>4, <1>12
    <3>5. Len(q.ranges) = Cardinality(K) /\ Len(q.ranges) <= cap
      BY <1>5, <1>9, <2>3, <2>7, <3>3, <3>4
    <3>6. ASSUME NEW h \in K
          PROVE  q.ranges[Cardinality(UpTo(K, h))] = Interval(h, HoleEnd(S, h))
      <4>1. CASE h = x
        <5>1. Cardinality(UpTo(K, h)) = Len(p.ranges) + 1
          BY <2>3, <2>4, <3>4, <4>1
        <5>2. i = Interval(h, HoleEnd(S, h))
          BY <2>1, <2>2, <3>0, <4>1
        <5> QED BY <3>3, <5>1, <5>2
      <4>2. CASE h \in H
        <5>1. PICK k : k = Cardinality(UpTo(H, h))
          OBVIOUS
        <5>2. k \in 1 .. Len(p.ranges) /\ Cardinality(UpTo(K, h)) = k
          BY <1>7, <2>5, <3>4, <4>2, <5>1
        <5>3. k <= cap
          BY <1>9, <2>7, <5>2
        <5>4. p.ranges[k] = Interval(h, HoleEnd(S, h))
          BY <1>3, <4>2, <5>1, <5>3
        <5> QED BY <3>3, <5>2, <5>4
      <4> QED BY <2>2, <4>1, <4>2
    <3>7. q.prev \in S \cup {c} /\ c <= q.prev /\ q.prev <= n /\ \A s \in S : s <= n => s <= q.prev
      BY <1>2, <1>12, <3>1
    <3> QED BY <1>1, <1>8, <3>1, <3>5, <3>6, <3>7 DEF Collected
  <2> QED BY <1>9, <2>6, <2>7
<1> QED BY <1>10, <1>11, <1>12

LEMMA LoopCollects ==
    ASSUME NEW c \in Nat, NEW N \in Nat, c <= N, NEW S \in SUBSET Nat, NEW cap \in Nat,
           NEW F, SqlLoops(F, c, N, S, cap)
    PROVE  \A n \in c .. N : Collected(F[n], n, S, c, cap)
<1> DEFINE T == {n \in c .. N : ~Collected(F[n], n, S, c, cap)}
<1> SUFFICES ASSUME T # {} PROVE FALSE
  OBVIOUS
<1>0. T \in SUBSET Nat /\ T \subseteq c .. N /\ \A n \in (c .. N) \ T : Collected(F[n], n, S, c, cap)
  OBVIOUS
<1>1. PICK n \in T : \A t \in T : n <= t
  <2> HIDE DEF T
  <2> QED BY <1>0, SmallestExists
<1>2. n \in c .. N /\ ~Collected(F[n], n, S, c, cap)
  BY <1>1
<1>3. F[n] = IF n = c THEN SqlStart(c) ELSE IF n \in S THEN SqlRow(F[n - 1], n, cap) ELSE F[n - 1]
  BY <1>2, Zenon DEF SqlLoops
<1> HIDE DEF T
<1>5. n # c
  <2> SUFFICES ASSUME n = c PROVE FALSE
    OBVIOUS
  <2>1. F[n] = SqlStart(c)
    BY <1>3
  <2>2. SqlStart(c) \in SqlStates /\ SqlStart(c).ranges = <<>> /\ SqlStart(c).prev = c
    BY DEF SqlStart, SqlStates
  <2>3. ~SqlStart(c).more
    BY DEF SqlStart
  <2>4. ClosedBy(S, c, c) = {} /\ Len(<<>>) = 0 /\ 0 <= cap
    BY DEF ClosedBy
  <2>5. Cardinality({}) = 0
    BY FS_EmptySet
  <2>6. Collected(SqlStart(c), c, S, c, cap)
    BY <2>2, <2>3, <2>4, <2>5 DEF Collected
  <2> QED BY <1>2, <2>1, <2>6
<1>6. n - 1 \in c .. N /\ n - 1 \in Nat /\ n - 1 >= c /\ n = (n - 1) + 1 /\ n - 1 \notin T
  BY <1>0, <1>1, <1>2, <1>5
<1>7. Collected(F[n - 1], n - 1, S, c, cap)
  BY <1>0, <1>6
<1>8. F[n] = IF n \in S THEN SqlRow(F[n - 1], n, cap) ELSE F[n - 1]
  BY <1>3, <1>5
<1>9. Collected(F[n], n, S, c, cap)
  BY <1>6, <1>7, <1>8, CollectedStep
<1> QED BY <1>2, <1>9

-----------------------------------------------------------------------------
(* The cursor of the in-memory journal.                                      *)

\* The run of stored sequences behind n ends at e.
RunEnd(n, e, S) == e \in Nat /\ n <= e /\ (n + 1) .. e \subseteq S /\ e + 1 \notin S

LEMMA RunEndExists ==
    ASSUME NEW N \in Nat, NEW S \in SUBSET (0 .. N), NEW n \in Nat
    PROVE  \E e : RunEnd(n, e, S)
<1> DEFINE T == {e \in Nat : n <= e /\ e + 1 \notin S}
<1>1. T \in SUBSET Nat /\ n + N \in T
  OBVIOUS
<1>2. PICK e \in T : \A t \in T : e <= t
  <2> HIDE DEF T
  <2> QED BY <1>1, SmallestExists
<1>3. e \in Nat /\ n <= e /\ e + 1 \notin S
  OBVIOUS
<1>4. ASSUME NEW s \in (n + 1) .. e PROVE s \in S
  <2>1. s - 1 \in Nat /\ n <= s - 1 /\ s - 1 < e /\ (s - 1) + 1 = s
    BY <1>3
  <2>2. s - 1 \notin T
    <3> HIDE DEF T
    <3> QED BY <1>2, <1>3, <2>1
  <2> QED BY <2>1, <2>2
<1> QED BY <1>3, <1>4 DEF RunEnd

LEMMA RunEndUnique ==
    ASSUME NEW n \in Nat, NEW S, NEW d, NEW e, RunEnd(n, d, S), RunEnd(n, e, S)
    PROVE  d = e
<1>1. ASSUME NEW a, NEW b, RunEnd(n, a, S), RunEnd(n, b, S), a < b PROVE FALSE
  <2>1. a \in Nat /\ b \in Nat /\ n <= a /\ a + 1 \notin S /\ (n + 1) .. b \subseteq S
    BY <1>1 DEF RunEnd
  <2>2. a + 1 \in (n + 1) .. b
    BY <1>1, <2>1
  <2> QED BY <2>1, <2>2
<1>2. d \in Nat /\ e \in Nat
  BY DEF RunEnd
<1> QED BY <1>1, <1>2

LEMMA RunEndNext ==
    ASSUME NEW n \in Nat, NEW S
    PROVE  /\ n + 1 \notin S => RunEnd(n, n, S)
           /\ \A e : n + 1 \in S /\ RunEnd(n + 1, e, S) => RunEnd(n, e, S)
<1>1. n + 1 \notin S => RunEnd(n, n, S)
  BY DEF RunEnd
<1>2. ASSUME NEW e, n + 1 \in S, RunEnd(n + 1, e, S) PROVE RunEnd(n, e, S)
  <2>1. e \in Nat /\ n + 1 <= e /\ (n + 2) .. e \subseteq S /\ e + 1 \notin S
    BY <1>2 DEF RunEnd
  <2>2. \A s \in (n + 1) .. e : s = n + 1 \/ s \in (n + 2) .. e
    BY <2>1
  <2> QED BY <1>2, <2>1, <2>2 DEF RunEnd
<1> QED BY <1>1, <1>2

\* The recursion of GoAdvance.
Advances(F, c, last, S) ==
    F = [n \in c .. last |-> IF n + 1 \in S /\ n + 1 <= last THEN F[n + 1] ELSE n]

LEMMA AdvancesRuns ==
    ASSUME NEW N \in Nat, NEW S \in SUBSET (0 .. N), NEW c \in Nat, NEW last \in Nat, c <= last,
           \A s \in S : s <= last
    PROVE  \E F : Advances(F, c, last, S)
<1> DEFINE F == [n \in c .. last |-> CHOOSE e : RunEnd(n, e, S)]
<1>1. ASSUME NEW n \in c .. last PROVE RunEnd(n, F[n], S)
  <2>0. n \in Nat
    OBVIOUS
  <2> HIDE DEF F
  <2>1. \E e : RunEnd(n, e, S)
    BY <2>0, RunEndExists
  <2> USE DEF F
  <2> QED BY <2>1
<1>2. ASSUME NEW n \in c .. last
      PROVE  F[n] = IF n + 1 \in S /\ n + 1 <= last THEN F[n + 1] ELSE n
  <2>0. n \in Nat /\ RunEnd(n, F[n], S)
    BY <1>1
  <2>1. CASE n + 1 \in S
    <3>1. n + 1 <= last /\ n + 1 \in c .. last
      BY <2>0, <2>1
    <3>2. RunEnd(n + 1, F[n + 1], S)
      BY <1>1, <3>1
    <3> HIDE DEF F
    <3>3. RunEnd(n, F[n + 1], S)
      BY <2>0, <2>1, <3>2, RunEndNext
    <3> QED BY <2>0, <2>1, <3>1, <3>3, RunEndUnique
  <2>2. CASE n + 1 \notin S
    <3> HIDE DEF F
    <3>1. RunEnd(n, n, S)
      BY <2>0, <2>2, RunEndNext
    <3> QED BY <2>0, <2>2, <3>1, RunEndUnique
  <2> QED BY <2>1, <2>2
<1>3. F = [n \in c .. last |-> F[n]]
  OBVIOUS
<1> HIDE DEF F
<1>4. Advances(F, c, last, S)
  BY <1>2, <1>3 DEF Advances
<1> QED BY <1>4

LEMMA AdvancesEnd ==
    ASSUME NEW S, NEW c \in Nat, NEW last \in Nat, c <= last,
           S \subseteq Nat, \A s \in S : s <= last, NEW F, Advances(F, c, last, S)
    PROVE  \A n \in c .. last : RunEnd(n, F[n], S)
<1> DEFINE T == {n \in c .. last : ~RunEnd(n, F[n], S)}
<1> SUFFICES ASSUME T # {} PROVE FALSE
  OBVIOUS
<1>0. T \subseteq c .. last /\ T \in SUBSET (0 .. last) /\ \A n \in (c .. last) \ T : RunEnd(n, F[n], S)
  OBVIOUS
<1>1. PICK n \in T : \A t \in T : t <= n
  <2> HIDE DEF T
  <2> QED BY <1>0, LargestExists
<1>2. n \in c .. last /\ n \in Nat /\ ~RunEnd(n, F[n], S)
  BY <1>1
<1>3. F[n] = IF n + 1 \in S /\ n + 1 <= last THEN F[n + 1] ELSE n
  BY <1>2, Zenon DEF Advances
<1> HIDE DEF T
<1>4. CASE n + 1 \in S
  <2>1. n + 1 <= last /\ n + 1 \in c .. last /\ n + 1 \notin T
    BY <1>0, <1>1, <1>2, <1>4
  <2>2. RunEnd(n + 1, F[n + 1], S)
    BY <1>0, <2>1
  <2>3. RunEnd(n, F[n], S)
    BY <1>2, <1>3, <1>4, <2>1, <2>2, RunEndNext
  <2> QED BY <1>2, <2>3
<1>5. CASE n + 1 \notin S
  BY <1>2, <1>3, <1>5, RunEndNext
<1> QED BY <1>4, <1>5

\* The cursor moves to the end of the run it is in.
LEMMA GoAdvanceEnds ==
    ASSUME NEW N \in Nat, NEW S \in SUBSET (0 .. N), NEW c \in Nat, c = 0 \/ c \in S
    PROVE  RunEnd(c, GoAdvance(c, S), S)
<1>1. PICK last : last = LastOr(c, S)
  OBVIOUS
<1>2. last \in Nat /\ c <= last /\ \A s \in S : s <= last
  <2>1. CASE S = {}
    BY <1>1, <2>1 DEF LastOr
  <2>2. CASE S # {}
    <3>1. last \in S /\ \A s \in S : s <= last
      BY <1>1, <2>2, LastOrIsMax
    <3> QED BY <3>1
  <2> QED BY <2>1, <2>2
<1>3. PICK F : Advances(F, c, last, S)
  BY <1>2, AdvancesRuns
<1> DEFINE G == CHOOSE f : Advances(f, c, last, S)
<1>4. Advances(G, c, last, S)
  BY <1>3
<1>5. GoAdvance(c, S) = G[c]
  BY <1>1 DEF GoAdvance, Advances
<1> HIDE DEF G
<1>6. RunEnd(c, G[c], S)
  <2>1. S \subseteq Nat /\ c \in c .. last
    BY <1>2
  <2> QED BY <1>2, <1>4, <2>1, AdvancesEnd
<1> QED BY <1>5, <1>6

\* The SQL finds the end of the same run.
LEMMA SqlCommittedEnds ==
    ASSUME NEW N \in Nat, NEW S \in SUBSET (0 .. N), NEW b \in Nat
    PROVE  RunEnd(b, SqlCommitted(b, S), S)
<1>1. PICK c : c = SqlCommitted(b, S)
  OBVIOUS
<1>2. /\ c \in Nat /\ c >= b /\ (b + 1) .. c \subseteq S
      /\ \A n \in Nat : (b + 1) .. n \subseteq S /\ n > b => n <= c
  BY <1>1, CommittedIsLongestRun
<1>3. c + 1 \notin S
  <2> SUFFICES ASSUME c + 1 \in S PROVE FALSE
    OBVIOUS
  <2>1. \A s \in (b + 1) .. (c + 1) : s = c + 1 \/ s \in (b + 1) .. c
    BY <1>2
  <2>2. (b + 1) .. (c + 1) \subseteq S
    BY <1>2, <2>1
  <2> QED BY <1>2, <2>2
<1> QED BY <1>1, <1>2, <1>3 DEF RunEnd

\* What the windows are computed from: the last row above c.
LastAbove(c, S) == LastOr(c, {s \in S : s > c})

LEMMA LastAboveFacts ==
    ASSUME NEW N \in Nat, NEW S \in SUBSET (0 .. N), NEW c \in Nat
    PROVE  /\ LastAbove(c, S) \in Nat /\ c <= LastAbove(c, S) /\ LastAbove(c, S) \in S \cup {c}
           /\ \A s \in S : s <= LastAbove(c, S) \/ s <= c
<1> DEFINE T == {s \in S : s > c}
<1>1. T \in SUBSET (0 .. N) /\ T \subseteq S /\ \A s \in T : s > c
  OBVIOUS
<1>2. \A s \in S : s \in T \/ s <= c
  OBVIOUS
<1>3. LastAbove(c, S) = LastOr(c, T)
  BY DEF LastAbove
<1> HIDE DEF T
<1>4. T # {} => LastOr(c, T) \in T /\ \A t \in T : t <= LastOr(c, T)
  BY <1>1, LastOrIsMax
<1>5. T = {} => LastOr(c, T) = c
  BY <1>1, LastOrIsMax
<1>6. CASE T = {}
  BY <1>2, <1>3, <1>5, <1>6
<1>7. CASE T # {}
  <2>1. PICK x : x = LastOr(c, T)
    OBVIOUS
  <2>0. x \in T /\ \A t \in T : t <= x
    BY <1>4, <1>7, <2>1
  <2>2. x \in Nat /\ x > c /\ x \in S
    BY <1>1, <2>0
  <2> QED BY <1>2, <1>3, <2>0, <2>1, <2>2
<1> QED BY <1>6, <1>7

SqlEnds(p, c, last, S, cap) == \E F : SqlLoops(F, c, last, S, cap) /\ p = F[last]
GoEnds(g, c, last, S, cap) == \E F : GoLoops(F, c, last, S, cap) /\ g = F[last]

\* The SQL window comes out of its loop, and the Go window out of its scan.
LEMMA SqlRangesRun ==
    ASSUME NEW N \in Nat, NEW S \in SUBSET (0 .. N), NEW b \in Nat, NEW cap \in Nat,
           NEW c, c = SqlCommitted(b, S), NEW last, last = LastAbove(c, S)
    PROVE  SqlEnds(SqlRanges(b, S, cap), c, last, S, cap)
<1>1. c \in Nat
  BY SqlCommittedEnds DEF RunEnd
<1>2. last \in Nat /\ c <= last
  BY <1>1, LastAboveFacts
<1>3. \E F : SqlLoops(F, c, last, S, cap)
  <2>1. last - c \in Nat /\ c + (last - c) = last
    BY <1>1, <1>2
  <2> QED BY <1>1, <2>1, SqlLoopRuns
<1> DEFINE G == CHOOSE f : SqlLoops(f, c, last, S, cap)
<1>4. SqlLoops(G, c, last, S, cap)
  BY <1>3
<1>5. SqlRanges(b, S, cap) = G[last]
  BY DEF SqlRanges, SqlLoops, LastAbove
<1> QED BY <1>4, <1>5 DEF SqlEnds

LEMMA GoScanRun ==
    ASSUME NEW N \in Nat, NEW S \in SUBSET (0 .. N), NEW c \in Nat, NEW cap \in Nat,
           NEW last, last = LastAbove(c, S)
    PROVE  GoEnds(GoScan(c, S, cap), c, last, S, cap)
<1>2. last \in Nat /\ c <= last
  BY LastAboveFacts
<1>3. \E F : GoLoops(F, c, last, S, cap)
  <2>1. last - c \in Nat /\ c + (last - c) = last
    BY <1>2
  <2> QED BY <2>1, GoLoopRuns
<1> DEFINE G == CHOOSE f : GoLoops(f, c, last, S, cap)
<1>4. GoLoops(G, c, last, S, cap)
  BY <1>3
<1>5. GoScan(c, S, cap) = G[last]
  BY DEF GoScan, GoLoops, LastAbove
<1> QED BY <1>4, <1>5 DEF GoEnds

\* What the loops leave, where R and S have the same rows above c.
LEMMA SameRuns ==
    ASSUME NEW c \in Nat, NEW R \in SUBSET Nat, NEW S \in SUBSET Nat, \A s \in Nat : s > c => (s \in R <=> s \in S)
    PROVE  /\ LastAbove(c, R) = LastAbove(c, S)
           /\ \A F, cap : \A last \in Nat : SqlLoops(F, c, last, R, cap) => SqlLoops(F, c, last, S, cap)
<1>1. {s \in R : s > c} = {s \in S : s > c}
  OBVIOUS
<1>2. LastAbove(c, R) = LastAbove(c, S)
  BY <1>1 DEF LastAbove
<1>3. ASSUME NEW F, NEW cap, NEW last \in Nat, SqlLoops(F, c, last, R, cap) PROVE SqlLoops(F, c, last, S, cap)
  <2>1. F = [n \in c .. last |-> F[n]]
    BY <1>3 DEF SqlLoops
  <2>2. ASSUME NEW n \in c .. last
        PROVE  F[n] = IF n = c THEN SqlStart(c) ELSE IF n \in S THEN SqlRow(F[n - 1], n, cap) ELSE F[n - 1]
    <3>1. F[n] = IF n = c THEN SqlStart(c) ELSE IF n \in R THEN SqlRow(F[n - 1], n, cap) ELSE F[n - 1]
      BY <1>3, Zenon DEF SqlLoops
    <3>2. n # c => (n \in R <=> n \in S)
      OBVIOUS
    <3> QED BY <3>1, <3>2
  <2> QED BY <2>1, <2>2 DEF SqlLoops
<1> QED BY <1>2, <1>3
=============================================================================
