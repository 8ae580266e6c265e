------------------------------ MODULE TableQuery ------------------------------
(***************************************************************************)
(* The lists of the console are filtered and sorted on the server, from    *)
(* the `?q=` and `?sort=` of the page's address (lib/table-query.ts, and   *)
(* orderModems of app/devices/page.tsx). The gateway may send the same     *)
(* rows in another order each time. The list here is the modems', with     *)
(* the two readings it is sorted by.                                       *)
(***************************************************************************)
EXTENDS ConsolePage, Integers, Sequences, FiniteSets

CONSTANTS
  Imeis,               \* the modems, numbered in alphabetical order
  Missing,             \* null: a reading that could not be taken
  MaxReading,          \* bound: a reading is a number of at most this size
  MaxChanges           \* bound: times a reading changes

ASSUME TableAssumption ==
  /\ IsFiniteSet(Imeis) /\ Imeis \subseteq Nat /\ Missing \notin Int
  /\ MaxReading \in Nat \ {0} /\ MaxChanges \in Nat

VARIABLES
  modemRows,           \* gateway: the readings of each modem
  query,               \* the page's address: what is typed, and the order
  changes,             \* readings changed so far
  table                \* what is drawn: of which rows, and how

tableVars == <<modemRows, query, changes, table>>

\* A signal is in dBm, so below zero; a time is above it.
Signals == {-n : n \in 1..MaxReading} \cup {Missing}
Times == (1..MaxReading) \cup {Missing}
Row(imei) == [imei |-> imei, signal |-> modemRows[imei].signal, seen |-> modemRows[imei].seen]
TableRows == {Row(imei) : imei \in Imeis}

-----------------------------------------------------------------------------
(* table-query.ts.                                                           *)

\* pickSort: anything the address says that is not an order is the fallback.
pickSort(raw, allowed, fallback) == IF raw \in allowed THEN raw ELSE fallback

\* An empty needle matches everything; `hits` is what another one matches.
matches(needle, hits, row) == needle = "" \/ row.imei \in hits

\* Largest first, missing last: below zero when `left` goes first.
biggestFirst(left, right) ==
  CASE left = Missing /\ right = Missing -> 0
    [] left = Missing /\ right # Missing -> 1
    [] left # Missing /\ right = Missing -> -1
    [] OTHER -> right - left

alphabetical(left, right) == left - right

\* The first comparison that tells the rows apart decides.
by(first, second) == IF first # 0 THEN first ELSE second

emptyKind(total, shown, needle) ==
  CASE total = 0 -> "none"
    [] total > 0 /\ shown = 0 -> (IF needle = "" THEN "none" ELSE "noMatch")
    [] OTHER -> "rows"

-----------------------------------------------------------------------------
(* The page.                                                                 *)

\* Slip: rows with the same reading are left as they came.
OrderWithoutTies(left, right, order) ==
  IF order = "signal" THEN biggestFirst(left.signal, right.signal)
  ELSE IF order = "seen" THEN biggestFirst(left.seen, right.seen)
  ELSE alphabetical(left.imei, right.imei)

orderModems(left, right, order) ==
  by(IF order = "signal" THEN biggestFirst(left.signal, right.signal) ELSE 0,
     by(IF order = "seen" THEN biggestFirst(left.seen, right.seen) ELSE 0,
        alphabetical(left.imei, right.imei)))

\* A stable sort of the rows that are kept, as they arrived.
Sorted(arrived, keep, order) ==
  LET place(i) == Cardinality({j \in keep :
                    LET c == orderModems(arrived[j], arrived[i], order)
                    IN c < 0 \/ (c = 0 /\ j < i)}) + 1
  IN [k \in 1..Cardinality(keep) |-> arrived[CHOOSE i \in keep : place(i) = k]]

OrderOf(q) == pickSort(q.sort, {"imei", "signal", "seen"}, "imei")

Drawing(arrived) ==
  LET keep == {i \in DOMAIN arrived : matches(query.needle, query.hits, arrived[i])}
  IN [of |-> TableRows, rows |-> Sorted(arrived, keep, OrderOf(query)),
      empty |-> emptyKind(Cardinality(DOMAIN arrived), Cardinality(keep), query.needle)]

Arrivals == {arrived \in [1..Cardinality(Imeis) -> TableRows] :
               \A row \in TableRows : \E i \in DOMAIN arrived : arrived[i] = row}

\* The page is served, or served again with the same address.
TableServed ==
  /\ \E arrived \in Arrivals : table' = Drawing(arrived)
  /\ UNCHANGED <<modemRows, query, changes>> /\ ConnectionHolds

\* A modem reports a reading, or that it has none.
ReadingChanges ==
  /\ changes < MaxChanges /\ changes' = changes + 1
  /\ \E imei \in Imeis, reading \in Signals :
       modemRows' = [modemRows EXCEPT ![imei].signal = reading]
  /\ UNCHANGED <<query, table>> /\ ConnectionHolds

-----------------------------------------------------------------------------
TableRests == changes = 0 /\ table = [of |-> {}, rows |-> <<>>, empty |-> "none"]

TablePinned ==
  /\ query = [needle |-> "", hits |-> {}, sort |-> "imei"]
  /\ modemRows = [m \in Imeis |-> [signal |-> Missing, seen |-> Missing]]

TableInit ==
  /\ modemRows \in [Imeis -> [signal : Signals, seen : Times]]
  /\ query \in [needle : {"", "typed"}, hits : SUBSET Imeis, sort : {"imei", "signal", "seen", "other"}]
  /\ query.needle = "" => query.hits = {}
  /\ TableRests

TableNext == TableServed \/ ReadingChanges

-----------------------------------------------------------------------------
(* Properties.                                                               *)

\* A modem that could not be measured is drawn after every one that was, and
\* the measured ones from the strongest (biggestFirst).
UnmeasuredLast ==
  query.sort = "signal" =>
    \A i, j \in DOMAIN table.rows :
      i < j /\ table.rows[j].signal # Missing =>
        table.rows[i].signal # Missing /\ table.rows[i].signal >= table.rows[j].signal

\* The same rows are drawn in the same places, whatever order the gateway
\* serialised them in: no row moves out from under the cursor, and none that was
\* not measured moves up (by, orderModems, biggestFirst).
RowsStayPut ==
  [][ /\ table'.of = table.of => table'.rows = table.rows
      /\ UnmeasuredLast' ]_tableVars
=============================================================================
