--------------------------- MODULE DurableUplink ---------------------------
(***************************************************************************)
(* What the sequenced uplink promises a device, with every connection,     *)
(* goroutine, transaction and retention pass abstracted away: the cloud    *)
(* takes charge of records the device really allocated, it never gives one *)
(* up again, and the device is only ever asked to release a prefix the     *)
(* cloud is in charge of.  Being in charge of a record means having its    *)
(* row, a tombstone in its place, or a retention mark at or above it.      *)
(***************************************************************************)
EXTENDS Naturals

CONSTANT MaxSeq

VARIABLES
    next,   \* the next sequence the device allocates
    held,   \* the records the device still holds
    kept    \* the sequences the cloud is in charge of

dvars == <<next, held, kept>>

Init == next = 1 /\ held = {} /\ kept = {}

Allocate ==
    /\ next <= MaxSeq
    /\ held' = held \union {next}
    /\ next' = next + 1
    /\ kept' = kept

TakeCharge(s) ==
    /\ s < next /\ s \notin kept
    /\ kept' = kept \union {s}
    /\ UNCHANGED <<next, held>>

Release(n) ==
    /\ \A s \in 1 .. n : s \in kept
    /\ held' = {s \in held : s > n}
    /\ UNCHANGED <<next, kept>>

Next ==
    \/ Allocate
    \/ \E s \in 1 .. MaxSeq : TakeCharge(s)
    \/ \E n \in 0 .. MaxSeq : Release(n)

Spec == Init /\ [][Next]_dvars
=============================================================================
