----------------------------- MODULE ConsolePage -----------------------------
(***************************************************************************)
(* What the pages of the console have in common: one browser tab shows one *)
(* page, and a request it makes is answered, or fails on the way.          *)
(***************************************************************************)
EXTENDS Naturals

CONSTANT MaxFaults   \* bound: requests that fail on the way

ASSUME FaultsAssumption == MaxFaults \in Nat

VARIABLES
  page,      \* the page the tab shows
  faults     \* requests that failed on the way

\* A connection breaks before the answer arrives: fetch rejects.
ConnectionBreaks ==
  /\ faults < MaxFaults
  /\ faults' = faults + 1
  /\ UNCHANGED page

ConnectionHolds == UNCHANGED <<page, faults>>
=============================================================================
