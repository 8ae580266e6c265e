------------------------------ MODULE MCUplink ------------------------------
(* Small instances of UplinkJournal for TLC.                               *)
EXTENDS UplinkJournal, TLC

Rec(k, f) == [kind |-> k, fault |-> f]
StateRec == Rec("DeviceState", "none")
AlertRec == Rec("Alert", "none")

SessionClasses == {AlertRec, Rec("CommandResult", "late"), Rec("Alert", "id")}
PruneClasses == {StateRec, AlertRec}
LiveClasses == {Rec("CommandResult", "none"), Rec("Alert", "early"), Rec("CommandResult", "late")}

ConnSymmetry == Permutations(Conns)
=============================================================================
