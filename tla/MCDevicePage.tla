----------------------------- MODULE MCDevicePage -----------------------------
(* Both panels of the device page, under fairness.                         *)
EXTENDS DevicePage

\* Every profile is delivered on the one module.
MCHome == [p \in Iccids |-> CHOOSE m \in EsimModems : TRUE]
=============================================================================
