------------------------------ MODULE MCConsole ------------------------------
EXTENDS ConsolePages

\* Every profile is delivered on the one module.
MCHome == [p \in Iccids |-> CHOOSE m \in EsimModems : TRUE]
=============================================================================
