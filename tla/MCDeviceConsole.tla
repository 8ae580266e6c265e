-------------------------- MODULE MCDeviceConsole --------------------------
(* The command relay of the device page with two modems and clocks that    *)
(* disagree.                                                               *)
EXTENDS DeviceConsole

\* A query and a guarded command (AT+CSQ, AT+CFUN=4).
MCAtCommands == {<<"csq">>, <<"cfun", 4>>}

\* The gateway's clock behind the browser's, and ahead of it.
MCSkews == {-1, 1}
=============================================================================
