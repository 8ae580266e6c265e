------------------------------ MODULE DevicePage ------------------------------
(***************************************************************************)
(* The device page (app/devices/[deviceId]/page.tsx): one of its two       *)
(* panels that send commands is shown at a time, the relay with its log,   *)
(* or the eSIM tab. Both keep their own copy of the command list and poll  *)
(* for it only while they are mounted.                                     *)
(***************************************************************************)
EXTENDS DeviceConsole, EsimPanel

panels == {"commands", "esim"}
devicePageVars == <<relayVars, esimVars, page, faults>>

DevicePageInit ==
  /\ page \in panels /\ faults = 0
  /\ RelayInit /\ EsimInit
  /\ page = "esim" => skew = CHOOSE s \in Skews : TRUE

\* The panel that is not shown is not mounted.
DevicePageNext ==
  \/ page = "commands" /\ Next /\ UNCHANGED esimVars
  \/ page = "esim" /\ EsimNext /\ UNCHANGED relayVars

DevicePageSpec == DevicePageInit /\ [][DevicePageNext]_devicePageVars

DevicePageFairSpec == DevicePageSpec /\ RelayFairness /\ EsimFairness

\* A row of either panel that says waiting is resolved, and a stale offer to reply
\* is withdrawn (the intervals of useDeviceCommands, UssdConsole and the eSIM
\* panel). The relay's controls come back whatever becomes of the request (the
\* finally of its runNow); the eSIM panel's, whose runNow has none, only as long
\* as no connection broke.
DevicePageSettles ==
  /\ WaitingIsNotForever /\ EsimWaitingEnds
  /\ StaleOfferWithdrawn /\ BusyEnds /\ PanelBusyEnds
=============================================================================
