----------------------------- MODULE MCCommands -----------------------------
(***************************************************************************)
(* Small instances for TLC: the whole life of a command, and the queue of  *)
(* commands alone with more commands in it.  A behaviour is one of either, *)
(* as scene says.                                                          *)
(***************************************************************************)
EXTENDS CommandLifecycle, CommandQueue

VARIABLE scene

CommandsInit == scene \in {"life", "queue"} /\ Init /\ QueueInit

CommandsNext ==
    \/ scene = "life" /\ Next /\ UNCHANGED <<queueVars, scene>>
    \/ /\ scene = "queue"
       /\ \/ QueueStep /\ faults' = faults
          \/ QueueFault /\ faults < MaxFaults /\ faults' = faults + 1
       /\ UNCHANGED <<store, lapsed, console, session, link, device, history, scene>>

CommandsSpec == CommandsInit /\ [][CommandsNext]_<<vars, queueVars, scene>>

\* The device redials; a goroutine finishes what it is at, notices that its
\* socket is gone, and asks for pending commands off its traffic.  The device's
\* answers, the clock, the failures and the console promise nothing.
LifeFairness ==
    /\ WF_vars(scene = "life" /\ \E w \in Workers : Connect(w))
    /\ \A w \in Workers :
         /\ WF_vars(scene = "life" /\ (Deliver(w) \/ RecordResult(w) \/ SettleOutbound(w) \/ SessionEnds(w)))
         /\ SF_vars(scene = "life" /\ PendingForDevice(w))

\* The device redials and answers every delivery; a goroutine writes out what it
\* read, reads the queue off its traffic and handles every frame it is sent.
\* Deadlines, sweeps and results promise nothing.
QueueFairness ==
    /\ WF_queueVars(scene = "queue" /\ Redial)
    /\ WF_queueVars(scene = "queue" /\ DeliverNext)
    /\ SF_queueVars(scene = "queue" /\ ReadQueue)
    /\ \A c \in Line : /\ WF_queueVars(scene = "queue" /\ Handle(c))
                       /\ SF_queueVars(scene = "queue" /\ TakeReply(c))

CommandsFairSpec == CommandsSpec /\ LifeFairness /\ QueueFairness

\* No command outlives its deadline, whatever was lost on the way (OverdueIsRetired,
\* in the scene with everything that can end or delay a command).
LateAreRetired == scene = "life" => OverdueIsRetired

\* A queued command reaches the device, unless its deadline passes or one no
\* younger is put off and still queued (QueuedReachesDevice, in the scene with
\* commands that wait for each other in the pending read of deliverPending).
WaitingAreServed == scene = "queue" => QueuedReachesDevice
=============================================================================
