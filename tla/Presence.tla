------------------------------- MODULE Presence -------------------------------
(***************************************************************************)
(* Who is there: what the gateway concludes from the sessions of a device  *)
(* (cmd/gateway/main.go). absentDevices announces a device that stays away *)
(* beyond a grace period; liveDevices tells the scheduler which devices    *)
(* are connected, and the sweeps which tenants were seen of late. Both are *)
(* fed by the session goroutines, in steps between which the hub changes,  *)
(* and both are read by timers of their own.                               *)
(*                                                                         *)
(* One device of one tenant, on one gateway that keeps running: a restart  *)
(* forgets both trackers, as their comments say. Time passes in units of   *)
(* the reaper's tick, and no faster than the timers and the goroutines     *)
(* that have something to do.                                              *)
(***************************************************************************)
EXTENDS Naturals

CONSTANTS
  Links,         \* connections the device may have at once
  NoLink,
  IdleTimeout,   \* session.IdleTimeout, two ticks in the code
  OfflineGrace,  \* offlineGrace, two ticks
  TenantMemory,  \* tenantMemory, a day
  MaxClock,      \* bound: how long the model runs
  MaxDials       \* bound: connections in all

ASSUME PresenceAssumption ==
  /\ NoLink \notin Links
  /\ IdleTimeout \in Nat \ {0} /\ OfflineGrace \in Nat \ {0}
  /\ TenantMemory \in Nat \ {0} /\ MaxClock \in Nat /\ MaxDials \in Nat

VARIABLES
  clock,
  hub,         \* the connection bound to the device
  lastPacket,  \* its LastPacketAt
  phase,       \* per connection: how far its goroutine is
  shut,        \* connections whose socket the gateway has closed
  away,        \* absentDevices.away of the device
  reporter,    \* the reaper's goroutine
  listed,      \* liveDevices.byDevice has the device
  seenAt,      \* liveDevices.seenTenants of its tenant, 0 for none
  ticked,      \* timers that have fired in this unit
  dials,       \* connections so far
  dead,        \* the device is gone for good
  lastUp,      \* the last unit it was served in, 0 for none
  sawBound     \* when the reaper's goroutine last found it connected

sessionVars == <<hub, lastPacket, phase, shut, dials>>
ghostVars == <<dead, lastUp, sawBound>>
presenceVars == <<clock, sessionVars, away, reporter, listed, seenAt, ticked, ghostVars>>

Here == [on |-> FALSE, since |-> 0, told |-> FALSE]
Resting == [at |-> "resting", now |-> 0, bound |-> FALSE]

-----------------------------------------------------------------------------
(* The session goroutines.                                                   *)

Dial(c) ==
  /\ ~dead /\ phase[c] = "none" /\ dials < MaxDials
  /\ dials' = dials + 1

\* Resume: Hub.Bind, and the connection it replaces is closed.
Bind(c) ==
  /\ Dial(c)
  /\ hub' = c /\ lastPacket' = clock
  /\ phase' = [phase EXCEPT ![c] = "bound"]
  /\ shut' = (shut \cup (IF hub = NoLink THEN {} ELSE {hub})) \ {c}
  /\ UNCHANGED <<clock, away, reporter, listed, seenAt, ticked, ghostVars>>

\* A Resume that is refused ends like a session.
Refuse(c) ==
  /\ Dial(c)
  /\ phase' = [phase EXCEPT ![c] = "unbound"]
  /\ UNCHANGED <<clock, hub, lastPacket, shut, away, reporter, listed, seenAt, ticked, ghostVars>>

\* liveDevices.Seen, called back once the Resume is acknowledged.
Seen(c) ==
  /\ phase[c] = "bound"
  /\ phase' = [phase EXCEPT ![c] = "serving"]
  /\ listed' = TRUE /\ seenAt' = clock
  /\ lastUp' = IF hub = c THEN clock ELSE lastUp
  /\ UNCHANGED <<clock, hub, lastPacket, shut, dials, away, reporter, ticked, dead, sawBound>>

\* A frame arrives: Hub.Touch.
Touch(c) ==
  /\ ~dead /\ phase[c] = "serving" /\ hub = c /\ lastPacket # clock
  /\ lastPacket' = clock
  /\ UNCHANGED <<clock, hub, phase, shut, dials, away, reporter, listed, seenAt, ticked, ghostVars>>

\* ServeDevice returns, for any reason: Hub.Unbind, which only takes its own
\* connection away.
Unbind(c) ==
  /\ phase[c] \in {"bound", "serving"}
  /\ phase' = [phase EXCEPT ![c] = "unbound"]
  /\ hub' = IF hub = c THEN NoLink ELSE hub
  /\ UNCHANGED <<clock, lastPacket, shut, dials, away, reporter, listed, seenAt, ticked, ghostVars>>

\* OnSessionEnd: absentDevices.Left, which waits for a report under way. A
\* repeat keeps the first time.
Left(c) ==
  /\ phase[c] = "unbound" /\ reporter.at # "acting"
  /\ phase' = [phase EXCEPT ![c] = "none"]
  /\ shut' = shut \ {c}
  /\ away' = IF away.on THEN away ELSE [on |-> TRUE, since |-> clock, told |-> FALSE]
  /\ UNCHANGED <<clock, hub, lastPacket, dials, reporter, listed, seenAt, ticked, ghostVars>>

-----------------------------------------------------------------------------
(* The reaper's goroutine: reapIdleSessions, then absentDevices.Report.      *)

SweepIdle ==
  /\ reporter.at = "resting" /\ "report" \notin ticked
  /\ reporter' = [Resting EXCEPT !.at = "looking", !.now = clock]
  /\ IF hub # NoLink /\ clock - lastPacket >= IdleTimeout
     THEN hub' = NoLink /\ shut' = shut \cup {hub}
     ELSE UNCHANGED <<hub, shut>>
  /\ UNCHANGED <<clock, lastPacket, phase, dials, away, listed, seenAt, ticked, ghostVars>>

\* Report asks the hub ...
ReportLooks ==
  /\ reporter.at = "looking"
  /\ reporter' = [reporter EXCEPT !.at = "acting", !.bound = (hub # NoLink)]
  /\ sawBound' = IF hub # NoLink THEN reporter.now ELSE sawBound
  /\ UNCHANGED <<clock, sessionVars, away, listed, seenAt, ticked, dead, lastUp>>

\* Slip: a device that came back is passed over, not forgotten.
ReportKeepsReturned ==
  /\ reporter.at = "acting"
  /\ away' = IF away.on /\ ~reporter.bound /\ away.since + OfflineGrace <= reporter.now
             THEN [away EXCEPT !.told = TRUE] ELSE away
  /\ reporter' = Resting /\ ticked' = ticked \cup {"report"}
  /\ UNCHANGED <<clock, sessionVars, listed, seenAt, ghostVars>>

\* ... and forgets a device that is back, or announces one that has been away
\* long enough, once.
ReportActs ==
  /\ reporter.at = "acting"
  /\ away' = IF reporter.bound THEN Here
             ELSE IF away.on /\ away.since + OfflineGrace <= reporter.now
             THEN [away EXCEPT !.told = TRUE] ELSE away
  /\ reporter' = Resting /\ ticked' = ticked \cup {"report"}
  /\ UNCHANGED <<clock, sessionVars, listed, seenAt, ghostVars>>

-----------------------------------------------------------------------------
(* The scheduler's and the watchdog's.                                       *)

\* Slip: reading the list does not count as having seen the tenant.
TenantsUnstamped ==
  /\ listed' = (listed /\ hub # NoLink)
  /\ ticked' = ticked \cup {"schedule"}
  /\ UNCHANGED <<clock, sessionVars, away, reporter, seenAt, ghostVars>>

\* liveDevices.Tenants: what the hub no longer has goes, what it has was seen now.
Tenants ==
  /\ listed' = (listed /\ hub # NoLink)
  /\ seenAt' = IF listed' THEN clock ELSE seenAt
  /\ ticked' = ticked \cup {"schedule"}
  /\ UNCHANGED <<clock, sessionVars, away, reporter, ghostVars>>

\* liveDevices.RecentTenants drops what is older than the window.
RecentTenants ==
  /\ seenAt # 0 /\ clock - seenAt > TenantMemory
  /\ seenAt' = 0
  /\ UNCHANGED <<clock, sessionVars, away, reporter, listed, ticked, ghostVars>>

-----------------------------------------------------------------------------
Die == ~dead /\ dead' = TRUE
       /\ UNCHANGED <<clock, sessionVars, away, reporter, listed, seenAt, ticked, lastUp, sawBound>>

\* A goroutine whose socket is closed, or silent beyond its read deadline, ends.
Ending(c) ==
  /\ phase[c] \in {"bound", "serving"}
  /\ c \in shut \/ (hub = c /\ clock - lastPacket > IdleTimeout)

\* The timers fire in every unit, and no goroutine that has something to do
\* takes longer than one.
Advance ==
  /\ clock < MaxClock /\ reporter = Resting /\ ticked = {"report", "schedule"}
  /\ \A c \in Links : phase[c] \notin {"bound", "unbound"} /\ ~Ending(c)
  /\ clock' = clock + 1 /\ ticked' = {}
  /\ lastUp' = IF hub # NoLink THEN clock' ELSE lastUp
  /\ UNCHANGED <<sessionVars, away, reporter, listed, seenAt, dead, sawBound>>

PresenceInit ==
  /\ clock = 1 /\ hub = NoLink /\ lastPacket = 0
  /\ phase = [c \in Links |-> "none"] /\ shut = {} /\ dials = 0
  /\ away = Here /\ reporter = Resting /\ listed = FALSE /\ seenAt = 0 /\ ticked = {}
  /\ dead = FALSE /\ lastUp = 0 /\ sawBound = 0

PresenceNext ==
  \/ \E c \in Links : Bind(c) \/ Refuse(c) \/ Seen(c) \/ Touch(c) \/ Unbind(c) \/ Left(c)
  \/ SweepIdle \/ ReportLooks \/ ReportActs
  \/ Tenants \/ RecentTenants \/ Die \/ Advance

PresenceSpec == PresenceInit /\ [][PresenceNext]_presenceVars

\* What the gateway does by itself.
TimerStep == SweepIdle \/ ReportLooks \/ ReportActs
GoroutineStep(c) == Seen(c) \/ Left(c) \/ (Ending(c) /\ Unbind(c))

-----------------------------------------------------------------------------
(* Properties.                                                               *)

\* A device that is gone for good is announced, however it went: its link broke,
\* it fell silent on a link that stayed up, or it was in the middle of replacing
\* one session by another; and it is this absence that is announced, not one
\* before it came back (reapIdleSessions, OnSessionEnd, Left, Report).
DeadIsAnnounced ==
  (/\ dead /\ (away.on \/ \E c \in Links : phase[c] # "none")
   /\ clock + IdleTimeout + OfflineGrace + 1 <= MaxClock)
  ~> (away.told /\ away.since >= sawBound)

\* A device is announced only when no look of the last OfflineGrace found it
\* connected: a session that ends while another is in place, and a device that
\* comes back in time, raise nothing (Left, Report).
AnnouncedWasAway ==
  [][~away.told /\ away'.told => reporter.now >= sawBound + OfflineGrace]_presenceVars

\* A device that is being served is on the scheduler's list, whatever sessions
\* before it are still ending ("a superseded session's late Unbind cannot evict
\* a device that has already reconnected").
ServedIsListed == hub # NoLink /\ phase[hub] = "serving" => listed

\* A tenant is swept while a device of it is connected and for TenantMemory
\* after, less the tick that may be missed: a session that lasts longer than the
\* window is no exception (Tenants, RecentTenants).
TenantRemembered == lastUp # 0 /\ clock - lastUp < TenantMemory => seenAt # 0

\* What the scheduler and the sweeps go by is true of a connected device,
\* whatever sessions before it are still ending and however long the present
\* one lasts (liveDevices).
ConnectedIsKnown == ServedIsListed /\ TenantRemembered
=============================================================================
