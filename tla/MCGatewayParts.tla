---------------------------- MODULE MCGatewayParts ----------------------------
(***************************************************************************)
(* Parts of the gateway that share no state, side by side: the two         *)
(* journals of an uplink, a device's queue of card policy pushes, what is  *)
(* known of its presence, and a tenant's send limit. A behaviour is one of *)
(* one part, the one page names.                                           *)
(***************************************************************************)
EXTENDS JournalStores, CardPolicySync, Presence, SendQuota

partsVars == <<vars, syncSpecVars, presenceVars, quotaVars>>

PartsInit ==
  /\ page \in {"ingress", "push", "presence", "quota"} /\ faults = 0
  /\ Init /\ SyncInit /\ PresenceInit /\ QuotaInit

PartsNext ==
  \/ page = "ingress" /\ Next /\ UNCHANGED <<syncSpecVars, presenceVars, quotaVars>>
  \/ page = "push" /\ SyncNext /\ UNCHANGED <<vars, presenceVars, quotaVars>>
  \/ page = "presence" /\ PresenceNext /\ UNCHANGED <<vars, syncSpecVars, quotaVars>>
  \/ page = "quota" /\ QuotaNext /\ UNCHANGED <<vars, syncSpecVars, presenceVars>>

\* The timers fire, time passes, and goroutines finish what they are at.
PresenceFairness ==
  /\ WF_presenceVars(page = "presence" /\ TimerStep)
  /\ WF_presenceVars(page = "presence" /\ Tenants)
  /\ WF_presenceVars(page = "presence" /\ Advance)
  /\ \A c \in Links : WF_presenceVars(page = "presence" /\ GoroutineStep(c))

PartsSpec == PartsInit /\ [][PartsNext]_partsVars /\ SyncFairness /\ PresenceFairness

\* What the gateway owes happens in the end: a push that lapsed untaken is
\* queued again until the device has it or its budget is spent, and a device
\* that is gone for good is announced (redeliverCardPolicy, absentDevices).
PartsSettle == UntakenIsRepeated /\ DeadIsAnnounced
=============================================================================
