----------------------------- MODULE Scheduler -----------------------------
(***************************************************************************)
(* One scheduled task and the gateways that tick it: app.scheduled_tasks   *)
(* with claim_due_scheduled_tasks and finish_scheduled_task (0038), the    *)
(* Runner (internal/schedule/schedule.go) and its SQL store, and the       *)
(* operator who creates, edits, switches and deletes the task meanwhile.   *)
(*                                                                         *)
(* Occurrence n is the instant Anchor + n * Interval.  Any number of       *)
(* gateways tick; the lease one of them takes lapses after a minute, but   *)
(* nothing bounds how long its run takes, so the run goes on without it.   *)
(* Every transaction is one action.                                        *)
(***************************************************************************)
EXTENDS Integers, FiniteSets

CONSTANTS
    Runners,     \* schedule.Runner, one per gateway process
    Selectors,   \* what the task may be pointed at
    Places,      \* where a selector may resolve to; NoPlace is nowhere
    NoPlace,
    Actions,     \* subset of {"command", "public_ip_check"}
    Anchor,      \* anchor_at
    Start,       \* when the gateways come up
    Interval,    \* interval_seconds
    MaxTime,     \* bound: the clock
    MaxEdits,    \* bound: what operators, cards and devices do meanwhile
    MaxFaults    \* bound: failed calls and crashes

ASSUME SchedulerAssumption ==
    /\ Anchor \in Nat /\ Interval \in Nat \ {0} /\ MaxTime \in Nat /\ Start \in 0 .. MaxTime
    /\ MaxEdits \in Nat /\ MaxFaults \in Nat
    /\ Actions \subseteq {"command", "public_ip_check"}

Times == 0 .. MaxTime

\* floor((t - anchor) / interval), negative before the anchor.
Due(t) == (t - Anchor) \div Interval
InstantOf(n) == Anchor + n * Interval

\* GREATEST of SQL.
Greatest(a, b) == IF a >= b THEN a ELSE b

VARIABLES
    now, live,
    \* app.scheduled_tasks: the row, its switch, its high-water mark
    task, action, selector, last, lease,
    \* where the inventory says the selected card or device is
    where,
    \* the goroutine of each Runner: position, time of the tick, claim, plan
    pc, tick, claim, target, close,
    \* app.commands under the task's keys, and the conversation's mirror
    commands, mirrored,
    \* how occurrences ended without a command, and the budgets
    skipped, limited, checked, passed, silent, edits, faults

row == <<task, action, selector, last, lease>>
runner == <<pc, tick, claim, target, close>>
world == <<now, live, where, edits>>
outcome == <<skipped, limited, checked>>
vars == <<world, row, runner, commands, mirrored, outcome, passed, silent, faults>>

NoClaim == [occ |-> 0, due |-> 0, sel |-> NoPlace]

\* The gateways come up, on a task that does not exist yet or that none of them
\* has run since it was created before its first occurrence.
Init ==
    /\ now = Start /\ live = "yes" /\ edits = 0 /\ faults = 0
    /\ task \in {"absent", "on", "off"} /\ action \in Actions /\ selector \in Selectors
    /\ last = 0 /\ lease = "free"
    /\ where \in [Selectors -> Places \ {NoPlace}]
    /\ pc = [r \in Runners |-> "idle"] /\ tick = [r \in Runners |-> 0]
    /\ claim = [r \in Runners |-> NoClaim] /\ close = [r \in Runners |-> 0]
    /\ target = [r \in Runners |-> NoPlace]
    /\ commands = {} /\ mirrored = {}
    /\ skipped = {} /\ limited = {} /\ checked = {} /\ passed = {}
    /\ silent = IF task = "off" THEN 1 .. Due(Start) ELSE {}

-----------------------------------------------------------------------------
(* The clock, the fleet and the operator.                                  *)

\* An occurrence whose instant arrives while the task is off is kept silent.
Advance ==
    /\ now < MaxTime
    /\ now' = now + 1
    /\ silent' = IF task = "off" /\ Due(now + 1) >= 1 /\ InstantOf(Due(now + 1)) = now + 1
                 THEN silent \union {Due(now + 1)} ELSE silent
    /\ UNCHANGED <<live, where, edits, row, runner, commands, mirrored, outcome, passed, faults>>

Edited == edits < MaxEdits /\ edits' = edits + 1

\* The tenant's last device leaves; it comes back of itself.
DeviceLeaves ==
    /\ live = "yes" /\ live' = "no" /\ Edited
    /\ UNCHANGED <<now, where, row, runner, commands, mirrored, outcome, passed, silent, faults>>

DeviceReturns ==
    /\ live = "no" /\ live' = "yes"
    /\ UNCHANGED <<now, where, edits, row, runner, commands, mirrored, outcome, passed, silent, faults>>

\* The inventory changes: a card moves, or is in no module for a while.
CardMoves(s, p) ==
    /\ where[s] # p /\ Edited
    /\ where' = [where EXCEPT ![s] = p]
    /\ UNCHANGED <<now, live, row, runner, commands, mirrored, outcome, passed, silent, faults>>

\* SQL.Create: a task does not owe what lies before it.
Create ==
    /\ task = "absent" /\ task' \in {"on", "off"}
    /\ LET mark == Greatest(0, Due(now)) IN last' = mark /\ passed' = 1 .. mark
    /\ UNCHANGED <<world, action, selector, lease, runner, commands, mirrored, outcome, silent, faults>>

\* Slip: switching on again leaves the mark where it was.
SetEnabledReplays(on) ==
    /\ task \in {"on", "off"} /\ Edited
    /\ task' = IF on THEN "on" ELSE "off"
    /\ UNCHANGED <<now, live, where, action, selector, last, lease, runner,
                   commands, mirrored, outcome, passed, silent, faults>>

\* SQL.Update with enabled: switching on again moves the mark to now.
SetEnabled(on) ==
    /\ task \in {"on", "off"} /\ Edited
    /\ task' = IF on THEN "on" ELSE "off"
    /\ LET mark == IF on /\ task = "off" THEN Greatest(last, Due(now)) ELSE last
       IN  last' = mark /\ passed' = passed \union ((last + 1) .. mark)
    /\ UNCHANGED <<now, live, where, action, selector, lease, runner,
                   commands, mirrored, outcome, silent, faults>>

\* SQL.Update with a selector.
SetSelector(s) ==
    /\ task \in {"on", "off"} /\ Edited
    /\ selector' = s
    /\ UNCHANGED <<now, live, where, task, action, last, lease, runner,
                   commands, mirrored, outcome, passed, silent, faults>>

Delete ==
    /\ task \in {"on", "off"} /\ Edited
    /\ task' = "deleted"
    /\ UNCHANGED <<now, live, where, action, selector, last, lease, runner,
                   commands, mirrored, outcome, passed, silent, faults>>

\* lease_expires_at passes, whatever its holder is doing.
LeaseLapses ==
    /\ lease = "held" /\ lease' = "lapsed"
    /\ UNCHANGED <<world, task, action, selector, last, runner,
                   commands, mirrored, outcome, passed, silent, faults>>

-----------------------------------------------------------------------------
(* Runner.Tick and Runner.run.                                             *)

Goto(r, label) == pc' = [pc EXCEPT ![r] = label]

\* The tick reads its clock once, for the claim and everything it leads to.
Tick(r) ==
    /\ pc[r] = "idle" /\ live = "yes"
    /\ Goto(r, "claim") /\ tick' = [tick EXCEPT ![r] = now]
    /\ UNCHANGED <<world, row, claim, target, close,
                   commands, mirrored, outcome, passed, silent, faults>>

\* Slip: a lease that lapsed still keeps the task from being claimed.
ClaimableUnleased(t) == task = "on" /\ lease = "free" /\ Due(t) > last

Claimable(t) == task = "on" /\ lease # "held" /\ Due(t) > last

\* now - occurrence_at > interval.
Stale(n, t) == t - InstantOf(n) > Interval

\* ClaimDue: the lease, and the one occurrence the task owes next.
ClaimDue(r) ==
    /\ pc[r] = "claim"
    /\ IF Claimable(tick[r])
       THEN /\ lease' = "held"
            /\ claim' = [claim EXCEPT ![r] =
                           [occ |-> last + 1, due |-> Due(tick[r]), sel |-> selector]]
            /\ Goto(r, "run")
       ELSE Goto(r, "idle") /\ UNCHANGED <<lease, claim>>
    /\ UNCHANGED <<world, task, action, selector, last, tick, target, close,
                   commands, mirrored, outcome, passed, silent, faults>>

\* The completion a run will write: the occurrence it closes, 0 for NULL.
Complete(r, n) == Goto(r, "finish") /\ close' = [close EXCEPT ![r] = n]

\* Slip: the mark jumps to the current occurrence.
ResumeAtDue(r) == claim[r].due

ResumeBeforeDue(r) == claim[r].due - 1

SkipStale(r) ==
    /\ pc[r] = "run" /\ Stale(claim[r].occ, tick[r])
    /\ Complete(r, ResumeBeforeDue(r))
    /\ skipped' = skipped \union (claim[r].occ .. ResumeBeforeDue(r))
    /\ UNCHANGED <<world, row, tick, claim, target,
                   commands, mirrored, limited, checked, passed, silent, faults>>

\* prepareFailed: nothing has left the cloud, the occurrence stays owed.
PrepareFailed(r) == Complete(r, 0)

\* Store.Resolve and buildRequest (or the reading of the public address): no
\* target right now, a failed call, or a plan.
Prepare(r) ==
    /\ pc[r] = "run" /\ ~Stale(claim[r].occ, tick[r])
    /\ \/ /\ where[claim[r].sel] = NoPlace /\ faults' = faults
          /\ PrepareFailed(r) /\ UNCHANGED <<target, checked>>
       \/ /\ faults < MaxFaults /\ faults' = faults + 1
          /\ PrepareFailed(r) /\ UNCHANGED <<target, checked>>
       \/ /\ where[claim[r].sel] # NoPlace /\ action = "command"
          /\ target' = [target EXCEPT ![r] = where[claim[r].sel]]
          /\ Goto(r, "quota") /\ UNCHANGED <<close, checked, faults>>
       \/ /\ where[claim[r].sel] # NoPlace /\ action = "public_ip_check"
          /\ checked' = checked \union {claim[r].occ}
          /\ Complete(r, claim[r].occ) /\ UNCHANGED <<target, faults>>
    /\ UNCHANGED <<world, row, tick, claim,
                   commands, mirrored, skipped, limited, passed, silent>>

\* SendAllowed: the tenant's budget is spent elsewhere too.
AskQuota(r) ==
    /\ pc[r] = "quota"
    /\ \/ Goto(r, "fire") /\ UNCHANGED <<close, limited>>
       \/ /\ limited' = limited \union {claim[r].occ}
          /\ Complete(r, claim[r].occ)
    /\ UNCHANGED <<world, row, tick, claim, target,
                   commands, mirrored, skipped, checked, passed, silent, faults>>

\* Slip: the key also names the tick that claimed the occurrence.
KeyOfTick(r) == <<claim[r].occ, tick[r]>>

IdempotencyKey(r) == <<claim[r].occ>>

Command(r) == [key |-> IdempotencyKey(r), occ |-> claim[r].occ, to |-> target[r]]

\* finish_scheduled_task: the mark never goes back; the lease is released
\* whoever holds it; a deleted task has no row to update.
FinishTask(n) ==
    IF task \in {"on", "off"}
    THEN last' = Greatest(last, n) /\ lease' = "free"
    ELSE UNCHANGED <<last, lease>>

\* Fire: app.enqueue_command and the completion, in one transaction.  A key
\* already bound to the same command is returned, not repeated.
Enqueue(r) ==
    /\ \A c \in commands : c.key = IdempotencyKey(r) => c = Command(r)
    /\ commands' = commands \union {Command(r)}
    /\ FinishTask(claim[r].occ)

FireIssues(r) == Enqueue(r) /\ Goto(r, "mirror") /\ close' = close

\* ErrKeyConflict: the occurrence is closed.
FireConflicts(r) ==
    /\ \E c \in commands : c.key = IdempotencyKey(r) /\ c # Command(r)
    /\ Complete(r, claim[r].occ)
    /\ UNCHANGED <<commands, last, lease>>

\* Any other error is taken to mean that nothing was committed and the
\* occurrence is still owed; when only the answer to the commit was lost, it
\* was committed all the same.
FireFails(r) ==
    /\ Complete(r, 0)
    /\ UNCHANGED <<commands, last, lease>> \/ Enqueue(r)

Fire(r) ==
    /\ pc[r] = "fire"
    /\ \/ (FireIssues(r) \/ FireConflicts(r)) /\ faults' = faults
       \/ FireFails(r) /\ faults < MaxFaults /\ faults' = faults + 1
    /\ UNCHANGED <<world, task, action, selector, tick, claim, target,
                   mirrored, outcome, passed, silent>>

\* The locals of the run go out of scope.
RunOver(r) ==
    /\ Goto(r, "idle")
    /\ tick' = [tick EXCEPT ![r] = 0] /\ claim' = [claim EXCEPT ![r] = NoClaim]
    /\ target' = [target EXCEPT ![r] = NoPlace] /\ close' = [close EXCEPT ![r] = 0]

\* OnCommandIssued, after the commit; a failure is only logged.
Mirror(r) ==
    /\ pc[r] = "mirror"
    /\ RunOver(r)
    /\ \/ mirrored' = mirrored \union {claim[r].occ} /\ faults' = faults
       \/ mirrored' = mirrored /\ faults < MaxFaults /\ faults' = faults + 1
    /\ UNCHANGED <<world, row, commands, outcome, passed, silent>>

\* Runner.finish; a failure is only logged and leaves the lease to lapse.
Finish(r) ==
    /\ pc[r] = "finish"
    /\ RunOver(r)
    /\ \/ FinishTask(close[r]) /\ faults' = faults
       \/ UNCHANGED <<last, lease>> /\ faults < MaxFaults /\ faults' = faults + 1
    /\ UNCHANGED <<world, task, action, selector, commands, mirrored, outcome, passed, silent>>

\* The gateway dies in the middle of a tick.
Crash(r) ==
    /\ pc[r] # "idle" /\ faults < MaxFaults /\ faults' = faults + 1
    /\ RunOver(r)
    /\ UNCHANGED <<world, row, commands, mirrored, outcome, passed, silent>>

-----------------------------------------------------------------------------
RunStep(r) ==
    \/ ClaimDue(r) \/ SkipStale(r) \/ Prepare(r) \/ AskQuota(r)
    \/ Fire(r) \/ Mirror(r) \/ Finish(r)

Operator ==
    \/ Create \/ Delete
    \/ \E on \in BOOLEAN : SetEnabled(on)
    \/ \E s \in Selectors : SetSelector(s)

Next ==
    \/ Advance \/ DeviceLeaves \/ DeviceReturns \/ Operator \/ LeaseLapses
    \/ \E s \in Selectors, p \in Places : CardMoves(s, p)
    \/ \E r \in Runners : Tick(r) \/ RunStep(r) \/ Crash(r)

Spec == Init /\ [][Next]_vars

\* The ticker fires, a tick runs to its end, leases lapse and a device that left
\* comes back; the operator, the inventory and the failures promise nothing.
Fairness ==
    /\ WF_vars(DeviceReturns) /\ WF_vars(LeaseLapses)
    /\ \A r \in Runners : WF_vars(RunStep(r)) /\ SF_vars(Tick(r))

FairSpec == Spec /\ Fairness

-----------------------------------------------------------------------------
(* Properties.                                                             *)

Issued == {c.occ : c \in commands}

TypeOK ==
    /\ now \in Times /\ live \in {"yes", "no"} /\ edits \in Nat /\ faults \in Nat
    /\ task \in {"absent", "on", "off", "deleted"} /\ action \in Actions
    /\ selector \in Selectors /\ last \in Nat /\ lease \in {"free", "held", "lapsed"}
    /\ where \in [Selectors -> Places]
    /\ pc \in [Runners -> {"idle", "claim", "run", "quota", "fire", "mirror", "finish"}]
    /\ tick \in [Runners -> Times] /\ close \in [Runners -> Nat]
    /\ claim \in [Runners -> [occ : Nat, due : Nat, sel : Selectors \union {NoPlace}]]
    /\ target \in [Runners -> Places \union {NoPlace}]
    /\ Issued \subseteq Nat /\ mirrored \subseteq Nat
    /\ UNION {skipped, limited, checked, passed, silent} \subseteq Nat

\* The failure the package exists to make impossible: whatever leases lapse,
\* runs overlap, calls fail or edits come between two attempts, an occurrence
\* never becomes two commands.
OneCommandPerOccurrence == \A c, d \in commands : c.occ = d.occ => c = d

\* "A command exists for occurrence n" and "the task has advanced past n"
\* cannot disagree, as long as the task exists (SQL.Fire is one transaction).
MarkCoversIssued == task \in {"on", "off"} => \A n \in Issued : n <= last

\* A slow run that finishes after a faster one never winds the mark back.
MarkNeverBack == [][last' >= last]_vars

\* Only an occurrence that a newer one has replaced is skipped as stale: the
\* current one still fires.
SkippedWereReplaced == \A n \in skipped : n < Due(now)

\* No occurrence is dropped without a trace: each one below the mark became a
\* command or a reading, was refused on the record or skipped for a newer one,
\* or had passed when the task was created or switched on again. The mark jumps
\* over what is skipped, and one too far would take the current occurrence with
\* it (Runner.run).
EveryOccurrenceAccounted ==
    /\ \A n \in 1 .. last : n \in Issued \union skipped \union limited \union checked \union passed
    /\ SkippedWereReplaced

\* What came due while the task was off is never sent afterwards (SQL.Update).
SilenceKept == silent \intersect Issued = {}

\* An occurrence the enabled task owes is closed in the end, unless its
\* selector names no device: a lapsed lease, a dead gateway and a failed call
\* only delay it.
Occurrences == 1 .. Greatest(0, Due(MaxTime))
OwedIsClosed ==
    \A n \in Occurrences :
        (task = "on" /\ last < n /\ n <= Due(now)) ~>
          (task # "on" \/ last >= n \/ where[selector] = NoPlace)
=============================================================================
