-------------------------- MODULE Scheduler_proofs --------------------------
(***************************************************************************)
(* The safety properties of Scheduler, for every number of gateways, every *)
(* anchor and interval and any interleaving of lapsed leases, edits and    *)
(* failures.                                                               *)
(*                                                                         *)
(* The mark of the task is only safe to move because every run in flight   *)
(* knows that all occurrences before its own are accounted for, and no run *)
(* is ahead of the clock; IInv says so.                                    *)
(***************************************************************************)
EXTENDS Scheduler, TLAPS

-----------------------------------------------------------------------------
(* Arithmetic of the occurrence grid.                                      *)

\* floor division, by its bounds.
LEMMA DivBounds ==
    ASSUME NEW a \in Int, NEW b \in Nat \ {0}
    PROVE  /\ a \div b \in Int
           /\ b * (a \div b) <= a
           /\ a < b * (a \div b) + b
  <1>1. a \div b \in Int
    BY SMT
  <1>2. a = b * (a \div b) + (a % b)
    BY SMT
  <1>3. a % b \in 0 .. (b - 1)
    BY SMT
  <1> QED
    BY <1>1, <1>2, <1>3, SMT

LEMMA TimesMonotone ==
    ASSUME NEW b \in Nat \ {0}, NEW p \in Int, NEW q \in Int, p <= q
    PROVE  b * p <= b * q
  <1>1. b * (q - p) >= 0
    BY SMT
  <1>2. b * (q - p) = b * q - b * p
    BY SMT
  <1>3. b * q \in Int /\ b * p \in Int
    BY SMT
  <1> QED
    BY <1>1, <1>2, <1>3, SMT

\* The current occurrence is an integer that never decreases with the clock.
LEMMA DueMonotone ==
    ASSUME NEW s \in Int, NEW t \in Int, s <= t
    PROVE  Due(s) \in Int /\ Due(t) \in Int /\ Due(s) <= Due(t)
  <1> DEFINE p == (s - Anchor) \div Interval
             q == (t - Anchor) \div Interval
  <1>1. Interval \in Nat \ {0} /\ Anchor \in Nat
    BY SchedulerAssumption
  <1>2. p \in Int /\ Interval * p <= s - Anchor /\ s - Anchor < Interval * p + Interval
    <2>1. s - Anchor \in Int
      BY <1>1
    <2> QED
      BY <1>1, <2>1, DivBounds
  <1>3. q \in Int /\ Interval * q <= t - Anchor /\ t - Anchor < Interval * q + Interval
    <2>1. t - Anchor \in Int
      BY <1>1
    <2> QED
      BY <1>1, <2>1, DivBounds
  <1>4. Due(s) = p /\ Due(t) = q
    BY DEF Due
  <1> HIDE DEF p, q
  <1>5. ASSUME q + 1 <= p PROVE FALSE
    <2>1. Interval * (q + 1) <= Interval * p
      BY <1>1, <1>2, <1>3, <1>5, TimesMonotone
    <2>2. Interval * (q + 1) = Interval * q + Interval
      BY <1>1, <1>3, SMT
    <2>3. Interval * q \in Int /\ Interval * p \in Int
      BY <1>1, <1>2, <1>3, SMT
    <2> QED
      BY <1>1, <1>2, <1>3, <2>1, <2>2, <2>3, SMT
  <1> QED
    BY <1>2, <1>3, <1>4, <1>5

\* At its very instant an occurrence is newer than any before it.
LEMMA DueAtInstant ==
    ASSUME NEW t \in Int, InstantOf(Due(t + 1)) = t + 1
    PROVE  Due(t) < Due(t + 1)
  <1> DEFINE p == (t - Anchor) \div Interval
             q == Due(t + 1)
  <1>1. Interval \in Nat \ {0} /\ Anchor \in Nat
    BY SchedulerAssumption
  <1>2. p \in Int /\ Interval * p <= t - Anchor
    <2>1. t - Anchor \in Int
      BY <1>1
    <2> QED
      BY <1>1, <2>1, DivBounds
  <1>3. q \in Int
    BY DueMonotone
  <1>4. Due(t) = p
    BY DEF Due
  <1>5. Anchor + q * Interval = t + 1
    BY DEF InstantOf
  <1> HIDE DEF p, q
  <1>6. ASSUME q <= p PROVE FALSE
    <2>1. Interval * q <= Interval * p
      BY <1>1, <1>2, <1>3, <1>6, TimesMonotone
    <2>2. q * Interval = Interval * q /\ Interval * q \in Int /\ Interval * p \in Int
      BY <1>1, <1>2, <1>3, SMT
    <2> QED
      BY <1>1, <1>2, <1>5, <2>1, <2>2, SMT
  <1> QED
    BY <1>2, <1>3, <1>4, <1>6 DEF q

LEMMA GreatestIsGreatest ==
    \A a, b \in Int :
        /\ Greatest(a, b) = a \/ Greatest(a, b) = b
        /\ Greatest(a, b) >= a /\ Greatest(a, b) >= b
  BY DEF Greatest

-----------------------------------------------------------------------------
(* The inductive invariant.                                                *)

RowOK ==
    /\ now \in Times /\ live \in {"yes", "no"} /\ edits \in Nat /\ faults \in Nat
    /\ task \in {"absent", "on", "off", "deleted"} /\ action \in Actions
    /\ selector \in Selectors /\ last \in Nat /\ lease \in {"free", "held", "lapsed"}
    /\ where \in [Selectors -> Places]

RunnerOK ==
    /\ pc \in [Runners -> {"idle", "claim", "run", "quota", "fire", "mirror", "finish"}]
    /\ tick \in [Runners -> Times] /\ close \in [Runners -> Nat]
    /\ claim \in [Runners -> [occ : Nat, due : Nat, sel : Selectors \union {NoPlace}]]
    /\ target \in [Runners -> Places \union {NoPlace}]

SetsOK ==
    /\ \A n \in mirrored : n \in Nat
    /\ \A n \in skipped : n \in Nat
    /\ \A n \in limited : n \in Nat
    /\ \A n \in checked : n \in Nat
    /\ \A n \in passed : n \in Nat
    /\ \A n \in silent : n \in Nat

\* Every command carries the key of its occurrence, and no key is bound twice.
CommandsOK ==
    /\ \A c \in commands : c.occ \in Nat /\ c.key = <<c.occ>>
    /\ \A c, d \in commands : c.key = d.key => c = d

\* Nothing has happened to a task that does not exist yet.
AbsentOK ==
    task = "absent" =>
        /\ last = 0 /\ commands = {} /\ silent = {}
        /\ \A r \in Runners : pc[r] \in {"idle", "claim"}

Accounted(n) ==
    \/ \E c \in commands : c.occ = n
    \/ n \in skipped \/ n \in limited \/ n \in checked \/ n \in passed

InFlight(r) == pc[r] \in {"run", "quota", "fire"}

\* A tick is never ahead of the clock.
TickOK == \A r \in Runners : tick[r] <= now

\* A run in flight holds an occurrence the clock has reached, and all before it
\* are accounted for.
ClaimOK ==
    \A r \in Runners : InFlight(r) =>
        /\ 1 <= claim[r].occ /\ claim[r].occ <= claim[r].due
        /\ claim[r].due <= Due(now) /\ claim[r].sel \in Selectors
        /\ \A n \in Nat : 1 <= n /\ n < claim[r].occ => Accounted(n)

\* A run that is about to close occurrences accounts for all of them.
FinishOK ==
    \A r \in Runners : pc[r] = "finish" =>
        \A n \in Nat : 1 <= n /\ n <= close[r] => Accounted(n)

MarkOK == \A n \in Nat : 1 <= n /\ n <= last => Accounted(n)

IssuedOK ==
    \A c \in commands :
        /\ c.occ <= Due(now)
        /\ task \in {"on", "off"} => c.occ <= last

SkippedOK == \A n \in skipped : n < Due(now)

\* An occurrence kept silent is behind the mark of an enabled task, and no run
\* holds it.
SilenceOK ==
    \A n \in silent :
        /\ n <= Due(now)
        /\ task = "on" => n <= last
        /\ \A c \in commands : c.occ # n
        /\ \A r \in Runners : InFlight(r) => claim[r].occ # n

IInv ==
    /\ RowOK /\ RunnerOK /\ SetsOK /\ CommandsOK /\ AbsentOK /\ TickOK
    /\ ClaimOK /\ FinishOK /\ MarkOK /\ IssuedOK /\ SkippedOK /\ SilenceOK

-----------------------------------------------------------------------------
(* Facts about single steps.                                               *)

\* What everyone but the runners does.
Outside ==
    \/ Advance \/ DeviceLeaves \/ DeviceReturns \/ Operator \/ LeaseLapses
    \/ \E s \in Selectors, p \in Places : CardMoves(s, p)
    \/ UNCHANGED vars

LEMMA StepKinds ==
    ASSUME [Next]_vars
    PROVE  \/ Outside
           \/ \E r \in Runners :
                \/ Tick(r) \/ ClaimDue(r) \/ SkipStale(r) \/ Prepare(r) \/ AskQuota(r)
                \/ Fire(r) \/ Mirror(r) \/ Finish(r) \/ Crash(r)
  BY DEF Next, Outside, RunStep

LEMMA OutsideFrame ==
    ASSUME Outside
    PROVE  /\ UNCHANGED <<pc, tick, claim, target, close>>
           /\ UNCHANGED <<commands, mirrored, skipped, limited, checked, faults>>
  BY DEF Outside, Operator, Advance, DeviceLeaves, DeviceReturns, LeaseLapses, CardMoves,
         Create, Delete, SetEnabled, SetSelector, Edited,
         vars, world, row, runner, outcome

\* The runners leave the clock, the switch and the operator's sets alone.
LEMMA RunnerFrame ==
    ASSUME NEW r \in Runners,
           \/ Tick(r) \/ ClaimDue(r) \/ SkipStale(r) \/ Prepare(r) \/ AskQuota(r)
           \/ Fire(r) \/ Mirror(r) \/ Finish(r) \/ Crash(r)
    PROVE  UNCHANGED <<now, live, where, edits, task, action, selector, passed, silent>>
  BY DEF Tick, ClaimDue, SkipStale, Prepare, AskQuota, Fire, Mirror, Finish, Crash,
         world, row, outcome

\* The clock never runs back, and the current occurrence with it.
LEMMA ClockStep ==
    ASSUME IInv, [Next]_vars
    PROVE  /\ now' \in Times /\ now <= now'
           /\ Due(now) \in Int /\ Due(now') \in Int /\ Due(now) <= Due(now')
  <1>1. now \in Nat /\ MaxTime \in Nat
    BY SchedulerAssumption DEF IInv, RowOK, Times
  <1>2. now' = now \/ (now' = now + 1 /\ now < MaxTime)
    <2>1. CASE Outside
      BY <2>1 DEF Outside, Operator, Advance, DeviceLeaves, DeviceReturns, LeaseLapses,
             CardMoves, Create, Delete, SetEnabled, SetSelector, vars, world
    <2>2. CASE ~Outside
      BY <2>2, StepKinds, RunnerFrame
    <2> QED
      BY <2>1, <2>2
  <1>3. now' \in Times /\ now <= now' /\ now \in Int /\ now' \in Int
    BY <1>1, <1>2, SMT DEF Times, IInv, RowOK
  <1> QED
    BY <1>3, DueMonotone

\* How the switch and the mark of the task change outside the runners.
Created ==
    /\ task = "absent" /\ task' \in {"on", "off"} /\ now' = now
    /\ last' = Greatest(0, Due(now)) /\ passed' = 1 .. last' /\ silent' = silent

SwitchedOn ==
    /\ task = "off" /\ task' = "on" /\ now' = now
    /\ last' = Greatest(last, Due(now))
    /\ passed' = passed \union ((last + 1) .. last') /\ silent' = silent

MarkStays ==
    /\ last' = last /\ \A n \in passed : n \in passed'
    /\ \A n \in passed' : n \in passed \/ n \in Nat
    /\ task' = "absent" <=> task = "absent"
    /\ task' \in {"on", "off"} => task \in {"on", "off"}
    /\ task' = "on" => task = "on"

LEMMA OutsideMark ==
    ASSUME IInv, Outside
    PROVE  Created \/ SwitchedOn \/ MarkStays
  <1>1. CASE Create
    BY <1>1 DEF Create, Created, world
  <1>2. ASSUME NEW on \in BOOLEAN, SetEnabled(on)
        PROVE  SwitchedOn \/ MarkStays
    <2>1. CASE on /\ task = "off"
      BY <1>2, <2>1 DEF SetEnabled, SwitchedOn
    <2>2. CASE ~(on /\ task = "off")
      <3>1. last' = last /\ task \in {"on", "off"} /\ task' \in {"on", "off"}
        BY <1>2, <2>2 DEF SetEnabled
      <3>2. task' = "on" => task = "on"
        BY <1>2, <2>2 DEF SetEnabled
      <3>3. passed' = passed \union ((last + 1) .. last)
        BY <1>2, <2>2, <3>1 DEF SetEnabled
      <3>4. \A n \in (last + 1) .. last : n \in Nat
        BY DEF IInv, RowOK
      <3> QED
        BY <3>1, <3>2, <3>3, <3>4 DEF MarkStays
    <2> QED
      BY <2>1, <2>2
  <1>3. CASE Advance \/ DeviceLeaves \/ DeviceReturns \/ LeaseLapses \/ UNCHANGED vars
    BY <1>3 DEF Advance, DeviceLeaves, DeviceReturns, LeaseLapses, vars, row, MarkStays
  <1>4. CASE \E s \in Selectors, p \in Places : CardMoves(s, p)
    BY <1>4 DEF CardMoves, row, MarkStays
  <1>5. CASE Delete \/ \E s \in Selectors : SetSelector(s)
    BY <1>5 DEF Delete, SetSelector, MarkStays
  <1> QED
    BY <1>1, <1>2, <1>3, <1>4, <1>5 DEF Outside, Operator

\* How a step of a runner moves the mark: it fires, or finishes, or leaves it.
LEMMA RunnerMark ==
    ASSUME NEW r \in Runners,
           \/ Tick(r) \/ ClaimDue(r) \/ SkipStale(r) \/ Prepare(r) \/ AskQuota(r)
           \/ Fire(r) \/ Mirror(r) \/ Finish(r) \/ Crash(r)
    PROVE  \/ last' = last
           \/ task \in {"on", "off"} /\ Fire(r) /\ Enqueue(r) /\ last' = Greatest(last, claim[r].occ)
           \/ task \in {"on", "off"} /\ Finish(r) /\ last' = Greatest(last, close[r])
  <1>1. CASE Fire(r)
    BY <1>1 DEF Fire, FireIssues, FireConflicts, FireFails, Enqueue, FinishTask
  <1>2. CASE Finish(r)
    BY <1>2 DEF Finish, FinishTask
  <1>3. CASE Tick(r) \/ ClaimDue(r) \/ SkipStale(r) \/ Prepare(r) \/ AskQuota(r)
             \/ Mirror(r) \/ Crash(r)
    BY <1>3 DEF Tick, ClaimDue, SkipStale, Prepare, AskQuota, Mirror, Crash, row
  <1> QED
    BY <1>1, <1>2, <1>3

\* What is newly kept silent is an occurrence no run can have reached.
LEMMA OutsideSilence ==
    ASSUME IInv, [Next]_vars, Outside, NEW n \in silent', n \notin silent
    PROVE  /\ n \in Nat /\ Due(now) < n /\ n = Due(now') /\ task = "off" /\ task' = "off"
  <1>1. Advance
    BY DEF Outside, Operator, DeviceLeaves, DeviceReturns, LeaseLapses, CardMoves,
           Create, Delete, SetEnabled, SetSelector, vars
  <1>2. now' = now + 1 /\ n = Due(now + 1) /\ Due(now + 1) >= 1 /\ task = "off" /\ task' = task
        /\ InstantOf(Due(now + 1)) = now + 1
    BY <1>1 DEF Advance, row
  <1>3. now \in Int /\ now + 1 \in Int
    BY SchedulerAssumption DEF IInv, RowOK, Times
  <1>4. Due(now) < Due(now + 1) /\ Due(now + 1) \in Int
    BY <1>2, <1>3, DueAtInstant, DueMonotone
  <1> QED
    BY <1>2, <1>4

\* What is accounted for stays so once the task exists.
LEMMA AccountsGrow ==
    ASSUME IInv, [Next]_vars, task # "absent", NEW n, Accounted(n)
    PROVE  Accounted(n)'
  <1>1. /\ \A c \in commands : c \in commands'
        /\ \A k \in skipped : k \in skipped'
        /\ \A k \in limited : k \in limited'
        /\ \A k \in checked : k \in checked'
        /\ \A k \in passed : k \in passed'
    <2>1. CASE Outside
      <3>1. \A k \in passed : k \in passed'
        BY <2>1, OutsideMark DEF Created, SwitchedOn, MarkStays
      <3> QED
        BY <2>1, <3>1, OutsideFrame
    <2>2. ASSUME NEW r \in Runners,
                 \/ Tick(r) \/ ClaimDue(r) \/ SkipStale(r) \/ Prepare(r) \/ AskQuota(r)
                 \/ Fire(r) \/ Mirror(r) \/ Finish(r) \/ Crash(r)
          PROVE  <1>1!1 /\ <1>1!2 /\ <1>1!3 /\ <1>1!4 /\ <1>1!5
      BY <2>2 DEF Tick, ClaimDue, SkipStale, Prepare, AskQuota, Fire, FireIssues, FireConflicts,
             FireFails, Enqueue, Mirror, Finish, Crash, outcome
    <2> QED
      BY <2>1, <2>2, StepKinds
  <1> QED
    BY <1>1 DEF Accounted

-----------------------------------------------------------------------------
(* Every part of the invariant is preserved.                               *)

LEMMA RowStep ==
    ASSUME IInv, [Next]_vars
    PROVE  RowOK'
  <1> USE DEF IInv, RowOK, RunnerOK
  <1>1. now' \in Times
    BY ClockStep
  <1>2. CASE Outside
    <2>1. Due(now) \in Int
      BY ClockStep
    <2>2. /\ live' \in {"yes", "no"} /\ edits' \in Nat
          /\ task' \in {"absent", "on", "off", "deleted"} /\ action' \in Actions
          /\ selector' \in Selectors /\ lease' \in {"free", "held", "lapsed"}
      BY <1>2 DEF Outside, Operator, Advance, DeviceLeaves, DeviceReturns, LeaseLapses, CardMoves,
             Create, Delete, SetEnabled, SetSelector, Edited, vars, world, row
    <2>3. last' \in Nat
      <3>1. Greatest(0, Due(now)) \in Nat
        BY <2>1, GreatestIsGreatest
      <3>2. Greatest(last, Due(now)) \in Nat
        BY <2>1, GreatestIsGreatest
      <3> QED
        BY <1>2, <3>1, <3>2, OutsideMark DEF Created, SwitchedOn, MarkStays
    <2>4. where' \in [Selectors -> Places]
      BY <1>2 DEF Outside, Operator, Advance, DeviceLeaves, DeviceReturns, LeaseLapses, CardMoves,
             Create, Delete, SetEnabled, SetSelector, vars, world
    <2> QED
      BY <1>1, <1>2, <2>2, <2>3, <2>4, OutsideFrame
  <1>3. ASSUME NEW r \in Runners,
               \/ Tick(r) \/ ClaimDue(r) \/ SkipStale(r) \/ Prepare(r) \/ AskQuota(r)
               \/ Fire(r) \/ Mirror(r) \/ Finish(r) \/ Crash(r)
        PROVE  RowOK'
    <2>1. UNCHANGED <<now, live, where, edits, task, action, selector>>
      BY <1>3, RunnerFrame
    <2>2. faults' \in Nat
      BY <1>3 DEF Tick, ClaimDue, SkipStale, Prepare, AskQuota, Fire, Mirror, Finish, Crash
    <2>3. claim[r].occ \in Nat /\ close[r] \in Nat
      OBVIOUS
    <2>4. last' \in Nat
      <3>1. Greatest(last, claim[r].occ) \in Nat
        BY <2>3, GreatestIsGreatest
      <3>2. Greatest(last, close[r]) \in Nat
        BY <2>3, GreatestIsGreatest
      <3> QED
        BY <1>3, <3>1, <3>2, RunnerMark
    <2>5. lease' \in {"free", "held", "lapsed"}
      BY <1>3 DEF Tick, ClaimDue, SkipStale, Prepare, AskQuota, Fire, FireIssues, FireConflicts,
             FireFails, Enqueue, FinishTask, Mirror, Finish, Crash, row
    <2> QED
      BY <2>1, <2>2, <2>4, <2>5
  <1> QED
    BY <1>2, <1>3, StepKinds

LEMMA RunnerStep ==
    ASSUME IInv, [Next]_vars
    PROVE  RunnerOK'
  <1> USE DEF IInv, RowOK, RunnerOK, Goto
  <1>1. CASE Outside
    BY <1>1, OutsideFrame
  <1>2. ASSUME NEW r \in Runners, Tick(r)
        PROVE  RunnerOK'
    BY <1>2 DEF Tick
  <1>3. ASSUME NEW r \in Runners, ClaimDue(r)
        PROVE  RunnerOK'
    <2>1. tick[r] \in Int /\ Due(tick[r]) \in Int
      BY DueMonotone, SchedulerAssumption DEF Times
    <2>2. CASE Claimable(tick[r])
      <3>1. [occ |-> last + 1, due |-> Due(tick[r]), sel |-> selector]
              \in [occ : Nat, due : Nat, sel : Selectors \union {NoPlace}]
        BY <2>1, <2>2 DEF Claimable
      <3> QED
        BY <1>3, <2>2, <3>1 DEF ClaimDue
    <2>3. CASE ~Claimable(tick[r])
      BY <1>3, <2>3 DEF ClaimDue
    <2> QED
      BY <2>2, <2>3
  <1>4. ASSUME NEW r \in Runners, SkipStale(r)
        PROVE  RunnerOK'
    <2>1. ResumeBeforeDue(r) \in Nat
      BY <1>4 DEF SkipStale, ResumeBeforeDue, ClaimOK, InFlight
    <2> QED
      BY <1>4, <2>1 DEF SkipStale, Complete
  <1>5. ASSUME NEW r \in Runners, Prepare(r)
        PROVE  RunnerOK'
    <2>1. where[claim[r].sel] \in Places
      BY <1>5 DEF Prepare, ClaimOK, InFlight
    <2>2. target' \in [Runners -> Places \union {NoPlace}]
      BY <1>5, <2>1 DEF Prepare
    <2>3. close' \in [Runners -> Nat]
      BY <1>5 DEF Prepare, PrepareFailed, Complete
    <2>4. pc' \in [Runners -> {"idle", "claim", "run", "quota", "fire", "mirror", "finish"}]
      BY <1>5 DEF Prepare, PrepareFailed, Complete
    <2>5. UNCHANGED <<tick, claim>>
      BY <1>5 DEF Prepare
    <2> QED
      BY <2>2, <2>3, <2>4, <2>5
  <1>6. ASSUME NEW r \in Runners, AskQuota(r)
        PROVE  RunnerOK'
    BY <1>6 DEF AskQuota, Complete
  <1>7. ASSUME NEW r \in Runners, Fire(r)
        PROVE  RunnerOK'
    BY <1>7 DEF Fire, FireIssues, FireConflicts, FireFails, Complete
  <1>8. ASSUME NEW r \in Runners, RunOver(r)
        PROVE  RunnerOK'
    <2>1. NoClaim \in [occ : Nat, due : Nat, sel : Selectors \union {NoPlace}] /\ 0 \in Times
      BY SchedulerAssumption DEF NoClaim, Times
    <2> QED
      BY <1>8, <2>1 DEF RunOver
  <1>9. ASSUME NEW r \in Runners, Mirror(r) \/ Finish(r) \/ Crash(r)
        PROVE  RunOver(r)
    BY <1>9 DEF Mirror, Finish, Crash
  <1> QED
    BY <1>1, <1>2, <1>3, <1>4, <1>5, <1>6, <1>7, <1>8, <1>9, StepKinds

LEMMA SetsStep ==
    ASSUME IInv, [Next]_vars
    PROVE  SetsOK'
  <1> USE DEF IInv, RowOK, RunnerOK, SetsOK
  <1>1. CASE Outside
    <2>1. \A n \in passed' : n \in Nat
      <3>1. last' \in Nat
        BY RowStep DEF RowOK
      <3> QED
        BY <1>1, <3>1, OutsideMark DEF Created, SwitchedOn, MarkStays
    <2>2. \A n \in silent' : n \in Nat
      BY <1>1, OutsideSilence
    <2> QED
      BY <1>1, <2>1, <2>2, OutsideFrame
  <1>2. ASSUME NEW r \in Runners, SkipStale(r)
        PROVE  \A n \in skipped' : n \in Nat
    BY <1>2 DEF SkipStale, ResumeBeforeDue
  <1>3. ASSUME NEW r \in Runners,
               \/ Tick(r) \/ ClaimDue(r) \/ SkipStale(r) \/ Prepare(r) \/ AskQuota(r)
               \/ Fire(r) \/ Mirror(r) \/ Finish(r) \/ Crash(r)
        PROVE  SetsOK'
    <2>1. UNCHANGED <<passed, silent>>
      BY <1>3, RunnerFrame
    <2>2. \A n \in skipped' : n \in Nat
      BY <1>2, <1>3 DEF Tick, ClaimDue, Prepare, AskQuota, Fire, Mirror, Finish, Crash, outcome
    <2>3. claim[r].occ \in Nat
      OBVIOUS
    <2>4. /\ \A n \in mirrored' : n \in Nat
          /\ \A n \in limited' : n \in Nat
          /\ \A n \in checked' : n \in Nat
      BY <1>3, <2>3 DEF Tick, ClaimDue, SkipStale, Prepare, AskQuota, Fire, Mirror, Finish,
             Crash, outcome
    <2> QED
      BY <2>1, <2>2, <2>4
  <1> QED
    BY <1>1, <1>3, StepKinds

\* The conflict test of app.enqueue_command keeps keys unique.
LEMMA CommandsStep ==
    ASSUME IInv, [Next]_vars
    PROVE  CommandsOK'
  <1> USE DEF IInv, RunnerOK, CommandsOK
  <1>1. ASSUME NEW r \in Runners, Enqueue(r)
        PROVE  CommandsOK'
    <2>1. Command(r).occ \in Nat /\ Command(r).key = <<Command(r).occ>>
          /\ Command(r).key = IdempotencyKey(r)
      BY DEF Command, IdempotencyKey
    <2> QED
      BY <1>1, <2>1 DEF Enqueue
  <1>2. CASE UNCHANGED commands
    BY <1>2
  <1>3. CASE Outside
    BY <1>2, <1>3, OutsideFrame
  <1>4. ASSUME NEW r \in Runners, Fire(r)
        PROVE  Enqueue(r) \/ UNCHANGED commands
    BY <1>4 DEF Fire, FireIssues, FireConflicts, FireFails
  <1>5. ASSUME NEW r \in Runners,
               \/ Tick(r) \/ ClaimDue(r) \/ SkipStale(r) \/ Prepare(r) \/ AskQuota(r)
               \/ Mirror(r) \/ Finish(r) \/ Crash(r)
        PROVE  UNCHANGED commands
    BY <1>5 DEF Tick, ClaimDue, SkipStale, Prepare, AskQuota, Mirror, Finish, Crash
  <1> QED
    BY <1>1, <1>2, <1>3, <1>4, <1>5, StepKinds

LEMMA AbsentStep ==
    ASSUME IInv, [Next]_vars
    PROVE  AbsentOK'
  <1> SUFFICES ASSUME task' = "absent"
               PROVE  /\ last' = 0 /\ commands' = {} /\ silent' = {}
                      /\ \A r \in Runners : pc'[r] \in {"idle", "claim"}
    BY DEF AbsentOK
  <1>1. CASE Outside
    <2>1. MarkStays
      BY <1>1, OutsideMark DEF Created, SwitchedOn
    <2>2. task = "absent" /\ last' = last
      BY <2>1 DEF MarkStays
    <2>3. silent' = {}
      BY <1>1, <2>2, OutsideSilence DEF IInv, AbsentOK
    <2> QED
      BY <1>1, <2>2, <2>3, OutsideFrame DEF IInv, AbsentOK
  <1>2. ASSUME NEW r \in Runners,
               \/ Tick(r) \/ ClaimDue(r) \/ SkipStale(r) \/ Prepare(r) \/ AskQuota(r)
               \/ Fire(r) \/ Mirror(r) \/ Finish(r) \/ Crash(r)
        PROVE  /\ last' = 0 /\ commands' = {} /\ silent' = {}
               /\ \A q \in Runners : pc'[q] \in {"idle", "claim"}
    <2>1. task = "absent" /\ silent' = silent
      BY <1>2, RunnerFrame
    <2>2. last = 0 /\ commands = {} /\ silent = {} /\ \A q \in Runners : pc[q] \in {"idle", "claim"}
      BY <2>1 DEF IInv, AbsentOK
    <2>3. Tick(r) \/ ClaimDue(r) \/ Crash(r)
      BY <1>2, <2>2 DEF SkipStale, Prepare, AskQuota, Fire, Mirror, Finish
    <2>4. last' = last /\ commands' = commands
      BY <2>3 DEF Tick, ClaimDue, Crash, row
    <2>5. \A q \in Runners : pc'[q] \in {"idle", "claim"}
      BY <2>1, <2>2, <2>3 DEF Tick, ClaimDue, Claimable, Crash, RunOver, Goto, IInv, RunnerOK
    <2> QED
      BY <2>1, <2>2, <2>4, <2>5
  <1> QED
    BY <1>1, <1>2, StepKinds

LEMMA TickStep ==
    ASSUME IInv, [Next]_vars
    PROVE  TickOK'
  <1> SUFFICES ASSUME NEW q \in Runners
               PROVE  tick'[q] <= now'
    BY DEF TickOK
  <1>1. tick[q] \in Nat /\ tick[q] <= now /\ now \in Nat /\ now <= now' /\ now' \in Nat
    BY ClockStep, SchedulerAssumption DEF IInv, RowOK, RunnerOK, TickOK, Times
  <1>2. tick'[q] = tick[q] \/ tick'[q] = now \/ tick'[q] = 0
    <2>1. CASE Outside
      BY <2>1, OutsideFrame
    <2>2. ASSUME NEW r \in Runners,
                 \/ Tick(r) \/ ClaimDue(r) \/ SkipStale(r) \/ Prepare(r) \/ AskQuota(r)
                 \/ Fire(r) \/ Mirror(r) \/ Finish(r) \/ Crash(r)
          PROVE  tick'[q] = tick[q] \/ tick'[q] = now \/ tick'[q] = 0
      BY <2>2 DEF Tick, ClaimDue, SkipStale, Prepare, AskQuota, Fire, Mirror, Finish, Crash,
             RunOver, IInv, RunnerOK
    <2> QED
      BY <2>1, <2>2, StepKinds
  <1> QED
    BY <1>1, <1>2

\* A run enters flight by a claim only, and keeps its claim until it is over.
LEMMA FlightStep ==
    ASSUME IInv, [Next]_vars, NEW q \in Runners, InFlight(q)'
    PROVE  \/ InFlight(q) /\ claim'[q] = claim[q]
           \/ /\ ClaimDue(q) /\ Claimable(tick[q]) /\ UNCHANGED now
              /\ claim'[q] = [occ |-> last + 1, due |-> Due(tick[q]), sel |-> selector]
  <1> USE DEF IInv, RunnerOK, InFlight, Goto
  <1>1. CASE Outside
    BY <1>1, OutsideFrame
  <1>2. ASSUME NEW r \in Runners, ClaimDue(r)
        PROVE  \/ InFlight(q) /\ claim'[q] = claim[q]
               \/ /\ ClaimDue(q) /\ Claimable(tick[q]) /\ UNCHANGED now
                  /\ claim'[q] = [occ |-> last + 1, due |-> Due(tick[q]), sel |-> selector]
    <2>1. CASE r = q
      BY <1>2, <2>1 DEF ClaimDue, world
    <2>2. CASE r # q
      BY <1>2, <2>2 DEF ClaimDue
    <2> QED
      BY <2>1, <2>2
  <1>3. ASSUME NEW r \in Runners,
               Tick(r) \/ SkipStale(r) \/ Mirror(r) \/ Finish(r) \/ Crash(r)
        PROVE  InFlight(q) /\ claim'[q] = claim[q]
    BY <1>3 DEF Tick, SkipStale, Complete, Mirror, Finish, Crash, RunOver
  <1>4. ASSUME NEW r \in Runners, Prepare(r) \/ AskQuota(r) \/ Fire(r)
        PROVE  InFlight(q) /\ claim'[q] = claim[q]
    BY <1>4 DEF Prepare, PrepareFailed, AskQuota, Fire, FireIssues, FireConflicts, FireFails, Complete
  <1> QED
    BY <1>1, <1>2, <1>3, <1>4, StepKinds

LEMMA ClaimStep ==
    ASSUME IInv, [Next]_vars
    PROVE  ClaimOK'
  <1> SUFFICES ASSUME NEW q \in Runners, InFlight(q)'
               PROVE  /\ 1 <= claim'[q].occ /\ claim'[q].occ <= claim'[q].due
                      /\ claim'[q].due <= Due(now') /\ claim'[q].sel \in Selectors
                      /\ \A n \in Nat : 1 <= n /\ n < claim'[q].occ => Accounted(n)'
    BY DEF ClaimOK
  <1>1. Due(now) \in Int /\ Due(now') \in Int /\ Due(now) <= Due(now')
    BY ClockStep
  <1>2. CASE InFlight(q) /\ claim'[q] = claim[q]
    <2>1. task # "absent"
      BY <1>2 DEF IInv, AbsentOK, InFlight
    <2>2. claim[q].due \in Nat /\ claim[q].due <= Due(now)
      BY <1>2 DEF IInv, RunnerOK, ClaimOK
    <2> QED
      BY <1>1, <1>2, <2>1, <2>2, AccountsGrow DEF IInv, ClaimOK
  <1>3. CASE /\ ClaimDue(q) /\ Claimable(tick[q]) /\ UNCHANGED now
             /\ claim'[q] = [occ |-> last + 1, due |-> Due(tick[q]), sel |-> selector]
    <2>1. tick[q] \in Int /\ now \in Int /\ tick[q] <= now
      BY SchedulerAssumption DEF IInv, RowOK, RunnerOK, TickOK, Times
    <2>2. Due(tick[q]) \in Int /\ Due(tick[q]) <= Due(now)
      BY <2>1, DueMonotone
    <2>3. task = "on" /\ Due(tick[q]) > last /\ last \in Nat /\ selector \in Selectors
      BY <1>3 DEF Claimable, IInv, RowOK
    <2>4. \A n \in Nat : 1 <= n /\ n < last + 1 => Accounted(n)'
      BY <2>3, AccountsGrow DEF IInv, MarkOK
    <2> QED
      BY <1>3, <2>2, <2>3, <2>4
  <1> QED
    BY <1>2, <1>3, FlightStep

\* A run comes to its completion with something to show for what it closes.
LEMMA ClosingStep ==
    ASSUME IInv, [Next]_vars, NEW q \in Runners, pc'[q] = "finish"
    PROVE  \/ pc[q] = "finish" /\ close'[q] = close[q]
           \/ close'[q] = 0
           \/ InFlight(q) /\ close'[q] = claim[q].occ /\ \A k : k = claim[q].occ => Accounted(k)'
           \/ /\ InFlight(q) /\ close'[q] = claim[q].due - 1
              /\ \A n \in claim[q].occ .. (claim[q].due - 1) : n \in skipped'
  <1> DEFINE Goal == \/ pc[q] = "finish" /\ close'[q] = close[q]
                     \/ close'[q] = 0
                     \/ InFlight(q) /\ close'[q] = claim[q].occ /\ \A k : k = claim[q].occ => Accounted(k)'
                     \/ /\ InFlight(q) /\ close'[q] = claim[q].due - 1
                        /\ \A n \in claim[q].occ .. (claim[q].due - 1) : n \in skipped'
  <1> USE DEF IInv, RunnerOK, InFlight, Goto
  <1>1. CASE Outside
    BY <1>1, OutsideFrame
  <1>2. ASSUME NEW r \in Runners, Tick(r) \/ ClaimDue(r) \/ Mirror(r) \/ Finish(r) \/ Crash(r)
        PROVE  Goal
    BY <1>2 DEF Tick, ClaimDue, Mirror, Finish, Crash, RunOver
  <1>3. ASSUME NEW r \in Runners, SkipStale(r)
        PROVE  Goal
    BY <1>3 DEF SkipStale, Complete, ResumeBeforeDue
  <1>4. ASSUME NEW r \in Runners, Prepare(r)
        PROVE  Goal
    BY <1>4 DEF Prepare, PrepareFailed, Complete, Accounted
  <1>5. ASSUME NEW r \in Runners, AskQuota(r)
        PROVE  Goal
    BY <1>5 DEF AskQuota, Complete, Accounted
  <1>6. ASSUME NEW r \in Runners, Fire(r)
        PROVE  Goal
    <2>1. CASE FireIssues(r) \/ FireFails(r)
      BY <1>6, <2>1 DEF FireIssues, FireFails, Complete
    <2>2. CASE FireConflicts(r)
      <3>1. \E c \in commands' : c.occ = claim[r].occ
        BY <2>2 DEF FireConflicts, IdempotencyKey, CommandsOK
      <3> QED
        BY <1>6, <2>2, <3>1 DEF Fire, FireConflicts, Complete, Accounted
    <2> QED
      BY <1>6, <2>1, <2>2 DEF Fire
  <1> QED
    BY <1>1, <1>2, <1>3, <1>4, <1>5, <1>6, StepKinds

LEMMA FinishStep ==
    ASSUME IInv, [Next]_vars
    PROVE  FinishOK'
  <1> SUFFICES ASSUME NEW q \in Runners, pc'[q] = "finish",
                      NEW n \in Nat, 1 <= n, n <= close'[q]
               PROVE  Accounted(n)'
    BY DEF FinishOK
  <1>1. CASE pc[q] = "finish" /\ close'[q] = close[q]
    <2>1. task # "absent"
      BY <1>1 DEF IInv, AbsentOK
    <2> QED
      BY <1>1, <2>1, AccountsGrow DEF IInv, FinishOK
  <1>2. CASE close'[q] = 0
    BY <1>2
  <1>3. ASSUME InFlight(q), n < claim[q].occ
        PROVE  Accounted(n)'
    <2>1. task # "absent"
      BY <1>3 DEF IInv, AbsentOK, InFlight
    <2> QED
      BY <1>3, <2>1, AccountsGrow DEF IInv, ClaimOK
  <1>4. claim[q].occ \in Nat /\ claim[q].due \in Nat
    BY DEF IInv, RunnerOK
  <1>5. CASE InFlight(q) /\ close'[q] = claim[q].occ /\ \A k : k = claim[q].occ => Accounted(k)'
    <2>1. CASE n = claim[q].occ
      BY <1>5, <2>1
    <2>2. CASE n # claim[q].occ
      BY <1>3, <1>4, <1>5, <2>2
    <2> QED
      BY <2>1, <2>2
  <1>6. CASE /\ InFlight(q) /\ close'[q] = claim[q].due - 1
             /\ \A k \in claim[q].occ .. (claim[q].due - 1) : k \in skipped'
    <2>1. CASE n >= claim[q].occ
      BY <1>4, <1>6, <2>1 DEF Accounted
    <2>2. CASE ~(n >= claim[q].occ)
      BY <1>3, <1>4, <1>6, <2>2
    <2> QED
      BY <2>1, <2>2
  <1> QED
    BY <1>1, <1>2, <1>5, <1>6, ClosingStep

LEMMA MarkStep ==
    ASSUME IInv, [Next]_vars
    PROVE  MarkOK'
  <1> SUFFICES ASSUME NEW n \in Nat, 1 <= n, n <= last'
               PROVE  Accounted(n)'
    BY DEF MarkOK
  <1>1. last \in Nat /\ last' \in Nat
    BY RowStep DEF IInv, RowOK
  <1>2. CASE n <= last
    <2>1. task # "absent"
      BY <1>2 DEF IInv, AbsentOK
    <2> QED
      BY <1>2, <2>1, AccountsGrow DEF IInv, MarkOK
  <1>3. CASE ~(n <= last)
    <2>1. CASE Outside
      <3>1. n \in passed'
        BY <1>1, <1>3, <2>1, OutsideMark DEF Created, SwitchedOn, MarkStays
      <3> QED
        BY <3>1 DEF Accounted
    <2>2. ASSUME NEW r \in Runners,
                 \/ Tick(r) \/ ClaimDue(r) \/ SkipStale(r) \/ Prepare(r) \/ AskQuota(r)
                 \/ Fire(r) \/ Mirror(r) \/ Finish(r) \/ Crash(r)
          PROVE  Accounted(n)'
      <3>1. claim[r].occ \in Nat /\ close[r] \in Nat
        BY DEF IInv, RunnerOK
      <3>2. CASE /\ task \in {"on", "off"} /\ Fire(r) /\ Enqueue(r)
                 /\ last' = Greatest(last, claim[r].occ)
        <4>1. last' = claim[r].occ
          BY <1>1, <1>3, <3>1, <3>2, GreatestIsGreatest
        <4>2. CASE n = claim[r].occ
          <5>1. Command(r) \in commands' /\ Command(r).occ = n
            BY <3>2, <4>2 DEF Enqueue, Command
          <5> QED
            BY <5>1 DEF Accounted
        <4>3. CASE n # claim[r].occ
          <5>1. Accounted(n)
            BY <3>1, <3>2, <4>1, <4>3 DEF IInv, ClaimOK, InFlight, Fire
          <5> QED
            BY <3>2, <5>1, AccountsGrow
        <4> QED
          BY <4>2, <4>3
      <3>3. CASE task \in {"on", "off"} /\ Finish(r) /\ last' = Greatest(last, close[r])
        <4>1. last' = close[r]
          BY <1>1, <1>3, <3>1, <3>3, GreatestIsGreatest
        <4>2. Accounted(n)
          BY <3>3, <4>1 DEF IInv, FinishOK, Finish
        <4> QED
          BY <3>3, <4>2, AccountsGrow
      <3> QED
        BY <1>3, <2>2, <3>2, <3>3, RunnerMark
    <2> QED
      BY <2>1, <2>2, StepKinds
  <1> QED
    BY <1>2, <1>3

\* The mark never moves back: finish_scheduled_task takes the greater one.
LEMMA MarkGrows ==
    ASSUME IInv, [Next]_vars
    PROVE  last' >= last
  <1>1. last \in Nat /\ Due(now) \in Int
    BY ClockStep DEF IInv, RowOK
  <1>2. CASE Outside
    <2>1. CASE Created
      BY <1>1, <2>1, GreatestIsGreatest DEF Created, IInv, AbsentOK
    <2>2. CASE SwitchedOn
      BY <1>1, <2>2, GreatestIsGreatest DEF SwitchedOn
    <2>3. CASE MarkStays
      BY <1>1, <2>3 DEF MarkStays
    <2> QED
      BY <1>2, <2>1, <2>2, <2>3, OutsideMark
  <1>3. ASSUME NEW r \in Runners,
               \/ Tick(r) \/ ClaimDue(r) \/ SkipStale(r) \/ Prepare(r) \/ AskQuota(r)
               \/ Fire(r) \/ Mirror(r) \/ Finish(r) \/ Crash(r)
        PROVE  last' >= last
    <2>1. claim[r].occ \in Nat /\ close[r] \in Nat
      BY DEF IInv, RunnerOK
    <2> QED
      BY <1>1, <1>3, <2>1, RunnerMark, GreatestIsGreatest
  <1> QED
    BY <1>2, <1>3, StepKinds

\* A command exists for nothing the clock has not reached, nor for anything the
\* task has not advanced past.
LEMMA IssuedStep ==
    ASSUME IInv, [Next]_vars
    PROVE  IssuedOK'
  <1> SUFFICES ASSUME NEW c \in commands'
               PROVE  /\ c.occ <= Due(now')
                      /\ task' \in {"on", "off"} => c.occ <= last'
    BY DEF IssuedOK
  <1>1. /\ Due(now) \in Int /\ Due(now') \in Int /\ Due(now) <= Due(now')
        /\ last \in Nat /\ last' \in Nat /\ last <= last'
    BY ClockStep, RowStep, MarkGrows DEF IInv, RowOK
  <1>2. task' \in {"on", "off"} => task \in {"on", "off", "absent"}
    <2>1. CASE Outside
      BY <2>1, OutsideMark DEF Created, SwitchedOn, MarkStays
    <2>2. CASE ~Outside
      BY <2>2, StepKinds, RunnerFrame
    <2> QED
      BY <2>1, <2>2
  <1>3. CASE c \in commands
    <2>1. c.occ \in Nat /\ task # "absent"
      BY <1>3 DEF IInv, CommandsOK, AbsentOK
    <2> QED
      BY <1>1, <1>2, <1>3, <2>1 DEF IInv, IssuedOK
  <1>4. CASE c \notin commands
    <2>1. PICK r \in Runners : Fire(r) /\ Enqueue(r)
      <3>1. ~Outside
        BY <1>4, OutsideFrame
      <3> QED
        BY <1>4, <3>1, StepKinds
        DEF Tick, ClaimDue, SkipStale, Prepare, AskQuota, Fire, FireIssues, FireConflicts,
            FireFails, Mirror, Finish, Crash
    <2>2. c = Command(r) /\ c.occ = claim[r].occ
      BY <1>4, <2>1 DEF Enqueue, Command
    <2>3. claim[r].occ \in Nat /\ claim[r].due \in Nat
          /\ claim[r].occ <= claim[r].due /\ claim[r].due <= Due(now)
      BY <2>1 DEF IInv, RunnerOK, ClaimOK, InFlight, Fire
    <2>4. task \in {"on", "off"} => last' = Greatest(last, claim[r].occ)
      BY <2>1 DEF Enqueue, FinishTask
    <2>5. task' = task
      BY <2>1, RunnerFrame
    <2> QED
      BY <1>1, <2>2, <2>3, <2>4, <2>5, GreatestIsGreatest
  <1> QED
    BY <1>3, <1>4

LEMMA SkippedStep ==
    ASSUME IInv, [Next]_vars
    PROVE  SkippedOK'
  <1> SUFFICES ASSUME NEW n \in skipped'
               PROVE  n < Due(now')
    BY DEF SkippedOK
  <1>1. Due(now) \in Int /\ Due(now') \in Int /\ Due(now) <= Due(now')
    BY ClockStep
  <1>2. CASE n \in skipped
    BY <1>1, <1>2 DEF IInv, SetsOK, SkippedOK
  <1>3. CASE n \notin skipped
    <2>1. PICK r \in Runners : SkipStale(r)
      <3>1. ~Outside
        BY <1>3, OutsideFrame
      <3> QED
        BY <1>3, <3>1, StepKinds
        DEF Tick, ClaimDue, Prepare, AskQuota, Fire, Mirror, Finish, Crash, outcome
    <2>2. claim[r].due \in Nat /\ claim[r].occ \in Nat /\ claim[r].due <= Due(now)
      BY <2>1 DEF IInv, RunnerOK, ClaimOK, InFlight, SkipStale
    <2>3. n \in claim[r].occ .. (claim[r].due - 1)
      BY <1>3, <2>1 DEF SkipStale, ResumeBeforeDue
    <2> QED
      BY <1>1, <2>2, <2>3
  <1> QED
    BY <1>2, <1>3

\* A run that holds an occurrence claimed it while the task was on, and what is
\* kept silent later lies beyond it.
LEMMA SilenceStep ==
    ASSUME IInv, [Next]_vars
    PROVE  SilenceOK'
  <1> SUFFICES ASSUME NEW n \in silent'
               PROVE  /\ n <= Due(now')
                      /\ task' = "on" => n <= last'
                      /\ \A c \in commands' : c.occ # n
                      /\ \A q \in Runners : InFlight(q)' => claim'[q].occ # n
    BY DEF SilenceOK
  <1>1. /\ Due(now) \in Int /\ Due(now') \in Int /\ Due(now) <= Due(now')
        /\ last \in Nat /\ last' \in Nat /\ last <= last' /\ n \in Nat
    BY ClockStep, RowStep, MarkGrows, SetsStep DEF IInv, RowOK, SetsOK
  <1>2. CASE n \notin silent
    <2>1. Outside
      BY <1>2, StepKinds, RunnerFrame
    <2>2. Due(now) < n /\ n = Due(now') /\ task' = "off"
      BY <1>2, <2>1, OutsideSilence
    <2>3. \A c \in commands : c.occ \in Nat /\ c.occ <= Due(now)
      BY DEF IInv, CommandsOK, IssuedOK
    <2>4. \A q \in Runners : InFlight(q) =>
              claim[q].occ \in Nat /\ claim[q].due \in Nat
              /\ claim[q].occ <= claim[q].due /\ claim[q].due <= Due(now)
      BY DEF IInv, RunnerOK, ClaimOK
    <2>5. UNCHANGED <<pc, claim, commands>>
      BY <2>1, OutsideFrame
    <2>6. \A c \in commands' : c.occ # n
      BY <1>1, <2>2, <2>3, <2>5
    <2>7. \A q \in Runners : InFlight(q)' => claim'[q].occ # n
      BY <1>1, <2>2, <2>4, <2>5 DEF InFlight
    <2> QED
      BY <1>1, <2>2, <2>6, <2>7
  <1>3. CASE n \in silent
    <2>1. n <= Due(now')
      BY <1>1, <1>3 DEF IInv, SilenceOK
    <2>2. task' = "on" => n <= last'
      <3>1. CASE Outside
        <4>1. CASE Created
          BY <1>3, <4>1 DEF Created, IInv, AbsentOK
        <4>2. CASE SwitchedOn
          <5>1. last' >= Due(now)
            BY <1>1, <4>2, GreatestIsGreatest DEF SwitchedOn
          <5> QED
            BY <1>1, <1>3, <5>1 DEF IInv, SilenceOK
        <4>3. CASE MarkStays
          BY <1>3, <4>3 DEF MarkStays, IInv, SilenceOK
        <4> QED
          BY <3>1, <4>1, <4>2, <4>3, OutsideMark
      <3>2. CASE ~Outside
        <4>1. task' = task
          BY <3>2, StepKinds, RunnerFrame
        <4> QED
          BY <1>1, <1>3, <4>1 DEF IInv, SilenceOK
      <3> QED
        BY <3>1, <3>2
    <2>3. ASSUME NEW c \in commands'
          PROVE  c.occ # n
      <3>1. CASE c \in commands
        BY <1>3, <3>1 DEF IInv, SilenceOK
      <3>2. CASE c \notin commands
        <4>1. PICK r \in Runners : Fire(r) /\ Enqueue(r)
          <5>1. ~Outside
            BY <3>2, OutsideFrame
          <5> QED
            BY <3>2, <5>1, StepKinds
            DEF Tick, ClaimDue, SkipStale, Prepare, AskQuota, Fire, FireIssues, FireConflicts,
                FireFails, Mirror, Finish, Crash
        <4>2. c.occ = claim[r].occ /\ InFlight(r)
          BY <3>2, <4>1 DEF Fire, Enqueue, Command, InFlight
        <4> QED
          BY <1>3, <4>2 DEF IInv, SilenceOK
      <3> QED
        BY <3>1, <3>2
    <2>4. ASSUME NEW q \in Runners, InFlight(q)'
          PROVE  claim'[q].occ # n
      <3>1. CASE InFlight(q) /\ claim'[q] = claim[q]
        BY <1>3, <3>1 DEF IInv, SilenceOK
      <3>2. CASE /\ ClaimDue(q) /\ Claimable(tick[q]) /\ UNCHANGED now
                 /\ claim'[q] = [occ |-> last + 1, due |-> Due(tick[q]), sel |-> selector]
        <4>1. n <= last
          BY <1>3, <3>2 DEF Claimable, IInv, SilenceOK
        <4> QED
          BY <1>1, <3>2, <4>1
      <3> QED
        BY <2>4, <3>1, <3>2, FlightStep
    <2> QED
      BY <2>1, <2>2, <2>3, <2>4
  <1> QED
    BY <1>2, <1>3

-----------------------------------------------------------------------------
(* The theorems.                                                           *)

LEMMA InitIInv == Init => IInv
  <1> SUFFICES ASSUME Init
               PROVE  IInv
    OBVIOUS
  <1>1. /\ NoClaim \in [occ : Nat, due : Nat, sel : Selectors \union {NoPlace}]
        /\ 0 \in Times /\ Start \in Times /\ Start \in Int
    BY SchedulerAssumption DEF NoClaim, Times
  <1>2. RowOK
    BY <1>1 DEF Init, RowOK
  <1>3. RunnerOK
    BY <1>1 DEF Init, RunnerOK
  <1>4. CommandsOK /\ IssuedOK /\ SkippedOK
    BY DEF Init, CommandsOK, IssuedOK, SkippedOK
  <1>5. AbsentOK /\ ClaimOK /\ FinishOK
    BY DEF Init, AbsentOK, ClaimOK, InFlight, FinishOK
  <1>6. MarkOK
    BY DEF Init, MarkOK
  <1>7. TickOK
    BY SchedulerAssumption DEF Init, TickOK
  <1>8. Due(Start) \in Int
    BY <1>1, DueMonotone
  <1>9. /\ \A n \in silent : n \in Nat /\ n <= Due(Start)
        /\ task = "on" => silent = {}
    BY <1>8 DEF Init
  <1>10. SetsOK
    BY <1>9 DEF Init, SetsOK
  <1>11. SilenceOK
    BY <1>9 DEF Init, SilenceOK, InFlight
  <1> QED
    BY <1>2, <1>3, <1>4, <1>5, <1>6, <1>7, <1>10, <1>11 DEF IInv

LEMMA NextIInv == IInv /\ [Next]_vars => IInv'
  <1> SUFFICES ASSUME IInv, [Next]_vars
               PROVE  IInv'
    OBVIOUS
  <1> QED
    BY RowStep, RunnerStep, SetsStep, CommandsStep, AbsentStep, TickStep, ClaimStep, FinishStep,
       MarkStep, IssuedStep, SkippedStep, SilenceStep DEF IInv

\* The strengthening all the properties below rest on.
THEOREM SchedulerInvariant == Spec => []IInv
  BY InitIInv, NextIInv, PTL DEF Spec

\* Type correctness of the task row, the runs and the records they leave.
THEOREM SchedulerTypes == Spec => []TypeOK
  <1>1. IInv => TypeOK
    BY DEF IInv, RowOK, RunnerOK, SetsOK, CommandsOK, TypeOK, Issued
  <1> QED
    BY <1>1, SchedulerInvariant, PTL

\* However many gateways tick and whatever lapses, fails or is edited between
\* two attempts, app.enqueue_command under IdempotencyKey gives an occurrence
\* at most one command.
THEOREM NoDoubleSend == Spec => []OneCommandPerOccurrence
  <1>1. IInv => OneCommandPerOccurrence
    BY DEF IInv, CommandsOK, OneCommandPerOccurrence
  <1> QED
    BY <1>1, SchedulerInvariant, PTL

\* SQL.Fire: the mark of an existing task covers every command issued for it.
THEOREM MarkAgreesWithCommands == Spec => []MarkCoversIssued
  <1>1. IInv => MarkCoversIssued
    BY DEF IInv, IssuedOK, MarkCoversIssued, Issued
  <1> QED
    BY <1>1, SchedulerInvariant, PTL

\* No occurrence below the mark was dropped without a trace, and Runner.run skips
\* only what a newer occurrence has replaced.
THEOREM NothingDropped == Spec => []EveryOccurrenceAccounted
  <1>1. IInv => SkippedWereReplaced
    BY DEF IInv, SkippedOK, SkippedWereReplaced
  <1>2. IInv => EveryOccurrenceAccounted
    BY <1>1 DEF IInv, RowOK, MarkOK, Accounted, EveryOccurrenceAccounted, Issued
  <1> QED
    BY <1>2, SchedulerInvariant, PTL

\* SQL.Update: what came due while the task was off is never sent.
THEOREM SilenceIsKept == Spec => []SilenceKept
  <1>1. IInv => SilenceKept
    BY DEF IInv, SilenceOK, SilenceKept, Issued
  <1> QED
    BY <1>1, SchedulerInvariant, PTL

\* finish_scheduled_task never winds the mark back.
THEOREM MarkMonotone == Spec => MarkNeverBack
  <1>1. IInv /\ [Next]_vars => [last' >= last]_vars
    BY MarkGrows
  <1> QED
    BY <1>1, SchedulerInvariant, PTL DEF Spec, MarkNeverBack
=============================================================================
