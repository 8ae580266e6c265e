# TLA+ models of vodoge-cloud

Vodoge Cloud manages fleets of edge boxes full of cellular modems. A box dials
out over WSS, replays a durable, sequenced outbox, and takes commands; the
gateway (Go, `apps/gateway`) stores what it is sent in PostgreSQL
(`packages/db/migrations`), and a Next.js console (`apps/console`) reads and
commands. This directory models the parts of both where processes, transactions,
requests and failures interleave, checks them with TLC on small instances, and
proves the central results with TLAPS for every size.

Files: `<Component>.tla` is a model, `<Component>_proofs.tla` its theorems,
`MC<Component>.tla` and its `.cfg` files the instances TLC checks,
`PROJECT.json` the index: components, runs, mutants, the map from definitions
to source lines, findings, hazards and theorems.

## 1. Inventory

| component | state | operations | talks to | hard behaviour | what makes it correct |
|---|---|---|---|---|---|
| session hub (`internal/session/hub.go`) | `byDevice`, `byID` | Bind, Touch, Unbind, SweepIdle | every session goroutine, the reaper, the console's live list | a superseded session cleans up after the new one bound | the maps agree; a live session stays bound |
| device session (`internal/wss/serve.go`) | the goroutine's position and locals | Resume, uplink frames, acknowledgements, receipts, results, delivery | hub, journal, commands, messaging, notify | several goroutines of one device at once; process death between two calls | acknowledgements only claim what is stored; results are applied |
| ingress journal, SQL (`internal/ingress/sql.go`, migrations 0001, 0031, 0040, 0066) | `app.ingress`, `app.ingress_pruned` | accept, record_unstorable, window, prune | sessions, retention loop | retention runs statement by statement beside inserts | the committed prefix never collapses; nothing acknowledged is lost |
| ingress journal, memory (`internal/ingress/journal.go`) | `bySeq`, `committed` | the same, without retention | a gateway with no database | agreement with the SQL one | same windows |
| commands (`internal/commands`) | `app.commands`, `command_outbox`, `command_receipts` | enqueue, pending, receipt, result, expire, card-policy redelivery | console, sessions, scheduler | late answers against expiry | a verdict stands, an answer is kept |
| messaging (`internal/messaging`) | `app.messages`, threads | record, settle, deliver report | console, sessions, expiry | three writers of one status | the conversation never lies about a send |
| scheduler (`internal/schedule`, 0038) | `app.scheduled_tasks` | claim, fire, finish, skip, create, edit, re-enable, delete | commands, quota, sessions | leases that lapse under a slow worker, several gateways | one command per occurrence, no skipped or repeated occurrence |
| presence (`cmd/gateway/main.go`) | live set, tenant stamps, absences | Seen, Left, Report, Tenants, RecentTenants | hub, scheduler, notify | flapping around the grace period; a late Unbind | a dead device is announced, one that was there is not; a connected tenant is swept |
| card policies (`internal/cards`, `internal/commands`, `cmd/gateway/card_routes.go`) | `app.card_policies`, the pushes in `app.commands` | save, remove, push, reconcile at Resume, redeliver | commands, sessions | three writers of one queue, keys made of content | the newest set wins, repeats are bounded |
| send quota (`cmd/gateway/main.go`, `internal/messaging`) | the last hour's messages | count, queue, record, delete | console, scheduler | count and insert are two transactions | overrun by no more than what is under way |
| notifications (`internal/notify`) | queue, channel health | enqueue, deliver, retry, park | sessions, HTTP | retries and full queues | at-least-once within its bound |
| telegram bot (`internal/telegram`) | offset, pending confirmations | poll, confirm | commands | replayed updates | one action per confirmation |
| enrolment (`internal/enroll`) | codes, certificates, revocations | issue, redeem, revoke | HTTP, TLS | two redemptions of one code | a code is redeemed once |
| console auth (`internal/auth`) | sessions | login, logout, expire | HTTP | revocation against cached sessions | a closed session is closed |
| rate limit, region cache, directory, wakeup, uptime, event bus | in-memory maps | small, per component | gateway | bounds and staleness | per component |
| settings, ledger, proxy | rows | read, merge, write, publish | console | the page that edits them is old | with the console's pages below |
| rules, hardware catalogue, audit, openapi, observe, transport | rows or static data | CRUD, formatting | HTTP | little | not modelled |
| outbox dispatcher (`internal/dispatch`) | leases on `command_outbox` | lease, publish, complete | redis | lease expiry | no production caller today |
| console: device page (`device-console.tsx`, `esim-panel.tsx`) | picker, dialog, busy, list of commands | compose, confirm, POST, refresh, poll | gateway API | answers out of order, a picker that moves, two clocks | a command goes where it was meant, what is shown is true, waiting ends |
| console: forms (`card-policies`, `settings-form`, `send-sms`, `conversation`, `proxy-manager`, `enrollment`, `device-admin`, `support-ledger`) | props as drawn, dialog, busy | edit, confirm, write, redraw | gateway API, other operators | the page is older than the data it edits | what was asked is what is sent; the page comes back |
| console: page loads and tables (`lib/catalog.ts`, `lib/table-query.ts`, `app/**/page.tsx`) | reads of one rendering | fetch, parse, catch, sort, filter | gateway API | one read of many fails or hangs | empty is only said when it was read; controls only for writers |
| console: journal page (`journal.tsx`) | rows, payloads | expand, fetch | gateway API | two names of one field | a row shows its envelope |
| console: access (`middleware.ts`, `lib/tenant.ts`, `lib/session.ts`, auth routes) | tenant cache, cookie | resolve, sign in, sign out | directory, gateway | a cache without expiry, timeouts | a tenant keeps its region; signing out ends the session |
| console: connection monitor (`lib/pwa.ts`, `pwa.tsx`) | online, failures, timer, install event | watch, probe, show, install | the browser | outcomes out of order | probes exactly while lost, the banner comes down |
| contract (`packages/contract`), deploy, design system, translations | types, config, tables | - | - | little | not modelled |

The repository states its own invariants in `src/README.md:343-354`; the ones
about behaviour ("commands and their outbox records commit atomically", "a
device reconnect and periodic reconciliation recover from a lost wakeup") are
covered by `OutboxFollowsCommand` (proved) and `WaitingAreServed`.
`PROJECT.json` lists every component with its status, and the hazards, each at
its line.

## 2. Modules

### IngressWindow
Pure operators: `app.ingress_window` (`SqlCommitted`, `SqlRanges`,
`SqlWindow`: `ROW_NUMBER` above the mark, then the loop over the gaps, capped)
and the in-memory `Journal` (`GoAdvance`, `GoWindow`: a cursor and a scan).

### JournalStores
The two implementations of `ingress.Store` driven by the same calls. Only the
PostgreSQL one is pruned. The loops are recursive functions, not operators, so
that they can be proved about. `StoresAgree` says their windows stay equal, holes,
cap and overflow flag included; `WindowExact` checks them against a declarative
definition of the window. `WindowsExact` is both.

### UplinkJournal
One device's uplink end to end.

| state | code |
|---|---|
| `rec nextSeq outbox cur link cursor` | the edge agent (external): records, sequence allocator, durable outbox, connection |
| `up down open` | frames to the gateway, acknowledgements to the device, open sockets |
| `pc job status win` | one `ServeDevice` goroutine per connection: where it is, the record in its hands, `Accept`'s answer, the window it will acknowledge |
| `byDevice byID prev reaped` | `session.Hub`'s two maps; the superseded session a Resume is about to close, the sessions a sweep is about to close |
| `rows aged mark` | `app.ingress` (absent, real, tombstone), rows past the retention window, `app.ingress_pruned` |
| `ppc base fresh ceiling` | the local variables of a running `app.prune_ingress` |
| `projected handled settled conflicts` | effects: projections, post-insert hooks, settled results, refused replays |

A transaction is one action: `accept_ingress` inserts, projects and reads the
window together. What lies between two calls of a goroutine is not atomic:
reading a frame, `Touch`, `Accept`, the tombstone, the window snapshot, the
write, the result and the hooks are separate steps, and a failure, the reaper
or a newer Resume may come between any two. `prune_ingress` runs READ
COMMITTED, so each of its statements is an action; its DELETE and the upsert of
the mark commit together.

A record's `fault` says where PostgreSQL refuses it: before the INSERT
(`early`), in the projection after it (`late`), or in its envelope id (`id`),
which the tombstone's INSERT needs as well.

### DurableUplink
What the uplink promises with all of that abstracted away: the cloud takes
charge of records the device allocated, never gives one up, and the device
releases only a prefix the cloud is in charge of. `UplinkJournal` implements it
under `kept <- {s : Covered(s)}` (`ImplementsDurable`).

### CommandLifecycle
A command (a `send_sms`, the kind that also has a message) from the console's
POST to the conversation.

| state | code |
|---|---|
| `status accepted reason late outbox receipts` | `app.commands` (status, accepted_at, reason_code, late_result), `app.command_outbox`, `app.command_receipts` |
| `msg why` | the mirrored `app.messages` row: status and who set it |
| `lapsed` | commands whose `expires_at` has passed |
| `handler` | the console request between `enqueue_command` and `RecordOutbound` |
| `sess phase batch hand` | the connected session, every goroutine's position, its pending batch and the result in its hands |
| `wire rwire acks` | deliveries, receipts, acknowledgements in flight; lost with the link |
| `outcome answers` | the device (external): executes once, keeps its result until acknowledged |

`RecordResult` and `SettleOutbound` are two transactions, as in the code;
expiry runs at Resume, with every pending read and in the scheduler's tenant
sweep.

### CommandQueue
The delivery queue of one device, with verdicts, messages and the journal left
out: where each command stands (`stage`, `overdue`), what the session has read
and not sent (`talk`, `reading`), what is on the socket (`sent`, `replies`), and
what the device made of it (`executed`, `putOff`). `CommandLifecycle` implements
it (`ImplementsQueue`): the serving session's position, batch and wires are the
queue's, a terminal status is `over`. It is small enough to check with commands
that wait for each other's turn: the `LIMIT` of the pending read lets a command
the device puts off hold up the ones behind it. `MCCommands` runs both, one per
behaviour (`scene`).

### Scheduler
One scheduled task and the gateways that tick it, with the operator who creates,
edits, switches and deletes it meanwhile.

| state | code |
|---|---|
| `task action selector last lease` | the row of `app.scheduled_tasks`: absent, on, off or deleted; its selector, `last_occurrence` and lease |
| `pc tick claim target close` | one `Runner` per gateway: where its run is, the clock it read, the claim, the resolved target, the occurrence it will close |
| `where live` | where the inventory says a card or device is; whether the tenant has a device connected |
| `commands mirrored` | `app.commands` under the task's idempotency keys, and the conversation |
| `skipped limited checked passed silent` | how occurrences ended without a command; what came due while the task was off |

Occurrence `n` is the instant `Anchor + n * Interval`. A tick reads the clock
once. A lease lasts a minute and nothing bounds a run, so `LeaseLapses` may come
at any moment of it and the run goes on. The quota answers either way, since
other senders spend it too. `Fire` commits the command and the completion
together; its error may also hide a commit whose answer was lost. The claim
failing is the `Crash` before it. The housekeeping half of the tick is in
`CommandLifecycle` (`ExpireTenantCommands`) and `UplinkJournal` (retention).

### CardPolicySync
How one device comes to hold the tenant's card policies.

| state | code |
|---|---|
| `policyTable second saved` | `app.card_policies`, and the whole second of the last write (`cards.Version` truncates to seconds) |
| `push` | per console request: `pushCardPolicies` after the save, between `List`, `Version` and the enqueue |
| `sess linked wire` | the session goroutine in `reconcileCardPolicies`, `redeliverCardPolicy` or the pending read; its link and what is on it |
| `commands lapsed` | the `update_card_policy` rows of `app.commands`, oldest first, with the key they were queued under; those past `expires_at` |
| `held done results` | the device (external): the set it enforces, what it carried out, results the gateway does not have |

A key is version, payload and attempt. `Enqueue` is `app.enqueue_command`: a
known key changes nothing. The pending read stops at `PendingLimit` rows (32 in
the code, 2 in the run, so that it does). Simplified: `issued_at` order is the order of
insertion, a receipt is recorded at once or lost with its link, the next pending
read waits until the device has the previous batch, and a command lapses only
while no request or read is under way.

### Presence
`liveDevices` and `absentDevices` over the hub, fed by the session goroutines
(`Seen` after Bind, `Left` after Unbind), read by the reaper's `Report`, the
scheduler's `Tenants` and the sweeps' `RecentTenants`. Time is counted in ticks
of the reaper; a tick passes only when every timer has fired and no goroutine
has something left to do. One device, one tenant, one gateway without a restart
(a restart forgets both trackers, as their comments say). `lastUp` and
`sawBound` are history: when the device was last connected, and when a look last
found it bound.

### SendQuota
`sendAllowed` and its callers: count, queue, record as three transactions, with
failing counts, failing inserts and deletions (`DeleteThread` as deletions of
single rows). The limit is constant.

### MCGatewayParts
`JournalStores`, `CardPolicySync`, `Presence` and `SendQuota` share no state and
are checked in one run: `page` names the part a behaviour is of.

### The console
`ConsolePage` holds what the pages share: the page the tab shows and the bound
on requests that fail on the way. Every page's module keeps its gateway side
(what is stored), its props (what was drawn) and its `useState`, under the
names of the source where they are free.

| module | code | kept |
|---|---|---|
| `CommandGuards` | `lib/tokens.ts` | which payloads need a confirmation |
| `DeviceConsole` | `device-console.tsx`, `lib/catalog.ts` | the relay: picker, dialog, POSTs, refreshes, polls, the AT console, USSD menus with two clocks, the adoption note |
| `EsimPanel` | `esim-panel.tsx`, `lib/tokens.ts` | the chip, the readings and the verdict drawn from them, one-time codes; each of a refresh's queries may be refused |
| `DevicePage` | `app/devices/[deviceId]/page.tsx` | the two panels, one mounted at a time |
| `CardPolicies` | `card-policies.tsx` | edits sent as whole rows from a page that may be old |
| `SettingsForm` | `settings-form.tsx`, `settings.Merge` | a switch, a number and a write-only secret |
| `MessagingPages` | `send-sms.tsx`, `conversation.tsx` | the form that is redrawn under the operator; a conversation that goes on arriving |
| `ProxyPage` | `proxy-manager.tsx`, 0017 | rows with their foreign keys, lifecycle presses, the configuration pushed to the device, the export; a write whose connection broke may still arrive |
| `FleetForms` | `enrollment.tsx`, `device-admin.tsx`, `support-ledger.tsx` | codes, certificates, devices, the ledger; dialogs that close at the press |
| `JournalPage` | `journal.tsx`, `catalog.ListEvents` | rows and their envelopes |
| `ConsoleAccess` | `middleware.ts`, `lib/tenant.ts`, `lib/session.ts`, auth routes | the tenant cache, sign-in and sign-out |
| `ConnectionMonitor` | `lib/pwa.ts`, `pwa.tsx` | failure counting, the probe's interval, the install offer |
| `PageLoads` | `lib/catalog.ts`, the pages | per page: tries, awaits and reads, what each catch empties, the role, the search; the device page narrows whole lists to its device and module |
| `TableQuery` | `lib/table-query.ts` | missing readings (a signal is in dBm, below zero, so a missing one taken for zero would come first), ties |
| `ConsolePages` | the tab | one page at a time; a deleted conversation and a removed device lead to another page |

Simplified in the console: an account that may only read has no controls, except
where the code draws them anyway; server props that no modelled write changes
are constant; error texts are dropped; the diagnostics and console tabs are one;
a POST outstanding when the page is left is settled at that step; commands that
are not USSD keep only whether they are over. On the proxy page and the fleet
forms a request whose connection broke may be handled at any later time; on the
other pages it was handled before, or never. The gateway's own cache of tenants
is left out. A row of a list is kept whole, kept in part or
dropped by its parser; fields and their formatting are data.

## 3. Runs

States are distinct states found by TLC with the committed bounds.

| run | instance | properties | shows |
|---|---|---|---|
| `uplink_sessions` | 2 records of 3 classes, 2 connections, 2 failures, in-order device; 2.0 M states | `NoRecordLost`, `HubSafe`, `ReplaysHarmless` | no record is lost by both sides, the hub holds exactly the session that serves, a replay has its effects once and ends a session only when it was tombstoned |
| `uplink_prune` | 2 records, 1 connection sending in any order, 1 retention pass at a time, 1 failure; 0.7 M states | `IndInv`, `PrefixNeverCollapses`, `ImplementsDurable` | the inductive invariant of the proofs holds (every acknowledgement true, every range about to be deleted covered); retention statement by statement keeps the prefix and the custody protocol |
| `uplink_live` | 2 records of 3 classes (storable, refused before the insert, refused in the projection), 2 connections, 1 failure, fairness; 0.5 M states | `EveryRecordReleased` | every record is released in the end, stored or refused |
| `commands` | scene `life`: 1 command, 2 goroutines, refusals; scene `queue`: 2 commands, a pending read of 1; 1 failure, fairness; 0.2 M states | `AnswerKept`, `MessageTruthful`, `VerdictStands`, `ImplementsQueue`, `LateAreRetired` (`OverdueIsRetired` in scene `life`), `WaitingAreServed` (`QueuedReachesDevice` in scene `queue`) | verdicts stand, answers are kept, the conversation is honest, a lapsed command is retired, and the whole implements the queue; in it a command that waits its turn reaches the device, unless its deadline passes or one no younger is put off and still queued |
| `scheduler` | 2 gateways, 1 selector, a place or none, both actions, 1 edit, 1 failure, fairness; 0.5 M states | `OneCommandPerOccurrence`, `EveryOccurrenceAccounted`, `SilenceKept`, `OwedIsClosed` | an occurrence is never two commands, nothing is dropped without a trace and only what a newer occurrence replaced is skipped, silence is kept, and what is owed is closed |
| `gateway_parts` | sequences up to 6 and 2 reported holes; 1 card, 2 saves, 2 lapses; 2 connections and 8 ticks; 2 senders, 5 texts; 0.7 M states | `WindowsExact`, `RepeatsBounded`, `NewestAppliedHeld`, `ConnectedIsKnown`, `AnnouncedWasAway`, `QuotaHolds`, `PartsSettle` | the two journals agree and are right; policy pushes are repeated, bounded and never undo a newer one; a connected device is known, one gone for good is announced, one that was there is not; the limit is overrun only by what is under way or missed |
| `device_console` | 2 modems, 2 commands, a poll beside each, clocks that disagree, 1 failure | `PostedAsMeant`, `ReplyOfferedInTime`, `ShownIsTrue` | one press is one command, to the modem meant, after the confirmation it needs; a stale menu is not answered; what is shown happened |
| `device_page` | both panels, 2 commands, 1 failure, refused queries, fairness; 0.4 M states | `VerdictTruthful`, `CodeSpentOnce`, `FailureNotCrowdedOut`, `DevicePageSettles` | eSIM verdicts rest on later readings, codes are spent once, a failed reading is not crowded out where its own query was answered; waiting rows, stale offers and the relay's disabled controls do not last, nor the eSIM panel's where no request broke |
| `console_pages` | every other page, 1 failure, other operators, fairness; 0.2 M states | `EditsSafe` (`SavedIsTheEdit` and `MarkerNeverStored`), `MessagingSafe`, `ProxySafe`, `AccessSafe`, `MonitorSafe`, `DrawnAsTold`, `FormsSafe`, `RowsStayPut`, `PagesSettle` | what each page says and sends is true, and none stays stuck where the code catches failures |

A property named for a whole part (`HubSafe`, `MessagingSafe`, `PagesSettle`, ...)
is a conjunction of named promises, each stated and commented in its module.

Runs that end in a violation, each of one property that states what a comment
of the repository says and the code does not do:

| run | the repository says | the code does |
|---|---|---|
| `commands_mirror` | the message is "recorded before the device has done anything" (messaging.go:266-267) | the command commits first; an answer in between settles no row and the message stays `queued` |
| `journal_envelope` | "a row expands to the envelope verbatim" (journal.tsx:35-36) | the page compares `deviceId` in an answer that says `device_id`: no envelope is ever shown |
| `policy_resend` | the reconciliation "re-sends the tenant's policy set to a device holding a different one" (main.go:2176-2177) | a set that was pushed once has a key that is known: after adding and removing a policy the device keeps enforcing it, at every reconnect. The test of the reconciliation uses the in-memory queue, which does not deduplicate |

Smaller disagreements and sharp edges met while modelling, without a run of
their own:

* A record whose envelope id is no UUID cannot be tombstoned and is replayed for
  ever (0031:11-13 says any unstorable record costs one record); the liveness run
  leaves that class out.
* The replay of a record that failed in its projection meets its own tombstone
  and raises a sequence conflict, where 0031:67-68 says it "must resolve, not
  raise"; `ConflictOnlyOnTombstone` shows that nothing else does.
* A DeviceState pruned before its acknowledgement arrived is projected again on
  replay (0066:152-154).
* A `retry_later` receipt violates the table's own check; it is lost and the
  session ends. The command still lapses and is retired (`OverdueIsRetired`).
* A device that itself reports `expired` has a replayed result filed as late
  (lifecycle.go:275-277); the answer is kept either way (`AnswerKept`).
* Staleness of an occurrence is asked once, before the target and the quota; a
  run stalled beyond its lease issues an occurrence another gateway has skipped.
* A USSD reply composed in time is not checked again when its dialog is
  confirmed; `ReplyOfferedInTime` is about the offer.
* A secret typed over a stored one and cleared again is removed. Adding a policy
  over a card somebody has blocked meanwhile turns its data on. A sign-out whose
  request never reaches the route still shows the login page
  (`SignOutEndsSession` says so: where nothing failed).
* Once the device picked in the send dialog has left the fleet list, the dialog
  and the POST each fall back to the first device listed at their own moment, so
  the dialog may name another device than the command goes to; the comment at
  send-sms.tsx:332 says the id named is the one aimed at. `SentAsAsked` is
  therefore about a device that is still listed.
* catalog.ts:2276-2278 says the age of a USSD menu runs from the moment the browser
  first saw it and not from the row's timestamps. `ussdSessionAgeMs` takes the larger of
  both, so in a tab that is opened again the gateway's stamp decides;
  `ReplyOfferedInTime` is about what the code does.
* A `ConfirmDialog` closes at the press and at Escape whatever is under way
  (confirm-dialog.tsx:102-106 asks nothing about `busy`), so a closed dialog is no
  sign of success; `SilenceMeansDone` goes by the busy flag and the error instead.
* A proxy write whose connection broke frees the page and may be carried out after
  a later press (`LifecycleInOrder` excepts it). A push of the configuration that
  fails is dropped and not tried again, and removing an upstream or changing a
  country's rule is not announced to the device at all (`DeviceIsTold`).
* The device page reads whole-fleet lists and narrows them: it says "none" when
  the rows that came are all another device's (`EmptyMeansRead` says so).
* The eSIM panel's `runNow` (esim-panel.tsx:226-233) has no `finally`: after a broken
  request the panel stays busy until the page is loaded again. A query by kind that
  is refused counts as empty (esim-panel.tsx:194), so a failed reading may then be
  missing from the merged list.
* A command the device answers with `retry_later` ends the session and stays at the
  head of the line; with a full pending read of such commands, younger ones wait
  until they lapse (`QueuedReachesDevice` excepts exactly that).
* Allowed by the code, modelled, and forbidden by no property: an older poll that
  replaces a newer list until the next one, a card policy saved from an old page
  over another operator's edit, a setting saved between another's read and write.
* `cards.Get` scans six of the ten columns it selects, so it always fails: a save
  answers with the request instead of the stored row (card_routes.go:89-94).

### Bounds, and why they are enough
`MaxSeq = 2` gives a prefix and a record beyond it, the least that makes a hole,
an out-of-order arrival and a prune range with a gap; `JournalStores` goes to 6
so that two holes and an overflow of the cap occur. Two connections are a
session and the one that supersedes it; the id is free again afterwards, so
chains of superseding happen. `MaxFaults` bounds the failures the environment
causes (crash, lost link, reaper, failed call, broken request), not the steps of
the code. One command is enough for the lifecycle, because no statement of the
modelled code relates two commands except the `LIMIT` of the pending read and the
card-policy chain, and both are checked in modules of their own. In
`CommandQueue` two commands and a limit of one make one wait behind the other,
and `CommandsImplementQueue` carries any number over. In `CardPolicySync` two saves give an older and a newer set, two
lapses exhaust `MaxDeliveries = 2`, and two seconds separate or merge versions.
`Presence` runs for eight ticks: a connection, an idle timeout, a grace period
and a return within and after it. `SendQuota` has one sender more than fits
under the limit. Three modems on two devices are the least with an ordinary
one, a blocked one and one never seen on a bus, of which one can leave the
fleet while the dialog is open. Two modems with equal or missing readings are
the least that can change places. Two writes on the proxy page are one whose connection
broke and one that overtakes it. On the console, two commands and two lists are the least that
can overtake one another, and one broken request is enough to find a control
that stays disabled. Each bound appears in a guard, none in a property of the
proofs; the theorems below have none.

Deadlock checking is off: a device may run out of records or commands, an
operator may stop clicking, and then the system rests.

### Fairness
`UplinkJournal!FairSpec`: a goroutine keeps running until it returns, the
device redials, sends, replays and reads (its reconnect loop); `Abandon` is fair
only when the socket is already closed. Nothing is assumed of failures,
production of records or retention. `MCCommands!LifeFairness`: the device redials,
a goroutine finishes what it is at and notices a closed socket, and the pending
read is strongly fair, because a goroutine's loop alternates between receipts,
results and reads, so that it is enabled repeatedly, not continuously.
`MCCommands!QueueFairness`: the device redials and answers every delivery
(accepting it or putting it off, as it likes), the session writes out what it
read, and its pending read and its handling of each receipt are strongly fair
for the same reason. Expiry is relied on only from the session's own
pending read, since the tenant sweep covers only tenants connected now or in the
last day. `Scheduler!FairSpec`: a run goes on to its end, the lease lapses, a
device that left returns, and the ticker fires again and again (strong fairness,
because `Tick` needs a connected device at that moment). The operator, the
inventory and the clock promise nothing.

`CardPolicySync`: requests and the session go on, the device redials, reads what
it is sent and keeps talking (strong fairness of the pending read, which waits
for the wire to be empty). `Presence`: timers fire, goroutines finish, time
passes. Console: an interval of `setInterval` fires while it is armed, a request
is answered, broken or given up (the code's own timeouts and, on the proxy and
enrollment pages, `finally`), and a `router.refresh` arrives; the operator
promises nothing. Where the code has no `try`, a broken request leaves the page
as it is, and no property says otherwise: the eSIM panel's controls are promised
back only where no request broke.

## 4. Proofs

All proofs are checked by TLAPS with SMT, Zenon and PTL (LS4). Each rests on the
named ASSUME of its component and on nothing else.

Every safety property of every passing run, invariant or action property, is
stated by a theorem (`PROJECT.json` pairs them); the runs show it on an
instance, the theorem for every value of the constants. What the modules prove,
and the invariant each needs:

**`IngressWindow_proofs`.** `CommittedIsLongestRun`: what the `ROW_NUMBER` query
returns is the end of the longest contiguous run above the mark, for every
finite journal; it rests on `InPositionIffContiguous`, a counting argument with
`FiniteSetTheorems`. The rest is about the two loops that list the holes. Each
is a recursive function; what it returns is shown from a least counterexample
(the first step at which the loop's invariant would fail), because the
library's induction rules cannot be instantiated. `Collected` and `ClosedBy` say
what a loop has gathered when it stands at a sequence, `Abreast` that both stand
at the same place with the same list, and `SameRuns` concludes that they report
the same runs, the same cap and the same overflow flag.

**`UplinkJournal_proofs`.** `UplinkInvariant` (`IndInv`), `NoRecordEverLost`,
`AcksAlwaysTruthful`, `PrefixMonotone`, `KeptRowsNeverDeleted`, `HubStaysSafe`
and `ReplaysStayHarmless`, for every number of records, connections, retention passes and failures and every set of record classes.
`IndInv` is `TypeOK`, `JobPresent` (a goroutine working on a record has one),
`AcksTruthful`, `DroppedCovered`, `MarkOverStored` and `PruneRangeCovered`.
`NoRecordLost` alone is not inductive: a stale acknowledgement on the wire could
release anything, so every window and every acknowledgement must be known to
claim only covered sequences; and a retention pass about to delete could jump a
hole, so the range it has checked must stay covered although other passes and
sessions run between its statements. The key lemma is `CoveredGrows`: no step
un-covers a sequence, because a row is deleted only together with raising the
mark over it. `EffectsOnce` says where the effect of a record is: nowhere before
its row is real, done or in the hands of the one goroutine that inserted it
(`Carries`) afterwards; that the row is still there is what `KeptRowsStay`
gives, which is why the property leaves out the one kind retention deletes.

**`DurableUplink_proofs`.** The refinement `UplinkImplementsDurable`, and
`NothingEverInvented`: nothing on a socket or in a row was never produced.

**`Scheduler_proofs`.** The safety properties of `scheduler`, and that the mark
covers what was issued and never goes back, for any number of gateways, every anchor and interval. The mark alone
is not inductive: a run about to close an occurrence must know that everything
before it is accounted for (`ClaimOK`, `FinishOK`), and a run must hold nothing
the clock has not reached, or an occurrence kept silent could already be in its
hands (`SilenceOK`). The latter rests on the arithmetic of the grid:
`DueMonotone` and `DueAtInstant`.

**`CommandLifecycle_proofs`.** The safety properties of `commands`, and that
wakeups follow their commands and expiry reasons are honest, for any number of
commands and goroutines. `CommandSteps` and `MessageSteps` list what any step
can do to one command and to its message; the invariant adds that a command not
yet queued has left no trace (`FreshOK`), that `accepted_at`, reason and status
move together (`VerdictOK`), and that an answer in anyone's hands is a real one
(`AnswerOK`). `CommandsImplementQueue` is the refinement to the delivery queue,
for any number of commands and any limit: the goroutines that do not serve the
device map to stuttering, whatever they still do with the results they hold.

**`GatewayParts_proofs`**, four parts that share no state:

* `WindowsStayExact`, for journals of any length and any cap. `StoresInv`: the
  database holds every record the memory holds, but for pruned ones, which all
  lie at or below the mark; the mark is inside the contiguous prefix; the
  in-memory cursor is at the end of it (`RunEnd`). From there the lemmas about
  the loops make the two windows equal, and equal to the declarative one.
* `RepeatsStayBounded`, for any number of cards, requests, saves and lapses. A
  revival in the session's hands was planned from a row that others may have
  followed since; `MayQueue` says that its attempt is within the budget and that
  every earlier attempt of its intent has lapsed, which stays true because
  nothing un-lapses. `KeysDiffer` is what the deduplication gives.
* `NewestStaysHeld`: the device holds the newest set it carried out, for any
  number of saves, reconnects and redeliveries and any limit of the pending
  read. `OrderInv`: deliveries travel oldest first (`WireInOrder`); what is older
  than a command carried out has been carried out too or is never sent again
  (`OlderAreOver`), and if it is on the wire it is a repetition
  (`OlderAreRepeats`); nothing that could still be sent is overtaken by what is
  on its way (`NoneOvertaken`). That the pending read itself is in order, cut off
  at its limit, is `PendingInOrder`, again by least counterexample.
* `ConnectedStaysKnown` and `AnnouncedWereAway`, for any number of connections
  and every timeout, grace and memory. `ListsInv` adds that only the bound
  connection is served, that a listed device's tenant is stamped and that the
  stamp follows the clock; `AbsenceIsNew` that an absence on record began no
  earlier than the last look that found the device bound.
* `LimitIsKept`, for any number of senders, texts, deletions and failures and any
  limit. What was queued since any moment has a message since then, is being
  recorded or was missed (`QueuedIsCounted`), and those who were allowed but have
  not queued yet still fit beside it (`AskedFit`); both are counts of sets that
  overlap, so `TextsDiffer` keeps every text in one place.

**`DevicePage_proofs`**, for any modems, profiles, codes and clocks.
`PostedAsTheyMeant`, `RepliesInTime` and `ShownStaysTrue` rest on `RelayInv`: one
request under way at a time (`OneAtATime`), a dialog and a POST still name the
modem that was meant when they were composed (`PendingMeant`, `PostsMeant`), and
every list a poll brings, however late, holds each command at most once and
final where it says so (`RowsTrue`). `VerdictsTruthful`, `CodesSpentOnce` and
`FailuresReported` rest on `PanelInv`: stamps follow the order of execution
(`StampsInOrder`), a one-time code is in exactly one place (`CodeInOnePlace`), and
nothing a refresh read first can hide the failures it must show (`HalfReads`). A
failed row that fewer than the limit of its kind came after is in the answer to
the query by kind (`KindRowsReach`), so a refresh whose queries were answered has it.

**`ConsolePages_proofs`**, for any cards, secrets, devices, tenants, connections,
edits and outages. A step of the console is a step of one page and leaves the
others (the `...Part` lemmas), so each page has its own invariant:

| theorem | invariant |
|---|---|
| `SavedEditsAreTheirs` | a request on its way was made from a row that was shown and one edit of it (`PutFor`) |
| `DotsAreNeverStored` | the marker may stand in the boxes and in what is sent, not in what the gateway has merged |
| `MessagingStaysSafe` | a draft is about the device picked or that device is gone, and its module may send (`DraftAsPicked`); a drawn fleet is empty or covers what there is (`DrawnCovers`); a conversation that was left is empty |
| `ProxyStaysSafe` | the foreign keys of 0017 stand in the gateway's rows; one write is awaited at a time, the last one pressed (`OneAwaited`), although lost ones may arrive at any moment; what is queued of awaited ones was pressed before it (`QueuedEarlier`); while nothing has failed a configuration is on its way or told (`PushedIsTold`) |
| `FormsStaySafe` | the write that is awaited is the last one pressed, busy is set, and what its "ok" says has happened (`AwaitedStands`); lost ones may still be handled |
| `AccessStaysSafe` | what was passed on is what is cached, what is cached the directory has (`CacheDecides`); what a request in the middleware was told is still so (`LookupsTruthful`); a cookie has a tenant |
| `MonitorStaysSafe` | the probe runs exactly while the banner is up, an event stands behind the install button (inductive with the types) |
| `PagesDrawnAsTold` | every page has the shape that makes its catches sound (`PageShape`: the role in a try of its own, each told list in a try that tells of its failure); what was awaited and not caught was heard (`Progress`), what was heard is what was answered, and only a list of the page's own may hold rows of elsewhere (`HeardIsTold`), admin was said on this load (`RoleIsTold`) |
| `RowsAreDrawnInPlace` | a table is the rows it was drawn of, each in the place that the number of rows above it gives (`Lined`), which says nothing of how they arrived; the comparison is a total order (`AboveIsOrder`), so every place has one row (`PlacesAreTaken`) |

Only model-checked: the liveness properties (`EveryRecordReleased`,
`WaitingAreServed`, `LateAreRetired`, `OwedIsClosed`, `PartsSettle`,
`DevicePageSettles`, `PagesSettle`), because fairness and ENABLED are out of the
prover's reach. The three runs that end in a violation are counterexamples and
need no proof.

## 5. Assumptions and limits

* One device and one tenant at a time; row-level security, certificates and TLS
  are outside. Connection ids are unique among live sessions (they are random
  UUIDs).
* The edge agent lives in another repository. It is modelled from what the
  gateway tells it: it keeps a record until an acknowledged prefix covers it,
  starts with Resume, executes a command once, and answers a repeated delivery
  with `duplicate`.
* What a projection writes is not modelled, only that it happened, and how
  often. Delivery reports are not modelled.
* `Age` models a 30-day window: no frame in flight and no connection holding
  the record unacknowledged lives that long. It allows a device away for longer
  to come back: its unacknowledged DeviceState may then be inserted and projected
  again, which is why `ReplaysHarmless` excludes that kind.
* A request handler ends before its command's ten-minute TTL.
* The gateway's answer to a directory lookup names the slug that was asked for.

### Not modelled
Notifications, the Telegram bot, the outbox dispatcher, rate limiting, uptime,
the event bus and wakeups, the gateway's region cache and session store, rules,
audit writes and the OpenAPI and transport layers have no module; `PROJECT.json`
gives the reason for each. Of the console, the layout, the design system and the
translations are presentation, and the parsing and formatting of fields in
`lib/catalog.ts` and `lib/tokens.ts`, the larger part of both files, is data:
the models keep whether a row survives its parser.

## 6. Plan

What would come next, in this order:

1. `NotifyDispatch`: queue bound, retries, channel health and parking.
2. `Enrollment`: redemption of one-time codes, revocation against live sessions.
3. `OutboxDispatch`: the dispatcher's leases, refining at-least-once delivery.
4. `Messaging`: threads, unread counts, inbound duplicates, delivery reports.
5. `RateLimit`, `RegionCache`, `Uptime`, `Auth`: small in-memory components,
   rate limiting as a pure algorithm.
6. With each of them its invariant and its theorems, as in section 4.
