# A TLA+ verification project for proactive-mcp

proactive-mcp watches a user's Gmail, Google Calendar and memories, stores the
*situations* that deserve attention in a local SQLite file, and offers them to
AI hosts through MCP tools. A background daemon polls the sources and falls back
to an OS notification when no host collects in time. Several processes (any
number of MCP servers, the daemon, a displaced daemon) share one database; every
public store operation is one `BEGIN IMMEDIATE` transaction and everything
between transactions interleaves.

This directory holds TLA+ modules that model those transactions and the
processes that issue them, TLC configurations that check them on small
instances, and TLAPS proofs of all the safety properties that hold, for every
instance.

## 1. Inventory

Paths are relative to `src/src/proactive_mcp`.

| Component | State | Operations | Hard behaviour | What makes it correct |
|---|---|---|---|---|
| Situation store (`store/situations.py`, `_situation_*.py`) | `situations`, `situation_type_mutes`, `situation_deliveries` | upsert batch, natural resolution, expire, wake, acknowledge, snooze, mute | batches of two sources and answers of the user in any order; reactivation of closed rows; row limit | answers are final; occasions repeat only after a snooze; the row limit holds |
| Attention policy and leases (`situations/policy.py`, `store/_situation_claim.py`, `_delivery_eligibility.py`, `_delivery_receipt.py`) | `situation_delivery_claims`, `confirmed_delivery_receipts` | reserve, confirm, replay, sweep of expired leases | concurrent checks that work with a clock value from before a slow evaluation; confirmations that come late, twice, or after part of the lease was resolved | a receipt stands for a whole lease; a lease holds until its expiry; cooldown, budget, slot rule |
| Source generations (`store/_source_generation.py`, `_situation_consistency.py`) | `source_detection_generations` | issue, apply (complete or degraded) | reads that finish out of order, crash or degrade | no stale overwrite; replies are offered only while the newest read vouches for them |
| OS fallback (`store/fallbacks.py`, `_fallback_sql.py`, `delivery/fallback.py`, `notify.py`) | `situation_fallbacks` | claim (bootstrap, configured), notify, record outcome | two daemons dispatching at once, a crash after the notification, a timeout of a notifier that did its work, a lease taken meanwhile | one notification per situation ever; one bootstrap exception; yields to leases |
| Watcher daemon (`delivery/daemon.py`, `cli/daemon.py`, `store/daemon_status.py`, `scheduler.py`) | `daemon_status` (one row) | start, second claim, heartbeat, run outcome, stop, liveness | overruns, displacement, crash, pid reuse, relaunch policy | one watcher; reported running; the owner keeps the row; a crashed owner is replaced |
| Lazy reads (`sources/lazy_sync.py`, `store/_lazy_sync_lease.py`, `_evaluation_gate.py`) | `lazy_sync_lease`, gate row | decide, acquire, read, release | decision taken on states that are old when used; lease released before the result is applied; a reader that dies with the lease | one reader inside an unexpired lease; reads start again |
| Google sync and source state (`sources/google_sync.py`, `_google_evaluation.py`, `store/_sync_*.py`, `freshness.py`) | `source_sync_state`, diagnostics, credential state | record success, failure, refusal, authorization | `invalid_grant` of an old credential; partial reads; setup and reads at once | no `all_clear` over an incomplete read; a late refusal spares the grant that replaced the refused one |
| Credentials and OAuth (`sources/credentials.py`, `_credential_*.py`, `oauth.py`) | marker file, keyring slot, fallback file, slot of earlier versions | save, load, delete, promote, migrate | crash between two stores, other processes between any two accesses | a deleted credential stays deleted; nothing is lost on the way |
| Readers (`sources/gmail.py`, `calendar.py`, `_gmail_projection.py`) | none | bounded paging and projection inside a lookback window | budgets, malformed entries, a mailbox that changes between pages, threads that age out | never complete after truncation |
| Detectors (`situations/*.py`) | none | overlap sweep, occurrence dates, deadline text | leap days, windows, contradictory dates | agree with a reference definition |
| Memory (`store/memory.py`, `_memory_*.py`) | `memory_items`, `entities`, `entity_aliases` | remember, update, forget, list | dedupe across edits, quotas, paging beside writers | a dated fact is active once; a walk meets all |
| MCP tools and status (`server/*.py`, `store/collectors.py`) | collector stamps | `proactive_check` and the answer tools | one check composes gate, evaluation, lease and snapshot | warnings and `all_clear` agree with the store |
| Database and migrations (`store/database.py`, `migrate.py`, `_database_initialize.py`) | schema version, erasure marker | open, migrate, erase | crash between migration and checkpoint, readers that pin the log | nobody works with unerased tokens; erasure is resumed |
| Private files (`store/private_file.py`) | one file and its directory | replace, read, delete | two writers, death and power loss between system calls | whole and durable |
| Service installation (`cli/service*.py`) | unit, plist, task | install, status, remove with rollback | failing step of several, lost answers, file errors without a rollback | success is true, a failing call is undone, a file error leaves a known state |
| Configuration and setup (`config.py`, `cli/setup_*.py`) | none | parse, ask | none | out of scope |

Interaction: the daemon and `proactive_check` both run an evaluation
(`SituationEngine.evaluate`): issue a generation, read the network, apply the
result, apply local occasions, expire and wake. `proactive_check` then leases
with the clock value it read at its start. The daemon's pass goes on with the
fallback dispatch and the heartbeat. Servers read the daemon's liveness to
decide whether to read the sources themselves.

`PROJECT.json` lists the hazards of this code at the lines where they bite, and
the properties that cover each.

## 2. Modules

| Module | Models |
|---|---|
| `SituationStore` | situation store, attention policy, leases and receipts, source generations |
| `SituationStoreProofs` | theorems about `SituationStore`: the receipt protocol and the generations |
| `AttentionProofs` | theorems about `SituationStore`: the attention policy, and the refinement of `ReceiptContract` |
| `OsFallback` | the fallback store and dispatchers, composed with `SituationStore` (it extends it: its steps are the store's steps or a dispatcher's) |
| `DaemonStatus` | the liveness row, the daemon processes and the service manager |
| `ReceiptContract` | what a host may rely on when it holds a receipt token (abstract) |
| `StoreReceipts` | the refinement mapping from `SituationStore` to `ReceiptContract` |
| `SourceReads` | gate, lazy-sync lease, reads, source rows, diagnostics, grant, setup, disconnect and smoke test, and the answer of `proactive_check` |
| `CredentialStore` | the credential in its four places |
| `ServiceInstall` | install and remove on three platforms |
| `Database` | opening, migrating, erasing old tokens |
| `PrivateFile` | replace, read and delete one private file |
| `MemoryStore` | items, entities, aliases, pages |
| `InboxRead` | one Gmail pass, from the profile to the resolution |
| `CalendarConflicts` | one Calendar pass and the overlap sweep |
| `Occasions` | the occasion detector over the years |
| `OsFallbackProofs`, `DaemonStatusProofs`, `SourceReadsProofs` | theorems about the module of that name |
| `StorageProofs` | theorems about `Database`, `PrivateFile` and `MemoryStore` |
| `SetupProofs` | theorems about `CredentialStore` and `ServiceInstall` |
| `DetectorProofs` | theorems about `Occasions`, `InboxRead` and `CalendarConflicts` |
| `MCSituationStore`, `MCOsFallback`, `MCDaemonStatus`, `MCSourceReads`, `MCComponents` | instances for TLC |

How they fit together: `OsFallback` extends `SituationStore` and runs in one
state with it. `SourceReads` sees the situation store as "a situation of this
source is waiting" (`pending`), the daemon row as `watched`, and the stored
credential as a version number; what it takes for granted there is what
`SituationStore`, `DaemonStatus` and `CredentialStore` check (order of
generations, liveness, and that a save survives). `CredentialStore` takes a file
write as one step, which `PrivateFile` justifies. `InboxRead`,
`CalendarConflicts` and `Occasions` produce the batches that `SituationStore`
applies; they keep only what a pass adds and resolves, and
`Occasions` relies on `DatedFactsUnique` of `MemoryStore`.

### SituationStore

`rows` is the table `situations` (`state = "none"` for a key without a row),
`claims` the lease table (its `situation_id` is `UNIQUE`, hence a function),
`receipts` the confirmed receipts, `deliveries` the delivery history,
`generations` the two generation rows. `shown`, `snoozedSince`, `vouched` and
the fields of `claims` and `deliveries` that are marked so are history: no
action reads them, properties do.

Each action is one transaction: `ReserveGeneration`, `ApplySourceGeneration`,
`ApplyLocalDetections`, `WakeSnoozed`, `ExpireLapsed`, `ReserveForDelivery`,
`ConfirmDelivery`, and the four answers. A transaction that raises rolls back
and is a stuttering step: a late generation, an unknown or expired receipt, a
receipt one of whose rows is no longer pending, an answer to a row that is not
delivered. A database error anywhere is a rollback too.

Choices worth knowing:

* Time is a natural number. The code compares ISO strings in UTC; their order is
  that of the instants. `DayLength` is constant: days of 23 or 25 hours are not
  told apart.
* `ReserveForDelivery(t, token)` has its own stamp `t`, up to `CheckLag` older
  than the clock, because `proactive_check` reads the clock before an evaluation
  that may wait for the network. All other operations read the clock directly
  before their transaction.
* The loop of `reserve_for_delivery` inserts row by row, and each INSERT counts
  the rows inserted before it. `LeasedBy` states the set that results: a
  candidate is in it exactly if it passes the tests against the ones before it
  in the delivery order. The set is unique, because the condition on a candidate
  only mentions earlier ones.
* A batch inserts new keys in its own order until the table is full;
  `Admissible` is the set of prefixes that may result.
* A complete result resolves every absent key of its source. A degraded Gmail
  result carries the thread ids it is sure about; which keys those are is a
  choice (`scope`). A degraded calendar result resolves nothing.
* A detection is what the properties tell apart: priority, expiry, and whether
  the record fits into 16 KiB. The input sets follow the three detectors: only
  conflicts become critical, occasions are high, replies do not expire.
* `apply_source_generation` also writes sync state and diagnostics in the same
  transaction. No action of this module reads them; `SourceReads` has them.
* Rows with `source_name = 'local'` come from `upsert_detections`, which nothing
  in the program calls; it, `resolve_absent`, `mark_delivered` and
  `claim_for_delivery` are left out.

### OsFallback

A dispatcher is one pass of `FallbackDispatcher.dispatch`: one clock value, one
bootstrap claim, then configured claims until none is eligible, with the
notification between claim and outcome, outside any transaction. `Notify` may
fail after the notification was raised (timeout). `Crash` forgets the dispatcher
and leaves its claim. `DispatchLag` bounds how long a pass works with its clock
value; the store's steps run in between.

### DaemonStatus

Time is relative: the row has the age of its heartbeat, a process the time since
its start-up or pass began. The clock never stops, so liveness means something.
The stages of a process follow `run_daemon`, `run_once`, `run_forever` and
`_run_pass`: the first claim with the pid probe, the readiness notification (or
its failure path), the second claim without a probe, and the phases of a pass.
Every write is fenced by the owner token; `Gone` is the token of any process
that has ended. `RecordFails` is a write of a run's start or outcome that the
database refuses: no phase encloses these writes, so the daemon releases the row
and ends with status 1 and without an outcome of that pass. A claim or a release
that the database refuses leaves what `Crash` leaves.

One process is the service. `service` holds the manager (systemd or launchd,
chosen initially) and whether a launch is due. systemd restarts on failure but
not after exit status 2, which is what an ownership conflict gives; launchd
restarts after every status but 0. Windows' Task Scheduler (three restarts, one
minute apart) is not modelled.

### ReceiptContract and StoreReceipts

The contract knows situations, tokens, a clock and what was promised with each
token: a token is unused, open, delivered or lapsed; an open one shares no
situation with another open one; it is delivered as a whole before its end, or
lapses after it. `StoreReceipts` reads those four states off the claim rows, the
receipts and what the checks returned. A step of the store may sweep expired
leases on the side, hence the set `lapsing` in every step of the contract.

### SourceReads

A session is a process at work on one job: `check` (an MCP server in
`proactive_check`), `watch` (a pass of the daemon), `smoke`, `setup` or
`disconnect`. A check runs through gate and decision (`StartCheck`), lease, load
of the credential, the two reads, release, the two applications, the lease of
situations and the answer; each is one transaction or one request, everything
interleaves, and a session may die anywhere. Time is kept as ages that stop
growing where no comparison tells larger values apart, so the clock needs no
bound and liveness means something. Generations are relative to the applied one.

A read returns "clear" or "found" (complete), "partial" or "failed", or is
refused when its grant was revoked. `sound` is history: the last recorded read
of a source was complete. A refused reader deletes the grant as
`CredentialStore.delete` does, in three steps without a lock: `CompareVersion`,
`WriteTombstone` and `EraseCopies`. What setup saves between them can be lost,
and `RefusalSparesNewGrant` says exactly which grants can: `checked` is how many
had been stored when the versions were compared. Transport error codes are one; sync cursors, which
nothing reads back, are left out.

### CredentialStore and PrivateFile

Every access to the marker, the keyring or a file is a step, may fail, and other
processes take steps in between. A keyring that is not there is a failing one.
`Loadable` is what a load with a working keyring returns: the copy that the
marker names (`Authoritative`) or, as long as there is no marker, what
`load_legacy` would adopt (`Adoptable`: the profile's entry, the shared entry,
then the file; nothing when the first two disagree, where the code raises).
`gone` is history: credentials that were loadable and, from the first marker on,
are not any more. `Stray` are the credentials a load may come upon while there
is no marker; which of them it adopts depends on whether the keyring answers.
`alone` marks a call that no other call overlapped: there is no lock, and the code
promises nothing to calls that overlap.

`PrivateFile` has the system calls of the POSIX half. `names` is what the path
named over time; a loss of power falls back to some entry not older than the
last directory flush, and a file that was not flushed loses its text. The last
check of identity (`ReadVerify`) and the return of a read are two steps: a
replacement between them makes the reader return the earlier text, whole.

### ServiceInstall

A command is a plan, a sequence of manager calls and file changes, and its undo
plan. `Fail` fails the next step with or without its effect (a timeout loses
only the answer) and replaces the plan. At most three failures per command.

File errors are another matter: `execute_service` catches an `OSError` around
the whole command and reports `io_failed`, with no rollback. `GiveUp` ends the
command where it is. `UnitFileFails` is a failing `write_text` or `unlink` of
the Linux unit, which may leave the file empty or cut (`Leftovers`);
`InstallFileFails` a directory that cannot be made, a Windows ready file that
cannot be cleared before the first call or removed after the last, or a unit
that cannot be read back; `ReadyFileStays` the removal in the `finally` clause
that fails after a call that failed, and so skips that call's rollback.
`FileErrorLeaves` says what a single such error can leave behind. macOS writes
its agent through a transaction that handles its own errors.

### Database

The initialization lock, one immediate transaction for all migrations, and the
erasure that follows migration 010. `tokens` says where raw receipt tokens still
are: the main file, the log, or both. `schema.applied` is the list of committed
migrations; a commit appends what its process found missing (`current` is the
version it read), so that one applied twice would be seen. Processes of the previous version read
(which blocks the checkpoint) and write tokens while their table exists.
SQLite's checkpoint is external: blocked, it may copy frames but does not empty
the log.

### MemoryStore

`remember` and `update` are transactions; one that raises is no step. `forget`
reads and archives in two statements. A text is its normal form and its
spelling. `listing` is one walk through `list_entities` with its pages.

### InboxRead and CalendarConflicts

One pass at a time, with the provider changing between any two requests. Gmail
and Google Calendar are external: the list is ordered by latest message or by
start, a page token means "after the last entry of the page", and no event ends
before it starts. `InboxRead` has the page and projection limits (a pass takes
one pair of a set, so one run meets both), the byte and request budgets, threads
too large for one response, and the shapes a thread may have: plain, clipped,
without a trusted direction, without a projectable message, and a list entry
without an id. A page is the set of entries whose rank among those not listed
yet is below the page size; `ByRecency` puts the threads of a page in order.

The query asks for the lookback window only: `horizon` is the newest message
that is too old, `Age` moves it, `list_threads` reads it once (`read.cutoff`)
and `Queried` is what its pages are drawn from. A thread that has aged out is
not listed and the pass still counts as complete, so that it resolves a stored
situation of it although nobody answered. `PRODUCT_PLAN.md` (lines 44 and 185)
puts that backlog outside the scope of this version; `Steady`, and with it the
three properties of the pass, speak of the window the pass asked for. A thread
that ages out after that, while the pass reads, is inside it.

`CalendarConflicts` has the sweep as the loop it is: `BeginSweep` reads the
clock once, and each `SweepRound` takes the first event that is left, drops what
has ended by its start from `active` (the heap of ends) and detects the overlaps
with the rest, or stops for good when they exceed the output limit. The order of
the events is that of the code's sort key, start, end and id. Time passes and
the calendar changes during the sweep too. Events beyond the lookahead are not
listed, and their conflicts are resolved.

### Occasions

Days are numbers and the year is short: three days, with a leap day as an
extra place. Passes expire, read the memories and apply in three steps, nothing
orders them, and each may stop for good. An item without an entity, or with
attribute "free", is a group of its own. Memories are remembered, forgotten and
re-dated under their id (`UpdateDate`); a free item that gets another date
moves to another group with it, as its group key has the date in it. Snoozing is
in `SituationStore`. The rule for centuries is in
`IsLeapYear`; the run's two years do not reach one, the proof of `NextDateFirst`
covers it.

### MCComponents

The eight components from `CredentialStore` to `Occasions` share no state.
`MCComponents` extends them all; `part` names the one a behaviour runs, and the
others stay in one initial state, so that the state space is the sum of the
eight and not their product. The processes that use a component do so alike, so
states are told apart up to their permutation.

## 3. Runs

`CHECK_DEADLOCK FALSE` in the store and fallback runs: their clock, tokens and
generations are bounded, and the system may stop when they are used up. The
daemon and source runs check deadlock. `Components` does not: its counters of
commands, writes, edits and days are used up.

| Run | Instance | Shows |
|---|---|---|
| `StoreCycles` | one reply, one occasion, two tokens, time 0..3, cooldown 2, three generations (detected, resolved, detected again) | `CooldownHonoured`, `OccasionRepeatsOnlyAfterSnooze`, `NoStaleOverwrite`, `ReplyLeaseVouched`, `AnsweredIsFinal` |
| `StoreConflicts` | two conflicts that change between high and critical, two tokens, two days, budget 1, stamps one unit old | `ReceiptCoversWholeLease`, `LeaseHeldUntilExpiry`, `BudgetHonoured`, and the refinement `ImplementsReceiptContract` |
| `StoreLimits` | a reply, two conflicts and an occasion, room for three rows, oversized records, budget 2, quiet hours | `TypeOK`, `RepliesYield` |
| `Fallback` | a conflict and an occasion, two dispatchers, one token, stamps one unit old | `FallbackInv` (types, one holder per claim, one notification per situation), `OneBootstrapException`, `FallbackYieldsToLease` |
| `DaemonPunctual` | three processes, cadences 2 and 3, start-ups and passes of at most 3 units, both managers | `WatcherInv` (types, one watcher, reported running), and under fairness `CrashedOwnerReplaced` |
| `DaemonOverrun` | two processes, passes of up to 7 units, beyond every threshold | `OwnerOutcomeRecorded`, `OwnerKeepsRow` |
| `LazyReads` | two servers, one of them set up by the user, interval and staleness 2, Calendar may fail, one crash | `ReadersInv` (types, one reader inside an unexpired lease), and under fairness `LazyReadsResume` |
| `SourceOutcomes` | a server with the smoke test against daemon, setup and disconnect; two grants, the first of which is revoked; Gmail found or partial | `AllClearBacked`, `ReadReportTruthful`, `SharedAuthorization`, `RefusalSparesNewGrant`, `ReauthorizedBySetup` |
| `Components`, credentials | two processes, every old layout, one save, two loads, one deletion | `NoResurrection`, `UndisturbedCallsWork` |
| `Components`, service | three platforms, two commands, three failures in each | `CommandKeepsWord` |
| `Components`, database | two processes and one of the previous version, schemas before, at and after the erasing migration | `ErasureInv` |
| `Components`, file | two processes, three writes, one deletion | `FileInv` |
| `Components`, memory | five memories over three names, quotas of two, three rows ever | `MemoryInv`, `WalkMeetsAll` |
| `Components`, inbox | three threads in six forms, at most one of them special at first, one change, one thread that ages out | `NoFalseResolution`, `CompleteMeansCovered` |
| `Components`, calendar | three events in seven forms, one change, one hour that passes, room for two conflicts | `SweepFindsConflicts`, `ConflictNotDropped` |
| `Components`, occasions | two passes, four dated memories under three ids, three edits, two years | `AnnouncedOncePerYear`, `DueOccasionKept`, `NextDateIsFirst` |

Why the bounds are enough: two situations and two tokens give every pair of
racing checks, partial leases and re-lease after expiry. A cooldown of two
units, a lease of one and two days let a lease end, a day turn and a
cooldown run out in one behaviour. Two generations per source give a late, a
newer and an interrupted read; a third lets a delivered reply be resolved and
detected again, the one way to a second delivery without a snooze. In `DaemonPunctual` the bound is tight: with
passes of two intervals TLC finds a punctual watcher replaced. In
`DaemonOverrun` a pass outlives three intervals of the shorter cadence and so
every displacement happens.

In `SourceReads` a second session is enough for every race of two, and an
interval of two units lets a lease expire during a read and be taken over. Two
grants, the first revocable, give the late refusal. Two credential
users give every overlap; the old layouts are those of the legacy loader. One
failure per command is what a rollback is for; the second one shows that nothing
worse than an incomplete rollback follows, and with the third a Windows task can
be left as this version's definition with an older watcher running, which the
next install then takes for its own. Three threads on pages of one exceed
the page limit, the projection limit or the byte budget, one at a time, and the
oldest may age out before, during or after the listing. Three
events make three conflicts, one more than fit. A plain year
and the leap year after it give every order of today, the leap day and the turn
of the year; two dates under one id let an item be re-dated in place.

What some properties leave out is deliberate too, and stands in their comments:
`NoResurrection` and `UndisturbedCallsWork` allow what an overlapping call does;
`SuccessIsTrue` the older watcher that systemd keeps, and the one on Windows;
`FailureRestores` a `launchctl bootstrap` that takes effect after its timeout,
a second failure, and the file errors of `FileErrorLeaves`;
`RefusalSparesNewGrant` a grant saved after the deletion compared versions;
`OwnerOutcomeRecorded` a daemon the database kept from recording;
`NoFalseResolution` the threads of `DocUnsafeThread` and those outside the
lookback window;
`ConflictNotDropped` events that moved during the pass.

What `BudgetHonoured` says is deliberate: it counts deliveries whose lease is of
the same day and whose row did not cross the critical line while leased. The
next section shows what happens without those words.

Fairness (`LiveSpec`): time passes (`Tick`), a process takes its next step (the
operating system schedules it), and a due launch happens (`RestartSec`,
`ThrottleInterval`). Where dead pids may be reused, the fair launch is the one
that finds the pid in use, so nothing is gained from a lucky probe.
`DaemonPunctual` lets pids be reused under launchd only. With systemd in
`PidsReused` the property fails: the relaunched service takes the reused pid for
a live incumbent, leaves with status 2 and is not started again until the user
or a login does. The repository says nothing to the contrary, so this is listed
as a hazard and not as a finding.

For `LazyReads`: a started job goes on (weak fairness of each session's next
step; a crash ends the job), time passes, and hosts call `proactive_check` again
and again, which `docs/INTEGRATIONS.md` sets up as a schedule. The last is strong
fairness, because a check is not enabled while the session does something else.
Nothing is assumed about setup, the daemon or what Google answers.

### Where documents and code differ

Each of these runs checks one statement of the repository and is violated.

* `DocDailyBudget`: the budget caps the noncritical deliveries of a day. Leases
  count on the day of the claim, deliveries on the day of the confirmation: a
  lease that straddles midnight escapes both counts until it is confirmed.
* `DocUnsafeThread`: "the unsafe thread cannot resolve", said of threads that the
  reader excluded from resolution. A pass whose coverage is
  complete resolves every absent key, and the threads it excluded with the rest.
* `DocLeaseNotice`: the fallback is held back during an active lease. It is held
  back when it is claimed; a check may lease the situation between the claim and
  the notification.

Two more differences are not runs of their own. `AttentionPolicy` says "highest
priority first" (`situations/policy.py:61`); the delivery order puts every
non-reply before every reply before it looks at high and routine. The docstring
of `situations/inputs.py` says that a degraded snapshot must not resolve absent
situations; the code resolves those of the threads the pass is sure about.

`record_delivery` calls what it writes "claim-time priority history"; in
`confirm_delivery` it is the priority at confirmation. `DeliveryOf` follows the
code.

## 4. Proofs

Thirty-seven theorems, each for all values of the constants that satisfy the
named assumptions of the module. The assumptions say what a type or a table
says: finitely many situations, sessions, daemons, threads and events, unique
ids, positive lengths, and that the name for "nobody" is nobody's. None restricts a bound, so
the theorems hold for behaviours of any length. The one exception is
`OneWatcher`, whose hypothesis `Punctual` is a condition on the cadence and is
discussed below.

Every invariant that is used as an inductive strengthening was checked with TLC
on the run's instance before it was proved.

### Situation store (`SituationStoreProofs`)

| Theorem | Statement | Argument |
|---|---|---|
| `TypeCorrect` | `Spec => []TypeOK` | per action; confirmed leases are finite because situations are |
| `CooldownSafe` | `Spec => []CooldownHonoured` | below |
| `ReceiptsSafe` | `Spec => []ReceiptCoversWholeLease` | below |
| `LeasesHeld` | `Spec => []LeaseHeldUntilExpiry` | below |
| `GenerationsMonotone` | `Spec => NoStaleOverwrite` | `GenerationInv`: a row's generation is at most the applied one of its source, which is at most the issued one |
| `AnswersFinal` | `Spec => AnsweredIsFinal` | step lemmas: no detection step moves an answered row, a confirmation needs a pending one |

`CooldownHonoured` is not inductive. A lease is tested against the cooldown at
its stamp and becomes a delivery later, after any number of refreshes,
resolutions and reactivations. `CooldownInv` adds that deliveries are not in the
future, that an exemption means a snooze since the last delivery, that every
outstanding claim was cooled down when it was made or its row has been snoozed
(`ClaimCooled`), and that a pending snooze ends after the claims made before it
(`SnoozeOutlasts`). The last part is needed because a claim that survives while
its row is answered must not be confirmed within the cooldown.

`ReceiptCoversWholeLease` and `LeaseHeldUntilExpiry` follow from `LeasesInv`:
per token, its claims are all there with one expiry, or none is, and none is
only if the receipt is confirmed or the expiry has passed. `SweepKeepsLease`
shows that a sweep with an old stamp treats the claims of one token alike,
because they share their expiry. `FreshToken` shows that an unused token has no
claims.

### Attention policy (`AttentionProofs`)

| Theorem | Statement | Argument |
|---|---|---|
| `OccasionsOnce` | `Spec => []OccasionRepeatsOnlyAfterSnooze` | `OccasionInv`: a delivered occasion that was not snoozed rests in a finished state, which no detection leaves |
| `RepliesVouched` | `Spec => ReplyLeaseVouched` | `ReplyInv`: while the last applied Gmail result is complete, every open or answerable reply is one it vouched for |
| `RepliesYieldSlots` | `Spec => RepliesYield` | the delivery order is lexicographic, hence a strict order; a noncritical conflict or occasion precedes each reply and was charged no more slots than it |
| `BudgetSafe` | `Spec => []BudgetHonoured` | below |

`BudgetHonoured` counts deliveries, but what a check reserves is a lease.
`BudgetInv` bounds the `Charge` of a day, its settled deliveries and its
outstanding leases together: a lease is charged when it is taken (the last row
the loop inserts sees all the others), a confirmation moves the charge, a sweep
lowers it, and `ClaimPriced` says that a lease that was not repriced is still
on its side of the critical line, so that a step cannot slip a row into the
count.

### The receipt contract (`AttentionProofs`)

`StoreImplementsContract` (`Spec => ImplementsReceiptContract`): the abstract
outcome of a token is a function of its promise, receipt and claims, so the
proof asks of each store step how the outcomes of all tokens move. `SameOutcome`
and `SweptOutcome` settle the steps that leave claims alone or drop whole
leases; a reservation is an offer of situations that no open token holds, or
only lets tokens lapse; a confirmation is one. `LeasesInv` says that a lease is
never half there, without which a sweep could be no step of the contract.

### Fallback (`OsFallbackProofs`)

| Theorem | Statement | Argument |
|---|---|---|
| `FallbackOnce` | `FallbackSpec => []FallbackInv` | `DispatchInv`: a busy dispatcher holds a claimed situation that no other holds; nothing unclaimed was notified, and who is about to notify has not yet |
| `BootstrapOnce` | `FallbackSpec => []OneBootstrapException` | an exception is added only to an empty table, and claims keep their priority |
| `FallbackYields` | `FallbackSpec => FallbackYieldsToLease` | the claims of an unexpired lease are in the table (`LeasesInv`) and outlast every stamp read earlier |

`FallbackRunsStore` (`FallbackSpec => Spec`) carries every theorem about the
store over to the composed system.

### Watcher (`DaemonStatusProofs`)

| Theorem | Statement | Argument |
|---|---|---|
| `RowKept` | `Spec => OwnerKeepsRow` | per action, from the owner fence of each write |
| `OutcomeRecorded` | `Spec => []OwnerOutcomeRecorded` | the owner wrote its outcome before it rests (or, refused by the database, goes another way to its end), and the fence keeps all others out |
| `OneWatcher` | `ASSUME Punctual PROVE Spec => []WatcherInv` | below |

`Punctual` says that no start-up and no pass takes more than one and a half
intervals (`2 * MaxStretch <= 3 * IntervalOf[d]`). The code does not enforce it:
nothing bounds the length of a pass, and with longer ones TLC finds a second
watcher. It is the condition under which the three-interval threshold works, and
`DaemonPunctual` meets it with equality. `SteadyInv` is the inductive form: a
watcher's heartbeat is no older than the stretch it is in and the longest one
before it, which is at most three intervals; `OwnerWorks` says that the row
names no process that is up and not at work. The theorem has no hypothesis on
the number of daemons, crashes, relaunches or reused pids.

### Sources (`SourceReadsProofs`)

| Theorem | Statement | Argument |
|---|---|---|
| `ReadersSafe` | `Spec => []ReadersInv` | `LeaseInv`: the time a reader believes it has left is time the lease row, in its name, still has |
| `NewGrantSpared` | `Spec => RefusalSparesNewGrant` | `FenceInv`: between comparison and erasure the stored grant is the session's own, none, or newer than the comparison; and `GrantWriters`: who stores and deletes the grant |
| `SetupReauthorizes` | `Spec => ReauthorizedBySetup` | `RowWriters`: an answer changes the authorization of an absent row only |
| `OneAuthorization` | `Spec => []SharedAuthorization` | every other write of an authorization covers both rows |
| `ReportsTruthful` | `Spec => []ReadReportTruthful` | `RowInv`: a row without error and with a success is one whose last recorded read was complete, and the diagnostics follow the Gmail row |
| `AllClearSound` | `Spec => []AllClearBacked` | `RowInv` at the step that answers |

`SessionsOK` ties the place where a session is to what it has read: nothing is
applied that was not read. The lemmas `RowWriters`, `GrantWriters` and
`Holdings` (the lease) classify every step of the system once, and the theorems only look
at the classes.

### Storage (`StorageProofs`)

| Theorem | Statement | Argument |
|---|---|---|
| `StoreExposedErased` | `DatabaseSpec => []ErasureInv` | `DatabaseInd`: per opener, what its place says about locks, its uncommitted rows and the tokens that may be left |
| `ReplacementDurable` | `FileSpec => []FileInv` | `FileInd`: every name that the directory may fall back to is a flushed file, a process that is about to rename has flushed its own, and a file that was opened under the name stays whole |
| `MemorySound` | `MemorySpec => []MemoryInv` | `MemoryInd`: with types; a new entity takes aliases nobody has, an update looks for the fact it would duplicate |
| `WalkComplete` | `MemorySpec => []WalkMeetsAll` | `WalkInd`: pages follow each other in the listing order, and an entity of the beginning was met or is ahead |

`WalkComplete` needs that a page leaves out nothing before its last entry:
`PageLeavesTheRest`, from the order of `list_entities` (`EntityOrder`) and from
`LastOfPage`.

### Setup (`SetupProofs`)

| Theorem | Statement | Argument |
|---|---|---|
| `GoneStaysGone` | `CredentialSpec => NoResurrection` | `CredentialInd`; a credential that becomes loadable is new, or an overlapped call brought it back |
| `CallsKeepWord` | `CredentialSpec => UndisturbedCallsWork` | `CredentialInd` and `AdoptionInd`; a load of its own moves or adopts the credential and keeps one loadable in every step |
| `AllOrNothing` | `ServiceSpec => []CommandKeepsWord` | below |

`CredentialInd` says, per call that nobody has overlapped so far, what its place
tells about the four copies: a save finds what it has written and its credential
was never loadable; a load that found no marker still finds none until it writes
its own; a promotion moves the copy that the marker names. Credentials are
numbered, and none is numbered higher than the saves that have begun
(`AllIssued`), hence a saved one is not among the `gone`. The number of
processes and of calls is free. `AdoptionInd` is what the loads without a
marker need: which copies a load has found, made and retired at each place of
`load_legacy`, so that the shared entry is retired only when the profile's slot
has its credential.

`ServiceInd` says for each plan that a command can have left what it has reached
(`Going`), and for each undo plan what it has restored (`Undoing`), the latter
under the one failure that `FailureRestores` speaks about; where a file error
ends a command, the place it had reached says what is left. `PlatformOK` holds
whatever failed before: launchd runs only what it has loaded, and the
scheduler's definition is its registration. The number of commands and of
failures is free, and that is where the proof differed from the run: with two
failures per command TLC found nothing, and the induction did not go through.
Its failed case is a Windows install that fails and whose rollback fails twice,
so that the definition of this version stays with a watcher of an earlier one;
the next install finds the definition unchanged and the task running, and
reports success. `SuccessIsTrue` now names that case, and the run has three failures.

### Occasions (`DetectorProofs`)

| Theorem | Statement | Argument |
|---|---|---|
| `AnnouncedOnce` | `OccasionSpec => []AnnouncedOncePerYear` | `OccasionInd`: an announcement has a row of that group and year that was told, a row that waits was not told, and a row's date is of its key's year |
| `DueKept` | `OccasionSpec => DueOccasionKept` | the group's trigger is in the batch (`DetectionsKeyed`), and what keeps the upsert from opening its row is an announcement of that year |
| `NextDateFirst` | `OccasionSpec => NextDateIsFirst` | `NextOccurrenceIsFirst`: each year has exactly one anniversary (`OneAnniversaryAYear`), by the count of leap years up to it |

`LeapYearCounts` says that the closed form `LeapYearsUpTo` grows by one exactly
in leap years, century rule included, and `YearOfDay` that every day is in one
year.

### The Gmail pass (`DetectorProofs`)

| Theorem | Statement | Argument |
|---|---|---|
| `NothingFalselyResolved` | `InboxSpec => NoFalseResolution` | `InboxInd` at the step that applies the pass |
| `CompleteCovers` | `InboxSpec => CompleteMeansCovered` | the same |

`InboxInd` has one part per stage. While the pass lists, a thread of the inbox
that the query asks for and that has not changed is listed, or its nameless entry was counted, once the
cursor has passed it (`ListingOK`). While it reads, and as long as it may speak
of what it does not contain (`absent`), every such thread is still to be read,
was read safely, or is excluded; one that was read safely and asks for a reply is
detected; and a complete pass excludes only what it read with a warning
(`ReadingOK`). The step in between needs that a page leaves out nothing that is
newer than its oldest entry (`PageHolds`) and that `ByRecency` lists each thread
of a page (`PageInOrder`), by counting the threads that are newer. The limits of
pages, threads and bytes, and the number of changes, are free.

### The Calendar pass (`DetectorProofs`)

| Theorem | Statement | Argument |
|---|---|---|
| `SweepExact` | `CalendarSpec => []SweepFindsConflicts` | `CalendarInd`, the loop invariant below |
| `ConflictsKept` | `CalendarSpec => ConflictNotDropped` | a wanted event that has not changed is among the events of the pass or counted as skipped (`ListedOK`), and `SweepExact` |

The invariant of the sweep (`SweepOpen`): what has been swept precedes what has
not; what is no longer active ends before anything still to come starts; and the
detections are exactly the conflicts among the events that have been swept. A
round adds the pairs with the current event, which are new, so that their number
grows by that of the candidates; that is how the output limit is known to be
exceeded exactly when more conflicts exist. The order of the sort key matters
for events that are empty: of two with one start the empty one has to come
first, so that it is closed when the other starts. A sort by start alone would
make the invariant false.

### Only model-checked

Liveness (`CrashedOwnerReplaced`, `LazyReadsResume`) needs fairness and
`ENABLED`, which this prover does not reason about. Every other property of a
passing run is stated by a theorem.

The prover cannot instantiate an induction theorem either. The models that are
proved about therefore have loops as steps, pages as sets of entries of a
certain rank, and no recursive operators; maxima, minima and least elements of
finite sets, which the proofs need, are obtained from the well-foundedness of
strict inclusion.

## 5. Not modelled

* JSON and HTML parsing, the scan for deadlines in texts, wording and evidence
  of situations: a thread or an event has one of a few forms, and a message
  becomes due when the model says so.
* Notifier command lines, file modes, ACLs and the Windows bindings: calls of
  the operating system.
* The browser flow of OAuth, which ends in a save; configuration and the setup
  dialogue, whose results are CONSTANTS.
* `get_status` and the formatting of answers, which only read.
* `upsert_detections`, `resolve_absent`, `mark_delivered`,
  `claim_for_delivery`, which nothing calls.
* Wall clocks that go backwards; days of 23 and 25 hours.

Hazards that no property covers, because the code means what it does or
nothing says otherwise: after ten thousand keys new detections are skipped
(`_situation_upsert.py:148`); the page of a hundred candidates is cut before the
eligibility tests (`_situation_claim.py:122`); a record that grew over its limit
keeps its old contents (`_situation_upsert.py:145`); freshness and held count
are read at other instants than the lease (`situation_tools.py:102, 120`); a
grant that setup saves between the steps of a deletion is lost
(`credentials.py:192`); a due thread that ages out of the lookback window is
resolved (`gmail.py:92`); after a file error the service commands roll nothing
back (`service.py:102`); the deletion of a private file unlinks by name
(`private_file.py:109`); `launchctl bootstrap` may take effect after its timeout
(`service_darwin.py:137`); the answer of `forget` may show an item as it was
before a concurrent update (`memory.py:249`).

## 6. Plan

The plan's order was: the situation store with leases and receipts; the
fallback and the watcher that work on it; sources and checks; the components
beside the store; then their proofs in the same order. All safety properties of
the passing runs are proved.

What could follow:

1. `get_status` and the setup dialogue, if they come to write state.
2. The Task Scheduler's restart policy in `DaemonStatus`.
3. Days of 23 and 25 hours in the budget of a day.
