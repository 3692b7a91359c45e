# kenn-forge in TLA+

This directory keeps a TLA+ model of the daemon in `src/` beside its code:
modules that model the parts where several goroutines, processes or machines
meet, TLC configurations that check them on small instances, and theorems about
them that TLAPS proves for instances of any size. `PROJECT.json` maps every
definition to the lines it models, and lists the components, the runs, the
mutated definitions that show each property can fail, the hazards and the
theorems. This file explains how the parts belong together.

## 1. The system

The daemon mirrors pull requests, issues and notifications of several
providers into SQLite, serves them to browsers over HTTP and server-sent events
(SSE), writes back to the providers, and manages git worktrees with terminal and
agent sessions. Several daemons can be federated: a hub owns the provider
state and spokes follow it.

| Component | State it keeps | Operations | Meets | What makes it correct |
|---|---|---|---|---|
| event hub `server/syncevents/event_hub.go` | event counter, ring of recent events, latest event of each cached type, one bounded channel per subscriber | subscribe (with cached events), broadcast, replay since a cursor, evict slow subscribers, close | every subsystem that publishes; SSE handlers | an evicted or disconnected subscriber can tell what it missed |
| browser event stream `server/streamapi`, `provider-events-workflow.ts` | per request: replay, `deliveredThrough`; per browser: a checkpoint | connect, stale signal, replay, live delivery, reconnect | event hub | no event skipped or repeated over reconnects and restarts |
| federation event stream `providerplane/events.go`, `server/federation_events.go`, `syncevents/federation_events.go`, `spokeapi/federation_events.go` | hub: tracked streams, enrollment; spoke: private cursor, connection state, republished status | authorise, stream, barrier; dial, read, refresh, fetch status, announce, start and stop; revoke | hub's event hub, spoke's event hub, configuration | "connected" is only shown when nothing of the hub is missing; revocation ends streams |
| worktree lock `workspace/repolock.go` | per process a semaphore and a flock per path; the operating system's lock | acquire, cancel, poll, unlock | all worktree mutations of all daemons on a clone | one mutation at a time; nobody stuck behind a free lock |
| sync engine, run slot `github/sync.go` | running flag, pending run, status, airplane mode, stop state | tick, trigger (full, priority, scoped), hand over, publish, stop | API handlers, ticker, configuration | single flight; accepted requests neither lost nor weakened |
| sync engine, one pass `github/sync.go` | work channel, worker pool, progress, last error | dispatch, sync a repository, back off, conclude | run slot, status subscribers | success only for complete passes |
| sync budget `github/budget.go`, `budget_transport.go` | per credential: limit, reserve, spent, window | spend, refund, roll, reset, change limit | every provider request | exact counting over windows |
| quota registry `github/quota.go` | pools per resource, archive reservations | observe headers, snapshot, reserve, release, raise cost | every provider request, archive admission | reservations neither leak nor are released twice |
| provider write gate `providerplane/write_gate.go`, `db/queries_spoke_preparation.go` | phase, two counters; durable preparation row | admit, release, quiesce, freeze, abort | provider mutations, spoke preparation | nothing admitted is left out of the freeze |
| deferred merge `server/pullapi/deferred_merge.go`, `routes.go` | in-flight handle per pull request, worker, superseded set | queue, poll, merge, supersede, announce, shut down | write gate, immediate merges, provider | merges what was reviewed, once, and says so truthfully |
| spoke preparation and state handoff `server/spoke_preparation.go`, `db/queries_spoke_preparation.go` | preparation row, receipts, seal | prepare, abort, hand over, seal, save the role | write gate, hub, enrollment store, configuration | the seal of whoever runs as a spoke is true, and nothing is left behind |
| federation enrollment and lease `federation/enrollment_store.go`, `server/fleetapi`, `cmd/kenn-forge/spoke_startup.go` | hub: enrollments and seals; spoke: local enrollment, lease | join, begin, expire, activate, renew, suspend, revoke | preparation, event stream | the stores agree on an active spoke; revocation is final |
| workspace manager and lifecycle API `workspace/manager.go`, `server/workspaceapi` | row and its status, setup admission, queued retry, deletion | create, set up, retry, delete, prune, recover | runtime sessions, worktree lock | teardown runs alone, every transient status settles |
| workspace runtime sessions `workspace/localruntime/manager.go` | sessions, launches in flight, stop markers | launch, record, stop, roll back, restore, exit | lifecycle API | no session outlives its workspace |
| token sources `tokenauth/source.go` | token or failure per App candidate, mint in flight | resolve, evict, invalidate | every provider request | nobody inherits another caller's end or a refused token |
| feature cooldowns `github/feature_cooldown.go` | state per repository key and feature | begin a probe, defer, release, abandon, clear, bypass | sync passes, archive admission | a probe ends only what it observed; no reservation is stranded |
| notification acknowledgements `github/notifications_sync.go`, `db/queries_notifications.go` | row with queue time, acknowledged generation, attempts | list, upsert, queue, propagate, reopen | provider, two tickers | a read is not lost and swallows no newer activity |
| archive `archive`, `db/queries_archive*.go`, `db/queries_dataset_progress.go` | archive row with watermarks, four scans with generation and cursor, items with lookup progress | inventory a page, begin, read and complete a maintenance scan, hydrate an item, pause, start | provider, admission, operator, moves reported by other repositories | no update falls between scans |
| stack detection `stacks` | none | detect chains | database | chains agree with the branch graph |

The hard behaviour is concurrent: SSE handlers race with publishers, passes with
triggers and shutdown, deferred workers with immediate merges and with the
provider, answers with window resets. Failures are part of normal operation:
connections break, daemons restart (ids start over), provider answers are late,
lost or without headers, system calls fail. `PROJECT.json` names each hazard at
the line where it bites, and the property that would show it going wrong.
The remaining components (provider adapters, database layer, git mirrors,
terminals, fleet views, configuration, command line, MCP server, docs and Kata modes,
devbox, frontend) are listed there too with the reason they are left out:
mostly translation, I/O and external processes without protocol of their own.

## 2. Modules

| Module | Models | Built on |
|---|---|---|
| `EventHub` | event hub, as operators on its state | |
| `EventStream` | SSE handlers and browsers | `EventHub` |
| `FederationEvents` | hub's stream handler, spoke's client and lifecycle, revocation | `EventHub` |
| `WorktreeLock` | what the worktree lock promises, abstractly | |
| `RepoLock` | the lock over goroutines and processes; implements `WorktreeLock` | `WorktreeLock` |
| `SyncSlot` | what those who trigger a sync rely on: one pass at a time, nothing put off twice | |
| `SyncRun` | run slot, triggers, status, airplane mode, stop; implements `SyncSlot` | `SyncSlot` |
| `SyncPass` | dispatcher and workers of one pass | |
| `SyncBudget`, `QuotaRegistry` | budget and registry, as operators on records | |
| `ProviderTransport` | one credential's wire attempts, admission, snapshots | `SyncBudget`, `QuotaRegistry` |
| `WriteBarrier` | what a handoff relies on: only admitted work writes, and none is left once frozen | |
| `ProviderWriteGate` | gate and preparation row, as operators | |
| `DeferredMerge` | deferred and immediate merges, provider, shutdown, preparation; implements `WriteBarrier` | `ProviderWriteGate`, `WriteBarrier` |
| `SpokePreparation` | a daemon becomes a spoke: handlers, stores, hub, crash, revocation; implements `WriteBarrier` | `ProviderWriteGate`, `WriteBarrier` |
| `RuntimeSessions` | runtime manager's book-keeping for one workspace, as actions on its state | |
| `WorkspaceLifecycle` | setup, retry, deletion, recovery and restart of that workspace | `RuntimeSessions` |
| `TokenMint` | shared installation token of one App candidate | |
| `FeatureCooldown` | cooldown of one feature on one route | |
| `NotificationAck` | one notification: provider, row, two tickers | |
| `ArchiveScan` | archive of one repository: inventories, prompt maintenance, hydration | |
| `MCCatchingUp` | `FederationEvents` and `SyncRun` side by side | those modules |
| `MCQueuedWork` | `DeferredMerge`, and beside it an instance of `ArchiveScan` | those modules |
| `MCSharedWork` | the merge queue with instances of `RepoLock` and `SyncPass` beside it; its archive rests, with no items | `MCQueuedWork` |
| `MCProviderAnswers` | `ProviderTransport`, and beside it instances of `TokenMint`, `FeatureCooldown`, `NotificationAck` | those modules |
| `EventHubProofs` | lemmas on the hub | `EventHub` |
| `EventStreamProofs`, `FederationEventsProofs` | theorems | the module they are named after, `EventHubProofs` |
| `SharedWorkProofs` | theorems on lock, pass, merge queue and archive | `MCSharedWork` |
| `ProviderAnswersProofs` | theorems on metering, token, cooldown and acknowledgement | `MCProviderAnswers` |
| `SyncRunProofs`, `SpokePreparationProofs`, `WorkspaceLifecycleProofs` | theorems | the module they are named after |
| other `MC...` | instances for TLC | the module they are named after |

### How steps correspond to the code

A method that holds its object's mutex from start to end is one step. Where the
code lets go of a lock, blocks, or calls out, the action ends and another
follows, with what was read before kept in the process's own state. A process's
place in the code is its `pc` (or the `pc`/`at` field of its record).

*EventHub / EventStream.* `Broadcast`, `Subscribe`, `Unsubscribe`, `Receive` and
`StaleCursor`/`After` (ReplaySnapshotSince) are hub methods. A request subscribes
and answers (`Connect`, `Flush`), takes its snapshot afterwards (`Snapshot`), writes
the stale signal or the replay (`WriteStale`, `WriteReplay`), then forwards the
channel (`GoLive`, `Live`) until it is closed or the context ends. A connection
can break at any moment (`Drop`); a handler that has not noticed goes on writing
into nothing. `Restart` is a new daemon process whose ids start at 1 while
browsers keep their checkpoints. Payloads are reduced to the event type. The
floor argument of BroadcastBuildAtLeast is always 0 in the daemon and is left out.
`owed` is a history variable: events a browser was promised and has not been
given or been told stale about.

*FederationEvents.* The hub's handler tracks the stream before it looks at the
enrollment a second time (`Track`, `Authorize`), replays, writes a barrier and goes
live. The spoke's `Run` loop dials, reads frames, refreshes at a barrier, fetches
the status, and only then announces (`Dial`, `ReadFrame`, `Refresh`,
`FetchStatus`, `Announce`); a changed `fleet.enabled` cancels and restarts it. Only
the newest handler is kept, since an older one cannot reach the spoke. The
response flush is part of subscribing, the back-off part of dialling, and storing the hub's
status and broadcasting it are one step. `Restart` also stands for a hub that
closes its event hub.

*RepoLock.* `Acquire` queues on the semaphore of weight one, `EnterLocal` gets
it, `TryLock` is one poll of the flock, `GiveUp` the end of the context, `UnlockFile`
and `ReleaseLocal` the two halves of release in the code's order. The flock reports success
to a process that already holds it. `Crash` drops everything a process had.

*SpokePreparation.* State lives in four stores that no transaction spans (the
preparation row, the enrollment store, the configuration file, the hub), and each action
touches one of them. `prepare-spoke` and `abort` are sequences of actions with a
handler's place in its record; a request to the hub may fail before or after it was
applied, and abort and activation requests may arrive after their sender gave up.
The provider state is a version number, its receipt the version it covers.
`Restart` begins anew from the stores, and startup is a sequence of actions again.

*RuntimeSessions, WorkspaceLifecycle.* The manager's maps are keyed by workspace, so one workspace shows
every interleaving. A launch is cut where the manager's mutex is released (claim, start, insert,
record), a stop into marker, snapshot, kill and wait, the deletion into claim of the row, drain, kill,
cleanup and drop. A setup is cut where it reads the row, queues the retirement and starts the queued
retry; each of these may fail, and then it returns and leaves the rest undone (`SetupGivesUp`; `leftBy`
remembers where, until a setup gets in again or the daemon restarts). Status changes of the row are the
compare-and-swap updates of `manager.go`. A restart loses the manager's maps and every handler; the
recovery pass restores recorded sessions first.

*TokenMint.* `resolve` is cut at its lock: look up, mint, answer, wake. `Elapse`
is the clock, `Refuse` a 401 followed by `Invalidate`, `EvictCompleted` a changed descriptor.
Entries that nobody refers to are reused, which only renames them.

*FeatureCooldown.* Every method holds the mutex, so each is one action. A lane begins a
run (which may capture a bypass), begins a probe, and finishes it by one of abandon, release,
clear or deferral. Two repositories with identities and a bare ref share one route.

*NotificationAck.* Versions stand for `updated_at`. Each database statement and each request of
`ProcessQueuedNotificationReads` is a step; the listing and upsert of the other ticker, the user and
the provider interleave. The row's retry schedule is a choice when to list it again. `done_at` only hides
rows and is left out, as are two queries nothing calls (MarkNotificationIDsReadLocal,
MarkNotificationsAcknowledged).

*ArchiveScan.* One worker serves a repository, so the worker is one `pc` with the unit of work
it holds. It reads a page or an item from the provider with no lock, and commits the answer in one
transaction (`ReadInventory`, `ReadUpdated`, `CommitPage`; `SyncItem`, `SettleItem`), between which
the operator, the provider's users and other repositories act. `Begin` and `CompletePrompt` are the
transactions that fix a maintenance boundary and move the watermark. A cursor is opaque, so it stands for what
the pages up to it covered: items for an inventory, which lists by creation; update times for
a maintenance scan, which lists newest first. `stored` is the update an item's last stored content
includes; a second update within the same second sets it to 0, since no time stamp shows it.
The last input cursor, which recognises a page delivered twice, is left out: the one worker never replays a page.
`early` is a history variable for a move reported before the first watermark.

*SyncRun.* The slot's fields change under `runMu`; the terminal status and the
release of the slot under `statusMu`, across which `HandOver` and `PublishStatus` are two
steps. `Coalesce` is the merge of a request into the pending run. `wanted`, `scoped`
and `scheduled` are history variables for what triggers were promised.
`DisableSync` is only called before the syncer is exposed, so sync is enabled here.

*SyncPass.* Eligibility, provider answers and reserve crossings are the
environment's choices; the order of sends, receives, cancellation checks, error
recording and progress publication is the code's. What a repository's
synchronisation writes, and the two drains, lie outside.

*ProviderTransport.* One attempt is cut where RoundTrip releases a lock: reserve,
consume allowance, spend, wait, refund on 304, observe headers, settle the
reservation, raise the attempt cost. A snapshot may describe any past moment of its
window. The provider's limit is constant, the local clock agrees with the
provider's about resets, and snapshots always state limit and reset. The
paced (quadratic) archive ceiling and the advisory `CanSpend` checks are left out;
local admission uses LocalArchiveSpendAvailable.

*DeferredMerge.* A handle is a deferred-merge request and the worker it starts. Requests are admitted by
the gate, read, refresh from the provider, and take their place in the queue; the worker polls, checks
row and provider, merges and announces. An immediate merge supersedes the pending worker.
`ProviderMoves` pushes, closes, reopens and merges at the provider; `Sync` copies the provider's state
into the row; the CI verdict after a refresh is any. A merge has two heads: the one the client rendered
and the one the daemon names to the provider, which is the row's when the preflight (`MergePreflight`)
has found the two equal; the row may move before and after, so that the second is what binds. The module
models providers with head binding. A restart of the daemon forgets workers and is not an action: the
gate is constructed once, from an open row.

## 3. Runs

Times are of two workers. Every passing run explores its whole instance.

| Run | Instance | Distinct states | Checks |
|---|---|---|---|
| `event_stream` | 1 browser, 2 handlers, ring 1, channel 1, 3 events per process, 1 drop, 1 restart | 713 K (180 s) | checkpoint sound, in order and once, latest status known or under way, every owed event delivered or declared stale |
| `catching_up` | events: ring 1, channel 1, 2 events per hub process, 1 frame in transit, 2 incidents; runs: 2 repositories, 2 run goroutines and the ticker, 2 triggers | 938 K (190 s) | connected misses nothing, status under way, revocation ends streams, ends up in step; single flight, requests retained, status true, claiming and hand-over implement `SyncSlot`, accepted work reached |
| `shared_work` | lock: 2 processes with 2 goroutines, 1 crash, 1 failed unlock; pass: 3 repositories, 2 workers; merge: 1 deferred, 1 immediate, 1 head, 2 bases | 274 K (140 s) | the lock implements `WorktreeLock` and is passed on; a pass ends, and completed is complete; queued merges do not stay queued |
| `sync_pass_progress` | 3 repositories, 2 workers | violation | progress never regresses (section 6) |
| `provider_answers` | metering: 2 attempts, 1 resource, 1 admission, limits 1 and 2, 2 budget windows, 2 provider windows of 3, reserve 1, symmetry on attempts; token: 2 callers; cooldown: 2 lanes, 2 repositories, 2 deferrals; notification: 3 versions, 2 reads, 1 fault | 1.84 M (180 s) | budget exact, ceilings hold, reservations exact, observed answers stay seen; answers are one's own; renewed cooldowns stand, reservations are held; a local read is propagated |
| `queued_work` | merge: 1 pull request, 2 deferred requests, 1 immediate, 2 heads, 1 base, symmetry on handles; archive: 1 item, 3 clock values, 2 maintenance scans, 1 move | 3.48 M (190 s) | gate counts work, live worker pending, merged head reviewed, announced merge real, gate, queue and freeze implement `WriteBarrier`; no update is skipped |
| `deferred_merge_silent` | 1 deferred, 1 immediate, 1 head | violation | superseded workers are silent (section 6) |
| `spoke_preparation` | 2 prepares that may overlap, 2 enrollments, 1 write, 1 crash, 2 handlers at once, symmetry on prepares | 6.84 M (120 s) | the seal is true, activation agrees, revoked stays revoked |
| `spoke_overlapping_prepares` | 2 prepares, 1 enrollment, 1 write, 1 crash, 3 handlers at once | violation | nothing left behind (section 6) |
| `workspace_lifecycle` | 2 create or retry requests, 1 deletion asked for and 1 by a failed setup, 1 launch, 1 restart | 725 K (150 s) | teardown alone, no process outlives the workspace, exited is forgotten, queued retry served, status settles |
| `notification_unseen` | 2 versions, 1 read, no faults | violation | unseen activity is shown (section 6) |
| `archive_first_boundary` | 1 issue, 3 clock values, 1 move | violation | the first maintenance boundary is the creation (section 6) |

Why the bounds are enough for the cases that matter:

- *Event streams.* Ring 1 with 3 events overflows the ring, channel 1 is overflowed by the
  second unread event, two handlers let an abandoned one overlap its successor, and one restart
  puts a checkpoint ahead of the new counter. In `catching_up` a ring of 1 keeps the state
  small; two incidents give a broken connection followed by a restart, a
  revocation or a toggle during recovery.
- *Lock.* Two processes of two goroutines are the least that has both contention inside a process
  and between processes; theorems cover any number.
- *Run slot.* Two triggers suffice to coalesce a scoped and a full
  request behind a running pass with the ticker as third party; theorems cover any number.
- *Pass.* Three repositories over two workers leave one queued while both work.
- *Transport.* Two attempts overlap in any order; with limits 1 and 2
  the second exhausts the budget, and two windows let each answer be late. One resource: pools of
  different resources do not touch. The module admits over several; the instance does not exercise
  the joint check.
- *Merges.* Two handles let a second worker follow a superseded one while that one still
  runs; two heads let a reviewed head be outdated at every point.
- *Composite runs.* `catching_up`, `shared_work`, `provider_answers` and `queued_work` put several
  modules side by side. The parts share no state, and a behaviour explores the one chosen in its initial
  state, so their state spaces add up and each liveness property is checked under its own part's
  fairness. They are grouped by question: how a daemon catches up with what it could not take at once,
  what must come to an end, what an answer may still change when it comes, what may change while work
  waits.
- *Answers.* Two callers suffice for a mint under another's context, since further waiters wait like
  the second. Two deferrals let a probe meet a cooldown recorded since it began, two repositories a
  displaced one on the route. Three versions allow activity both before and after a mark-read.
- *Archive.* Items do not influence each other except through the completion of the initial archive and
  through pages, whose content is any set; one item meets every place of a page, and its stream is the
  second, so that the first one's end comes before it. Two scans let an update be made during one
  and missed or found by the next, three clock values put it before, at and after the boundary.
- *Spoke.* Two enrollments let everything late of the first meet the second, and two prepares let one seal what
  the other has frozen. Two handlers at once keep the state space small; the theorems have no such
  bound. The violation needs three, an abort beside both prepares, and one enrollment.
- *Workspace.* Two workers give a retry during a setup, one launch with its session
  every race with stop and deletion, one restart every interrupted operation.

`TypeOK` states the shape of a module's state. It is no property of a run; where a
proof needs it, it is proved (section 4).

Deadlock is checked where the system never stops. `CHECK_DEADLOCK FALSE` is
used where it may: event bounds exhausted or daemon closed, syncer stopped, pass
over, all attempts made, every version used.

### Fairness

- `EventStream`: weak fairness of each handler's steps and of noticing its
  context's end (goroutines are scheduled), of the browser's noticing the end of
  its stream and of its reconnect (reconnectSchedule retries without limit).
  Publishing, breaking and restarting are not fair.
- `FederationEvents`: weak fairness of the handler, of the client's loop (the back-off
  timer fires), of noticing cancellation. `EventuallyInStep` presumes that `fleet.enabled` and the
  enrollment come to rest; incidents are bounded, so they stop.
- `RepoLock`: weak fairness of entering, polling (every 25 ms) and releasing (each
  caller defers Unlock). Contexts need not end, and callers need not come.
- `WorkspaceLifecycle`: weak fairness of each handler's, launch's and recovery's steps; strong fairness
  of a setup's admission, which another holder can only bar for a while: recovery passes are
  `workspaceTmuxPruneInterval` apart and deletions are asked for by a user. Requests, exits and restarts
  are not fair. That a step is taken does not say that it succeeds: giving up is one of the steps a
  setup may take.
- `SyncRun`, `SyncPass`: weak fairness of a pass's own steps: provider requests carry
  deadlines and back-off timers fire. Ticks, triggers, cancellation and Stop are not fair.
- `DeferredMerge`: weak fairness of request and worker steps; strong fairness of two
  branches of the worker's select (timeout, superseded or shut down), whose channels stay
  ready once they are, since Go's select chooses uniformly among ready channels.

Each property of a passing run is paired in `PROJECT.json` with a mutated definition
(a dropped guard, a lost reset, a swapped order), under which the
run finds it violated. The mutated forms stand in the modules next to what they mutate.

## 4. Proofs

The theorems hold for every value of the constants that satisfies the named
assumptions next to them: any number of goroutines, repositories, requests,
browsers, restarts, any capacity of rings and channels. The assumptions say that model values differ
from each other, that sets which are counted are finite, that the bounds are naturals, and the few things the code
makes sure of (a goroutine has one process, a hub's channel holds at least the cached types).
An invariant that a run checks is seldom inductive; each module says in its header
what had to be added. Theorems stand at the end of their part, the lemmas on the
helpers (sequences that ascend, cardinalities of changed sets) before it.

The proof modules extend the modules whose instances they speak about, so that theorem
and run state the same definition.

*EventHubProofs* (`HubAssumption`) holds the lemmas the two stream modules share. `HubInv`: the
ring holds the newest events in the order of their ids with none left out from the oldest on; what is
kept under an id, in the ring, in a channel or as the latest of a cached type, is one
event; each channel ascends. What `Broadcast`, `Subscribe`, `Receive` and a restart do to the hub is proved once here.

*EventStreamProofs* (`StreamAssumption`). The property that a checkpoint is sound speaks of a browser, its cause
lies in the handler: `Supplies` says that each event a browser has to be given and that
lies above what its handler delivered is in the replay, in the channel, or newer than everything
there. It holds only while replay and channel ascend (`InOrder`) and the handler of a
connection that is up has delivered exactly what the browser's checkpoint says (`Placed`).
Theorems: `StreamTypeOK`, `StreamCheckpointSound`, `StreamInOrderOnce`, `StreamStatusOnItsWay`.

*FederationEventsProofs* (`FederationAssumption`: one spoke, since only the newest handler can reach it;
the stale marker and the barrier are no event types). `FedInv` follows a frame from the ring to the
browser: `HandlerPhases` and `HandlerPosition` (what waits lies ahead of `deliveredThrough`),
`WireInOrder` and `WireCurrent` (ids ascend on the connection, the stale marker comes first),
`Connection` (past its barrier the client faces a live handler), and from these `OwedComes`,
`StatusFollows` and `StatusComes`: what the spoke lacks is on the connection, or in a channel that will
be read in full. Theorems: `FederationInvariant`, `FederationTypes`, `FederationMissesNothing`,
`FederationStatusOnItsWay`, `FederationRevokedEnds`, and `FederationRejectsNothing`: on a connection,
the comparison of consumeFrame between an event and the cursor never rejects one, so it only guards
against a hub that does not keep its order.

*SharedWorkProofs*, on `MCSharedWork` and `MCQueuedWork`, has five parts.

- Lock (`LockAssumption`: every goroutine has a process, `Nobody` is none of them). The invariant is
  `TypeOK /\ LocalNotLeaked /\ FileIsOwned /\ HolderIsMarked`. Mutual exclusion alone
  is not inductive: a goroutine that polls inside a process whose flock is
  marked would succeed at once. `LocalNotLeaked` says that no other goroutine of the process
  can then hold a handle; `FileIsOwned` ties the mark to the operating system's
  lock, so that processes exclude each other; `HolderIsMarked` ties handles
  to the mark. From these: `RepoLockExcludes` (OneMutation),
  `RepoLockHolderOwnsFile`, `RepoLockNoLeak`, `RepoLockTypeOK`. `RepoLockImplements` is the refinement: under
  the mapping of `mutators` to the goroutines that hold a handle, the initial states
  map to the abstract initial state and each step to a taking, a letting go or a
  stutter; the invariant is what makes a successful poll a taking from nobody.
- Pass (`PassAssumption`). A completed pass is complete because what was counted together with what
  workers hold never exceeds what was dispatched (`Counted`), and because each dispatched
  repository has a result or is in a worker's hand unless somebody latched the cancellation (`Accounted`).
  Theorems: `PassTypeOK`, `PassIsComplete`, and `PassAccountsForAll`, the same of the composite run.
  `PassProgressIsEarned` is about the counts themselves: section 6 shows that one may be shown after a higher one, the
  theorem that none claims more than was done. Each repository is handed out once (`HandedOutOnce`), so
  that every step that counts adds one to what is done (`Earned`).
- Merge (`MergeAssumption`: finitely many actors and pull requests). `GateInv` is `Types /\ Placed /\
  GateCountsWork /\ Phased /\ FrozenIsDrained`. The counters can only be shown exact with `Placed`: the
  pending handle of a pull request belongs to it, was not released and is at a place where its worker
  lives, so that `Clear` and `SupersedePending` release it once. `Phased` says that process and row
  agree on the phase. `MergeInv` adds who merged what (`MergedBy`, `Landed`, `Announced`,
  `SupersededIsMerged`) and that a caller past its preflight is bound to the head its user reviewed
  (`BoundIsReviewed`), which is what keeps `ReviewedHeadsMerge` true while the row moves. Theorems:
  `TypeCorrect`, `GateCountsExactly`, `FrozenAfterDrain`, `LiveWorkersArePending`, `ReviewedHeadsMerge`,
  `AnnouncedMergesLanded`, and the action property `FrozenLandsNothing` (once writes are drained and
  frozen, no merge of the daemon lands at the provider).
- Barrier. `GateIsBarrier` is the refinement of `WriteBarrier`: its work are the requests in flight and
  the handles that take or hold a place in the queue, what is written is which pull requests the daemon
  merged. A superseded worker has left the gate's count and may yet call the provider; it is no work,
  because `SupersededIsMerged` leaves it nothing to write. A worker whose handle is pending is counted
  (`GateCountsWork`), so that a gate without work freezes a queue without work (`DrainedIsIdle`).
- Archive (`ArchiveAssumption`). `Archiving` ties cursors to what was listed: `Bounded` (a scan's
  boundary is that of the row), `Listed` (an update in the scan's range that lies behind the cursor
  waits to be synchronised or was), `Shown` (a page shows every item between its cursor and the next),
  `Synced` (an item that changed while it was synchronised is listed again). `ArchiveSkipsNothing`
  proves `NoUpdateIsSkipped`, which excepts the early move of section 6, item 4; `ArchiveTypeOK` needs
  no such exception.

*SyncRunProofs* (`RunAssumption`). Four layers. `TypeInv` is `TypeOK /\ SingleFlight`, inductive
together because an ending pass hands the slot over by changing its own place. `StatusInv` adds that
`statusMu` is held across steps exactly by a publishing goroutine and that no pass is past its claim
meanwhile; hence `SyncRunStatusIsTrue`. `Retained` conjoins the three promises (accepted, scheduled,
scoped) with the fact that a pass is abandoned only after Stop; the argument follows a request from the
pending run through `Drained` into the follow-up's arguments, using lemmas on what `Coalesce` keeps.
Theorems: `SyncRunTypeOK`, `SyncRunSingleFlight`, `SyncRunStatusIsTrue`, `SyncRunRequestsRetained` and
its three parts `SyncRunAcceptedIsRetained`, `SyncRunScheduledIsRetained`, `SyncRunScopedGoesFirst`, and
`SyncRunDrainedIsQuiet` (a Stop that drained is followed by nothing). The last layer is the refinement
`SyncRunIsSlot`: `SlotInv` conjoins the others with `PendingHeld` (nothing is pending while the slot is
free), and `SlotView` says what the owner's place tells of the abstract slot; when a pass hands over,
its follow-up is the only carrier left, so it is due to reach all that waited. `SyncRunPutsOffOnce` then
follows from the abstract slot: an accepted request waits for at most the pass under way and the one
that is due, however many others come.

*ProviderAnswersProofs*, on `MCProviderAnswers`, has four parts.

- Metering (`TransportAssumption`, `QuotaAssumption`, `DenominatorAssumption`; any number of resources,
  so the joint admission over several is covered too). A count is exact, and an optional request stays
  below its ceiling, because no window is ahead of the current one (`WindowsOpened`), an attempt that
  may be refunded is still counted in its own window (`AttemptsCarry`), and a limit that is raised or
  lowered brings its own reserve (`LimitIsSet`); `PoolsShowRates` keeps counts from falling below zero.
  What a pool has reserved is stated as the number of units open attempts hold (`ReservedUnits`, a set
  of pairs), so that a step changes it by the units of one attempt and the lemmas on cardinalities give
  the sum. Theorems: `TransportTypeOK`, `TransportSpentIsExact`, `TransportCeilingHolds`,
  `TransportReservationsExact`, and the action property `TransportObservedStaySeen`.
- Cooldown (`CooldownAssumption`). Every probe looks at a generation from before it began
  (`ProbesObserve`), generations and reservations are at most at their counters (`Numbered`), each
  generation was recorded by one repository (`RecordedByOne`) and a reservation is of one generation
  (`ReservedOnce`). Theorems: `CooldownReservationIsHeld`, and the action property
  `CooldownRenewalStands`.
- Token (`TokenAssumption`). An entry from which no waiter may take an answer is marked (`MarksAreComplete`), and one
  caller mints at a time, into the cached entry (`OneMint`). Theorems: `TokenTypeOK`, `TokenMintsAlone`
  (mints of a candidate never overlap), `TokenAnswersAreOwn`.
- Acknowledgement (`AckAssumption`). What is written to a row is of the thread's past (`OfThePast`), and
  a mark-read is not forgotten before it is settled (`MarkedRead`). Theorems: `AckTypeOK`,
  `AckReadIsPropagated`.

*SpokePreparationProofs* (`PreparationAssumption`). No transaction spans the four stores, so the
invariants say what a handler between two of its steps may rely on. `AgreementInv` (enrollments are
numbered in order, seals are issued by the hub for the enrollment they name, startup is alone, an active
spoke is prepared and no handler that could undo it is under way) gives `SpokeActivationAgrees` and the
action property `SpokeRevokedStaysRevoked`, for any number of overlapping prepares. `SealInv` adds what
a seal is worth: a request that names a generation, with its prepare or sealed by the hub, is covered
(`Covers`): the hub has the state its receipts say, no acknowledgement up to the generation waits, and
none can be queued again, because generations only grow. It gives `SpokeSealIsTrue`, for overlapping
prepares too. It cannot give that the seal is of the newest state, which item 5 of section 6 shows to be
false. `BarrierInv` is `AgreementInv` with the freeze of the newest generation. `SpokeIsBarrier` is the
refinement of `WriteBarrier` for the enrollment the store has (a row left behind by an earlier one
freezes nothing for it), and `FrozenStateIsFinal` follows from the abstract specification alone: from
the freeze on the local state is what it was. That item does not contradict it: there the row is sealed
without having been frozen.

*WorkspaceLifecycleProofs* (`LifecycleAssumption`). `DoorInv` is about who is inside: the setup
admission, the status of the row and the record of active deletions agree on it (`TeardownAlone`,
`QueuedRetryServed`, the latter with what a setup that gave up leaves as its exception). The end of a
setup and the removal of the row are written whatever the status is; `StatusIsOrderly` shows that they
never come late, because a setup that has yet to write is the one builder of a row in creation and a
deletion that removes it is the one admitted. `SessionInv`, under `DoorInv`, follows each process from
its launch to its end: while it lives, its launch, the manager's map, the deletion that took it or,
after a restart, its durable record still has it in hand (`ProcessesDoNotOutlive`, `ExitedForgotten`).

To be reasoned about, a few definitions were restated with the same meaning: conversions by IF where a CASE
left the remaining case open, the hub's `After` as the end of the ring that lies above a cursor, `CachedInOrder` as
the sequence it describes. Constants got the named assumptions, among them that `"elsewhere"` is no actor and that the
budget limits have a highest one.

Only model-checked, and why:

- The liveness properties `EventuallyAccountedFor`, `EventuallyInStep`, `LockIsPassedOn`, `PassEnds`, `QueueEnds`,
  `AcceptedIsReached` and `Settles`: the prover handles neither fairness nor ENABLED.
- The properties of the five violation runs, which the code does not have.

Every other property of a passing run is stated by a theorem. The other way round, `ProgressIsEarned`, `MintsAlone`
and `StatusFollows` are stated by theorems only; TLC finds them true on the instances of `MCSyncPassProgress.cfg`,
`MCProviderAnswers.cfg` and `MCWorkspaceLifecycle.cfg` when they are added there. No module here needs RECURSIVE.

## 5. What is not modelled

The contents of synchronisation (decoding and upserts), provider adapters, SQL
beyond the rows named above, git commands, terminals, the user interface and
generated code. Within modelled components: hub status reports for the user
interface, CheckReserve's verdicts for live work, providers without head binding
in deferred merges, a gate whose durable row cannot be read, several
resources per credential in the checked instance, and hub ring overflow seen
from a spoke's stale cursor over more than one event (`event_stream` checks the same hub
code with a larger ring).

A merge whose request was given up and that lands at the provider after its caller returned is not modelled.

Left out of the workspace modules: the duplicate create of an execution worker, which begins a setup of
a row it read as creating, whatever has become of it since (`workspaceapi/execution_worker.go:104-118`;
an action for it breaks `TeardownIsAlone`, `NoProcessOutlivesWorkspace` and `StatusFollows`, so these
hold of workspaces no worker creates twice); a backend that refuses to stop its process (the code logs
it and gives the process up), the manager's Shutdown (the server drains its requests and background work
first), the resumption of a dead agent, prompt queues, and the restoration at startup that takes no
admission. Left out of the spoke modules: tokens and credential scopes, the credential store, protocol
versions, a spoke started with `fleet.enabled` off, and the content of the handoff. Of the notification
component: several rows in one pass, and rate-limit times. Of the archive: discovery mode, a stream the
provider does not offer or turns off (the documented exception to full coverage,
`context/platform-sync-invariants.md:440`), the reconciliation of coverage with capabilities, items that
are removed, inaccessible or moved away, the choice between repositories, and reports. Three things the
code does that no text promises otherwise. A setup that cannot read the row returns
(`workspaceapi/routes_handlers.go:401-409`, `463-469`). Before it looks at the queue, that leaves the
status at error and an accepted retry queued with nobody to serve it until the next setup fails; after
it started the queued retry, it leaves the row in creation with no setup under way, and later retries
are only queued, until a restart marks the row interrupted. `QueuedRetryIsServed` and `Settles` except
these two (`leftBy`), and nothing else. And no property covers these two: a cursor of an earlier process
that is not ahead of the new counter passes for a good one (ids carry no process identity;
`EventuallyAccountedFor` owes nothing to a browser whose checkpoint is of an earlier process until it
was told that it is stale, and that a cursor ahead of the counter is refused is what
`ConnectedMissesNothing` needs of the same hub code), and a `/rate_limit` snapshot is believed in both
directions within its window, so a stale one raises a pool until the next header. `ObservedStaySeen`
states that nothing else can.

## 6. Disagreements between code and text

The first five are shown by runs.

1. `ProgressNeverRegresses`. The comment on publishMonotonicProgress says that
   progress never regresses. It raises `maxShown` by compare-and-swap and publishes
   afterwards, so two goroutines can publish in the opposite order.
2. `SupersededIsSilent`. `context/deferred-merge.md` says that a superseded worker emits no event. The
   worker reads its superseded channel and announces a failure in a later step; a merge that lands
   in between is followed by a failure event.
3. `UnseenIsShown`. `github/notifications_sync.go:994` says that activity a mark-read may have
   swallowed is forced back to unread, and `context/notifications-in-activity.md` that stale queued
   work must not mark newer activity read. The upsert ignores an unread thread that is not newer
   than `source_ack_generation_at`; when the listing ticker, which runs at the same time, stores the thread as read
   between the mark-read and the reconciliation, that generation is the new version and the forced
   unread has no effect. The same happens when the answer of such a mark-read is lost or the daemon stops
   there: the retry's refetch finds a newer, read thread and stores it as read.
4. `FirstBoundaryIsCreation`. `context/platform-sync-invariants.md:446` says that a full archive keeps the
   creation time as its first maintenance boundary, because a later one can skip items. A move reported
   after the initial archive is complete and before its first maintenance scan begins sets the NULL watermark
   to the completion time (`db/queries_archive.go:684`), and what was created after its inventory's last
   page, or updated after its hydration, but before that time is not listed again.

5. `NothingLeftBehind`. `docs/federated-fleet.md:448` says that preparation waits for admitted writes,
   drains acknowledgements and hands over before it seals. StoreLocalSpokePreparationSeal checks neither
   the enrollment the row is bound to nor the generation it was frozen with, and prepares are not
   serialised. A prepare waits for the hub's seal while an abort reopens writes, a write is made and a
   second prepare of the same enrollment quiesces again; the first stores its old seal in the new row
   and saves the role. If the daemon restarts before that abort has reset role and store, the spoke
   becomes active with a write the hub does not have and an acknowledgement nobody sends. What its seal
   says is still true (`SealIsTrue`): it is a seal of older state.

The others were met while modelling; the modules follow the code.

6. A comment in `deferred_merge.go` (562-564) says that a pull request closed and reopened
   with the same head must not be merged by the queued worker. The check looks at the state of the moment, so
   a close and a reopen between two looks go unnoticed.
7. `context/retries-and-backoffs.md` says that any exit before the provider is asked abandons the
   reservation of a feature probe. `Admit` returns the error of archiveIdentityForRepo without
   abandoning (`github/sync.go:1394`), and the feature stays reserved until a sync by the user.
   `AdmitFails` models it, and `ReservationIsHeld` excepts exactly those reservations.
8. A prepare that has passed MarkLocalPreparationStarted quiesces the gate even when an abort has reopened it
   and the enrollment is about to be cleared: writes stay barred without an enrollment, and an abort
   then answers 409. Likewise a revocation that stalls between its tombstone and
   AbortSpokePreparation resets the row of a later enrollment.
9. A restored session that exits between RestoreRuntimeSessions and the end of the recovery is
   skipped by HandleRuntimeSessionExit and its record stays. `ExitedIsForgotten` excepts sessions that an
   earlier daemon started.

## 7. Plan

Done: event hub and browser streams; federation stream; worktree lock with its abstract specification,
refinement and proofs; run slot with its abstract slot, which it is proved to implement; pass; budget,
registry and transport; write gate with its abstract barrier, which deferred merge and spoke preparation
are proved to implement; spoke preparation with enrollment and lease; workspace lifecycle over runtime
sessions; token mint, feature cooldowns, notification acknowledgements; archive of a repository. Every
safety property that a passing run checks is proved.

Next:

1. Archive: features that are turned off and on again, terminal items.
2. The agent prompt queue of a session.
3. Stack detection as a pure algorithm against a reference definition.
