# Verification of BackupManagementCenter

TLA+ models of the parts of BackupManagementCenter that are hard to test: how the
server delivers runs to the agents that carry them out, how a restore keeps its
target safe while messages are lost, processes restart and people cancel, how
snapshots are listed and deleted, and how plans, agents and repositories keep
their rows consistent. The modules are model-checked on small instances with TLC;
their safety properties are also proved with TLAPS for every instance. Liveness
is model-checked only.

## The system

A server (`cmd/server`, `internal/server`) keeps plans, repositories, runs and
restore requests in SQLite. Agents (`cmd/agent`, `internal/agent`) hold a gRPC
stream to the server, receive commands and run restic and database tools.

| Part | State | Operations | Correct when | Module |
|---|---|---|---|---|
| Run rows (`store/sqlite.go`) | `runs.status`, `lease_expires_at` | `CreateRun`, `TransitionRun` (compare-and-set along `validTransitions`), `ReconcileCancelledRunSuccess` | terminal rows stay, `succeeded` means the work was done | `RunLifecycle`, `RunDispatch` |
| Dispatcher (`dispatchgrpc`) | a queue and a worker per repository, `enqueuedRuns`, `processingRuns` | `Enqueue`, `processJob`, `Cancel`, watchdog | one command per repository at a time; no queued row is forgotten; unsafe work is not repeated | `RunDispatch` |
| Handlers (`agentreg/service.go`) | - | `handleCommandAccepted`, `handleRunProgress`, `handleRunResult`, `handleDisconnect` | late, repeated and lost messages do no harm | `RunDispatch`, `RestoreOccupancy` |
| Runner (`agent/runner.go`) | running map, cache of finished results, pending and unconfirmed results, repository locks, slots | `Execute`, `Cancel`, replay on a new stream | a redelivered command is executed again only for a known cause | `RunDispatch` |
| Restore requests (`store/sqlite.go`) | `restore_requests.phase` | two ways to insert, `UpdateRestorePhase`, `FinishRestoreRun`, `RequestRestoreStop`, `ResolveRestoreRequest` | one database restore occupies at a time; a phase that releases it is true | `RestoreOccupancy` |
| Restore pipeline and adapters (`agent/pipeline`, `agent/backup`) | the target, the protection snapshot | download, preflight, protection backup, import, verification, rollback | what it reports about the target is so; the old data is somewhere | `RestoreExecution` |
| Backup pipeline and adapters | the export, the tagged snapshot | scope checks, export, tag search, upload | a recorded backup is complete, a retry does not duplicate it | `BackupExecution` |
| Snapshot catalogue (`jobs`, `store`, `scheduler`) | list cache and generation, deletion intents, cleanup scan | lists, deletions, orphan scan, retention, purge, history pruning | good snapshots stay, completed deletions are gone | `SnapshotCatalog` |
| Scheduler (`scheduler`) | cursors in memory and in the database | cron tick | a slot runs once; edits drop old slots | `PlanSchedule` |
| Agents (`agentreg`, `agent/enroll.go`) | rows, tokens, identity files, registry of streams, capabilities | enrol, take over, connect, heartbeat, revoke, offline check | a token enrols once, commands go to the live stream, the status converges | `AgentSessions` |
| Repository binding (`jobs`) | the row, its password, the remote repository | bind, unbind, late init results, target deletion | `ready` opens the remote | `RepositoryBinding` |
| Restart recovery (`cmd/server/main.go`) | - | `recoverStaleRuns`, queue rebuild | nothing is lost or replayed | `RunDispatch`, `RestoreOccupancy` |

The parts meet in the database rows and on the streams. Workers, handlers, the
watchdog, HTTP requests and the scheduler run concurrently; nearly every one of
them reads a row, does something slow, and writes the row with a compare-and-set
against what it read. The hard behaviours are those windows, lost and repeated
messages, results that arrive after a cancel, a timeout or a restart, and a crash
between two writes. `PROJECT.json` lists them as hazards, each at its line.

## Modules

- `RunStates`: the states of a run and the edges of `validTransitions`.
- `RunLifecycle`: what a run promises, without queues, streams or agents.
- `RunDispatch`: delivery of every run that is not a restore, from the inserted
  row to the recorded result. It implements `RunLifecycle` (`LifecycleSpec`).
- `RestorePromise`: what the agent promises of one restore: when it may touch the
  target and what each reported phase says of it.
- `RestoreOccupancy`: restores, with both rows, the occupancy, cancellation with
  a grace period, the operator, and the agent's phases. Each of its restores
  implements `RestorePromise` (`PromisesKept`).
- `RestoreExecution`, `BackupExecution`: one restore and one backup on the agent,
  command by command. The restore implements `RestorePromise` (`PromiseKept`).
- `SnapshotCatalog`: the snapshots of a repository and the server's view of them.
- `PlanSchedule`, `AgentSessions`, `RepositoryBinding`: a plan, an agent, a
  repository.
- `*Proofs`: one for each component from `RunDispatch` to `RepositoryBinding`, with
  its inductive invariant and its theorems.
- `MC*`: instances for TLC. `MCControlPlane` and `MCLiveness` put components that
  share no state side by side.

### RunDispatch

A worker's program counter follows `processJob`: popped, marked, checked,
claimed, sent, polling, to be requeued. Each database transaction, lock section
or send is one action, so the windows between them are interleavings: a job
popped and not yet marked, a row listed by the watchdog and not yet treated, a
row read by `Cancel` and not yet written, a stream unregistered whose
`handleDisconnect` has not listed its runs. An agent keeps `running`, the LRU
cache, pending and unconfirmed results. A server crash keeps only the database;
an agent restart loses all of the agent's memory.

On the agent, `Execute` and the goroutine of a run meet in two places under two
locks. `Execute` looks into the cache (`ReplayResult` or `CacheMiss`; `looking` is
the run it has missed) and later into `running` (`IgnoreDuplicate`, or
`AcceptCommand` with its failures). A goroutine caches its result
(`FinishPipeline`, `GiveUpWaiting`), sends it and gives its lock and slot back
(`SendResult`), and leaves `running` last (`Unregister`). `slipped` counts the times
it left while `Execute` was between its two looks at this run. Messages from
the server wait for `Execute`, as in `streamLoop`, and a new stream waits for it too.

Abstractions. A lease is live or expired, and a deadline passes when the model
says so; a lease that expires while its command or answer is under way is a
fault, because it takes two minutes of silence. The two list queries of
`checkTimeouts` are one tick. The three compare-and-sets of `handleRunResult`
are one step: they are tried in order by one goroutine, and the interleaving of
another write between them ends in the same refusals. `stream.Send` of a result
and `markResultSent` are one step. `Send` blocks when a
channel is full: that is a guard on the stream's length. `Cancel` is called once
per run. Messages of a replaced stream are lost at the replacement. Runs without
a repository share the queue of the empty name, which is one more repository
here. `RepositoryRestoreBlocked` holds jobs back while a restore is unfinished;
in this module no restore exists (`SnapshotCatalog` has it).

### RestoreOccupancy

The dispatcher's queue is abstract: the idle worker of a repository takes any
queued restore. Claim, send, failure exits and polling are as in the code, with
the capability check of `SendWithCapability`. `status` and `phase` are separate,
and are written in one step only where the code has one transaction:
`handleCommandAccepted` writes the run and then the phase, `recoverStaleRuns` ends
the run and then the request, a filesystem restore inserts the run and then the
request. Messages are kept per restore, in order; the agent's result cache is left
out because no second command is ever sent (`RestoresRunOnce` proves it). `target`
is a history variable: original, modified or restored; so is `reported`, the phase
of the agent's result. An agent whose stream is unregistered stands for one whose
row says offline. Retrying a restore request that equals an active one returns the
existing row and changes nothing.

### RestoreExecution and BackupExecution

`RestoreOccupancy` treats an import as one step; `RestoreExecution` opens it. The
target is a set of objects, each with a schema and rows, so that a load cut short
leaves tables without their data, which a verification by names cannot see. A
step is a command of the engine's adapter, and each may fail or be killed with
any part of its effect done. Another session may hold the target and another
actor may create it. Outcomes are the phases the pipeline reports. A filesystem
restore has two steps, the checks of the target (`CheckFiles`) and restic
(`RestoreFiles`): a file that appears in between is not overwritten under
`overwrite_mode` `never`, so a success means that every file of the snapshot is in
the target or was kept from it by such a file (`Delivered`).

`RestorePromise` joins the two views of a restore. `RestoreOccupancy` shows that
the server's decisions are right if the agent behaves like it, and that replays,
lost streams and restarts do not make the agent break it; `RestoreExecution` shows
that the pipeline and the five adapters behave like it. A restore is then at a
stage (preparing, protecting, restoring, rolling back, ended) with a target that
is original, modified or restored, where original is the old content exactly.

`BackupExecution` has the rights of the source's account and the flags of the
plan's `extra_args`, as sets, and what each dump tool leaves out for want of a
right while it exits with 0; the adapters' checks refuse or warn. The run is
delivered again when the agent dies before its answer is recorded. What the tools
do is taken from the adapters' use of them and is marked external.

### SnapshotCatalog

One repository. A run is named by its operation and object, starts when no other
run of the repository is active and no restore blocks it, has its effect, and
answers; it may fail with or without its effect, run past its deadline, be
cancelled or lose its answer. The list cache is a set and whether it is verified
for the current generation; `flight` is the browser's request that owns the list
run. The cleanup tick is sequential, as in the scheduler, and waits for the list
run that confirms a failed deletion. Seven days are one action, `WeekPasses`.
A restore is on the repository's own agent or on another (`away`): the dispatcher
waits for the rows of the repository in both cases, but only its own agent also
waits for the run whose path lock it holds, which may go on after its row has
ended by a deadline or a cancel (`Straggler`). The tick reads the last hundred
forget runs of the repository: `LeaveWindow` makes the row of a running deletion
one that it does not see, as a pruned row is.
`good` and `wanted` are histories.

Abstractions. A check and the write that follows it in one handler are one step
where no other writer of the row exists. A protection snapshot is covered by its
tag. The consumption of a scan and the start of the next are not in the same
tick. Rows that nobody reads again are dropped, so that names of list runs can be
used again. The cache of directory trees, which follows the same generation, is
left out.

### PlanSchedule, AgentSessions, RepositoryBinding

A schedule is the set of its slots and time advances slot by slot. The tick is
split where the code writes: read and decide, create the run, save the cursor.

`AgentSessions` has one agent identity, machines that may hold it, and stream
slots that are reused. `last_seen_at` is fresh or stale. Every transaction of
enrolment, connection, disconnect, revocation and offline check is a step.

`RepositoryBinding` has one agent and target, rows known by their passwords, and
a remote that opens with the password it was initialised with. Probe and init
runs belong to the row; a wait may give up at any time.

## Runs

| Run | Instance | Shows |
|---|---|---|
| `dispatch_safety` | a retry-safe run with any 2 faults, or an unsafe one with two at a time of a cancel, a deadline and 1 fault | a redelivered run executes again only after a restart of the agent or through the window of `Execute`; an unsafe run starts once; both markers are live; at most two jobs per run; `RunLifecycle` is implemented |
| `dispatch_exclusive` | 2 runs of one repository, 1 fault and then perhaps a failing build | their rows are never both dispatched or running, unless a worker let go of one; a run executes again only if its result was evicted or through the window of `Execute` |
| `dispatch_liveness` | 1 run, 1 fault or a cancel, fair | every run settles |
| `restore_safety` | 1 database restore with any 2 faults, or a cancel and 1 fault; 2 database and 1 filesystem restore side by side | released phases are true, the occupancy covers whatever may still write and is held once, the pipeline starts once, terminal phases are final; `RestorePromise` is implemented; only known causes orphan a request |
| `catalog_safety` | 1 backup, 1 protection snapshot, 2 lists, 2 browses, retention, purge, a restore on either agent, 1 fault and a wait that gives up | good snapshots leave only on request, completed deletions are gone, nothing is forgotten under a restore but by a straggler under one elsewhere |
| `control_plane` | each of 5 components in turn | see below |
| `liveness` | a database or a filesystem restore with a cancel or 1 fault (its deadline, if it has one, among them); sessions; the catalogue with 1 fault; in turn, fair | a restore ends released or resolvable, the status column converges, a deletion settles unless its forget row is out of reach |
| `restore_mutual_block` | 2 filesystem restores of one repository | violated: finding 1 |
| `restore_orphan` | 1 database restore, agent offline | violated: finding 2 |
| `restore_shared_target` | 2 filesystem restores to one directory | violated: finding 3 |
| `catalog_history_prune` | 1 backup, pruned history, no faults | violated: finding 4 |
| `backup_partial_reuse` | 1 backup, 2 attempts | violated: finding 5 |

`control_plane` checks of plans that a slot runs once, that an edited plan drops
the old slot, that the plan of an active run stays, and that a manual request is
refused only when an equivalent run ended meanwhile; of sessions that commands go
to the live stream, that a database restore goes only to a build that reported
support on that connection, and that a token enrols one machine; of bindings that
`ready` opens the remote, that nothing stays pending, that binds do not collide
and that an attached repository has its target; of restores that the outcome is
true, that the old data is always in the target or in the protection snapshot,
that a rollback fails only for a cause, and that `RestorePromise` is implemented;
of backups that a dump is complete or says what it lacks, and that a retry reuses
its snapshot.

Two properties are about markers of the dispatcher. `enqueuedRuns` makes `Enqueue`
drop a call and `processingRuns` hides a run from the watchdog; a marker without a
job would leave the run queued until the server restarts, which the comment at
`dispatcher.go:276` reports of an older version. `EnqueuedMarkerIsLive` and
`ProcessingMarkerIsLive` say that there is none, also while the watchdog has made a
second job of the run.

Composition. Components that share no state are checked in one run: a behaviour
chooses its `focus` at the start and the others stay in their first state, so the
state space is the sum of theirs and not the product.

Bounds. One run is enough for redelivery, because runs meet only in the queue of a
repository and in its lock, which `dispatch_exclusive` has with two. Two faults
allow a fault during the recovery from another one. `ChannelCap` of two holds a
command and a cancel; the properties do not depend on a larger buffer, which only
delays the blocking of `Send`. `CacheCap` is one, so that the two runs of
`dispatch_exclusive` evict each other's results. `WithinBounds` and
`CancelOrFault` keep the costly dimensions apart: many faults with one run,
several restores without faults, a cancel or a fault; `Prompt` lets a goroutine
that has its result, and `Execute` between its looks, go on at once unless they
are about the same run: only then does a pause show more than the same step of
others just before or after it; `Handling` closes that window in
`dispatch_liveness`. `EnqueuedBeforeFault` lets the fault of
`dispatch_exclusive` come after both runs have their jobs, since rows without a
job meet faults in `dispatch_safety`, and `ThenBuildFails` lets only a failing
build follow it. The second fault of `catalog_safety` is the wait that only a
failed deletion starts; it comes with one browse at most and a restore on the own
agent. `SessionBounds` does so for the sessions: in `control_plane` a takeover by
a second machine, or one machine with one administrator's step or fault, and no
heartbeats; these are in `liveness`, with one machine. Plans have two schedules,
three instants, two edits and one crash, enough for a crash or edit between the
steps of a tick and another tick after it. Bindings have two concurrent calls, two
rows (the second with another password for the same remote, and without plans) and
one fault. `liveness` has one restore at a time, of either kind, because two that
are queued together and a cancel between the two inserts of a filesystem restore
are known to leave a request open (findings 1 and 2); a database restore meets a
cancel request, or its deadline and the grace period, or a broken link, a crash or
a missing temporary directory; `ChannelCap` is one there, and the catalogue's
restore is on the own agent. Old and new content of a target have two objects
each, one name in common. Deadlock is not checked: a system with all work done and
no faults left may stop.

Fairness. Workers, handlers, the watchdog and the agents' goroutines are weakly
fair: Go schedules them, and each retries. Streams deliver, agents reconnect (the
client loops with a backoff) and pipelines end (external tools have deadlines).
The watchdog lists a row that stays overdue. A restore that can be taken again and
again is taken (strong fairness), because requeued jobs go to the tail of a queue;
so are the forget and list runs of `SnapshotCatalog`, which alternate in the same
queue. `MCLiveness` states one condition for several actions of which only one is
enabled at a time, and for all restores together where a behaviour has one; this
is the same fairness with fewer conditions. In `AgentSessions` the handlers and
the offline loop are fair, a connected agent sends heartbeats and time passes, but
a broken connection need not be noticed: the server sets no keepalive. Users, the
operator, faults and the stale-queue tick owe nothing. `EveryRunSettles` needs the
timeouts: without them a result lost by a failing store write leaves the row
running.

## Findings

1. Two queued filesystem restores of one repository block each other for ever.
   `RepositoryRestoreBlocked` (`sqlite.go:2071`) counts the other request although
   it is only queued; the comment in `processJob` speaks of later commands.
2. `tickStaleQueued` (`scheduler.go:441`) ends a queued restore run and not its
   request, which then blocks the repository, and for a database restore every
   other database restore; `orchestrator.go:454` explains why both must end
   together. The same state is left by a failing `BuildCommand`, by a failing
   `SaveRunTargetPassword`, by a crash between the two writes of
   `recoverStaleRuns`, and by a filesystem request that is inserted after its run
   was cancelled (`orchestrator.go:1534`). `OrphansHaveNoOtherCause` proves that
   these five are all.
3. `activeRestorePhases` (`sqlite.go:1814`) misses `running`, in which a filesystem
   restore stays while it writes, so a second restore to the same directory is
   admitted.
4. `PruneHistory` (`sqlite.go:957`), which a positive `BMC_HISTORY_RETENTION_DAYS`
   turns on, deletes the rows of succeeded backups. The orphan scan knows good
   snapshots only by these rows (`sqlite.go:3437`): it makes their snapshots
   candidates and, a week later, deletions.
5. A retried backup takes any snapshot with its tag for a completed upload
   (`pipeline.go:257`). restic stores one without the unreadable files and exits
   with 3, which is a failure; if the agent dies before the failure is recorded,
   the retry reports the incomplete snapshot as a success.

### Limits met while modelling

Outside the properties or the bounds of the runs:

- Dispatch. If `GetRun` fails while a worker polls (`dispatcher.go:355`) the job
  is dropped and the next command of the repository is sent beside the one under
  way. So it is when a second delivery of a run cannot be built or sent while the
  agent executes the first. `OneActiveRunPerRepository` excepts such runs and
  shows that two rows are active together in no other way. It says nothing of the
  agent: after a broken stream or an early lease the first run is queued again
  while the agent still executes it, and the next run's command is sent; then only
  the agent's lock of the repository's path keeps the executions apart. The two
  looks of `Execute` (`runner.go:176` for idempotency, `runner.go:183` for
  duplicates) miss a goroutine that caches its result after the first and leaves
  `running` before the second, so a redelivered run is executed again: TLC finds
  it as soon as `slipped` is left out of `RedeliveryIsIdempotent`. A result the
  server has not read counts as confirmed once any other message of the server
  arrives (`runner.go:496`): with two restores on one agent and one broken link, a
  restore can stay `running` with no deadline until an operator cancels it. The
  same happens when an agent restarts and its new stream replaces the old one
  before that is noticed.
- Cancellation. A cancel sent between claim and send reaches the agent before the
  command and is ignored; acceptance then clears the grace deadline and replaces
  `cancelling` by `running`. A repeated stop request extends the grace, although
  the comment at `sqlite.go:2092` says otherwise.
- Sessions. `Connect` writes back the row it read (`service.go:303`), secret hash
  included, and can undo a takeover that committed in between.
- Binding. `markRepositoryError` may overwrite a `ready` that arrives between its
  read and its write; a late success of a cancelled init attaches a detached
  repository again; a plan may be created between the check and the detach of
  `UnbindRepository`; a target may be deleted while a detached row is bound
  again; a cancelled probe leads to an init of an existing remote, and the row
  stays `error` until the next bind.
- Restores. A restore on another agent does not wait for a forget run that was
  timed out or cancelled on the server and still executes at the repository's
  agent, which may remove the snapshot being restored (`Straggler`). A rollback
  uses the character set of the restored snapshot; the database restore lock
  ignores the context while it waits (`pipeline.go:438`); the SQLite adapter
  renames after a check that the target does not exist; a PostgreSQL owner without
  CREATEDB passes the rebuild check and cannot create what was dropped; what
  others write to the target after the protection export is lost.
- Backups. `AgentDies` ends restic with the agent; outside a container, where
  restic is not killed with its parent, it could store its snapshot after the
  retry's listing, and the run would have two. `--ignore-table` counts as an
  explicit selection and skips the scope checks; the fallback copy of SQLite may
  be stale; a failed listing leads to a second snapshot of the run.
- Catalogue. `cleanupRunningDeletions` reads the last 100 forget runs only; a pruned
  forget row leaves its deletion running for ever; pending deletions wait until
  someone refreshes the cache; a browse clears the progress of a list run that
  another request joined; a joined list may be older than the generation read;
  the comment at `scheduler.go:183` says the tick does not wait, but confirming a
  failed deletion may wait for minutes.
- Scheduling. A failed retention run is repeated on every tick, though
  `scheduler.go:261` says at most once per day; a plan that is enabled again fires
  its old slot at once; an edit and a restart within one tick fire the old slot,
  as `scheduler.go:380` says.

## Proofs

Every safety invariant and every action property that a passing run checks, and
the refinements of `RunLifecycle` and `RestorePromise`, is a theorem: it holds for
any number of runs, restores, snapshots, agents, machines, faults and cancels, not
only on the instances of the runs. The type invariants are theorems too, for each
of the eight modules; no run repeats them. `PROJECT.json` lists the theorems with
the property each one states.

An inductive invariant was first checked by TLC on the run's instance and then
proved in three facts: it holds initially, a step keeps it, it implies the
property. A proof about a long next-state relation starts from effect lemmas,
which say once what any step can do to a few variables; the invariants are then
proved against these few shapes and not against every action again.

| Module | Assumes | Theorems beside type correctness |
|---|---|---|
| `RunDispatchProofs` | `DispatchAssumption`: the constants have their types, every set of runs and the queue and cache limits included | `MarkersAreLive`, `EnqueuedMarkersAreLive`, `NeverThreeJobs`, `UnsafeRunsStartOnce`, `RepositoryRunsExcludeEachOther`, `RedeliveriesArePaidFor`, `LifecycleImplemented` |
| `RestoreOccupancyProofs` | `RestoreAssumption`: types, `NoRestore` is no restore | `DatabaseRestoresExcludeEachOther`, `FinalPhases`, `RestoresRunOnce`, `OccupancyCovers`, `SafePhasesAreTruthful`, `AgentsKeepPromises`, `OrphansHaveNoOtherCause` |
| `RestoreExecutionProofs` | `NamesAssumption`: neither content is empty | `OutcomesAreTrue`, `OldDataStaysSafe`, `RollbacksFailForCause`, `PipelineKeepsPromise` |
| `BackupExecutionProofs` | `AttemptsAssumption`: at least one attempt | `DumpsAreComplete`, `RetriesReuseSnapshots` |
| `SnapshotCatalogProofs` | `CatalogAssumption`, `NoneAssumption`: types, names differ | `SucceededDeletionsAreGone`, `RestoresKeepSnapshots`; with `"backup" \notin Prunable`, `GoodBackupsSurvive` |
| `PlanScheduleProofs` | `ScheduleAssumption`: schedules are sets of instants | `SlotsRunOnce`, `EditsDropOldSlots`, `ActiveRunsHavePlans`, `RefusalsAreJustified` |
| `AgentSessionsProofs` | `SessionAssumption`: there is a token, `NoStream` and `NoMachine` are none | `LiveStreamsAreCurrent`, `RestoresNeedOwnReport`, `TokensEnrolOnce` |
| `RepositoryBindingProofs` | `BindingAssumption`: at least one row | `ReadyRepositoriesOpen`, `NoRowLeftPending`, `NoBindCollides`, `RepositoriesKeepTargets` |

The hypothesis of `GoodBackupsSurvive` says that history pruning does not reach
backups (`BMC_HISTORY_RETENTION_DAYS` is not positive). Finding 4 is the
counterexample without it.

### Why the properties hold

`RunDispatch`. `DispatchInv` is the type invariant with the links between the
parts: a worker that is not idle holds a run of its own repository (`WorkerInv`), a
message is about a run of its stream's agent and a success about a pipeline that
succeeded (`MailInv`), a worker past its claim holds a run whose row exists
(`ClaimedInv`). On top of it:

- `JobsInv`: a run that `enqueuedRuns` does not have has at most one job, the one its
  worker holds included, so `Enqueue` makes at most a second.
- `EnqueuedMarkerIsLive` is inductive with `DispatchInv`: whatever takes the last
  job of a run out of its queue and out of the worker's hands also removes the
  marker (`EnqueuedStep`), and another worker cannot touch it (`JobStays`).
- `UnsafeInv`: the command of an unsafe run is still to be sent, on the stream,
  with the agent or consumed, and only one of these. `starts <= 1` alone is not
  inductive, since a second command could be under way.
- `ExclusiveInv`: an active run is held by its worker in `send` or `poll`, unless the
  worker let go of it after an error or the recovery is about to end it.
- `PaidInv`: all the starts of a run are paid for by restarts of the agent,
  evictions of its result and passages through the window of `Execute`, except one
  that is on account (`OnAccount`): it executes, or it waits for nothing and its
  result is cached, and if `Execute` has missed that result, the run is still in
  `running`.
- `LifecycleStep`: every step is an advance along `validTransitions`, a
  reconciliation or a stutter of `RunLifecycle`.

`RestoreOccupancy`. Exclusion is not inductive because an insert writes `queued`
over whatever the request held; `RowsAgree` supplies that a run that does not exist
has no request, and `QuietStep` that every other step leaves absent and released
phases alone. The other three theorems need to know where the one command of a
restore is (`CommandInv`: not sent while the run is queued, with the worker, on the
stream, or with the agent), that every result on the way or held for replay is
true and follows the end of the pipeline (`ResultInv`), and that nothing but such a
result, or the server's knowledge that nothing was sent, releases (`ReleaseInv`).
`PassiveStep` and `RowStep` are the effect lemmas.

`AgentsKeepPromises` needs `CommandInv` at one point: an `execute` that arrives finds
a restore that never started and never reported, so the abstract stage goes from
preparing to preparing and not from ended back. Every other step of the agent is
one step of the promise, and every step of the server is a stutter.
`OrphansHaveNoOtherCause` goes through the steps that end a run or open a phase:
each of the others either writes both rows, or ends a run whose request is
absent, terminal or about to be ended by recovery (`startup`).

`RestoreExecution`. `ExecutionInv`: until the import begins the target is as it was
(`Untouched`); once a step that writes is reached on a target that held data, the
protection snapshot holds that data (`Prepared`); PostgreSQL loads into an empty
database (`LoadsIntoEmpty`); what is verified was loaded completely
(`VerifiesLoaded`); nothing is reported before the end (`SilentUntilDone`).
`PipelineKeepsPromise` needs two of them in a stronger form than the invariants
do: MongoDB too loads into an empty database when it overwrites, and what a
rollback verifies is the old content and nothing else. `OutcomeIsTrue` only asks for
the old content to be there; the promise asks for the original. The step lemmas
are by stage (`EarlyPromise`, `ImportPromise`, `EndPromise`), since the mapped stage
depends on the program counter alone.

`BackupExecution`. `ContentInv`: the exported content and that of every tagged
snapshot of a database is whole but for what the plan excludes or a warning
names. `CountInv`: an attempt that uploads has seen no tagged snapshot, or is
counted as one that could not list.

`SnapshotCatalog`. `HeldBack`: while a restore writes or waits for an operator no
row of the repository is running, and the agent executes a run only if the
restore is on another; `RestoresKeepSnapshots` follows, since no deletion refers to
the protection snapshot before its restore is released (`PastInv`). `ExecInv`
and `ListInv`: what the agent's current run has found or forgotten is still so
while its answer is under way, because nothing else works on the repository but
the protection backup of a restore elsewhere, which a list that nobody waits for
may lack. `PastInv`: a snapshot that a cache, a list, a deletion or
a forget run refers to is not stored later. `GoneInv`: a list awaited by the tick
shows its subject if it exists. `GoodInv`: what the orphan scan takes for an orphan
belongs to a backup that will not succeed any more; the week of waiting is what
guarantees it.

`PlanSchedule`. `ScheduleInv`: a slot in hand is a slot (`DueSlotIsSlot`), `starts`
counts rows (`StartsCountRows`), a cursor belongs to the schedule it was computed
for (`CursorOfItsSchedule`), a refused request met a run (`RefusedHasRun`).

`AgentSessions`. `TokenInv`: a token is unused, held by one machine whose enrolment
is between consuming it and writing the row, or used up with at most one machine
enrolled. `StreamInv`: a stream that is registered and not
cancelled is the registry's, since a replacement cancels the one before, and what
a record says of a build was reported on that stream.

`RepositoryBinding`. `BindingInv`: one bind at a time is past the lock (`OneBinder`),
the row of a bind that is under way is its own (`BoundRows`), a creator still finds
no row (`CreatorFindsNone`), a shared probe is kept (`ProbeIsKept`), a recorded
success means the password opens the remote (`SuccessOpensRemote`), and a pending
row has its call or a crash (`PendingHasCall`).

### What the proofs changed

- `RedeliveryIsIdempotent` was false for two runs: a result evicted from the
  agent's cache lets a redelivered run execute again. With one run the cache never
  evicts, so TLC had not met it. The property now counts evictions (`evicted`), and
  `dispatch_exclusive` checks it with two runs and a cache of one.
- `OneActiveRunPerRepository` needed another exception: when a run is delivered a
  second time and this command cannot be built or sent, the worker lets go of the
  run while the agent may still execute the first. `BuildFails` and `SendFails` now
  record it in `letGo`, and the second fault of `dispatch_exclusive` reaches it.
- The first `ReleaseInv` said that an ended run with an open request was never sent
  unless recovery is between its two writes. A second crash there leaves an ended
  run that was sent (the state of finding 2). `SafePhaseIsTruthful` is still true,
  because no cancel that had read `queued` survives the restart.
- The filesystem restore was one step, so nothing could happen between the check
  that the target is empty and restic. Splitting it for the promise showed that a
  success under `never` may lack a file that another actor put there first;
  `OutcomeIsTrue` now says so (`Delivered`), and the model has the flag's meaning.
- The list of causes of finding 2 was incomplete: the first
  `OrphansHaveKnownCauses` failed in the step that inserts the request of a run
  cancelled since.
- `PaidInv` was proved while `Execute` and the end of a goroutine were one step each.
  With their steps apart it failed in `Unregister`, and `slipped` is what it takes.
- `HeldBack` said that the agent executes nothing during a restore, which is so of
  the repository's own agent only; with `away` the protection snapshot needed a
  statement of its own.
- The guards of two cases in `Reconciled` (`SnapshotCatalog`) overlapped; the cache
  of `RunDispatch` was written with operators the provers can reason about.

### Only model-checked

`EveryRunSettles`, `EveryRestoreEnds`, `ConnectedAgentShownOnline`,
`GoneAgentShownOffline` and `RunningDeletionSettles`: liveness under fairness is out
of the prover's reach. The violations of the findings are counterexamples and
need no proof.

## Not modelled, and the plan

The HTTP API, authentication, the web UI, notifications, metrics, logs, secrets
and configuration translate requests or observe; they decide nothing about the
state above. rclone is an external program with a generated configuration. Of
partly modelled components, these are left out: the weekly
check, the directory-tree cache, log batches, validation of requests, command
lines and the parsing of tool output.

What could follow: an abstract specification of `SnapshotCatalog`, a set of snapshots
with requests to delete, as `RunLifecycle` is for runs; and a composition in which
`RestoreOccupancy` takes its agent from `RestoreExecution`, where the two now meet
only in `RestorePromise`.
