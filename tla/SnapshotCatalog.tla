--------------------------- MODULE SnapshotCatalog ---------------------------
(* The snapshots of one repository and what the server believes about them:  *)
(* the verified list cache and its generation, the deletion intents of users *)
(* and of the orphan scan, the scheduler's cleanup tick, retention, purging  *)
(* of a plan, pruning of the run history, and the protection that an         *)
(* unresolved restore gives to its snapshots.                                *)
(*                                                                           *)
(* A run is named by its operation and its object. The dispatcher starts one *)
(* run of the repository at a time and the repository lock of the source     *)
(* agent executes one at a time; a run that timed out may still be executing.*)
(* A restore may be on another agent, which has a lock of its own.           *)
EXTENDS Integers, FiniteSets

CONSTANTS
    Backups,         \* snapshots that backup runs of the plan produce
    Protection,      \* the snapshot a restore takes of its target beforehand
    Lists,           \* names for runs that list the repository
    None,            \* no run, no snapshot
    Prunable,        \* operations whose ended rows reach the history limit
    Requests,        \* subset of {"retention", "purge", "restore"} that are made
    FaultKinds,      \* subset of {"failure", "timeout", "cancel", "lost"}
    MaxFaults,       \* bound on the number of faults
    MaxBrowses       \* bound on the number of list requests by users

ASSUME CatalogAssumption ==
    /\ None \notin Backups \cup Lists \cup {Protection}
    /\ Protection \notin Backups
    /\ Prunable \subseteq {"backup", "forget", "list"}
    /\ Requests \subseteq {"retention", "purge", "restore"}
    /\ FaultKinds \subseteq {"failure", "timeout", "cancel", "lost"}
    /\ MaxFaults \in Nat /\ MaxBrowses \in Nat

VARIABLES
    remote,      \* the snapshots in the restic repository
    status,      \* the status of every run row
    exec,        \* the run the agent is executing
    worked,      \* it has had its effect and owes its answer
    listing,     \* progress_json of each list run: what it found, or None
    cache,       \* the list cache: its snapshots, and whether it is verified
                 \* for the current generation
    flight,      \* the list request that owns the flight: its run and whether
                 \* the generation it read is still the current one
    deletion,    \* the state of each deletion intent
    aged,        \* candidates first seen seven days ago
    scanRun,     \* scan_run_id of the cleanup state
    tick,        \* where the scheduler's cleanup tick is
    todo,        \* ended deletion runs the tick still has to treat
    subject,     \* the deletion the tick is confirming
    awaited,     \* the list run it waits for
    restore,     \* the restore request: its phase, its source, and whether
                 \* its target agent is not the one of the repository
    good,        \* history: snapshots whose backup run was recorded succeeded
    wanted,      \* history: snapshots a user, a purge or retention gave up
    faults, browses

repoVars == <<remote, status, exec, worked, listing>>
cacheVars == <<cache, flight, browses>>
intentVars == <<deletion, aged>>
tickVars == <<tick, todo, subject, awaited>>
historyVars == <<good, wanted>>
vars == <<repoVars, cacheVars, intentVars, scanRun, tickVars,
          restore, historyVars, faults>>

Snapshots == Backups \cup {Protection}
BackupRun(s) == <<"backup", s>>
ForgetRun(s) == <<"forget", s>>
ListRun(l) == <<"list", l>>
RetentionRun == <<"retention", None>>
PurgeRun == <<"purge", None>>
Keys == ({"backup"} \X Backups) \cup ({"forget"} \X Snapshots)
        \cup ({"list"} \X Lists) \cup {RetentionRun, PurgeRun}

ASSUME NoneAssumption == None \notin Keys

Active == {"queued", "running"}
Ended == {"succeeded", "failed", "cancelled"}
HiddenStates == {"pending", "running", "succeeded"}
Unresolved == restore.phase \in {"queued", "running", "manual"}

CatalogTypeOK ==
    /\ remote \subseteq Snapshots
    /\ status \in [Keys -> {"none", "pruned"} \cup Active \cup Ended]
    /\ exec \in Keys \cup {None}
    /\ worked \in BOOLEAN
    /\ listing \in [Lists -> (SUBSET Snapshots) \cup {None}]
    /\ cache \in [snaps : SUBSET Snapshots, valid : BOOLEAN]
    /\ flight \in [list : Lists \cup {None}, current : BOOLEAN]
    /\ deletion \in [Snapshots -> {"none", "candidate"} \cup HiddenStates]
    /\ aged \subseteq Snapshots
    /\ scanRun \in Lists \cup {None}
    /\ tick \in {"idle", "settle", "await", "scan"}
    /\ todo \subseteq Snapshots
    /\ subject \in Snapshots \cup {None}
    /\ awaited \in Lists \cup {None}
    /\ restore \in [phase : {"none", "authorised", "queued", "running", "manual",
                             "released"},
                    source : Snapshots \cup {None},
                    away : BOOLEAN]
    /\ good \subseteq Backups
    /\ wanted \subseteq Snapshots
    /\ faults \in 0..MaxFaults
    /\ browses \in 0..MaxBrowses

Init ==
    /\ remote = {}
    /\ status = [k \in Keys |-> "none"]
    /\ exec = None
    /\ worked = FALSE
    /\ listing = [l \in Lists |-> None]
    /\ cache = [snaps |-> {}, valid |-> FALSE]
    /\ flight = [list |-> None, current |-> FALSE]
    /\ deletion = [s \in Snapshots |-> "none"]
    /\ aged = {}
    /\ scanRun = None
    /\ tick = "idle"
    /\ todo = {}
    /\ subject = None
    /\ awaited = None
    /\ restore = [phase |-> "none", source |-> None, away |-> FALSE]
    /\ good = {}
    /\ wanted = {}
    /\ faults = 0
    /\ browses = 0

Fault(kind) ==
    /\ kind \in FaultKinds
    /\ faults < MaxFaults
    /\ faults' = faults + 1

-----------------------------------------------------------------------------
(* The generation of the cache, and runs that move it.                       *)

\* invalidateSnapshotCacheTx: generation+1, list_verified_at NULL.
InvalidateCache ==
    /\ cache' = [cache EXCEPT !.valid = FALSE]
    /\ flight' = [flight EXCEPT !.current = FALSE]

\* insertRunTx of a backup or forget run moves the generation; the run of a
\* deletion intent is inserted by ClaimSnapshotDeletionRun, which does not.
CreateInvalidating(k) ==
    /\ status[k] \notin Active
    /\ exec # k
    /\ status' = [status EXCEPT ![k] = "queued"]
    /\ InvalidateCache
    /\ UNCHANGED <<remote, exec, worked, listing, browses, intentVars,
                   scanRun, tickVars, restore, historyVars, faults>>

CreateBackup(s) ==
    /\ status[BackupRun(s)] = "none"
    /\ CreateInvalidating(BackupRun(s))

\* Retention skips a plan with no succeeded backup and a repository with an
\* active one.
StartRetentionRun ==
    /\ "retention" \in Requests
    /\ \E s \in Backups : status[BackupRun(s)] = "succeeded"
    /\ \A s \in Backups : status[BackupRun(s)] \notin Active
    /\ CreateInvalidating(RetentionRun)

DeletePlanBackups ==
    /\ "purge" \in Requests
    /\ \E s \in Backups : status[BackupRun(s)] # "none"
    /\ CreateInvalidating(PurgeRun)

\* A list run that succeeded and whose result nobody has wiped yet.
Usable(l) == status[ListRun(l)] = "succeeded" /\ listing[l] # None

Referred == {scanRun, flight.list, awaited}

\* The reader of l is done with it and only those in others may still read it.
DropList(l, others) ==
    LET gone == l \notin others /\ status[ListRun(l)] \notin Active IN
    /\ status' = IF gone THEN [status EXCEPT ![ListRun(l)] = "none"] ELSE status
    /\ listing' = IF gone THEN [listing EXCEPT ![l] = None] ELSE listing

\* SystemRun for a list: an active equivalent run is joined through its dedup
\* key. The name of an ended run that nobody refers to stands for a new row.
JoinOrCreate(l) ==
    IF \E i \in Lists : status[ListRun(i)] \in Active
    THEN /\ status[ListRun(l)] \in Active
         /\ UNCHANGED <<status, listing>>
    ELSE /\ l \notin Referred
         /\ exec # ListRun(l)
         /\ status' = [status EXCEPT ![ListRun(l)] = "queued"]
         /\ listing' = [listing EXCEPT ![l] = None]

-----------------------------------------------------------------------------
(* Execution: dispatcher, agent, answer, watchdog.                           *)

\* Nothing holds the repository lock of the source agent.
AgentFree == exec = None /\ (restore.phase = "running" => restore.away)

\* Mutant: the dispatcher does not ask for unresolved restores.
StartRun_IgnoresRestore(k) ==
    /\ status[k] = "queued"
    /\ \A j \in Keys : status[j] # "running"
    /\ AgentFree
    /\ status' = [status EXCEPT ![k] = "running"]
    /\ exec' = k
    /\ worked' = FALSE
    /\ UNCHANGED <<remote, listing, cacheVars, intentVars, scanRun, tickVars, restore,
                   historyVars, faults>>

\* processJob claims one run of the repository at a time and holds every job
\* back while another run's restore is unresolved.
StartRun(k) ==
    /\ status[k] = "queued"
    /\ \A j \in Keys : status[j] # "running"
    /\ ~Unresolved
    /\ AgentFree
    /\ status' = [status EXCEPT ![k] = "running"]
    /\ exec' = k
    /\ worked' = FALSE
    /\ UNCHANGED <<remote, listing, cacheVars, intentVars, scanRun,
                   tickVars, restore, historyVars, faults>>

\* What restic does to the repository. Retention and purge act on the plan's
\* tag, which the protection snapshot does not carry; retention keeps at least
\* one of the plan's snapshots.
WorkEffect ==
    \/ \E s \in Backups :
        /\ exec = BackupRun(s)
        /\ remote' = remote \cup {s}
        /\ UNCHANGED <<listing, wanted>>
    \/ \E s \in Snapshots :
        /\ exec = ForgetRun(s)
        /\ remote' = remote \ {s}
        /\ UNCHANGED <<listing, wanted>>
    \/ \E gone \in SUBSET (remote \cap Backups) :
        /\ \/ exec = RetentionRun /\ (remote \cap Backups = {} \/ gone # remote \cap Backups)
           \/ exec = PurgeRun /\ gone = remote \cap Backups
        /\ remote' = remote \ gone
        /\ wanted' = wanted \cup gone
        /\ UNCHANGED listing
    \/ \E l \in Lists :
        /\ exec = ListRun(l)
        /\ listing' = [listing EXCEPT ![l] = remote]
        /\ UNCHANGED <<remote, wanted>>

DoWork ==
    /\ exec # None
    /\ ~worked
    /\ WorkEffect
    /\ worked' = TRUE
    /\ UNCHANGED <<status, exec, cacheVars, intentVars, scanRun, tickVars,
                   restore, good, faults>>

\* The status of a row after its end; one that nobody will read is left out.
AtEnd(k, s) ==
    IF k \in {RetentionRun, PurgeRun} \cup {ListRun(l) : l \in Lists \ Referred}
    THEN "none" ELSE s

\* The command fails before it had its effect.
WorkFails ==
    /\ exec # None
    /\ ~worked
    /\ Fault("failure")
    /\ status' = [status EXCEPT ![exec] = IF @ = "running" THEN AtEnd(exec, "failed") ELSE @]
    /\ exec' = None
    /\ UNCHANGED <<remote, worked, listing, cacheVars, intentVars, scanRun,
                   tickVars, restore, historyVars>>

\* handleRunResult: a success ends a running row and corrects a cancelled one;
\* a purge that DeletePlanBackups still waits for moves the generation again.
ReportSuccess ==
    LET accepted == status[exec] \in {"running", "cancelled"} IN
    /\ exec # None
    /\ worked
    /\ status' = [status EXCEPT ![exec] = IF accepted THEN AtEnd(exec, "succeeded") ELSE @]
    /\ good' = good \cup {s \in Backups : accepted /\ exec = BackupRun(s)}
    /\ listing' = [l \in Lists |-> IF exec = ListRun(l) /\ ~accepted THEN None ELSE listing[l]]
    /\ IF accepted /\ exec = PurgeRun
       THEN InvalidateCache
       ELSE UNCHANGED <<cache, flight>>
    /\ exec' = None
    /\ worked' = FALSE
    /\ UNCHANGED <<remote, browses, intentVars, scanRun, tickVars, restore, wanted,
                   faults>>

\* The agent restarts and its answer is lost; the row waits for its deadline.
LoseAnswer ==
    /\ exec # None
    /\ worked
    /\ Fault("lost")
    /\ listing' = [l \in Lists |-> IF exec = ListRun(l) THEN None ELSE listing[l]]
    /\ exec' = None
    /\ worked' = FALSE
    /\ UNCHANGED <<remote, status, cacheVars, intentVars, scanRun,
                   tickVars, restore, historyVars>>

\* The watchdog fails a running row at its deadline, a user cancels it. The
\* agent may go on.
TimeOut(k) ==
    /\ status[k] = "running"
    /\ \/ exec # k /\ UNCHANGED faults
       \/ exec = k /\ Fault("timeout")
    /\ status' = [status EXCEPT ![k] = AtEnd(k, "failed")]
    /\ UNCHANGED <<remote, exec, worked, listing, cacheVars, intentVars,
                   scanRun, tickVars, restore, historyVars>>

CancelRun(k) ==
    /\ status[k] \in Active
    /\ Fault("cancel")
    /\ status' = [status EXCEPT ![k] = AtEnd(k, "cancelled")]
    /\ UNCHANGED <<remote, exec, worked, listing, cacheVars, intentVars,
                   scanRun, tickVars, restore, historyVars>>

\* PruneHistory removes ended rows older than a number of days; a request waits
\* for its list for minutes.
PruneHistory(k) ==
    /\ k[1] \in Prunable
    /\ k[2] \notin {flight.list, awaited}
    /\ status[k] \in Ended
    /\ exec # k
    /\ status' = [status EXCEPT ![k] = "pruned"]
    /\ listing' = [l \in Lists |-> IF k = ListRun(l) THEN None ELSE listing[l]]
    /\ UNCHANGED <<remote, exec, worked, cacheVars, intentVars, scanRun, tickVars,
                   restore, historyVars, faults>>

\* A hundred newer forget runs of the repository, of other snapshots or of
\* retention and purges, hide the row of a deletion from the ticks to come: for
\* them, its only readers, that is as if it had been removed.
LeaveWindow(s) ==
    /\ tick = "idle"
    /\ deletion[s] = "running"
    /\ status[ForgetRun(s)] \in Ended
    /\ status' = [status EXCEPT ![ForgetRun(s)] = "pruned"]
    /\ UNCHANGED <<remote, exec, worked, listing, cacheVars, intentVars, scanRun, tickVars,
                   restore, historyVars, faults>>

-----------------------------------------------------------------------------
(* The verified list.                                                        *)

\* SnapshotsWithOptions past the cache, also called by the warm-up after a
\* backup: it owns the flight, reads the generation and starts or joins a list.
BrowseStart(l) ==
    /\ flight.list = None
    /\ browses < MaxBrowses
    /\ JoinOrCreate(l)
    /\ flight' = [list |-> l, current |-> TRUE]
    /\ browses' = browses + 1
    /\ UNCHANGED <<remote, exec, worked, cache, intentVars, scanRun, tickVars,
                   restore, historyVars, faults>>

\* The result is read and wiped from the row, and saved if the generation has
\* not moved (SaveSnapshotListCache).
BrowseFinish ==
    LET l == flight.list
        usable == Usable(l)
    IN
    /\ l # None
    /\ status[ListRun(l)] \notin Active
    /\ status' = [status EXCEPT ![ListRun(l)] = IF l \in {scanRun, awaited} THEN @ ELSE "none"]
    /\ listing' = [listing EXCEPT ![l] = None]
    /\ cache' = IF usable /\ flight.current
                THEN [snaps |-> listing[l], valid |-> TRUE]
                ELSE cache
    /\ flight' = [list |-> None, current |-> FALSE]
    /\ UNCHANGED <<remote, exec, worked, browses, intentVars, scanRun, tickVars,
                   restore, historyVars, faults>>

\* The two minutes of snapshotBrowseWait pass first.
BrowseGivesUp ==
    /\ flight.list # None
    /\ status[ListRun(flight.list)] \in Active
    /\ flight' = [list |-> None, current |-> FALSE]
    /\ UNCHANGED <<repoVars, cache, browses, intentVars, scanRun, tickVars,
                   restore, historyVars, faults>>

-----------------------------------------------------------------------------
(* Deletion requests.                                                        *)

\* The source of an unresolved restore. Its rollback snapshot, once recorded, is
\* here too; the tag below refuses that one from the moment it exists.
ProtectedRestoreSnapshotIDs == IF Unresolved THEN {restore.source} ELSE {}

\* assertSnapshotNotRestoreProtected: no reference, a verified list that has
\* the snapshot, and no tag of a restore that is not released.
NotRestoreProtected(s) ==
    /\ s \notin ProtectedRestoreSnapshotIDs
    /\ cache.valid
    /\ s \in cache.snaps
    /\ s = Protection => restore.phase = "released"

\* QueueSnapshotDeletion inserts an intent or upgrades a candidate; an intent
\* under way or done is returned as it is. What others do between the check and
\* the write they may as well do after it.
QueueSnapshotDeletion(s) ==
    /\ NotRestoreProtected(s)
    /\ deletion[s] \notin HiddenStates
    /\ deletion' = [deletion EXCEPT ![s] = "pending"]
    /\ wanted' = wanted \cup {s}
    /\ aged' = aged \ {s}
    /\ UNCHANGED <<repoVars, cacheVars, scanRun, tickVars, restore, good, faults>>

-----------------------------------------------------------------------------
(* TickSnapshotCleanup: settle running deletions, claim one, consume a scan, *)
(* start a scan. An error of one step skips the others.                      *)

\* Mutant: only successful forget runs are looked at.
TickStart_SucceededOnly ==
    /\ tick = "idle"
    /\ tick' = "settle"
    /\ todo' = {s \in Snapshots : /\ deletion[s] = "running"
                                  /\ status[ForgetRun(s)] = "succeeded"}
    /\ UNCHANGED <<repoVars, cacheVars, intentVars, scanRun, subject, awaited,
                   restore, historyVars, faults>>

\* cleanupRunningDeletions passes over a deletion whose row is not among the
\* last hundred forget runs of the repository.
TickStart ==
    /\ tick = "idle"
    /\ tick' = "settle"
    /\ todo' = {s \in Snapshots : /\ deletion[s] = "running"
                                  /\ status[ForgetRun(s)] \in Ended}
    /\ UNCHANGED <<repoVars, cacheVars, intentVars, scanRun, subject, awaited,
                   restore, historyVars, faults>>

SettleSucceeded(s) ==
    /\ tick = "settle"
    /\ s \in todo
    /\ status[ForgetRun(s)] = "succeeded"
    /\ deletion' = [deletion EXCEPT ![s] = "succeeded"]
    /\ todo' = todo \ {s}
    /\ UNCHANGED <<repoVars, cacheVars, aged, scanRun,
                   tick, subject, awaited, restore, historyVars, faults>>

\* reconcileFailedDeletion asks the repository before it repeats anything.
SettleFailed(s, l) ==
    /\ tick = "settle"
    /\ s \in todo
    /\ status[ForgetRun(s)] # "succeeded"
    /\ JoinOrCreate(l)
    /\ tick' = "await"
    /\ todo' = todo \ {s}
    /\ subject' = s
    /\ awaited' = l
    /\ UNCHANGED <<remote, exec, worked, cacheVars, intentVars, scanRun, restore,
                   historyVars, faults>>

\* Mutant: a list without a result counts as an empty repository.
Reconciled_EmptyWhenUnreadable(s, l) ==
    IF Usable(l) /\ s \in listing[l] THEN "pending" ELSE "succeeded"

\* What a fresh list says about a deletion whose run failed.
Reconciled(s, l) ==
    CASE ~Usable(l) -> "running"
      [] Usable(l) /\ s \notin listing[l] -> "succeeded"
      [] OTHER -> "pending"

ReconcileDeletion ==
    /\ tick = "await"
    /\ status[ListRun(awaited)] \notin Active
    /\ deletion' = [deletion EXCEPT ![subject] = Reconciled(subject, awaited)]
    /\ DropList(awaited, {scanRun, flight.list})
    /\ tick' = "settle"
    /\ subject' = None
    /\ awaited' = None
    /\ UNCHANGED <<remote, exec, worked, cacheVars, aged, scanRun,
                   todo, restore, historyVars, faults>>

\* The wait times out: an error, the rest of the tick is skipped.
ReconcileTimesOut ==
    /\ tick = "await"
    /\ status[ListRun(awaited)] \in Active
    /\ Fault("timeout")
    /\ tick' = "idle"
    /\ todo' = {}
    /\ subject' = None
    /\ awaited' = None
    /\ UNCHANGED <<repoVars, cacheVars, intentVars, scanRun, restore,
                   historyVars>>

Claimable == {s \in Snapshots : deletion[s] = "pending" /\ NotRestoreProtected(s)}

\* ClaimSnapshotDeletionRun: the forget row and the intent in one transaction,
\* without moving the generation. One claim per tick, or none that is due.
ClaimPendingDeletion ==
    /\ tick = "settle"
    /\ todo = {}
    /\ \/ \E s \in Claimable :
            /\ exec # ForgetRun(s)
            /\ status' = [status EXCEPT ![ForgetRun(s)] = "queued"]
            /\ deletion' = [deletion EXCEPT ![s] = "running"]
       \/ UNCHANGED <<status, deletion>>
    /\ tick' = "scan"
    /\ UNCHANGED <<remote, exec, worked, listing, cacheVars, aged, scanRun, todo,
                   subject, awaited, restore, historyVars, faults>>

\* upsertOrphanCandidateTx: a second sighting seven days after the first one
\* makes the candidate pending; manual intents and later states stay.
OrphanState(s) ==
    CASE deletion[s] = "none" -> "candidate"
      [] deletion[s] = "candidate" /\ s \in aged -> "pending"
      [] OTHER -> deletion[s]

\* Mutant: a snapshot whose run is still looked up as running is matched, one
\* whose run has ended is not.
ScanOutcome_MatchesRunning(found, s) ==
    CASE s \in found \cap Backups /\ status[BackupRun(s)] # "running" -> OrphanState(s)
      [] s \in found \ Backups -> deletion[s]
      [] OTHER -> IF deletion[s] = "candidate" THEN "none" ELSE deletion[s]

\* FinishSnapshotCleanupScan: a tagged snapshot without a succeeded backup row
\* is an orphan. Protection snapshots have no plan and run tags.
ScanOutcome(found, s) ==
    CASE s \in found \cap Backups /\ status[BackupRun(s)] # "succeeded" -> OrphanState(s)
      [] s \in found \ Backups -> deletion[s]
      [] OTHER -> IF deletion[s] = "candidate" THEN "none" ELSE deletion[s]

\* A result that cannot be used ends the scan and leaves the candidates alone.
ConsumeCleanupScan ==
    /\ tick = "scan"
    /\ scanRun # None
    /\ status[ListRun(scanRun)] \notin Active
    /\ DropList(scanRun, {flight.list, awaited})
    /\ scanRun' = None
    /\ IF Usable(scanRun)
       THEN /\ deletion' = [s \in Snapshots |-> ScanOutcome(listing[scanRun], s)]
            /\ aged' = {s \in aged : deletion'[s] = "candidate"}
       ELSE UNCHANGED <<deletion, aged>>
    /\ tick' = "idle"
    /\ UNCHANGED <<remote, exec, worked, cacheVars, todo, subject, awaited, restore, historyVars,
                   faults>>

\* maybeStartCleanupScan. After a consumed scan the next one is 24 hours or the
\* backoff away, so a tick does not do both.
StartCleanupScan(l) ==
    /\ tick = "scan"
    /\ scanRun = None
    /\ JoinOrCreate(l)
    /\ scanRun' = l
    /\ tick' = "idle"
    /\ UNCHANGED <<remote, exec, worked, cacheVars, intentVars, todo, subject, awaited,
                   restore, historyVars, faults>>

\* The scan is under way, not due, or the agent is offline.
SkipCleanupScan ==
    /\ tick = "scan"
    /\ scanRun # None => status[ListRun(scanRun)] \in Active
    /\ tick' = "idle"
    /\ UNCHANGED <<repoVars, cacheVars, intentVars, scanRun, todo, subject, awaited,
                   restore, historyVars, faults>>

\* Runs have deadlines of hours: nothing executes through seven days.
WeekPasses ==
    /\ exec = None
    /\ \A k \in Keys : status[k] # "running"
    /\ aged' = {s \in Snapshots : deletion[s] = "candidate"}
    /\ aged' # aged
    /\ UNCHANGED <<repoVars, cacheVars, deletion, scanRun,
                   tickVars, restore, historyVars, faults>>

-----------------------------------------------------------------------------
(* The restore.                                                              *)

restoreFrame == <<status, exec, worked, listing, cacheVars, intentVars,
                  scanRun, tickVars, historyVars, faults>>

AuthorizeRestoreSnapshot(s) ==
    /\ "restore" \in Requests
    /\ restore.phase = "none"
    /\ cache.valid
    /\ s \in cache.snaps
    /\ deletion[s] \notin HiddenStates
    /\ restore' = [restore EXCEPT !.phase = "authorised", !.source = s]
    /\ UNCHANGED <<remote, restoreFrame>>

\* The target agent is the repository's own or one the user names.
CreateRestore ==
    /\ restore.phase = "authorised"
    /\ \E away \in BOOLEAN : restore' = [restore EXCEPT !.phase = "queued", !.away = away]
    /\ UNCHANGED <<remote, restoreFrame>>

\* The dispatcher waits for the rows of the repository; only the repository's
\* own agent also waits for the run it still executes.
StartRestore ==
    /\ restore.phase = "queued"
    /\ restore.away \/ exec = None
    /\ \A k \in Keys : status[k] # "running"
    /\ restore' = [restore EXCEPT !.phase = "running"]
    /\ UNCHANGED <<remote, restoreFrame>>

\* protectionBackup: a snapshot tagged restore-protection with the run's id.
ProtectionBackup ==
    /\ restore.phase = "running"
    /\ Protection \notin remote
    /\ remote' = remote \cup {Protection}
    /\ UNCHANGED <<restore, restoreFrame>>

EndRestore ==
    /\ restore.phase = "running"
    /\ \E ph \in {"released", "manual"} : restore' = [restore EXCEPT !.phase = ph]
    /\ UNCHANGED <<remote, restoreFrame>>

ResolveRestore ==
    /\ restore.phase = "manual"
    /\ restore' = [restore EXCEPT !.phase = "released"]
    /\ UNCHANGED <<remote, restoreFrame>>

-----------------------------------------------------------------------------
ExecutionNext ==
    \/ \E k \in Keys : StartRun(k) \/ TimeOut(k) \/ CancelRun(k) \/ PruneHistory(k)
    \/ \E s \in Snapshots : LeaveWindow(s)
    \/ DoWork \/ WorkFails \/ ReportSuccess \/ LoseAnswer

RequestNext ==
    \/ \E s \in Backups : CreateBackup(s) \/ AuthorizeRestoreSnapshot(s)
    \/ \E s \in Snapshots : QueueSnapshotDeletion(s)
    \/ \E l \in Lists : BrowseStart(l)
    \/ StartRetentionRun \/ DeletePlanBackups
    \/ BrowseFinish \/ BrowseGivesUp

TickNext ==
    \/ \E s \in Snapshots : SettleSucceeded(s) \/ \E l \in Lists : SettleFailed(s, l)
    \/ \E l \in Lists : StartCleanupScan(l)
    \/ TickStart \/ ReconcileDeletion \/ ReconcileTimesOut \/ ClaimPendingDeletion
    \/ ConsumeCleanupScan \/ SkipCleanupScan

RestoreNext ==
    \/ CreateRestore \/ StartRestore \/ ProtectionBackup \/ EndRestore \/ ResolveRestore

CatalogNext == ExecutionNext \/ RequestNext \/ TickNext \/ RestoreNext \/ WeekPasses

CatalogSpec == Init /\ [][CatalogNext]_vars

\* The scheduler ticks, the agent works, answers and deadlines arrive, and the
\* FIFO of the repository reaches every queued row between others.
CatalogFairness ==
    /\ WF_vars(\E s \in Snapshots : SettleSucceeded(s) \/ \E l \in Lists : SettleFailed(s, l))
    /\ WF_vars(TickStart \/ ReconcileDeletion \/ ClaimPendingDeletion
               \/ ConsumeCleanupScan \/ SkipCleanupScan)
    /\ WF_vars(DoWork)
    /\ WF_vars(ReportSuccess)
    /\ WF_vars(\E k \in Keys : exec # k /\ TimeOut(k))
    /\ SF_vars(\E s \in Snapshots : StartRun(ForgetRun(s)))
    /\ SF_vars(\E l \in Lists : StartRun(ListRun(l)))
    /\ SF_vars(StartRestore)
    /\ WF_vars(EndRestore)

CatalogFairSpec == CatalogSpec /\ CatalogFairness

-----------------------------------------------------------------------------
(* Properties.                                                               *)

\* A snapshot whose backup was recorded as succeeded leaves the repository only
\* because a user, retention or a purge gave it up: the orphan scan of the
\* cleanup tick never takes it, whatever it saw while the answer of the backup
\* was under way (FinishSnapshotCleanupScan).
BackedUpSnapshotsSurvive == good \subseteq remote \cup wanted

\* A deletion is marked succeeded only when the snapshot is gone from the
\* repository, although its forget run may fail after its effect, before it, or
\* be overtaken by its deadline (reconcileFailedDeletion).
SucceededDeletionIsGone ==
    \A s \in Snapshots : deletion[s] = "succeeded" => s \notin remote

\* A run that a restore on another agent does not wait for: its row had ended,
\* by a deadline or a cancel, and the repository's agent still executes it.
Straggler == restore.away /\ exec # None /\ status[exec] # "running"

\* While a restore writes, or waits for an operator, no run of the repository
\* is started that could take a snapshot from it: its source and everything
\* else stay although forget runs, retention or a purge may have been created
\* before it (RepositoryRestoreBlocked). The exception is a run that was ended
\* for the server only; such a run waits for the end of a restore on its own
\* agent but not of one elsewhere. Not even that one takes the protection
\* snapshot.
RestoreSnapshotsSurvive ==
    [][restore.phase \in {"running", "manual"} =>
         /\ remote \subseteq remote' \/ Straggler
         /\ Protection \in remote => Protection \in remote']_vars

\* A deletion under way does not stay under way: it is completed or offered
\* again, unless a restore of the repository waits for an operator or its
\* forget row is out of the reach of cleanupRunningDeletions, removed by the
\* history limit or older than the last hundred forget runs.
RunningDeletionSettles ==
    \A s \in Snapshots :
        deletion[s] = "running" ~>
            \/ deletion[s] # "running"
            \/ restore.phase = "manual"
            \/ status[ForgetRun(s)] = "pruned"
=============================================================================
