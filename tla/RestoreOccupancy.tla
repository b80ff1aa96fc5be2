-------------------------- MODULE RestoreOccupancy ---------------------------
(***************************************************************************)
(* Restores: the pair of rows runs / restore_requests, the occupancy that  *)
(* admits one database restore at a time, the dispatcher's special cases   *)
(* for restores, cancellation with a grace period, disconnects, restart    *)
(* recovery, the operator's resolution, and the agent's restore pipeline   *)
(* with its protection backup and rollback.                                *)
(*                                                                         *)
(* The dispatcher's queue is abstract here (RunDispatch has it in full):   *)
(* the idle worker of a repository takes any of its queued restores.       *)
(* Messages are kept per restore, because the handlers of different runs   *)
(* do not disturb each other; within a restore their order is the stream's.*)
(***************************************************************************)
EXTENDS Naturals, Sequences, FiniteSets, RunStates

CONSTANTS
  Restores,           \* restore run IDs
  Databases,          \* the restores of a database kind; the rest are filesystem
  Repositories,       \* source repositories
  Agents,             \* target agents
  NoRestore,          \* a worker without a job
  RestoreRepository,  \* [Restores -> Repositories]
  RestoreAgent,       \* [Restores -> Agents]
  Overlapping,        \* pairs of restores with filesystemTargetsOverlap
  SafeAgents,         \* agents that report the safe-restore capability
  MaxCancels,         \* cancel requests per restore
  ChannelCap,         \* messages in flight about one restore before Send blocks
  FaultKinds,         \* which faults the environment may inject
  MaxFaults           \* how many of them in one behaviour

AllFaults == {"link", "restart", "crash", "build", "tempdir", "password", "offline",
              "early_job", "deadline"}

ASSUME RestoreAssumption ==
  /\ NoRestore \notin Restores
  /\ Databases \subseteq Restores
  /\ RestoreRepository \in [Restores -> Repositories]
  /\ RestoreAgent \in [Restores -> Agents]
  /\ Overlapping \subseteq Restores \X Restores
  /\ SafeAgents \subseteq Agents
  /\ MaxCancels \in Nat
  /\ ChannelCap \in Nat \ {0}
  /\ FaultKinds \subseteq AllFaults
  /\ MaxFaults \in Nat

\* The phases of model.go: released by the agent's or the server's word,
\* RestorePhaseReleasesOccupancy, RestorePhaseNeedsManualResolution and
\* RestorePhaseIsTerminal.
ReportedSafe == {"succeeded", "failed", "pre_backup_failed", "rolled_back", "new_target_cleaned"}
Releasing == ReportedSafe \cup {"manual_recovery_resolved"}
Manual == {"rollback_failed", "manual_recovery_required"}
TerminalPhases == Releasing \cup Manual

\* The phases activeRestorePhases names.
ActivePhases == {"queued", "pre_backup", "restoring", "rolling_back", "cancelling"}
Phases == ActivePhases \cup {"running"} \cup TerminalPhases

VARIABLES
  \* the database
  status,      \* runs.status
  lease,       \* runs.lease_expires_at: none, live or expired
  phase,       \* restore_requests.phase, "absent" before the row exists
  \* the server's memory
  serving,     \* FALSE between a restart and Serve
  starting,    \* StartRestore: none, run inserted, request inserted, done
  worker, wpc, \* each repository's worker: its restore and its step
  canceller,   \* the status a cancel request read, until it commits
  cancels,     \* cancel requests so far
  watch,       \* the watchdog's treatment of a listed row
  accepting,   \* handleCommandAccepted has moved the run, not yet the phase
  departed,    \* streams unregistered whose handleDisconnect has not listed
  disconnect,  \* listed by handleDisconnect, not treated yet
  startup,     \* listed by recoverStaleRuns: the status, then "finish"
  conn,        \* the registry has a stream of the agent
  caps,        \* that stream's capabilities: pending, safe or unsafe
  \* the streams
  linked, welcome, toAgent, toServer,
  \* the agents' memory
  stage,       \* how far the pipeline of the restore is
  cancelled,   \* restores whose context was cancelled
  protected,   \* restores with an uploaded protection snapshot
  held,        \* results the agent has not confirmed, to be sent again
  \* history
  target,      \* what the restore's target holds
  starts,      \* how often the pipeline was started
  reported,    \* the phase of its result, "none" without one, "pending" before
  faults

dbVars     == <<status, lease, phase>>
serverVars == <<serving, starting, worker, wpc, canceller, cancels, watch,
                accepting, departed, disconnect, startup>>
netVars    == <<conn, caps, linked, welcome, toAgent, toServer>>
agentVars  == <<stage, cancelled, protected, held>>
histVars   == <<target, starts, reported>>
vars == <<dbVars, serverVars, netVars, agentVars, histVars, faults>>

Report == [type : {"accepted"}, phase : {"none"}, res : {"none"}]
     \cup [type : {"progress"}, phase : {"pre_backup", "restoring", "rolling_back"}, res : {"none"}]
     \cup [type : {"result"}, phase : ReportedSafe \cup {"rollback_failed", "none"}, res : Terminal]
Accepted       == [type |-> "accepted", phase |-> "none", res |-> "none"]
Progress(ph)   == [type |-> "progress", phase |-> ph, res |-> "none"]
Result(res, ph) == [type |-> "result", phase |-> ph, res |-> res]
NoResult       == Result("none", "none")

StoreTypeOK ==
  /\ status \in [Restores -> RunStatuses \cup {"absent"}]
  /\ lease \in [Restores -> {"none", "live", "expired"}]
  /\ phase \in [Restores -> Phases \cup {"absent"}]

ServerTypeOK ==
  /\ serving \in BOOLEAN
  /\ starting \in [Restores -> {"none", "run", "request", "done"}]
  /\ canceller \in [Restores -> {"none", "queued", "active"}]
  /\ cancels \in [Restores -> 0 .. MaxCancels]
  /\ watch \in [Restores -> {"none", "listed", "stop", "manual"}]
  /\ accepting \subseteq Restores
  /\ departed \subseteq Agents
  /\ disconnect \subseteq Restores
  /\ startup \in [Restores -> {"none", "dispatched", "running", "finish"}]

\* A worker holds a restore of its own repository, and only while it is busy.
WorkerTypeOK ==
  /\ worker \in [Repositories -> Restores \cup {NoRestore}]
  /\ wpc \in [Repositories -> {"idle", "claim", "send", "poll"}]
  /\ \A p \in Repositories :
       IF wpc[p] = "idle" THEN worker[p] = NoRestore
       ELSE worker[p] \in Restores /\ RestoreRepository[worker[p]] = p

StreamTypeOK ==
  /\ conn \in [Agents -> BOOLEAN]
  /\ caps \in [Agents -> {"pending", "safe", "unsafe"}]
  /\ linked \in [Agents -> BOOLEAN]
  /\ welcome \in [Agents -> BOOLEAN]
  /\ toAgent \in [Restores -> Seq({"execute", "cancel"})]
  /\ toServer \in [Restores -> Seq(Report)]

AgentTypeOK ==
  /\ stage \in [Restores -> {"none", "preparing", "pre_backup", "restoring", "rolling_back"}]
  /\ cancelled \subseteq Restores
  /\ protected \subseteq Restores
  /\ held \in [Restores -> Report \cup {NoResult}]

HistoryTypeOK ==
  /\ target \in [Restores -> {"original", "modified", "restored"}]
  /\ starts \in [Restores -> Nat]
  /\ reported \in [Restores -> ReportedSafe \cup {"rollback_failed", "none", "pending"}]
  /\ faults \in 0 .. MaxFaults

TypeOK ==
  /\ StoreTypeOK /\ ServerTypeOK /\ WorkerTypeOK
  /\ StreamTypeOK /\ AgentTypeOK /\ HistoryTypeOK

Init ==
  /\ status = [r \in Restores |-> "absent"]
  /\ lease = [r \in Restores |-> "none"]
  /\ phase = [r \in Restores |-> "absent"]
  /\ serving = TRUE
  /\ starting = [r \in Restores |-> "none"]
  /\ worker = [p \in Repositories |-> NoRestore]
  /\ wpc = [p \in Repositories |-> "idle"]
  /\ canceller = [r \in Restores |-> "none"]
  /\ cancels = [r \in Restores |-> 0]
  /\ watch = [r \in Restores |-> "none"]
  /\ accepting = {} /\ departed = {} /\ disconnect = {}
  /\ startup = [r \in Restores |-> "none"]
  /\ conn = [a \in Agents |-> FALSE]
  /\ caps = [a \in Agents |-> "pending"]
  /\ linked = [a \in Agents |-> FALSE]
  /\ welcome = [a \in Agents |-> FALSE]
  /\ toAgent = [r \in Restores |-> <<>>]
  /\ toServer = [r \in Restores |-> <<>>]
  /\ stage = [r \in Restores |-> "none"]
  /\ cancelled = {} /\ protected = {}
  /\ held = [r \in Restores |-> NoResult]
  /\ target = [r \in Restores |-> "original"]
  /\ starts = [r \in Restores |-> 0]
  /\ reported = [r \in Restores |-> "pending"]
  /\ faults = 0

-----------------------------------------------------------------------------
(* The store.                                                               *)

Fault(kind) ==
  /\ kind \in FaultKinds
  /\ faults < MaxFaults
  /\ faults' = faults + 1

\* store.TransitionRun
TransitionRun(r, from, to, newLease) ==
  IF CanTransition(status[r], from, to)
  THEN /\ status' = [status EXCEPT ![r] = to]
       /\ lease' = [lease EXCEPT ![r] = newLease]
  ELSE UNCHANGED <<status, lease>>

\* UpdateRestorePhase: terminal phases are not rewritten.
UpdateRestorePhase(r, ph) ==
  phase' = [phase EXCEPT ![r] = IF @ \in TerminalPhases \cup {"absent"} THEN @ ELSE ph]

\* Mutant: a late result settles a request that waits for an operator.
updateRestoreRequestTx_Settles(r, ph) ==
  phase' = [phase EXCEPT ![r] = IF @ \in Releasing \cup {"absent"} THEN @ ELSE ph]

\* updateRestoreRequestTx: a resolved, a safe and a manual phase all keep their
\* value.
updateRestoreRequestTx(r, ph) ==
  phase' = [phase EXCEPT ![r] =
    IF \/ @ = "absent"
       \/ @ \in Releasing /\ @ # ph
       \/ @ \in Manual
    THEN @ ELSE ph]

\* FinishRestoreRun: one transaction over both rows.
FinishRestoreRun(r, froms, to, ph) ==
  \/ /\ status[r] \in Terminal
     /\ updateRestoreRequestTx(r, ph)
     /\ UNCHANGED <<status, lease>>
  \/ /\ status[r] \in froms
     /\ status' = [status EXCEPT ![r] = to]
     /\ lease' = [lease EXCEPT ![r] = "none"]
     /\ updateRestoreRequestTx(r, ph)
  \/ /\ status[r] \notin Terminal \cup froms
     /\ UNCHANGED dbVars

\* RequestRestoreStop: phase and grace deadline in one transaction, whenever
\* the phase is not terminal.
RequestRestoreStop(r) ==
  IF phase[r] \in TerminalPhases \cup {"absent"}
  THEN UNCHANGED dbVars
  ELSE /\ phase' = [phase EXCEPT ![r] = "cancelling"]
       /\ lease' = [lease EXCEPT ![r] = "live"]
       /\ UNCHANGED status

-----------------------------------------------------------------------------
(* StartRestore.                                                            *)

\* Mutant: only the phases of activeRestorePhases occupy.
CreateDatabaseRestore_ActiveOnly(r) ==
  /\ serving /\ r \in Databases /\ status[r] = "absent"
  /\ \A s \in Databases : phase[s] \notin ActivePhases
  /\ status' = [status EXCEPT ![r] = "queued"]
  /\ phase' = [phase EXCEPT ![r] = "queued"]
  /\ starting' = [starting EXCEPT ![r] = "request"]
  /\ UNCHANGED <<lease, serving, worker, wpc, canceller, cancels, watch, accepting,
                 departed, disconnect, startup, netVars, agentVars, histVars, faults>>

\* CreateDatabaseRestoreRun: occupancy check and both rows in one transaction;
\* a refusal changes nothing.
CreateDatabaseRestore(r) ==
  /\ serving /\ r \in Databases /\ status[r] = "absent"
  /\ \A s \in Databases : phase[s] \in Releasing \cup {"absent"}
  /\ status' = [status EXCEPT ![r] = "queued"]
  /\ phase' = [phase EXCEPT ![r] = "queued"]
  /\ starting' = [starting EXCEPT ![r] = "request"]
  /\ UNCHANGED <<lease, serving, worker, wpc, canceller, cancels, watch, accepting,
                 departed, disconnect, startup, netVars, agentVars, histVars, faults>>

\* A filesystem restore inserts its run first ...
CreateFilesystemRun(r) ==
  /\ serving /\ r \notin Databases /\ status[r] = "absent"
  /\ status' = [status EXCEPT ![r] = "queued"]
  /\ starting' = [starting EXCEPT ![r] = "run"]
  /\ UNCHANGED <<lease, phase, serving, worker, wpc, canceller, cancels, watch, accepting,
                 departed, disconnect, startup, netVars, agentVars, histVars, faults>>

filesystemTargetBusy(r) ==
  \E s \in Restores \ (Databases \cup {r}) :
    /\ RestoreAgent[s] = RestoreAgent[r]
    /\ phase[s] \in ActivePhases
    /\ <<r, s>> \in Overlapping

\* ... and its request in a second transaction, which checks the target; a
\* refusal fails the run.
CreateRestoreRequest(r) ==
  /\ starting[r] = "run"
  /\ IF filesystemTargetBusy(r)
     THEN /\ TransitionRun(r, "queued", "failed", lease[r])
          /\ starting' = [starting EXCEPT ![r] = "done"]
          /\ UNCHANGED phase
     ELSE /\ phase' = [phase EXCEPT ![r] = "queued"]
          /\ starting' = [starting EXCEPT ![r] = "request"]
          /\ UNCHANGED <<status, lease>>
  /\ UNCHANGED <<serving, worker, wpc, canceller, cancels, watch, accepting,
                 departed, disconnect, startup, netVars, agentVars, histVars, faults>>

\* The target's password is stored and the run is enqueued.
SavePassword(r) ==
  /\ starting[r] = "request"
  /\ starting' = [starting EXCEPT ![r] = "done"]
  /\ UNCHANGED <<dbVars, serving, worker, wpc, canceller, cancels, watch, accepting,
                 departed, disconnect, startup, netVars, agentVars, histVars, faults>>

\* The password cannot be stored: the run fails, the request is left as it is.
SavePasswordFails(r) ==
  /\ starting[r] = "request"
  /\ Fault("password")
  /\ starting' = [starting EXCEPT ![r] = "done"]
  /\ TransitionRun(r, "queued", "failed", lease[r])
  /\ UNCHANGED <<phase, serving, worker, wpc, canceller, cancels, watch, accepting,
                 departed, disconnect, startup, netVars, agentVars, histVars>>

-----------------------------------------------------------------------------
(* processJob for a restore.                                                *)

WorkerDone(p) ==
  /\ worker' = [worker EXCEPT ![p] = NoRestore]
  /\ wpc' = [wpc EXCEPT ![p] = "idle"]

WorkerAt(p, label) == wpc[p] = label

workerFrame == <<serving, starting, canceller, cancels, watch, accepting, departed,
                 disconnect, startup>>

\* RepositoryRestoreBlocked: another restore of the repository is not released.
RepositoryRestoreBlocked(r) ==
  \E s \in Restores \ {r} :
    /\ RestoreRepository[s] = RestoreRepository[r]
    /\ phase[s] \notin Releasing \cup {"absent"}

\* The checks before the claim; a job that fails one of the last two goes back
\* to the queue, which changes nothing here.
Take(r) ==
  LET p == RestoreRepository[r] IN
  /\ WorkerAt(p, "idle")
  /\ status[r] = "queued"
  /\ phase[r] # "absent"
  /\ ~RepositoryRestoreBlocked(r)
  /\ conn[RestoreAgent[r]]
  /\ worker' = [worker EXCEPT ![p] = r]
  /\ wpc' = [wpc EXCEPT ![p] = "claim"]
  /\ UNCHANGED <<dbVars, workerFrame, netVars, agentVars, histVars, faults>>

\* The run has no request: the server crashed between the two inserts of a
\* filesystem restore, or a watchdog tick fell between them.
\* failRestoreBeforeSend.
TakeWithoutRequest(r) ==
  /\ WorkerAt(RestoreRepository[r], "idle")
  /\ status[r] = "queued"
  /\ phase[r] = "absent"
  /\ IF starting[r] = "run" THEN Fault("early_job") ELSE UNCHANGED faults
  /\ FinishRestoreRun(r, {"queued", "dispatched"}, "failed", "failed")
  /\ UNCHANGED <<worker, wpc, workerFrame, netVars, agentVars, histVars>>

Claim(p) ==
  /\ WorkerAt(p, "claim")
  /\ TransitionRun(worker[p], "queued", "dispatched", "live")
  /\ IF CanTransition(status[worker[p]], "queued", "dispatched")
     THEN wpc' = [wpc EXCEPT ![p] = "send"] /\ UNCHANGED worker
     ELSE WorkerDone(p)
  /\ UNCHANGED <<phase, workerFrame, netVars, agentVars, histVars, faults>>

\* BuildCommand fails: the run fails, the request is left as it is.
BuildFails(p) ==
  /\ WorkerAt(p, "send")
  /\ Fault("build")
  /\ TransitionRun(worker[p], "dispatched", "failed", "none")
  /\ WorkerDone(p)
  /\ UNCHANGED <<phase, workerFrame, netVars, agentVars, histVars>>

\* SendWithCapability for a database restore, Send for a filesystem one.
SendCommand(p) ==
  LET r == worker[p] IN
  /\ WorkerAt(p, "send")
  /\ conn[RestoreAgent[r]]
  /\ r \in Databases => caps[RestoreAgent[r]] = "safe"
  /\ Len(toAgent[r]) < ChannelCap
  /\ toAgent' = [toAgent EXCEPT ![r] = Append(@, "execute")]
  /\ wpc' = [wpc EXCEPT ![p] = "poll"]
  /\ UNCHANGED <<dbVars, worker, workerFrame, conn, caps, linked, welcome, toServer,
                 agentVars, histVars, faults>>

\* Capabilities pending or unsafe: failRestoreBeforeSend.
RefuseUnsafe(p) ==
  LET r == worker[p] IN
  /\ WorkerAt(p, "send")
  /\ conn[RestoreAgent[r]]
  /\ r \in Databases /\ caps[RestoreAgent[r]] # "safe"
  /\ FinishRestoreRun(r, {"queued", "dispatched"}, "failed", "failed")
  /\ WorkerDone(p)
  /\ UNCHANGED <<workerFrame, netVars, agentVars, histVars, faults>>

SendFails(p) ==
  /\ WorkerAt(p, "send")
  /\ ~conn[RestoreAgent[worker[p]]]
  /\ TransitionRun(worker[p], "dispatched", "queued", "none")
  /\ WorkerDone(p)
  /\ UNCHANGED <<phase, workerFrame, netVars, agentVars, histVars, faults>>

Poll(p) ==
  /\ WorkerAt(p, "poll")
  /\ status[worker[p]] \in Terminal \cup {"queued"}
  /\ WorkerDone(p)
  /\ UNCHANGED <<dbVars, workerFrame, netVars, agentVars, histVars, faults>>

-----------------------------------------------------------------------------
(* Cancellation, deadlines, the stale-queue tick and the operator.          *)

SendCancel(r) ==
  IF conn[RestoreAgent[r]]
  THEN /\ Len(toAgent[r]) < ChannelCap
       /\ toAgent' = [toAgent EXCEPT ![r] = Append(@, "cancel")]
  ELSE UNCHANGED toAgent

\* Cancel reads the run and, once it is past the queue, sends CancelCommand.
CancelRead(r) ==
  /\ serving
  /\ canceller[r] = "none" /\ cancels[r] < MaxCancels
  /\ status[r] \in {"queued", "dispatched", "running"}
  /\ cancels' = [cancels EXCEPT ![r] = @ + 1]
  /\ IF status[r] = "queued"
     THEN canceller' = [canceller EXCEPT ![r] = "queued"] /\ UNCHANGED toAgent
     ELSE canceller' = [canceller EXCEPT ![r] = "active"] /\ SendCancel(r)
  /\ UNCHANGED <<dbVars, serving, starting, worker, wpc, watch, accepting, departed,
                 disconnect, startup, conn, caps, linked, welcome, toServer, agentVars,
                 histVars, faults>>

\* Mutant: a run that has left the queue is finished as well.
CancelCommit_AnyStatus(r) ==
  /\ canceller[r] # "none"
  /\ canceller' = [canceller EXCEPT ![r] = "none"]
  /\ IF canceller[r] = "queued"
     THEN FinishRestoreRun(r, {"queued", "dispatched", "running"}, "cancelled", "failed")
     ELSE RequestRestoreStop(r)
  /\ UNCHANGED <<serving, starting, worker, wpc, cancels, watch, accepting, departed,
                 disconnect, startup, netVars, agentVars, histVars, faults>>

\* Mutant: only the run of a queued restore is ended.
CancelCommit_RunOnly(r) ==
  /\ canceller[r] # "none"
  /\ canceller' = [canceller EXCEPT ![r] = "none"]
  /\ IF canceller[r] = "queued"
     THEN TransitionRun(r, "queued", "cancelled", "none") /\ UNCHANGED phase
     ELSE RequestRestoreStop(r)
  /\ UNCHANGED <<serving, starting, worker, wpc, cancels, watch, accepting, departed,
                 disconnect, startup, netVars, agentVars, histVars, faults>>

\* cancelRestore: a queued run ends at once, an active one is asked to stop.
CancelCommit(r) ==
  /\ canceller[r] # "none"
  /\ canceller' = [canceller EXCEPT ![r] = "none"]
  /\ IF canceller[r] = "queued"
     THEN FinishRestoreRun(r, {"queued"}, "cancelled", "failed")
     ELSE RequestRestoreStop(r)
  /\ UNCHANGED <<serving, starting, worker, wpc, cancels, watch, accepting, departed,
                 disconnect, startup, netVars, agentVars, histVars, faults>>

\* Something that will settle the restore is still under way.
Underway(r) ==
  \/ stage[r] # "none" \/ r \in accepting \/ r \in disconnect
  \/ toAgent[r] # <<>> \/ toServer[r] # <<>>
  \/ worker[RestoreRepository[r]] = r /\ WorkerAt(RestoreRepository[r], "send")

\* The deadline passes with nothing under way any more ...
LeaseRunsOut(r) ==
  /\ lease[r] = "live" /\ status[r] \in {"dispatched", "running"}
  /\ ~Underway(r)
  /\ lease' = [lease EXCEPT ![r] = "expired"]
  /\ UNCHANGED <<status, phase, serverVars, netVars, agentVars, histVars, faults>>

\* ... or while the restore is merely slow.
LeaseRunsOutEarly(r) ==
  /\ lease[r] = "live" /\ status[r] \in {"dispatched", "running"}
  /\ Underway(r)
  /\ Fault("deadline")
  /\ lease' = [lease EXCEPT ![r] = "expired"]
  /\ UNCHANGED <<status, phase, serverVars, netVars, agentVars, histVars>>

\* checkTimeouts lists a row whose lease has run out ...
WatchdogList(r) ==
  /\ watch[r] = "none"
  /\ status[r] \in {"dispatched", "running"} /\ lease[r] = "expired"
  /\ watch' = [watch EXCEPT ![r] = "listed"]
  /\ UNCHANGED <<dbVars, serving, starting, worker, wpc, canceller, cancels, accepting,
                 departed, disconnect, startup, netVars, agentVars, histVars, faults>>

\* Mutant: an agent that does not stop is asked again and again.
WatchdogDecide_AsksAgain(r) ==
  /\ watch[r] = "listed"
  /\ IF phase[r] \in TerminalPhases \cup {"absent"}
     THEN watch' = [watch EXCEPT ![r] = "none"] /\ UNCHANGED toAgent
     ELSE watch' = [watch EXCEPT ![r] = "stop"] /\ SendCancel(r)
  /\ UNCHANGED <<dbVars, serving, starting, worker, wpc, canceller, cancels, accepting,
                 departed, disconnect, startup, conn, caps, linked, welcome, toServer,
                 agentVars, histVars, faults>>

\* ... handleRestoreTimeout reads the phase and the registry ...
WatchdogDecide(r) ==
  /\ watch[r] = "listed"
  /\ \/ /\ phase[r] \in TerminalPhases \cup {"absent"}
        /\ watch' = [watch EXCEPT ![r] = "none"]
        /\ UNCHANGED toAgent
     \/ /\ phase[r] \notin TerminalPhases \cup {"absent"}
        /\ ~conn[RestoreAgent[r]] \/ phase[r] = "cancelling"
        /\ watch' = [watch EXCEPT ![r] = "manual"]
        /\ UNCHANGED toAgent
     \/ /\ phase[r] \notin TerminalPhases \cup {"absent", "cancelling"}
        /\ conn[RestoreAgent[r]]
        /\ watch' = [watch EXCEPT ![r] = "stop"]
        /\ SendCancel(r)
  /\ UNCHANGED <<dbVars, serving, starting, worker, wpc, canceller, cancels, accepting,
                 departed, disconnect, startup, conn, caps, linked, welcome, toServer,
                 agentVars, histVars, faults>>

\* ... and asks the agent to stop, or gives up and requires manual recovery.
WatchdogWrite(r) ==
  /\ watch[r] \in {"stop", "manual"}
  /\ watch' = [watch EXCEPT ![r] = "none"]
  /\ IF watch[r] = "stop"
     THEN RequestRestoreStop(r)
     ELSE FinishRestoreRun(r, {"queued", "dispatched", "running"}, "failed",
                           "manual_recovery_required")
  /\ UNCHANGED <<serving, starting, worker, wpc, canceller, cancels, accepting, departed,
                 disconnect, startup, netVars, agentVars, histVars, faults>>

\* tickStaleQueued: the agent has been offline past the deadline.
FailStaleQueued(r) ==
  /\ serving
  /\ status[r] = "queued" /\ ~conn[RestoreAgent[r]]
  /\ Fault("offline")
  /\ TransitionRun(r, "queued", "failed", lease[r])
  /\ UNCHANGED <<phase, serverVars, netVars, agentVars, histVars>>

\* ResolveRestoreRequest: the operator has checked the target.
Resolve(r) ==
  /\ serving
  /\ phase[r] \in Manual
  /\ phase' = [phase EXCEPT ![r] = "manual_recovery_resolved"]
  /\ IF status[r] \in Terminal
     THEN UNCHANGED <<status, lease>>
     ELSE /\ status' = [status EXCEPT ![r] = "failed"]
          /\ lease' = [lease EXCEPT ![r] = "none"]
  /\ UNCHANGED <<serverVars, netVars, agentVars, histVars, faults>>

-----------------------------------------------------------------------------
(* The server's message handlers.                                           *)

\* The stream's goroutine takes the next report; it is not inside
\* handleCommandAccepted.
Receive(r, type) ==
  /\ conn[RestoreAgent[r]]
  /\ r \notin accepting
  /\ toServer[r] # <<>>
  /\ Head(toServer[r]).type = type
  /\ toServer' = [toServer EXCEPT ![r] = Tail(@)]

\* handleCommandAccepted moves the run, which clears the lease ...
HandleAccepted(r) ==
  /\ Receive(r, "accepted")
  /\ TransitionRun(r, "dispatched", "running", "none")
  /\ accepting' = IF CanTransition(status[r], "dispatched", "running")
                  THEN accepting \cup {r} ELSE accepting
  /\ UNCHANGED <<phase, serving, starting, worker, wpc, canceller, cancels, watch,
                 departed, disconnect, startup, conn, caps, linked, welcome, toAgent,
                 agentVars, histVars, faults>>

\* ... and then the phase, in another statement.
RecordRunning(r) ==
  /\ r \in accepting
  /\ accepting' = accepting \ {r}
  /\ UpdateRestorePhase(r, "running")
  /\ UNCHANGED <<status, lease, serving, starting, worker, wpc, canceller, cancels, watch,
                 departed, disconnect, startup, netVars, agentVars, histVars, faults>>

\* handleRunProgress
HandleProgress(r) ==
  /\ Receive(r, "progress")
  /\ UpdateRestorePhase(r, Head(toServer[r]).phase)
  /\ UNCHANGED <<status, lease, serverVars, conn, caps, linked, welcome, toAgent,
                 agentVars, histVars, faults>>

\* restoreResultOutcome: without a reported phase only a success is trusted.
restoreResultOutcome(m) ==
  IF m.phase # "none" THEN m.phase
  ELSE IF m.res = "succeeded" THEN "succeeded" ELSE "manual_recovery_required"

\* handleRunResult for a restore: a failed rollback is never a cancellation.
HandleResult(r) ==
  LET m == Head(toServer[r])
      ph == restoreResultOutcome(m)
  IN
  /\ Receive(r, "result")
  /\ FinishRestoreRun(r, {"queued", "dispatched", "running"},
                      IF ph = "rollback_failed" THEN "failed" ELSE m.res, ph)
  /\ UNCHANGED <<serverVars, conn, caps, linked, welcome, toAgent, agentVars, histVars,
                 faults>>

-----------------------------------------------------------------------------
(* Streams.                                                                 *)

Of(a) == {r \in Restores : RestoreAgent[r] = a}

LinkBreaks(a) ==
  /\ linked[a]
  /\ Fault("link")
  /\ linked' = [linked EXCEPT ![a] = FALSE]
  /\ UNCHANGED <<dbVars, serverVars, conn, caps, welcome, toAgent, toServer, agentVars,
                 histVars>>

StreamEnds(a) ==
  /\ conn[a] /\ ~linked[a]
  /\ a \notin departed
  /\ conn' = [conn EXCEPT ![a] = FALSE]
  /\ welcome' = [welcome EXCEPT ![a] = FALSE]
  /\ toAgent' = [r \in Restores |-> IF r \in Of(a) THEN <<>> ELSE toAgent[r]]
  /\ toServer' = [r \in Restores |-> IF r \in Of(a) THEN <<>> ELSE toServer[r]]
  /\ departed' = departed \cup {a}
  /\ UNCHANGED <<dbVars, serving, starting, worker, wpc, canceller, cancels, watch,
                 accepting, disconnect, startup, caps, linked, agentVars, histVars, faults>>

\* handleDisconnect lists the active restores of the agent ...
DisconnectList(a) ==
  /\ a \in departed
  /\ disconnect \cap Of(a) = {}
  /\ departed' = departed \ {a}
  /\ disconnect' = disconnect \cup
       {r \in Of(a) : status[r] \in {"dispatched", "running"}}
  /\ UNCHANGED <<dbVars, serving, starting, worker, wpc, canceller, cancels, watch,
                 accepting, startup, netVars, agentVars, histVars, faults>>

\* Mutant: the restore is queued again, as a retry-safe run would be.
DisconnectRun_Requeues(r) ==
  /\ r \in disconnect
  /\ disconnect' = disconnect \ {r}
  /\ TransitionRun(r, status[r], "queued", "none")
  /\ UNCHANGED <<phase, serving, starting, worker, wpc, canceller, cancels, watch,
                 accepting, departed, startup, netVars, agentVars, histVars, faults>>

\* ... and requires manual recovery of each; the run stays as it is.
DisconnectRun(r) ==
  /\ r \in disconnect
  /\ disconnect' = disconnect \ {r}
  /\ UpdateRestorePhase(r, "manual_recovery_required")
  /\ UNCHANGED <<status, lease, serving, starting, worker, wpc, canceller, cancels, watch,
                 accepting, departed, startup, netVars, agentVars, histVars, faults>>

\* Hello, Register (a new stream has no capabilities yet), Welcome, SetStream.
Reconnect(a) ==
  /\ serving
  /\ ~linked[a]
  /\ linked' = [linked EXCEPT ![a] = TRUE]
  /\ conn' = [conn EXCEPT ![a] = TRUE]
  /\ caps' = [caps EXCEPT ![a] = "pending"]
  /\ welcome' = [welcome EXCEPT ![a] = TRUE]
  /\ toAgent' = [r \in Restores |-> IF r \in Of(a) THEN <<>> ELSE toAgent[r]]
  /\ toServer' = [r \in Restores |->
       IF r \notin Of(a) THEN toServer[r]
       ELSE IF held[r] = NoResult THEN <<>> ELSE <<held[r]>>]
  /\ UNCHANGED <<dbVars, serverVars, agentVars, histVars, faults>>

\* handleCapabilities, ReportCapabilities
ReportCapabilities(a) ==
  /\ conn[a] /\ linked[a] /\ caps[a] = "pending"
  /\ caps' = [caps EXCEPT ![a] = IF a \in SafeAgents THEN "safe" ELSE "unsafe"]
  /\ UNCHANGED <<dbVars, serverVars, conn, linked, welcome, toAgent, toServer, agentVars,
                 histVars, faults>>

-----------------------------------------------------------------------------
(* The agent: Runner and the restore pipeline.                              *)

\* Any message of the server confirms the results handed to the stream.
Confirm(a) ==
  held' = [r \in Restores |-> IF r \in Of(a) THEN NoResult ELSE held[r]]

ReceiveWelcome(a) ==
  /\ linked[a] /\ welcome[a]
  /\ welcome' = [welcome EXCEPT ![a] = FALSE]
  /\ Confirm(a)
  /\ UNCHANGED <<dbVars, serverVars, conn, caps, linked, toAgent, toServer, stage,
                 cancelled, protected, histVars, faults>>

AgentReceive(r, cmd) ==
  /\ linked[RestoreAgent[r]] /\ ~welcome[RestoreAgent[r]]
  /\ toAgent[r] # <<>> /\ Head(toAgent[r]) = cmd
  /\ toAgent' = [toAgent EXCEPT ![r] = Tail(@)]

\* The agent's Send: it blocks while the stream is full; without a stream the
\* message is not sent.
Send(r, m) ==
  /\ linked[RestoreAgent[r]] => Len(toServer[r]) < ChannelCap
  /\ toServer' = IF linked[RestoreAgent[r]]
                 THEN [toServer EXCEPT ![r] = Append(@, m)]
                 ELSE toServer

\* Runner.Execute: the command is accepted and the pipeline begins.
AcceptCommand(r) ==
  /\ AgentReceive(r, "execute")
  /\ Send(r, Accepted)
  /\ stage' = [stage EXCEPT ![r] = "preparing"]
  /\ starts' = [starts EXCEPT ![r] = @ + 1]
  /\ Confirm(RestoreAgent[r])
  /\ UNCHANGED <<dbVars, serverVars, conn, caps, linked, welcome, cancelled, protected,
                 target, reported, faults>>

\* No temporary directory: accepted and failed at once, without a phase.
TempDirFails(r) ==
  LET m == Result("failed", "none") IN
  /\ AgentReceive(r, "execute")
  /\ Fault("tempdir")
  /\ toServer' = [toServer EXCEPT ![r] = @ \o <<Accepted, m>>]
  /\ held' = [s \in Restores |->
       IF s = r THEN m ELSE IF RestoreAgent[s] = RestoreAgent[r] THEN NoResult ELSE held[s]]
  /\ reported' = [reported EXCEPT ![r] = "none"]
  /\ UNCHANGED <<dbVars, serverVars, conn, caps, linked, welcome, stage, cancelled,
                 protected, target, starts>>

ReceiveCancel(r) ==
  /\ AgentReceive(r, "cancel")
  /\ cancelled' = IF stage[r] # "none" THEN cancelled \cup {r} ELSE cancelled
  /\ Confirm(RestoreAgent[r])
  /\ UNCHANGED <<dbVars, serverVars, conn, caps, linked, welcome, toServer, stage,
                 protected, histVars, faults>>

\* databaseRestoreMu of the agent's process.
DatabaseLockFree(r) ==
  \A s \in Of(RestoreAgent[r]) \cap Databases :
    stage[s] \notin {"pre_backup", "restoring", "rolling_back"}

\* An existing database is exported first.
StartPreBackup(r) ==
  /\ r \in Databases /\ stage[r] = "preparing" /\ DatabaseLockFree(r)
  /\ stage' = [stage EXCEPT ![r] = "pre_backup"]
  /\ Send(r, Progress("pre_backup"))
  /\ UNCHANGED <<dbVars, serverVars, conn, caps, linked, welcome, toAgent, cancelled,
                 protected, held, histVars, faults>>

\* Mutant: the import begins although the upload has failed.
StartImport_Unprotected(r) ==
  /\ stage[r] \in {"preparing", "pre_backup"}
  /\ r \in Databases => stage[r] = "pre_backup" \/ DatabaseLockFree(r)
  /\ stage' = [stage EXCEPT ![r] = "restoring"]
  /\ target' = [target EXCEPT ![r] = "modified"]
  /\ IF r \in Databases THEN Send(r, Progress("restoring")) ELSE UNCHANGED toServer
  /\ UNCHANGED <<dbVars, serverVars, conn, caps, linked, welcome, toAgent, cancelled,
                 protected, held, starts, reported, faults>>

\* The protection snapshot is uploaded, or the target is new, or it is a
\* directory (which reports no progress): the target is written from here on.
StartImport(r) ==
  /\ \/ stage[r] = "pre_backup" /\ protected' = protected \cup {r}
     \/ stage[r] = "preparing" /\ (r \in Databases => DatabaseLockFree(r))
        /\ UNCHANGED protected
  /\ stage' = [stage EXCEPT ![r] = "restoring"]
  /\ target' = [target EXCEPT ![r] = "modified"]
  /\ IF r \in Databases THEN Send(r, Progress("restoring")) ELSE UNCHANGED toServer
  /\ UNCHANGED <<dbVars, serverVars, conn, caps, linked, welcome, toAgent, cancelled,
                 held, starts, reported, faults>>

\* Import or VerifyRestored fails: rollbackDatabaseRestore begins.
StartRollback(r) ==
  /\ r \in Databases /\ stage[r] = "restoring"
  /\ stage' = [stage EXCEPT ![r] = "rolling_back"]
  /\ Send(r, Progress("rolling_back"))
  /\ UNCHANGED <<dbVars, serverVars, conn, caps, linked, welcome, toAgent, cancelled,
                 protected, held, histVars, faults>>

\* The goroutine ends: an error of a cancelled context counts as cancelled.
Settle(r, ok, ph) ==
  LET m == Result(IF ok THEN "succeeded" ELSE IF r \in cancelled THEN "cancelled" ELSE "failed", ph)
  IN
  /\ stage' = [stage EXCEPT ![r] = "none"]
  /\ cancelled' = cancelled \ {r}
  /\ held' = [held EXCEPT ![r] = m]
  /\ reported' = [reported EXCEPT ![r] = ph]
  /\ Send(r, m)
  /\ UNCHANGED <<dbVars, serverVars, conn, caps, linked, welcome, toAgent, protected,
                 starts, faults>>

\* restoreSafeFail before anything is written; a run cancelled while it waits
\* for an execution slot reports no phase.
FailPreparing(r) ==
  /\ stage[r] = "preparing"
  /\ \/ Settle(r, FALSE, "failed")
     \/ r \in cancelled /\ Settle(r, FALSE, "none")
  /\ UNCHANGED target

FailPreBackup(r) ==
  /\ stage[r] = "pre_backup"
  /\ Settle(r, FALSE, "pre_backup_failed")
  /\ UNCHANGED target

FailFilesystem(r) ==
  /\ r \notin Databases /\ stage[r] = "restoring"
  /\ Settle(r, FALSE, "none")
  /\ UNCHANGED target

Succeed(r) ==
  /\ stage[r] = "restoring"
  /\ Settle(r, TRUE, "succeeded")
  /\ target' = [target EXCEPT ![r] = "restored"]

\* Mutant: a rollback that failed is reported as done.
FinishRollback_Hopes(r) ==
  /\ stage[r] = "rolling_back"
  /\ Settle(r, FALSE, IF r \in protected THEN "rolled_back" ELSE "new_target_cleaned")
  /\ target' \in {target, [target EXCEPT ![r] = "original"]}

\* The protection snapshot is imported again, or the new target is removed.
FinishRollback(r) ==
  /\ stage[r] = "rolling_back"
  /\ \/ /\ Settle(r, FALSE, IF r \in protected THEN "rolled_back" ELSE "new_target_cleaned")
        /\ target' = [target EXCEPT ![r] = "original"]
     \/ /\ Settle(r, FALSE, "rollback_failed")
        /\ UNCHANGED target

AgentRestart(a) ==
  /\ Fault("restart")
  /\ linked' = [linked EXCEPT ![a] = FALSE]
  /\ stage' = [r \in Restores |-> IF r \in Of(a) THEN "none" ELSE stage[r]]
  /\ cancelled' = cancelled \ Of(a)
  /\ Confirm(a)
  /\ UNCHANGED <<dbVars, serverVars, conn, caps, welcome, toAgent, toServer, protected,
                 histVars>>

-----------------------------------------------------------------------------
(* Server restart.                                                          *)

ServerCrash ==
  /\ Fault("crash")
  /\ serving' = FALSE
  /\ starting' = [r \in Restores |-> IF starting[r] = "none" THEN "none" ELSE "done"]
  /\ worker' = [p \in Repositories |-> NoRestore]
  /\ wpc' = [p \in Repositories |-> "idle"]
  /\ canceller' = [r \in Restores |-> "none"]
  /\ watch' = [r \in Restores |-> "none"]
  /\ accepting' = {} /\ departed' = {} /\ disconnect' = {}
  /\ startup' = [r \in Restores |->
       IF status[r] \in {"dispatched", "running"} THEN status[r] ELSE "none"]
  /\ conn' = [a \in Agents |-> FALSE]
  /\ linked' = [a \in Agents |-> FALSE]
  /\ welcome' = [a \in Agents |-> FALSE]
  /\ toAgent' = [r \in Restores |-> <<>>]
  /\ toServer' = [r \in Restores |-> <<>>]
  /\ UNCHANGED <<dbVars, cancels, caps, agentVars, histVars>>

\* recoverStaleRuns fails the run ...
RecoverRun(r) ==
  /\ startup[r] \in {"dispatched", "running"}
  /\ TransitionRun(r, startup[r], "failed", "none")
  /\ startup' = [startup EXCEPT ![r] =
       IF CanTransition(status[r], @, "failed") THEN "finish" ELSE "none"]
  /\ UNCHANGED <<phase, serving, starting, worker, wpc, canceller, cancels, watch,
                 accepting, departed, disconnect, netVars, agentVars, histVars, faults>>

\* ... and requires manual recovery in a second transaction.
RecoverRequest(r) ==
  /\ startup[r] = "finish"
  /\ FinishRestoreRun(r, {"queued", "dispatched", "running"}, "failed",
                      "manual_recovery_required")
  /\ startup' = [startup EXCEPT ![r] = "none"]
  /\ UNCHANGED <<serving, starting, worker, wpc, canceller, cancels, watch, accepting,
                 departed, disconnect, netVars, agentVars, histVars, faults>>

StartServing ==
  /\ ~serving
  /\ \A r \in Restores : startup[r] = "none"
  /\ serving' = TRUE
  /\ UNCHANGED <<dbVars, starting, worker, wpc, canceller, cancels, watch, accepting,
                 departed, disconnect, startup, netVars, agentVars, histVars, faults>>

-----------------------------------------------------------------------------
WorkerNext(p) ==
  \/ Claim(p) \/ BuildFails(p) \/ SendCommand(p) \/ RefuseUnsafe(p)
  \/ SendFails(p) \/ Poll(p)

ServerNext(r) ==
  \/ CreateDatabaseRestore(r) \/ CreateFilesystemRun(r) \/ CreateRestoreRequest(r)
  \/ SavePassword(r) \/ SavePasswordFails(r)
  \/ Take(r) \/ TakeWithoutRequest(r)
  \/ CancelRead(r) \/ CancelCommit(r)
  \/ LeaseRunsOut(r) \/ LeaseRunsOutEarly(r) \/ WatchdogList(r) \/ WatchdogDecide(r) \/ WatchdogWrite(r)
  \/ FailStaleQueued(r) \/ Resolve(r)
  \/ HandleAccepted(r) \/ RecordRunning(r) \/ HandleProgress(r) \/ HandleResult(r)
  \/ DisconnectRun(r) \/ RecoverRun(r) \/ RecoverRequest(r)

AgentNext(r) ==
  \/ AcceptCommand(r) \/ TempDirFails(r) \/ ReceiveCancel(r)
  \/ StartPreBackup(r) \/ StartImport(r) \/ StartRollback(r)
  \/ FailPreparing(r) \/ FailPreBackup(r) \/ FailFilesystem(r)
  \/ Succeed(r) \/ FinishRollback(r)

StreamNext(a) ==
  \/ LinkBreaks(a) \/ StreamEnds(a) \/ DisconnectList(a) \/ Reconnect(a)
  \/ ReportCapabilities(a) \/ ReceiveWelcome(a) \/ AgentRestart(a)

Next ==
  \/ \E p \in Repositories : WorkerNext(p)
  \/ \E r \in Restores : ServerNext(r) \/ AgentNext(r)
  \/ \E a \in Agents : StreamNext(a)
  \/ ServerCrash \/ StartServing

Spec == Init /\ [][Next]_vars

\* Goroutines run, deadlines pass, the watchdog ticks, streams deliver, the
\* agent reconnects and its pipeline ends.  The queue is served in turn: a
\* restore that can be taken again and again is taken.  Users, the operator,
\* faults and the stale-queue tick owe nothing.
Fairness ==
  /\ \A p \in Repositories :
       WF_vars(Claim(p) \/ SendCommand(p) \/ RefuseUnsafe(p) \/ SendFails(p) \/ Poll(p))
  /\ \A r \in Restores :
       /\ WF_vars(CreateRestoreRequest(r)) /\ SF_vars(Take(r) \/ TakeWithoutRequest(r))
       /\ WF_vars(SavePassword(r)) /\ WF_vars(CancelCommit(r))
       /\ WF_vars(LeaseRunsOut(r)) /\ WF_vars(WatchdogList(r))
       /\ WF_vars(WatchdogDecide(r)) /\ WF_vars(WatchdogWrite(r))
       /\ WF_vars(HandleAccepted(r) \/ HandleProgress(r) \/ HandleResult(r))
       /\ WF_vars(RecordRunning(r)) /\ WF_vars(DisconnectRun(r))
       /\ WF_vars(RecoverRun(r) \/ RecoverRequest(r))
       /\ WF_vars(AcceptCommand(r) \/ ReceiveCancel(r))
       /\ WF_vars(\/ StartPreBackup(r) \/ StartImport(r) \/ StartRollback(r)
                  \/ FailPreparing(r) \/ FailPreBackup(r) \/ FailFilesystem(r)
                  \/ Succeed(r) \/ FinishRollback(r))
  /\ \A a \in Agents :
       /\ WF_vars(StreamEnds(a)) /\ WF_vars(DisconnectList(a)) /\ WF_vars(Reconnect(a))
       /\ WF_vars(ReportCapabilities(a)) /\ WF_vars(ReceiveWelcome(a))
  /\ WF_vars(StartServing)

FairSpec == Spec /\ Fairness

-----------------------------------------------------------------------------
(* Properties.                                                              *)

\* At most one database restore occupies at any time: the check in
\* CreateDatabaseRestoreRun is enough because no other statement brings a
\* released request back (UpdateRestorePhase, RequestRestoreStop,
\* updateRestoreRequestTx, ResolveRestoreRequest).
DatabaseRestoreExclusive ==
  \A r, s \in Databases :
    r # s => \/ phase[r] \in Releasing \cup {"absent"}
             \/ phase[s] \in Releasing \cup {"absent"}

\* A phase that releases the occupancy tells the truth about the target: it is
\* the original, or the restore is complete.  Only the operator's word
\* (manual_recovery_resolved) is taken on trust.
SafePhaseIsTruthful ==
  \A r \in Restores :
    /\ phase[r] = "succeeded" => target[r] = "restored"
    /\ phase[r] \in ReportedSafe \ {"succeeded"} => target[r] = "original"

\* While a restore can still write its target - its pipeline runs, its command
\* is in flight or its worker is about to send it - the request does not release
\* the occupancy, unless the operator resolved it.
CanStillWrite(r) ==
  \/ stage[r] # "none"
  \/ \E i \in DOMAIN toAgent[r] : toAgent[r][i] = "execute"
  \/ worker[RestoreRepository[r]] = r /\ WorkerAt(RestoreRepository[r], "send")

OccupancyCoversExecution ==
  \A r \in Restores : CanStillWrite(r) => phase[r] \notin ReportedSafe

\* Terminal phases are final: a released request never changes, and one that
\* waits for an operator changes only to manual_recovery_resolved, whatever
\* late progress, results, timeouts or restarts bring.
TerminalPhasesAreFinal ==
  [][\A r \in Restores :
       /\ phase[r] \in Releasing => phase'[r] = phase[r]
       /\ phase[r] \in Manual => phase'[r] \in {phase[r], "manual_recovery_resolved"}]_vars

\* A restore is never replayed: its pipeline starts at most once.
RestoreRunsOnce == \A r \in Restores : starts[r] <= 1

\* The agent as the server knows it keeps the promise of RestorePromise: a
\* restore whose command has not arrived counts as preparing, and one that was
\* started or has reported never starts again, over replays, restarts and lost
\* streams (Runner.Execute, runDatabaseRestore).
PromisedStage(r) ==
  IF stage[r] # "none" THEN stage[r]
  ELSE IF starts[r] = 0 /\ reported[r] = "pending" THEN "preparing" ELSE "ended"

Promise(r) == INSTANCE RestorePromise WITH
  stage <- PromisedStage(r), target <- target[r], protected <- r \in protected,
  report <- reported[r]

PromisesKept ==
  /\ \A r \in Restores : Promise(r)!Init
  /\ [][\A r \in Restores : [Promise(r)!Next]_(Promise(r)!vars)]_vars

\* A request is left open although its run has ended - it then blocks its
\* repository, a database restore every other database restore - by no other
\* step than these: a command that cannot be built, a password that cannot be
\* saved, the stale-queue tick, a crash between the two writes of
\* recoverStaleRuns, and the insert of a request whose run has ended since it
\* was created.
Orphaned(r) ==
  /\ status[r] \in Terminal /\ startup[r] # "finish"
  /\ phase[r] \notin TerminalPhases \cup {"absent"}

OrphansHaveKnownCauses ==
  [][(\E r \in Restores : ~Orphaned(r) /\ Orphaned(r)')
       => \/ \E p \in Repositories : BuildFails(p)
          \/ \E r \in Restores : \/ SavePasswordFails(r) \/ FailStaleQueued(r)
                                \/ CreateRestoreRequest(r)
          \/ ServerCrash]_vars

\* A restore that was requested ends in a phase that is released or that the
\* operator can resolve.
EveryRestoreEnds ==
  \A r \in Restores : (phase[r] # "absent") ~> (phase[r] \in TerminalPhases)

\* A run that has ended has a request that is released or can be resolved
\* (Orchestrator.CancelRun, recoverStaleRuns).
EndedRunEndsRequest ==
  \A r \in Restores :
    (status[r] \in Terminal /\ starting[r] = "done" /\ startup[r] = "none")
       => phase[r] \in TerminalPhases \cup {"absent"}

\* Two filesystem restores never write overlapping targets of one agent at the
\* same time (CreateRestoreRequest).
FilesystemTargetExclusive ==
  \A r, s \in Restores \ Databases :
    (/\ r # s /\ RestoreAgent[r] = RestoreAgent[s]
     /\ <<r, s>> \in Overlapping)
       => ~(stage[r] = "restoring" /\ stage[s] = "restoring")
=============================================================================
