---------------------------- MODULE RunDispatch ------------------------------
(***************************************************************************)
(* Delivery of runs from the server to the agents: the dispatcher with one *)
(* worker per repository (dispatchgrpc), the registry of streams and the   *)
(* message handlers (agentreg), the watchdog, cancellation, the scheduler's*)
(* stale-queue tick, restart recovery (cmd/server), and the agent's runner *)
(* with its idempotency cache and result replay (agent).                   *)
(*                                                                         *)
(* Restore runs are left to RestoreOccupancy; every other operation is     *)
(* here, split into the retry-safe ones and the rest.  Time is abstract: a *)
(* lease is live or expired, and whether a deadline has passed is a        *)
(* nondeterministic choice.                                                *)
(***************************************************************************)
EXTENDS Naturals, Sequences, FiniteSets, RunStates

CONSTANTS
  Runs,            \* run IDs (restores excluded)
  Repositories,    \* repository IDs; each has a queue and a worker
  Agents,          \* agent IDs
  NoRun,           \* "no run": an idle worker, a message about no run
  RunRepository,   \* [Runs -> Repositories], run.RepositoryID
  RunAgent,        \* [Runs -> Agents], run.AgentID
  Retryable,       \* the runs with retryableOperation(run.Operation)
  CacheCap,        \* capacity of the agent's cache of finished runs (512)
  MaxConcurrency,  \* execution slots of an agent, 0 for no limit
  ChannelCap,      \* messages a stream holds before Send blocks
  Cancellable,     \* the runs an operator may cancel
  MayTimeOut,      \* the runs whose deadline may pass
  FaultKinds,      \* which faults the environment may inject
  MaxFaults        \* how many of them in one behaviour

AllFaults == {"link", "restart", "crash", "lease", "store", "build", "tempdir"}

ASSUME DispatchAssumption ==
  /\ NoRun \notin Runs
  /\ RunRepository \in [Runs -> Repositories]
  /\ RunAgent \in [Runs -> Agents]
  /\ Retryable \subseteq Runs
  /\ Cancellable \subseteq Runs
  /\ MayTimeOut \subseteq Runs
  /\ CacheCap \in Nat \ {0}
  /\ MaxConcurrency \in Nat
  /\ ChannelCap \in Nat \ {0}
  /\ FaultKinds \subseteq AllFaults
  /\ MaxFaults \in Nat

VARIABLES
  \* the database
  status,        \* runs.status, "absent" before the row exists
  lease,         \* runs.lease_expires_at: none, live or expired
  agentOnline,   \* agents.status = online
  \* the server's memory
  server,        \* "serving", or "recovering" between a restart and Serve
  created,       \* rows inserted whose Enqueue call is still to come
  queue,         \* repoQueues[p].jobs
  enqueued,      \* enqueuedRuns
  processing,    \* processingRuns
  pc, job,       \* each worker's step in processJob and the job it holds
  watchdog,      \* what checkTimeouts listed of each run and has yet to treat
  canceller,     \* what a call of Cancel read of the run, until it commits
  departed,      \* streams unregistered whose handleDisconnect has not listed
  disconnect,    \* what handleDisconnect listed and has yet to treat
  startup,       \* what recoverStaleRuns listed and has yet to treat
  conn,          \* the registry has a stream of the agent
  \* the streams
  linked,        \* the agent's own stream is the registered one and is alive
  toAgent, toServer,
  \* the agents' memory
  agentRun,      \* where the goroutine of the run is, none when runner.running
                 \* lacks it
  looking,       \* the run Execute did not find in the cache and has still to
                 \* look up in runner.running
  cancelled,     \* runs whose context was cancelled
  finished,      \* the LRU cache of results, most recent first
  pending,       \* pendingResults
  unacked,       \* results handed to the stream, not yet confirmed
  \* history
  starts,        \* how many times the pipeline of the run was started
  completed,     \* the runs whose pipeline ended successfully
  restarts,      \* how often the agent's process was restarted
  evicted,       \* how often the result of the run was evicted from the cache
  slipped,       \* how often the run left runner.running while Execute, having
                 \* missed it in the cache, was about to look there
  letGo,         \* active runs a worker let go of after an error
  faults         \* faults injected so far

dbVars     == <<status, lease, agentOnline>>
queueVars  == <<queue, enqueued, processing, pc, job>>
listVars   == <<created, watchdog, canceller, departed, disconnect, startup>>
netVars    == <<conn, linked, toAgent, toServer>>
agentVars  == <<agentRun, looking, cancelled, finished, pending, unacked>>
histVars   == <<starts, completed, restarts, evicted, slipped, letGo>>
vars == <<dbVars, server, queueVars, listVars, netVars, agentVars, histVars, faults>>

Results == {"succeeded", "failed", "cancelled"}

Message == [type : {"welcome", "execute", "cancel", "accepted", "result"},
            run  : Runs \cup {NoRun},
            res  : Results \cup {"none"}]

Welcome      == [type |-> "welcome",  run |-> NoRun, res |-> "none"]
Execute(r)   == [type |-> "execute",  run |-> r,     res |-> "none"]
CancelCmd(r) == [type |-> "cancel",   run |-> r,     res |-> "none"]
Accepted(r)  == [type |-> "accepted", run |-> r,     res |-> "none"]
Result(r, s) == [type |-> "result",   run |-> r,     res |-> s]

\* What checkTimeouts keeps of a row it listed: "expired" is a dispatched row
\* whose lease has run out, "overdue_" a row found past its deadline, "stopping_"
\* the same once CancelCommand has been sent; other rows need no treatment.
Observation == {"none", "queued", "expired", "overdue_dispatched", "overdue_running",
                "stopping_dispatched", "stopping_running"}

\* The steps of a run's goroutine: waiting for lock and slot, executing, its
\* result cached but not sent (the result itself, or "gaveup" for a run that was
\* cancelled while it waited), and its result sent but the run still registered.
HoldsSlot == {"executing"} \cup Results
HoldsLock == HoldsSlot \cup {"gaveup"}
RunnerStates == HoldsLock \cup {"none", "waiting", "sent"}

PCs == {"idle", "popped", "check", "claim", "send", "poll", "requeue"}

TypeOK ==
  /\ status \in [Runs -> RunStatuses \cup {"absent"}]
  /\ lease \in [Runs -> {"none", "live", "expired"}]
  /\ agentOnline \in [Agents -> BOOLEAN]
  /\ server \in {"serving", "recovering"}
  /\ created \subseteq Runs
  /\ queue \in [Repositories -> Seq(Runs)]
  /\ enqueued \subseteq Runs
  /\ processing \subseteq Runs
  /\ pc \in [Repositories -> PCs]
  /\ job \in [Repositories -> Runs \cup {NoRun}]
  /\ watchdog \in [Runs -> Observation]
  /\ canceller \in [Runs -> {"none", "queued", "dispatched", "running", "done"}]
  /\ departed \subseteq Agents
  /\ disconnect \in [Runs -> {"none", "dispatched", "running"}]
  /\ startup \in [Runs -> {"none", "dispatched", "running"}]
  /\ conn \in [Agents -> BOOLEAN]
  /\ linked \in [Agents -> BOOLEAN]
  /\ toAgent \in [Agents -> Seq(Message)]
  /\ toServer \in [Agents -> Seq(Message)]
  /\ agentRun \in [Runs -> RunnerStates]
  /\ looking \in [Agents -> Runs \cup {NoRun}]
  /\ cancelled \subseteq Runs
  /\ finished \in [Agents -> Seq(Message)]
  /\ pending \in [Agents -> Seq(Message)]
  /\ unacked \in [Agents -> Seq(Message)]
  /\ starts \in [Runs -> Nat]
  /\ completed \subseteq Runs
  /\ restarts \in [Agents -> Nat]
  /\ evicted \in [Runs -> Nat]
  /\ slipped \in [Runs -> Nat]
  /\ letGo \subseteq Runs
  /\ faults \in 0 .. MaxFaults
  \* a worker holds a job of its own repository, and only while it is busy
  /\ \A p \in Repositories :
       IF pc[p] = "idle" THEN job[p] = NoRun
       ELSE job[p] \in Runs /\ RunRepository[job[p]] = p

Init ==
  /\ status = [r \in Runs |-> "absent"]
  /\ lease = [r \in Runs |-> "none"]
  /\ agentOnline = [a \in Agents |-> FALSE]
  /\ server = "serving"
  /\ created = {}
  /\ queue = [p \in Repositories |-> <<>>]
  /\ enqueued = {} /\ processing = {}
  /\ pc = [p \in Repositories |-> "idle"]
  /\ job = [p \in Repositories |-> NoRun]
  /\ watchdog = [r \in Runs |-> "none"]
  /\ canceller = [r \in Runs |-> "none"]
  /\ departed = {}
  /\ disconnect = [r \in Runs |-> "none"]
  /\ startup = [r \in Runs |-> "none"]
  /\ conn = [a \in Agents |-> FALSE]
  /\ linked = [a \in Agents |-> FALSE]
  /\ toAgent = [a \in Agents |-> <<>>]
  /\ toServer = [a \in Agents |-> <<>>]
  /\ agentRun = [r \in Runs |-> "none"]
  /\ looking = [a \in Agents |-> NoRun]
  /\ cancelled = {}
  /\ finished = [a \in Agents |-> <<>>]
  /\ pending = [a \in Agents |-> <<>>]
  /\ unacked = [a \in Agents |-> <<>>]
  /\ starts = [r \in Runs |-> 0]
  /\ completed = {}
  /\ restarts = [a \in Agents |-> 0]
  /\ evicted = [r \in Runs |-> 0]
  /\ slipped = [r \in Runs |-> 0]
  /\ letGo = {}
  /\ faults = 0

-----------------------------------------------------------------------------
(* Faults, the store's compare-and-set, and the dispatcher's queue.        *)

Fault(kind) ==
  /\ kind \in FaultKinds
  /\ faults < MaxFaults
  /\ faults' = faults + 1

\* store.TransitionRun: compare-and-set of one row.  The callers ignore or log
\* ErrInvalidTransition, so a refused transition changes nothing.  newLease is
\* what the caller's mutate function writes to lease_expires_at.
TransitionRun(r, from, to, newLease) ==
  IF CanTransition(status[r], from, to)
  THEN /\ status' = [status EXCEPT ![r] = to]
       /\ lease' = [lease EXCEPT ![r] = newLease]
  ELSE UNCHANGED <<status, lease>>

\* Dispatcher.Enqueue: idempotent through the marker enqueuedRuns.
Enqueue(r) ==
  IF r \in enqueued
  THEN UNCHANGED <<enqueued, queue>>
  ELSE /\ enqueued' = enqueued \cup {r}
       /\ queue' = [queue EXCEPT ![RunRepository[r]] = Append(@, r)]

InQueue(r) ==
  \E i \in DOMAIN queue[RunRepository[r]] : queue[RunRepository[r]][i] = r

\* A run is created: the row is inserted first, Enqueue is called afterwards.
CreateRun(r) ==
  /\ server = "serving"
  /\ status[r] = "absent"
  /\ status' = [status EXCEPT ![r] = "queued"]
  /\ created' = created \cup {r}
  /\ UNCHANGED <<lease, agentOnline, server, queueVars, watchdog, canceller,
                 departed, disconnect, startup, netVars, agentVars, histVars, faults>>

EnqueueCreated(r) ==
  /\ r \in created
  /\ created' = created \ {r}
  /\ Enqueue(r)
  /\ UNCHANGED <<dbVars, server, processing, pc, job, watchdog, canceller,
                 departed, disconnect, startup, netVars, agentVars, histVars, faults>>

-----------------------------------------------------------------------------
(* The worker of repository p: repoWorker and processJob.                  *)

WorkerAt(p, label) == pc[p] = label

\* processJob moves on with the same job.
GoTo(p, label) ==
  /\ pc' = [pc EXCEPT ![p] = label]
  /\ UNCHANGED job

ActiveRuns == {r \in Runs : status[r] \in {"dispatched", "running"}}

\* processJob returns after removeEnqueued; repoWorker clears the processing
\* marker once more and takes the next job.
DropJob(p) ==
  /\ enqueued' = enqueued \ {job[p]}
  /\ processing' = processing \ {job[p]}
  /\ pc' = [pc EXCEPT ![p] = "idle"]
  /\ job' = [job EXCEPT ![p] = NoRun]
  /\ UNCHANGED queue

\* The head of the queue is popped under the queue's lock ...
Pop(p) ==
  /\ WorkerAt(p, "idle")
  /\ queue[p] # <<>>
  /\ job' = [job EXCEPT ![p] = Head(queue[p])]
  /\ queue' = [queue EXCEPT ![p] = Tail(@)]
  /\ pc' = [pc EXCEPT ![p] = "popped"]
  /\ UNCHANGED <<enqueued, processing, dbVars, server, listVars, netVars,
                 agentVars, histVars, faults>>

\* ... and marked as being processed under another lock, later.
MarkProcessing(p) ==
  /\ WorkerAt(p, "popped")
  /\ processing' = processing \cup {job[p]}
  /\ GoTo(p, "check")
  /\ UNCHANGED <<queue, enqueued, dbVars, server, listVars, netVars, agentVars,
                 histVars, faults>>

\* The registry is asked whether the agent has a stream.
CheckConnected(p) ==
  /\ WorkerAt(p, "check")
  /\ GoTo(p, IF conn[RunAgent[job[p]]] THEN "claim" ELSE "requeue")
  /\ UNCHANGED <<queue, enqueued, processing, dbVars, server, listVars, netVars,
                 agentVars, histVars, faults>>

\* The durable edge queued -> dispatched, with a fresh lease; a job whose row
\* has moved on is dropped.
Claim(p) ==
  /\ WorkerAt(p, "claim")
  /\ TransitionRun(job[p], "queued", "dispatched", "live")
  /\ IF CanTransition(status[job[p]], "queued", "dispatched")
     THEN GoTo(p, "send") /\ UNCHANGED <<queue, enqueued, processing>>
     ELSE DropJob(p)
  /\ UNCHANGED <<agentOnline, server, listVars, netVars, agentVars, histVars, faults>>

\* Mutant: the worker returns without putting the job back.
ClaimBusy_Forgets(p) ==
  /\ WorkerAt(p, "claim")
  /\ Fault("store")
  /\ processing' = processing \ {job[p]}
  /\ pc' = [pc EXCEPT ![p] = "idle"]
  /\ job' = [job EXCEPT ![p] = NoRun]
  /\ UNCHANGED <<queue, enqueued, dbVars, server, listVars, netVars, agentVars, histVars>>

\* The claim fails with another error (SQLITE_BUSY after the retries).
ClaimBusy(p) ==
  /\ WorkerAt(p, "claim")
  /\ Fault("store")
  /\ GoTo(p, "requeue")
  /\ UNCHANGED <<queue, enqueued, processing, dbVars, server, listVars, netVars,
                 agentVars, histVars>>

\* CommandSource.BuildCommand fails for good: the run fails, unless the agent
\* has meanwhile accepted it from an earlier delivery.
BuildFails(p) ==
  /\ WorkerAt(p, "send")
  /\ Fault("build")
  /\ TransitionRun(job[p], "dispatched", "failed", "none")
  /\ DropJob(p)
  /\ letGo' = letGo \cup ({job[p]} \cap ActiveRuns')
  /\ UNCHANGED <<agentOnline, server, listVars, netVars, agentVars, starts, completed,
                 restarts, evicted, slipped>>

\* Registry.Send puts the command on whatever stream is registered now.
SendCommand(p) ==
  LET a == RunAgent[job[p]] IN
  /\ WorkerAt(p, "send")
  /\ conn[a]
  /\ Len(toAgent[a]) < ChannelCap
  /\ toAgent' = [toAgent EXCEPT ![a] = Append(@, Execute(job[p]))]
  /\ GoTo(p, "poll")
  /\ UNCHANGED <<queue, enqueued, processing, dbVars, server, listVars, conn,
                 linked, toServer, agentVars, histVars, faults>>

\* No stream: the claim is undone and the job goes back to the tail, unless
\* the row has moved on in the meantime.
SendFails(p) ==
  /\ WorkerAt(p, "send")
  /\ ~conn[RunAgent[job[p]]]
  /\ TransitionRun(job[p], "dispatched", "queued", "none")
  /\ IF CanTransition(status[job[p]], "dispatched", "queued")
     THEN GoTo(p, "requeue") /\ UNCHANGED <<queue, enqueued, processing>>
     ELSE DropJob(p)
  /\ letGo' = letGo \cup ({job[p]} \cap ActiveRuns')
  /\ UNCHANGED <<agentOnline, server, listVars, netVars, agentVars, starts, completed,
                 restarts, evicted, slipped, faults>>

\* No stream and the claim cannot be undone because the database is busy: the
\* row is left to the lease.
RevertBusy(p) ==
  /\ WorkerAt(p, "send")
  /\ ~conn[RunAgent[job[p]]]
  /\ Fault("store")
  /\ DropJob(p)
  /\ letGo' = letGo \cup ({job[p]} \cap ActiveRuns)
  /\ UNCHANGED <<dbVars, server, listVars, netVars, agentVars, starts, completed,
                 restarts, evicted, slipped>>

\* Mutant: the worker stops waiting once the agent has accepted.
Poll_UntilAccepted(p) ==
  /\ WorkerAt(p, "poll")
  /\ status[job[p]] # "dispatched"
  /\ DropJob(p)
  /\ UNCHANGED <<dbVars, server, listVars, netVars, agentVars, histVars, faults>>

\* The worker waits until the run is terminal, or is queued again.
Poll(p) ==
  /\ WorkerAt(p, "poll")
  /\ \/ /\ status[job[p]] \in Terminal
        /\ DropJob(p)
     \/ /\ status[job[p]] = "queued"
        /\ GoTo(p, "requeue")
        /\ UNCHANGED <<queue, enqueued, processing>>
  /\ UNCHANGED <<dbVars, server, listVars, netVars, agentVars, histVars, faults>>

\* GetRun fails, at the start of processJob or while polling: the job is dropped.
GetRunFails(p) ==
  /\ WorkerAt(p, "check") \/ WorkerAt(p, "poll")
  /\ Fault("store")
  /\ DropJob(p)
  /\ letGo' = letGo \cup ({job[p]} \cap ActiveRuns)
  /\ UNCHANGED <<dbVars, server, listVars, netVars, agentVars, starts, completed,
                 restarts, evicted, slipped>>

\* Mutant: the processing marker is left behind.
RequeueJob_KeepsMarker(p) ==
  /\ WorkerAt(p, "requeue")
  /\ queue' = [queue EXCEPT ![p] = Append(@, job[p])]
  /\ pc' = [pc EXCEPT ![p] = "idle"]
  /\ job' = [job EXCEPT ![p] = NoRun]
  /\ UNCHANGED <<enqueued, processing, dbVars, server, listVars, netVars, agentVars,
                 histVars, faults>>

\* requeueJob appends the job to the tail; repoWorker then clears the marker.
RequeueJob(p) ==
  /\ WorkerAt(p, "requeue")
  /\ queue' = [queue EXCEPT ![p] = Append(@, job[p])]
  /\ processing' = processing \ {job[p]}
  /\ pc' = [pc EXCEPT ![p] = "idle"]
  /\ job' = [job EXCEPT ![p] = NoRun]
  /\ UNCHANGED <<enqueued, dbVars, server, listVars, netVars, agentVars, histVars, faults>>

-----------------------------------------------------------------------------
(* The watchdog: recoverQueuedRuns and checkTimeouts.  Each list query is  *)
(* followed, row by row, by a compare-and-set against the listed state.    *)

Observe(r, overdue) ==
  CASE status[r] = "queued" -> "queued"
    [] status[r] = "dispatched" /\ lease[r] = "expired" -> "expired"
    [] status[r] = "dispatched" /\ lease[r] # "expired" /\ overdue -> "overdue_dispatched"
    [] status[r] = "running" /\ overdue -> "overdue_running"
    [] OTHER -> "none"

WatchdogTick(late) ==
  /\ \A r \in Runs : watchdog[r] = "none"
  /\ watchdog' = [r \in Runs |-> Observe(r, r \in late)]
  /\ UNCHANGED <<dbVars, server, queueVars, created, canceller, departed,
                 disconnect, startup, netVars, agentVars, histVars, faults>>

\* Mutants: the queue is not searched; no job is ever recovered.
RecoverQueuedRun_Blind(r) ==
  /\ watchdog[r] = "queued"
  /\ watchdog' = [watchdog EXCEPT ![r] = "none"]
  /\ enqueued' = enqueued \cup {r}
  /\ queue' = [queue EXCEPT ![RunRepository[r]] = Append(@, r)]
  /\ UNCHANGED <<dbVars, server, processing, pc, job, created, canceller,
                 departed, disconnect, startup, netVars, agentVars, histVars, faults>>

RecoverQueuedRun_Never(r) ==
  /\ watchdog[r] = "queued"
  /\ watchdog' = [watchdog EXCEPT ![r] = "none"]
  /\ UNCHANGED <<dbVars, server, queueVars, created, canceller, departed,
                 disconnect, startup, netVars, agentVars, histVars, faults>>

\* prepareRecovery followed by Enqueue: a queued row that neither a worker nor
\* the queue represents gets a new job, whatever its marker says.
RecoverQueuedRun(r) ==
  /\ watchdog[r] = "queued"
  /\ watchdog' = [watchdog EXCEPT ![r] = "none"]
  /\ IF r \in processing \/ InQueue(r)
     THEN UNCHANGED <<enqueued, queue>>
     ELSE /\ enqueued' = enqueued \cup {r}
          /\ queue' = [queue EXCEPT ![RunRepository[r]] = Append(@, r)]
  /\ UNCHANGED <<dbVars, server, processing, pc, job, created, canceller,
                 departed, disconnect, startup, netVars, agentVars, histVars, faults>>

\* The lease has run out: retry-safe work is queued again, the rest fails.
ExpireRun(r) ==
  /\ watchdog[r] = "expired"
  /\ watchdog' = [watchdog EXCEPT ![r] = "none"]
  /\ IF r \in Retryable
     THEN /\ TransitionRun(r, "dispatched", "queued", "none")
          /\ IF CanTransition(status[r], "dispatched", "queued")
             THEN Enqueue(r)
             ELSE UNCHANGED <<enqueued, queue>>
     ELSE /\ TransitionRun(r, "dispatched", "failed", "none")
          /\ UNCHANGED <<enqueued, queue>>
  /\ UNCHANGED <<agentOnline, server, processing, pc, job, created, canceller,
                 departed, disconnect, startup, netVars, agentVars, histVars, faults>>

\* Sends CancelCommand when the agent has a stream.
SendCancel(r) ==
  LET a == RunAgent[r] IN
  IF conn[a]
  THEN /\ Len(toAgent[a]) < ChannelCap
       /\ toAgent' = [toAgent EXCEPT ![a] = Append(@, CancelCmd(r))]
  ELSE UNCHANGED toAgent

\* The deadline has passed: the agent is told to stop ...
TimeoutCancel(r) ==
  /\ watchdog[r] \in {"overdue_dispatched", "overdue_running"}
  /\ watchdog' = [watchdog EXCEPT ![r] =
       IF @ = "overdue_running" THEN "stopping_running" ELSE "stopping_dispatched"]
  /\ SendCancel(r)
  /\ UNCHANGED <<dbVars, server, queueVars, created, canceller, departed,
                 disconnect, startup, conn, linked, toServer, agentVars, histVars, faults>>

\* ... and the row fails if it is still in the listed state.
TimeoutFail(r) ==
  /\ watchdog[r] \in {"stopping_dispatched", "stopping_running"}
  /\ watchdog' = [watchdog EXCEPT ![r] = "none"]
  /\ TransitionRun(r, IF watchdog[r] = "stopping_running" THEN "running" ELSE "dispatched",
                   "failed", lease[r])
  /\ UNCHANGED <<agentOnline, server, queueVars, created, canceller, departed,
                 disconnect, startup, netVars, agentVars, histVars, faults>>

\* Something that will settle the run is still under way.
Underway(r) ==
  \/ agentRun[r] # "none" \/ looking[RunAgent[r]] = r
  \/ \E p \in Repositories : job[p] = r /\ pc[p] = "send"
  \/ \E i \in DOMAIN toAgent[RunAgent[r]] : toAgent[RunAgent[r]][i] = Execute(r)
  \/ \E i \in DOMAIN toServer[RunAgent[r]] : toServer[RunAgent[r]][i].run = r

\* The two minutes of the lease pass with nothing under way any more ...
LeaseRunsOut(r) ==
  /\ status[r] = "dispatched" /\ lease[r] = "live"
  /\ ~Underway(r)
  /\ lease' = [lease EXCEPT ![r] = "expired"]
  /\ UNCHANGED <<status, agentOnline, server, queueVars, listVars, netVars,
                 agentVars, histVars, faults>>

\* ... or while the command or its answer is merely slow.
LeaseRunsOutEarly(r) ==
  /\ status[r] = "dispatched" /\ lease[r] = "live"
  /\ Underway(r)
  /\ Fault("lease")
  /\ lease' = [lease EXCEPT ![r] = "expired"]
  /\ UNCHANGED <<status, agentOnline, server, queueVars, listVars, netVars,
                 agentVars, histVars>>

-----------------------------------------------------------------------------
(* Cancellation and the scheduler's tickStaleQueued.                       *)

\* Cancel reads the row and, unless it is queued or terminal, sends
\* CancelCommand.  One call per run.
CancelRead(r) ==
  /\ server = "serving"
  /\ r \in Cancellable /\ canceller[r] = "none"
  /\ status[r] \in {"queued", "dispatched", "running"}
  /\ canceller' = [canceller EXCEPT ![r] = status[r]]
  /\ IF status[r] = "queued" THEN UNCHANGED toAgent ELSE SendCancel(r)
  /\ UNCHANGED <<dbVars, server, queueVars, created, watchdog, departed,
                 disconnect, startup, conn, linked, toServer, agentVars, histVars, faults>>

\* Without waiting for the agent the row is marked cancelled.
CancelCommit(r) ==
  /\ canceller[r] \in {"queued", "dispatched", "running"}
  /\ TransitionRun(r, canceller[r], "cancelled", lease[r])
  /\ canceller' = [canceller EXCEPT ![r] = "done"]
  /\ UNCHANGED <<agentOnline, server, queueVars, created, watchdog, departed,
                 disconnect, startup, netVars, agentVars, histVars, faults>>

\* tickStaleQueued: a queued row past its deadline fails when the agent's row
\* says offline.
FailStaleQueued(r) ==
  /\ server = "serving"
  /\ r \in MayTimeOut
  /\ status[r] = "queued"
  /\ ~agentOnline[RunAgent[r]]
  /\ TransitionRun(r, "queued", "failed", lease[r])
  /\ UNCHANGED <<agentOnline, server, queueVars, listVars, netVars, agentVars,
                 histVars, faults>>

-----------------------------------------------------------------------------
(* The server's message handlers.                                          *)

Receive(a, type) ==
  /\ conn[a]
  /\ toServer[a] # <<>>
  /\ Head(toServer[a]).type = type
  /\ toServer' = [toServer EXCEPT ![a] = Tail(@)]

\* handleCommandAccepted
HandleAccepted(a) ==
  /\ Receive(a, "accepted")
  /\ TransitionRun(Head(toServer[a]).run, "dispatched", "running", "none")
  /\ UNCHANGED <<agentOnline, server, queueVars, listVars, conn, linked, toAgent,
                 agentVars, histVars, faults>>

\* Mutant: the result is written whatever the row says.
HandleResult_Overwrites(a) ==
  /\ Receive(a, "result")
  /\ status' = [status EXCEPT ![Head(toServer[a]).run] = Head(toServer[a]).res]
  /\ lease' = [lease EXCEPT ![Head(toServer[a]).run] = "none"]
  /\ UNCHANGED <<agentOnline, server, queueVars, listVars, conn, linked, toAgent,
                 agentVars, histVars, faults>>

\* handleRunResult: running -> res, else dispatched -> res, else a success
\* corrects a cancelled row, else the result is a duplicate.
HandleResult(a) ==
  LET r == Head(toServer[a]).run
      res == Head(toServer[a]).res
      settles == \/ CanTransition(status[r], "running", res)
                 \/ CanTransition(status[r], "dispatched", res)
                 \/ status[r] = "cancelled" /\ res = "succeeded"
  IN
  /\ Receive(a, "result")
  /\ IF settles
     THEN /\ status' = [status EXCEPT ![r] = res]
          /\ lease' = [lease EXCEPT ![r] = "none"]
     ELSE UNCHANGED <<status, lease>>
  /\ UNCHANGED <<agentOnline, server, queueVars, listVars, conn, linked, toAgent,
                 agentVars, histVars, faults>>

\* A handler's database write fails: the message is logged and forgotten.
HandlerFails(a) ==
  /\ \E type \in {"accepted", "result"} : Receive(a, type)
  /\ Fault("store")
  /\ UNCHANGED <<dbVars, server, queueVars, listVars, conn, linked, toAgent,
                 agentVars, histVars>>

\* handleHeartbeat
Heartbeat(a) ==
  /\ conn[a] /\ linked[a]
  /\ ~agentOnline[a]
  /\ agentOnline' = [agentOnline EXCEPT ![a] = TRUE]
  /\ UNCHANGED <<status, lease, server, queueVars, listVars, netVars, agentVars,
                 histVars, faults>>

-----------------------------------------------------------------------------
(* Streams.                                                                *)

\* The agent's stream dies; the server does not know yet.
LinkBreaks(a) ==
  /\ linked[a]
  /\ Fault("link")
  /\ linked' = [linked EXCEPT ![a] = FALSE]
  /\ UNCHANGED <<dbVars, server, queueVars, listVars, conn, toAgent, toServer,
                 agentVars, histVars>>

\* Connect returns and UnregisterIf removes the stream; handleDisconnect is
\* called next, outside the registry's lock.
StreamEnds(a) ==
  /\ conn[a] /\ ~linked[a]
  /\ a \notin departed
  /\ conn' = [conn EXCEPT ![a] = FALSE]
  /\ toAgent' = [toAgent EXCEPT ![a] = <<>>]
  /\ toServer' = [toServer EXCEPT ![a] = <<>>]
  /\ departed' = departed \cup {a}
  /\ UNCHANGED <<dbVars, server, queueVars, created, watchdog, canceller,
                 disconnect, startup, linked, agentVars, histVars, faults>>

\* handleDisconnect marks the agent offline and lists its active runs ...
DisconnectList(a) ==
  /\ a \in departed
  /\ \A r \in Runs : RunAgent[r] = a => disconnect[r] = "none"
  /\ departed' = departed \ {a}
  /\ agentOnline' = [agentOnline EXCEPT ![a] = FALSE]
  /\ disconnect' = [r \in Runs |->
       IF RunAgent[r] = a /\ status[r] \in {"dispatched", "running"}
       THEN status[r] ELSE disconnect[r]]
  /\ UNCHANGED <<status, lease, server, queueVars, created, watchdog, canceller,
                 startup, netVars, agentVars, histVars, faults>>

\* Mutant: every operation is treated as retry-safe.
Abandon_AlwaysRequeues(r, from) == TransitionRun(r, from, "queued", "none")

\* What handleDisconnect and recoverStaleRuns do with a row listed as "from".
Abandon(r, from) ==
  TransitionRun(r, from, IF r \in Retryable THEN "queued" ELSE "failed", "none")

\* ... and treats them one by one.
DisconnectRun(r) ==
  /\ disconnect[r] # "none"
  /\ Abandon(r, disconnect[r])
  /\ disconnect' = [disconnect EXCEPT ![r] = "none"]
  /\ UNCHANGED <<agentOnline, server, queueVars, created, watchdog, canceller,
                 departed, startup, netVars, agentVars, histVars, faults>>

\* The agent connects, once its loop over the old stream has returned: Hello,
\* Register (which kicks a stream still registered, without handleDisconnect),
\* Welcome, and SetStream, which replays every result not confirmed on the old
\* stream.
Reconnect(a) ==
  LET replay == unacked[a] \o pending[a] IN
  /\ server = "serving"
  /\ ~linked[a] /\ looking[a] = NoRun
  /\ linked' = [linked EXCEPT ![a] = TRUE]
  /\ conn' = [conn EXCEPT ![a] = TRUE]
  /\ toAgent' = [toAgent EXCEPT ![a] = <<Welcome>>]
  /\ toServer' = [toServer EXCEPT ![a] = replay]
  /\ unacked' = [unacked EXCEPT ![a] = replay]
  /\ pending' = [pending EXCEPT ![a] = <<>>]
  /\ agentOnline' = [agentOnline EXCEPT ![a] = TRUE]
  /\ UNCHANGED <<status, lease, server, queueVars, listVars, agentRun, looking,
                 cancelled, finished, histVars, faults>>

-----------------------------------------------------------------------------
(* The agent: client.streamLoop and Runner.                                *)

\* Messages are handled one after the other, and each confirms every result
\* handed to the stream.
AgentReceive(a, type) ==
  /\ linked[a] /\ looking[a] = NoRun
  /\ toAgent[a] # <<>>
  /\ Head(toAgent[a]).type = type
  /\ toAgent' = [toAgent EXCEPT ![a] = Tail(@)]

ReceiveWelcome(a) ==
  /\ AgentReceive(a, "welcome")
  /\ unacked' = [unacked EXCEPT ![a] = <<>>]
  /\ UNCHANGED <<dbVars, server, queueVars, listVars, conn, linked, toServer,
                 agentRun, looking, cancelled, finished, pending, histVars, faults>>

\* lruCache: the place of the result of r, the result, the cache without it,
\* the cache with it in front, and put.
Cached(a, r) == {i \in DOMAIN finished[a] : finished[a][i].run = r}

CachedResult(a, r) == finished[a][CHOOSE i \in Cached(a, r) : TRUE]

Uncached(a, r) ==
  LET i == CHOOSE j \in Cached(a, r) : TRUE
  IN SubSeq(finished[a], 1, i - 1) \o SubSeq(finished[a], i + 1, Len(finished[a]))

MoveToFront(a, r) == <<CachedResult(a, r)>> \o Uncached(a, r)

\* A result the full cache does not hold yet takes the place of the last one.
Evicts(a, r) == Cached(a, r) = {} /\ Len(finished[a]) >= CacheCap

CachePut(a, m) ==
  LET others == IF Cached(a, m.run) # {} THEN Uncached(a, m.run)
                ELSE IF Evicts(a, m.run)
                THEN SubSeq(finished[a], 1, Len(finished[a]) - 1)
                ELSE finished[a]
  IN <<m>> \o others

\* Execute, run already finished: the cached result is sent again.
ReplayResult(a) ==
  LET r == Head(toAgent[a]).run IN
  /\ AgentReceive(a, "execute")
  /\ Cached(a, r) # {}
  /\ finished' = [finished EXCEPT ![a] = MoveToFront(a, r)]
  /\ toServer' = [toServer EXCEPT ![a] = Append(@, CachedResult(a, r))]
  /\ unacked' = [unacked EXCEPT ![a] = <<CachedResult(a, r)>>]
  /\ UNCHANGED <<dbVars, server, queueVars, listVars, conn, linked, agentRun,
                 looking, cancelled, pending, histVars, faults>>

\* Execute, run not in the cache: the cache's lock is given back before
\* runner.running is looked at.
CacheMiss(a) ==
  LET r == Head(toAgent[a]).run IN
  /\ AgentReceive(a, "execute")
  /\ Cached(a, r) = {}
  /\ looking' = [looking EXCEPT ![a] = r]
  /\ unacked' = [unacked EXCEPT ![a] = <<>>]
  /\ UNCHANGED <<dbVars, server, queueVars, listVars, conn, linked, toServer,
                 agentRun, cancelled, finished, pending, histVars, faults>>

\* Execute goes on and returns; r is, or is not, registered.
Return(a, registered) ==
  /\ looking[a] # NoRun
  /\ (agentRun[looking[a]] # "none") = registered
  /\ looking' = [looking EXCEPT ![a] = NoRun]

\* The run is registered: the duplicate is ignored, nothing is answered.
IgnoreDuplicate(a) ==
  /\ Return(a, TRUE)
  /\ UNCHANGED <<dbVars, server, queueVars, listVars, netVars, agentRun, cancelled,
                 finished, pending, unacked, histVars, faults>>

\* stream.Send of messages that are kept nowhere: a broken stream loses them.
SendUp(a, ms) == toServer' = IF linked[a] THEN [toServer EXCEPT ![a] = @ \o ms] ELSE toServer

\* New run: CommandAccepted is sent, the run is registered and its goroutine
\* starts.
AcceptCommand(a) ==
  /\ Return(a, FALSE)
  /\ SendUp(a, <<Accepted(looking[a])>>)
  /\ agentRun' = [agentRun EXCEPT ![looking[a]] = "waiting"]
  /\ UNCHANGED <<dbVars, server, queueVars, listVars, conn, linked, toAgent, cancelled,
                 finished, pending, unacked, histVars, faults>>

\* New run, but sending CommandAccepted already reports the broken stream.
AcceptFails(a) ==
  /\ Return(a, FALSE)
  /\ ~linked[a]
  /\ UNCHANGED <<dbVars, server, queueVars, listVars, netVars, agentRun, cancelled,
                 finished, pending, unacked, histVars, faults>>

\* sendRunResult: the result is kept until a message of the server confirms it.
SendRunResult(a, m) ==
  IF linked[a]
  THEN unacked' = [unacked EXCEPT ![a] = Append(@, m)] /\ UNCHANGED pending
  ELSE pending' = [pending EXCEPT ![a] = Append(@, m)] /\ UNCHANGED unacked

\* New run, but the temporary directory cannot be made: accepted and failed at
\* once, and neither registered nor cached.
TempDirFails(a) ==
  LET m == Result(looking[a], "failed") IN
  /\ Return(a, FALSE)
  /\ Fault("tempdir")
  /\ SendUp(a, <<Accepted(looking[a]), m>>)
  /\ SendRunResult(a, m)
  /\ UNCHANGED <<dbVars, server, queueVars, listVars, conn, linked, toAgent, agentRun,
                 cancelled, finished, histVars>>

\* Runner.Cancel
ReceiveCancel(a) ==
  LET r == Head(toAgent[a]).run IN
  /\ AgentReceive(a, "cancel")
  /\ cancelled' = IF agentRun[r] # "none" THEN cancelled \cup {r} ELSE cancelled
  /\ unacked' = [unacked EXCEPT ![a] = <<>>]
  /\ UNCHANGED <<dbVars, server, queueVars, listVars, conn, linked, toServer,
                 agentRun, looking, finished, pending, histVars, faults>>

\* The agent's runs whose goroutine is at one of these steps.
Occupying(a, steps) == {r \in Runs : RunAgent[r] = a /\ agentRun[r] \in steps}

\* The lock of the repository's path is free.
RepositoryFree(r) ==
  \A s \in Occupying(RunAgent[r], HoldsLock) : RunRepository[s] # RunRepository[r]

SlotFree(a) == MaxConcurrency = 0 \/ Cardinality(Occupying(a, HoldsSlot)) < MaxConcurrency

\* Lock and slot are taken and the pipeline starts.
StartPipeline(r) ==
  /\ agentRun[r] = "waiting"
  /\ RepositoryFree(r)
  /\ SlotFree(RunAgent[r])
  /\ agentRun' = [agentRun EXCEPT ![r] = "executing"]
  /\ starts' = [starts EXCEPT ![r] = @ + 1]
  /\ UNCHANGED <<dbVars, server, queueVars, listVars, netVars, looking, cancelled,
                 finished, pending, unacked, completed, restarts, evicted, slipped,
                 letGo, faults>>

\* Mutant: the result is not cached.
PutResult_Skipped(r, res, step) ==
  /\ agentRun' = [agentRun EXCEPT ![r] = step]
  /\ UNCHANGED <<finished, evicted>>

\* The goroutine has its result and caches it.
PutResult(r, res, step) ==
  LET a == RunAgent[r] IN
  /\ finished' = [finished EXCEPT ![a] = CachePut(a, Result(r, res))]
  /\ evicted' = IF Evicts(a, r)
                THEN [evicted EXCEPT ![finished[a][Len(finished[a])].run] = @ + 1]
                ELSE evicted
  /\ agentRun' = [agentRun EXCEPT ![r] = step]

\* The context is cancelled while the run waits for a slot.
GiveUpWaiting(r) ==
  /\ MaxConcurrency > 0
  /\ agentRun[r] = "waiting"
  /\ RepositoryFree(r)
  /\ r \in cancelled
  /\ PutResult(r, "cancelled", "gaveup")
  /\ UNCHANGED <<dbVars, server, queueVars, listVars, netVars, looking, cancelled,
                 pending, unacked, starts, completed, restarts, slipped, letGo, faults>>

\* The pipeline ends: an error counts as cancelled when the context was.
FinishPipeline(r) ==
  /\ agentRun[r] = "executing"
  /\ \E res \in Results :
       /\ res # "succeeded" => (res = "cancelled") = (r \in cancelled)
       /\ completed' = IF res = "succeeded" THEN completed \cup {r} ELSE completed
       /\ PutResult(r, res, res)
  /\ UNCHANGED <<dbVars, server, queueVars, listVars, netVars, looking, cancelled,
                 pending, unacked, starts, restarts, slipped, letGo, faults>>

\* The result is sent; lock and slot are given back.
SendResult(r) ==
  LET a == RunAgent[r]
      m == Result(r, IF agentRun[r] = "gaveup" THEN "cancelled" ELSE agentRun[r])
  IN
  /\ agentRun[r] \in Results \cup {"gaveup"}
  /\ agentRun' = [agentRun EXCEPT ![r] = "sent"]
  /\ SendUp(a, <<m>>)
  /\ SendRunResult(a, m)
  /\ UNCHANGED <<dbVars, server, queueVars, listVars, conn, linked, toAgent, looking,
                 cancelled, finished, histVars, faults>>

\* The run is deleted from runner.running, last of all.
Unregister(r) ==
  /\ agentRun[r] = "sent"
  /\ agentRun' = [agentRun EXCEPT ![r] = "none"]
  /\ cancelled' = cancelled \ {r}
  /\ slipped' = IF looking[RunAgent[r]] = r THEN [slipped EXCEPT ![r] = @ + 1] ELSE slipped
  /\ UNCHANGED <<dbVars, server, queueVars, listVars, netVars, looking, finished,
                 pending, unacked, starts, completed, restarts, evicted, letGo, faults>>

\* The agent's process is killed and started again: its memory is lost.
AgentRestart(a) ==
  /\ Fault("restart")
  /\ linked' = [linked EXCEPT ![a] = FALSE]
  /\ agentRun' = [r \in Runs |-> IF RunAgent[r] = a THEN "none" ELSE agentRun[r]]
  /\ looking' = [looking EXCEPT ![a] = NoRun]
  /\ cancelled' = {r \in cancelled : RunAgent[r] # a}
  /\ finished' = [finished EXCEPT ![a] = <<>>]
  /\ pending' = [pending EXCEPT ![a] = <<>>]
  /\ unacked' = [unacked EXCEPT ![a] = <<>>]
  /\ restarts' = [restarts EXCEPT ![a] = @ + 1]
  /\ UNCHANGED <<dbVars, server, queueVars, listVars, conn, toAgent, toServer,
                 starts, completed, evicted, slipped, letGo>>

-----------------------------------------------------------------------------
(* Server restart: cmd/server/main.go.                                     *)

\* The process dies and starts again: only the database survives, and
\* recoverStaleRuns has listed the active rows.
ServerCrash ==
  /\ Fault("crash")
  /\ server' = "recovering"
  /\ queue' = [p \in Repositories |-> <<>>]
  /\ enqueued' = {} /\ processing' = {} /\ created' = {}
  /\ pc' = [p \in Repositories |-> "idle"]
  /\ job' = [p \in Repositories |-> NoRun]
  /\ watchdog' = [r \in Runs |-> "none"]
  /\ canceller' = [r \in Runs |-> IF canceller[r] = "none" THEN "none" ELSE "done"]
  /\ departed' = {}
  /\ disconnect' = [r \in Runs |-> "none"]
  /\ startup' = [r \in Runs |->
       IF status[r] \in {"dispatched", "running"} THEN status[r] ELSE "none"]
  /\ conn' = [a \in Agents |-> FALSE]
  /\ linked' = [a \in Agents |-> FALSE]
  /\ toAgent' = [a \in Agents |-> <<>>]
  /\ toServer' = [a \in Agents |-> <<>>]
  /\ UNCHANGED <<dbVars, agentVars, histVars>>

\* recoverStaleRuns, one row.
RecoverStaleRun(r) ==
  /\ startup[r] # "none"
  /\ Abandon(r, startup[r])
  /\ startup' = [startup EXCEPT ![r] = "none"]
  /\ UNCHANGED <<agentOnline, server, queueVars, created, watchdog, canceller,
                 departed, disconnect, netVars, agentVars, histVars, faults>>

\* The queued rows are enqueued again ...
EnqueueAtStartup(r) ==
  /\ server = "recovering"
  /\ \A s \in Runs : startup[s] = "none"
  /\ status[r] = "queued" /\ r \notin enqueued
  /\ Enqueue(r)
  /\ UNCHANGED <<dbVars, server, processing, pc, job, listVars, netVars, agentVars,
                 histVars, faults>>

\* ... every agent is marked offline, and the server serves.
StartServing ==
  /\ server = "recovering"
  /\ \A s \in Runs : startup[s] = "none"
  /\ \A r \in Runs : status[r] = "queued" => r \in enqueued
  /\ server' = "serving"
  /\ agentOnline' = [a \in Agents |-> FALSE]
  /\ UNCHANGED <<status, lease, queueVars, listVars, netVars, agentVars, histVars, faults>>

-----------------------------------------------------------------------------
WorkerNext(p) ==
  \/ Pop(p) \/ MarkProcessing(p) \/ CheckConnected(p)
  \/ Claim(p) \/ ClaimBusy(p) \/ BuildFails(p)
  \/ SendCommand(p) \/ SendFails(p) \/ RevertBusy(p)
  \/ Poll(p) \/ GetRunFails(p) \/ RequeueJob(p)

WatchdogNext(r) ==
  \/ RecoverQueuedRun(r) \/ ExpireRun(r)
  \/ TimeoutCancel(r) \/ TimeoutFail(r)

ServerNext(r) ==
  \/ CreateRun(r) \/ EnqueueCreated(r)
  \/ CancelRead(r) \/ CancelCommit(r) \/ FailStaleQueued(r)
  \/ DisconnectRun(r) \/ RecoverStaleRun(r) \/ EnqueueAtStartup(r)
  \/ LeaseRunsOut(r) \/ LeaseRunsOutEarly(r)

StreamNext(a) ==
  \/ HandleAccepted(a) \/ HandleResult(a) \/ HandlerFails(a) \/ Heartbeat(a)
  \/ LinkBreaks(a) \/ StreamEnds(a) \/ DisconnectList(a) \/ Reconnect(a)

AgentNext(a) ==
  \/ ReceiveWelcome(a) \/ ReplayResult(a) \/ CacheMiss(a)
  \/ IgnoreDuplicate(a) \/ AcceptCommand(a) \/ AcceptFails(a) \/ TempDirFails(a)
  \/ ReceiveCancel(a) \/ AgentRestart(a)

RunnerNext(r) ==
  \/ StartPipeline(r) \/ GiveUpWaiting(r) \/ FinishPipeline(r)
  \/ SendResult(r) \/ Unregister(r)

Next ==
  \/ \E p \in Repositories : WorkerNext(p)
  \/ \E late \in SUBSET MayTimeOut : WatchdogTick(late)
  \/ \E r \in Runs : WatchdogNext(r) \/ ServerNext(r) \/ RunnerNext(r)
  \/ \E a \in Agents : StreamNext(a) \/ AgentNext(a)
  \/ ServerCrash \/ StartServing

Spec == Init /\ [][Next]_vars

-----------------------------------------------------------------------------
(* Fairness.  Goroutines run, the watchdog ticks, the network delivers on a *)
(* live stream, the agent reconnects and its pipelines end; users, faults,  *)
(* heartbeats and the scheduler's tick owe nothing.                         *)

Fairness ==
  /\ \A p \in Repositories :
       WF_vars(\/ Pop(p) \/ MarkProcessing(p) \/ CheckConnected(p) \/ Claim(p)
               \/ SendCommand(p) \/ SendFails(p) \/ Poll(p) \/ RequeueJob(p))
  /\ WF_vars(\E late \in SUBSET MayTimeOut : WatchdogTick(late))
  /\ \A r \in Runs :
       /\ WF_vars(WatchdogNext(r))
       /\ SF_vars(WatchdogTick(MayTimeOut) /\ watchdog'[r] # "none")
       /\ WF_vars(LeaseRunsOut(r))
       /\ WF_vars(EnqueueCreated(r)) /\ WF_vars(CancelCommit(r))
       /\ WF_vars(DisconnectRun(r)) /\ WF_vars(RecoverStaleRun(r))
       /\ WF_vars(EnqueueAtStartup(r))
       /\ WF_vars(RunnerNext(r))
  /\ \A a \in Agents :
       /\ WF_vars(HandleAccepted(a) \/ HandleResult(a))
       /\ WF_vars(StreamEnds(a)) /\ WF_vars(DisconnectList(a)) /\ WF_vars(Reconnect(a))
       /\ WF_vars(\/ ReceiveWelcome(a) \/ ReplayResult(a) \/ CacheMiss(a)
                  \/ IgnoreDuplicate(a) \/ AcceptCommand(a) \/ AcceptFails(a)
                  \/ ReceiveCancel(a))
  /\ WF_vars(StartServing)

FairSpec == Spec /\ Fairness

-----------------------------------------------------------------------------
(* Properties.                                                              *)

\* An operation that is not retry-safe (forget, restore dry run) starts at most
\* once, whatever is lost, repeated, reordered or restarted: neither the claim's
\* undo, the lease, a disconnect nor a restart puts it back after its command
\* was handed to a stream (processJob, checkTimeouts, handleDisconnect,
\* recoverStaleRuns).
AtMostOneStart == \A r \in Runs \ Retryable : starts[r] <= 1

\* A retry-safe run that is queued again is delivered again, but the agent's
\* result cache and running map (Runner.Execute) keep it from working twice.
\* Each further execution is paid for by one of three things: a restart of the
\* agent's process, the eviction of the run's result from the full cache, or the
\* window of Execute, which looks at the cache first and at the map later, each
\* under its own lock: when the goroutine caches its result after the one look
\* and unregisters before the other, the duplicate is taken for a new run.
RedeliveryIsIdempotent ==
  \A r \in Runs : starts[r] <= 1 + restarts[RunAgent[r]] + evicted[r] + slipped[r]

\* The marker that makes the watchdog leave a queued run alone (processingRuns)
\* belongs to a worker that really holds the run; a stale marker would hide the
\* run from recoverQueuedRuns for ever.
ProcessingMarkerIsLive ==
  \A r \in processing : job[RunRepository[r]] = r

\* A run is never left only in enqueuedRuns: its marker, over which Enqueue
\* silently drops a call (a lease that ran out, a restart), stands for a job
\* in the queue or in the hands of the worker (processJob), whatever fails in
\* between and however many jobs of the run there are.
EnqueuedMarkerIsLive ==
  \A r \in enqueued : InQueue(r) \/ job[RunRepository[r]] = r

\* The window between popping a job and marking it lets the watchdog add a
\* second job for the same run (repoWorker, prepareRecovery); never a third.
JobCopies(r) ==
  LET p == RunRepository[r] IN
  Cardinality({i \in DOMAIN queue[p] : queue[p][i] = r}) + (IF job[p] = r THEN 1 ELSE 0)

AtMostTwoJobs == \A r \in Runs : JobCopies(r) <= 2

\* The dispatcher implements the promises of RunLifecycle: rows move along
\* validTransitions or are reconciled, succeeded means the agent's pipeline
\* succeeded, and no unsafe operation starts twice or is queued after starting.
Lifecycle == INSTANCE RunLifecycle WITH
  Runs <- Runs, Retryable <- Retryable,
  status <- status, starts <- starts, completed <- completed
LifecycleSpec == Lifecycle!Spec

\* Every run settles, and in the right state: no job, marker, lease, lost
\* message or restart leaves a row queued, dispatched or running for ever, and
\* a user's cancellation that came too late is corrected, so a row whose work
\* was done does not stay cancelled (reconcileCancelledSuccess).
Settled(r) ==
  /\ status[r] \in Terminal
  /\ status[r] = "cancelled" /\ canceller[r] = "done" => r \notin completed

EveryRunSettles == \A r \in Runs : (status[r] # "absent") ~> Settled(r)

\* Commands of one repository are serialised (dispatch.Dispatcher, processJob):
\* two rows of a repository are never dispatched or running together, whatever
\* is lost, restarted or crashes. A row gets company only when the worker let
\* go of it while it was active: the store fails, or the run, queued again by
\* its lease, can be neither built nor sent when the agent has just accepted
\* the earlier delivery. It is a property of the rows, not of the agent: a row
\* queued again after a broken stream or an early lease is not active, though
\* the agent may still execute it when the next run's command is sent; then only
\* the agent's lock of the repository's path keeps the two executions apart.
OneActiveRunPerRepository ==
  \A r, s \in ActiveRuns \ letGo :
    RunRepository[r] = RunRepository[s] => r = s

==============================================================================
