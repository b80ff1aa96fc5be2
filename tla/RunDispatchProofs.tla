------------------------- MODULE RunDispatchProofs ---------------------------
(***************************************************************************)
(* Theorems about RunDispatch, for any number of runs, repositories, agents*)
(* and faults: type correctness, live processing markers, at most two jobs *)
(* of a run, one start of an unsafe run, one active run of a repository,   *)
(* what the execution of a redelivered run costs, and the refinement of    *)
(* RunLifecycle.                                                           *)
(*                                                                         *)
(* Each invariant is proved from what a step can do to a few variables,    *)
(* said once in a lemma: RowSteps (the rows), QueueSteps and WorkerMoves   *)
(* (queues and workers), ToAgentSteps (the streams to the agents),         *)
(* AgentRunSteps and CacheSteps (the agents' memory), StartupSteps.        *)
(***************************************************************************)
EXTENDS RunDispatch, FiniteSetTheorems, SequenceTheorems, TLAPS

-----------------------------------------------------------------------------
(* Sequences.                                                               *)

\* A sequence over a set is one over every larger set.
LEMMA SeqWiden == ASSUME NEW S, NEW T, S \subseteq T, NEW s \in Seq(S) PROVE s \in Seq(T)
  OBVIOUS

\* Taking the head: what is taken and what is left.
LEMMA TakeHead ==
  ASSUME NEW S, NEW s \in Seq(S), s # <<>>
  PROVE  /\ Head(s) \in S /\ Tail(s) \in Seq(S)
         /\ Head(s) = s[1] /\ 1 \in DOMAIN s
         /\ \A i \in DOMAIN Tail(s) : i \in Nat /\ i + 1 \in DOMAIN s /\ i + 1 # 1 /\ Tail(s)[i] = s[i + 1]
  OBVIOUS

\* Appending: what was there stays, the new element comes last.
LEMMA AddLast ==
  ASSUME NEW S, NEW s \in Seq(S), NEW x \in S
  PROVE  /\ Append(s, x) \in Seq(S)
         /\ DOMAIN Append(s, x) = DOMAIN s \cup {Len(s) + 1}
         /\ Len(s) + 1 \notin DOMAIN s
         /\ \A i \in DOMAIN s : Append(s, x)[i] = s[i]
         /\ Append(s, x)[Len(s) + 1] = x
  OBVIOUS

\* Joining two.
LEMMA AddAll ==
  ASSUME NEW S, NEW s \in Seq(S), NEW t \in Seq(S)
  PROVE  s \o t \in Seq(S)
  OBVIOUS

\* Short sequences.
LEMMA ShortSeq ==
  ASSUME NEW S, NEW x \in S, NEW y \in S
  PROVE  <<x>> \in Seq(S) /\ <<x, y>> \in Seq(S)
  OBVIOUS

-----------------------------------------------------------------------------
(* The inductive invariant.                                                 *)

RunsOf(p) == {r \in Runs : RunRepository[r] = p}
RunsAt(a) == {r \in Runs : RunAgent[r] = a}

\* Everything but the sequences has its type.
RowTypes ==
  /\ status \in [Runs -> RunStatuses \cup {"absent"}]
  /\ lease \in [Runs -> {"none", "live", "expired"}]
  /\ agentOnline \in [Agents -> BOOLEAN]
  /\ server \in {"serving", "recovering"}

ListTypes ==
  /\ created \subseteq Runs
  /\ watchdog \in [Runs -> Observation]
  /\ canceller \in [Runs -> {"none", "queued", "dispatched", "running", "done"}]
  /\ departed \subseteq Agents
  /\ disconnect \in [Runs -> {"none", "dispatched", "running"}]
  /\ startup \in [Runs -> {"none", "dispatched", "running"}]
  /\ conn \in [Agents -> BOOLEAN]

AgentTypes ==
  /\ linked \in [Agents -> BOOLEAN]
  /\ agentRun \in [Runs -> RunnerStates]
  /\ looking \in [Agents -> Runs \cup {NoRun}]
  /\ cancelled \subseteq Runs
  /\ starts \in [Runs -> Nat]
  /\ completed \subseteq Runs
  /\ restarts \in [Agents -> Nat]
  /\ evicted \in [Runs -> Nat]
  /\ slipped \in [Runs -> Nat]

FaultTypes ==
  /\ letGo \subseteq Runs
  /\ faults \in 0 .. MaxFaults

\* The queue of a repository holds its runs, its worker one of them, and a run
\* is marked as being processed only while the worker is past the marking.
WorkerInv ==
  /\ queue \in [Repositories -> Seq(Runs)]
  /\ \A p \in Repositories : queue[p] \in Seq(RunsOf(p))
  /\ enqueued \subseteq Runs
  /\ processing \subseteq Runs
  /\ pc \in [Repositories -> PCs]
  /\ job \in [Repositories -> Runs \cup {NoRun}]
  /\ \A p \in Repositories :
       IF pc[p] = "idle" THEN job[p] = NoRun
       ELSE job[p] \in Runs /\ RunRepository[job[p]] = p
  /\ \A r \in processing : /\ job[RunRepository[r]] = r
                           /\ pc[RunRepository[r]] \notin {"idle", "popped"}

\* What may be on the streams and in the agent's memory: messages about runs
\* of that agent; a command is about a row that exists, and a success about a
\* pipeline that succeeded.
Commands(a) ==
  {m \in Message : /\ m.type \in {"welcome", "execute", "cancel"}
                   /\ m.type # "welcome" => m.run \in RunsAt(a)
                   /\ m.type = "execute" => m.res = "none" /\ status[m.run] # "absent"}

Outcomes(a) ==
  {m \in Message : /\ m.type = "result" /\ m.run \in RunsAt(a) /\ m.res \in Results
                   /\ m.res = "succeeded" => m.run \in completed}

Answers(a) == {m \in Message : m.type = "accepted" /\ m.run \in RunsAt(a)} \cup Outcomes(a)

MailInv ==
  /\ toAgent \in [Agents -> Seq(Message)]
  /\ toServer \in [Agents -> Seq(Message)]
  /\ finished \in [Agents -> Seq(Message)]
  /\ pending \in [Agents -> Seq(Message)]
  /\ unacked \in [Agents -> Seq(Message)]
  /\ \A a \in Agents : /\ toAgent[a] \in Seq(Commands(a))
                       /\ toServer[a] \in Seq(Answers(a))
                       /\ finished[a] \in Seq(Outcomes(a))
                       /\ pending[a] \in Seq(Outcomes(a))
                       /\ unacked[a] \in Seq(Outcomes(a))

Types == RowTypes /\ ListTypes /\ AgentTypes /\ FaultTypes

\* A worker that has claimed a run holds one whose row exists.
ClaimedInv ==
  \A p \in Repositories : pc[p] \in {"send", "poll"} => status[job[p]] # "absent"

\* Execute looks for a run of its agent whose row exists, and a success about
\* to be sent is one of a pipeline that succeeded.
ExecuteInv ==
  /\ \A a \in Agents : looking[a] # NoRun =>
       looking[a] \in RunsAt(a) /\ status[looking[a]] # "absent"
  /\ \A r \in Runs : agentRun[r] = "succeeded" => r \in completed

DispatchInv == Types /\ WorkerInv /\ ClaimedInv /\ MailInv /\ ExecuteInv

\* The invariant contains the type invariant.
LEMMA TypesImplied == DispatchInv => TypeOK
  BY DEF DispatchInv, Types, RowTypes, ListTypes, AgentTypes, FaultTypes, WorkerInv, MailInv, TypeOK

-----------------------------------------------------------------------------
(* How the rows move.                                                       *)

\* One row moves from one of a set of states to one of another.
Moves(r, froms, tos) ==
  /\ status[r] \in froms
  /\ \E to \in tos : status' = [status EXCEPT ![r] = to]

RowStep ==
  \/ UNCHANGED status
  \/ \E r \in Runs : CreateRun(r) /\ Moves(r, {"absent"}, {"queued"})
  \/ \E p \in Repositories : Claim(p) /\ Moves(job[p], {"queued"}, {"dispatched"})
  \/ \E p \in Repositories : SendFails(p) /\ Moves(job[p], {"dispatched"}, {"queued"})
  \/ \E r \in Retryable : Moves(r, {"dispatched", "running"}, {"queued"})
  \/ \E r \in Runs : Moves(r, {"queued", "dispatched", "running"}, {"failed", "cancelled"})
  \/ \E r \in Runs : conn[RunAgent[r]] /\ Moves(r, {"dispatched"}, {"running"})
  \/ \E r \in completed : Moves(r, {"dispatched", "running", "cancelled"}, {"succeeded"})

\* TransitionRun moves the row along an edge, or leaves it.
LEMMA TransitionMoves ==
  ASSUME NEW r, NEW from, NEW to, NEW newLease, TransitionRun(r, from, to, newLease)
  PROVE  \/ UNCHANGED status
         \/ from \in RunStatuses \ Terminal /\ to \in validTransitions[from] /\ Moves(r, {from}, {to})
  BY DEF TransitionRun, CanTransition, Moves

\* A worker's steps.
LEMMA WorkerRowStep ==
  ASSUME DispatchInv, NEW p \in Repositories, WorkerNext(p)
  PROVE  RowStep
<1>1. pc[p] # "idle" => job[p] \in Runs
  BY DEF DispatchInv, WorkerInv
<1>2. CASE Claim(p)
  <2>1. \/ UNCHANGED status
        \/ Moves(job[p], {"queued"}, {"dispatched"})
    BY <1>2, TransitionMoves DEF Claim
  <2> QED
    BY <1>2, <2>1 DEF RowStep
<1>3. CASE SendFails(p)
  <2>1. \/ UNCHANGED status
        \/ Moves(job[p], {"dispatched"}, {"queued"})
    BY <1>3, TransitionMoves DEF SendFails
  <2> QED
    BY <1>3, <2>1 DEF RowStep
<1>4. CASE BuildFails(p)
  <2>1. \/ UNCHANGED status
        \/ Moves(job[p], {"dispatched"}, {"failed"})
    BY <1>4, TransitionMoves DEF BuildFails
  <2>2. job[p] \in Runs
    BY <1>1, <1>4 DEF BuildFails, WorkerAt
  <2>3. Moves(job[p], {"dispatched"}, {"failed"})
          => Moves(job[p], {"queued", "dispatched", "running"}, {"failed", "cancelled"})
    BY DEF Moves
  <2> QED
    BY <2>1, <2>2, <2>3 DEF RowStep
<1>5. CASE \/ Pop(p) \/ MarkProcessing(p) \/ CheckConnected(p) \/ ClaimBusy(p) \/ SendCommand(p)
           \/ RevertBusy(p) \/ Poll(p) \/ GetRunFails(p) \/ RequeueJob(p)
  <2>1. UNCHANGED status
    BY <1>5 DEF Pop, MarkProcessing, CheckConnected, ClaimBusy, SendCommand, RevertBusy, Poll,
                GetRunFails, RequeueJob, dbVars
  <2> QED
    BY <2>1 DEF RowStep
<1> QED
  BY <1>2, <1>3, <1>4, <1>5 DEF WorkerNext

\* What handleDisconnect and recoverStaleRuns do with a row.
LEMMA AbandonMoves ==
  ASSUME NEW r \in Runs, NEW from \in {"dispatched", "running"}, Abandon(r, from)
  PROVE  RowStep
<1>1. CASE r \in Retryable
  <2>1. \/ UNCHANGED status
        \/ Moves(r, {from}, {"queued"})
    BY <1>1, TransitionMoves DEF Abandon
  <2>2. Moves(r, {from}, {"queued"}) => Moves(r, {"dispatched", "running"}, {"queued"})
    BY DEF Moves
  <2> QED
    BY <1>1, <2>1, <2>2 DEF RowStep
<1>2. CASE r \notin Retryable
  <2>1. \/ UNCHANGED status
        \/ Moves(r, {from}, {"failed"})
    BY <1>2, TransitionMoves DEF Abandon
  <2>2. Moves(r, {from}, {"failed"})
          => Moves(r, {"queued", "dispatched", "running"}, {"failed", "cancelled"})
    BY DEF Moves
  <2> QED
    BY <2>1, <2>2 DEF RowStep
<1> QED
  BY <1>1, <1>2

\* The watchdog's steps.
LEMMA WatchdogRowStep ==
  ASSUME NEW r \in Runs, WatchdogNext(r)
  PROVE  RowStep
<1>1. CASE ExpireRun(r)
  <2>1. CASE r \in Retryable
    <3>1. \/ UNCHANGED status
          \/ Moves(r, {"dispatched"}, {"queued"})
      BY <1>1, <2>1, TransitionMoves DEF ExpireRun
    <3>2. Moves(r, {"dispatched"}, {"queued"}) => Moves(r, {"dispatched", "running"}, {"queued"})
      BY DEF Moves
    <3> QED
      BY <2>1, <3>1, <3>2 DEF RowStep
  <2>2. CASE r \notin Retryable
    <3>1. \/ UNCHANGED status
          \/ Moves(r, {"dispatched"}, {"failed"})
      BY <1>1, <2>2, TransitionMoves DEF ExpireRun
    <3>2. Moves(r, {"dispatched"}, {"failed"})
            => Moves(r, {"queued", "dispatched", "running"}, {"failed", "cancelled"})
      BY DEF Moves
    <3> QED
      BY <3>1, <3>2 DEF RowStep
  <2> QED
    BY <2>1, <2>2
<1>2. CASE TimeoutFail(r)
  <2>1. PICK from \in {"dispatched", "running"} : TransitionRun(r, from, "failed", lease[r])
    BY <1>2 DEF TimeoutFail
  <2>2. \/ UNCHANGED status
        \/ Moves(r, {from}, {"failed"})
    BY <2>1, TransitionMoves
  <2>3. Moves(r, {from}, {"failed"})
          => Moves(r, {"queued", "dispatched", "running"}, {"failed", "cancelled"})
    BY DEF Moves
  <2> QED
    BY <2>2, <2>3 DEF RowStep
<1>3. CASE RecoverQueuedRun(r) \/ TimeoutCancel(r)
  BY <1>3 DEF RecoverQueuedRun, TimeoutCancel, dbVars, RowStep
<1> QED
  BY <1>1, <1>2, <1>3 DEF WatchdogNext

\* Steps of requests, of the scheduler and of the restart.
LEMMA ServerRowStep ==
  ASSUME DispatchInv, NEW r \in Runs, ServerNext(r)
  PROVE  RowStep
<1>1. CASE CreateRun(r)
  BY <1>1 DEF CreateRun, Moves, RowStep
<1>2. CASE CancelCommit(r)
  <2>1. PICK from \in {"queued", "dispatched", "running"} :
          TransitionRun(r, from, "cancelled", lease[r])
    BY <1>2 DEF CancelCommit
  <2>2. \/ UNCHANGED status
        \/ Moves(r, {from}, {"cancelled"})
    BY <2>1, TransitionMoves
  <2>3. Moves(r, {from}, {"cancelled"})
          => Moves(r, {"queued", "dispatched", "running"}, {"failed", "cancelled"})
    BY DEF Moves
  <2> QED
    BY <2>2, <2>3 DEF RowStep
<1>3. CASE FailStaleQueued(r)
  <2>1. \/ UNCHANGED status
        \/ Moves(r, {"queued"}, {"failed"})
    BY <1>3, TransitionMoves DEF FailStaleQueued
  <2>2. Moves(r, {"queued"}, {"failed"})
          => Moves(r, {"queued", "dispatched", "running"}, {"failed", "cancelled"})
    BY DEF Moves
  <2> QED
    BY <2>1, <2>2 DEF RowStep
<1>4. CASE DisconnectRun(r)
  BY <1>4, AbandonMoves DEF DisconnectRun, DispatchInv, Types, ListTypes
<1>5. CASE RecoverStaleRun(r)
  BY <1>5, AbandonMoves DEF RecoverStaleRun, DispatchInv, Types, ListTypes
<1>6. CASE \/ EnqueueCreated(r) \/ CancelRead(r) \/ EnqueueAtStartup(r)
           \/ LeaseRunsOut(r) \/ LeaseRunsOutEarly(r)
  BY <1>6 DEF EnqueueCreated, CancelRead, EnqueueAtStartup, LeaseRunsOut, LeaseRunsOutEarly,
              dbVars, RowStep
<1> QED
  BY <1>1, <1>2, <1>3, <1>4, <1>5, <1>6 DEF ServerNext

\* The answer at the head of a stream is one of that agent.
LEMMA ReceiveFacts ==
  ASSUME DispatchInv, NEW a \in Agents, NEW type, Receive(a, type)
  PROVE  /\ Head(toServer[a]) \in Answers(a)
         /\ Head(toServer[a]).type = type
         /\ Head(toServer[a]).run \in RunsAt(a)
         /\ conn[a]
         /\ Tail(toServer[a]) \in Seq(Answers(a))
         /\ toServer' = [toServer EXCEPT ![a] = Tail(@)]
<1>1. toServer[a] \in Seq(Answers(a)) /\ toServer[a] # <<>>
  BY DEF DispatchInv, MailInv, Receive
<1>2. Head(toServer[a]) \in Answers(a) /\ Tail(toServer[a]) \in Seq(Answers(a))
  BY <1>1, TakeHead
<1> QED
  BY <1>2 DEF Receive, Answers, Outcomes

\* So is the command at the head of a stream to an agent.
LEMMA CommandFacts ==
  ASSUME DispatchInv, NEW a \in Agents, NEW type, AgentReceive(a, type)
  PROVE  /\ Head(toAgent[a]) \in Commands(a)
         /\ Head(toAgent[a]).type = type
         /\ type # "welcome" => Head(toAgent[a]).run \in RunsAt(a) /\ Head(toAgent[a]).run \in Runs
         /\ Tail(toAgent[a]) \in Seq(Commands(a))
         /\ toAgent' = [toAgent EXCEPT ![a] = Tail(@)]
<1>1. toAgent[a] \in Seq(Commands(a)) /\ toAgent[a] # <<>>
  BY DEF DispatchInv, MailInv, AgentReceive
<1>2. Head(toAgent[a]) \in Commands(a) /\ Tail(toAgent[a]) \in Seq(Commands(a))
  BY <1>1, TakeHead
<1> QED
  BY <1>2 DEF AgentReceive, Commands, RunsAt

\* The command the agent executes is Execute of the run it names.
LEMMA ExecuteFacts ==
  ASSUME DispatchInv, NEW a \in Agents, AgentReceive(a, "execute")
  PROVE  /\ Head(toAgent[a]).run \in Runs /\ RunAgent[Head(toAgent[a]).run] = a
         /\ Head(toAgent[a]) = Execute(Head(toAgent[a]).run)
         /\ status[Head(toAgent[a]).run] # "absent"
<1>1. PICK m : m = Head(toAgent[a])
  OBVIOUS
<1>2. m \in Commands(a) /\ m.type = "execute"
  BY <1>1, CommandFacts
<1>3. /\ m.run \in Runs /\ RunAgent[m.run] = a
      /\ m.res = "none" /\ status[m.run] # "absent" /\ m \in Message
  BY <1>2 DEF Commands, RunsAt
<1>4. m = Execute(m.run)
  BY <1>2, <1>3 DEF Message, Execute
<1> QED
  BY <1>1, <1>3, <1>4

\* The handlers' steps: a result is written along an edge, and a success only
\* for a pipeline that succeeded.
LEMMA StreamRowStep ==
  ASSUME DispatchInv, NEW a \in Agents, StreamNext(a)
  PROVE  RowStep
<1>1. CASE HandleAccepted(a)
  <2> DEFINE r == Head(toServer[a]).run
  <2>1. r \in RunsAt(a) /\ conn[a]
    BY <1>1, ReceiveFacts DEF HandleAccepted
  <2>2. \/ UNCHANGED status
        \/ Moves(r, {"dispatched"}, {"running"})
    BY <1>1, TransitionMoves DEF HandleAccepted
  <2> QED
    BY <2>1, <2>2 DEF RowStep, RunsAt
<1>2. CASE HandleResult(a)
  <2> DEFINE r == Head(toServer[a]).run
             res == Head(toServer[a]).res
  <2>1. Receive(a, "result")
    BY <1>2 DEF HandleResult
  <2>2. Head(toServer[a]) \in Outcomes(a)
    <3>1. Head(toServer[a]) \in Answers(a) /\ Head(toServer[a]).type = "result"
      BY <2>1, ReceiveFacts
    <3> QED
      BY <3>1 DEF Answers
  <2>3. /\ r \in Runs /\ res \in Results
        /\ res = "succeeded" => r \in completed
    BY <2>2 DEF Outcomes, RunsAt
  <2>4. \/ UNCHANGED status
        \/ /\ \/ status[r] \in {"running", "dispatched"}
              \/ status[r] = "cancelled" /\ res = "succeeded"
           /\ status' = [status EXCEPT ![r] = res]
    BY <1>2 DEF HandleResult, CanTransition
  <2>5. CASE res = "succeeded" /\ ~UNCHANGED status
    <3>1. Moves(r, {"dispatched", "running", "cancelled"}, {"succeeded"})
      BY <2>4, <2>5 DEF Moves
    <3> QED
      BY <2>3, <2>5, <3>1 DEF RowStep
  <2>6. CASE res # "succeeded" /\ ~UNCHANGED status
    <3>1. Moves(r, {"queued", "dispatched", "running"}, {"failed", "cancelled"})
      BY <2>3, <2>4, <2>6 DEF Moves, Results
    <3> QED
      BY <2>3, <3>1 DEF RowStep
  <2> QED
    BY <2>5, <2>6 DEF RowStep
<1>3. CASE \/ HandlerFails(a) \/ Heartbeat(a) \/ LinkBreaks(a) \/ StreamEnds(a)
           \/ DisconnectList(a) \/ Reconnect(a)
  BY <1>3 DEF HandlerFails, Heartbeat, LinkBreaks, StreamEnds, DisconnectList, Reconnect,
              dbVars, RowStep
<1> QED
  BY <1>1, <1>2, <1>3 DEF StreamNext

\* The agent writes no row and holds no job.
LEMMA AgentLeavesServer ==
  ASSUME \/ \E a \in Agents : AgentNext(a)
         \/ \E r \in Runs : RunnerNext(r)
  PROVE  UNCHANGED <<status, lease, agentOnline, server, queue, enqueued, processing, pc, job,
                     created, watchdog, canceller, departed, disconnect, startup, conn, letGo>>
  BY ZenonT(60)
     DEF AgentNext, RunnerNext, ReceiveWelcome, ReplayResult, IgnoreDuplicate, AcceptCommand,
         AcceptFails, CacheMiss, TempDirFails, ReceiveCancel, AgentRestart, StartPipeline,
         GiveUpWaiting, FinishPipeline, SendResult, Unregister, dbVars, queueVars, listVars,
         netVars, histVars

\* Every step moves the rows in one of these ways.
LEMMA RowSteps == ASSUME DispatchInv, Next PROVE RowStep
<1>1. CASE \E a \in Agents : StreamNext(a)
  BY <1>1, StreamRowStep
<1>2. CASE \E r \in Runs : WatchdogNext(r) \/ ServerNext(r)
  BY <1>2, WatchdogRowStep, ServerRowStep
<1>3. CASE \E p \in Repositories : WorkerNext(p)
  BY <1>3, WorkerRowStep
<1>4. CASE \/ \E a \in Agents : AgentNext(a)
           \/ \E r \in Runs : RunnerNext(r)
  BY <1>4, AgentLeavesServer DEF RowStep
<1>5. CASE \/ \E late \in SUBSET MayTimeOut : WatchdogTick(late)
           \/ ServerCrash \/ StartServing
  BY <1>5 DEF WatchdogTick, ServerCrash, StartServing, dbVars, RowStep
<1> QED
  BY <1>1, <1>2, <1>3, <1>4, <1>5 DEF Next

\* Rows stay, and completed pipelines stay completed.
LEMMA Monotone ==
  ASSUME DispatchInv, Next
  PROVE  /\ \A r \in Runs : status[r] # "absent" => status'[r] # "absent"
         /\ completed \subseteq completed'
<1>1. \A r \in Runs : status[r] # "absent" => status'[r] # "absent"
  BY RowSteps DEF RowStep, Moves, DispatchInv, Types, RowTypes
<1>2. CASE \E p \in Repositories : WorkerNext(p)
  BY <1>1, <1>2 DEF WorkerNext, Pop, MarkProcessing, CheckConnected, Claim, ClaimBusy, BuildFails, SendCommand,
              SendFails, RevertBusy, Poll, GetRunFails, RequeueJob, histVars
<1>3. CASE \E r \in Runs : WatchdogNext(r) \/ ServerNext(r)
  BY <1>1, <1>3 DEF WatchdogNext, ServerNext, RecoverQueuedRun, ExpireRun, TimeoutCancel, TimeoutFail,
              CreateRun, EnqueueCreated, CancelRead, CancelCommit, FailStaleQueued, DisconnectRun,
              RecoverStaleRun, EnqueueAtStartup, LeaseRunsOut, LeaseRunsOutEarly, histVars
<1>4. CASE \E r \in Runs : RunnerNext(r)
  BY <1>1, <1>4 DEF RunnerNext, StartPipeline, GiveUpWaiting, FinishPipeline, SendResult,
              Unregister, histVars
<1>5. CASE \E a \in Agents : StreamNext(a) \/ AgentNext(a)
  BY <1>1, <1>5, ZenonT(60)
          DEF StreamNext, AgentNext, HandleAccepted, HandleResult, HandlerFails, Heartbeat, LinkBreaks,
              StreamEnds, DisconnectList, Reconnect, ReceiveWelcome, ReplayResult, CacheMiss,
              IgnoreDuplicate, AcceptCommand, AcceptFails, TempDirFails, ReceiveCancel,
              AgentRestart, histVars
<1>6. CASE \/ \E late \in SUBSET MayTimeOut : WatchdogTick(late)
           \/ ServerCrash \/ StartServing
  BY <1>1, <1>6 DEF WatchdogTick, ServerCrash, StartServing, histVars
<1> QED
  BY <1>2, <1>3, <1>4, <1>5, <1>6 DEF Next

-----------------------------------------------------------------------------
(* Types.                                                                   *)

\* TransitionRun keeps the lease typed.
LEMMA TransitionLease ==
  ASSUME RowTypes, NEW r, NEW from, NEW to, NEW newLease \in {"none", "live", "expired"},
         TransitionRun(r, from, to, newLease)
  PROVE  lease' \in [Runs -> {"none", "live", "expired"}]
  BY DEF RowTypes, TransitionRun

\* The rows keep their types.
LEMMA RowTypesStep == ASSUME DispatchInv, Next PROVE RowTypes'
<1> USE DEF DispatchInv, Types
<1>1. RowTypes
  OBVIOUS
<1>2. status' \in [Runs -> RunStatuses \cup {"absent"}]
  BY <1>1, RowSteps DEF RowStep, Moves, RowTypes, RunStatuses
<1>3. /\ lease' \in [Runs -> {"none", "live", "expired"}]
      /\ agentOnline' \in [Agents -> BOOLEAN] /\ server' \in {"serving", "recovering"}
  <2>1. CASE \E p \in Repositories : WorkerNext(p)
    <3>1. PICK p \in Repositories : WorkerNext(p)
      BY <2>1
    <3>2. CASE Claim(p) \/ BuildFails(p) \/ SendFails(p)
      BY <1>1, <3>2, TransitionLease DEF Claim, BuildFails, SendFails, RowTypes
    <3> QED
      BY <1>1, <3>1, <3>2 DEF WorkerNext, Pop, MarkProcessing, CheckConnected, ClaimBusy, SendCommand,
                       RevertBusy, Poll, GetRunFails, RequeueJob, dbVars, RowTypes
  <2>2. CASE \E r \in Runs : WatchdogNext(r) \/ ServerNext(r)
    <3>1. PICK r \in Runs : WatchdogNext(r) \/ ServerNext(r)
      BY <2>2
    <3>2. lease[r] \in {"none", "live", "expired"}
      BY <1>1 DEF RowTypes
    <3>3. CASE \/ ExpireRun(r) \/ TimeoutFail(r) \/ CancelCommit(r) \/ FailStaleQueued(r)
               \/ DisconnectRun(r) \/ RecoverStaleRun(r)
      BY <1>1, <3>2, <3>3, TransitionLease
         DEF ExpireRun, TimeoutFail, CancelCommit, FailStaleQueued, DisconnectRun, RecoverStaleRun,
             Abandon, RowTypes
    <3>4. CASE LeaseRunsOut(r) \/ LeaseRunsOutEarly(r)
      BY <1>1, <3>4 DEF LeaseRunsOut, LeaseRunsOutEarly, RowTypes
    <3>5. CASE \/ RecoverQueuedRun(r) \/ TimeoutCancel(r) \/ CreateRun(r) \/ EnqueueCreated(r)
               \/ CancelRead(r) \/ EnqueueAtStartup(r)
      BY <1>1, <3>5 DEF RecoverQueuedRun, TimeoutCancel, CreateRun, EnqueueCreated, CancelRead,
                  EnqueueAtStartup, dbVars, RowTypes
    <3> QED
      BY <3>1, <3>3, <3>4, <3>5 DEF WatchdogNext, ServerNext
  <2>3. CASE \E a \in Agents : StreamNext(a)
    <3>1. PICK a \in Agents : StreamNext(a)
      BY <2>3
    <3>2. CASE HandleAccepted(a)
      BY <1>1, <3>2, TransitionLease DEF HandleAccepted, RowTypes
    <3>3. CASE HandleResult(a)
      BY <1>1, <3>3 DEF HandleResult, RowTypes
    <3>4. CASE Heartbeat(a) \/ DisconnectList(a) \/ Reconnect(a)
      BY <1>1, <3>4 DEF Heartbeat, DisconnectList, Reconnect, RowTypes
    <3> QED
      BY <1>1, <3>1, <3>2, <3>3, <3>4 DEF StreamNext, HandlerFails, LinkBreaks, StreamEnds, dbVars, RowTypes
  <2>4. CASE \/ \E a \in Agents : AgentNext(a)
             \/ \E r \in Runs : RunnerNext(r)
    BY <1>1, <2>4, AgentLeavesServer DEF RowTypes
  <2>5. CASE \/ \E late \in SUBSET MayTimeOut : WatchdogTick(late)
             \/ ServerCrash \/ StartServing
    BY <1>1, <2>5 DEF WatchdogTick, ServerCrash, StartServing, dbVars, RowTypes
  <2> QED
    BY <2>1, <2>2, <2>3, <2>4, <2>5 DEF Next
<1> QED
  BY <1>2, <1>3 DEF RowTypes

\* A worker treats no list and touches no stream of the registry.
LEMMA WorkerLeavesLists ==
  ASSUME NEW p \in Repositories, WorkerNext(p)
  PROVE  UNCHANGED <<server, agentOnline, created, watchdog, canceller, departed, disconnect, startup,
                     conn, linked, toServer, agentVars, starts, completed,
                     restarts, evicted, slipped>>
  BY DEF WorkerNext, Pop, MarkProcessing, CheckConnected, Claim, ClaimBusy, BuildFails, SendCommand,
         SendFails, RevertBusy, Poll, GetRunFails, RequeueJob, dbVars, listVars, netVars, histVars

\* What was listed and has yet to be treated keeps its type.
LEMMA ListTypesStep == ASSUME DispatchInv, Next PROVE ListTypes'
<1>1. RowTypes /\ ListTypes
  BY DEF DispatchInv, Types
<1>2. CASE \E p \in Repositories : WorkerNext(p)
  BY <1>1, <1>2, WorkerLeavesLists DEF ListTypes
<1>3. CASE \E r \in Runs : WatchdogNext(r)
  BY <1>1, <1>3 DEF WatchdogNext, RecoverQueuedRun, ExpireRun, TimeoutCancel, TimeoutFail, netVars,
                    ListTypes, Observation
<1>4. CASE \E r \in Runs : ServerNext(r)
  <2>1. PICK r \in Runs : ServerNext(r)
    BY <1>4
  <2>2. CASE CreateRun(r) \/ EnqueueCreated(r) \/ EnqueueAtStartup(r)
    BY <1>1, <2>2 DEF CreateRun, EnqueueCreated, EnqueueAtStartup, listVars, netVars, ListTypes
  <2>3. CASE CancelRead(r) \/ CancelCommit(r)
    BY <1>1, <2>3 DEF CancelRead, CancelCommit, netVars, ListTypes
  <2>4. CASE DisconnectRun(r) \/ RecoverStaleRun(r)
    BY <1>1, <2>4 DEF DisconnectRun, RecoverStaleRun, netVars, ListTypes
  <2>5. CASE FailStaleQueued(r) \/ LeaseRunsOut(r) \/ LeaseRunsOutEarly(r)
    BY <1>1, <2>5 DEF FailStaleQueued, LeaseRunsOut, LeaseRunsOutEarly, listVars, netVars, ListTypes
  <2> QED
    BY <2>1, <2>2, <2>3, <2>4, <2>5 DEF ServerNext
<1>5. CASE \E a \in Agents : StreamNext(a)
  <2>1. PICK a \in Agents : StreamNext(a)
    BY <1>5
  <2>2. CASE \/ HandleAccepted(a) \/ HandleResult(a) \/ HandlerFails(a) \/ Heartbeat(a)
             \/ LinkBreaks(a)
    BY <1>1, <2>2 DEF HandleAccepted, HandleResult, HandlerFails, Heartbeat, LinkBreaks, listVars,
                      netVars, ListTypes
  <2>3. CASE StreamEnds(a) \/ Reconnect(a)
    BY <1>1, <2>3 DEF StreamEnds, Reconnect, listVars, ListTypes
  <2>4. CASE DisconnectList(a)
    BY <1>1, <2>4 DEF DisconnectList, netVars, ListTypes
  <2> QED
    BY <2>1, <2>2, <2>3, <2>4 DEF StreamNext
<1>6. CASE \/ \E a \in Agents : AgentNext(a)
           \/ \E r \in Runs : RunnerNext(r)
  BY <1>1, <1>6, AgentLeavesServer DEF ListTypes
<1>7. CASE \E late \in SUBSET MayTimeOut : WatchdogTick(late)
  <2>1. \A r \in Runs : \A late : Observe(r, r \in late) \in Observation
    BY DEF Observe, Observation
  <2> QED
    BY <1>1, <1>7, <2>1 DEF WatchdogTick, netVars, ListTypes
<1>8. CASE ServerCrash
  BY <1>1, <1>8 DEF ServerCrash, ListTypes, Observation
<1>9. CASE StartServing
  BY <1>1, <1>9 DEF StartServing, listVars, netVars, ListTypes
<1> QED
  BY <1>2, <1>3, <1>4, <1>5, <1>6, <1>7, <1>8, <1>9 DEF Next

\* The server's own steps leave the agents alone.
LEMMA ServerLeavesAgents ==
  ASSUME \/ \E r \in Runs : WatchdogNext(r) \/ ServerNext(r)
         \/ \E late \in SUBSET MayTimeOut : WatchdogTick(late)
         \/ StartServing
  PROVE  UNCHANGED <<linked, toServer, agentRun, looking, cancelled, finished, pending, unacked,
                     starts, completed, restarts, evicted, slipped, letGo, conn>>
  BY DEF WatchdogNext, ServerNext, RecoverQueuedRun, ExpireRun, TimeoutCancel, TimeoutFail,
         CreateRun, EnqueueCreated, CancelRead, CancelCommit, FailStaleQueued, DisconnectRun,
         RecoverStaleRun, EnqueueAtStartup, LeaseRunsOut, LeaseRunsOutEarly, WatchdogTick,
         StartServing, netVars, agentVars, histVars

\* The end of a pipeline counts the result it evicts.
LEMMA EvictionCounted ==
  ASSUME evicted \in [Runs -> Nat], NEW r, NEW res, NEW step, PutResult(r, res, step)
  PROVE  /\ evicted' \in [Runs -> Nat]
         /\ \A x \in Runs : evicted'[x] >= evicted[x]
         /\ \A x \in Runs : Evicts(RunAgent[r], r)
                              /\ x = finished[RunAgent[r]][Len(finished[RunAgent[r]])].run
              => evicted'[x] = evicted[x] + 1
<1>1. PICK y : y = finished[RunAgent[r]][Len(finished[RunAgent[r]])].run
  OBVIOUS
<1>2. evicted' = IF Evicts(RunAgent[r], r) THEN [evicted EXCEPT ![y] = evicted[y] + 1] ELSE evicted
  BY <1>1 DEF PutResult
<1>3. CASE Evicts(RunAgent[r], r)
  <2>1. /\ DOMAIN evicted' = Runs
        /\ \A x \in Runs : evicted'[x] = IF x = y THEN evicted[x] + 1 ELSE evicted[x]
        /\ evicted' = [x \in Runs |-> evicted'[x]]
    BY <1>2, <1>3
  <2>2. \A x \in Runs : evicted'[x] \in Nat /\ evicted'[x] >= evicted[x]
    BY <2>1
  <2> QED
    BY <1>1, <2>1, <2>2
<1>4. CASE ~Evicts(RunAgent[r], r)
  BY <1>2, <1>4
<1> QED
  BY <1>3, <1>4

\* The agents' memory keeps its type.
LEMMA AgentTypesStep == ASSUME DispatchInv, Next PROVE AgentTypes'
<1>1. AgentTypes
  BY DEF DispatchInv, Types
<1>2. CASE \E p \in Repositories : WorkerNext(p)
  BY <1>1, <1>2, WorkerLeavesLists DEF AgentTypes, agentVars
<1>3. CASE \/ \E r \in Runs : WatchdogNext(r) \/ ServerNext(r)
           \/ \E late \in SUBSET MayTimeOut : WatchdogTick(late)
           \/ StartServing
  BY <1>1, <1>3, ServerLeavesAgents DEF AgentTypes
<1>4. CASE \E a \in Agents : StreamNext(a)
  BY <1>1, <1>4, ZenonT(60)
                DEF StreamNext, HandleAccepted, HandleResult, HandlerFails, Heartbeat, LinkBreaks,
                    StreamEnds, DisconnectList, Reconnect, netVars, agentVars, histVars, AgentTypes
<1>5. CASE \E a \in Agents : AgentNext(a)
  <2>1. PICK a \in Agents : AgentNext(a)
    BY <1>5
  <2>2. CASE ReceiveWelcome(a) \/ ReplayResult(a)
    BY <1>1, <2>2 DEF ReceiveWelcome, ReplayResult, histVars, AgentTypes
  <2>3. CASE CacheMiss(a)
    BY <1>1, <2>3, CommandFacts DEF CacheMiss, histVars, AgentTypes
  <2>4. CASE IgnoreDuplicate(a) \/ AcceptFails(a) \/ TempDirFails(a)
    BY <1>1, <2>4 DEF IgnoreDuplicate, AcceptFails, TempDirFails, Return, netVars, histVars, AgentTypes
  <2>5. CASE AcceptCommand(a)
    BY <1>1, <2>5 DEF AcceptCommand, Return, RunnerStates, histVars, AgentTypes
  <2>6. CASE ReceiveCancel(a)
    <3>1. cancelled' \subseteq Runs
      BY <1>1, <2>6, CommandFacts DEF ReceiveCancel, AgentTypes
    <3> QED
      BY <1>1, <2>6, <3>1 DEF ReceiveCancel, histVars, AgentTypes
  <2>7. CASE AgentRestart(a)
    BY <1>1, <2>7 DEF AgentRestart, RunnerStates, AgentTypes
  <2> QED
    BY <2>1, <2>2, <2>3, <2>4, <2>5, <2>6, <2>7 DEF AgentNext
<1>6. CASE \E r \in Runs : RunnerNext(r)
  <2>1. PICK r \in Runs : RunnerNext(r)
    BY <1>6
  <2>2. CASE StartPipeline(r)
    BY <1>1, <2>2 DEF StartPipeline, HoldsSlot, HoldsLock, RunnerStates, netVars, AgentTypes
  <2>3. ASSUME NEW res, NEW step \in RunnerStates, PutResult(r, res, step)
        PROVE  agentRun' \in [Runs -> RunnerStates] /\ evicted' \in [Runs -> Nat]
    <3>1. evicted' \in [Runs -> Nat]
      BY <1>1, <2>3, EvictionCounted DEF AgentTypes
    <3> QED
      BY <1>1, <2>3, <3>1 DEF PutResult, AgentTypes
  <2>4. CASE GiveUpWaiting(r)
    BY <1>1, <2>3, <2>4 DEF GiveUpWaiting, HoldsLock, RunnerStates, netVars, AgentTypes
  <2>5. CASE FinishPipeline(r)
    BY <1>1, <2>3, <2>5 DEF FinishPipeline, HoldsSlot, HoldsLock, RunnerStates, netVars, AgentTypes
  <2>6. CASE SendResult(r)
    BY <1>1, <2>6 DEF SendResult, RunnerStates, histVars, AgentTypes
  <2>7. CASE Unregister(r)
    <3>1. slipped' \in [Runs -> Nat]
      BY <1>1, <2>7 DEF Unregister, AgentTypes
    <3> QED
      BY <1>1, <2>7, <3>1 DEF Unregister, RunnerStates, netVars, AgentTypes
  <2> QED
    BY <2>1, <2>2, <2>4, <2>5, <2>6, <2>7 DEF RunnerNext
<1>7. CASE ServerCrash
  BY <1>1, <1>7 DEF ServerCrash, agentVars, histVars, AgentTypes
<1> QED
  BY <1>2, <1>3, <1>4, <1>5, <1>6, <1>7 DEF Next

\* What is history and what counts the faults keeps its type.
LEMMA FaultTypesStep == ASSUME DispatchInv, Next PROVE FaultTypes'
<1>1. /\ FaultTypes
      /\ \A p \in Repositories : pc[p] # "idle" => job[p] \in Runs
  BY DEF DispatchInv, Types, WorkerInv
<1>2. \A kind : Fault(kind) => faults' \in 0 .. MaxFaults
  BY <1>1, DispatchAssumption DEF Fault, FaultTypes
<1>3. faults' \in 0 .. MaxFaults
  <2>1. CASE \E p \in Repositories : WorkerNext(p)
    BY <1>1, <1>2, <2>1 DEF WorkerNext, Pop, MarkProcessing, CheckConnected, Claim, ClaimBusy,
         BuildFails, SendCommand, SendFails, RevertBusy, Poll, GetRunFails, RequeueJob, FaultTypes
  <2>2. CASE \E r \in Runs : WatchdogNext(r) \/ ServerNext(r)
    BY <1>1, <1>2, <2>2 DEF WatchdogNext, ServerNext, RecoverQueuedRun, ExpireRun, TimeoutCancel, TimeoutFail,
         CreateRun, EnqueueCreated, CancelRead, CancelCommit, FailStaleQueued, DisconnectRun,
         RecoverStaleRun, EnqueueAtStartup, LeaseRunsOut, LeaseRunsOutEarly, FaultTypes
  <2>3. CASE \E a \in Agents : StreamNext(a) \/ AgentNext(a)
    BY <1>1, <1>2, <2>3 DEF StreamNext, AgentNext, HandleAccepted, HandleResult, HandlerFails, Heartbeat,
         LinkBreaks, StreamEnds, DisconnectList, Reconnect, ReceiveWelcome, ReplayResult, CacheMiss,
         IgnoreDuplicate, AcceptCommand, AcceptFails, TempDirFails, ReceiveCancel, AgentRestart,
         FaultTypes
  <2>4. CASE \E r \in Runs : RunnerNext(r)
    BY <1>1, <2>4 DEF RunnerNext, StartPipeline, GiveUpWaiting, FinishPipeline, SendResult,
         Unregister, FaultTypes
  <2>5. CASE \/ \E late \in SUBSET MayTimeOut : WatchdogTick(late)
             \/ ServerCrash \/ StartServing
    BY <1>1, <1>2, <2>5 DEF WatchdogTick, ServerCrash, StartServing, FaultTypes
  <2> QED
    BY <2>1, <2>2, <2>3, <2>4, <2>5 DEF Next
<1>4. letGo' \subseteq Runs
  <2>1. CASE \E p \in Repositories : WorkerNext(p)
    BY <1>1, <2>1 DEF WorkerNext, Pop, MarkProcessing, CheckConnected, Claim, ClaimBusy,
         BuildFails, SendCommand, SendFails, RevertBusy, Poll, GetRunFails, RequeueJob, FaultTypes,
         WorkerAt, histVars, ActiveRuns
  <2>2. CASE \/ \E r \in Runs : WatchdogNext(r) \/ ServerNext(r)
             \/ \E late \in SUBSET MayTimeOut : WatchdogTick(late)
             \/ StartServing
    BY <1>1, <2>2, ServerLeavesAgents DEF FaultTypes
  <2>3. CASE \E a \in Agents : StreamNext(a)
    BY <1>1, <2>3 DEF StreamNext, HandleAccepted, HandleResult, HandlerFails, Heartbeat,
         LinkBreaks, StreamEnds, DisconnectList, Reconnect, histVars, FaultTypes
  <2>4. CASE \/ \E a \in Agents : AgentNext(a)
             \/ \E r \in Runs : RunnerNext(r)
    BY <1>1, <2>4, AgentLeavesServer DEF FaultTypes
  <2>5. CASE ServerCrash
    BY <1>1, <2>5 DEF ServerCrash, histVars, FaultTypes
  <2> QED
    BY <2>1, <2>2, <2>3, <2>4, <2>5 DEF Next
<1> QED
  BY <1>3, <1>4 DEF FaultTypes

-----------------------------------------------------------------------------
(* The queues and the workers.                                              *)

\* A job is added: the run has no marker, or no worker and no queue has it.
Added(r) ==
  /\ r \notin enqueued \/ (r \notin processing /\ ~InQueue(r))
  /\ enqueued' = enqueued \cup {r}
  /\ queue' = [queue EXCEPT ![RunRepository[r]] = Append(@, r)]
  /\ UNCHANGED <<processing, pc, job>>

\* Apart from the workers and a crash, only Enqueue and the recovery of queued
\* rows touch the queues, and they add one job.
LEMMA QueueSteps ==
  ASSUME Next
  PROVE  \/ \E p \in Repositories : WorkerNext(p)
         \/ ServerCrash
         \/ UNCHANGED queueVars
         \/ \E r \in Runs : Added(r)
<1>1. CASE \E r \in Runs : WatchdogNext(r)
  <2>1. PICK r \in Runs : WatchdogNext(r)
    BY <1>1
  <2>2. CASE RecoverQueuedRun(r)
    BY <2>2 DEF RecoverQueuedRun, Added, queueVars
  <2>3. CASE ExpireRun(r)
    BY <2>3 DEF ExpireRun, Enqueue, Added, queueVars
  <2> QED
    BY <2>1, <2>2, <2>3 DEF WatchdogNext, TimeoutCancel, TimeoutFail
<1>2. CASE \E r \in Runs : ServerNext(r)
  <2>1. PICK r \in Runs : ServerNext(r)
    BY <1>2
  <2>2. CASE EnqueueCreated(r) \/ EnqueueAtStartup(r)
    BY <2>2 DEF EnqueueCreated, EnqueueAtStartup, Enqueue, Added, queueVars
  <2> QED
    BY <2>1, <2>2 DEF ServerNext, CreateRun, CancelRead, CancelCommit, FailStaleQueued, DisconnectRun,
                      RecoverStaleRun, LeaseRunsOut, LeaseRunsOutEarly
<1>3. CASE \E a \in Agents : StreamNext(a)
  BY <1>3 DEF StreamNext, HandleAccepted, HandleResult, HandlerFails, Heartbeat,
         LinkBreaks, StreamEnds, DisconnectList, Reconnect
<1>4. CASE \/ \E a \in Agents : AgentNext(a)
           \/ \E r \in Runs : RunnerNext(r)
  BY <1>4, AgentLeavesServer DEF queueVars
<1>5. CASE \/ \E late \in SUBSET MayTimeOut : WatchdogTick(late)
           \/ StartServing
  BY <1>5 DEF WatchdogTick, StartServing
<1> QED
  BY <1>1, <1>2, <1>3, <1>4, <1>5 DEF Next

\* The five things a worker's step does to its queue and its job.
Pops(p) ==
  /\ pc[p] = "idle" /\ queue[p] # <<>>
  /\ job' = [job EXCEPT ![p] = Head(queue[p])]
  /\ queue' = [queue EXCEPT ![p] = Tail(@)]
  /\ pc' = [pc EXCEPT ![p] = "popped"]
  /\ UNCHANGED <<enqueued, processing>>

Marks(p) ==
  /\ pc[p] = "popped"
  /\ processing' = processing \cup {job[p]}
  /\ pc' = [pc EXCEPT ![p] = "check"]
  /\ UNCHANGED <<queue, enqueued, job>>

Goes(p) ==
  /\ pc[p] \notin {"idle", "popped"}
  /\ \E label \in PCs \ {"idle", "popped"} : pc' = [pc EXCEPT ![p] = label]
  /\ UNCHANGED <<queue, enqueued, processing, job>>

Drops(p) ==
  /\ pc[p] \notin {"idle", "popped"}
  /\ DropJob(p)

Requeues(p) ==
  /\ pc[p] = "requeue"
  /\ queue' = [queue EXCEPT ![p] = Append(@, job[p])]
  /\ processing' = processing \ {job[p]}
  /\ pc' = [pc EXCEPT ![p] = "idle"]
  /\ job' = [job EXCEPT ![p] = NoRun]
  /\ UNCHANGED enqueued

\* Every step of a worker is one of these five.
LEMMA WorkerMoves ==
  ASSUME NEW p \in Repositories, WorkerNext(p)
  PROVE  Pops(p) \/ Marks(p) \/ Goes(p) \/ Drops(p) \/ Requeues(p)
<1> USE DEF WorkerAt, GoTo
<1>1. CASE Pop(p)
  BY <1>1 DEF Pop, Pops
<1>2. CASE MarkProcessing(p)
  BY <1>2 DEF MarkProcessing, Marks
<1>3. CASE CheckConnected(p) \/ ClaimBusy(p) \/ SendCommand(p)
  BY <1>3 DEF CheckConnected, ClaimBusy, SendCommand, Goes, PCs
<1>4. CASE Claim(p)
  BY <1>4 DEF Claim, Goes, Drops, PCs
<1>5. CASE SendFails(p)
  BY <1>5 DEF SendFails, Goes, Drops, PCs
<1>6. CASE BuildFails(p) \/ RevertBusy(p) \/ GetRunFails(p)
  BY <1>6 DEF BuildFails, RevertBusy, GetRunFails, Drops
<1>7. CASE Poll(p)
  BY <1>7 DEF Poll, Goes, Drops, PCs
<1>8. CASE RequeueJob(p)
  BY <1>8 DEF RequeueJob, Requeues
<1> QED
  BY <1>1, <1>2, <1>3, <1>4, <1>5, <1>6, <1>7, <1>8 DEF WorkerNext

\* A worker leaves the other workers alone.
LEMMA OtherWorkers ==
  ASSUME WorkerInv, NEW q \in Repositories, WorkerNext(q), NEW p \in Repositories, p # q
  PROVE  pc'[p] = pc[p] /\ job'[p] = job[p] /\ queue'[p] = queue[p]
<1>1. DOMAIN pc = Repositories /\ DOMAIN job = Repositories /\ DOMAIN queue = Repositories
  BY DEF WorkerInv
<1>2. CASE Pops(q) \/ Drops(q) \/ Requeues(q)
  BY <1>1, <1>2 DEF Pops, Drops, DropJob, Requeues
<1>3. CASE Marks(q) \/ Goes(q)
  BY <1>1, <1>3 DEF Marks, Goes
<1> QED
  BY <1>2, <1>3, WorkerMoves

\* The queues and the workers keep their invariant.
LEMMA WorkerInvStep == ASSUME DispatchInv, Next PROVE WorkerInv'
<1>1. WorkerInv
  BY DEF DispatchInv
<1>2. CASE UNCHANGED queueVars
  BY <1>1, <1>2 DEF WorkerInv, queueVars
<1>3. ASSUME NEW r \in Runs, Added(r) PROVE WorkerInv'
  <2>1. RunRepository[r] \in Repositories /\ r \in RunsOf(RunRepository[r])
    BY DispatchAssumption DEF RunsOf
  <2>2. /\ Append(queue[RunRepository[r]], r) \in Seq(RunsOf(RunRepository[r]))
        /\ Append(queue[RunRepository[r]], r) \in Seq(Runs)
    BY <1>1, <2>1, AddLast DEF WorkerInv
  <2> QED
    BY <1>1, <1>3, <2>1, <2>2 DEF WorkerInv, Added
<1>4. ASSUME NEW p \in Repositories, WorkerNext(p) PROVE WorkerInv'
  <2>1. CASE Pops(p)
    <3>1. /\ Head(queue[p]) \in RunsOf(p)
          /\ Tail(queue[p]) \in Seq(RunsOf(p)) /\ Tail(queue[p]) \in Seq(Runs)
      BY <1>1, <2>1, TakeHead DEF WorkerInv, Pops
    <3> QED
      BY <1>1, <2>1, <3>1 DEF WorkerInv, Pops, RunsOf, PCs
  <2>2. CASE Marks(p)
    BY <1>1, <2>2 DEF WorkerInv, Marks, PCs
  <2>3. CASE Goes(p)
    BY <1>1, <2>3 DEF WorkerInv, Goes, PCs
  <2>4. CASE Drops(p)
    BY <1>1, <2>4 DEF WorkerInv, Drops, DropJob, PCs
  <2>5. CASE Requeues(p)
    <3>1. job[p] \in Runs /\ job[p] \in RunsOf(p)
      BY <1>1, <2>5 DEF WorkerInv, Requeues, RunsOf
    <3>2. Append(queue[p], job[p]) \in Seq(RunsOf(p)) /\ Append(queue[p], job[p]) \in Seq(Runs)
      BY <1>1, <3>1, AddLast DEF WorkerInv
    <3> QED
      BY <1>1, <2>5, <3>1, <3>2 DEF WorkerInv, Requeues, PCs
  <2> QED
    BY <1>4, <2>1, <2>2, <2>3, <2>4, <2>5, WorkerMoves
<1>5. CASE ServerCrash
  BY <1>1, <1>5 DEF WorkerInv, ServerCrash, PCs
<1> QED
  BY <1>2, <1>3, <1>4, <1>5, QueueSteps

\* A worker gets past the claim by claiming.
LEMMA ClaimedInvStep == ASSUME DispatchInv, Next PROVE ClaimedInv'
<1>1. /\ ClaimedInv /\ WorkerInv
      /\ \A r \in Runs : status[r] # "absent" => status'[r] # "absent"
  BY Monotone DEF DispatchInv
<1>2. CASE UNCHANGED <<pc, job>>
  BY <1>1, <1>2 DEF ClaimedInv, WorkerInv
<1>3. ASSUME NEW p \in Repositories, WorkerNext(p) PROVE ClaimedInv'
  <2>1. /\ pc' = [pc EXCEPT ![p] = pc'[p]] /\ job' = [job EXCEPT ![p] = job'[p]]
    BY <1>1, <1>3, WorkerMoves DEF WorkerInv, Pops, Marks, Goes, Drops, DropJob, Requeues
  <2>2. ASSUME pc'[p] \in {"send", "poll"} PROVE status'[job'[p]] # "absent"
    <3>1. Claim(p) \/ SendCommand(p)
      BY <1>1, <1>3, <2>2
         DEF WorkerNext, Pop, MarkProcessing, CheckConnected, ClaimBusy, BuildFails,
             SendFails, RevertBusy, Poll, GetRunFails, RequeueJob, GoTo, DropJob, WorkerInv
    <3>2. CASE Claim(p)
      <4>1. CanTransition(status[job[p]], "queued", "dispatched")
        BY <1>1, <2>2, <3>2 DEF Claim, DropJob, WorkerInv
      <4>2. job' = job /\ job[p] \in Runs
        BY <1>1, <3>2, <4>1 DEF Claim, GoTo, WorkerAt, WorkerInv
      <4>3. status[job[p]] = "queued"
        BY <4>1 DEF CanTransition
      <4> QED
        BY <1>1, <4>2, <4>3
    <3>3. CASE SendCommand(p)
      BY <1>1, <3>3 DEF SendCommand, GoTo, WorkerAt, WorkerInv, ClaimedInv
    <3> QED
      BY <3>1, <3>2, <3>3
  <2>3. ASSUME NEW q \in Repositories, q # p, pc'[q] \in {"send", "poll"}
        PROVE  status'[job'[q]] # "absent"
    <3>1. pc'[q] = pc[q] /\ job'[q] = job[q]
      BY <1>1, <2>1, <2>3 DEF WorkerInv
    <3> QED
      BY <1>1, <2>3, <3>1 DEF WorkerInv, ClaimedInv
  <2> QED
    BY <2>2, <2>3 DEF ClaimedInv
<1>4. CASE ServerCrash
  BY <1>4 DEF ServerCrash, ClaimedInv
<1> QED
  BY <1>2, <1>3, <1>4, QueueSteps DEF queueVars, Added

-----------------------------------------------------------------------------
(* The streams and the agents' results.                                     *)

\* What may be on a stream only grows.
LEMMA MailGrows ==
  ASSUME DispatchInv, Next, NEW a \in Agents
  PROVE  /\ Commands(a) \subseteq Commands(a)'
         /\ Outcomes(a) \subseteq Outcomes(a)'
         /\ Answers(a) \subseteq Answers(a)'
<1>1. /\ \A r \in Runs : status[r] # "absent" => status'[r] # "absent"
      /\ completed \subseteq completed'
  BY Monotone
<1>2. Commands(a) \subseteq Commands(a)'
  BY <1>1 DEF Commands, RunsAt
<1>3. Outcomes(a) \subseteq Outcomes(a)'
  BY <1>1 DEF Outcomes
<1> QED
  BY <1>2, <1>3 DEF Answers

\* How the streams to the agents change.
ToAgentStep ==
  \/ UNCHANGED toAgent
  \/ \E p \in Repositories : SendCommand(p)
  \/ \E r \in Runs : toAgent' = [toAgent EXCEPT ![RunAgent[r]] = Append(@, CancelCmd(r))]
  \/ \E a \in Agents : toAgent[a] # <<>> /\ toAgent' = [toAgent EXCEPT ![a] = Tail(@)]
  \/ \E a \in Agents : toAgent' = [toAgent EXCEPT ![a] = <<>>]
  \/ \E a \in Agents : toAgent' = [toAgent EXCEPT ![a] = <<Welcome>>]
  \/ toAgent' = [a \in Agents |-> <<>>]

\* Every step changes the streams to the agents in one of these ways.
LEMMA ToAgentSteps == ASSUME Next PROVE ToAgentStep
<1>1. CASE \E p \in Repositories : WorkerNext(p)
  BY <1>1 DEF WorkerNext, Pop, MarkProcessing, CheckConnected, Claim, ClaimBusy, BuildFails,
              SendFails, RevertBusy, Poll, GetRunFails, RequeueJob, netVars, ToAgentStep
<1>2. CASE \E r \in Runs : WatchdogNext(r) \/ ServerNext(r)
  BY <1>2 DEF WatchdogNext, ServerNext, RecoverQueuedRun, ExpireRun, TimeoutCancel, TimeoutFail,
              CreateRun, EnqueueCreated, CancelRead, CancelCommit, FailStaleQueued, DisconnectRun,
              RecoverStaleRun, EnqueueAtStartup, LeaseRunsOut, LeaseRunsOutEarly, SendCancel,
              netVars, ToAgentStep
<1>3. CASE \E a \in Agents : StreamNext(a)
  BY <1>3 DEF StreamNext, HandleAccepted, HandleResult, HandlerFails, Heartbeat, LinkBreaks,
              StreamEnds, DisconnectList, Reconnect, netVars, ToAgentStep
<1>4. CASE \E a \in Agents : AgentNext(a)
  BY <1>4 DEF AgentNext, ReceiveWelcome, ReplayResult, CacheMiss, IgnoreDuplicate, AcceptCommand,
              AcceptFails, TempDirFails, ReceiveCancel, AgentRestart, AgentReceive, netVars, ToAgentStep
<1>5. CASE \E r \in Runs : RunnerNext(r)
  BY <1>5 DEF RunnerNext, StartPipeline, GiveUpWaiting, FinishPipeline, SendResult, Unregister,
              netVars, ToAgentStep
<1>6. CASE \/ \E late \in SUBSET MayTimeOut : WatchdogTick(late)
           \/ ServerCrash \/ StartServing
  BY <1>6 DEF WatchdogTick, ServerCrash, StartServing, netVars, ToAgentStep
<1> QED
  BY <1>1, <1>2, <1>3, <1>4, <1>5, <1>6 DEF Next

\* Commands on the streams are about rows that exist.
LEMMA ToAgentTyped ==
  ASSUME DispatchInv, Next
  PROVE  /\ toAgent' \in [Agents -> Seq(Message)]
         /\ \A a \in Agents : toAgent'[a] \in Seq(Commands(a)')
<1>1. /\ toAgent \in [Agents -> Seq(Message)]
      /\ \A a \in Agents : toAgent[a] \in Seq(Commands(a)')
  BY MailGrows, SeqWiden DEF DispatchInv, MailInv
<1>2. \A a \in Agents : Commands(a)' \subseteq Message
  BY DEF Commands
<1>3. ASSUME NEW a \in Agents, NEW s \in Seq(Commands(a)'), toAgent' = [toAgent EXCEPT ![a] = s]
      PROVE  /\ toAgent' \in [Agents -> Seq(Message)]
             /\ \A b \in Agents : toAgent'[b] \in Seq(Commands(b)')
  <2>1. s \in Seq(Message)
    BY <1>2, SeqWiden
  <2> QED
    BY <1>1, <1>3, <2>1
<1>4. ASSUME NEW p \in Repositories, SendCommand(p)
      PROVE  /\ toAgent' \in [Agents -> Seq(Message)]
             /\ \A b \in Agents : toAgent'[b] \in Seq(Commands(b)')
  <2>1. PICK r \in Runs : r = job[p] /\ status'[r] # "absent"
    BY <1>4 DEF SendCommand, WorkerAt, DispatchInv, WorkerInv, ClaimedInv, dbVars
  <2>2. RunAgent[r] \in Agents
    BY <2>1, DispatchAssumption
  <2>3. Execute(r) \in Commands(RunAgent[r])'
    BY <2>1 DEF Execute, Commands, Message, RunsAt
  <2>4. Append(toAgent[RunAgent[r]], Execute(r)) \in Seq(Commands(RunAgent[r])')
    BY <1>1, <2>2, <2>3, AddLast
  <2>5. toAgent' = [toAgent EXCEPT ![RunAgent[r]] = Append(toAgent[RunAgent[r]], Execute(r))]
    BY <1>1, <1>4, <2>1, <2>2 DEF SendCommand
  <2> QED
    BY <1>3, <2>2, <2>4, <2>5
<1>5. ASSUME NEW r \in Runs, toAgent' = [toAgent EXCEPT ![RunAgent[r]] = Append(@, CancelCmd(r))]
      PROVE  /\ toAgent' \in [Agents -> Seq(Message)]
             /\ \A b \in Agents : toAgent'[b] \in Seq(Commands(b)')
  <2>1. RunAgent[r] \in Agents
    BY DispatchAssumption
  <2>2. CancelCmd(r) \in Commands(RunAgent[r])'
    BY DEF CancelCmd, Commands, Message, RunsAt
  <2>3. Append(toAgent[RunAgent[r]], CancelCmd(r)) \in Seq(Commands(RunAgent[r])')
    BY <1>1, <2>1, <2>2, AddLast
  <2> QED
    BY <1>3, <1>5, <2>1, <2>3
<1>6. ASSUME NEW a \in Agents,
             \/ toAgent[a] # <<>> /\ toAgent' = [toAgent EXCEPT ![a] = Tail(@)]
             \/ toAgent' = [toAgent EXCEPT ![a] = <<>>]
             \/ toAgent' = [toAgent EXCEPT ![a] = <<Welcome>>]
      PROVE  /\ toAgent' \in [Agents -> Seq(Message)]
             /\ \A b \in Agents : toAgent'[b] \in Seq(Commands(b)')
  <2>1. toAgent[a] # <<>> => Tail(toAgent[a]) \in Seq(Commands(a)')
    BY <1>1, TakeHead
  <2>2. Welcome \in Commands(a)'
    BY DEF Welcome, Commands, Message
  <2>3. <<>> \in Seq(Commands(a)') /\ <<Welcome>> \in Seq(Commands(a)')
    BY <2>2
  <2> QED
    BY <1>3, <1>6, <2>1, <2>3
<1>7. CASE UNCHANGED toAgent
  BY <1>1, <1>7
<1>8. CASE toAgent' = [a \in Agents |-> <<>>]
  BY <1>8
<1> QED
  BY <1>4, <1>5, <1>6, <1>7, <1>8, ToAgentSteps DEF ToAgentStep

\* Replacing what one agent has keeps everybody's typed.
LEMMA BoxTyped ==
  ASSUME NEW T, NEW box \in [Agents -> Seq(T)], NEW O \in [Agents -> SUBSET T],
         \A b \in Agents : box[b] \in Seq(O[b]),
         NEW a \in Agents, NEW s \in Seq(O[a])
  PROVE  /\ [box EXCEPT ![a] = s] \in [Agents -> Seq(T)]
         /\ \A b \in Agents : [box EXCEPT ![a] = s][b] \in Seq(O[b])
<1>1. s \in Seq(T)
  BY SeqWiden
<1> QED
  BY <1>1

\* The cache holds what it held, and what is put.
LEMMA CacheTyped ==
  ASSUME NEW a \in Agents, NEW S, finished[a] \in Seq(S)
  PROVE  /\ \A r : Cached(a, r) # {} => /\ CachedResult(a, r) \in S
                                        /\ CachedResult(a, r).run = r
                                        /\ Uncached(a, r) \in Seq(S)
                                        /\ MoveToFront(a, r) \in Seq(S)
         /\ \A m \in S : CachePut(a, m) \in Seq(S)
<1>1. ASSUME NEW r, Cached(a, r) # {}
      PROVE  /\ CachedResult(a, r) \in S
             /\ CachedResult(a, r).run = r
             /\ Uncached(a, r) \in Seq(S)
             /\ MoveToFront(a, r) \in Seq(S)
  <2>1. PICK i \in Cached(a, r) : i = CHOOSE j \in Cached(a, r) : TRUE
    BY <1>1
  <2>2. i \in DOMAIN finished[a] /\ finished[a][i].run = r
    BY <2>1 DEF Cached
  <2>3. CachedResult(a, r) \in S /\ CachedResult(a, r).run = r
    BY <2>1, <2>2 DEF CachedResult
  <2>4. SubSeq(finished[a], 1, i - 1) \o SubSeq(finished[a], i + 1, Len(finished[a])) \in Seq(S)
    BY <2>2
  <2>5. Uncached(a, r) \in Seq(S)
    BY <2>1, <2>4 DEF Uncached
  <2> QED
    BY <2>3, <2>5 DEF MoveToFront
<1>2. ASSUME NEW m \in S PROVE CachePut(a, m) \in Seq(S)
  <2>1. Len(finished[a]) >= CacheCap => SubSeq(finished[a], 1, Len(finished[a]) - 1) \in Seq(S)
    BY DispatchAssumption
  <2> QED
    BY <1>1, <2>1 DEF CachePut, Evicts
<1> QED
  BY <1>1, <1>2

\* The results an agent may report after a step.
Reported == [a \in Agents |-> Outcomes(a)]
Answered == [a \in Agents |-> Answers(a)]

Box(x, O) == x \in [Agents -> Seq(Message)] /\ \A a \in Agents : x[a] \in Seq(O[a])

\* Mail in terms of these functions.
LEMMA MailByFunctions ==
  MailInv <=> /\ toAgent \in [Agents -> Seq(Message)]
              /\ \A a \in Agents : toAgent[a] \in Seq(Commands(a))
              /\ Box(toServer, Answered) /\ Box(finished, Reported)
              /\ Box(pending, Reported) /\ Box(unacked, Reported)
  BY DEF MailInv, Box, Reported, Answered

\* The end of a pipeline puts its result in the cache ...
LEMMA PutTyped ==
  ASSUME NEW R \in [Agents -> SUBSET Message], Box(finished, R),
         NEW r \in Runs, NEW res, NEW step, Result(r, res) \in R[RunAgent[r]],
         PutResult(r, res, step)
  PROVE  Box(finished', R)
<1>1. PICK a \in Agents : a = RunAgent[r]
  BY DispatchAssumption
<1>2. PICK m \in R[a] : m = Result(r, res)
  BY <1>1
<1>3. CachePut(a, m) \in Seq(R[a])
  BY <1>2, CacheTyped DEF Box
<1> QED
  BY <1>1, <1>2, <1>3, BoxTyped DEF Box, PutResult

\* ... and a result is put on the stream, after other answers, or kept until
\* there is one.
LEMMA SendTyped ==
  ASSUME NEW A \in [Agents -> SUBSET Message], NEW R \in [Agents -> SUBSET Message],
         Box(toServer, A), Box(pending, R), Box(unacked, R),
         NEW a \in Agents, NEW ms \in Seq(A[a]), NEW m \in R[a],
         SendUp(a, ms), SendRunResult(a, m)
  PROVE  Box(toServer', A) /\ Box(pending', R) /\ Box(unacked', R)
<1>1. /\ toServer[a] \o ms \in Seq(A[a])
      /\ Append(pending[a], m) \in Seq(R[a]) /\ Append(unacked[a], m) \in Seq(R[a])
  BY AddLast DEF Box
<1>2. CASE linked[a]
  <2>1. /\ toServer' = [toServer EXCEPT ![a] = toServer[a] \o ms]
        /\ unacked' = [unacked EXCEPT ![a] = Append(unacked[a], m)]
        /\ pending' = pending
    BY <1>2 DEF SendUp, SendRunResult, Box
  <2> QED
    BY <1>1, <2>1, BoxTyped DEF Box
<1>3. CASE ~linked[a]
  <2>1. /\ pending' = [pending EXCEPT ![a] = Append(pending[a], m)]
        /\ UNCHANGED <<toServer, unacked>>
    BY <1>3 DEF SendUp, SendRunResult, Box
  <2> QED
    BY <1>1, <2>1, BoxTyped DEF Box
<1> QED
  BY <1>2, <1>3

\* Answers on the streams and results in the agents' memory stay true.
LEMMA AnswersStep ==
  ASSUME DispatchInv, Next
  PROVE  /\ Box(toServer', Answered') /\ Box(finished', Reported')
         /\ Box(pending', Reported') /\ Box(unacked', Reported')
<1>1. PICK A, R : A = Answered' /\ R = Reported'
  OBVIOUS
<1>2. /\ A \in [Agents -> SUBSET Message] /\ R \in [Agents -> SUBSET Message]
      /\ \A a \in Agents : R[a] \subseteq A[a] /\ A[a] = Answers(a)' /\ R[a] = Outcomes(a)'
  BY <1>1 DEF Answered, Reported, Answers, Outcomes
<1>3. Box(toServer, A) /\ Box(finished, R) /\ Box(pending, R) /\ Box(unacked, R)
  BY <1>2, MailGrows, SeqWiden DEF DispatchInv, MailInv, Box
<1> DEFINE Goal == Box(toServer', A) /\ Box(finished', R) /\ Box(pending', R) /\ Box(unacked', R)
<1>4. SUFFICES Goal
  BY <1>1
<1>5. CASE UNCHANGED <<toServer, finished, pending, unacked>>
  BY <1>3, <1>5
<1>6. \A a \in Agents : \A r \in RunsAt(a) :
        /\ Accepted(r) \in A[a]
        /\ \A res \in Results : (res = "succeeded" => r \in completed') => Result(r, res) \in R[a]
  BY <1>2 DEF Accepted, Result, Answers, Outcomes, Message, RunsAt
<1>7. ASSUME NEW a \in Agents, StreamNext(a) PROVE Goal
  <2>1. CASE HandleAccepted(a) \/ HandleResult(a) \/ HandlerFails(a)
    <3>1. /\ toServer[a] # <<>> /\ toServer' = [toServer EXCEPT ![a] = Tail(toServer[a])]
          /\ UNCHANGED <<finished, pending, unacked>>
      BY <2>1 DEF HandleAccepted, HandleResult, HandlerFails, Receive, agentVars
    <3>2. Tail(toServer[a]) \in Seq(A[a])
      BY <1>3, <3>1, TakeHead DEF Box
    <3> QED
      BY <1>2, <1>3, <3>1, <3>2, BoxTyped DEF Box
  <2>2. CASE StreamEnds(a)
    <3>1. toServer' = [toServer EXCEPT ![a] = <<>>] /\ UNCHANGED <<finished, pending, unacked>>
      BY <2>2 DEF StreamEnds, agentVars
    <3>2. <<>> \in Seq(A[a])
      OBVIOUS
    <3> QED
      BY <1>2, <1>3, <3>1, <3>2, BoxTyped DEF Box
  <2>3. CASE Reconnect(a)
    <3>1. PICK replay : replay = unacked[a] \o pending[a]
      OBVIOUS
    <3>2. replay \in Seq(R[a]) /\ <<>> \in Seq(R[a])
      BY <1>3, <3>1 DEF Box
    <3>3. replay \in Seq(A[a])
      BY <1>2, <3>2, SeqWiden
    <3>4. /\ toServer' = [toServer EXCEPT ![a] = replay]
          /\ unacked' = [unacked EXCEPT ![a] = replay]
          /\ pending' = [pending EXCEPT ![a] = <<>>]
          /\ UNCHANGED finished
      BY <2>3, <3>1 DEF Reconnect
    <3>5. Box(toServer', A)
      BY <1>2, <1>3, <3>3, <3>4, BoxTyped DEF Box
    <3>6. Box(unacked', R) /\ Box(pending', R)
      BY <1>2, <1>3, <3>2, <3>4, BoxTyped DEF Box
    <3> QED
      BY <1>3, <3>4, <3>5, <3>6
  <2>4. CASE Heartbeat(a) \/ LinkBreaks(a) \/ DisconnectList(a)
    BY <1>5, <2>4 DEF Heartbeat, LinkBreaks, DisconnectList, netVars, agentVars
  <2> QED
    BY <1>7, <2>1, <2>2, <2>3, <2>4 DEF StreamNext
<1>8. ASSUME NEW a \in Agents, AgentNext(a) PROVE Goal
  <2>1. <<>> \in Seq(R[a])
    OBVIOUS
  <2>2. CASE ReceiveWelcome(a) \/ CacheMiss(a) \/ ReceiveCancel(a)
    <3>1. unacked' = [unacked EXCEPT ![a] = <<>>] /\ UNCHANGED <<toServer, finished, pending>>
      BY <2>2 DEF ReceiveWelcome, CacheMiss, ReceiveCancel
    <3> QED
      BY <1>2, <1>3, <2>1, <3>1, BoxTyped DEF Box
  <2>3. CASE ReplayResult(a)
    <3>1. PICK r, m : r = Head(toAgent[a]).run /\ m = CachedResult(a, r)
      OBVIOUS
    <3>2. Cached(a, r) # {}
      BY <2>3, <3>1 DEF ReplayResult
    <3>3. m \in R[a] /\ m \in A[a] /\ MoveToFront(a, r) \in Seq(R[a])
      BY <1>2, <1>3, <3>1, <3>2, CacheTyped DEF Box
    <3>4. Append(toServer[a], m) \in Seq(A[a]) /\ <<m>> \in Seq(R[a])
      BY <1>3, <3>3, AddLast, ShortSeq DEF Box
    <3>5. /\ finished' = [finished EXCEPT ![a] = MoveToFront(a, r)]
          /\ toServer' = [toServer EXCEPT ![a] = Append(toServer[a], m)]
          /\ unacked' = [unacked EXCEPT ![a] = <<m>>]
          /\ UNCHANGED pending
      BY <2>3, <3>1 DEF ReplayResult
    <3>6. Box(toServer', A)
      BY <1>2, <1>3, <3>4, <3>5, BoxTyped DEF Box
    <3>7. Box(finished', R) /\ Box(unacked', R)
      BY <1>2, <1>3, <3>3, <3>4, <3>5, BoxTyped DEF Box
    <3> QED
      BY <1>3, <3>5, <3>6, <3>7
  <2>4. CASE AcceptCommand(a)
    <3>1. PICK r \in RunsAt(a) : r = looking[a]
      BY <2>4 DEF AcceptCommand, Return, DispatchInv, ExecuteInv
    <3>2. PICK s \in Seq(A[a]) : s = <<Accepted(r)>>
      BY <1>2, <1>6, ShortSeq
    <3>3. toServer[a] \in Seq(A[a])
      BY <1>3 DEF Box
    <3>4. PICK w \in Seq(A[a]) : w = toServer[a] \o s
      BY <3>3, AddAll
    <3>5. /\ toServer' = toServer \/ toServer' = [toServer EXCEPT ![a] = w]
          /\ UNCHANGED <<finished, pending, unacked>>
      BY <2>4, <3>1, <3>2, <3>4 DEF AcceptCommand, SendUp
    <3>6. Box([toServer EXCEPT ![a] = w], A)
      BY <1>2, <1>3, <3>4, BoxTyped DEF Box
    <3> QED
      BY <1>3, <3>5, <3>6
  <2>5. CASE TempDirFails(a)
    <3>1. PICK r \in RunsAt(a) : r = looking[a]
      BY <2>5 DEF TempDirFails, Return, DispatchInv, ExecuteInv
    <3>2. PICK s, m : s = <<Accepted(r), m>> /\ m = Result(r, "failed")
      OBVIOUS
    <3>3. Accepted(r) \in A[a] /\ m \in R[a] /\ m \in A[a]
      BY <1>2, <1>6, <3>2 DEF Results
    <3>4. s \in Seq(A[a])
      BY <3>2, <3>3, ShortSeq
    <3>5. SendUp(a, s) /\ SendRunResult(a, m) /\ UNCHANGED finished
      BY <2>5, <3>1, <3>2 DEF TempDirFails
    <3> QED
      BY <1>2, <1>3, <3>3, <3>4, <3>5, SendTyped DEF Box
  <2>6. CASE AgentRestart(a)
    <3>1. /\ finished' = [finished EXCEPT ![a] = <<>>]
          /\ pending' = [pending EXCEPT ![a] = <<>>]
          /\ unacked' = [unacked EXCEPT ![a] = <<>>]
          /\ UNCHANGED toServer
      BY <2>6 DEF AgentRestart
    <3> QED
      BY <1>2, <1>3, <2>1, <3>1, BoxTyped DEF Box
  <2>7. CASE IgnoreDuplicate(a) \/ AcceptFails(a)
    BY <1>5, <2>7 DEF IgnoreDuplicate, AcceptFails, netVars
  <2> QED
    BY <1>8, <2>2, <2>3, <2>4, <2>5, <2>6, <2>7 DEF AgentNext
<1>9. ASSUME NEW r \in Runs, RunnerNext(r) PROVE Goal
  <2>1. r \in RunsAt(RunAgent[r]) /\ RunAgent[r] \in Agents
    BY DispatchAssumption DEF RunsAt
  <2>2. CASE StartPipeline(r) \/ Unregister(r)
    BY <1>5, <2>2 DEF StartPipeline, Unregister, netVars
  <2>3. CASE GiveUpWaiting(r)
    <3>1. /\ PutResult(r, "cancelled", "gaveup") /\ UNCHANGED <<toServer, pending, unacked>>
          /\ Result(r, "cancelled") \in R[RunAgent[r]]
      BY <1>6, <2>1, <2>3 DEF GiveUpWaiting, Results, netVars
    <3> QED
      BY <1>2, <1>3, <3>1, PutTyped DEF Box
  <2>4. CASE FinishPipeline(r)
    <3>1. /\ UNCHANGED <<toServer, pending, unacked>>
          /\ \E res \in Results : PutResult(r, res, res) /\ (res = "succeeded" => r \in completed')
      BY <2>4 DEF FinishPipeline, netVars
    <3>2. PICK res \in Results : PutResult(r, res, res) /\ (res = "succeeded" => r \in completed')
      BY <3>1
    <3>3. Result(r, res) \in R[RunAgent[r]]
      BY <1>6, <2>1, <3>2
    <3> QED
      BY <1>2, <1>3, <3>1, <3>2, <3>3, PutTyped DEF Box
  <2>5. CASE SendResult(r)
    <3>1. PICK a \in Agents, res \in Results :
            /\ a = RunAgent[r] /\ res = IF agentRun[r] = "gaveup" THEN "cancelled" ELSE agentRun[r]
            /\ UNCHANGED finished
      BY <2>1, <2>5 DEF SendResult, Results
    <3>2. PICK m : m = Result(r, res)
      OBVIOUS
    <3>3. res = "succeeded" => r \in completed'
      BY <3>1, Monotone DEF DispatchInv, ExecuteInv
    <3>4. m \in R[a] /\ m \in A[a]
      BY <1>2, <1>6, <2>1, <3>1, <3>2, <3>3
    <3>5. SendUp(a, <<m>>) /\ SendRunResult(a, m)
      BY <2>5, <3>1, <3>2 DEF SendResult
    <3>6. <<m>> \in Seq(A[a])
      BY <3>4, ShortSeq
    <3> QED
      BY <1>2, <1>3, <3>1, <3>4, <3>5, <3>6, SendTyped DEF Box
  <2> QED
    BY <1>9, <2>2, <2>3, <2>4, <2>5 DEF RunnerNext
<1>10. CASE ServerCrash
  BY <1>3, <1>10 DEF ServerCrash, agentVars, Box
<1>11. CASE \E p \in Repositories : WorkerNext(p)
  BY <1>5, <1>11, WorkerLeavesLists DEF agentVars
<1>12. CASE \/ \E r \in Runs : WatchdogNext(r) \/ ServerNext(r)
            \/ \E late \in SUBSET MayTimeOut : WatchdogTick(late)
            \/ StartServing
  BY <1>5, <1>12, ServerLeavesAgents
<1> QED
  BY <1>7, <1>8, <1>9, <1>10, <1>11, <1>12 DEF Next

-----------------------------------------------------------------------------
(* Where the agents' goroutines are.                                        *)

\* How runner.running and what Execute is about to look up there change.
AgentRunStep ==
  \/ UNCHANGED <<agentRun, starts, looking>>
  \/ \E a \in Agents : CacheMiss(a)
  \/ \E a \in Agents : looking' = [looking EXCEPT ![a] = NoRun] /\ UNCHANGED <<agentRun, starts>>
  \/ \E a \in Agents : AcceptCommand(a)
  \/ \E r \in Runs : StartPipeline(r)
  \/ \E r \in Runs, step \in RunnerStates \ {"waiting", "executing"} :
       /\ agentRun[r] # "none" /\ agentRun' = [agentRun EXCEPT ![r] = step]
       /\ step = "succeeded" => r \in completed'
       /\ UNCHANGED <<starts, looking>>
  \/ \E a \in Agents : AgentRestart(a)

\* Every step changes them in one of these ways.
LEMMA AgentRunSteps == ASSUME Next PROVE AgentRunStep
<1>1. CASE \E p \in Repositories : WorkerNext(p)
  BY <1>1, WorkerLeavesLists DEF agentVars, AgentRunStep
<1>2. CASE \/ \E r \in Runs : WatchdogNext(r) \/ ServerNext(r)
           \/ \E late \in SUBSET MayTimeOut : WatchdogTick(late)
           \/ StartServing
  BY <1>2, ServerLeavesAgents DEF AgentRunStep
<1>3. CASE \E a \in Agents : StreamNext(a)
  BY <1>3 DEF StreamNext, HandleAccepted, HandleResult, HandlerFails, Heartbeat, LinkBreaks,
              StreamEnds, DisconnectList, Reconnect, agentVars, histVars, AgentRunStep
<1>4. CASE \E a \in Agents : AgentNext(a)
  BY <1>4 DEF AgentNext, ReceiveWelcome, ReplayResult, IgnoreDuplicate, AcceptFails, TempDirFails,
              ReceiveCancel, Return, histVars, AgentRunStep
<1>5. ASSUME NEW r \in Runs, RunnerNext(r) PROVE AgentRunStep
  <2>1. CASE StartPipeline(r)
    BY <2>1 DEF AgentRunStep
  <2>2. ASSUME NEW step \in RunnerStates \ {"waiting", "executing"}, agentRun[r] # "none",
               agentRun' = [agentRun EXCEPT ![r] = step], step = "succeeded" => r \in completed',
               UNCHANGED <<starts, looking>>
        PROVE  AgentRunStep
    BY <2>2, Zenon DEF AgentRunStep
  <2>3. CASE GiveUpWaiting(r)
    <3>1. "gaveup" \in RunnerStates \ {"waiting", "executing"}
      BY DEF RunnerStates, HoldsLock
    <3> QED
      BY <2>2, <2>3, <3>1 DEF GiveUpWaiting, PutResult
  <2>4. CASE FinishPipeline(r)
    <3>1. PICK res \in Results :
            /\ agentRun' = [agentRun EXCEPT ![r] = res]
            /\ res = "succeeded" => r \in completed'
      BY <2>4 DEF FinishPipeline, PutResult
    <3>2. res \in RunnerStates \ {"waiting", "executing"}
      BY DEF RunnerStates, HoldsLock, HoldsSlot, Results
    <3> QED
      BY <2>2, <2>4, <3>1, <3>2 DEF FinishPipeline
  <2>5. CASE SendResult(r) \/ Unregister(r)
    <3>1. {"sent", "none"} \subseteq RunnerStates \ {"waiting", "executing"}
      BY DEF RunnerStates
    <3>2. /\ agentRun[r] # "none" /\ UNCHANGED <<starts, looking>>
          /\ \/ agentRun' = [agentRun EXCEPT ![r] = "sent"]
             \/ agentRun' = [agentRun EXCEPT ![r] = "none"]
      BY <2>5 DEF SendResult, Unregister, Results, histVars
    <3> QED
      BY <2>2, <3>1, <3>2
  <2> QED
    BY <1>5, <2>1, <2>3, <2>4, <2>5 DEF RunnerNext
<1>6. CASE ServerCrash
  BY <1>6 DEF ServerCrash, agentVars, histVars, AgentRunStep
<1> QED
  BY <1>1, <1>2, <1>3, <1>4, <1>5, <1>6 DEF Next

\* What Execute looks for stays a run of the agent, and successes stay true.
LEMMA ExecuteInvStep == ASSUME DispatchInv, Next PROVE ExecuteInv'
<1>1. /\ AgentTypes /\ ExecuteInv
      /\ \A r \in Runs : status[r] # "absent" => status'[r] # "absent"
      /\ completed \subseteq completed'
  BY Monotone DEF DispatchInv, Types
<1>2. CASE UNCHANGED <<agentRun, starts, looking>>
  BY <1>1, <1>2 DEF ExecuteInv, RunsAt
<1>3. ASSUME NEW a \in Agents, CacheMiss(a) PROVE ExecuteInv'
  <2>1. PICK r \in Runs : r = Head(toAgent[a]).run /\ RunAgent[r] = a /\ status[r] # "absent"
    BY <1>3, ExecuteFacts DEF CacheMiss
  <2>2. looking' = [looking EXCEPT ![a] = r] /\ UNCHANGED agentRun
    BY <1>3, <2>1 DEF CacheMiss
  <2> QED
    BY <1>1, <2>1, <2>2 DEF ExecuteInv, RunsAt, AgentTypes
<1>4. ASSUME NEW a \in Agents, looking' = [looking EXCEPT ![a] = NoRun],
             \A r \in Runs : agentRun'[r] \in {agentRun[r], "none", "waiting"}
      PROVE  ExecuteInv'
  BY <1>1, <1>4 DEF ExecuteInv, RunsAt, AgentTypes
<1>5. ASSUME NEW a \in Agents, AcceptCommand(a) PROVE ExecuteInv'
  BY <1>1, <1>4, <1>5 DEF AcceptCommand, Return, AgentTypes
<1>6. ASSUME NEW r \in Runs, StartPipeline(r) PROVE ExecuteInv'
  BY <1>1, <1>6 DEF StartPipeline, ExecuteInv, RunsAt, AgentTypes
<1>7. ASSUME NEW r \in Runs, NEW step, agentRun' = [agentRun EXCEPT ![r] = step],
             step = "succeeded" => r \in completed', UNCHANGED looking
      PROVE  ExecuteInv'
  BY <1>1, <1>7 DEF ExecuteInv, RunsAt, AgentTypes
<1>8. ASSUME NEW a \in Agents, AgentRestart(a) PROVE ExecuteInv'
  BY <1>1, <1>4, <1>8 DEF AgentRestart, AgentTypes
<1> QED
  BY <1>2, <1>3, <1>4, <1>5, <1>6, <1>7, <1>8, AgentRunSteps DEF AgentRunStep

-----------------------------------------------------------------------------
(* The first theorems.                                                      *)

\* The invariant holds at the start and every step keeps it.
LEMMA DispatchInvInit == Init => DispatchInv
<1> SUFFICES ASSUME Init PROVE DispatchInv
  OBVIOUS
<1>1. Types
  BY DispatchAssumption DEF Init, Types, RowTypes, ListTypes, AgentTypes, FaultTypes, Observation,
                            RunnerStates
<1>2. WorkerInv /\ ClaimedInv
  BY DEF Init, WorkerInv, ClaimedInv, PCs
<1>3. MailInv /\ ExecuteInv
  BY DEF Init, MailInv, ExecuteInv
<1> QED
  BY <1>1, <1>2, <1>3 DEF DispatchInv

\* Every step keeps the invariant.
LEMMA DispatchInvStep == DispatchInv /\ [Next]_vars => DispatchInv'
<1>1. ASSUME DispatchInv, Next PROVE DispatchInv'
  <2>1. Types'
    BY <1>1, RowTypesStep, ListTypesStep, AgentTypesStep, FaultTypesStep DEF Types
  <2>2. WorkerInv' /\ ClaimedInv'
    BY <1>1, WorkerInvStep, ClaimedInvStep
  <2>3. MailInv'
    <3>1. /\ toAgent' \in [Agents -> Seq(Message)]
          /\ \A a \in Agents : toAgent'[a] \in Seq(Commands(a)')
      BY <1>1, ToAgentTyped
    <3>2. /\ Box(toServer', Answered') /\ Box(finished', Reported')
          /\ Box(pending', Reported') /\ Box(unacked', Reported')
      BY <1>1, AnswersStep
    <3> QED
      BY <3>1, <3>2 DEF MailInv, Box, Answered, Reported
  <2> QED
    BY <1>1, <2>1, <2>2, <2>3, ExecuteInvStep DEF DispatchInv
<1>2. ASSUME DispatchInv, UNCHANGED vars PROVE DispatchInv'
  <2>1. Types'
    BY <1>2 DEF DispatchInv, Types, RowTypes, ListTypes, AgentTypes, FaultTypes, vars, dbVars, listVars,
                netVars, agentVars, histVars
  <2>2. WorkerInv' /\ ClaimedInv'
    BY <1>2 DEF DispatchInv, WorkerInv, ClaimedInv, vars, dbVars, queueVars
  <2>3. MailInv'
    BY <1>2 DEF DispatchInv, MailInv, Commands, Outcomes, Answers, vars, dbVars, netVars, agentVars,
                histVars
  <2>4. ExecuteInv'
    BY <1>2 DEF DispatchInv, ExecuteInv, vars, dbVars, agentVars, histVars
  <2> QED
    BY <2>1, <2>2, <2>3, <2>4 DEF DispatchInv
<1> QED
  BY <1>1, <1>2

\* So it holds in every behaviour.
LEMMA DispatchInvHolds == Spec => []DispatchInv
  BY DispatchInvInit, DispatchInvStep, PTL DEF Spec

\* Every variable of RunDispatch keeps its type, and a busy worker holds a run
\* of its own repository.
THEOREM DispatchTypeCorrect == Spec => []TypeOK
  BY DispatchInvHolds, TypesImplied, PTL

\* The marker that makes the watchdog leave a queued run alone (processingRuns)
\* belongs to a worker that holds the run.
THEOREM MarkersAreLive == Spec => []ProcessingMarkerIsLive
<1>1. DispatchInv => ProcessingMarkerIsLive
  BY DEF DispatchInv, WorkerInv, ProcessingMarkerIsLive
<1> QED
  BY <1>1, DispatchInvHolds, PTL

\* Appending a job keeps the others and adds one; taking the head leaves the
\* rest.
LEMMA JobStays ==
  ASSUME NEW S, NEW q \in Seq(S), NEW r, \E i \in DOMAIN q : q[i] = r
  PROVE  /\ \A x \in S : \E i \in DOMAIN Append(q, x) : Append(q, x)[i] = r
         /\ r # Head(q) => \E i \in DOMAIN Tail(q) : Tail(q)[i] = r
<1>1. PICK i \in DOMAIN q : q[i] = r
  OBVIOUS
<1>2. ASSUME NEW x \in S PROVE \E j \in DOMAIN Append(q, x) : Append(q, x)[j] = r
  BY <1>1, AddLast
<1>3. ASSUME r # Head(q) PROVE \E j \in DOMAIN Tail(q) : Tail(q)[j] = r
  <2>1. i \in 1 .. Len(q) /\ i # 1 /\ Len(q) \in Nat
    BY <1>1, <1>3
  <2>2. i - 1 \in 1 .. Len(Tail(q)) /\ Tail(q)[i - 1] = q[i]
    BY <2>1
  <2> QED
    BY <1>1, <2>2
<1> QED
  BY <1>2, <1>3

\* A marker goes with its job from the queue to the worker and back; the worker
\* that drops the job takes the marker with it.
LEMMA EnqueuedStep == ASSUME DispatchInv, EnqueuedMarkerIsLive, Next PROVE EnqueuedMarkerIsLive'
<1>1. WorkerInv /\ NoRun \notin Runs /\ \A r \in Runs : RunRepository[r] \in Repositories
  BY DispatchAssumption DEF DispatchInv
<1>2. CASE UNCHANGED queueVars
  BY <1>2 DEF EnqueuedMarkerIsLive, InQueue, queueVars
<1>3. SUFFICES ASSUME ~UNCHANGED queueVars, NEW r \in Runs, r \in enqueued'
               PROVE  (InQueue(r) \/ job[RunRepository[r]] = r)'
  <2>1. enqueued' \subseteq Runs
    BY WorkerInvStep DEF WorkerInv
  <2> QED
    BY <1>2, <2>1 DEF EnqueuedMarkerIsLive
<1> DEFINE p == RunRepository[r]
<1>4. /\ p \in Repositories /\ queue[p] \in Seq(Runs)
      /\ DOMAIN queue = Repositories /\ DOMAIN job = Repositories
      /\ r \in enqueued => (\E i \in DOMAIN queue[p] : queue[p][i] = r) \/ job[p] = r
  BY <1>1 DEF EnqueuedMarkerIsLive, InQueue, WorkerInv
<1> HIDE DEF p
<1>5. SUFFICES (\E i \in DOMAIN queue'[p] : queue'[p][i] = r) \/ job'[p] = r
  BY DEF InQueue, p
<1>6. ASSUME NEW x \in Runs, Added(x) PROVE (\E i \in DOMAIN queue'[p] : queue'[p][i] = r) \/ job'[p] = r
  <2>1. CASE x = r
    <3>1. queue'[p] = Append(queue[p], r)
      BY <1>4, <1>6, <2>1 DEF Added, p
    <3> QED
      BY <1>4, <3>1, AddLast
  <2>2. CASE x # r
    <3>1. r \in enqueued /\ job' = job /\ queue'[p] \in {queue[p], Append(queue[p], x)}
      BY <1>3, <1>4, <1>6, <2>2 DEF Added
    <3> QED
      BY <1>4, <3>1, JobStays
  <2> QED
    BY <2>1, <2>2
<1>7. ASSUME NEW w \in Repositories, WorkerNext(w), w # p
      PROVE  (\E i \in DOMAIN queue'[p] : queue'[p][i] = r) \/ job'[p] = r
  <2>1. job'[p] = job[p] /\ queue'[p] = queue[p]
    BY <1>1, <1>4, <1>7, OtherWorkers
  <2>2. enqueued' \subseteq enqueued
    BY <1>7, WorkerMoves DEF Pops, Marks, Goes, Drops, DropJob, Requeues
  <2> QED
    BY <1>3, <1>4, <2>1, <2>2
<1>8. ASSUME WorkerNext(p) PROVE (\E i \in DOMAIN queue'[p] : queue'[p][i] = r) \/ job'[p] = r
  <2>1. r \in enqueued
    BY <1>3, <1>4, <1>8, WorkerMoves DEF Pops, Marks, Goes, Drops, DropJob, Requeues
  <2>2. CASE Pops(p)
    <3>1. queue'[p] = Tail(queue[p]) /\ job'[p] = Head(queue[p]) /\ job[p] = NoRun
      BY <1>1, <1>4, <2>2 DEF Pops, WorkerInv
    <3>2. \E i \in DOMAIN queue[p] : queue[p][i] = r
      BY <1>1, <1>4, <2>1, <3>1
    <3> QED
      BY <1>4, <3>1, <3>2, JobStays
  <2>3. CASE Marks(p) \/ Goes(p)
    BY <1>4, <2>1, <2>3 DEF Marks, Goes
  <2>4. CASE Drops(p)
    BY <1>3, <1>4, <2>1, <2>4 DEF Drops, DropJob
  <2>5. CASE Requeues(p)
    <3>1. queue'[p] = Append(queue[p], job[p]) /\ job[p] \in Runs
      BY <1>1, <1>4, <2>5 DEF Requeues, WorkerInv
    <3>2. CASE job[p] = r
      BY <1>4, <3>1, <3>2, AddLast
    <3>3. CASE job[p] # r
      BY <1>4, <2>1, <3>1, <3>3, JobStays
    <3> QED
      BY <3>2, <3>3
  <2> QED
    BY <1>4, <1>8, <2>2, <2>3, <2>4, <2>5, WorkerMoves
<1>9. ~ServerCrash
  BY <1>3 DEF ServerCrash
<1> QED
  BY <1>3, <1>6, <1>7, <1>8, <1>9, QueueSteps

\* No run is left only in enqueuedRuns: Enqueue drops a call only for a run
\* that is in its queue or with its worker.
THEOREM EnqueuedMarkersAreLive == Spec => []EnqueuedMarkerIsLive
<1>1. Init => EnqueuedMarkerIsLive
  BY DEF Init, EnqueuedMarkerIsLive
<1>2. DispatchInv /\ EnqueuedMarkerIsLive /\ [Next]_vars => EnqueuedMarkerIsLive'
  <2>1. EnqueuedMarkerIsLive /\ UNCHANGED vars => EnqueuedMarkerIsLive'
    BY DEF vars, queueVars, EnqueuedMarkerIsLive, InQueue
  <2> QED
    BY <2>1, EnqueuedStep
<1> QED
  BY <1>1, <1>2, DispatchInvHolds, PTL DEF Spec

-----------------------------------------------------------------------------
(* Copies of a job.                                                         *)

Missing(q, r) == \A i \in DOMAIN q : q[i] # r

AtMostOnce(q, r) == \A i, j \in DOMAIN q : q[i] = r /\ q[j] = r => i = j

AtMostTwice(q, r) ==
  \A i, j, k \in DOMAIN q : q[i] = r /\ q[j] = r /\ q[k] = r => i = j \/ j = k \/ i = k

\* A run has at most two jobs, counting the one its worker holds, and at most
\* one when it has no marker: this is what makes Enqueue safe after a worker
\* has cleared the marker of a run that is still in the queue.
JobsInv ==
  \A r \in Runs :
    IF job[RunRepository[r]] = r
    THEN /\ AtMostOnce(queue[RunRepository[r]], r)
         /\ r \notin enqueued => Missing(queue[RunRepository[r]], r)
    ELSE /\ AtMostTwice(queue[RunRepository[r]], r)
         /\ r \notin enqueued => AtMostOnce(queue[RunRepository[r]], r)

\* What appending and taking the head do to the number of copies.
LEMMA AppendCopies ==
  ASSUME NEW S, NEW q \in Seq(S), NEW x \in S
  PROVE  /\ Missing(q, x) => AtMostOnce(Append(q, x), x)
         /\ AtMostOnce(q, x) => AtMostTwice(Append(q, x), x)
         /\ \A r : r # x => /\ Missing(q, r) => Missing(Append(q, x), r)
                            /\ AtMostOnce(q, r) => AtMostOnce(Append(q, x), r)
                            /\ AtMostTwice(q, r) => AtMostTwice(Append(q, x), r)
<1>1. PICK q2, n : q2 = Append(q, x) /\ n = Len(q) + 1
  OBVIOUS
<1>2. /\ DOMAIN q2 = DOMAIN q \cup {n} /\ q2[n] = x /\ n \notin DOMAIN q
      /\ \A i \in DOMAIN q : q2[i] = q[i]
  BY <1>1, AddLast
<1>3. /\ Missing(q, x) => AtMostOnce(q2, x)
      /\ AtMostOnce(q, x) => AtMostTwice(q2, x)
  BY <1>2 DEF Missing, AtMostOnce, AtMostTwice
<1>4. ASSUME NEW r, r # x
      PROVE  /\ Missing(q, r) => Missing(q2, r)
             /\ AtMostOnce(q, r) => AtMostOnce(q2, r)
             /\ AtMostTwice(q, r) => AtMostTwice(q2, r)
  BY <1>2, <1>4 DEF Missing, AtMostOnce, AtMostTwice
<1> QED
  BY <1>1, <1>3, <1>4

\* Taking the head removes one copy of it and none of any other run.
LEMMA TailCopies ==
  ASSUME NEW S, NEW q \in Seq(S), q # <<>>
  PROVE  /\ AtMostOnce(q, Head(q)) => Missing(Tail(q), Head(q))
         /\ AtMostTwice(q, Head(q)) => AtMostOnce(Tail(q), Head(q))
         /\ \A r : /\ Missing(q, r) => Missing(Tail(q), r)
                   /\ AtMostOnce(q, r) => AtMostOnce(Tail(q), r)
                   /\ AtMostTwice(q, r) => AtMostTwice(Tail(q), r)
<1>1. PICK t, h : t = Tail(q) /\ h = Head(q)
  OBVIOUS
<1>2. /\ h = q[1] /\ 1 \in DOMAIN q
      /\ \A i \in DOMAIN t : i \in Nat /\ i + 1 \in DOMAIN q /\ i + 1 # 1 /\ t[i] = q[i + 1]
  BY <1>1, TakeHead
<1>3. \A i, j \in DOMAIN t : i + 1 = j + 1 => i = j
  BY <1>2
<1>4. /\ AtMostOnce(q, h) => Missing(t, h)
      /\ AtMostTwice(q, h) => AtMostOnce(t, h)
  BY <1>2, <1>3 DEF Missing, AtMostOnce, AtMostTwice
<1>5. ASSUME NEW r
      PROVE  /\ Missing(q, r) => Missing(t, r)
             /\ AtMostOnce(q, r) => AtMostOnce(t, r)
             /\ AtMostTwice(q, r) => AtMostTwice(t, r)
  BY <1>2, <1>3 DEF Missing, AtMostOnce, AtMostTwice
<1> QED
  BY <1>1, <1>4, <1>5

\* The three bounds are ordered.
LEMMA FewerCopies ==
  ASSUME NEW q, NEW r
  PROVE  /\ Missing(q, r) => AtMostOnce(q, r)
         /\ AtMostOnce(q, r) => AtMostTwice(q, r)
  BY DEF Missing, AtMostOnce, AtMostTwice

\* Every step keeps the bound.
LEMMA JobsInvStep == ASSUME DispatchInv, JobsInv, Next PROVE JobsInv'
<1>1. WorkerInv
  BY DEF DispatchInv
<1>2. CASE UNCHANGED queueVars
  BY <1>2 DEF JobsInv, queueVars
<1>3. ASSUME NEW x \in Runs, Added(x) PROVE JobsInv'
  <2>1. PICK p \in Repositories : p = RunRepository[x]
    BY DispatchAssumption
  <2>2. /\ queue[p] \in Seq(Runs)
        /\ queue' = [queue EXCEPT ![p] = Append(queue[p], x)]
        /\ enqueued' = enqueued \cup {x} /\ job' = job
        /\ x \notin enqueued \/ Missing(queue[p], x)
    BY <1>1, <1>3, <2>1 DEF Added, InQueue, Missing, WorkerInv
  <2>3. ASSUME NEW r \in Runs
        PROVE IF job'[RunRepository[r]] = r
              THEN /\ AtMostOnce(queue'[RunRepository[r]], r)
                   /\ r \notin enqueued' => Missing(queue'[RunRepository[r]], r)
              ELSE /\ AtMostTwice(queue'[RunRepository[r]], r)
                   /\ r \notin enqueued' => AtMostOnce(queue'[RunRepository[r]], r)
    <3>1. CASE r = x
      <4>1. queue'[RunRepository[r]] = Append(queue[p], x)
        BY <1>1, <2>1, <2>2, <3>1 DEF WorkerInv
      <4>2. /\ job[p] = x => Missing(queue[p], x)
            /\ AtMostOnce(queue[p], x)
        BY <2>1, <2>2, FewerCopies DEF JobsInv
      <4> QED
        BY <2>1, <2>2, <3>1, <4>1, <4>2, AppendCopies
    <3>2. CASE r # x /\ RunRepository[r] = p
      <4>1. queue'[RunRepository[r]] = Append(queue[p], x)
        BY <1>1, <2>2, <3>2 DEF WorkerInv
      <4> QED
        BY <2>2, <3>2, <4>1, AppendCopies DEF JobsInv
    <3>3. CASE RunRepository[r] # p
      <4>1. queue'[RunRepository[r]] = queue[RunRepository[r]]
        BY <1>1, <2>2, <3>3, DispatchAssumption DEF WorkerInv
      <4> QED
        BY <2>2, <4>1 DEF JobsInv
    <3> QED
      BY <2>1, <3>1, <3>2, <3>3
  <2> QED
    BY <2>3 DEF JobsInv
<1>4. ASSUME NEW p \in Repositories, WorkerNext(p) PROVE JobsInv'
  <2>1. CASE Marks(p) \/ Goes(p)
    BY <2>1 DEF Marks, Goes, JobsInv
  <2>2. SUFFICES ASSUME Pops(p) \/ Drops(p) \/ Requeues(p), NEW r \in Runs
        PROVE IF job'[RunRepository[r]] = r
              THEN /\ AtMostOnce(queue'[RunRepository[r]], r)
                   /\ r \notin enqueued' => Missing(queue'[RunRepository[r]], r)
              ELSE /\ AtMostTwice(queue'[RunRepository[r]], r)
                   /\ r \notin enqueued' => AtMostOnce(queue'[RunRepository[r]], r)
    BY <1>4, <2>1, WorkerMoves DEF JobsInv
  <2>3. /\ queue[p] \in Seq(Runs) /\ NoRun \notin Runs
        /\ RunRepository[r] \in Repositories
        /\ DOMAIN job = Repositories /\ DOMAIN queue = Repositories
    BY <1>1, DispatchAssumption DEF WorkerInv
  <2>4. CASE RunRepository[r] # p
    <3>1. /\ job'[RunRepository[r]] = job[RunRepository[r]]
          /\ queue'[RunRepository[r]] = queue[RunRepository[r]]
      BY <2>2, <2>3, <2>4 DEF Pops, Drops, DropJob, Requeues
    <3>2. r \notin enqueued' => r \notin enqueued
      <4>1. r # job[p] \/ pc[p] = "idle"
        BY <1>1, <2>4 DEF WorkerInv
      <4> QED
        BY <2>2, <4>1 DEF Pops, Drops, DropJob, Requeues
    <3> QED
      BY <3>1, <3>2 DEF JobsInv
  <2>5. CASE RunRepository[r] = p /\ Pops(p)
    <3>1. /\ job[p] = NoRun /\ job'[p] = Head(queue[p]) /\ queue'[p] = Tail(queue[p])
          /\ queue[p] # <<>> /\ enqueued' = enqueued
      BY <1>1, <2>3, <2>5 DEF Pops, WorkerInv
    <3>2. CASE r = Head(queue[p])
      BY <2>3, <2>5, <3>1, <3>2, TailCopies DEF JobsInv
    <3>3. CASE r # Head(queue[p])
      BY <2>3, <2>5, <3>1, <3>3, TailCopies DEF JobsInv
    <3> QED
      BY <3>2, <3>3
  <2>6. CASE RunRepository[r] = p /\ Drops(p)
    <3>1. /\ job'[p] = NoRun /\ queue' = queue /\ enqueued' = enqueued \ {job[p]}
      BY <2>3, <2>6 DEF Drops, DropJob
    <3> QED
      BY <2>3, <2>6, <3>1, FewerCopies DEF JobsInv
  <2>7. CASE RunRepository[r] = p /\ Requeues(p)
    <3>1. /\ job'[p] = NoRun /\ queue'[p] = Append(queue[p], job[p]) /\ enqueued' = enqueued
          /\ job[p] \in Runs
      BY <1>1, <2>3, <2>7 DEF Requeues, WorkerInv
    <3>2. CASE r = job[p]
      BY <2>3, <2>7, <3>1, <3>2, AppendCopies DEF JobsInv
    <3>3. CASE r # job[p]
      BY <2>3, <2>7, <3>1, <3>3, AppendCopies DEF JobsInv
    <3> QED
      BY <3>2, <3>3
  <2> QED
    BY <2>2, <2>4, <2>5, <2>6, <2>7
<1>5. CASE ServerCrash
  <2>1. \A r \in Runs : RunRepository[r] \in Repositories /\ r # NoRun
    BY DispatchAssumption
  <2> QED
    BY <1>5, <2>1 DEF ServerCrash, JobsInv, Missing, AtMostOnce, AtMostTwice
<1> QED
  BY <1>2, <1>3, <1>4, <1>5, QueueSteps

\* Copies counted.
LEMMA CopiesCounted ==
  ASSUME NEW S, NEW q \in Seq(S), NEW r
  PROVE  LET n == Cardinality({i \in DOMAIN q : q[i] = r}) IN
         /\ n \in Nat
         /\ AtMostOnce(q, r) => n <= 1
         /\ AtMostTwice(q, r) => n <= 2
<1>1. PICK X : X = {i \in DOMAIN q : q[i] = r}
  OBVIOUS
<1>2. X \in SUBSET (1 .. Len(q)) /\ Len(q) \in Nat
  BY <1>1
<1>3. IsFiniteSet(1 .. Len(q))
  BY <1>2, FS_Interval
<1>4. IsFiniteSet(X) /\ Cardinality(X) \in Nat
  BY <1>2, <1>3, FS_Subset, FS_CardinalityType
<1>5. ASSUME NEW Y, IsFiniteSet(Y), X \subseteq Y PROVE Cardinality(X) <= Cardinality(Y)
  BY <1>5, FS_Subset
<1>6. CASE X = {}
  BY <1>1, <1>4, <1>6, FS_EmptySet
<1>7. CASE X # {}
  <2>1. PICK i \in X : TRUE
    BY <1>7
  <2>2. IsFiniteSet({i}) /\ Cardinality({i}) = 1
    BY FS_Singleton, Zenon
  <2>3. AtMostOnce(q, r) => X \subseteq {i}
    BY <1>1, <2>1 DEF AtMostOnce
  <2>4. AtMostTwice(q, r) => \E j \in X : X \subseteq {i} \cup {j}
    BY <1>1, <2>1 DEF AtMostTwice
  <2>5. \A j : IsFiniteSet({i} \cup {j}) /\ Cardinality({i} \cup {j}) \in {1, 2}
    <3> TAKE j
    <3>1. /\ IsFiniteSet({i} \cup {j})
          /\ Cardinality({i} \cup {j}) = IF j \in {i} THEN Cardinality({i}) ELSE Cardinality({i}) + 1
      BY <2>2, FS_AddElement, ZenonT(60)
    <3>2. j \in {i} => Cardinality({i} \cup {j}) = 1
      BY <2>2, <3>1, Zenon
    <3>3. j \notin {i} => Cardinality({i} \cup {j}) = 1 + 1
      BY <2>2, <3>1, Zenon
    <3>4. 1 + 1 = 2
      OBVIOUS
    <3> QED
      BY <3>1, <3>2, <3>3, <3>4, Zenon
  <2>6. AtMostOnce(q, r) => Cardinality(X) <= 1
    BY <1>5, <2>2, <2>3
  <2>7. AtMostTwice(q, r) => Cardinality(X) <= 2
    <3> SUFFICES ASSUME AtMostTwice(q, r) PROVE Cardinality(X) <= 2
      OBVIOUS
    <3>1. PICK j \in X : X \subseteq {i} \cup {j}
      BY <2>4
    <3>2. PICK c \in {1, 2} : c = Cardinality({i} \cup {j})
      BY <2>5, Zenon
    <3>3. Cardinality(X) <= c
      BY <1>5, <2>5, <3>1, <3>2
    <3> QED
      BY <1>4, <3>2, <3>3
  <2> QED
    BY <1>1, <1>4, <2>6, <2>7, Zenon
<1> QED
  BY <1>6, <1>7

\* The window between popping a job and marking it lets the watchdog add a
\* second job of a run (repoWorker, prepareRecovery); never a third.
THEOREM NeverThreeJobs == Spec => []AtMostTwoJobs
<1>1. Init => JobsInv
  <2>1. \A r \in Runs : RunRepository[r] \in Repositories
    BY DispatchAssumption
  <2> QED
    BY <2>1 DEF Init, JobsInv, Missing, AtMostOnce, AtMostTwice
<1>2. DispatchInv /\ JobsInv /\ [Next]_vars => JobsInv'
  <2>1. JobsInv /\ UNCHANGED vars => JobsInv'
    BY DEF vars, queueVars, JobsInv
  <2> QED
    BY <2>1, JobsInvStep
<1>3. DispatchInv /\ JobsInv => AtMostTwoJobs
  <2> SUFFICES ASSUME DispatchInv, JobsInv, NEW r \in Runs PROVE JobCopies(r) <= 2
    BY DEF AtMostTwoJobs
  <2>1. queue[RunRepository[r]] \in Seq(Runs)
    BY DispatchAssumption DEF DispatchInv, WorkerInv
  <2>2. PICK n : n = Cardinality({i \in DOMAIN queue[RunRepository[r]] : queue[RunRepository[r]][i] = r})
    OBVIOUS
  <2>3. /\ n \in Nat
        /\ AtMostOnce(queue[RunRepository[r]], r) => n <= 1
        /\ AtMostTwice(queue[RunRepository[r]], r) => n <= 2
    BY <2>1, <2>2, CopiesCounted
  <2>4. JobCopies(r) = n + (IF job[RunRepository[r]] = r THEN 1 ELSE 0)
    BY <2>2 DEF JobCopies
  <2> QED
    BY <2>3, <2>4 DEF JobsInv
<1> QED
  BY <1>1, <1>2, <1>3, DispatchInvHolds, PTL DEF Spec

-----------------------------------------------------------------------------
(* Where the one command of an unsafe run is.                               *)

\* The command of r has not been handed to a stream since the row was inserted.
Fresh(r) ==
  \/ status[r] \in {"absent", "queued"}
  \/ job[RunRepository[r]] = r /\ pc[RunRepository[r]] = "send"

\* Execute has missed r in the cache.
Looked(r) == looking[RunAgent[r]] = r

\* The agent works on rows that exist and a pipeline that executes has started.
WorkInv ==
  \A r \in Runs : /\ agentRun[r] # "none" => status[r] # "absent"
                  /\ agentRun[r] = "executing" => starts[r] > 0

\* The command of an unsafe run is still to be sent, on the stream once, with
\* the agent, or consumed, and only one of these.
UnsafeInv ==
  \A r \in Runs \ Retryable :
    /\ status[r] \in {"absent", "queued"} =>
         ~(job[RunRepository[r]] = r /\ pc[RunRepository[r]] = "send")
    /\ AtMostOnce(toAgent[RunAgent[r]], Execute(r))
    /\ Fresh(r) \/ Looked(r) \/ agentRun[r] # "none" \/ starts[r] # 0
         => Missing(toAgent[RunAgent[r]], Execute(r))
    /\ Fresh(r) => ~Looked(r)
    /\ Fresh(r) \/ Looked(r) => agentRun[r] = "none"
    /\ Fresh(r) \/ Looked(r) \/ agentRun[r] = "waiting" => starts[r] = 0
    /\ starts[r] <= 1

\* The agent's work stays on existing rows.
LEMMA WorkInvStep == ASSUME DispatchInv, WorkInv, Next PROVE WorkInv'
<1>1. /\ AgentTypes /\ ExecuteInv
      /\ \A r \in Runs : status[r] # "absent" => status'[r] # "absent"
  BY Monotone DEF DispatchInv, Types
<1>2. CASE UNCHANGED <<agentRun, starts>>
  BY <1>1, <1>2 DEF WorkInv
<1>3. ASSUME NEW a \in Agents, AcceptCommand(a) PROVE WorkInv'
  <2>1. PICK r \in Runs : r = looking[a] /\ status[r] # "absent"
    BY <1>1, <1>3 DEF AcceptCommand, Return, ExecuteInv, RunsAt
  <2>2. agentRun' = [agentRun EXCEPT ![r] = "waiting"] /\ UNCHANGED starts
    BY <1>3, <2>1 DEF AcceptCommand, histVars
  <2> QED
    BY <1>1, <2>1, <2>2 DEF WorkInv, AgentTypes
<1>4. ASSUME NEW r \in Runs, StartPipeline(r) PROVE WorkInv'
  BY <1>1, <1>4 DEF StartPipeline, WorkInv, AgentTypes
<1>5. ASSUME NEW r \in Runs, NEW step, step # "executing", agentRun[r] # "none",
             agentRun' = [agentRun EXCEPT ![r] = step], UNCHANGED starts
      PROVE  WorkInv'
  BY <1>1, <1>5 DEF WorkInv, AgentTypes
<1>6. ASSUME NEW a \in Agents, AgentRestart(a) PROVE WorkInv'
  BY <1>1, <1>6 DEF AgentRestart, WorkInv, AgentTypes
<1>7. ASSUME NEW a \in Agents, CacheMiss(a) PROVE WorkInv'
  BY <1>2, <1>7 DEF CacheMiss, histVars
<1> QED
  BY <1>2, <1>3, <1>4, <1>5, <1>6, <1>7, AgentRunSteps DEF AgentRunStep

\* Nothing makes an unsafe run fresh again: it is queued only before its command
\* was handed to a stream.
LEMMA FreshBefore ==
  ASSUME DispatchInv, UnsafeInv, Next, NEW r \in Runs \ Retryable, Fresh(r)'
  PROVE  /\ Fresh(r)
         /\ ~(status'[r] \in {"absent", "queued"}
               /\ job'[RunRepository[r]] = r /\ pc'[RunRepository[r]] = "send")
<1>1. /\ WorkerInv /\ RowTypes
      /\ RunRepository[r] \in Repositories /\ r # NoRun
  BY DispatchAssumption DEF DispatchInv, Types
<1>2. PICK p \in Repositories : p = RunRepository[r]
  BY <1>1
<1>3. ASSUME job'[p] = r, pc'[p] = "send"
      PROVE  \/ job[p] = r /\ pc[p] = "send" /\ status'[r] # "queued"
             \/ Claim(p) /\ job[p] = r /\ status[r] = "queued" /\ status'[r] = "dispatched"
  <2>1. CASE UNCHANGED <<pc, job>>
    <3>1. status'[r] = "queued" => status[r] = "queued" \/ CreateRun(r)
                                    \/ \E q \in Repositories : SendFails(q) /\ job[q] = r
      BY <1>1, RowSteps DEF RowStep, Moves, RowTypes
    <3>2. status[r] \notin {"absent", "queued"}
      BY <1>2, <1>3, <2>1 DEF UnsafeInv
    <3>3. ~CreateRun(r)
      BY <3>2 DEF CreateRun
    <3>4. ASSUME NEW q \in Repositories, SendFails(q), job[q] = r PROVE FALSE
      BY <1>1, <1>2, <1>3, <2>1, <3>4 DEF SendFails, GoTo, DropJob, WorkerAt, WorkerInv
    <3> QED
      BY <1>3, <2>1, <3>1, <3>2, <3>3, <3>4
  <2>2. ASSUME NEW q \in Repositories, WorkerNext(q)
        PROVE  \/ job[p] = r /\ pc[p] = "send" /\ status'[r] # "queued"
               \/ Claim(p) /\ job[p] = r /\ status[r] = "queued" /\ status'[r] = "dispatched"
    <3>1. CASE q = p
      <4>1. Claim(p)
        BY <1>1, <1>3, <2>2, <3>1
           DEF WorkerNext, Pop, MarkProcessing, CheckConnected, ClaimBusy, BuildFails, SendCommand,
               SendFails, RevertBusy, Poll, GetRunFails, RequeueJob, GoTo, DropJob, WorkerInv
      <4>2. CanTransition(status[job[p]], "queued", "dispatched")
        BY <1>1, <1>3, <4>1 DEF Claim, DropJob, WorkerInv
      <4>3. job[p] = r
        BY <1>1, <1>3, <4>1, <4>2 DEF Claim, GoTo
      <4> QED
        BY <1>1, <4>1, <4>2, <4>3 DEF Claim, TransitionRun, CanTransition, RowTypes
    <3>2. CASE q # p
      <4>1. pc'[p] = pc[p] /\ job'[p] = job[p]
        BY <1>1, <2>2, <3>2, OtherWorkers
      <4>2. status[r] \notin {"absent", "queued"}
        BY <1>2, <1>3, <4>1 DEF UnsafeInv
      <4>3. job[q] # r
        BY <1>1, <1>2, <3>2 DEF WorkerInv
      <4>4. status'[r] = status[r]
        <5>1. CASE Claim(q) \/ BuildFails(q) \/ SendFails(q)
          BY <1>1, <4>3, <5>1 DEF Claim, BuildFails, SendFails, TransitionRun, RowTypes
        <5> QED
          BY <2>2, <5>1 DEF WorkerNext, Pop, MarkProcessing, CheckConnected, ClaimBusy, SendCommand,
                       RevertBusy, Poll, GetRunFails, RequeueJob, dbVars
      <4> QED
        BY <1>3, <4>1, <4>2, <4>4
    <3> QED
      BY <3>1, <3>2
  <2>3. CASE ServerCrash
    BY <1>1, <1>3, <2>3 DEF ServerCrash
  <2> QED
    BY <2>1, <2>2, <2>3, QueueSteps DEF queueVars, Added
<1>4. ASSUME status'[r] \in {"absent", "queued"} PROVE Fresh(r)
  <2>1. \/ status[r] \in {"absent", "queued"}
        \/ \E q \in Repositories : SendFails(q) /\ job[q] = r
    BY <1>1, <1>4, RowSteps DEF RowStep, Moves, RowTypes
  <2>2. ASSUME NEW q \in Repositories, SendFails(q), job[q] = r PROVE Fresh(r)
    BY <1>1, <2>2 DEF SendFails, WorkerAt, WorkerInv, Fresh
  <2> QED
    BY <2>1, <2>2 DEF Fresh
<1>5. ASSUME job'[p] = r, pc'[p] = "send"
      PROVE  Fresh(r) /\ status'[r] \notin {"absent", "queued"}
  <2>1. job[p] = r /\ (pc[p] = "send" \/ status[r] = "queued")
    BY <1>3, <1>5
  <2>2. Fresh(r)
    BY <1>2, <2>1 DEF Fresh
  <2>3. status[r] # "absent"
    BY <1>2, <2>1 DEF UnsafeInv
  <2>4. status'[r] # "absent"
    BY <2>3, Monotone
  <2>5. status'[r] # "queued"
    BY <1>3, <1>5
  <2> QED
    BY <2>2, <2>4, <2>5
<1> QED
  BY <1>2, <1>4, <1>5 DEF Fresh

\* Only SendCommand puts the command of a run on a stream, and then the run is
\* no longer fresh.
LEMMA CommandBox ==
  ASSUME DispatchInv, UnsafeInv, Next, NEW r \in Runs \ Retryable
  PROVE  /\ AtMostOnce(toAgent'[RunAgent[r]], Execute(r))
         /\ \/ Missing(toAgent[RunAgent[r]], Execute(r)) => Missing(toAgent'[RunAgent[r]], Execute(r))
            \/ Fresh(r) /\ ~Fresh(r)' /\ UNCHANGED <<agentRun, starts, looking>>
<1>1. PICK b \in Agents, x \in Message : b = RunAgent[r] /\ x = Execute(r)
  BY DispatchAssumption DEF Execute, Message
<1>2. /\ DOMAIN toAgent = Agents /\ toAgent[b] \in Seq(Message) /\ x \in Message
      /\ AtMostOnce(toAgent[b], x)
  BY <1>1 DEF DispatchInv, MailInv, UnsafeInv, Execute, Message
<1> DEFINE Kept == /\ AtMostOnce(toAgent'[b], x)
                   /\ Missing(toAgent[b], x) => Missing(toAgent'[b], x)
<1>3. CASE UNCHANGED toAgent
  BY <1>1, <1>2, <1>3
<1>4. ASSUME NEW p \in Repositories, SendCommand(p)
      PROVE  Kept \/ (AtMostOnce(toAgent'[b], x) /\ Fresh(r) /\ ~Fresh(r)'
                     /\ UNCHANGED <<agentRun, starts, looking>>)
  <2>1. /\ job[p] \in Runs /\ RunRepository[job[p]] = p /\ pc[p] = "send" /\ DOMAIN pc = Repositories
    BY <1>4 DEF SendCommand, WorkerAt, DispatchInv, WorkerInv
  <2>2. PICK c \in Agents, y \in Message : c = RunAgent[job[p]] /\ y = Execute(job[p])
    BY <2>1, DispatchAssumption DEF Execute, Message
  <2>3. toAgent' = [toAgent EXCEPT ![c] = Append(toAgent[c], y)]
    BY <1>4, <2>2 DEF SendCommand
  <2>4. CASE job[p] = r
    <3>1. c = b /\ y = x /\ toAgent'[b] = Append(toAgent[b], x)
      BY <1>1, <1>2, <2>2, <2>3, <2>4
    <3>2. Fresh(r) /\ status[r] \notin {"absent", "queued"}
      BY <2>1, <2>4 DEF Fresh, UnsafeInv
    <3>3. Missing(toAgent[b], x)
      BY <1>1, <3>2 DEF UnsafeInv
    <3>4. AtMostOnce(toAgent'[b], x)
      BY <1>2, <3>1, <3>3, AppendCopies
    <3>5. status' = status /\ pc'[p] = "poll" /\ UNCHANGED <<agentRun, starts, looking>>
      BY <1>4, <2>1 DEF SendCommand, GoTo, dbVars, agentVars, histVars
    <3> QED
      BY <2>1, <2>4, <3>2, <3>4, <3>5 DEF Fresh
  <2>5. CASE job[p] # r
    <3>1. y # x
      BY <1>1, <2>2, <2>5 DEF Execute
    <3>2. toAgent'[b] = toAgent[b] \/ toAgent'[b] = Append(toAgent[b], y)
      BY <1>2, <2>3
    <3> QED
      BY <1>2, <3>1, <3>2, AppendCopies, ZenonT(60)
  <2> QED
    BY <2>4, <2>5
<1>5. ASSUME NEW s \in Runs, toAgent' = [toAgent EXCEPT ![RunAgent[s]] = Append(@, CancelCmd(s))]
      PROVE  Kept
  <2>1. PICK y \in Message : y = CancelCmd(s) /\ y # x
    <3>1. CancelCmd(s) \in Message
      BY DEF CancelCmd, Message
    <3>2. CancelCmd(s).type = "cancel" /\ x.type = "execute"
      BY <1>1 DEF CancelCmd, Execute
    <3> QED
      BY <3>1, <3>2
  <2>2. toAgent'[b] = toAgent[b] \/ toAgent'[b] = Append(toAgent[b], y)
    BY <1>2, <1>5, <2>1
  <2> QED
    BY <1>2, <2>1, <2>2, AppendCopies, ZenonT(60)
<1>6. ASSUME NEW a \in Agents, toAgent[a] # <<>>, toAgent' = [toAgent EXCEPT ![a] = Tail(@)]
      PROVE  Kept
  <2>1. toAgent'[b] = toAgent[b] \/ (toAgent'[b] = Tail(toAgent[b]) /\ toAgent[b] # <<>>)
    BY <1>2, <1>6
  <2> QED
    BY <1>2, <2>1, TailCopies
<1>7. CASE toAgent'[b] \in {toAgent[b], <<>>, <<Welcome>>}
  <2>1. Welcome # x
    BY <1>1 DEF Welcome, Execute
  <2>2. /\ Missing(<<>>, x) /\ AtMostOnce(<<>>, x)
        /\ Missing(<<Welcome>>, x) /\ AtMostOnce(<<Welcome>>, x)
    BY <2>1 DEF Missing, AtMostOnce
  <2> QED
    BY <1>1, <1>2, <1>7, <2>2
<1>8. \/ UNCHANGED toAgent
      \/ \E p \in Repositories : SendCommand(p)
      \/ \E s \in Runs : toAgent' = [toAgent EXCEPT ![RunAgent[s]] = Append(@, CancelCmd(s))]
      \/ \E a \in Agents : toAgent[a] # <<>> /\ toAgent' = [toAgent EXCEPT ![a] = Tail(@)]
      \/ toAgent'[b] \in {toAgent[b], <<>>, <<Welcome>>}
  <2>1. ASSUME NEW a \in Agents, \/ toAgent' = [toAgent EXCEPT ![a] = <<>>]
                                 \/ toAgent' = [toAgent EXCEPT ![a] = <<Welcome>>]
        PROVE  toAgent'[b] \in {toAgent[b], <<>>, <<Welcome>>}
    BY <1>2, <2>1
  <2>2. toAgent' = [a \in Agents |-> <<>>] => toAgent'[b] \in {toAgent[b], <<>>, <<Welcome>>}
    OBVIOUS
  <2> QED
    BY <2>1, <2>2, ToAgentSteps DEF ToAgentStep
<1> QED
  BY <1>1, <1>3, <1>4, <1>5, <1>6, <1>7, <1>8

\* Every step keeps the command of an unsafe run in one place.
LEMMA UnsafeInvStep == ASSUME DispatchInv, UnsafeInv, WorkInv, Next PROVE UnsafeInv'
<1> SUFFICES ASSUME NEW r \in Runs \ Retryable
    PROVE
    /\ status'[r] \in {"absent", "queued"} =>
         ~(job'[RunRepository[r]] = r /\ pc'[RunRepository[r]] = "send")
    /\ AtMostOnce(toAgent'[RunAgent[r]], Execute(r))
    /\ Fresh(r)' \/ Looked(r)' \/ agentRun'[r] # "none" \/ starts'[r] # 0
         => Missing(toAgent'[RunAgent[r]], Execute(r))
    /\ Fresh(r)' => ~Looked(r)'
    /\ Fresh(r)' \/ Looked(r)' => agentRun'[r] = "none"
    /\ Fresh(r)' \/ Looked(r)' \/ agentRun'[r] = "waiting" => starts'[r] = 0
    /\ starts'[r] <= 1
  BY DEF UnsafeInv
<1>1. /\ AgentTypes /\ ExecuteInv /\ RunAgent[r] \in Agents /\ r # NoRun
  BY DispatchAssumption DEF DispatchInv, Types
<1>2. Fresh(r)' => Fresh(r)
  BY FreshBefore
<1>3. status'[r] \in {"absent", "queued"} =>
         ~(job'[RunRepository[r]] = r /\ pc'[RunRepository[r]] = "send")
  <2>1. status'[r] \in {"absent", "queued"} => Fresh(r)'
    BY DEF Fresh
  <2> QED
    BY <2>1, FreshBefore
<1>4. AtMostOnce(toAgent'[RunAgent[r]], Execute(r))
  BY CommandBox
<1> DEFINE Rest ==
      /\ Fresh(r)' \/ Looked(r)' \/ agentRun'[r] # "none" \/ starts'[r] # 0
           => Missing(toAgent'[RunAgent[r]], Execute(r))
      /\ Fresh(r)' => ~Looked(r)'
      /\ Fresh(r)' \/ Looked(r)' => agentRun'[r] = "none"
      /\ Fresh(r)' \/ Looked(r)' \/ agentRun'[r] = "waiting" => starts'[r] = 0
      /\ starts'[r] <= 1
<1>5. CASE Fresh(r) /\ ~Fresh(r)' /\ UNCHANGED <<agentRun, starts, looking>>
  BY <1>1, <1>3, <1>4, <1>5 DEF UnsafeInv, Looked, AgentTypes
<1>6. SUFFICES ASSUME Missing(toAgent[RunAgent[r]], Execute(r)) => Missing(toAgent'[RunAgent[r]], Execute(r))
      PROVE  Rest
  BY <1>3, <1>4, <1>5, CommandBox
<1>7. CASE /\ agentRun'[r] \in {agentRun[r], "none"} /\ starts'[r] = starts[r]
           /\ Looked(r)' => Looked(r)
  BY <1>2, <1>6, <1>7 DEF UnsafeInv
<1>8. ASSUME NEW a \in Agents, CacheMiss(a) PROVE Rest
  <2>1. AgentReceive(a, "execute") /\ UNCHANGED <<agentRun, starts>>
    BY <1>8 DEF CacheMiss, histVars
  <2>2. PICK x \in Runs : /\ x = Head(toAgent[a]).run /\ RunAgent[x] = a
                          /\ Head(toAgent[a]) = Execute(x)
    BY <2>1, ExecuteFacts
  <2>3. looking' = [looking EXCEPT ![a] = x]
    BY <1>8, <2>2 DEF CacheMiss
  <2>4. CASE x # r
    BY <1>1, <1>7, <2>1, <2>2, <2>3, <2>4 DEF Looked, AgentTypes
  <2>5. CASE x = r
    <3>1. /\ toAgent[a] \in Seq(Message) /\ toAgent[a] # <<>> /\ DOMAIN toAgent = Agents
          /\ toAgent' = [toAgent EXCEPT ![a] = Tail(@)]
      BY <2>1 DEF AgentReceive, DispatchInv, MailInv
    <3>2. ~Missing(toAgent[a], Execute(r))
      <4>1. Execute(r) = toAgent[a][1] /\ 1 \in DOMAIN toAgent[a]
        BY <2>2, <2>5, <3>1, TakeHead
      <4> QED
        BY <4>1 DEF Missing
    <3>3. ~Fresh(r) /\ starts[r] = 0 /\ agentRun[r] = "none"
      BY <2>2, <2>5, <3>2 DEF UnsafeInv
    <3>4. Missing(Tail(toAgent[a]), Execute(r))
      BY <2>2, <2>5, <3>1, TailCopies DEF UnsafeInv
    <3> QED
      BY <1>2, <2>1, <2>2, <2>5, <3>1, <3>3, <3>4
  <2> QED
    BY <2>4, <2>5
<1>9. ASSUME NEW a \in Agents, looking' = [looking EXCEPT ![a] = NoRun]
      PROVE  Looked(r)' => Looked(r)
  BY <1>1, <1>9 DEF Looked, AgentTypes
<1>10. ASSUME NEW a \in Agents, AcceptCommand(a) PROVE Rest
  <2>1. /\ agentRun' = [agentRun EXCEPT ![looking[a]] = "waiting"]
        /\ looking' = [looking EXCEPT ![a] = NoRun]
        /\ looking[a] # NoRun /\ UNCHANGED starts
    BY <1>10 DEF AcceptCommand, Return, histVars
  <2>2. CASE looking[a] = r
    <3>1. RunAgent[r] = a /\ Looked(r) /\ ~Looked(r)'
      BY <1>1, <2>1, <2>2 DEF ExecuteInv, RunsAt, Looked, AgentTypes
    <3>2. ~Fresh(r) /\ starts[r] = 0 /\ Missing(toAgent[RunAgent[r]], Execute(r))
      BY <3>1 DEF UnsafeInv
    <3> QED
      BY <1>2, <1>6, <2>1, <3>1, <3>2
  <2>3. CASE looking[a] # r
    BY <1>1, <1>7, <1>9, <2>1, <2>3 DEF AgentTypes
  <2> QED
    BY <2>2, <2>3
<1>11. ASSUME NEW s \in Runs, StartPipeline(s) PROVE Rest
  <2>1. UNCHANGED looking
    BY <1>11 DEF StartPipeline
  <2>2. CASE s = r
    <3>1. /\ agentRun[r] = "waiting" /\ agentRun'[r] = "executing" /\ starts'[r] = starts[r] + 1
      BY <1>1, <1>11, <2>2 DEF StartPipeline, AgentTypes
    <3> QED
      BY <1>2, <1>6, <2>1, <3>1 DEF UnsafeInv, Looked
  <2>3. CASE s # r
    BY <1>1, <1>7, <1>11, <2>1, <2>3 DEF StartPipeline, Looked, AgentTypes
  <2> QED
    BY <2>2, <2>3
<1>12. ASSUME NEW s \in Runs, NEW step \in RunnerStates \ {"waiting", "executing"},
              agentRun[s] # "none", agentRun' = [agentRun EXCEPT ![s] = step],
              UNCHANGED <<starts, looking>>
       PROVE  Rest
  <2>1. CASE s = r
    <3>1. agentRun'[r] = step /\ starts'[r] = starts[r] /\ Looked(r)' = Looked(r)
      BY <1>1, <1>12, <2>1 DEF Looked, AgentTypes
    <3> QED
      BY <1>2, <1>6, <1>12, <2>1, <3>1 DEF UnsafeInv
  <2>2. CASE s # r
    BY <1>1, <1>7, <1>12, <2>2 DEF Looked, AgentTypes
  <2> QED
    BY <2>1, <2>2
<1>13. ASSUME NEW a \in Agents, AgentRestart(a) PROVE Rest
  BY <1>1, <1>7, <1>9, <1>13 DEF AgentRestart, AgentTypes
<1>14. CASE UNCHANGED <<agentRun, starts, looking>>
  BY <1>7, <1>14 DEF Looked
<1>15. ASSUME NEW a \in Agents, looking' = [looking EXCEPT ![a] = NoRun], UNCHANGED <<agentRun, starts>>
       PROVE  Rest
  BY <1>7, <1>9, <1>15
<1> QED
  BY <1>8, <1>10, <1>11, <1>12, <1>13, <1>14, <1>15, AgentRunSteps DEF AgentRunStep

\* Both invariants hold in every behaviour.
LEMMA UnsafeHolds == Spec => [](WorkInv /\ UnsafeInv)
<1>1. Init => WorkInv /\ UnsafeInv
  <2> SUFFICES ASSUME Init PROVE WorkInv /\ UnsafeInv
    OBVIOUS
  <2>1. \A r \in Runs : RunRepository[r] \in Repositories /\ RunAgent[r] \in Agents
    BY DispatchAssumption
  <2>2. \A x : Missing(<<>>, x) /\ AtMostOnce(<<>>, x)
    BY DEF Missing, AtMostOnce
  <2>3. WorkInv
    BY DEF Init, WorkInv
  <2>4. UnsafeInv
    BY <2>1, <2>2, DispatchAssumption DEF Init, UnsafeInv, Looked
  <2> QED
    BY <2>3, <2>4
<1>2. DispatchInv /\ WorkInv /\ UnsafeInv /\ [Next]_vars => WorkInv' /\ UnsafeInv'
  <2>1. WorkInv /\ UnsafeInv /\ UNCHANGED vars => WorkInv' /\ UnsafeInv'
    BY DEF WorkInv, UnsafeInv, Fresh, Looked, vars, dbVars, queueVars, netVars, agentVars, histVars
  <2> QED
    BY <2>1, WorkInvStep, UnsafeInvStep
<1> QED
  BY <1>1, <1>2, DispatchInvHolds, PTL DEF Spec

\* An operation that is not retry-safe starts at most once, whatever is lost,
\* repeated, reordered or restarted (processJob, checkTimeouts, handleDisconnect,
\* recoverStaleRuns).
THEOREM UnsafeRunsStartOnce == Spec => []AtMostOneStart
<1>1. UnsafeInv => AtMostOneStart
  BY DEF UnsafeInv, AtMostOneStart
<1> QED
  BY <1>1, UnsafeHolds, PTL

-----------------------------------------------------------------------------
(* One active run of a repository.                                          *)

\* The worker of its repository holds the run, past the claim.
Held(r) == job[RunRepository[r]] = r /\ pc[RunRepository[r]] \in {"send", "poll"}

\* A run with the agent is held by its worker, or was listed at startup and is
\* about to be ended; before the server serves, nothing is claimed.
ExclusiveInv ==
  /\ server = "recovering" => /\ \A a \in Agents : ~conn[a]
                              /\ \A p \in Repositories : pc[p] \notin {"claim", "send", "poll"}
  /\ \A r \in Runs : startup[r] # "none" => server = "recovering"
  /\ \A r \in ActiveRuns \ letGo : Held(r) \/ startup[r] = status[r]
  /\ OneActiveRunPerRepository

\* How the restart's variables change.
StartupStep ==
  /\ \/ UNCHANGED startup
     \/ \E r \in Runs : RecoverStaleRun(r)
     \/ ServerCrash
  /\ \/ UNCHANGED server
     \/ StartServing
     \/ ServerCrash
  /\ \/ UNCHANGED conn
     \/ \E a \in Agents : conn' = [conn EXCEPT ![a] = FALSE]
     \/ server = "serving"
     \/ ServerCrash
  /\ \/ UNCHANGED letGo
     \/ \E p \in Repositories : WorkerNext(p)

\* Every step changes them in one of these ways.
LEMMA StartupSteps == ASSUME Next PROVE StartupStep
<1>1. CASE \E p \in Repositories : WorkerNext(p)
  BY <1>1, WorkerLeavesLists DEF StartupStep
<1>2. CASE \E r \in Runs : WatchdogNext(r) \/ ServerNext(r)
  <2>1. /\ UNCHANGED server
        /\ UNCHANGED startup \/ \E r \in Runs : RecoverStaleRun(r)
    BY <1>2 DEF WatchdogNext, ServerNext, RecoverQueuedRun, ExpireRun, TimeoutCancel, TimeoutFail,
         CreateRun, EnqueueCreated, CancelRead, CancelCommit, FailStaleQueued, DisconnectRun,
         RecoverStaleRun, EnqueueAtStartup, LeaseRunsOut, LeaseRunsOutEarly, listVars
  <2>2. UNCHANGED <<conn, letGo>>
    BY <1>2, ServerLeavesAgents
  <2> QED
    BY <2>1, <2>2 DEF StartupStep
<1>3. CASE \E a \in Agents : StreamNext(a)
  <2>1. UNCHANGED <<startup, server, letGo>>
    BY <1>3 DEF StreamNext, HandleAccepted, HandleResult, HandlerFails, Heartbeat, LinkBreaks,
              StreamEnds, DisconnectList, Reconnect, listVars, histVars
  <2>2. \/ UNCHANGED conn
        \/ \E a \in Agents : conn' = [conn EXCEPT ![a] = FALSE]
        \/ server = "serving"
    BY <1>3 DEF StreamNext, HandleAccepted, HandleResult, HandlerFails, Heartbeat, LinkBreaks,
              StreamEnds, DisconnectList, Reconnect, netVars
  <2> QED
    BY <2>1, <2>2 DEF StartupStep
<1>4. CASE \/ \E a \in Agents : AgentNext(a)
           \/ \E r \in Runs : RunnerNext(r)
  BY <1>4, AgentLeavesServer DEF StartupStep
<1>5. CASE \E late \in SUBSET MayTimeOut : WatchdogTick(late)
  BY <1>5 DEF WatchdogTick, netVars, histVars, StartupStep
<1>6. CASE ServerCrash \/ StartServing
  BY <1>6 DEF ServerCrash, StartServing, listVars, netVars, histVars, StartupStep
<1> QED
  BY <1>1, <1>2, <1>3, <1>4, <1>5, <1>6 DEF Next

\* Only a claim makes a run active, and only an acceptance moves an active run
\* to another active state.
LEMMA ActiveBefore ==
  ASSUME DispatchInv, Next, NEW r \in Runs, r \in ActiveRuns'
  PROVE  \/ \E p \in Repositories : Claim(p) /\ job[p] = r
         \/ r \in ActiveRuns /\ (status'[r] = status[r] \/ conn[RunAgent[r]])
<1>1. RowTypes
  BY DEF DispatchInv, Types
<1>2. status'[r] \in {"dispatched", "running"}
  BY DEF ActiveRuns
<1> QED
  BY <1>1, <1>2, RowSteps DEF RowStep, Moves, RowTypes, ActiveRuns

\* A worker lets an active run go only where letGo says so.
LEMMA WorkerHolds ==
  ASSUME DispatchInv, ExclusiveInv, NEW p \in Repositories, WorkerNext(p), Next,
         NEW r \in Runs, r \in ActiveRuns', r \notin letGo'
  PROVE  Held(r)' \/ startup'[r] = status'[r]
<1>1. WorkerInv /\ RowTypes /\ RunRepository[r] \in Repositories /\ r # NoRun
  BY DispatchAssumption DEF DispatchInv, Types
<1>2. startup' = startup /\ letGo \subseteq letGo'
  <2>1. letGo \subseteq letGo'
    BY DEF WorkerNext, Pop, MarkProcessing, CheckConnected, Claim, ClaimBusy, BuildFails, SendCommand,
           SendFails, RevertBusy, Poll, GetRunFails, RequeueJob, histVars
  <2> QED
    BY <2>1, WorkerLeavesLists
<1>3. ASSUME job[p] # r PROVE Held(r)' \/ startup'[r] = status'[r]
  <2>1. status'[r] = status[r]
    <3>1. CASE Claim(p) \/ BuildFails(p) \/ SendFails(p)
      BY <1>1, <1>3, <3>1 DEF Claim, BuildFails, SendFails, TransitionRun, RowTypes
    <3> QED
      BY <3>1 DEF WorkerNext, Pop, MarkProcessing, CheckConnected, ClaimBusy, SendCommand,
                  RevertBusy, Poll, GetRunFails, RequeueJob, dbVars
  <2>2. r \in ActiveRuns \ letGo
    BY <1>2, <2>1 DEF ActiveRuns
  <2>3. Held(r) => RunRepository[r] # p
    BY <1>3 DEF Held
  <2>4. Held(r) => Held(r)'
    BY <1>1, <2>3, OtherWorkers DEF Held
  <2> QED
    BY <1>2, <2>1, <2>2, <2>4 DEF ExclusiveInv
<1>4. ASSUME job[p] = r PROVE Held(r)' \/ startup'[r] = status'[r]
  <2>1. RunRepository[r] = p /\ pc[p] # "idle" /\ DOMAIN pc = Repositories /\ DOMAIN job = Repositories
    BY <1>1, <1>4 DEF WorkerInv
  <2>2. ASSUME status'[r] = status[r], pc[p] \notin {"send", "poll"}
        PROVE  startup'[r] = status'[r]
    <3>1. r \in ActiveRuns \ letGo
      BY <1>2, <2>2 DEF ActiveRuns
    <3>2. ~Held(r)
      BY <2>1, <2>2 DEF Held
    <3> QED
      BY <1>2, <2>2, <3>1, <3>2 DEF ExclusiveInv
  <2>3. CASE MarkProcessing(p) \/ CheckConnected(p) \/ ClaimBusy(p) \/ RequeueJob(p)
    BY <2>2, <2>3 DEF MarkProcessing, CheckConnected, ClaimBusy, RequeueJob, WorkerAt, dbVars
  <2>4. CASE Claim(p)
    <3>1. CASE CanTransition(status[r], "queued", "dispatched")
      BY <1>4, <2>1, <2>4, <3>1 DEF Claim, GoTo, Held
    <3>2. CASE ~CanTransition(status[r], "queued", "dispatched")
      BY <1>4, <2>2, <2>4, <3>2 DEF Claim, TransitionRun, WorkerAt
    <3> QED
      BY <3>1, <3>2
  <2>5. CASE SendCommand(p)
    BY <1>4, <2>1, <2>5 DEF SendCommand, GoTo, Held
  <2>6. CASE BuildFails(p) \/ SendFails(p)
    BY <1>4, <2>6 DEF BuildFails, SendFails
  <2>7. CASE RevertBusy(p) \/ GetRunFails(p)
    <3>1. r \in ActiveRuns
      BY <2>7 DEF RevertBusy, GetRunFails, dbVars, ActiveRuns
    <3> QED
      BY <1>4, <2>7, <3>1 DEF RevertBusy, GetRunFails
  <2>8. CASE Poll(p)
    BY <1>4, <2>8 DEF Poll, dbVars, ActiveRuns, Terminal
  <2>9. ~Pop(p)
    BY <2>1 DEF Pop, WorkerAt
  <2> QED
    BY <2>3, <2>4, <2>5, <2>6, <2>7, <2>8, <2>9 DEF WorkerNext
<1> QED
  BY <1>3, <1>4

\* Every step keeps the exclusion.
LEMMA ExclusiveInvStep == ASSUME DispatchInv, ExclusiveInv, Next PROVE ExclusiveInv'
<1>1. /\ WorkerInv /\ RowTypes /\ ListTypes
      /\ \A r \in Runs : RunRepository[r] \in Repositories /\ RunAgent[r] \in Agents
  BY DispatchAssumption DEF DispatchInv, Types
<1>2. CASE ServerCrash
  <2>1. /\ \A r \in Runs : r \in ActiveRuns' => startup'[r] = status'[r]
        /\ ActiveRuns' = ActiveRuns /\ letGo' = letGo
    BY <1>2 DEF ServerCrash, ActiveRuns, dbVars, histVars
  <2>2. OneActiveRunPerRepository'
    BY <2>1 DEF OneActiveRunPerRepository, ExclusiveInv
  <2>3. /\ server' = "recovering" /\ \A a \in Agents : ~conn'[a]
        /\ \A p \in Repositories : pc'[p] = "idle"
    BY <1>2 DEF ServerCrash
  <2>4. ActiveRuns' \subseteq Runs
    BY DEF ActiveRuns
  <2> QED
    BY <2>1, <2>2, <2>3, <2>4 DEF ExclusiveInv
<1>3. SUFFICES ASSUME ~ServerCrash PROVE ExclusiveInv'
  BY <1>2
<1>4. server' = "recovering" => server = "recovering"
  BY <1>3, StartupSteps DEF StartupStep, StartServing
<1>5. server' = "recovering" => \A a \in Agents : ~conn'[a]
  BY <1>1, <1>3, <1>4, StartupSteps DEF StartupStep, ExclusiveInv, ListTypes
<1>6. ASSUME server' = "recovering", NEW p \in Repositories
      PROVE  pc'[p] \notin {"claim", "send", "poll"}
  <2>1. pc[p] \notin {"claim", "send", "poll"} /\ \A a \in Agents : ~conn[a]
    BY <1>4, <1>6 DEF ExclusiveInv
  <2>2. CASE pc'[p] = pc[p]
    BY <2>1, <2>2
  <2>3. CASE WorkerNext(p)
    <3>1. CASE CheckConnected(p)
      <4>1. job[p] \in Runs /\ RunAgent[job[p]] \in Agents /\ DOMAIN pc = Repositories
        BY <1>1, <3>1 DEF CheckConnected, WorkerAt, WorkerInv
      <4> QED
        BY <2>1, <3>1, <4>1 DEF CheckConnected, GoTo
    <3> QED
      BY <1>1, <2>1, <2>3, <3>1
         DEF WorkerNext, Pop, MarkProcessing, Claim, ClaimBusy, BuildFails, SendCommand,
             SendFails, RevertBusy, Poll, GetRunFails, RequeueJob, GoTo, DropJob, WorkerAt, WorkerInv
  <2>4. ASSUME NEW q \in Repositories, WorkerNext(q), q # p PROVE pc'[p] = pc[p]
    BY <1>1, <2>4, OtherWorkers
  <2> QED
    BY <1>3, <2>2, <2>3, <2>4, QueueSteps DEF queueVars, Added
<1>7. ASSUME NEW r \in Runs, startup'[r] # "none" PROVE server' = "recovering"
  <2>1. startup[r] # "none"
    <3>1. CASE UNCHANGED startup
      BY <1>7, <3>1
    <3>2. ASSUME NEW s \in Runs, RecoverStaleRun(s) PROVE startup[r] # "none"
      BY <1>1, <1>7, <3>2 DEF RecoverStaleRun, ListTypes
    <3> QED
      BY <1>3, <3>1, <3>2, StartupSteps DEF StartupStep
  <2>2. server = "recovering" /\ ~StartServing
    BY <2>1 DEF ExclusiveInv, StartServing
  <2> QED
    BY <1>3, <2>2, StartupSteps DEF StartupStep
<1>8. ASSUME NEW r \in Runs, r \in ActiveRuns', r \notin letGo'
      PROVE  Held(r)' \/ startup'[r] = status'[r]
  <2>1. CASE \E p \in Repositories : WorkerNext(p)
    BY <1>8, <2>1, WorkerHolds
  <2>2. CASE ~\E p \in Repositories : WorkerNext(p)
    <3>1. UNCHANGED <<pc, job, letGo>>
      BY <1>3, <2>2, QueueSteps, StartupSteps DEF queueVars, Added, StartupStep
    <3>2. r \in ActiveRuns /\ (status'[r] = status[r] \/ conn[RunAgent[r]])
      BY <1>8, <2>2, ActiveBefore DEF WorkerNext
    <3>3. CASE Held(r)
      BY <3>1, <3>3 DEF Held
    <3>4. CASE ~Held(r)
      <4>1. startup[r] = status[r] /\ status[r] \in {"dispatched", "running"}
        BY <1>8, <3>1, <3>2, <3>4 DEF ExclusiveInv, ActiveRuns
      <4>2. ~conn[RunAgent[r]]
        BY <1>1, <4>1 DEF ExclusiveInv
      <4>3. ~RecoverStaleRun(r)
        BY <1>1, <1>8, <4>1 DEF RecoverStaleRun, Abandon, TransitionRun, CanTransition, validTransitions,
                       RunStatuses, Terminal, ActiveRuns, RowTypes
      <4>4. startup'[r] = startup[r]
        <5>1. ASSUME NEW s \in Runs, RecoverStaleRun(s) PROVE startup'[r] = startup[r]
          BY <1>1, <4>3, <5>1 DEF RecoverStaleRun, ListTypes
        <5> QED
          BY <1>3, <5>1, StartupSteps DEF StartupStep
      <4> QED
        BY <3>2, <4>1, <4>2, <4>4
    <3> QED
      BY <3>3, <3>4
  <2> QED
    BY <2>1, <2>2
<1>9. OneActiveRunPerRepository'
  <2> SUFFICES ASSUME NEW r \in Runs, NEW s \in Runs, r \in ActiveRuns', s \in ActiveRuns',
                      r \notin letGo', s \notin letGo', RunRepository[r] = RunRepository[s]
               PROVE  r = s
    BY DEF OneActiveRunPerRepository, ActiveRuns
  <2>1. CASE server' = "recovering"
    <3>1. server = "recovering" /\ \A p \in Repositories : ~Claim(p)
      BY <1>4, <2>1 DEF ExclusiveInv, Claim, WorkerAt
    <3>2. r \in ActiveRuns /\ s \in ActiveRuns
      BY <3>1, ActiveBefore
    <3>3. letGo \subseteq letGo'
      <4>1. ASSUME NEW p \in Repositories, WorkerNext(p) PROVE letGo \subseteq letGo'
        BY <4>1 DEF WorkerNext, Pop, MarkProcessing, CheckConnected, Claim, ClaimBusy, BuildFails, SendCommand,
               SendFails, RevertBusy, Poll, GetRunFails, RequeueJob, histVars
      <4> QED
        BY <4>1, StartupSteps DEF StartupStep
    <3> QED
      BY <3>2, <3>3 DEF ExclusiveInv, OneActiveRunPerRepository
  <2>2. CASE server' # "recovering"
    <3>1. startup'[r] = "none" /\ startup'[s] = "none"
      BY <1>7, <2>2
    <3>2. status'[r] # "none" /\ status'[s] # "none"
      BY DEF ActiveRuns
    <3>3. Held(r)' /\ Held(s)'
      BY <1>8, <3>1, <3>2
    <3> QED
      BY <3>3 DEF Held
  <2> QED
    BY <2>1, <2>2
<1>10. ActiveRuns' \subseteq Runs
  BY DEF ActiveRuns
<1> QED
  BY <1>5, <1>6, <1>7, <1>8, <1>9, <1>10 DEF ExclusiveInv

\* Commands of one repository are serialised (processJob): two rows of a
\* repository are dispatched or running together only after a worker let go of
\* one of them on an error.
THEOREM RepositoryRunsExcludeEachOther == Spec => []OneActiveRunPerRepository
<1>1. Init => ExclusiveInv
  BY DEF Init, ExclusiveInv, ActiveRuns, OneActiveRunPerRepository
<1>2. DispatchInv /\ ExclusiveInv /\ [Next]_vars => ExclusiveInv'
  <2>1. ExclusiveInv /\ UNCHANGED vars => ExclusiveInv'
    BY DEF ExclusiveInv, Held, ActiveRuns, OneActiveRunPerRepository, vars, dbVars, queueVars, listVars,
           netVars, histVars
  <2> QED
    BY <2>1, ExclusiveInvStep
<1>3. ExclusiveInv => OneActiveRunPerRepository
  BY DEF ExclusiveInv
<1> QED
  BY <1>1, <1>2, <1>3, DispatchInvHolds, PTL DEF Spec

-----------------------------------------------------------------------------
(* What a redelivery costs.                                                 *)

\* What a sequence holds.
Elems(q) == {q[j] : j \in DOMAIN q}

\* The elements of a sequence that is put together from two.
LEMMA Joined ==
  ASSUME NEW S, NEW x \in Seq(S), NEW y \in Seq(S)
  PROVE  x \o y \in Seq(S) /\ Elems(x \o y) = Elems(x) \cup Elems(y)
<1>1. PICK z \in Seq(S) : z = x \o y
  BY ConcatProperties
<1>2. /\ Len(z) = Len(x) + Len(y) /\ Len(x) \in Nat /\ Len(y) \in Nat
      /\ DOMAIN z = 1 .. Len(z) /\ DOMAIN x = 1 .. Len(x) /\ DOMAIN y = 1 .. Len(y)
      /\ \A j \in DOMAIN x : z[j] = x[j]
      /\ \A j \in DOMAIN y : z[Len(x) + j] = y[j]
      /\ \A j \in DOMAIN z : j > Len(x) => z[j] = y[j - Len(x)]
  BY <1>1, ConcatProperties
<1>3. ASSUME NEW j \in DOMAIN z PROVE z[j] \in Elems(x) \cup Elems(y)
  <2>1. CASE j <= Len(x)
    <3>1. j \in DOMAIN x
      BY <1>2, <2>1
    <3> QED
      BY <1>2, <3>1 DEF Elems
  <2>2. CASE j > Len(x)
    <3>1. j - Len(x) \in DOMAIN y
      BY <1>2, <2>2
    <3> QED
      BY <1>2, <2>2, <3>1 DEF Elems
  <2> QED
    BY <1>2, <2>1, <2>2
<1>4. ASSUME NEW j \in DOMAIN x PROVE x[j] \in Elems(z)
  <2>1. j \in DOMAIN z
    BY <1>2
  <2> QED
    BY <1>2, <2>1 DEF Elems
<1>5. ASSUME NEW j \in DOMAIN y PROVE y[j] \in Elems(z)
  <2>1. Len(x) + j \in DOMAIN z
    BY <1>2
  <2> QED
    BY <1>2, <2>1 DEF Elems
<1>6. Elems(z) = Elems(x) \cup Elems(y)
  BY <1>3, <1>4, <1>5 DEF Elems
<1> QED
  BY <1>1, <1>6

\* The elements of a part of a sequence.
LEMMA Part ==
  ASSUME NEW S, NEW s \in Seq(S), NEW m \in 1 .. Len(s) + 1, NEW n \in 0 .. Len(s)
  PROVE  SubSeq(s, m, n) \in Seq(S) /\ Elems(SubSeq(s, m, n)) = {s[k] : k \in m .. n}
<1>1. m \in Int /\ n \in Int /\ \A k \in m .. n : s[k] \in S
  OBVIOUS
<1>2. PICK x \in Seq(S) : x = SubSeq(s, m, n)
  BY <1>1, SubSeqProperties, Zenon
<1>3. /\ DOMAIN x = 1 .. Len(x) /\ Len(x) = (IF m <= n THEN n - m + 1 ELSE 0)
      /\ \A j \in 1 .. n - m + 1 : x[j] = s[m + j - 1]
  BY <1>1, <1>2, SubSeqProperties
<1>4. ASSUME NEW j \in DOMAIN x PROVE x[j] \in {s[k] : k \in m .. n}
  <2>1. m + j - 1 \in m .. n /\ s[m + j - 1] = x[j]
    BY <1>3, <1>4
  <2> QED
    BY <2>1
<1>5. ASSUME NEW k \in m .. n PROVE s[k] \in Elems(x)
  <2>1. k - m + 1 \in DOMAIN x /\ m + (k - m + 1) - 1 = k
    BY <1>3
  <2>2. x[k - m + 1] = s[k]
    BY <1>3, <2>1
  <2> QED
    BY <2>1, <2>2 DEF Elems
<1>6. Elems(x) = {s[k] : k \in m .. n}
  BY <1>4, <1>5 DEF Elems
<1> QED
  BY <1>2, <1>6

\* A sequence of results holds one of the run.
Holds(q, r) == \E e \in Elems(q) : e.run = r

\* A sequence without one of its elements.
Without(s, i) == SubSeq(s, 1, i - 1) \o SubSeq(s, i + 1, Len(s))

\* Taking one result out of the cache.
LEMMA TakenOut ==
  ASSUME NEW S, NEW s \in Seq(S), NEW i \in DOMAIN s
  PROVE  /\ Without(s, i) \in Seq(S)
         /\ \A r : Holds(Without(s, i), r) => Holds(s, r)
         /\ \A r : Holds(s, r) /\ s[i].run # r => Holds(Without(s, i), r)
<1>1. PICK n \in Nat : n = Len(s) /\ DOMAIN s = 1 .. n
  OBVIOUS
<1>2. PICK h, k : h = i - 1 /\ k = i + 1
  OBVIOUS
<1>3. /\ 1 \in 1 .. Len(s) + 1 /\ h \in 0 .. Len(s)
      /\ k \in 1 .. Len(s) + 1 /\ n \in 0 .. Len(s)
      /\ 1 .. n = (1 .. h) \cup {i} \cup (k .. n)
  BY <1>1, <1>2
<1>4. PICK x, y : x = SubSeq(s, 1, h) /\ y = SubSeq(s, k, n)
  OBVIOUS
<1>5. x \in Seq(S) /\ Elems(x) = {s[j] : j \in 1 .. h}
  BY <1>3, <1>4, Part, Zenon
<1>6. y \in Seq(S) /\ Elems(y) = {s[j] : j \in k .. n}
  BY <1>3, <1>4, Part, Zenon
<1>7. x \o y \in Seq(S) /\ Elems(x \o y) = Elems(x) \cup Elems(y)
  <2>1. x \in Seq(S) /\ y \in Seq(S)
    BY <1>5, <1>6
  <2> QED
    BY <2>1, Joined, ZenonT(60)
<1>8. PICK t : t = x \o y /\ t = Without(s, i)
  BY <1>1, <1>2, <1>4 DEF Without
<1>9. Elems(s) = Elems(t) \cup {s[i]}
  <2>1. Elems(s) = {s[j] : j \in 1 .. n}
    BY <1>1 DEF Elems
  <2>2. Elems(t) = {s[j] : j \in 1 .. h} \cup {s[j] : j \in k .. n}
    BY <1>5, <1>6, <1>7, <1>8
  <2> QED
    BY <1>3, <2>1, <2>2
<1> QED
  BY <1>7, <1>8, <1>9 DEF Holds

\* Putting one in front.
LEMMA PutInFront ==
  ASSUME NEW S, NEW t \in Seq(S), NEW m \in S
  PROVE  \A r : Holds(<<m>> \o t, r) <=> m.run = r \/ Holds(t, r)
<1>1. PICK x \in Seq(S) : x = <<m>> /\ DOMAIN x = {1} /\ x[1] = m
  <2>1. <<m>> \in Seq(S) /\ DOMAIN <<m>> = {1} /\ <<m>>[1] = m
    OBVIOUS
  <2> QED
    BY <2>1
<1>2. Elems(x \o t) = Elems(x) \cup Elems(t)
  BY Joined, ZenonT(60)
<1>3. Elems(x) = {m}
  BY <1>1 DEF Elems
<1> QED
  BY <1>1, <1>2, <1>3 DEF Holds

\* A cached result that is read stays, and so do the others.
LEMMA ReadKeeps ==
  ASSUME NEW a \in Agents, NEW S, finished[a] \in Seq(S), NEW r, Cached(a, r) # {}
  PROVE  \A x : Holds(MoveToFront(a, r), x) <=> Holds(finished[a], x)
<1>1. PICK i \in Cached(a, r) : i = CHOOSE j \in Cached(a, r) : TRUE
  OBVIOUS
<1>2. PICK s \in Seq(S) : s = finished[a]
  OBVIOUS
<1>3. i \in DOMAIN s /\ s[i].run = r
  BY <1>1, <1>2 DEF Cached
<1>4. s[i] \in S /\ s[i] \in Elems(s)
  BY <1>3 DEF Elems
<1>5. PICK t : t = Without(s, i)
  OBVIOUS
<1>6. MoveToFront(a, r) = <<s[i]>> \o t
  BY <1>1, <1>2, <1>5, Zenon DEF MoveToFront, CachedResult, Uncached, Without
<1>7. /\ t \in Seq(S)
      /\ \A x : Holds(t, x) => Holds(s, x)
      /\ \A x : Holds(s, x) /\ s[i].run # x => Holds(t, x)
  BY <1>3, <1>5, TakenOut, Zenon
<1>8. \A x : Holds(<<s[i]>> \o t, x) <=> s[i].run = x \/ Holds(t, x)
  BY <1>4, <1>7, PutInFront, Zenon
<1>9. Holds(s, s[i].run)
  BY <1>4 DEF Holds
<1> QED
  BY <1>2, <1>6, <1>7, <1>8, <1>9

\* A result that is put is held, and one that is no longer held was evicted.
LEMMA PutKeeps ==
  ASSUME NEW a \in Agents, NEW S, finished[a] \in Seq(S), NEW m \in S
  PROVE  /\ Holds(CachePut(a, m), m.run)
         /\ \A x : Holds(CachePut(a, m), x) => m.run = x \/ Holds(finished[a], x)
         /\ \A x : Holds(finished[a], x)
              => \/ Holds(CachePut(a, m), x)
                 \/ Evicts(a, m.run) /\ x = finished[a][Len(finished[a])].run
<1>1. PICK s \in Seq(S), n \in Nat : s = finished[a] /\ n = Len(s) /\ DOMAIN s = 1 .. n
  OBVIOUS
<1>2. CASE Cached(a, m.run) # {}
  <2>1. PICK i \in Cached(a, m.run) : i = CHOOSE j \in Cached(a, m.run) : TRUE
    BY <1>2
  <2>2. i \in DOMAIN s /\ s[i].run = m.run
    BY <1>1, <2>1 DEF Cached
  <2>3. PICK t : t = Without(s, i)
    OBVIOUS
  <2>4. CachePut(a, m) = <<m>> \o t
    BY <1>1, <1>2, <2>1, <2>3, Zenon DEF CachePut, Uncached, Without
  <2>5. /\ t \in Seq(S)
        /\ \A x : Holds(t, x) => Holds(s, x)
        /\ \A x : Holds(s, x) /\ s[i].run # x => Holds(t, x)
    BY <2>2, <2>3, TakenOut, Zenon
  <2>6. \A x : Holds(<<m>> \o t, x) <=> m.run = x \/ Holds(t, x)
    BY <2>5, PutInFront, Zenon
  <2> QED
    BY <1>1, <2>2, <2>4, <2>5, <2>6
<1>3. CASE Evicts(a, m.run)
  <2>1. n >= 1 /\ 1 .. n = (1 .. n - 1) \cup {n}
    BY <1>1, <1>3, DispatchAssumption DEF Evicts
  <2>2. PICK k : k = n - 1
    OBVIOUS
  <2>3. 1 \in 1 .. Len(s) + 1 /\ k \in 0 .. Len(s)
    BY <1>1, <2>1, <2>2
  <2>4. PICK t : t = SubSeq(s, 1, k)
    OBVIOUS
  <2>5. t \in Seq(S) /\ Elems(t) = {s[j] : j \in 1 .. k}
    BY <2>3, <2>4, Part, ZenonT(60)
  <2>6. Elems(s) = Elems(t) \cup {s[n]}
    <3>1. Elems(s) = {s[j] : j \in 1 .. n}
      BY <1>1 DEF Elems
    <3>2. 1 .. n = (1 .. k) \cup {n}
      BY <2>1, <2>2
    <3> QED
      BY <2>5, <3>1, <3>2, ZenonT(60)
  <2>7. CachePut(a, m) = <<m>> \o t
    BY <1>1, <1>3, <2>2, <2>4 DEF CachePut, Evicts
  <2>8. \A x : Holds(<<m>> \o t, x) <=> m.run = x \/ Holds(t, x)
    BY <2>5, PutInFront, Zenon
  <2>9. \A x : Holds(s, x) <=> Holds(t, x) \/ x = s[n].run
    BY <2>6 DEF Holds
  <2> QED
    BY <1>1, <1>3, <2>7, <2>8, <2>9
<1>4. CASE Cached(a, m.run) = {} /\ ~Evicts(a, m.run)
  <2>1. CachePut(a, m) = <<m>> \o s
    BY <1>1, <1>4 DEF CachePut
  <2>2. \A x : Holds(<<m>> \o s, x) <=> m.run = x \/ Holds(s, x)
    BY PutInFront, Zenon
  <2> QED
    BY <1>1, <2>1, <2>2
<1> QED
  BY <1>2, <1>3, <1>4

\* The starts of a run are paid for by restarts, evictions and slips, but for
\* one: that of the pipeline that executes, or of one that ended, whose result
\* is cached until another run's takes its place. Execute, which missed r in the
\* cache before it was put, still finds r registered.
PaidFor(r) == restarts[RunAgent[r]] + evicted[r] + slipped[r]
OnAccount(r) ==
  \/ agentRun[r] = "executing"
  \/ /\ agentRun[r] # "waiting"
     /\ Holds(finished[RunAgent[r]], r)
     /\ Looked(r) => agentRun[r] # "none"

PaidInv ==
  \A r \in Runs : /\ starts[r] <= PaidFor(r) + 1
                  /\ ~OnAccount(r) => starts[r] <= PaidFor(r)

\* What a run costs is left alone.
SameAccount == UNCHANGED <<starts, restarts, evicted, slipped>>

\* How the agents' running maps and caches change together.
CacheStep ==
  \/ UNCHANGED <<agentRun, looking, finished>> /\ SameAccount
  \/ \E a \in Agents : ReplayResult(a)
  \/ \E a \in Agents : CacheMiss(a)
  \/ \E a \in Agents : /\ looking' = [looking EXCEPT ![a] = NoRun]
                       /\ UNCHANGED <<agentRun, finished>> /\ SameAccount
  \/ \E a \in Agents : AcceptCommand(a)
  \/ \E r \in Runs : StartPipeline(r)
  \/ \E r \in Runs, res \in Results, step \in HoldsLock \ {"executing"} :
       /\ PutResult(r, res, step)
       /\ UNCHANGED <<looking, starts, restarts, slipped>>
  \/ \E r \in Runs : SendResult(r) \/ Unregister(r)
  \/ \E a \in Agents : AgentRestart(a)

\* Every step changes them in one of these ways.
LEMMA CacheSteps == ASSUME Next PROVE CacheStep
<1>1. CASE \E p \in Repositories : WorkerNext(p)
  BY <1>1, WorkerLeavesLists DEF agentVars, CacheStep, SameAccount
<1>2. CASE \/ \E r \in Runs : WatchdogNext(r) \/ ServerNext(r)
           \/ \E late \in SUBSET MayTimeOut : WatchdogTick(late)
           \/ StartServing
  BY <1>2, ServerLeavesAgents DEF CacheStep, SameAccount
<1>3. CASE \E a \in Agents : StreamNext(a)
  BY <1>3, ZenonT(60)
          DEF StreamNext, HandleAccepted, HandleResult, HandlerFails, Heartbeat, LinkBreaks,
              StreamEnds, DisconnectList, Reconnect, agentVars, histVars, CacheStep, SameAccount
<1>4. CASE \E a \in Agents : AgentNext(a)
  BY <1>4 DEF AgentNext, ReceiveWelcome, IgnoreDuplicate, AcceptFails, TempDirFails, ReceiveCancel,
              Return, histVars, CacheStep, SameAccount
<1>5. CASE \E r \in Runs : RunnerNext(r)
  <2>1. PICK r \in Runs : RunnerNext(r)
    BY <1>5
  <2>2. ASSUME NEW res \in Results, NEW step \in HoldsLock \ {"executing"}, PutResult(r, res, step),
               UNCHANGED <<looking, starts, restarts, slipped>>
        PROVE  CacheStep
    BY <2>2, Zenon DEF CacheStep
  <2>3. CASE GiveUpWaiting(r)
    <3>1. "cancelled" \in Results /\ "gaveup" \in HoldsLock \ {"executing"}
      BY DEF HoldsLock, Results
    <3> QED
      BY <2>2, <2>3, <3>1 DEF GiveUpWaiting
  <2>4. CASE FinishPipeline(r)
    <3>1. PICK res \in Results : PutResult(r, res, res)
      BY <2>4 DEF FinishPipeline
    <3>2. res \in HoldsLock \ {"executing"}
      BY DEF HoldsLock, HoldsSlot, Results
    <3> QED
      BY <2>2, <2>4, <3>1, <3>2 DEF FinishPipeline
  <2> QED
    BY <2>1, <2>3, <2>4 DEF RunnerNext, CacheStep
<1>6. CASE ServerCrash
  BY <1>6 DEF ServerCrash, agentVars, histVars, CacheStep, SameAccount
<1> QED
  BY <1>1, <1>2, <1>3, <1>4, <1>5, <1>6 DEF Next

\* Every step keeps the account.
LEMMA PaidInvStep == ASSUME DispatchInv, PaidInv, Next PROVE PaidInv'
<1> SUFFICES ASSUME NEW r \in Runs
    PROVE  /\ starts'[r] <= PaidFor(r)' + 1
           /\ ~OnAccount(r)' => starts'[r] <= PaidFor(r)'
  BY DEF PaidInv
<1>1. PICK b \in Agents : b = RunAgent[r] /\ r # NoRun
  BY DispatchAssumption
<1>2. /\ AgentTypes /\ ExecuteInv
      /\ starts[r] \in Nat /\ restarts[b] \in Nat /\ evicted[r] \in Nat /\ slipped[r] \in Nat
      /\ finished \in [Agents -> Seq(Message)]
  BY DEF DispatchInv, Types, AgentTypes, MailInv
<1>3. /\ PaidFor(r) \in Nat /\ PaidFor(r) = restarts[b] + evicted[r] + slipped[r]
      /\ starts[r] <= PaidFor(r) + 1
      /\ ~OnAccount(r) => starts[r] <= PaidFor(r)
  BY <1>1, <1>2 DEF PaidInv, PaidFor
<1> DEFINE HeldThere == Holds(finished[b], r)
           Kept == /\ starts'[r] <= PaidFor(r)' + 1
                   /\ ~OnAccount(r)' => starts'[r] <= PaidFor(r)'
<1>4. SameAccount => PaidFor(r)' = PaidFor(r) /\ starts'[r] = starts[r]
  BY DEF SameAccount, PaidFor
\* a step that leaves the account and takes r off it only when it is not on it
<1>5. ASSUME SameAccount, OnAccount(r) => OnAccount(r)' PROVE Kept
  BY <1>3, <1>4, <1>5
<1>6. CASE UNCHANGED <<agentRun, looking, finished>> /\ SameAccount
  BY <1>5, <1>6 DEF OnAccount, Looked
<1>7. ASSUME NEW a \in Agents, ReplayResult(a) PROVE Kept
  <2>1. PICK x : x = Head(toAgent[a]).run
    OBVIOUS
  <2>2. /\ Cached(a, x) # {}
        /\ finished' = [finished EXCEPT ![a] = MoveToFront(a, x)]
        /\ UNCHANGED <<agentRun, looking>> /\ SameAccount
    BY <1>7, <2>1 DEF ReplayResult, histVars, SameAccount
  <2>3. finished[a] \in Seq(Message)
    BY <1>2
  <2>4. Holds(MoveToFront(a, x), r) <=> Holds(finished[a], r)
    BY <2>2, <2>3, ReadKeeps, Zenon
  <2>5. finished'[b] = IF a = b THEN MoveToFront(a, x) ELSE finished[b]
    BY <1>2, <2>2
  <2> QED
    BY <1>1, <1>5, <2>2, <2>4, <2>5 DEF OnAccount, Looked
<1>8. ASSUME NEW a \in Agents, CacheMiss(a) PROVE Kept
  <2>1. PICK x \in Runs : x = Head(toAgent[a]).run /\ RunAgent[x] = a
    BY <1>8, ExecuteFacts DEF CacheMiss
  <2>2. /\ Cached(a, x) = {} /\ looking' = [looking EXCEPT ![a] = x]
        /\ UNCHANGED <<agentRun, finished>> /\ SameAccount
    BY <1>8, <2>1 DEF CacheMiss, histVars, SameAccount
  <2>3. ~Holds(finished[a], x)
    BY <2>2 DEF Cached, Holds, Elems
  <2>4. HeldThere => (Looked(r)' => Looked(r))
    BY <1>1, <1>2, <2>1, <2>2, <2>3 DEF Looked, AgentTypes
  <2> QED
    BY <1>1, <1>5, <2>2, <2>4 DEF OnAccount
<1>9. ASSUME NEW a \in Agents, looking' = [looking EXCEPT ![a] = NoRun] PROVE Looked(r)' => Looked(r)
  BY <1>1, <1>2, <1>9 DEF Looked, AgentTypes
<1>10. ASSUME NEW a \in Agents, looking' = [looking EXCEPT ![a] = NoRun],
              UNCHANGED <<agentRun, finished>>, SameAccount
       PROVE  Kept
  BY <1>5, <1>9, <1>10 DEF OnAccount
<1>11. ASSUME NEW a \in Agents, AcceptCommand(a) PROVE Kept
  <2>1. PICK x \in Runs : x = looking[a] /\ RunAgent[x] = a
    BY <1>2, <1>11 DEF AcceptCommand, Return, ExecuteInv, RunsAt
  <2>2. /\ agentRun[x] = "none" /\ agentRun' = [agentRun EXCEPT ![x] = "waiting"]
        /\ looking' = [looking EXCEPT ![a] = NoRun]
        /\ UNCHANGED finished /\ SameAccount
    BY <1>11, <2>1 DEF AcceptCommand, Return, histVars, SameAccount
  <2>3. CASE x = r
    <3>1. ~OnAccount(r)
      BY <2>1, <2>2, <2>3 DEF OnAccount, Looked
    <3> QED
      BY <1>5, <2>2, <3>1
  <2>4. CASE x # r
    <3>1. agentRun'[r] = agentRun[r]
      BY <1>2, <2>2, <2>4 DEF AgentTypes
    <3> QED
      BY <1>5, <1>9, <2>2, <3>1 DEF OnAccount
  <2> QED
    BY <2>3, <2>4
<1>12. ASSUME NEW s \in Runs, StartPipeline(s) PROVE Kept
  <2>1. UNCHANGED <<looking, finished, restarts, evicted, slipped>>
    BY <1>12 DEF StartPipeline
  <2>2. CASE s = r
    <3>1. agentRun[r] = "waiting" /\ agentRun'[r] = "executing" /\ starts'[r] = starts[r] + 1
      BY <1>2, <1>12, <2>2 DEF StartPipeline, AgentTypes
    <3>2. PaidFor(r)' = PaidFor(r) /\ ~OnAccount(r) /\ OnAccount(r)'
      BY <2>1, <3>1 DEF PaidFor, OnAccount
    <3> QED
      BY <1>2, <1>3, <3>1, <3>2
  <2>3. CASE s # r
    <3>1. agentRun'[r] = agentRun[r] /\ starts'[r] = starts[r]
      BY <1>2, <1>12, <2>3 DEF StartPipeline, AgentTypes
    <3>2. PaidFor(r)' = PaidFor(r) /\ (OnAccount(r)' <=> OnAccount(r))
      BY <2>1, <3>1 DEF PaidFor, OnAccount, Looked
    <3> QED
      BY <1>3, <3>1, <3>2
  <2> QED
    BY <2>2, <2>3
<1>13. ASSUME NEW s \in Runs, NEW res \in Results, NEW step \in HoldsLock \ {"executing"},
              PutResult(s, res, step), UNCHANGED <<looking, starts, restarts, slipped>>
       PROVE  Kept
  <2>1. PICK a \in Agents : a = RunAgent[s]
    BY DispatchAssumption
  <2>2. PICK m \in Message : m = Result(s, res) /\ m.run = s
    <3>1. Result(s, res) \in Message
      BY DEF Result, Message
    <3>2. Result(s, res).run = s
      BY DEF Result
    <3> QED
      BY <3>1, <3>2
  <2>3. /\ finished' = [finished EXCEPT ![a] = CachePut(a, m)]
        /\ agentRun' = [agentRun EXCEPT ![s] = step]
    BY <1>13, <2>1, <2>2 DEF PutResult
  <2>4. finished[a] \in Seq(Message)
    BY <1>2
  <2>5. /\ Holds(CachePut(a, m), s)
        /\ Holds(finished[a], r)
              => \/ Holds(CachePut(a, m), r)
                 \/ Evicts(a, s) /\ r = finished[a][Len(finished[a])].run
    BY <2>2, <2>4, PutKeeps
  <2>6. /\ evicted'[r] \in Nat /\ evicted'[r] >= evicted[r]
        /\ Evicts(a, s) /\ r = finished[a][Len(finished[a])].run
              => evicted'[r] = evicted[r] + 1
    <3>1. evicted \in [Runs -> Nat]
      BY <1>2 DEF AgentTypes
    <3>2. /\ evicted' \in [Runs -> Nat] /\ evicted'[r] >= evicted[r]
          /\ Evicts(a, s) /\ r = finished[a][Len(finished[a])].run
                => evicted'[r] = evicted[r] + 1
      BY <1>13, <2>1, <3>1, EvictionCounted
    <3> QED
      BY <3>2
  <2>7. finished'[b] = IF a = b THEN CachePut(a, m) ELSE finished[b]
    BY <1>2, <2>3
  <2>8. agentRun'[r] = IF r = s THEN step ELSE agentRun[r]
    BY <1>2, <2>3 DEF AgentTypes
  <2>9. PaidFor(r)' = restarts[b] + evicted'[r] + slipped[r] /\ starts'[r] = starts[r]
    BY <1>1, <1>13 DEF PaidFor
  <2>10. CASE r = s
    <3>1. step \notin {"none", "waiting"}
      BY DEF HoldsLock, HoldsSlot, Results
    <3>2. Holds(finished'[b], r)
      BY <1>1, <2>1, <2>5, <2>7, <2>10
    <3>3. OnAccount(r)'
      BY <1>1, <2>8, <2>10, <3>1, <3>2 DEF OnAccount
    <3> QED
      BY <1>2, <1>3, <2>6, <2>9, <3>3
  <2>11. CASE r # s
    <3>1. CASE evicted'[r] = evicted[r] + 1
      <4>1. starts'[r] <= PaidFor(r)'
        BY <1>2, <1>3, <2>9, <3>1
      <4>2. PaidFor(r)' \in Nat
        BY <1>2, <2>6, <2>9
      <4> QED
        BY <1>2, <2>9, <4>1, <4>2
    <3>2. CASE evicted'[r] # evicted[r] + 1
      <4>1. HeldThere => Holds(finished'[b], r)
        BY <1>1, <2>1, <2>5, <2>6, <2>7, <3>2
      <4>2. OnAccount(r) => OnAccount(r)'
        BY <1>1, <1>13, <2>8, <2>11, <4>1 DEF OnAccount, Looked
      <4> QED
        BY <1>2, <1>3, <2>6, <2>9, <4>2
    <3> QED
      BY <3>1, <3>2
  <2> QED
    BY <2>10, <2>11
<1>14. ASSUME NEW s \in Runs, SendResult(s) PROVE Kept
  <2>1. /\ agentRun[s] \in Results \cup {"gaveup"} /\ agentRun' = [agentRun EXCEPT ![s] = "sent"]
        /\ UNCHANGED <<looking, finished>> /\ SameAccount
    BY <1>14 DEF SendResult, histVars, SameAccount
  <2>2. \/ agentRun'[r] = agentRun[r]
        \/ agentRun[r] # "executing" /\ agentRun'[r] = "sent"
    BY <1>2, <2>1 DEF AgentTypes, Results
  <2> QED
    BY <1>5, <2>1, <2>2 DEF OnAccount, Looked
<1>15. ASSUME NEW s \in Runs, Unregister(s) PROVE Kept
  <2>1. /\ agentRun[s] = "sent" /\ agentRun' = [agentRun EXCEPT ![s] = "none"]
        /\ UNCHANGED <<looking, finished, starts, restarts, evicted>>
    BY <1>15 DEF Unregister
  <2>2. slipped'[r] = IF s = r /\ Looked(r) THEN slipped[r] + 1 ELSE slipped[r]
    BY <1>2, <1>15 DEF Unregister, Looked, AgentTypes
  <2>3. PaidFor(r)' = restarts[b] + evicted[r] + slipped'[r] /\ starts'[r] = starts[r]
    BY <1>1, <2>1 DEF PaidFor
  <2>4. CASE s = r /\ Looked(r)
    BY <1>2, <1>3, <2>2, <2>3, <2>4
  <2>5. CASE ~(s = r /\ Looked(r))
    <3>1. \/ agentRun'[r] = agentRun[r]
          \/ agentRun[r] = "sent" /\ agentRun'[r] = "none" /\ ~Looked(r)
      BY <1>2, <2>1, <2>5 DEF AgentTypes
    <3>2. OnAccount(r) => OnAccount(r)'
      BY <2>1, <3>1 DEF OnAccount, Looked
    <3> QED
      BY <1>2, <1>3, <2>2, <2>3, <2>5, <3>2
  <2> QED
    BY <2>4, <2>5
<1>16. ASSUME NEW a \in Agents, AgentRestart(a) PROVE Kept
  <2>1. /\ starts'[r] = starts[r]
        /\ PaidFor(r)' = restarts'[b] + evicted[r] + slipped[r]
    BY <1>1, <1>16 DEF AgentRestart, PaidFor
  <2>2. CASE a = b
    <3>1. restarts'[b] = restarts[b] + 1
      BY <1>2, <1>16, <2>2 DEF AgentRestart, AgentTypes
    <3> QED
      BY <1>2, <1>3, <2>1, <3>1
  <2>3. CASE a # b
    <3>1. restarts'[b] = restarts[b] /\ finished'[b] = finished[b] /\ looking'[b] = looking[b]
          /\ agentRun'[r] = agentRun[r]
      BY <1>1, <1>2, <1>16, <2>3 DEF AgentRestart, AgentTypes
    <3>2. OnAccount(r) => OnAccount(r)'
      BY <1>1, <3>1 DEF OnAccount, Looked
    <3> QED
      BY <1>2, <1>3, <2>1, <3>1, <3>2
  <2> QED
    BY <2>2, <2>3
<1> QED
  BY <1>6, <1>7, <1>8, <1>10, <1>11, <1>12, <1>13, <1>14, <1>15, <1>16, CacheSteps DEF CacheStep

\* A run that is delivered again is executed again only if the agent's process
\* was restarted, the run's result was evicted from its cache, or the run was
\* unregistered between the two checks of Runner.Execute.
THEOREM RedeliveriesArePaidFor == Spec => []RedeliveryIsIdempotent
<1>1. Init => PaidInv
  <2> SUFFICES ASSUME Init, NEW r \in Runs
      PROVE  /\ starts[r] = 0 /\ restarts[RunAgent[r]] = 0
             /\ evicted[r] = 0 /\ slipped[r] = 0
    BY DEF PaidInv, PaidFor
  <2> QED
    BY DispatchAssumption DEF Init
<1>2. DispatchInv /\ PaidInv /\ [Next]_vars => PaidInv'
  <2>1. PaidInv /\ UNCHANGED vars => PaidInv'
    BY DEF vars, agentVars, histVars, PaidInv, PaidFor, OnAccount, Looked
  <2> QED
    BY <2>1, PaidInvStep
<1>3. DispatchInv /\ PaidInv => RedeliveryIsIdempotent
  <2> SUFFICES ASSUME DispatchInv, PaidInv, NEW r \in Runs
      PROVE  starts[r] <= 1 + restarts[RunAgent[r]] + evicted[r] + slipped[r]
    BY DEF RedeliveryIsIdempotent
  <2>1. /\ starts[r] \in Nat /\ restarts[RunAgent[r]] \in Nat /\ evicted[r] \in Nat
        /\ slipped[r] \in Nat
    BY DispatchAssumption DEF DispatchInv, Types, AgentTypes
  <2> QED
    BY <2>1 DEF PaidInv, PaidFor
<1> QED
  BY <1>1, <1>2, <1>3, DispatchInvHolds, PTL DEF Spec

-----------------------------------------------------------------------------
(* The refinement of RunLifecycle.                                          *)

\* A step starts one pipeline, ends one successfully, or does neither, and the
\* first two leave the rows alone.
LEMMA HistorySteps ==
  ASSUME Next
  PROVE  \/ UNCHANGED <<starts, completed>>
         \/ \E r \in Runs : StartPipeline(r)
         \/ \E r \in Runs : /\ agentRun[r] = "executing"
                            /\ completed' = completed \cup {r}
                            /\ UNCHANGED <<status, starts>>
<1>1. CASE \E p \in Repositories : WorkerNext(p)
  BY <1>1 DEF WorkerNext, Pop, MarkProcessing, CheckConnected, Claim, ClaimBusy, BuildFails,
              SendCommand, SendFails, RevertBusy, Poll, GetRunFails, RequeueJob, histVars
<1>2. CASE \E r \in Runs : WatchdogNext(r) \/ ServerNext(r)
  BY <1>2 DEF WatchdogNext, ServerNext, RecoverQueuedRun, ExpireRun, TimeoutCancel, TimeoutFail,
              CreateRun, EnqueueCreated, CancelRead, CancelCommit, FailStaleQueued, DisconnectRun,
              RecoverStaleRun, EnqueueAtStartup, LeaseRunsOut, LeaseRunsOutEarly, histVars
<1>3. CASE \E r \in Runs : RunnerNext(r)
  BY <1>3 DEF RunnerNext, GiveUpWaiting, FinishPipeline, SendResult, Unregister, histVars, dbVars
<1>4. CASE \E a \in Agents : StreamNext(a) \/ AgentNext(a)
  BY <1>4, ZenonT(60)
          DEF StreamNext, AgentNext, HandleAccepted, HandleResult, HandlerFails, Heartbeat,
              LinkBreaks, StreamEnds, DisconnectList, Reconnect, ReceiveWelcome, ReplayResult,
              CacheMiss, IgnoreDuplicate, AcceptCommand, AcceptFails, TempDirFails, ReceiveCancel,
              AgentRestart, histVars
<1>5. CASE \/ \E late \in SUBSET MayTimeOut : WatchdogTick(late)
           \/ ServerCrash \/ StartServing
  BY <1>5 DEF WatchdogTick, ServerCrash, StartServing, histVars
<1> QED
  BY <1>1, <1>2, <1>3, <1>4, <1>5 DEF Next

\* A move of one row is a step of RunLifecycle, when it follows an edge and
\* keeps the two promises.
LEMMA MoveIsAdvance ==
  ASSUME NEW r \in Runs, NEW froms, NEW tos, Moves(r, froms, tos),
         froms \subseteq RunStatuses \ Terminal,
         \A from \in froms, to \in tos : to \in RunStatuses /\ to \in validTransitions[from],
         "succeeded" \in tos => r \in completed,
         "queued" \in tos /\ r \notin Retryable => starts[r] = 0,
         UNCHANGED <<starts, completed>>
  PROVE  Lifecycle!Next
<1>1. PICK to \in tos : status' = [status EXCEPT ![r] = to] /\ status[r] \in froms
  BY DEF Moves
<1>2. Lifecycle!CanTransition(status[r], status[r], to)
  BY <1>1 DEF Lifecycle!CanTransition, Lifecycle!RunStatuses, Lifecycle!Terminal,
              Lifecycle!validTransitions, RunStatuses, Terminal, validTransitions
<1>3. Lifecycle!Advance(r, to) /\ to \in Lifecycle!RunStatuses
  BY <1>1, <1>2 DEF Lifecycle!Advance, Lifecycle!RunStatuses, RunStatuses
<1> QED
  BY <1>3 DEF Lifecycle!Next

\* Every step of the dispatcher is a step of RunLifecycle or leaves its state.
LEMMA LifecycleStep ==
  ASSUME DispatchInv, WorkInv, UnsafeInv, Next
  PROVE  Lifecycle!Next \/ UNCHANGED <<status, starts, completed>>
<1>1. /\ RowTypes /\ AgentTypes /\ WorkerInv
      /\ Retryable \subseteq Runs
  BY DispatchAssumption DEF DispatchInv, Types
<1>2. ASSUME NEW r \in Runs, StartPipeline(r) PROVE Lifecycle!Next
  <2>1. /\ agentRun[r] = "waiting" /\ starts' = [starts EXCEPT ![r] = @ + 1]
        /\ UNCHANGED <<status, completed>>
    BY <1>2 DEF StartPipeline, dbVars
  <2>2. status[r] # "absent"
    BY <2>1 DEF WorkInv
  <2>3. r \notin Retryable => starts[r] = 0 /\ status[r] # "queued"
    BY <2>1 DEF UnsafeInv, Fresh
  <2>4. Lifecycle!Start(r)
    BY <2>1, <2>2, <2>3 DEF Lifecycle!Start
  <2> QED
    BY <2>4 DEF Lifecycle!Next
<1>3. ASSUME NEW r \in Runs, agentRun[r] = "executing", completed' = completed \cup {r},
             UNCHANGED <<status, starts>>
      PROVE  Lifecycle!Next
  <2>1. Lifecycle!Complete(r)
    BY <1>3 DEF Lifecycle!Complete, WorkInv
  <2> QED
    BY <2>1 DEF Lifecycle!Next
<1>4. ASSUME UNCHANGED <<starts, completed>>
      PROVE  Lifecycle!Next \/ UNCHANGED status
  <2>1. ASSUME NEW r \in Runs, Moves(r, {"absent"}, {"queued"}) PROVE Lifecycle!Next
    <3>1. Lifecycle!Create(r)
      BY <1>4, <2>1 DEF Moves, Lifecycle!Create
    <3> QED
      BY <3>1 DEF Lifecycle!Next
  <2>2. ASSUME NEW p \in Repositories, Claim(p), Moves(job[p], {"queued"}, {"dispatched"})
        PROVE  Lifecycle!Next
    <3>1. PICK r \in Runs : r = job[p]
      BY <1>1, <2>2 DEF Claim, WorkerAt, WorkerInv
    <3>2. Moves(r, {"queued"}, {"dispatched"})
      BY <2>2, <3>1
    <3> QED
      BY <1>4, <3>2, MoveIsAdvance DEF RunStatuses, Terminal, validTransitions
  <2>3. ASSUME NEW p \in Repositories, SendFails(p), Moves(job[p], {"dispatched"}, {"queued"})
        PROVE  Lifecycle!Next
    <3>1. PICK r \in Runs : r = job[p] /\ p = RunRepository[r] /\ pc[p] = "send"
      BY <1>1, <2>3 DEF SendFails, WorkerAt, WorkerInv
    <3>2. Moves(r, {"dispatched"}, {"queued"})
      BY <2>3, <3>1
    <3>3. r \notin Retryable => starts[r] = 0
      BY <3>1 DEF UnsafeInv, Fresh
    <3> QED
      BY <1>4, <3>2, <3>3, MoveIsAdvance DEF RunStatuses, Terminal, validTransitions
  <2>4. ASSUME NEW r \in Retryable, Moves(r, {"dispatched", "running"}, {"queued"})
        PROVE  Lifecycle!Next
    BY <1>1, <1>4, <2>4, MoveIsAdvance DEF RunStatuses, Terminal, validTransitions
  <2>5. ASSUME NEW r \in Runs, Moves(r, {"queued", "dispatched", "running"}, {"failed", "cancelled"})
        PROVE  Lifecycle!Next
    BY <1>4, <2>5, MoveIsAdvance DEF RunStatuses, Terminal, validTransitions
  <2>6. ASSUME NEW r \in Runs, Moves(r, {"dispatched"}, {"running"}) PROVE Lifecycle!Next
    BY <1>4, <2>6, MoveIsAdvance DEF RunStatuses, Terminal, validTransitions
  <2>7. ASSUME NEW r \in completed, Moves(r, {"dispatched", "running", "cancelled"}, {"succeeded"})
        PROVE  Lifecycle!Next
    <3>1. r \in Runs
      BY <1>1 DEF AgentTypes
    <3>2. CASE status[r] = "cancelled"
      <4>1. Lifecycle!Reconcile(r)
        BY <1>4, <2>7, <3>2 DEF Moves, Lifecycle!Reconcile
      <4> QED
        BY <3>1, <4>1 DEF Lifecycle!Next
    <3>3. CASE status[r] # "cancelled"
      <4>1. Moves(r, {"dispatched", "running"}, {"succeeded"})
        BY <2>7, <3>3 DEF Moves
      <4> QED
        BY <1>4, <3>1, <4>1, MoveIsAdvance DEF RunStatuses, Terminal, validTransitions
    <3> QED
      BY <3>2, <3>3
  <2> QED
    BY <2>1, <2>2, <2>3, <2>4, <2>5, <2>6, <2>7, RowSteps DEF RowStep
<1> QED
  BY <1>2, <1>3, <1>4, HistorySteps

\* The dispatcher, the handlers and the agents keep the promises of RunLifecycle:
\* rows move along validTransitions or are reconciled, succeeded means that the
\* agent's pipeline succeeded, and an unsafe operation neither starts twice nor
\* is queued once it has started.
THEOREM LifecycleImplemented == Spec => LifecycleSpec
<1>1. Init => Lifecycle!Init
  BY DEF Init, Lifecycle!Init
<1>2. DispatchInv /\ WorkInv /\ UnsafeInv /\ [Next]_vars
        => [Lifecycle!Next]_(Lifecycle!vars)
  <2>1. UNCHANGED vars => UNCHANGED Lifecycle!vars
    BY DEF vars, dbVars, histVars, Lifecycle!vars
  <2>2. UNCHANGED <<status, starts, completed>> => UNCHANGED Lifecycle!vars
    BY DEF Lifecycle!vars
  <2> QED
    BY <2>1, <2>2, LifecycleStep
<1> QED
  BY <1>1, <1>2, DispatchInvHolds, UnsafeHolds, PTL DEF Spec, LifecycleSpec, Lifecycle!Spec

=============================================================================
