----------------------- MODULE RestoreOccupancyProofs ------------------------
(***************************************************************************)
(* Theorems about RestoreOccupancy, for any number of restores,            *)
(* repositories, agents, cancels and faults: type correctness, the         *)
(* exclusion of database restores, the finality of terminal phases, and,   *)
(* from an invariant that says where the one command of a restore is and   *)
(* what the agent has said, that a restore runs once, that its occupancy   *)
(* covers whatever may still write, and that a phase which releases it is  *)
(* true.                                                                   *)
(***************************************************************************)
EXTENDS RestoreOccupancy, TLAPS

-----------------------------------------------------------------------------
(* What the statements of the store and the sends keep typed.               *)

\* TransitionRun writes a status of the map validTransitions or nothing.
LEMMA TransitionTyped ==
  ASSUME StoreTypeOK, NEW r \in Restores, NEW from, NEW to \in RunStatuses,
         NEW newLease \in {"none", "live", "expired"}, TransitionRun(r, from, to, newLease)
  PROVE  /\ status' \in [Restores -> RunStatuses \cup {"absent"}]
         /\ lease' \in [Restores -> {"none", "live", "expired"}]
  BY DEF StoreTypeOK, TransitionRun

\* UpdateRestorePhase writes the given phase or nothing.
LEMMA UpdatePhaseTyped ==
  ASSUME StoreTypeOK, NEW r \in Restores, NEW ph \in Phases, UpdateRestorePhase(r, ph)
  PROVE  phase' \in [Restores -> Phases \cup {"absent"}]
  BY DEF StoreTypeOK, UpdateRestorePhase

\* So does updateRestoreRequestTx.
LEMMA UpdateRequestTyped ==
  ASSUME StoreTypeOK, NEW r \in Restores, NEW ph \in Phases, updateRestoreRequestTx(r, ph)
  PROVE  phase' \in [Restores -> Phases \cup {"absent"}]
  BY DEF StoreTypeOK, updateRestoreRequestTx

\* FinishRestoreRun keeps both rows typed.
LEMMA FinishTyped ==
  ASSUME StoreTypeOK, NEW r \in Restores, NEW froms, NEW to \in RunStatuses,
         NEW ph \in Phases, FinishRestoreRun(r, froms, to, ph)
  PROVE  StoreTypeOK'
<1>1. ASSUME updateRestoreRequestTx(r, ph) PROVE phase' \in [Restores -> Phases \cup {"absent"}]
  BY <1>1, UpdateRequestTyped
<1> QED
  BY <1>1 DEF StoreTypeOK, FinishRestoreRun, dbVars

\* RequestRestoreStop keeps both rows typed.
LEMMA StopTyped ==
  ASSUME StoreTypeOK, NEW r \in Restores, RequestRestoreStop(r)
  PROVE  StoreTypeOK'
  BY DEF StoreTypeOK, RequestRestoreStop, dbVars, Phases, ActivePhases

\* A cancel command keeps the stream to the agent typed.
LEMMA SendCancelTyped ==
  ASSUME StreamTypeOK, NEW r \in Restores, SendCancel(r)
  PROVE  toAgent' \in [Restores -> Seq({"execute", "cancel"})]
<1>1. Append(toAgent[r], "cancel") \in Seq({"execute", "cancel"})
  BY DEF StreamTypeOK
<1> QED
  BY <1>1 DEF StreamTypeOK, SendCancel

\* A report keeps the stream to the server typed.
LEMMA SendTyped ==
  ASSUME StreamTypeOK, NEW r \in Restores, NEW m \in Report, Send(r, m)
  PROVE  toServer' \in [Restores -> Seq(Report)]
  BY DEF StreamTypeOK, Send

\* A received report is a report, and the rest of the stream is typed.
LEMMA ReceiveTyped ==
  ASSUME StreamTypeOK, NEW r \in Restores, NEW type, Receive(r, type)
  PROVE  /\ toServer' \in [Restores -> Seq(Report)]
         /\ Head(toServer[r]) \in Report
         /\ Head(toServer[r]).type = type
  BY DEF StreamTypeOK, Receive

\* The agent takes the head of its stream.
LEMMA AgentReceiveTyped ==
  ASSUME StreamTypeOK, NEW r \in Restores, NEW cmd, AgentReceive(r, cmd)
  PROVE  toAgent' \in [Restores -> Seq({"execute", "cancel"})]
  BY DEF StreamTypeOK, AgentReceive

\* Confirming results keeps what is held typed.
LEMMA ConfirmTyped ==
  ASSUME AgentTypeOK, NEW a \in Agents, Confirm(a)
  PROVE  held' \in [Restores -> Report \cup {NoResult}]
  BY DEF AgentTypeOK, Confirm

\* The phase and status a result brings are ones the rows may hold.
LEMMA OutcomeTyped ==
  ASSUME NEW m \in Report, m.type = "result"
  PROVE  /\ restoreResultOutcome(m) \in Phases
         /\ m.res \in RunStatuses
  BY DEF Report, restoreResultOutcome, Phases, TerminalPhases, Releasing, ReportedSafe, Manual,
         RunStatuses, Terminal

\* The messages the agent builds are reports.
LEMMA ReportTyped ==
  /\ Accepted \in Report
  /\ \A ph \in {"pre_backup", "restoring", "rolling_back"} : Progress(ph) \in Report
  /\ \A res \in Terminal : \A ph \in ReportedSafe \cup {"rollback_failed", "none"} :
       Result(res, ph) \in Report
  BY DEF Accepted, Progress, Result, Report

\* The end of the agent's goroutine keeps its memory and its stream typed.
LEMMA SettleTyped ==
  ASSUME StreamTypeOK, AgentTypeOK, NEW r \in Restores, NEW ok \in BOOLEAN,
         NEW ph \in ReportedSafe \cup {"rollback_failed", "none"}, Settle(r, ok, ph)
  PROVE  /\ toServer' \in [Restores -> Seq(Report)]
         /\ AgentTypeOK'
<1> DEFINE res == IF ok THEN "succeeded" ELSE IF r \in cancelled THEN "cancelled" ELSE "failed"
<1>1. res \in Terminal
  BY DEF Terminal
<1> HIDE DEF res
<1>2. Result(res, ph) \in Report
  BY <1>1, ReportTyped
<1>3. Send(r, Result(res, ph)) /\ held' = [held EXCEPT ![r] = Result(res, ph)]
  BY DEF Settle, res
<1>4. toServer' \in [Restores -> Seq(Report)]
  BY <1>2, <1>3, SendTyped
<1>5. AgentTypeOK'
  BY <1>2, <1>3 DEF Settle, AgentTypeOK
<1> QED
  BY <1>4, <1>5

\* The statuses and phases the actions write.
LEMMA Values ==
  /\ "queued" \in RunStatuses /\ "dispatched" \in RunStatuses /\ "running" \in RunStatuses
  /\ "failed" \in RunStatuses /\ "cancelled" \in RunStatuses
  /\ "queued" \in Phases /\ "running" \in Phases /\ "failed" \in Phases
  /\ "pre_backup" \in Phases /\ "restoring" \in Phases /\ "rolling_back" \in Phases
  /\ "manual_recovery_required" \in Phases /\ "manual_recovery_resolved" \in Phases
  /\ ReportedSafe = {"succeeded", "failed", "pre_backup_failed", "rolled_back",
                     "new_target_cleaned"}
  BY DEF RunStatuses, Phases, ActivePhases, TerminalPhases, Releasing, ReportedSafe, Manual

-----------------------------------------------------------------------------
(* Type correctness.                                                        *)

\* Every step keeps the types: one case per action, and under it one step per
\* group of variables.
LEMMA TypeStep == TypeOK /\ [Next]_vars => TypeOK'
<1> SUFFICES ASSUME TypeOK, [Next]_vars PROVE TypeOK'
  OBVIOUS
<1> USE RestoreAssumption
<1>1. ASSUME NEW p \in Repositories, Claim(p) PROVE TypeOK'
  <2>1. ServerTypeOK' /\ StreamTypeOK' /\ AgentTypeOK' /\ HistoryTypeOK'
    BY <1>1 DEF TypeOK, Claim, workerFrame, ServerTypeOK, serverVars, StreamTypeOK,
       netVars, AgentTypeOK, agentVars, HistoryTypeOK, histVars
  <2>2. StoreTypeOK'
    BY <1>1, TransitionTyped, Values DEF TypeOK, Claim, WorkerAt, StoreTypeOK, dbVars,
       WorkerTypeOK
  <2>3. WorkerTypeOK'
    BY <1>1 DEF TypeOK, Claim, WorkerDone, WorkerAt, WorkerTypeOK, serverVars
  <2> QED
    BY <2>1, <2>2, <2>3 DEF TypeOK
<1>2. ASSUME NEW p \in Repositories, BuildFails(p) PROVE TypeOK'
  <2>1. ServerTypeOK' /\ StreamTypeOK' /\ AgentTypeOK'
    BY <1>2 DEF TypeOK, BuildFails, workerFrame, ServerTypeOK, serverVars, StreamTypeOK,
       netVars, AgentTypeOK, agentVars
  <2>2. StoreTypeOK'
    BY <1>2, TransitionTyped, Values DEF TypeOK, BuildFails, WorkerAt, StoreTypeOK, dbVars,
       WorkerTypeOK
  <2>3. WorkerTypeOK'
    BY <1>2 DEF TypeOK, BuildFails, WorkerDone, WorkerAt, WorkerTypeOK, serverVars
  <2>4. HistoryTypeOK'
    BY <1>2 DEF TypeOK, BuildFails, Fault, HistoryTypeOK, histVars
  <2> QED
    BY <2>1, <2>2, <2>3, <2>4 DEF TypeOK
<1>3. ASSUME NEW p \in Repositories, SendCommand(p) PROVE TypeOK'
  <2>1. StoreTypeOK' /\ ServerTypeOK' /\ AgentTypeOK' /\ HistoryTypeOK'
    BY <1>3 DEF TypeOK, SendCommand, StoreTypeOK, dbVars, workerFrame, ServerTypeOK,
       serverVars, AgentTypeOK, agentVars, HistoryTypeOK, histVars
  <2>2. WorkerTypeOK'
    BY <1>3 DEF TypeOK, SendCommand, WorkerAt, WorkerTypeOK, serverVars
  <2>3. StreamTypeOK'
    <3>1. worker[p] \in Restores
      BY <1>3 DEF TypeOK, SendCommand, WorkerAt, WorkerTypeOK
    <3>2. Append(toAgent[worker[p]], "execute") \in Seq({"execute", "cancel"})
      BY <3>1 DEF TypeOK, StreamTypeOK
    <3> QED
      BY <1>3, <3>2 DEF TypeOK, SendCommand, StreamTypeOK
  <2> QED
    BY <2>1, <2>2, <2>3 DEF TypeOK
<1>4. ASSUME NEW p \in Repositories, RefuseUnsafe(p) PROVE TypeOK'
  <2>1. ServerTypeOK' /\ StreamTypeOK' /\ AgentTypeOK' /\ HistoryTypeOK'
    BY <1>4 DEF TypeOK, RefuseUnsafe, workerFrame, ServerTypeOK, serverVars, StreamTypeOK,
       netVars, AgentTypeOK, agentVars, HistoryTypeOK, histVars
  <2>2. StoreTypeOK'
    BY <1>4, FinishTyped, Values DEF TypeOK, RefuseUnsafe, WorkerAt, StoreTypeOK, dbVars,
       WorkerTypeOK
  <2>3. WorkerTypeOK'
    BY <1>4 DEF TypeOK, RefuseUnsafe, WorkerDone, WorkerAt, WorkerTypeOK, serverVars
  <2> QED
    BY <2>1, <2>2, <2>3 DEF TypeOK
<1>5. ASSUME NEW p \in Repositories, SendFails(p) PROVE TypeOK'
  <2>1. ServerTypeOK' /\ StreamTypeOK' /\ AgentTypeOK' /\ HistoryTypeOK'
    BY <1>5 DEF TypeOK, SendFails, workerFrame, ServerTypeOK, serverVars, StreamTypeOK,
       netVars, AgentTypeOK, agentVars, HistoryTypeOK, histVars
  <2>2. StoreTypeOK'
    BY <1>5, TransitionTyped, Values DEF TypeOK, SendFails, WorkerAt, StoreTypeOK, dbVars,
       WorkerTypeOK
  <2>3. WorkerTypeOK'
    BY <1>5 DEF TypeOK, SendFails, WorkerDone, WorkerAt, WorkerTypeOK, serverVars
  <2> QED
    BY <2>1, <2>2, <2>3 DEF TypeOK
<1>6. ASSUME NEW p \in Repositories, Poll(p) PROVE TypeOK'
  <2>1. StoreTypeOK' /\ ServerTypeOK' /\ StreamTypeOK' /\ AgentTypeOK' /\ HistoryTypeOK'
    BY <1>6 DEF TypeOK, Poll, StoreTypeOK, dbVars, workerFrame, ServerTypeOK, serverVars,
       StreamTypeOK, netVars, AgentTypeOK, agentVars, HistoryTypeOK, histVars
  <2>2. WorkerTypeOK'
    BY <1>6 DEF TypeOK, Poll, WorkerDone, WorkerAt, WorkerTypeOK, serverVars
  <2> QED
    BY <2>1, <2>2 DEF TypeOK
<1>7. ASSUME NEW r \in Restores, CreateDatabaseRestore(r) PROVE TypeOK'
  <2>1. WorkerTypeOK' /\ StreamTypeOK' /\ AgentTypeOK' /\ HistoryTypeOK'
    BY <1>7 DEF TypeOK, CreateDatabaseRestore, WorkerTypeOK, serverVars, StreamTypeOK,
       netVars, AgentTypeOK, agentVars, HistoryTypeOK, histVars
  <2>2. StoreTypeOK'
    BY <1>7, Values DEF TypeOK, CreateDatabaseRestore, StoreTypeOK, dbVars
  <2>3. ServerTypeOK'
    BY <1>7 DEF TypeOK, CreateDatabaseRestore, ServerTypeOK, serverVars
  <2> QED
    BY <2>1, <2>2, <2>3 DEF TypeOK
<1>8. ASSUME NEW r \in Restores, CreateFilesystemRun(r) PROVE TypeOK'
  <2>1. WorkerTypeOK' /\ StreamTypeOK' /\ AgentTypeOK' /\ HistoryTypeOK'
    BY <1>8 DEF TypeOK, CreateFilesystemRun, WorkerTypeOK, serverVars, StreamTypeOK,
       netVars, AgentTypeOK, agentVars, HistoryTypeOK, histVars
  <2>2. StoreTypeOK'
    BY <1>8, Values DEF TypeOK, CreateFilesystemRun, StoreTypeOK, dbVars
  <2>3. ServerTypeOK'
    BY <1>8 DEF TypeOK, CreateFilesystemRun, ServerTypeOK, serverVars
  <2> QED
    BY <2>1, <2>2, <2>3 DEF TypeOK
<1>9. ASSUME NEW r \in Restores, CreateRestoreRequest(r) PROVE TypeOK'
  <2>1. WorkerTypeOK' /\ StreamTypeOK' /\ AgentTypeOK' /\ HistoryTypeOK'
    BY <1>9 DEF TypeOK, CreateRestoreRequest, WorkerTypeOK, serverVars, StreamTypeOK,
       netVars, AgentTypeOK, agentVars, HistoryTypeOK, histVars
  <2>2. StoreTypeOK'
    BY <1>9, TransitionTyped, Values DEF TypeOK, CreateRestoreRequest, StoreTypeOK, dbVars
  <2>3. ServerTypeOK'
    BY <1>9 DEF TypeOK, CreateRestoreRequest, ServerTypeOK, serverVars
  <2> QED
    BY <2>1, <2>2, <2>3 DEF TypeOK
<1>10. ASSUME NEW r \in Restores, SavePassword(r) PROVE TypeOK'
  <2>1. StoreTypeOK' /\ WorkerTypeOK' /\ StreamTypeOK' /\ AgentTypeOK' /\ HistoryTypeOK'
    BY <1>10 DEF TypeOK, SavePassword, StoreTypeOK, dbVars, WorkerTypeOK, serverVars,
       StreamTypeOK, netVars, AgentTypeOK, agentVars, HistoryTypeOK, histVars
  <2>2. ServerTypeOK'
    BY <1>10 DEF TypeOK, SavePassword, ServerTypeOK, serverVars
  <2> QED
    BY <2>1, <2>2 DEF TypeOK
<1>11. ASSUME NEW r \in Restores, SavePasswordFails(r) PROVE TypeOK'
  <2>1. WorkerTypeOK' /\ StreamTypeOK' /\ AgentTypeOK'
    BY <1>11 DEF TypeOK, SavePasswordFails, WorkerTypeOK, serverVars, StreamTypeOK,
       netVars, AgentTypeOK, agentVars
  <2>2. StoreTypeOK'
    BY <1>11, TransitionTyped, Values DEF TypeOK, SavePasswordFails, StoreTypeOK, dbVars
  <2>3. ServerTypeOK'
    BY <1>11 DEF TypeOK, SavePasswordFails, ServerTypeOK, serverVars
  <2>4. HistoryTypeOK'
    BY <1>11 DEF TypeOK, SavePasswordFails, Fault, HistoryTypeOK, histVars
  <2> QED
    BY <2>1, <2>2, <2>3, <2>4 DEF TypeOK
<1>12. ASSUME NEW r \in Restores, Take(r) PROVE TypeOK'
  <2>1. StoreTypeOK' /\ ServerTypeOK' /\ StreamTypeOK' /\ AgentTypeOK' /\ HistoryTypeOK'
    BY <1>12 DEF TypeOK, Take, StoreTypeOK, dbVars, workerFrame, ServerTypeOK, serverVars,
       StreamTypeOK, netVars, AgentTypeOK, agentVars, HistoryTypeOK, histVars
  <2>2. WorkerTypeOK'
    BY <1>12 DEF TypeOK, Take, WorkerAt, WorkerTypeOK, serverVars
  <2> QED
    BY <2>1, <2>2 DEF TypeOK
<1>13. ASSUME NEW r \in Restores, TakeWithoutRequest(r) PROVE TypeOK'
  <2>1. ServerTypeOK' /\ WorkerTypeOK' /\ StreamTypeOK' /\ AgentTypeOK'
    BY <1>13 DEF TypeOK, TakeWithoutRequest, workerFrame, ServerTypeOK, serverVars,
       WorkerTypeOK, StreamTypeOK, netVars, AgentTypeOK, agentVars
  <2>2. StoreTypeOK'
    BY <1>13, FinishTyped, Values DEF TypeOK, TakeWithoutRequest, WorkerAt, StoreTypeOK,
       dbVars
  <2>3. HistoryTypeOK'
    BY <1>13 DEF TypeOK, TakeWithoutRequest, Fault, HistoryTypeOK, histVars
  <2> QED
    BY <2>1, <2>2, <2>3 DEF TypeOK
<1>14. ASSUME NEW r \in Restores, CancelRead(r) PROVE TypeOK'
  <2>1. StoreTypeOK' /\ WorkerTypeOK' /\ AgentTypeOK' /\ HistoryTypeOK'
    BY <1>14 DEF TypeOK, CancelRead, StoreTypeOK, dbVars, WorkerTypeOK, serverVars,
       AgentTypeOK, agentVars, HistoryTypeOK, histVars
  <2>2. ServerTypeOK'
    BY <1>14 DEF TypeOK, CancelRead, ServerTypeOK, serverVars
  <2>3. StreamTypeOK'
    BY <1>14, SendCancelTyped DEF TypeOK, CancelRead, StreamTypeOK, netVars
  <2> QED
    BY <2>1, <2>2, <2>3 DEF TypeOK
<1>15. ASSUME NEW r \in Restores, CancelCommit(r) PROVE TypeOK'
  <2>1. WorkerTypeOK' /\ StreamTypeOK' /\ AgentTypeOK' /\ HistoryTypeOK'
    BY <1>15 DEF TypeOK, CancelCommit, WorkerTypeOK, serverVars, StreamTypeOK, netVars,
       AgentTypeOK, agentVars, HistoryTypeOK, histVars
  <2>2. StoreTypeOK'
    BY <1>15, FinishTyped, StopTyped, Values DEF TypeOK, CancelCommit, StoreTypeOK, dbVars
  <2>3. ServerTypeOK'
    BY <1>15 DEF TypeOK, CancelCommit, ServerTypeOK, serverVars
  <2> QED
    BY <2>1, <2>2, <2>3 DEF TypeOK
<1>16. ASSUME NEW r \in Restores, LeaseRunsOut(r) PROVE TypeOK'
  <2>1. ServerTypeOK' /\ WorkerTypeOK' /\ StreamTypeOK' /\ AgentTypeOK' /\ HistoryTypeOK'
    BY <1>16 DEF TypeOK, LeaseRunsOut, ServerTypeOK, serverVars, WorkerTypeOK,
       StreamTypeOK, netVars, AgentTypeOK, agentVars, HistoryTypeOK, histVars
  <2>2. StoreTypeOK'
    BY <1>16, Values DEF TypeOK, LeaseRunsOut, StoreTypeOK, dbVars
  <2> QED
    BY <2>1, <2>2 DEF TypeOK
<1>17. ASSUME NEW r \in Restores, LeaseRunsOutEarly(r) PROVE TypeOK'
  <2>1. ServerTypeOK' /\ WorkerTypeOK' /\ StreamTypeOK' /\ AgentTypeOK'
    BY <1>17 DEF TypeOK, LeaseRunsOutEarly, ServerTypeOK, serverVars, WorkerTypeOK,
       StreamTypeOK, netVars, AgentTypeOK, agentVars
  <2>2. StoreTypeOK'
    BY <1>17, Values DEF TypeOK, LeaseRunsOutEarly, StoreTypeOK, dbVars
  <2>3. HistoryTypeOK'
    BY <1>17 DEF TypeOK, LeaseRunsOutEarly, Fault, HistoryTypeOK, histVars
  <2> QED
    BY <2>1, <2>2, <2>3 DEF TypeOK
<1>18. ASSUME NEW r \in Restores, WatchdogList(r) PROVE TypeOK'
  <2>1. StoreTypeOK' /\ WorkerTypeOK' /\ StreamTypeOK' /\ AgentTypeOK' /\ HistoryTypeOK'
    BY <1>18 DEF TypeOK, WatchdogList, StoreTypeOK, dbVars, WorkerTypeOK, serverVars,
       StreamTypeOK, netVars, AgentTypeOK, agentVars, HistoryTypeOK, histVars
  <2>2. ServerTypeOK'
    BY <1>18 DEF TypeOK, WatchdogList, ServerTypeOK, serverVars
  <2> QED
    BY <2>1, <2>2 DEF TypeOK
<1>19. ASSUME NEW r \in Restores, WatchdogDecide(r) PROVE TypeOK'
  <2>1. StoreTypeOK' /\ WorkerTypeOK' /\ AgentTypeOK' /\ HistoryTypeOK'
    BY <1>19 DEF TypeOK, WatchdogDecide, StoreTypeOK, dbVars, WorkerTypeOK, serverVars,
       AgentTypeOK, agentVars, HistoryTypeOK, histVars
  <2>2. ServerTypeOK'
    BY <1>19 DEF TypeOK, WatchdogDecide, ServerTypeOK, serverVars
  <2>3. StreamTypeOK'
    BY <1>19, SendCancelTyped DEF TypeOK, WatchdogDecide, StreamTypeOK, netVars
  <2> QED
    BY <2>1, <2>2, <2>3 DEF TypeOK
<1>20. ASSUME NEW r \in Restores, WatchdogWrite(r) PROVE TypeOK'
  <2>1. WorkerTypeOK' /\ StreamTypeOK' /\ AgentTypeOK' /\ HistoryTypeOK'
    BY <1>20 DEF TypeOK, WatchdogWrite, WorkerTypeOK, serverVars, StreamTypeOK, netVars,
       AgentTypeOK, agentVars, HistoryTypeOK, histVars
  <2>2. StoreTypeOK'
    BY <1>20, FinishTyped, StopTyped, Values DEF TypeOK, WatchdogWrite, StoreTypeOK, dbVars
  <2>3. ServerTypeOK'
    BY <1>20 DEF TypeOK, WatchdogWrite, ServerTypeOK, serverVars
  <2> QED
    BY <2>1, <2>2, <2>3 DEF TypeOK
<1>21. ASSUME NEW r \in Restores, FailStaleQueued(r) PROVE TypeOK'
  <2>1. ServerTypeOK' /\ WorkerTypeOK' /\ StreamTypeOK' /\ AgentTypeOK'
    BY <1>21 DEF TypeOK, FailStaleQueued, ServerTypeOK, serverVars, WorkerTypeOK,
       StreamTypeOK, netVars, AgentTypeOK, agentVars
  <2>2. StoreTypeOK'
    BY <1>21, TransitionTyped, Values DEF TypeOK, FailStaleQueued, StoreTypeOK, dbVars
  <2>3. HistoryTypeOK'
    BY <1>21 DEF TypeOK, FailStaleQueued, Fault, HistoryTypeOK, histVars
  <2> QED
    BY <2>1, <2>2, <2>3 DEF TypeOK
<1>22. ASSUME NEW r \in Restores, Resolve(r) PROVE TypeOK'
  <2>1. ServerTypeOK' /\ WorkerTypeOK' /\ StreamTypeOK' /\ AgentTypeOK' /\ HistoryTypeOK'
    BY <1>22 DEF TypeOK, Resolve, ServerTypeOK, serverVars, WorkerTypeOK, StreamTypeOK,
       netVars, AgentTypeOK, agentVars, HistoryTypeOK, histVars
  <2>2. StoreTypeOK'
    BY <1>22, Values DEF TypeOK, Resolve, StoreTypeOK, dbVars
  <2> QED
    BY <2>1, <2>2 DEF TypeOK
<1>23. ASSUME NEW r \in Restores, HandleAccepted(r) PROVE TypeOK'
  <2>1. WorkerTypeOK' /\ AgentTypeOK' /\ HistoryTypeOK'
    BY <1>23 DEF TypeOK, HandleAccepted, WorkerTypeOK, serverVars, AgentTypeOK, agentVars,
       HistoryTypeOK, histVars
  <2>2. StoreTypeOK'
    BY <1>23, TransitionTyped, Values DEF TypeOK, HandleAccepted, StoreTypeOK, dbVars
  <2>3. ServerTypeOK'
    BY <1>23 DEF TypeOK, HandleAccepted, ServerTypeOK, serverVars
  <2>4. StreamTypeOK'
    BY <1>23, ReceiveTyped DEF TypeOK, HandleAccepted, StreamTypeOK, netVars
  <2> QED
    BY <2>1, <2>2, <2>3, <2>4 DEF TypeOK
<1>24. ASSUME NEW r \in Restores, RecordRunning(r) PROVE TypeOK'
  <2>1. WorkerTypeOK' /\ StreamTypeOK' /\ AgentTypeOK' /\ HistoryTypeOK'
    BY <1>24 DEF TypeOK, RecordRunning, WorkerTypeOK, serverVars, StreamTypeOK, netVars,
       AgentTypeOK, agentVars, HistoryTypeOK, histVars
  <2>2. StoreTypeOK'
    BY <1>24, UpdatePhaseTyped, Values DEF TypeOK, RecordRunning, StoreTypeOK, dbVars
  <2>3. ServerTypeOK'
    BY <1>24 DEF TypeOK, RecordRunning, ServerTypeOK, serverVars
  <2> QED
    BY <2>1, <2>2, <2>3 DEF TypeOK
<1>25. ASSUME NEW r \in Restores, HandleProgress(r) PROVE TypeOK'
  <2>1. ServerTypeOK' /\ WorkerTypeOK' /\ AgentTypeOK' /\ HistoryTypeOK'
    BY <1>25 DEF TypeOK, HandleProgress, ServerTypeOK, serverVars, WorkerTypeOK,
       AgentTypeOK, agentVars, HistoryTypeOK, histVars
  <2>2. StoreTypeOK'
    <3>1. Head(toServer[r]).phase \in {"pre_backup", "restoring", "rolling_back"}
      BY <1>25, ReceiveTyped DEF TypeOK, HandleProgress, Report
    <3>2. Head(toServer[r]).phase \in Phases
      BY <3>1, Values
    <3> QED
      BY <1>25, <3>2, UpdatePhaseTyped DEF TypeOK, HandleProgress, StoreTypeOK
  <2>3. StreamTypeOK'
    BY <1>25, ReceiveTyped DEF TypeOK, HandleProgress, StreamTypeOK, netVars
  <2> QED
    BY <2>1, <2>2, <2>3 DEF TypeOK
<1>26. ASSUME NEW r \in Restores, HandleResult(r) PROVE TypeOK'
  <2>1. ServerTypeOK' /\ WorkerTypeOK' /\ AgentTypeOK' /\ HistoryTypeOK'
    BY <1>26 DEF TypeOK, HandleResult, ServerTypeOK, serverVars, WorkerTypeOK, AgentTypeOK,
       agentVars, HistoryTypeOK, histVars
  <2>2. StoreTypeOK'
    <3> DEFINE m == Head(toServer[r])
    <3>1. m \in Report /\ m.type = "result"
      BY <1>26, ReceiveTyped DEF TypeOK, HandleResult
    <3>2. restoreResultOutcome(m) \in Phases /\ m.res \in RunStatuses
      BY <3>1, OutcomeTyped
    <3> DEFINE to == IF restoreResultOutcome(m) = "rollback_failed" THEN "failed" ELSE m.res
    <3>3. to \in RunStatuses
      BY <3>2, Values
    <3>4. FinishRestoreRun(r, {"queued", "dispatched", "running"}, to,
       restoreResultOutcome(m))
      BY <1>26 DEF HandleResult
    <3> HIDE DEF to, m
    <3> QED
      BY <3>2, <3>3, <3>4, FinishTyped DEF TypeOK
  <2>3. StreamTypeOK'
    BY <1>26, ReceiveTyped DEF TypeOK, HandleResult, StreamTypeOK, netVars
  <2> QED
    BY <2>1, <2>2, <2>3 DEF TypeOK
<1>27. ASSUME NEW r \in Restores, DisconnectRun(r) PROVE TypeOK'
  <2>1. WorkerTypeOK' /\ StreamTypeOK' /\ AgentTypeOK' /\ HistoryTypeOK'
    BY <1>27 DEF TypeOK, DisconnectRun, WorkerTypeOK, serverVars, StreamTypeOK, netVars,
       AgentTypeOK, agentVars, HistoryTypeOK, histVars
  <2>2. StoreTypeOK'
    BY <1>27, UpdatePhaseTyped, Values DEF TypeOK, DisconnectRun, StoreTypeOK, dbVars
  <2>3. ServerTypeOK'
    BY <1>27 DEF TypeOK, DisconnectRun, ServerTypeOK, serverVars
  <2> QED
    BY <2>1, <2>2, <2>3 DEF TypeOK
<1>28. ASSUME NEW r \in Restores, RecoverRun(r) PROVE TypeOK'
  <2>1. WorkerTypeOK' /\ StreamTypeOK' /\ AgentTypeOK' /\ HistoryTypeOK'
    BY <1>28 DEF TypeOK, RecoverRun, WorkerTypeOK, serverVars, StreamTypeOK, netVars,
       AgentTypeOK, agentVars, HistoryTypeOK, histVars
  <2>2. StoreTypeOK'
    BY <1>28, TransitionTyped, Values DEF TypeOK, RecoverRun, StoreTypeOK, dbVars
  <2>3. ServerTypeOK'
    BY <1>28 DEF TypeOK, RecoverRun, ServerTypeOK, serverVars
  <2> QED
    BY <2>1, <2>2, <2>3 DEF TypeOK
<1>29. ASSUME NEW r \in Restores, RecoverRequest(r) PROVE TypeOK'
  <2>1. WorkerTypeOK' /\ StreamTypeOK' /\ AgentTypeOK' /\ HistoryTypeOK'
    BY <1>29 DEF TypeOK, RecoverRequest, WorkerTypeOK, serverVars, StreamTypeOK, netVars,
       AgentTypeOK, agentVars, HistoryTypeOK, histVars
  <2>2. StoreTypeOK'
    BY <1>29, FinishTyped, Values DEF TypeOK, RecoverRequest, StoreTypeOK, dbVars
  <2>3. ServerTypeOK'
    BY <1>29 DEF TypeOK, RecoverRequest, ServerTypeOK, serverVars
  <2> QED
    BY <2>1, <2>2, <2>3 DEF TypeOK
<1>30. ASSUME NEW r \in Restores, AcceptCommand(r) PROVE TypeOK'
  <2>1. StoreTypeOK' /\ ServerTypeOK' /\ WorkerTypeOK'
    BY <1>30 DEF TypeOK, AcceptCommand, StoreTypeOK, dbVars, ServerTypeOK, serverVars,
       WorkerTypeOK
  <2>2. StreamTypeOK'
    BY <1>30, SendTyped, AgentReceiveTyped, ReportTyped DEF TypeOK, AcceptCommand,
       StreamTypeOK, netVars
  <2>3. AgentTypeOK'
    BY <1>30, ConfirmTyped DEF TypeOK, AcceptCommand, AgentTypeOK, agentVars
  <2>4. HistoryTypeOK'
    BY <1>30 DEF TypeOK, AcceptCommand, HistoryTypeOK, histVars
  <2> QED
    BY <2>1, <2>2, <2>3, <2>4 DEF TypeOK
<1>31. ASSUME NEW r \in Restores, TempDirFails(r) PROVE TypeOK'
  <2>1. StoreTypeOK' /\ ServerTypeOK' /\ WorkerTypeOK'
    BY <1>31 DEF TypeOK, TempDirFails, StoreTypeOK, dbVars, ServerTypeOK, serverVars,
       WorkerTypeOK
  <2>2. StreamTypeOK'
    <3>1. Accepted \in Report /\ Result("failed", "none") \in Report
      BY ReportTyped DEF Terminal
    <3>2. toServer[r] \o <<Accepted, Result("failed", "none")>> \in Seq(Report)
      BY <3>1 DEF TypeOK, StreamTypeOK
    <3> QED
      BY <1>31, <3>2, AgentReceiveTyped DEF TypeOK, TempDirFails, StreamTypeOK
  <2>3. AgentTypeOK'
    <3>1. Result("failed", "none") \in Report
      BY ReportTyped DEF Terminal
    <3> QED
      BY <1>31, <3>1 DEF TypeOK, TempDirFails, AgentTypeOK
  <2>4. HistoryTypeOK'
    BY <1>31 DEF TypeOK, TempDirFails, Fault, HistoryTypeOK, histVars
  <2> QED
    BY <2>1, <2>2, <2>3, <2>4 DEF TypeOK
<1>32. ASSUME NEW r \in Restores, ReceiveCancel(r) PROVE TypeOK'
  <2>1. StoreTypeOK' /\ ServerTypeOK' /\ WorkerTypeOK' /\ HistoryTypeOK'
    BY <1>32 DEF TypeOK, ReceiveCancel, StoreTypeOK, dbVars, ServerTypeOK, serverVars,
       WorkerTypeOK, HistoryTypeOK, histVars
  <2>2. StreamTypeOK'
    BY <1>32, AgentReceiveTyped DEF TypeOK, ReceiveCancel, StreamTypeOK, netVars
  <2>3. AgentTypeOK'
    BY <1>32, ConfirmTyped DEF TypeOK, ReceiveCancel, AgentTypeOK, agentVars
  <2> QED
    BY <2>1, <2>2, <2>3 DEF TypeOK
<1>33. ASSUME NEW r \in Restores, StartPreBackup(r) PROVE TypeOK'
  <2>1. StoreTypeOK' /\ ServerTypeOK' /\ WorkerTypeOK' /\ HistoryTypeOK'
    BY <1>33 DEF TypeOK, StartPreBackup, StoreTypeOK, dbVars, ServerTypeOK, serverVars,
       WorkerTypeOK, HistoryTypeOK, histVars
  <2>2. StreamTypeOK'
    BY <1>33, SendTyped, ReportTyped DEF TypeOK, StartPreBackup, StreamTypeOK, netVars
  <2>3. AgentTypeOK'
    BY <1>33 DEF TypeOK, StartPreBackup, AgentTypeOK, agentVars
  <2> QED
    BY <2>1, <2>2, <2>3 DEF TypeOK
<1>34. ASSUME NEW r \in Restores, StartImport(r) PROVE TypeOK'
  <2>1. StoreTypeOK' /\ ServerTypeOK' /\ WorkerTypeOK'
    BY <1>34 DEF TypeOK, StartImport, StoreTypeOK, dbVars, ServerTypeOK, serverVars,
       WorkerTypeOK
  <2>2. StreamTypeOK'
    BY <1>34, SendTyped, ReportTyped DEF TypeOK, StartImport, StreamTypeOK, netVars
  <2>3. AgentTypeOK'
    BY <1>34 DEF TypeOK, StartImport, AgentTypeOK, agentVars
  <2>4. HistoryTypeOK'
    BY <1>34 DEF TypeOK, StartImport, HistoryTypeOK, histVars
  <2> QED
    BY <2>1, <2>2, <2>3, <2>4 DEF TypeOK
<1>35. ASSUME NEW r \in Restores, StartRollback(r) PROVE TypeOK'
  <2>1. StoreTypeOK' /\ ServerTypeOK' /\ WorkerTypeOK' /\ HistoryTypeOK'
    BY <1>35 DEF TypeOK, StartRollback, StoreTypeOK, dbVars, ServerTypeOK, serverVars,
       WorkerTypeOK, HistoryTypeOK, histVars
  <2>2. StreamTypeOK'
    BY <1>35, SendTyped, ReportTyped DEF TypeOK, StartRollback, StreamTypeOK, netVars
  <2>3. AgentTypeOK'
    BY <1>35 DEF TypeOK, StartRollback, AgentTypeOK, agentVars
  <2> QED
    BY <2>1, <2>2, <2>3 DEF TypeOK
<1>36. ASSUME NEW r \in Restores, FailPreparing(r) PROVE TypeOK'
  <2>1. StoreTypeOK' /\ ServerTypeOK' /\ WorkerTypeOK'
    BY <1>36 DEF TypeOK, FailPreparing, Settle, StoreTypeOK, dbVars, ServerTypeOK,
       serverVars, WorkerTypeOK
  <2>2. StreamTypeOK' /\ AgentTypeOK'
    BY <1>36, SettleTyped, Values DEF TypeOK, FailPreparing, Settle, StreamTypeOK, netVars
  <2>3. HistoryTypeOK'
    BY <1>36, Values DEF TypeOK, FailPreparing, Settle, HistoryTypeOK
  <2> QED
    BY <2>1, <2>2, <2>3 DEF TypeOK
<1>37. ASSUME NEW r \in Restores, FailPreBackup(r) PROVE TypeOK'
  <2>1. StoreTypeOK' /\ ServerTypeOK' /\ WorkerTypeOK'
    BY <1>37 DEF TypeOK, FailPreBackup, Settle, StoreTypeOK, dbVars, ServerTypeOK,
       serverVars, WorkerTypeOK
  <2>2. StreamTypeOK' /\ AgentTypeOK'
    BY <1>37, SettleTyped, Values DEF TypeOK, FailPreBackup, Settle, StreamTypeOK, netVars
  <2>3. HistoryTypeOK'
    BY <1>37, Values DEF TypeOK, FailPreBackup, Settle, HistoryTypeOK
  <2> QED
    BY <2>1, <2>2, <2>3 DEF TypeOK
<1>38. ASSUME NEW r \in Restores, FailFilesystem(r) PROVE TypeOK'
  <2>1. StoreTypeOK' /\ ServerTypeOK' /\ WorkerTypeOK'
    BY <1>38 DEF TypeOK, FailFilesystem, Settle, StoreTypeOK, dbVars, ServerTypeOK,
       serverVars, WorkerTypeOK
  <2>2. StreamTypeOK' /\ AgentTypeOK'
    BY <1>38, SettleTyped, Values DEF TypeOK, FailFilesystem, Settle, StreamTypeOK, netVars
  <2>3. HistoryTypeOK'
    BY <1>38, Values DEF TypeOK, FailFilesystem, Settle, HistoryTypeOK
  <2> QED
    BY <2>1, <2>2, <2>3 DEF TypeOK
<1>39. ASSUME NEW r \in Restores, Succeed(r) PROVE TypeOK'
  <2>1. StoreTypeOK' /\ ServerTypeOK' /\ WorkerTypeOK'
    BY <1>39 DEF TypeOK, Succeed, Settle, StoreTypeOK, dbVars, ServerTypeOK, serverVars,
       WorkerTypeOK
  <2>2. StreamTypeOK' /\ AgentTypeOK'
    BY <1>39, SettleTyped, Values DEF TypeOK, Succeed, Settle, StreamTypeOK, netVars
  <2>3. HistoryTypeOK'
    BY <1>39, Values DEF TypeOK, Succeed, Settle, HistoryTypeOK
  <2> QED
    BY <2>1, <2>2, <2>3 DEF TypeOK
<1>40. ASSUME NEW r \in Restores, FinishRollback(r) PROVE TypeOK'
  <2>1. StoreTypeOK' /\ ServerTypeOK' /\ WorkerTypeOK'
    BY <1>40 DEF TypeOK, FinishRollback, Settle, StoreTypeOK, dbVars, ServerTypeOK,
       serverVars, WorkerTypeOK
  <2>2. StreamTypeOK' /\ AgentTypeOK'
    BY <1>40, SettleTyped, Values DEF TypeOK, FinishRollback, Settle, StreamTypeOK, netVars
  <2>3. HistoryTypeOK'
    BY <1>40, Values DEF TypeOK, FinishRollback, Settle, HistoryTypeOK
  <2> QED
    BY <2>1, <2>2, <2>3 DEF TypeOK
<1>41. ASSUME NEW a \in Agents, LinkBreaks(a) PROVE TypeOK'
  <2>1. StoreTypeOK' /\ ServerTypeOK' /\ WorkerTypeOK' /\ AgentTypeOK'
    BY <1>41 DEF TypeOK, LinkBreaks, StoreTypeOK, dbVars, ServerTypeOK, serverVars,
       WorkerTypeOK, AgentTypeOK, agentVars
  <2>2. StreamTypeOK'
    BY <1>41 DEF TypeOK, LinkBreaks, StreamTypeOK, netVars
  <2>3. HistoryTypeOK'
    BY <1>41 DEF TypeOK, LinkBreaks, Fault, HistoryTypeOK, histVars
  <2> QED
    BY <2>1, <2>2, <2>3 DEF TypeOK
<1>42. ASSUME NEW a \in Agents, StreamEnds(a) PROVE TypeOK'
  <2>1. StoreTypeOK' /\ WorkerTypeOK' /\ AgentTypeOK' /\ HistoryTypeOK'
    BY <1>42 DEF TypeOK, StreamEnds, StoreTypeOK, dbVars, WorkerTypeOK, serverVars,
       AgentTypeOK, agentVars, HistoryTypeOK, histVars
  <2>2. ServerTypeOK'
    BY <1>42 DEF TypeOK, StreamEnds, Of, ServerTypeOK, serverVars
  <2>3. StreamTypeOK'
    BY <1>42 DEF TypeOK, StreamEnds, Of, StreamTypeOK, netVars
  <2> QED
    BY <2>1, <2>2, <2>3 DEF TypeOK
<1>43. ASSUME NEW a \in Agents, DisconnectList(a) PROVE TypeOK'
  <2>1. StoreTypeOK' /\ WorkerTypeOK' /\ StreamTypeOK' /\ AgentTypeOK' /\ HistoryTypeOK'
    BY <1>43 DEF TypeOK, DisconnectList, StoreTypeOK, dbVars, WorkerTypeOK, serverVars,
       StreamTypeOK, netVars, AgentTypeOK, agentVars, HistoryTypeOK, histVars
  <2>2. ServerTypeOK'
    BY <1>43 DEF TypeOK, DisconnectList, Of, ServerTypeOK, serverVars
  <2> QED
    BY <2>1, <2>2 DEF TypeOK
<1>44. ASSUME NEW a \in Agents, Reconnect(a) PROVE TypeOK'
  <2>1. StoreTypeOK' /\ ServerTypeOK' /\ WorkerTypeOK' /\ AgentTypeOK' /\ HistoryTypeOK'
    BY <1>44 DEF TypeOK, Reconnect, StoreTypeOK, dbVars, ServerTypeOK, serverVars,
       WorkerTypeOK, AgentTypeOK, agentVars, HistoryTypeOK, histVars
  <2>2. StreamTypeOK'
    <3>1. ASSUME NEW r \in Restores, held[r] # NoResult PROVE <<held[r]>> \in Seq(Report)
      <4>1. held[r] \in Report
        BY <3>1 DEF TypeOK, AgentTypeOK
      <4> QED
        BY <4>1
    <3>2. toServer' \in [Restores -> Seq(Report)]
      BY <1>44, <3>1 DEF TypeOK, Reconnect, StreamTypeOK
    <3>3. toAgent' \in [Restores -> Seq({"execute", "cancel"})]
      BY <1>44 DEF TypeOK, Reconnect, StreamTypeOK
    <3> QED
      BY <1>44, <3>2, <3>3 DEF TypeOK, Reconnect, StreamTypeOK
  <2> QED
    BY <2>1, <2>2 DEF TypeOK
<1>45. ASSUME NEW a \in Agents, ReportCapabilities(a) PROVE TypeOK'
  <2>1. StoreTypeOK' /\ ServerTypeOK' /\ WorkerTypeOK' /\ AgentTypeOK' /\ HistoryTypeOK'
    BY <1>45 DEF TypeOK, ReportCapabilities, StoreTypeOK, dbVars, ServerTypeOK, serverVars,
       WorkerTypeOK, AgentTypeOK, agentVars, HistoryTypeOK, histVars
  <2>2. StreamTypeOK'
    BY <1>45 DEF TypeOK, ReportCapabilities, StreamTypeOK, netVars
  <2> QED
    BY <2>1, <2>2 DEF TypeOK
<1>46. ASSUME NEW a \in Agents, ReceiveWelcome(a) PROVE TypeOK'
  <2>1. StoreTypeOK' /\ ServerTypeOK' /\ WorkerTypeOK' /\ HistoryTypeOK'
    BY <1>46 DEF TypeOK, ReceiveWelcome, StoreTypeOK, dbVars, ServerTypeOK, serverVars,
       WorkerTypeOK, HistoryTypeOK, histVars
  <2>2. StreamTypeOK'
    BY <1>46 DEF TypeOK, ReceiveWelcome, StreamTypeOK, netVars
  <2>3. AgentTypeOK'
    BY <1>46, ConfirmTyped DEF TypeOK, ReceiveWelcome, AgentTypeOK, agentVars
  <2> QED
    BY <2>1, <2>2, <2>3 DEF TypeOK
<1>47. ASSUME NEW a \in Agents, AgentRestart(a) PROVE TypeOK'
  <2>1. StoreTypeOK' /\ ServerTypeOK' /\ WorkerTypeOK'
    BY <1>47 DEF TypeOK, AgentRestart, StoreTypeOK, dbVars, ServerTypeOK, serverVars,
       WorkerTypeOK
  <2>2. StreamTypeOK'
    BY <1>47 DEF TypeOK, AgentRestart, Of, StreamTypeOK, netVars
  <2>3. AgentTypeOK'
    BY <1>47, ConfirmTyped DEF TypeOK, AgentRestart, Of, AgentTypeOK, agentVars
  <2>4. HistoryTypeOK'
    BY <1>47 DEF TypeOK, AgentRestart, Fault, HistoryTypeOK, histVars
  <2> QED
    BY <2>1, <2>2, <2>3, <2>4 DEF TypeOK
<1>48. ASSUME ServerCrash PROVE TypeOK'
  <2>1. StoreTypeOK' /\ AgentTypeOK'
    BY <1>48 DEF TypeOK, ServerCrash, StoreTypeOK, dbVars, AgentTypeOK, agentVars
  <2>2. ServerTypeOK'
    BY <1>48 DEF TypeOK, ServerCrash, ServerTypeOK, serverVars
  <2>3. WorkerTypeOK'
    BY <1>48 DEF TypeOK, ServerCrash, WorkerTypeOK, serverVars
  <2>4. StreamTypeOK'
    BY <1>48 DEF TypeOK, ServerCrash, StreamTypeOK, netVars
  <2>5. HistoryTypeOK'
    BY <1>48 DEF TypeOK, ServerCrash, Fault, HistoryTypeOK, histVars
  <2> QED
    BY <2>1, <2>2, <2>3, <2>4, <2>5 DEF TypeOK
<1>49. ASSUME StartServing PROVE TypeOK'
  <2>1. StoreTypeOK' /\ WorkerTypeOK' /\ StreamTypeOK' /\ AgentTypeOK' /\ HistoryTypeOK'
    BY <1>49 DEF TypeOK, StartServing, StoreTypeOK, dbVars, WorkerTypeOK, serverVars,
       StreamTypeOK, netVars, AgentTypeOK, agentVars, HistoryTypeOK, histVars
  <2>2. ServerTypeOK'
    BY <1>49 DEF TypeOK, StartServing, ServerTypeOK, serverVars
  <2> QED
    BY <2>1, <2>2 DEF TypeOK
<1>50. CASE UNCHANGED vars
  BY <1>50 DEF vars, dbVars, serverVars, netVars, agentVars, histVars, TypeOK, StoreTypeOK,
     ServerTypeOK,
     WorkerTypeOK, StreamTypeOK, AgentTypeOK, HistoryTypeOK
<1> QED
  BY <1>1, <1>2, <1>3, <1>4, <1>5, <1>6, <1>7, <1>8, <1>9, <1>10, <1>11, <1>12, <1>13,
     <1>14, <1>15, <1>16, <1>17, <1>18, <1>19, <1>20, <1>21, <1>22, <1>23, <1>24, <1>25,
     <1>26, <1>27, <1>28, <1>29, <1>30, <1>31, <1>32, <1>33, <1>34, <1>35, <1>36, <1>37,
     <1>38, <1>39, <1>40, <1>41, <1>42, <1>43, <1>44, <1>45, <1>46, <1>47, <1>48, <1>49,
     <1>50 DEF Next, WorkerNext, ServerNext, AgentNext, StreamNext

\* The initial rows, streams and memories are typed.
LEMMA TypeInit == Init => TypeOK
  BY RestoreAssumption DEF Init, TypeOK, StoreTypeOK, ServerTypeOK, WorkerTypeOK, StreamTypeOK,
     AgentTypeOK, HistoryTypeOK, RunStatuses, Phases

\* Every variable keeps its type, a worker is idle exactly when it holds no
\* restore, and a busy one holds a restore of its own repository, for any
\* number of restores, repositories and agents.
THEOREM TypeCorrect == Spec => []TypeOK
<1>1. TypeOK /\ UNCHANGED vars => TypeOK'
  BY TypeStep
<1> QED
  BY TypeInit, TypeStep, PTL DEF Spec

-----------------------------------------------------------------------------
(* The rows of a restore.                                                   *)

\* What the three inserts of StartRestore need: a run that does not exist has
\* no request, and between its two inserts a filesystem restore has none yet.
RowsAgree ==
  \A s \in Restores :
    /\ status[s] = "absent" => phase[s] = "absent" /\ starting[s] = "none"
    /\ starting[s] = "run" => phase[s] = "absent" /\ s \notin Databases

\* No insert: the phase neither leaves "absent" nor a terminal value, except
\* that the operator may resolve a manual one.
PhaseKept(s) ==
  /\ phase[s] \in Releasing \cup {"absent"} => phase'[s] = phase[s]
  /\ phase[s] \in Manual => phase'[s] \in {phase[s], "manual_recovery_resolved"}

Quiet ==
  \A s \in Restores :
    /\ PhaseKept(s)
    /\ status'[s] = "absent" => status[s] = "absent" /\ starting'[s] = starting[s]
    /\ starting'[s] = "run" => starting[s] = "run"

\* TransitionRun neither inserts nor deletes a run.
LEMMA TransitionQuiet ==
  ASSUME StoreTypeOK, NEW r \in Restores, NEW from, NEW to \in RunStatuses, NEW newLease,
         TransitionRun(r, from, to, newLease)
  PROVE  \A s \in Restores : status'[s] = "absent" => status[s] = "absent"
  BY DEF StoreTypeOK, TransitionRun, CanTransition, RunStatuses

\* UpdateRestorePhase leaves absent and terminal phases alone.
LEMMA UpdatePhaseQuiet ==
  ASSUME StoreTypeOK, NEW r \in Restores, NEW ph, UpdateRestorePhase(r, ph)
  PROVE  \A s \in Restores : PhaseKept(s)
  BY DEF StoreTypeOK, UpdateRestorePhase, PhaseKept, TerminalPhases

\* So does updateRestoreRequestTx: a released phase may only be written again
\* with the value it has.
LEMMA UpdateRequestQuiet ==
  ASSUME StoreTypeOK, NEW r \in Restores, NEW ph, updateRestoreRequestTx(r, ph)
  PROVE  \A s \in Restores : PhaseKept(s)
  BY DEF StoreTypeOK, updateRestoreRequestTx, PhaseKept, Releasing, ReportedSafe, Manual

\* FinishRestoreRun does both.
LEMMA FinishQuiet ==
  ASSUME StoreTypeOK, NEW r \in Restores, NEW froms, NEW to \in RunStatuses, NEW ph,
         FinishRestoreRun(r, froms, to, ph)
  PROVE  \A s \in Restores : PhaseKept(s) /\ (status'[s] = "absent" => status[s] = "absent")
<1>1. CASE updateRestoreRequestTx(r, ph)
  BY <1>1, UpdateRequestQuiet DEF StoreTypeOK, FinishRestoreRun, RunStatuses, dbVars
<1>2. CASE UNCHANGED dbVars
  BY <1>2 DEF PhaseKept, dbVars
<1> QED
  BY <1>1, <1>2 DEF FinishRestoreRun

\* RequestRestoreStop does nothing to an absent or terminal phase.
LEMMA StopQuiet ==
  ASSUME StoreTypeOK, NEW r \in Restores, RequestRestoreStop(r)
  PROVE  \A s \in Restores : PhaseKept(s) /\ status'[s] = status[s]
  BY DEF StoreTypeOK, RequestRestoreStop, PhaseKept, TerminalPhases, dbVars

\* Every step but the inserts of StartRestore is quiet.
LEMMA QuietStep ==
  ASSUME TypeOK, RowsAgree, [Next]_vars,
         \A r \in Restores : ~(CreateDatabaseRestore(r) \/ CreateFilesystemRun(r)
                                \/ CreateRestoreRequest(r))
  PROVE  Quiet
<1> USE RestoreAssumption DEF TypeOK
<1>1. ASSUME NEW p \in Repositories, Claim(p) PROVE Quiet
  BY <1>1, TransitionQuiet, Values DEF Claim, workerFrame, WorkerAt, WorkerTypeOK,
     RowsAgree, Quiet, PhaseKept
<1>2. ASSUME NEW p \in Repositories, BuildFails(p) PROVE Quiet
  BY <1>2, TransitionQuiet, Values DEF BuildFails, workerFrame, WorkerAt, WorkerTypeOK,
     RowsAgree, Quiet, PhaseKept
<1>3. ASSUME NEW p \in Repositories, SendCommand(p) PROVE Quiet
  BY <1>3 DEF SendCommand, workerFrame, Quiet, PhaseKept, dbVars
<1>4. ASSUME NEW p \in Repositories, RefuseUnsafe(p) PROVE Quiet
  BY <1>4, FinishQuiet, Values DEF RefuseUnsafe, workerFrame, WorkerAt, WorkerTypeOK,
     RowsAgree, Quiet, PhaseKept, dbVars
<1>5. ASSUME NEW p \in Repositories, SendFails(p) PROVE Quiet
  BY <1>5, TransitionQuiet, Values DEF SendFails, workerFrame, WorkerAt, WorkerTypeOK,
     RowsAgree, Quiet, PhaseKept
<1>6. ASSUME NEW p \in Repositories, Poll(p) PROVE Quiet
  BY <1>6 DEF Poll, workerFrame, Quiet, PhaseKept, dbVars
<1>7. ASSUME NEW r \in Restores, SavePassword(r) PROVE Quiet
  BY <1>7 DEF SavePassword, RowsAgree, Quiet, PhaseKept, dbVars, StoreTypeOK, ServerTypeOK
<1>8. ASSUME NEW r \in Restores, SavePasswordFails(r) PROVE Quiet
  BY <1>8, TransitionQuiet, Values DEF SavePasswordFails, RowsAgree, Quiet, PhaseKept,
     ServerTypeOK
<1>9. ASSUME NEW r \in Restores, Take(r) PROVE Quiet
  BY <1>9 DEF Take, workerFrame, Quiet, PhaseKept, dbVars
<1>10. ASSUME NEW r \in Restores, TakeWithoutRequest(r) PROVE Quiet
  BY <1>10, FinishQuiet, Values DEF TakeWithoutRequest, workerFrame, RowsAgree, Quiet,
     PhaseKept, dbVars
<1>11. ASSUME NEW r \in Restores, CancelRead(r) PROVE Quiet
  BY <1>11 DEF CancelRead, Quiet, PhaseKept, dbVars
<1>12. ASSUME NEW r \in Restores, CancelCommit(r) PROVE Quiet
  BY <1>12, FinishQuiet, StopQuiet, Values DEF CancelCommit, RowsAgree, Quiet, PhaseKept,
     dbVars
<1>13. ASSUME NEW r \in Restores, LeaseRunsOut(r) PROVE Quiet
  BY <1>13 DEF LeaseRunsOut, Quiet, PhaseKept, serverVars
<1>14. ASSUME NEW r \in Restores, LeaseRunsOutEarly(r) PROVE Quiet
  BY <1>14 DEF LeaseRunsOutEarly, Quiet, PhaseKept, serverVars
<1>15. ASSUME NEW r \in Restores, WatchdogList(r) PROVE Quiet
  BY <1>15 DEF WatchdogList, Quiet, PhaseKept, dbVars
<1>16. ASSUME NEW r \in Restores, WatchdogDecide(r) PROVE Quiet
  BY <1>16 DEF WatchdogDecide, Quiet, PhaseKept, dbVars
<1>17. ASSUME NEW r \in Restores, WatchdogWrite(r) PROVE Quiet
  BY <1>17, FinishQuiet, StopQuiet, Values DEF WatchdogWrite, RowsAgree, Quiet, PhaseKept,
     dbVars
<1>18. ASSUME NEW r \in Restores, FailStaleQueued(r) PROVE Quiet
  BY <1>18, TransitionQuiet, Values DEF FailStaleQueued, RowsAgree, Quiet, PhaseKept,
     serverVars
<1>19. ASSUME NEW r \in Restores, Resolve(r) PROVE Quiet
  BY <1>19 DEF Resolve, serverVars, StoreTypeOK, RowsAgree, Quiet, PhaseKept, Releasing,
     ReportedSafe,
     Manual
<1>20. ASSUME NEW r \in Restores, HandleAccepted(r) PROVE Quiet
  BY <1>20, TransitionQuiet, Values DEF HandleAccepted, RowsAgree, Quiet, PhaseKept
<1>21. ASSUME NEW r \in Restores, RecordRunning(r) PROVE Quiet
  BY <1>21, UpdatePhaseQuiet, Values DEF RecordRunning, RowsAgree, Quiet, PhaseKept
<1>22. ASSUME NEW r \in Restores, HandleProgress(r) PROVE Quiet
  BY <1>22, UpdatePhaseQuiet, Values DEF HandleProgress, RowsAgree, Quiet, PhaseKept,
     serverVars
<1>23. ASSUME NEW r \in Restores, HandleResult(r) PROVE Quiet
  <2> DEFINE m == Head(toServer[r])
  <2>1. m \in Report /\ m.type = "result"
    BY <1>23, ReceiveTyped DEF HandleResult
  <2>2. m.res \in RunStatuses
    BY <2>1, OutcomeTyped
  <2> DEFINE to == IF restoreResultOutcome(m) = "rollback_failed" THEN "failed" ELSE m.res
  <2>3. to \in RunStatuses
    BY <2>2, Values
  <2>4. FinishRestoreRun(r, {"queued", "dispatched", "running"}, to,
     restoreResultOutcome(m))
    BY <1>23 DEF HandleResult
  <2>5. starting' = starting
    BY <1>23 DEF HandleResult, serverVars
  <2> HIDE DEF to, m
  <2> QED
    BY <2>3, <2>4, <2>5, FinishQuiet DEF Quiet
<1>24. ASSUME NEW r \in Restores, DisconnectRun(r) PROVE Quiet
  BY <1>24, UpdatePhaseQuiet, Values DEF DisconnectRun, RowsAgree, Quiet, PhaseKept
<1>25. ASSUME NEW r \in Restores, RecoverRun(r) PROVE Quiet
  BY <1>25, TransitionQuiet, Values DEF RecoverRun, RowsAgree, Quiet, PhaseKept
<1>26. ASSUME NEW r \in Restores, RecoverRequest(r) PROVE Quiet
  BY <1>26, FinishQuiet, Values DEF RecoverRequest, RowsAgree, Quiet, PhaseKept, dbVars
<1>27. ASSUME NEW r \in Restores, AcceptCommand(r) PROVE Quiet
  BY <1>27 DEF AcceptCommand, Quiet, PhaseKept, dbVars, serverVars
<1>28. ASSUME NEW r \in Restores, TempDirFails(r) PROVE Quiet
  BY <1>28 DEF TempDirFails, Quiet, PhaseKept, dbVars, serverVars
<1>29. ASSUME NEW r \in Restores, ReceiveCancel(r) PROVE Quiet
  BY <1>29 DEF ReceiveCancel, Quiet, PhaseKept, dbVars, serverVars
<1>30. ASSUME NEW r \in Restores, StartPreBackup(r) PROVE Quiet
  BY <1>30 DEF StartPreBackup, Quiet, PhaseKept, dbVars, serverVars
<1>31. ASSUME NEW r \in Restores, StartImport(r) PROVE Quiet
  BY <1>31 DEF StartImport, Quiet, PhaseKept, dbVars, serverVars
<1>32. ASSUME NEW r \in Restores, StartRollback(r) PROVE Quiet
  BY <1>32 DEF StartRollback, Quiet, PhaseKept, dbVars, serverVars
<1>33. ASSUME NEW r \in Restores, FailPreparing(r) PROVE Quiet
  BY <1>33 DEF FailPreparing, Settle, Quiet, PhaseKept, dbVars, serverVars
<1>34. ASSUME NEW r \in Restores, FailPreBackup(r) PROVE Quiet
  BY <1>34 DEF FailPreBackup, Settle, Quiet, PhaseKept, dbVars, serverVars
<1>35. ASSUME NEW r \in Restores, FailFilesystem(r) PROVE Quiet
  BY <1>35 DEF FailFilesystem, Settle, Quiet, PhaseKept, dbVars, serverVars
<1>36. ASSUME NEW r \in Restores, Succeed(r) PROVE Quiet
  BY <1>36 DEF Succeed, Settle, Quiet, PhaseKept, dbVars, serverVars
<1>37. ASSUME NEW r \in Restores, FinishRollback(r) PROVE Quiet
  BY <1>37 DEF FinishRollback, Settle, Quiet, PhaseKept, dbVars, serverVars
<1>38. ASSUME NEW a \in Agents, LinkBreaks(a) PROVE Quiet
  BY <1>38 DEF LinkBreaks, Quiet, PhaseKept, dbVars, serverVars
<1>39. ASSUME NEW a \in Agents, StreamEnds(a) PROVE Quiet
  BY <1>39 DEF StreamEnds, Quiet, PhaseKept, dbVars
<1>40. ASSUME NEW a \in Agents, DisconnectList(a) PROVE Quiet
  BY <1>40 DEF DisconnectList, Quiet, PhaseKept, dbVars
<1>41. ASSUME NEW a \in Agents, Reconnect(a) PROVE Quiet
  BY <1>41 DEF Reconnect, Quiet, PhaseKept, dbVars, serverVars
<1>42. ASSUME NEW a \in Agents, ReportCapabilities(a) PROVE Quiet
  BY <1>42 DEF ReportCapabilities, Quiet, PhaseKept, dbVars, serverVars
<1>43. ASSUME NEW a \in Agents, ReceiveWelcome(a) PROVE Quiet
  BY <1>43 DEF ReceiveWelcome, Quiet, PhaseKept, dbVars, serverVars
<1>44. ASSUME NEW a \in Agents, AgentRestart(a) PROVE Quiet
  BY <1>44 DEF AgentRestart, Quiet, PhaseKept, dbVars, serverVars
<1>45. ASSUME ServerCrash PROVE Quiet
  BY <1>45 DEF ServerCrash, RowsAgree, Quiet, PhaseKept, dbVars, StoreTypeOK, ServerTypeOK
<1>46. ASSUME StartServing PROVE Quiet
  BY <1>46 DEF StartServing, Quiet, PhaseKept, dbVars
<1>47. CASE UNCHANGED vars
  BY <1>47 DEF vars, dbVars, serverVars, Quiet, PhaseKept
<1> QED
  BY <1>1, <1>2, <1>3, <1>4, <1>5, <1>6, <1>7, <1>8, <1>9, <1>10, <1>11, <1>12, <1>13,
     <1>14, <1>15, <1>16, <1>17, <1>18, <1>19, <1>20, <1>21, <1>22, <1>23, <1>24, <1>25,
     <1>26, <1>27, <1>28, <1>29, <1>30, <1>31, <1>32, <1>33, <1>34, <1>35, <1>36, <1>37,
     <1>38, <1>39, <1>40, <1>41, <1>42, <1>43, <1>44, <1>45, <1>46, <1>47 DEF Next,
     WorkerNext, ServerNext, AgentNext, StreamNext

-----------------------------------------------------------------------------
(* The exclusion of database restores and the finality of phases.           *)

\* The occupancy is a matter of phases only: a request occupies unless it is
\* released or absent.
Inv == TypeOK /\ RowsAgree /\ DatabaseRestoreExclusive

\* The invariant holds before the first restore.
LEMMA InvInit == Init => Inv
<1> SUFFICES ASSUME Init PROVE Inv
  OBVIOUS
<1>1. TypeOK
  BY TypeInit
<1>2. RowsAgree
  BY DEF Init, RowsAgree
<1>3. DatabaseRestoreExclusive
  BY RestoreAssumption DEF Init, DatabaseRestoreExclusive
<1> QED
  BY <1>1, <1>2, <1>3 DEF Inv

\* Each insert finds its row absent; it alone makes a phase leave "absent".
LEMMA InvStep == Inv /\ [Next]_vars => Inv'
<1> SUFFICES ASSUME Inv, [Next]_vars PROVE Inv'
  OBVIOUS
<1> USE RestoreAssumption
<1>1. TypeOK'
  BY TypeStep DEF Inv
<1>2. ASSUME NEW r \in Restores, CreateDatabaseRestore(r) PROVE Inv'
  <2>1. RowsAgree'
    BY <1>2 DEF Inv, TypeOK, StoreTypeOK, ServerTypeOK, RowsAgree, CreateDatabaseRestore
  <2>2. DatabaseRestoreExclusive'
    BY <1>2 DEF Inv, TypeOK, StoreTypeOK, DatabaseRestoreExclusive, CreateDatabaseRestore
  <2> QED
    BY <1>1, <2>1, <2>2 DEF Inv
<1>3. ASSUME NEW r \in Restores, CreateFilesystemRun(r) PROVE Inv'
  <2>1. RowsAgree'
    BY <1>3 DEF Inv, TypeOK, StoreTypeOK, ServerTypeOK, RowsAgree, CreateFilesystemRun
  <2>2. DatabaseRestoreExclusive'
    BY <1>3 DEF Inv, DatabaseRestoreExclusive, CreateFilesystemRun
  <2> QED
    BY <1>1, <2>1, <2>2 DEF Inv
<1>4. ASSUME NEW r \in Restores, CreateRestoreRequest(r) PROVE Inv'
  <2>1. r \notin Databases /\ phase[r] = "absent" /\ status[r] # "absent"
    BY <1>4 DEF Inv, RowsAgree, CreateRestoreRequest
  <2>2. \A s \in Restores : status'[s] = "absent" => status[s] = "absent"
    BY <1>4, TransitionQuiet, Values DEF Inv, TypeOK, CreateRestoreRequest
  <2>3. RowsAgree'
    BY <1>4, <2>1, <2>2 DEF Inv, TypeOK, StoreTypeOK, ServerTypeOK, RowsAgree, CreateRestoreRequest
  <2>4. DatabaseRestoreExclusive'
    BY <1>4, <2>1 DEF Inv, TypeOK, StoreTypeOK, DatabaseRestoreExclusive, CreateRestoreRequest
  <2> QED
    BY <1>1, <2>3, <2>4 DEF Inv
<1>5. ASSUME Quiet PROVE Inv'
  <2>1. RowsAgree'
    BY <1>5 DEF Inv, Quiet, PhaseKept, RowsAgree
  <2>2. DatabaseRestoreExclusive'
    BY <1>5 DEF Inv, Quiet, PhaseKept, DatabaseRestoreExclusive
  <2> QED
    BY <1>1, <2>1, <2>2 DEF Inv
<1> QED
  BY <1>2, <1>3, <1>4, <1>5, QuietStep DEF Inv

\* The invariant holds in every reachable state.
LEMMA InvAlways == Spec => []Inv
  BY InvInit, InvStep, PTL DEF Spec

\* At most one database restore is neither released nor absent, whatever the
\* interleaving of restore requests, results, cancels, watchdog ticks,
\* disconnects, restarts and resolutions.
THEOREM DatabaseRestoresExcludeEachOther == Spec => []DatabaseRestoreExclusive
<1>1. Inv => DatabaseRestoreExclusive
  BY DEF Inv
<1> QED
  BY <1>1, InvAlways, PTL

\* One step never rewrites a terminal phase.
LEMMA FinalStep ==
  ASSUME Inv, [Next]_vars, NEW s \in Restores
  PROVE  /\ phase[s] \in Releasing => phase'[s] = phase[s]
         /\ phase[s] \in Manual => phase'[s] \in {phase[s], "manual_recovery_resolved"}
<1> USE RestoreAssumption
<1>1. "absent" \notin Releasing \cup Manual
  BY DEF Releasing, ReportedSafe, Manual
<1>2. CASE \E r \in Restores : CreateDatabaseRestore(r)
  BY <1>1, <1>2 DEF Inv, TypeOK, StoreTypeOK, RowsAgree, CreateDatabaseRestore
<1>3. CASE \E r \in Restores : CreateFilesystemRun(r)
  BY <1>3 DEF CreateFilesystemRun
<1>4. CASE \E r \in Restores : CreateRestoreRequest(r)
  BY <1>1, <1>4 DEF Inv, TypeOK, StoreTypeOK, RowsAgree, CreateRestoreRequest
<1>5. CASE Quiet
  BY <1>5 DEF Quiet, PhaseKept
<1> QED
  BY <1>2, <1>3, <1>4, <1>5, QuietStep DEF Inv

\* A released request never changes again, and one that waits for the operator
\* changes only by his resolution: late results, progress, timeouts, stops and
\* restarts never overwrite either.
THEOREM FinalPhases == Spec => TerminalPhasesAreFinal
<1>1. Inv /\ [Next]_vars =>
        [\A r \in Restores :
           /\ phase[r] \in Releasing => phase'[r] = phase[r]
           /\ phase[r] \in Manual => phase'[r] \in {phase[r], "manual_recovery_resolved"}]_vars
  BY FinalStep
<1> QED
  BY <1>1, InvAlways, PTL DEF Spec, TerminalPhasesAreFinal

-----------------------------------------------------------------------------
(* The one command of a restore, and what may release the occupancy.        *)

\* A stream to the agent has a command to execute, and at most one.
HasOrder(q) == \E i \in DOMAIN q : q[i] = "execute"
OneOrder(q) == \A i, j \in DOMAIN q : q[i] = "execute" /\ q[j] = "execute" => i = j

\* The messages of a stream.
Elems(q) == {q[i] : i \in DOMAIN q}

\* The worker has claimed the restore and is about to send its command.
AtSend(s) ==
  worker[RestoreRepository[s]] = s /\ WorkerAt(RestoreRepository[s], "send")

\* The agent has done and said nothing about the restore.
Pristine(s) ==
  /\ stage[s] = "none" /\ starts[s] = 0 /\ target[s] = "original"
  /\ toServer[s] = <<>> /\ held[s] = NoResult /\ reported[s] = "pending"

\* No command was ever sent, and none is about to be.
Untouched(s) == Pristine(s) /\ ~HasOrder(toAgent[s]) /\ ~AtSend(s)

\* What SafePhaseIsTruthful asks of a phase.
Truthful(s, ph) ==
  /\ ph = "succeeded" => target[s] = "restored"
  /\ ph \in ReportedSafe \ {"succeeded"} => target[s] = "original"

\* A result that would release the occupancy is true, and the pipeline ended.
Holds(s, m) ==
  (m.type = "result" /\ restoreResultOutcome(m) \in ReportedSafe)
     => stage[s] = "none" /\ Truthful(s, restoreResultOutcome(m))

\* A cancel that read "queued" will end a request whose run has ended already.
OpenCancel(s) ==
  canceller[s] = "queued" /\ status[s] \in Terminal /\ phase[s] \notin TerminalPhases

\* Where the command of a restore is: not sent while the run is queued or has no
\* request, with the worker, on the stream, or with the agent, and never in two
\* places.
CommandInv(s) ==
  /\ status[s] \in {"absent", "queued"} \/ phase[s] = "absent" => Untouched(s)
  /\ AtSend(s) => Pristine(s) /\ ~HasOrder(toAgent[s])
  /\ HasOrder(toAgent[s]) => Pristine(s)
  /\ OneOrder(toAgent[s])
  /\ starts[s] <= 1
  /\ stage[s] # "none" => starts[s] # 0
  /\ worker[RestoreRepository[s]] = s => phase[s] # "absent"

\* What the agent has said, or will say again, is true.
ResultInv(s) ==
  /\ stage[s] \in {"preparing", "pre_backup"} => target[s] = "original"
  /\ \A m \in Elems(toServer[s]) \cup {held[s]} : Holds(s, m)

\* Only a result, or the server's knowledge that nothing was sent, releases.
\* recoverStaleRuns ends a run before its request; no cancel that read "queued"
\* survives the restart to mistake such a run for one that was never sent.
ReleaseInv(s) ==
  /\ startup[s] # "none" => ~serving /\ canceller[s] = "none"
  /\ OpenCancel(s) => Untouched(s)
  /\ phase[s] \in ReportedSafe =>
       /\ status[s] \in Terminal /\ stage[s] = "none"
       /\ ~HasOrder(toAgent[s]) /\ ~AtSend(s)
       /\ Truthful(s, phase[s])

RestoreInv(s) == CommandInv(s) /\ ResultInv(s) /\ ReleaseInv(s)

\* What appending to and taking from the stream of commands does to its orders.
LEMMA OrderFacts ==
  ASSUME NEW q \in Seq({"execute", "cancel"})
  PROVE  /\ HasOrder(Append(q, "cancel")) => HasOrder(q)
         /\ OneOrder(q) => OneOrder(Append(q, "cancel"))
         /\ ~HasOrder(q) => OneOrder(Append(q, "execute"))
         /\ q # <<>> => (HasOrder(Tail(q)) => HasOrder(q))
         /\ q # <<>> => (OneOrder(q) => OneOrder(Tail(q)))
         /\ q # <<>> /\ Head(q) = "execute" =>
              HasOrder(q) /\ (OneOrder(q) => ~HasOrder(Tail(q)))
<1>1. HasOrder(Append(q, "cancel")) => HasOrder(q)
  BY DEF HasOrder
<1>2. OneOrder(q) => OneOrder(Append(q, "cancel"))
  BY DEF OneOrder
<1>3. ~HasOrder(q) => OneOrder(Append(q, "execute"))
  BY DEF OneOrder, HasOrder
<1>4. ASSUME q # <<>>, NEW i \in DOMAIN Tail(q)
      PROVE  i \in Nat /\ i + 1 \in DOMAIN q /\ Tail(q)[i] = q[i + 1] /\ i # 0
  BY <1>4
<1>5. q # <<>> => (HasOrder(Tail(q)) => HasOrder(q))
  BY <1>4 DEF HasOrder
<1>6. q # <<>> => (OneOrder(q) => OneOrder(Tail(q)))
  BY <1>4 DEF OneOrder
<1>7. ASSUME q # <<>>, Head(q) = "execute" PROVE 1 \in DOMAIN q /\ q[1] = "execute"
  BY <1>7
<1>8. q # <<>> /\ Head(q) = "execute" => HasOrder(q) /\ (OneOrder(q) => ~HasOrder(Tail(q)))
  BY <1>4, <1>7 DEF HasOrder, OneOrder
<1> QED
  BY <1>1, <1>2, <1>3, <1>5, <1>6, <1>8

\* An empty stream has no order.
LEMMA NoOrders == ~HasOrder(<<>>) /\ OneOrder(<<>>) /\ Elems(<<>>) = {}
  BY DEF HasOrder, OneOrder, Elems

\* The messages of a stream after a send or a receipt.
LEMMA ElemFacts ==
  ASSUME NEW q \in Seq(Report), NEW m \in Report, NEW n \in Report
  PROVE  /\ Elems(Append(q, m)) \subseteq Elems(q) \cup {m}
         /\ Elems(<<m>>) = {m}
         /\ Elems(q \o <<m, n>>) \subseteq Elems(q) \cup {m, n}
         /\ q # <<>> => Elems(Tail(q)) \subseteq Elems(q) /\ Head(q) \in Elems(q)
<1>1. Elems(Append(q, m)) \subseteq Elems(q) \cup {m}
  BY DEF Elems
<1>2. Elems(<<m>>) = {m}
  BY DEF Elems
<1>3. q \o <<m, n>> = Append(Append(q, m), n)
  OBVIOUS
<1>4. Append(q, m) \in Seq(Report)
  OBVIOUS
<1>5. Elems(Append(Append(q, m), n)) \subseteq Elems(Append(q, m)) \cup {n}
  BY <1>4 DEF Elems
<1>6. ASSUME q # <<>>, NEW i \in DOMAIN Tail(q)
      PROVE  i + 1 \in DOMAIN q /\ Tail(q)[i] = q[i + 1]
  BY <1>6
<1>7. q # <<>> => Elems(Tail(q)) \subseteq Elems(q)
  BY <1>6 DEF Elems
<1>8. q # <<>> => 1 \in DOMAIN q /\ Head(q) = q[1]
  OBVIOUS
<1>9. q # <<>> => Head(q) \in Elems(q)
  BY <1>8 DEF Elems
<1> QED
  BY <1>1, <1>2, <1>3, <1>5, <1>7, <1>9

\* A step that does not carry the command of the restore further: the agent
\* may only lose its pipeline, and the streams may only lose messages, repeat the
\* result the agent holds, or gain a cancel.
Passive(s) ==
  /\ stage'[s] \in {stage[s], "none"} /\ starts'[s] = starts[s] /\ target'[s] = target[s]
  /\ reported'[s] = reported[s] /\ (s \in protected') = (s \in protected)
  /\ held'[s] \in {held[s], NoResult}
  /\ Elems(toServer'[s]) \subseteq Elems(toServer[s]) \cup {held[s]}
  /\ toServer[s] = <<>> /\ held[s] = NoResult => toServer'[s] = <<>>
  /\ HasOrder(toAgent'[s]) => HasOrder(toAgent[s])
  /\ OneOrder(toAgent[s]) => OneOrder(toAgent'[s])

\* The steps that do: the send, the receipt, and the pipeline's own.
Pipeline(s) ==
  \/ StartPreBackup(s) \/ StartImport(s) \/ StartRollback(s)
  \/ FailPreparing(s) \/ FailPreBackup(s) \/ FailFilesystem(s)
  \/ Succeed(s) \/ FinishRollback(s)

Active(s) ==
  \/ \E p \in Repositories : SendCommand(p) /\ worker[p] = s
  \/ AcceptCommand(s) \/ TempDirFails(s) \/ Pipeline(s)

\* A step that touches no stream and no agent is passive.
LEMMA FramePassive ==
  ASSUME NEW s \in Restores, UNCHANGED <<toAgent, toServer, agentVars, histVars>>
  PROVE  Passive(s)
  BY DEF Passive, agentVars, histVars

\* So is a cancel command.
LEMMA CancelPassive ==
  ASSUME StreamTypeOK, NEW s \in Restores, NEW r \in Restores, SendCancel(r),
         UNCHANGED <<toServer, agentVars, histVars>>
  PROVE  Passive(s)
<1>1. toAgent[r] \in Seq({"execute", "cancel"})
  BY DEF StreamTypeOK
<1>2. toAgent'[s] = toAgent[s] \/ (s = r /\ toAgent'[s] = Append(toAgent[r], "cancel"))
  BY DEF SendCancel, StreamTypeOK
<1>3. /\ HasOrder(Append(toAgent[r], "cancel")) => HasOrder(toAgent[r])
      /\ OneOrder(toAgent[r]) => OneOrder(Append(toAgent[r], "cancel"))
  BY <1>1, OrderFacts, Zenon
<1>4. /\ HasOrder(toAgent'[s]) => HasOrder(toAgent[s])
      /\ OneOrder(toAgent[s]) => OneOrder(toAgent'[s])
  BY <1>2, <1>3, Zenon
<1> QED
  BY <1>4 DEF Passive, agentVars, histVars

\* And a report that the server takes from a stream.
LEMMA ReceivePassive ==
  ASSUME StreamTypeOK, NEW s \in Restores, NEW r \in Restores, NEW type, Receive(r, type),
         UNCHANGED <<toAgent, agentVars, histVars>>
  PROVE  Passive(s)
<1>1. toServer[r] \in Seq(Report) /\ toServer[r] # <<>>
  BY DEF StreamTypeOK, Receive
<1>2. toServer'[s] = toServer[s] \/ (s = r /\ toServer'[s] = Tail(toServer[r]))
  BY DEF Receive, StreamTypeOK
<1>3. Elems(Tail(toServer[r])) \subseteq Elems(toServer[r])
  BY <1>1, ElemFacts, ReportTyped
<1>4. Elems(toServer'[s]) \subseteq Elems(toServer[s]) \cup {held[s]}
  BY <1>2, <1>3
<1>5. toServer[s] = <<>> => toServer'[s] = <<>>
  BY <1>1, <1>2
<1> QED
  BY <1>4, <1>5 DEF Passive, agentVars, histVars

\* And a command that the agent takes from a stream, for the other restores.
LEMMA AgentReceivePassive ==
  ASSUME StreamTypeOK, NEW s \in Restores, NEW r \in Restores, NEW cmd, AgentReceive(r, cmd)
  PROVE  /\ HasOrder(toAgent'[s]) => HasOrder(toAgent[s])
         /\ OneOrder(toAgent[s]) => OneOrder(toAgent'[s])
<1>1. toAgent[r] \in Seq({"execute", "cancel"}) /\ toAgent[r] # <<>>
  BY DEF StreamTypeOK, AgentReceive
<1>2. toAgent'[s] = toAgent[s] \/ (s = r /\ toAgent'[s] = Tail(toAgent[r]))
  BY DEF AgentReceive, StreamTypeOK
<1> QED
  BY <1>1, <1>2, OrderFacts

\* The pipeline of one restore does not speak or act for another.
LEMMA PipelinePassive ==
  ASSUME StreamTypeOK, AgentTypeOK, HistoryTypeOK, NEW s \in Restores, NEW r \in Restores,
         Pipeline(r), r # s
  PROVE  Passive(s)
<1>1. toAgent' = toAgent /\ starts' = starts
  BY DEF Pipeline, StartPreBackup, StartImport, StartRollback, FailPreparing, FailPreBackup,
     FailFilesystem, Succeed, FinishRollback, Settle, histVars
<1>2. toServer'[s] = toServer[s]
  BY DEF Pipeline, StartPreBackup, StartImport, StartRollback, FailPreparing, FailPreBackup,
     FailFilesystem, Succeed, FinishRollback, Settle, Send, StreamTypeOK
<1>3. stage'[s] = stage[s] /\ held'[s] = held[s]
  BY DEF Pipeline, StartPreBackup, StartImport, StartRollback, FailPreparing, FailPreBackup,
     FailFilesystem, Succeed, FinishRollback, Settle, AgentTypeOK
<1>4. target'[s] = target[s]
  BY DEF Pipeline, StartPreBackup, StartImport, StartRollback, FailPreparing, FailPreBackup,
     FailFilesystem, Succeed, FinishRollback, HistoryTypeOK, histVars
<1>5. reported'[s] = reported[s] /\ (s \in protected') = (s \in protected)
  BY DEF Pipeline, StartPreBackup, StartImport, StartRollback, FailPreparing, FailPreBackup,
     FailFilesystem, Succeed, FinishRollback, Settle, HistoryTypeOK, histVars
<1> QED
  BY <1>1, <1>2, <1>3, <1>4, <1>5 DEF Passive

\* Every step is passive for the restores it does not advance.
LEMMA PassiveStep ==
  ASSUME TypeOK, [Next]_vars, NEW s \in Restores, ~Active(s)
  PROVE  Passive(s)
<1> USE RestoreAssumption DEF TypeOK
<1>1. ASSUME NEW p \in Repositories, Claim(p) PROVE Passive(s)
  BY <1>1, FramePassive DEF Claim, netVars
<1>2. ASSUME NEW p \in Repositories, BuildFails(p) PROVE Passive(s)
  BY <1>2, FramePassive DEF BuildFails, netVars
<1>3. ASSUME NEW p \in Repositories, RefuseUnsafe(p) PROVE Passive(s)
  BY <1>3, FramePassive DEF RefuseUnsafe, netVars
<1>4. ASSUME NEW p \in Repositories, SendFails(p) PROVE Passive(s)
  BY <1>4, FramePassive DEF SendFails, netVars
<1>5. ASSUME NEW p \in Repositories, Poll(p) PROVE Passive(s)
  BY <1>5, FramePassive DEF Poll, netVars
<1>6. ASSUME NEW r \in Restores, CreateDatabaseRestore(r) PROVE Passive(s)
  BY <1>6, FramePassive DEF CreateDatabaseRestore, netVars
<1>7. ASSUME NEW r \in Restores, CreateFilesystemRun(r) PROVE Passive(s)
  BY <1>7, FramePassive DEF CreateFilesystemRun, netVars
<1>8. ASSUME NEW r \in Restores, CreateRestoreRequest(r) PROVE Passive(s)
  BY <1>8, FramePassive DEF CreateRestoreRequest, netVars
<1>9. ASSUME NEW r \in Restores, SavePassword(r) PROVE Passive(s)
  BY <1>9, FramePassive DEF SavePassword, netVars
<1>10. ASSUME NEW r \in Restores, SavePasswordFails(r) PROVE Passive(s)
  BY <1>10, FramePassive DEF SavePasswordFails, netVars
<1>11. ASSUME NEW r \in Restores, Take(r) PROVE Passive(s)
  BY <1>11, FramePassive DEF Take, netVars
<1>12. ASSUME NEW r \in Restores, TakeWithoutRequest(r) PROVE Passive(s)
  BY <1>12, FramePassive DEF TakeWithoutRequest, netVars
<1>13. ASSUME NEW r \in Restores, CancelCommit(r) PROVE Passive(s)
  BY <1>13, FramePassive DEF CancelCommit, netVars
<1>14. ASSUME NEW r \in Restores, LeaseRunsOut(r) PROVE Passive(s)
  BY <1>14, FramePassive DEF LeaseRunsOut, netVars
<1>15. ASSUME NEW r \in Restores, LeaseRunsOutEarly(r) PROVE Passive(s)
  BY <1>15, FramePassive DEF LeaseRunsOutEarly, netVars
<1>16. ASSUME NEW r \in Restores, WatchdogList(r) PROVE Passive(s)
  BY <1>16, FramePassive DEF WatchdogList, netVars
<1>17. ASSUME NEW r \in Restores, WatchdogWrite(r) PROVE Passive(s)
  BY <1>17, FramePassive DEF WatchdogWrite, netVars
<1>18. ASSUME NEW r \in Restores, FailStaleQueued(r) PROVE Passive(s)
  BY <1>18, FramePassive DEF FailStaleQueued, netVars
<1>19. ASSUME NEW r \in Restores, Resolve(r) PROVE Passive(s)
  BY <1>19, FramePassive DEF Resolve, netVars
<1>20. ASSUME NEW r \in Restores, RecordRunning(r) PROVE Passive(s)
  BY <1>20, FramePassive DEF RecordRunning, netVars
<1>21. ASSUME NEW r \in Restores, DisconnectRun(r) PROVE Passive(s)
  BY <1>21, FramePassive DEF DisconnectRun, netVars
<1>22. ASSUME NEW r \in Restores, RecoverRun(r) PROVE Passive(s)
  BY <1>22, FramePassive DEF RecoverRun, netVars
<1>23. ASSUME NEW r \in Restores, RecoverRequest(r) PROVE Passive(s)
  BY <1>23, FramePassive DEF RecoverRequest, netVars
<1>24. ASSUME NEW p \in Repositories, SendCommand(p) PROVE Passive(s)
  <2>1. worker[p] # s
    BY <1>24 DEF Active
  <2>2. toAgent'[s] = toAgent[s]
    BY <1>24, <2>1 DEF SendCommand, StreamTypeOK
  <2> QED
    BY <1>24, <2>2 DEF SendCommand, Passive, agentVars, histVars
<1>25. ASSUME NEW r \in Restores, CancelRead(r) PROVE Passive(s)
  BY <1>25, FramePassive, CancelPassive DEF CancelRead
<1>26. ASSUME NEW r \in Restores, WatchdogDecide(r) PROVE Passive(s)
  BY <1>26, FramePassive, CancelPassive DEF WatchdogDecide
<1>27. ASSUME NEW r \in Restores, HandleAccepted(r) PROVE Passive(s)
  BY <1>27, ReceivePassive DEF HandleAccepted, netVars
<1>28. ASSUME NEW r \in Restores, HandleProgress(r) PROVE Passive(s)
  BY <1>28, ReceivePassive DEF HandleProgress, netVars
<1>29. ASSUME NEW r \in Restores, HandleResult(r) PROVE Passive(s)
  BY <1>29, ReceivePassive DEF HandleResult, netVars
<1>30. ASSUME NEW r \in Restores, AcceptCommand(r) PROVE Passive(s)
  <2>1. r # s
    BY <1>30 DEF Active
  <2>2. toServer'[s] = toServer[s] /\ stage'[s] = stage[s] /\ starts'[s] = starts[s]
    BY <1>30, <2>1 DEF AcceptCommand, Send, StreamTypeOK, AgentTypeOK, HistoryTypeOK
  <2>3. held'[s] \in {held[s], NoResult} /\ target' = target
    BY <1>30 DEF AcceptCommand, Confirm
  <2> QED
    BY <1>30, <2>2, <2>3, AgentReceivePassive DEF AcceptCommand, Passive
<1>31. ASSUME NEW r \in Restores, TempDirFails(r) PROVE Passive(s)
  <2>1. r # s
    BY <1>31 DEF Active
  <2>2. toServer'[s] = toServer[s] /\ held'[s] \in {held[s], NoResult}
    BY <1>31, <2>1 DEF TempDirFails, StreamTypeOK
  <2>3. UNCHANGED <<stage, protected, target, starts>> /\ reported'[s] = reported[s]
    BY <1>31, <2>1 DEF TempDirFails, HistoryTypeOK
  <2> QED
    BY <1>31, <2>2, <2>3, AgentReceivePassive DEF TempDirFails, Passive
<1>32. ASSUME NEW r \in Restores, ReceiveCancel(r) PROVE Passive(s)
  <2>1. held'[s] \in {held[s], NoResult}
    BY <1>32 DEF ReceiveCancel, Confirm
  <2>2. UNCHANGED <<toServer, stage, protected, histVars>>
    BY <1>32 DEF ReceiveCancel
  <2> QED
    BY <1>32, <2>1, <2>2, AgentReceivePassive DEF ReceiveCancel, Passive, histVars
<1>33. ASSUME NEW r \in Restores, Pipeline(r) PROVE Passive(s)
  BY <1>33, PipelinePassive DEF Active
<1>34. ASSUME NEW a \in Agents, LinkBreaks(a) PROVE Passive(s)
  BY <1>34, FramePassive DEF LinkBreaks, netVars
<1>35. ASSUME NEW a \in Agents, DisconnectList(a) PROVE Passive(s)
  BY <1>35, FramePassive DEF DisconnectList, netVars
<1>36. ASSUME NEW a \in Agents, ReportCapabilities(a) PROVE Passive(s)
  BY <1>36, FramePassive DEF ReportCapabilities, netVars
<1>37. ASSUME NEW a \in Agents, StreamEnds(a) PROVE Passive(s)
  <2>1. toAgent'[s] \in {toAgent[s], <<>>} /\ toServer'[s] \in {toServer[s], <<>>}
    BY <1>37 DEF StreamEnds
  <2> QED
    BY <1>37, <2>1, NoOrders DEF StreamEnds, Passive, agentVars, histVars
<1>38. ASSUME NEW a \in Agents, Reconnect(a) PROVE Passive(s)
  <2>1. /\ toAgent'[s] \in {toAgent[s], <<>>}
        /\ \/ toServer'[s] \in {toServer[s], <<>>}
           \/ held[s] # NoResult /\ toServer'[s] = <<held[s]>>
    BY <1>38 DEF Reconnect
  <2>2. Elems(<<held[s]>>) = {held[s]}
    BY DEF Elems
  <2>3. Elems(toServer'[s]) \subseteq Elems(toServer[s]) \cup {held[s]}
    BY <2>1, <2>2, NoOrders
  <2> QED
    BY <1>38, <2>1, <2>3, NoOrders DEF Reconnect, Passive, agentVars, histVars
<1>39. ASSUME NEW a \in Agents, ReceiveWelcome(a) PROVE Passive(s)
  BY <1>39 DEF ReceiveWelcome, Confirm, Passive, histVars
<1>40. ASSUME NEW a \in Agents, AgentRestart(a) PROVE Passive(s)
  BY <1>40 DEF AgentRestart, Confirm, Passive, histVars
<1>41. ASSUME ServerCrash PROVE Passive(s)
  <2>1. toAgent'[s] = <<>> /\ toServer'[s] = <<>>
    BY <1>41 DEF ServerCrash
  <2> QED
    BY <1>41, <2>1, NoOrders DEF ServerCrash, Passive, agentVars, histVars
<1>42. ASSUME StartServing PROVE Passive(s)
  BY <1>42, FramePassive DEF StartServing, netVars
<1>43. CASE UNCHANGED vars
  BY <1>43, FramePassive DEF vars, netVars
<1> QED
  BY <1>1, <1>2, <1>3, <1>4, <1>5, <1>6, <1>7, <1>8, <1>9, <1>10, <1>11, <1>12, <1>13, <1>14,
     <1>15, <1>16, <1>17, <1>18, <1>19, <1>20, <1>21, <1>22, <1>23, <1>24, <1>25, <1>26,
     <1>27, <1>28, <1>29, <1>30, <1>31, <1>32, <1>33, <1>34, <1>35, <1>36, <1>37, <1>38,
     <1>39, <1>40, <1>41, <1>42, <1>43 DEF Next, WorkerNext, ServerNext, AgentNext,
     StreamNext, Pipeline

\* What a step that is not the send does to the rows of a restore and to those
\* who are about to write them.  A phase that the agent's word or the server's
\* may release is entered in three ways: the worker gives up before it sends, a
\* cancel ends a run that was never sent, or a result says so.
Released(s) ==
  /\ status'[s] \in Terminal
  /\ \/ /\ phase'[s] = "failed" /\ ~AtSend(s)'
        /\ status[s] = "queued" \/ OpenCancel(s) \/ AtSend(s)
     \/ /\ toServer[s] # <<>> /\ Head(toServer[s]).type = "result"
        /\ phase'[s] = restoreResultOutcome(Head(toServer[s]))

RunKept(s) ==
  /\ status'[s] \in {"absent", "queued"} => status[s] \in {"absent", "queued"} \/ AtSend(s)
  /\ status[s] \in Terminal => status'[s] \in Terminal

WorkerKept(s) ==
  /\ AtSend(s)' => AtSend(s) \/ (status[s] = "queued" /\ status'[s] = "dispatched")
  /\ status'[s] \in {"absent", "queued"} => ~AtSend(s)'
  /\ worker'[RestoreRepository[s]] = s => phase'[s] # "absent"

RequestKept(s) ==
  /\ phase'[s] = "absent" => phase[s] = "absent"
  /\ startup'[s] # "none" => ~serving' /\ canceller'[s] = "none"
  /\ OpenCancel(s)' => \/ OpenCancel(s) \/ status[s] = "queued" \/ phase[s] = "absent"
                       \/ (AtSend(s) /\ ~AtSend(s)')
  /\ phase'[s] \in ReportedSafe => phase'[s] = phase[s] \/ Released(s)

RowKept(s) == RunKept(s) /\ WorkerKept(s) /\ RequestKept(s)

\* The parts of the invariant that RowKept needs.
RowHyp(s) ==
  /\ status[s] \in {"absent", "queued"} \/ phase[s] = "absent" \/ OpenCancel(s) => ~AtSend(s)
  /\ worker[RestoreRepository[s]] = s => phase[s] # "absent"
  /\ startup[s] # "none" => ~serving /\ canceller[s] = "none"

\* A step that leaves the rows and the server alone.
LEMMA FrameRow ==
  ASSUME NEW s \in Restores, RowHyp(s), UNCHANGED <<dbVars, serverVars>>
  PROVE  RowKept(s)
  BY DEF RowHyp, RowKept, RunKept, WorkerKept, RequestKept, OpenCancel, AtSend, WorkerAt,
     dbVars, serverVars

\* A step that leaves the rows and what RowKept mentions of the server alone.
LEMMA QuietRow ==
  ASSUME NEW s \in Restores, RowHyp(s),
         UNCHANGED <<status, phase, serving, worker, wpc, canceller, startup>>
  PROVE  RowKept(s)
  BY DEF RowHyp, RowKept, RunKept, WorkerKept, RequestKept, OpenCancel, AtSend, WorkerAt

\* TransitionRun along an edge of validTransitions: a terminal run stays.
LEMMA TransitionRow ==
  ASSUME StoreTypeOK, NEW r \in Restores, NEW s \in Restores, NEW from, NEW to \in RunStatuses,
         NEW newLease, TransitionRun(r, from, to, newLease)
  PROVE  /\ status[s] \in Terminal => status'[s] \in Terminal
         /\ status'[s] = status[s] \/ (r = s /\ status[s] = from /\ status'[s] = to)
  BY DEF StoreTypeOK, TransitionRun, CanTransition, RunStatuses, Terminal

\* What FinishRestoreRun of r leaves in the rows of s: nothing new, or a run that
\* has ended and a request that is as it was, or takes the phase ph.
Finishes(r, s, froms, ph) ==
  \/ status'[s] = status[s] /\ phase'[s] = phase[s]
  \/ /\ r = s /\ status[s] \in froms \cup Terminal /\ status'[s] \in Terminal
     /\ phase'[s] \in TerminalPhases \cup {"absent"}
     /\ phase'[s] = phase[s] \/ (phase'[s] = ph /\ phase[s] \notin TerminalPhases)
     /\ phase'[s] = "absent" => phase[s] = "absent"

\* FinishRestoreRun: the run ends or has ended, and so does the request, unless
\* nothing was written.
LEMMA FinishRow ==
  ASSUME StoreTypeOK, NEW r \in Restores, NEW s \in Restores, NEW froms, NEW to \in Terminal,
         NEW ph \in TerminalPhases, FinishRestoreRun(r, froms, to, ph)
  PROVE  Finishes(r, s, froms, ph)
<1>1. "absent" \notin TerminalPhases
  BY DEF TerminalPhases, Releasing, ReportedSafe, Manual
<1>2. CASE updateRestoreRequestTx(r, ph) /\ status[r] \in froms \cup Terminal
  <2>1. /\ phase'[r] \in TerminalPhases \cup {"absent"}
        /\ phase'[r] = phase[r] \/ (phase'[r] = ph /\ phase[r] \notin TerminalPhases)
        /\ phase'[r] = "absent" => phase[r] = "absent"
    BY <1>1, <1>2 DEF StoreTypeOK, updateRestoreRequestTx, TerminalPhases
  <2>2. \A t \in Restores \ {r} : phase'[t] = phase[t]
    BY <1>2 DEF StoreTypeOK, updateRestoreRequestTx
  <2>3. status'[r] \in Terminal /\ \A t \in Restores \ {r} : status'[t] = status[t]
    BY <1>2 DEF StoreTypeOK, FinishRestoreRun, dbVars
  <2> QED
    BY <1>2, <2>1, <2>2, <2>3 DEF Finishes
<1>3. CASE UNCHANGED dbVars
  BY <1>3 DEF dbVars, Finishes
<1> QED
  BY <1>2, <1>3 DEF FinishRestoreRun

\* Every step keeps the rows in the sense of RowKept: one case per action that
\* writes one of them.
LEMMA RowStep ==
  ASSUME TypeOK, RowsAgree, [Next]_vars, NEW s \in Restores, RowHyp(s),
         \A p \in Repositories : ~SendCommand(p)
  PROVE  RowKept(s)
<1> USE RestoreAssumption DEF TypeOK
<1>1. ASSUME NEW p \in Repositories, Claim(p) PROVE RowKept(s)
  <2>1. worker[p] \in Restores /\ RestoreRepository[worker[p]] = p
    BY <1>1 DEF Claim, WorkerAt, WorkerTypeOK
  <2>2. /\ status[s] \in Terminal => status'[s] \in Terminal
        /\ status'[s] = status[s]
           \/ (worker[p] = s /\ status[s] = "queued" /\ status'[s] = "dispatched")
    BY <1>1, <2>1, TransitionRow, Values DEF Claim
  <2> QED
    BY <1>1, <2>1, <2>2 DEF Claim, WorkerDone, workerFrame, WorkerTypeOK, RowHyp, RowKept,
       RunKept, WorkerKept, RequestKept, OpenCancel, AtSend, WorkerAt,
       CanTransition, RunStatuses, TransitionRun, StoreTypeOK, Terminal
<1>2. ASSUME NEW p \in Repositories, BuildFails(p) PROVE RowKept(s)
  <2>1. worker[p] \in Restores /\ RestoreRepository[worker[p]] = p
    BY <1>2 DEF BuildFails, WorkerAt, WorkerTypeOK
  <2>2. /\ status[s] \in Terminal => status'[s] \in Terminal
        /\ status'[s] = status[s]
           \/ (worker[p] = s /\ status[s] = "dispatched" /\ status'[s] = "failed")
    BY <1>2, <2>1, TransitionRow, Values DEF BuildFails
  <2> QED
    BY <1>2, <2>1, <2>2 DEF BuildFails, WorkerDone, workerFrame, WorkerTypeOK, RowHyp,
       RowKept, RunKept, WorkerKept, RequestKept, OpenCancel, AtSend, WorkerAt
<1>3. ASSUME NEW p \in Repositories, SendFails(p) PROVE RowKept(s)
  <2>1. worker[p] \in Restores /\ RestoreRepository[worker[p]] = p
    BY <1>3 DEF SendFails, WorkerAt, WorkerTypeOK
  <2>2. /\ status[s] \in Terminal => status'[s] \in Terminal
        /\ status'[s] = status[s]
           \/ (worker[p] = s /\ status[s] = "dispatched" /\ status'[s] = "queued")
    BY <1>3, <2>1, TransitionRow, Values DEF SendFails
  <2> QED
    BY <1>3, <2>1, <2>2 DEF SendFails, WorkerDone, workerFrame, WorkerTypeOK, RowHyp,
       RowKept, RunKept, WorkerKept, RequestKept, OpenCancel, AtSend, WorkerAt, Terminal
<1>4. ASSUME NEW p \in Repositories, RefuseUnsafe(p) PROVE RowKept(s)
  <2>1. worker[p] \in Restores /\ RestoreRepository[worker[p]] = p
    BY <1>4 DEF RefuseUnsafe, WorkerAt, WorkerTypeOK
  <2>2. "failed" \in Terminal /\ "failed" \in TerminalPhases
    BY DEF Terminal, TerminalPhases, Releasing, ReportedSafe, Manual
  <2>3. Finishes(worker[p], s, {"queued", "dispatched"}, "failed")
    BY <1>4, <2>1, <2>2, FinishRow DEF RefuseUnsafe
  <2>4. worker[p] = s => AtSend(s) /\ ~AtSend(s)'
    BY <1>4, <2>1 DEF RefuseUnsafe, WorkerDone, WorkerTypeOK, AtSend, WorkerAt
  <2>5. AtSend(s)' => AtSend(s)
    BY <1>4, <2>1 DEF RefuseUnsafe, WorkerDone, WorkerTypeOK, AtSend, WorkerAt
  <2> QED
    BY <1>4, <2>1, <2>3, <2>4, <2>5 DEF RefuseUnsafe, WorkerDone, workerFrame, WorkerTypeOK,
       Released, Finishes, RowHyp, RowKept, RunKept, WorkerKept, RequestKept, OpenCancel,
       AtSend, WorkerAt, Terminal
<1>5. ASSUME NEW p \in Repositories, Poll(p) PROVE RowKept(s)
  <2>1. worker[p] \in Restores /\ RestoreRepository[worker[p]] = p
    BY <1>5 DEF Poll, WorkerAt, WorkerTypeOK
  <2> QED
    BY <1>5, <2>1 DEF Poll, WorkerDone, workerFrame, dbVars, WorkerTypeOK, RowHyp,
       RowKept, RunKept, WorkerKept, RequestKept, OpenCancel, AtSend, WorkerAt
<1>6. ASSUME NEW r \in Restores, CreateDatabaseRestore(r) PROVE RowKept(s)
  BY <1>6 DEF CreateDatabaseRestore, StoreTypeOK, RowsAgree, RowHyp, RowKept, RunKept,
     WorkerKept, RequestKept, OpenCancel, AtSend, WorkerAt, Terminal, TerminalPhases,
     Releasing, ReportedSafe, Manual
<1>7. ASSUME NEW r \in Restores, CreateFilesystemRun(r) PROVE RowKept(s)
  BY <1>7 DEF CreateFilesystemRun, StoreTypeOK, RowsAgree, RowHyp, RowKept, RunKept,
     WorkerKept, RequestKept, OpenCancel, AtSend, WorkerAt, Terminal, TerminalPhases,
     Releasing, ReportedSafe, Manual
<1>8. ASSUME NEW r \in Restores, CreateRestoreRequest(r) PROVE RowKept(s)
  <2>1. phase[r] = "absent"
    BY <1>8 DEF CreateRestoreRequest, RowsAgree
  <2>2. /\ status[s] \in Terminal => status'[s] \in Terminal
        /\ status'[s] = status[s]
           \/ (r = s /\ status[s] = "queued" /\ status'[s] = "failed")
    BY <1>8, TransitionRow, Values DEF CreateRestoreRequest
  <2> QED
    BY <1>8, <2>1, <2>2 DEF CreateRestoreRequest, StoreTypeOK, RowHyp, RowKept, RunKept,
       WorkerKept, RequestKept, OpenCancel, AtSend, WorkerAt, ReportedSafe
<1>9. ASSUME NEW r \in Restores, SavePassword(r) PROVE RowKept(s)
  BY <1>9, QuietRow DEF SavePassword, dbVars
<1>10. ASSUME NEW r \in Restores, WatchdogList(r) PROVE RowKept(s)
  BY <1>10, QuietRow DEF WatchdogList, dbVars
<1>11. ASSUME NEW r \in Restores, LeaseRunsOut(r) PROVE RowKept(s)
  BY <1>11, QuietRow DEF LeaseRunsOut, serverVars
<1>12. ASSUME NEW r \in Restores, LeaseRunsOutEarly(r) PROVE RowKept(s)
  BY <1>12, QuietRow DEF LeaseRunsOutEarly, serverVars
<1>13. ASSUME NEW r \in Restores, WatchdogDecide(r) PROVE RowKept(s)
  BY <1>13, QuietRow DEF WatchdogDecide, dbVars
<1>14. ASSUME NEW r \in Restores, SavePasswordFails(r) PROVE RowKept(s)
  <2>1. /\ status[s] \in Terminal => status'[s] \in Terminal
        /\ status'[s] = status[s]
           \/ (r = s /\ status[s] = "queued" /\ status'[s] = "failed")
    BY <1>14, TransitionRow, Values DEF SavePasswordFails
  <2> QED
    BY <1>14, <2>1 DEF SavePasswordFails, RowHyp, RowKept, RunKept, WorkerKept,
       RequestKept, OpenCancel, AtSend, WorkerAt
<1>15. ASSUME NEW r \in Restores, FailStaleQueued(r) PROVE RowKept(s)
  <2>1. /\ status[s] \in Terminal => status'[s] \in Terminal
        /\ status'[s] = status[s]
           \/ (r = s /\ status[s] = "queued" /\ status'[s] = "failed")
    BY <1>15, TransitionRow, Values DEF FailStaleQueued
  <2> QED
    BY <1>15, <2>1 DEF FailStaleQueued, RowHyp, RowKept, RunKept, WorkerKept, RequestKept,
       OpenCancel, AtSend, WorkerAt, serverVars
<1>16. ASSUME NEW r \in Restores, HandleAccepted(r) PROVE RowKept(s)
  <2>1. /\ status[s] \in Terminal => status'[s] \in Terminal
        /\ status'[s] = status[s]
           \/ (r = s /\ status[s] = "dispatched" /\ status'[s] = "running")
    BY <1>16, TransitionRow, Values DEF HandleAccepted
  <2> QED
    BY <1>16, <2>1 DEF HandleAccepted, RowHyp, RowKept, RunKept, WorkerKept, RequestKept,
       OpenCancel, AtSend, WorkerAt, Terminal
<1>17. ASSUME NEW r \in Restores, Take(r) PROVE RowKept(s)
  BY <1>17 DEF Take, workerFrame, dbVars, WorkerTypeOK, RowHyp, RowKept, RunKept,
     WorkerKept, RequestKept, OpenCancel, AtSend, WorkerAt
<1>18. ASSUME NEW r \in Restores, TakeWithoutRequest(r) PROVE RowKept(s)
  <2>1. "failed" \in Terminal /\ "failed" \in TerminalPhases
    BY DEF Terminal, TerminalPhases, Releasing, ReportedSafe, Manual
  <2>2. phase' = phase
    BY <1>18 DEF TakeWithoutRequest, FinishRestoreRun, updateRestoreRequestTx,
       StoreTypeOK, dbVars
  <2>3. Finishes(r, s, {"queued", "dispatched"}, "failed")
    BY <1>18, <2>1, FinishRow DEF TakeWithoutRequest
  <2> QED
    BY <1>18, <2>2, <2>3 DEF TakeWithoutRequest, workerFrame, Finishes, RowHyp, RowKept,
       RunKept, WorkerKept, RequestKept, OpenCancel, AtSend, WorkerAt, Terminal
<1>19. ASSUME NEW r \in Restores, CancelRead(r) PROVE RowKept(s)
  BY <1>19 DEF CancelRead, dbVars, ServerTypeOK, RowHyp, RowKept, RunKept, WorkerKept,
     RequestKept, OpenCancel, AtSend, WorkerAt, Terminal
<1>20. ASSUME NEW r \in Restores, CancelCommit(r) PROVE RowKept(s)
  <2>1. "failed" \in TerminalPhases /\ "cancelled" \in Terminal
    BY DEF Terminal, TerminalPhases, Releasing, ReportedSafe, Manual
  <2>2. CASE canceller[r] = "queued"
    <3>1. Finishes(r, s, {"queued"}, "failed")
      BY <1>20, <2>1, <2>2, FinishRow DEF CancelCommit
    <3>2. status'[s] = status[s] \/ status[s] = "queued" \/ status[s] \in Terminal
      BY <3>1 DEF Finishes
    <3>3. RunKept(s) /\ WorkerKept(s)
      BY <1>20, <3>1 DEF CancelCommit, Finishes, RowHyp, RunKept, WorkerKept, OpenCancel,
         AtSend, WorkerAt, Terminal
    <3>4. AtSend(s)' = AtSend(s)
      BY <1>20 DEF CancelCommit, AtSend, WorkerAt
    <3>5. phase'[s] # phase[s] => r = s /\ phase'[s] = "failed" /\ Released(s)
      BY <2>2, <3>1, <3>4 DEF Finishes, Released, RowHyp, OpenCancel
    <3>6. OpenCancel(s)' => OpenCancel(s)
      BY <1>20, <3>1 DEF CancelCommit, Finishes, OpenCancel, ServerTypeOK
    <3>7. startup'[s] # "none" => ~serving' /\ canceller'[s] = "none"
      BY <1>20 DEF CancelCommit, RowHyp, ServerTypeOK
    <3> QED
      BY <3>1, <3>3, <3>5, <3>6, <3>7 DEF Finishes, RowKept, RequestKept
  <2>3. CASE canceller[r] # "queued"
    BY <1>20, <2>3 DEF CancelCommit, RequestRestoreStop, dbVars, StoreTypeOK,
       ServerTypeOK, RowHyp, RowKept, RunKept, WorkerKept, RequestKept, OpenCancel, AtSend,
       WorkerAt, Terminal, TerminalPhases, Releasing, ReportedSafe, Manual
  <2> QED
    BY <2>2, <2>3
<1>21. ASSUME NEW r \in Restores, WatchdogWrite(r) PROVE RowKept(s)
  <2>1. "failed" \in Terminal /\ "manual_recovery_required" \in TerminalPhases \ ReportedSafe
    BY DEF Terminal, TerminalPhases, Releasing, ReportedSafe, Manual
  <2>2. CASE watch[r] = "stop"
    BY <1>21, <2>2 DEF WatchdogWrite, RequestRestoreStop, dbVars, StoreTypeOK, RowHyp,
       RowKept, RunKept, WorkerKept, RequestKept, OpenCancel, AtSend, WorkerAt, Terminal,
       TerminalPhases, Releasing, ReportedSafe, Manual
  <2>3. CASE watch[r] # "stop"
    <3>1. Finishes(r, s, {"queued", "dispatched", "running"}, "manual_recovery_required")
      BY <1>21, <2>1, <2>3, FinishRow DEF WatchdogWrite
    <3> QED
      BY <1>21, <2>1, <3>1 DEF WatchdogWrite, Finishes, RowHyp, RowKept, RunKept,
         WorkerKept, RequestKept, OpenCancel, AtSend, WorkerAt, Terminal
  <2> QED
    BY <2>2, <2>3
<1>22. ASSUME NEW r \in Restores, RecoverRequest(r) PROVE RowKept(s)
  <2>1. "failed" \in Terminal /\ "manual_recovery_required" \in TerminalPhases \ ReportedSafe
    BY DEF Terminal, TerminalPhases, Releasing, ReportedSafe, Manual
  <2>2. Finishes(r, s, {"queued", "dispatched", "running"}, "manual_recovery_required")
    BY <1>22, <2>1, FinishRow DEF RecoverRequest
  <2> QED
    BY <1>22, <2>1, <2>2 DEF RecoverRequest, Finishes, ServerTypeOK, RowHyp, RowKept,
       RunKept, WorkerKept, RequestKept, OpenCancel, AtSend, WorkerAt, Terminal
<1>23. ASSUME NEW r \in Restores, RecoverRun(r) PROVE RowKept(s)
  <2>1. /\ status[s] \in Terminal => status'[s] \in Terminal
        /\ status'[s] = status[s] \/ (r = s /\ status'[s] = "failed")
    BY <1>23, TransitionRow, Values DEF RecoverRun
  <2>2. startup'[s] # "none" => startup[s] # "none"
    BY <1>23 DEF RecoverRun, ServerTypeOK
  <2>3. r = s => canceller[s] = "none"
    BY <1>23 DEF RecoverRun, RowHyp
  <2> QED
    BY <1>23, <2>1, <2>2, <2>3 DEF RecoverRun, RowHyp, RowKept, RunKept, WorkerKept,
       RequestKept, OpenCancel, AtSend, WorkerAt
<1>24. ASSUME NEW r \in Restores, Resolve(r) PROVE RowKept(s)
  BY <1>24 DEF Resolve, serverVars, StoreTypeOK, RowHyp, RowKept, RunKept, WorkerKept,
     RequestKept, OpenCancel, AtSend, WorkerAt, Terminal, TerminalPhases, Releasing,
     ReportedSafe, Manual
<1>25. ASSUME NEW r \in Restores, RecordRunning(r) PROVE RowKept(s)
  BY <1>25 DEF RecordRunning, UpdateRestorePhase, StoreTypeOK, RowHyp, RowKept, RunKept,
     WorkerKept, RequestKept, OpenCancel, AtSend, WorkerAt, Terminal, TerminalPhases,
     Releasing, ReportedSafe, Manual
<1>26. ASSUME NEW r \in Restores, DisconnectRun(r) PROVE RowKept(s)
  BY <1>26 DEF DisconnectRun, UpdateRestorePhase, StoreTypeOK, RowHyp, RowKept, RunKept,
     WorkerKept, RequestKept, OpenCancel, AtSend, WorkerAt, Terminal, TerminalPhases,
     Releasing, ReportedSafe, Manual
<1>27. ASSUME NEW r \in Restores, HandleProgress(r) PROVE RowKept(s)
  <2>1. Head(toServer[r]).phase \in {"pre_backup", "restoring", "rolling_back"}
    BY <1>27, ReceiveTyped DEF HandleProgress, Report
  <2>2. Head(toServer[r]).phase \notin ReportedSafe \cup {"absent"}
    BY <2>1 DEF ReportedSafe
  <2>3. \/ phase'[s] = phase[s]
        \/ phase[s] \notin TerminalPhases /\ phase'[s] \notin ReportedSafe \cup {"absent"}
    BY <1>27, <2>2 DEF HandleProgress, UpdateRestorePhase, StoreTypeOK
  <2>4. phase[s] = "absent" => phase'[s] = phase[s]
    BY <1>27 DEF HandleProgress, UpdateRestorePhase, StoreTypeOK
  <2> QED
    BY <1>27, <2>3, <2>4 DEF HandleProgress, serverVars, RowHyp, RowKept, RunKept,
       WorkerKept, RequestKept, OpenCancel, AtSend, WorkerAt
<1>28. ASSUME NEW r \in Restores, HandleResult(r) PROVE RowKept(s)
  <2> DEFINE m == Head(toServer[r])
             ph == restoreResultOutcome(m)
             to == IF ph = "rollback_failed" THEN "failed" ELSE m.res
  <2>1. m \in Report /\ m.type = "result" /\ toServer[r] # <<>>
    BY <1>28, ReceiveTyped DEF HandleResult, Receive
  <2>2. ph \in TerminalPhases /\ to \in Terminal
    BY <2>1 DEF Report, restoreResultOutcome, Terminal, TerminalPhases, Releasing,
       ReportedSafe, Manual
  <2>3. FinishRestoreRun(r, {"queued", "dispatched", "running"}, to, ph)
    BY <1>28 DEF HandleResult
  <2>4. UNCHANGED serverVars
    BY <1>28 DEF HandleResult
  <2> HIDE DEF m, ph, to
  <2>5. Finishes(r, s, {"queued", "dispatched", "running"}, ph)
    BY <2>2, <2>3, FinishRow
  <2>6. r = s /\ phase'[s] = ph /\ status'[s] \in Terminal => Released(s)
    BY <2>1 DEF Released, m, ph
  <2> QED
    BY <2>4, <2>5, <2>6 DEF serverVars, Finishes, RowHyp, RowKept, RunKept, WorkerKept,
       RequestKept, OpenCancel, AtSend, WorkerAt, Terminal
<1>29. ASSUME NEW r \in Restores, AcceptCommand(r) PROVE RowKept(s)
  BY <1>29, FrameRow DEF AcceptCommand
<1>30. ASSUME NEW r \in Restores, TempDirFails(r) PROVE RowKept(s)
  BY <1>30, FrameRow DEF TempDirFails
<1>31. ASSUME NEW r \in Restores, ReceiveCancel(r) PROVE RowKept(s)
  BY <1>31, FrameRow DEF ReceiveCancel
<1>32. ASSUME NEW r \in Restores, Pipeline(r) PROVE RowKept(s)
  BY <1>32, FrameRow DEF Pipeline, StartPreBackup, StartImport, StartRollback,
     FailPreparing,
     FailPreBackup, FailFilesystem, Succeed, FinishRollback, Settle
<1>33. ASSUME NEW a \in Agents, LinkBreaks(a) PROVE RowKept(s)
  BY <1>33, FrameRow DEF LinkBreaks
<1>34. ASSUME NEW a \in Agents, Reconnect(a) PROVE RowKept(s)
  BY <1>34, FrameRow DEF Reconnect
<1>35. ASSUME NEW a \in Agents, ReportCapabilities(a) PROVE RowKept(s)
  BY <1>35, FrameRow DEF ReportCapabilities
<1>36. ASSUME NEW a \in Agents, ReceiveWelcome(a) PROVE RowKept(s)
  BY <1>36, FrameRow DEF ReceiveWelcome
<1>37. ASSUME NEW a \in Agents, AgentRestart(a) PROVE RowKept(s)
  BY <1>37, FrameRow DEF AgentRestart
<1>38. ASSUME NEW a \in Agents, StreamEnds(a) PROVE RowKept(s)
  BY <1>38, QuietRow DEF StreamEnds, dbVars
<1>39. ASSUME NEW a \in Agents, DisconnectList(a) PROVE RowKept(s)
  BY <1>39, QuietRow DEF DisconnectList, dbVars
<1>40. ASSUME ServerCrash PROVE RowKept(s)
  BY <1>40 DEF ServerCrash, dbVars, RowHyp, RowKept, RunKept, WorkerKept, RequestKept,
     OpenCancel, AtSend, WorkerAt
<1>41. ASSUME StartServing PROVE RowKept(s)
  BY <1>41 DEF StartServing, dbVars, RowHyp, RowKept, RunKept, WorkerKept, RequestKept,
     OpenCancel, AtSend, WorkerAt
<1>42. CASE UNCHANGED vars
  BY <1>42, FrameRow DEF vars
<1> QED
  BY <1>1, <1>2, <1>3, <1>4, <1>5, <1>6, <1>7, <1>8, <1>9, <1>10, <1>11, <1>12, <1>13,
     <1>14,
     <1>15, <1>16, <1>17, <1>18, <1>19, <1>20, <1>21, <1>22, <1>23, <1>24, <1>25, <1>26,
     <1>27, <1>28, <1>29, <1>30, <1>31, <1>32, <1>33, <1>34, <1>35, <1>36, <1>37, <1>38,
     <1>39, <1>40, <1>41, <1>42 DEF Next, WorkerNext, ServerNext, AgentNext, StreamNext,
     Pipeline

\* A passive step keeps the invariant.
LEMMA RestoreInvPassive ==
  ASSUME TypeOK, NEW s \in Restores, RestoreInv(s), Passive(s), RowKept(s)
  PROVE  RestoreInv(s)'
<1> USE DEF RestoreInv
<1>1. Pristine(s) => Pristine(s)'
  BY DEF Passive, Pristine
<1>2. status'[s] \in {"absent", "queued"} \/ phase'[s] = "absent" => Untouched(s)'
  BY <1>1 DEF CommandInv, Passive, RowKept, RunKept, WorkerKept, RequestKept, Untouched,
     AtSend
<1>3. AtSend(s)' => Pristine(s)' /\ ~HasOrder(toAgent[s])'
  BY <1>1 DEF CommandInv, Passive, RowKept, WorkerKept, Untouched
<1>4. CommandInv(s)'
  BY <1>1, <1>2, <1>3 DEF CommandInv, Passive, RowKept, WorkerKept
<1>5. ASSUME NEW m, Holds(s, m) PROVE Holds(s, m)'
  BY <1>5 DEF Passive, Holds, Truthful, restoreResultOutcome
<1>6. Holds(s, NoResult)
  BY DEF Holds, NoResult, Result, restoreResultOutcome, ReportedSafe
<1>7. \A m \in (Elems(toServer[s]) \cup {held[s]})' : Holds(s, m)
  BY <1>6 DEF ResultInv, Passive
<1>8. ResultInv(s)'
  BY <1>5, <1>7 DEF ResultInv, Passive
<1>9. OpenCancel(s)' => Untouched(s)'
  <2>1. OpenCancel(s)' => Pristine(s) /\ ~HasOrder(toAgent[s])
    BY DEF ReleaseInv, CommandInv, RowKept, RequestKept, Untouched
  <2>2. OpenCancel(s)' => ~AtSend(s)'
    BY DEF ReleaseInv, CommandInv, RowKept, RequestKept, WorkerKept, RunKept, Untouched,
       OpenCancel, Terminal
  <2> QED
    BY <1>1, <2>1, <2>2 DEF Passive, Untouched
<1>10. ASSUME phase'[s] \in ReportedSafe, phase'[s] = phase[s]
       PROVE  /\ status'[s] \in Terminal /\ stage'[s] = "none"
              /\ ~HasOrder(toAgent[s])' /\ ~AtSend(s)' /\ Truthful(s, phase[s])'
  BY <1>10 DEF ReleaseInv, RowKept, RunKept, WorkerKept, Passive, Truthful, Terminal
<1>11. ASSUME phase'[s] \in ReportedSafe, Released(s)
       PROVE  /\ status'[s] \in Terminal /\ stage'[s] = "none"
              /\ ~HasOrder(toAgent[s])' /\ ~AtSend(s)' /\ Truthful(s, phase[s])'
  <2>1. CASE /\ phase'[s] = "failed" /\ ~AtSend(s)'
             /\ status[s] = "queued" \/ OpenCancel(s) \/ AtSend(s)
    <3>1. Pristine(s) /\ ~HasOrder(toAgent[s])
      BY <2>1 DEF CommandInv, ReleaseInv, Untouched
    <3> QED
      BY <1>1, <1>11, <2>1, <3>1 DEF Released, Passive, Pristine, Truthful
  <2>2. CASE /\ toServer[s] # <<>> /\ Head(toServer[s]).type = "result"
             /\ phase'[s] = restoreResultOutcome(Head(toServer[s]))
    <3>1. toServer[s] \in Seq(Report)
      BY DEF TypeOK, StreamTypeOK
    <3>2. Head(toServer[s]) \in Elems(toServer[s])
      BY <2>2, <3>1, ElemFacts, ReportTyped
    <3>3. Holds(s, Head(toServer[s]))
      BY <3>2 DEF ResultInv
    <3>4. stage[s] = "none" /\ Truthful(s, phase'[s])
      BY <1>11, <2>2, <3>3 DEF Holds
    <3>5. ~HasOrder(toAgent[s]) /\ ~AtSend(s) /\ status[s] # "queued"
      BY <2>2 DEF CommandInv, Untouched, Pristine
    <3> QED
      BY <1>11, <3>4, <3>5 DEF Released, RowKept, WorkerKept, Passive, Truthful
  <2> QED
    BY <1>11, <2>1, <2>2 DEF Released
<1>12. ReleaseInv(s)'
  BY <1>9, <1>10, <1>11 DEF ReleaseInv, RowKept, RequestKept
<1> QED
  BY <1>4, <1>8, <1>12

\* The command goes to the stream once: the worker that sends it stops being
\* about to send it, and nothing was sent before.
LEMMA RestoreInvSend ==
  ASSUME TypeOK, NEW p \in Repositories, SendCommand(p), NEW s \in Restores, worker[p] = s,
         RestoreInv(s)
  PROVE  RestoreInv(s)'
<1> USE RestoreAssumption DEF RestoreInv
<1>1. p = RestoreRepository[s]
  BY DEF SendCommand, WorkerAt, TypeOK, WorkerTypeOK
<1>2. AtSend(s) /\ ~AtSend(s)'
  BY <1>1 DEF SendCommand, AtSend, WorkerAt, TypeOK, WorkerTypeOK
<1>3. Pristine(s) /\ ~HasOrder(toAgent[s])
  BY <1>2 DEF CommandInv
<1>4. /\ status[s] \notin {"absent", "queued"} /\ phase[s] \notin ReportedSafe \cup {"absent"}
      /\ ~OpenCancel(s)
  BY <1>2 DEF CommandInv, ReleaseInv, Untouched
<1>5. UNCHANGED <<status, phase, worker, canceller, startup, serving, toServer, agentVars,
                  histVars>>
  BY DEF SendCommand, dbVars, workerFrame
<1>6. toAgent'[s] = Append(toAgent[s], "execute") /\ toAgent[s] \in Seq({"execute", "cancel"})
  BY DEF SendCommand, TypeOK, StreamTypeOK
<1>7. OneOrder(toAgent'[s])
  BY <1>3, <1>6, OrderFacts
<1>8. Pristine(s)'
  BY <1>3, <1>5 DEF Pristine, agentVars, histVars
<1>9. CommandInv(s)'
  BY <1>2, <1>3, <1>4, <1>5, <1>7, <1>8 DEF CommandInv, Pristine, agentVars, histVars
<1>10. ResultInv(s)'
  BY <1>5 DEF ResultInv, Holds, Truthful, agentVars, histVars
<1>11. ReleaseInv(s)'
  BY <1>2, <1>4, <1>5 DEF ReleaseInv, OpenCancel
<1> QED
  BY <1>9, <1>10, <1>11

\* What the agent's own steps leave alone, and what they may rely on: a restore
\* with a command on the stream, or with a pipeline, is neither queued nor
\* released, and no worker is about to send for it.
LEMMA Begun ==
  ASSUME NEW s \in Restores, RestoreInv(s), HasOrder(toAgent[s]) \/ stage[s] # "none"
  PROVE  /\ status[s] \notin {"absent", "queued"}
         /\ phase[s] \notin ReportedSafe \cup {"absent"}
         /\ ~AtSend(s) /\ ~OpenCancel(s)
         /\ stage[s] # "none" => ~HasOrder(toAgent[s])
  BY DEF RestoreInv, CommandInv, ReleaseInv, Untouched, Pristine

\* So the rows' part of the invariant holds after them whatever they did.
LEMMA BegunKeeps ==
  ASSUME NEW s \in Restores, RestoreInv(s), UNCHANGED <<dbVars, serverVars>>,
         HasOrder(toAgent[s]) \/ stage[s] # "none",
         ~HasOrder(toAgent'[s]), OneOrder(toAgent'[s]), starts'[s] <= 1,
         stage'[s] # "none" => starts'[s] # 0, ResultInv(s)'
  PROVE  RestoreInv(s)'
<1>1. AtSend(s)' = AtSend(s) /\ OpenCancel(s)' = OpenCancel(s)
  BY DEF AtSend, WorkerAt, OpenCancel, dbVars, serverVars
<1>2. CommandInv(s)'
  BY <1>1, Begun DEF RestoreInv, CommandInv, dbVars, serverVars
<1>3. ReleaseInv(s)'
  BY <1>1, Begun DEF RestoreInv, ReleaseInv, dbVars, serverVars
<1> QED
  BY <1>2, <1>3 DEF RestoreInv

\* Nothing a pipeline that still runs has said releases the occupancy, so what
\* it says next is all there is to check.
LEMMA Unreleased ==
  ASSUME NEW s \in Restores, ResultInv(s), stage[s] # "none",
         NEW m \in Elems(toServer[s]) \cup {held[s]}
  PROVE  ~(m.type = "result" /\ restoreResultOutcome(m) \in ReportedSafe)
  BY DEF ResultInv, Holds

\* The agent takes the command from its stream and starts the pipeline once.
LEMMA RestoreInvAccept ==
  ASSUME TypeOK, NEW s \in Restores, AcceptCommand(s), RestoreInv(s)
  PROVE  RestoreInv(s)'
<1> USE RestoreAssumption
<1>1. /\ toAgent[s] \in Seq({"execute", "cancel"}) /\ toAgent[s] # <<>>
      /\ Head(toAgent[s]) = "execute" /\ toAgent'[s] = Tail(toAgent[s])
  BY DEF AcceptCommand, AgentReceive, TypeOK, StreamTypeOK
<1>2. HasOrder(toAgent[s]) /\ OneOrder(toAgent[s])
  BY <1>1, OrderFacts DEF RestoreInv, CommandInv
<1>3. ~HasOrder(toAgent'[s]) /\ OneOrder(toAgent'[s])
  BY <1>1, <1>2, OrderFacts
<1>4. Pristine(s)
  BY <1>2 DEF RestoreInv, CommandInv
<1>5. starts'[s] = 1
  BY <1>4 DEF AcceptCommand, TypeOK, HistoryTypeOK, Pristine
<1>6. target'[s] = "original" /\ held'[s] = NoResult
  BY <1>4 DEF AcceptCommand, Confirm, Pristine
<1>7. toServer'[s] \in {<<>>, <<Accepted>>}
  BY <1>4 DEF AcceptCommand, Send, TypeOK, StreamTypeOK, Pristine
<1>8. Elems(toServer'[s]) \subseteq {Accepted}
  BY <1>7 DEF Elems
<1>9. Holds(s, NoResult)' /\ Holds(s, Accepted)'
  BY DEF Holds, NoResult, Result, Accepted, restoreResultOutcome, ReportedSafe
<1>10. ResultInv(s)'
  BY <1>6, <1>8, <1>9 DEF ResultInv
<1>11. UNCHANGED <<dbVars, serverVars>>
  BY DEF AcceptCommand
<1> QED
  BY <1>2, <1>3, <1>5, <1>10, <1>11, BegunKeeps

\* Without a temporary directory the pipeline never starts, and the result
\* leaves the request to the operator.
LEMMA RestoreInvTempDir ==
  ASSUME TypeOK, NEW s \in Restores, TempDirFails(s), RestoreInv(s)
  PROVE  RestoreInv(s)'
<1> USE RestoreAssumption
<1> DEFINE n == Result("failed", "none")
<1>1. /\ toAgent[s] \in Seq({"execute", "cancel"}) /\ toAgent[s] # <<>>
      /\ Head(toAgent[s]) = "execute" /\ toAgent'[s] = Tail(toAgent[s])
  BY DEF TempDirFails, AgentReceive, TypeOK, StreamTypeOK
<1>2. HasOrder(toAgent[s]) /\ OneOrder(toAgent[s])
  BY <1>1, OrderFacts DEF RestoreInv, CommandInv
<1>3. ~HasOrder(toAgent'[s]) /\ OneOrder(toAgent'[s])
  BY <1>1, <1>2, OrderFacts
<1>4. Pristine(s)
  BY <1>2 DEF RestoreInv, CommandInv
<1>5. /\ starts'[s] <= 1 /\ stage'[s] = "none" /\ target'[s] = "original"
      /\ held'[s] = n
  BY <1>4 DEF TempDirFails, Pristine
<1>6. toServer'[s] = <<Accepted, n>>
  <2>1. toServer[s] = <<>> /\ toServer'[s] = toServer[s] \o <<Accepted, n>>
    BY <1>4 DEF TempDirFails, Pristine, TypeOK, StreamTypeOK
  <2>2. Accepted \in Report /\ n \in Report
    BY ReportTyped DEF Terminal
  <2> QED
    BY <2>1, <2>2
<1>7. Elems(toServer'[s]) \subseteq {Accepted, n}
  BY <1>6 DEF Elems
<1>8. Holds(s, n)' /\ Holds(s, Accepted)'
  BY DEF Holds, Result, Accepted, restoreResultOutcome, ReportedSafe
<1>9. ResultInv(s)'
  BY <1>5, <1>7, <1>8 DEF ResultInv
<1>10. UNCHANGED <<dbVars, serverVars>>
  BY DEF TempDirFails
<1> QED
  BY <1>2, <1>3, <1>5, <1>9, <1>10, BegunKeeps

\* A send adds the message, or nothing without a stream.
LEMMA SendSays ==
  ASSUME StreamTypeOK, NEW s \in Restores, NEW m \in Report, Send(s, m)
  PROVE  Elems(toServer'[s]) \subseteq Elems(toServer[s]) \cup {m}
<1>1. toServer[s] \in Seq(Report) /\ toServer'[s] \in {toServer[s], Append(toServer[s], m)}
  BY DEF Send, StreamTypeOK
<1>2. Elems(Append(toServer[s], m)) \subseteq Elems(toServer[s]) \cup {m}
  BY <1>1, ElemFacts, Zenon
<1> QED
  BY <1>1, <1>2

\* A pipeline that runs on says nothing that could release.
LEMMA ProgressKeeps ==
  ASSUME TypeOK, NEW s \in Restores, ResultInv(s), stage[s] # "none",
         NEW ph \in {"pre_backup", "restoring", "rolling_back"},
         Send(s, Progress(ph)) \/ toServer' = toServer, held' = held,
         stage'[s] \in {"preparing", "pre_backup"} => target'[s] = "original"
  PROVE  ResultInv(s)'
<1> DEFINE n == Progress(ph)
<1>1. n \in Report /\ n.type = "progress"
  BY ReportTyped DEF Progress
<1> HIDE DEF n
<1>2. Elems(toServer'[s]) \subseteq Elems(toServer[s]) \cup {n}
  BY <1>1, SendSays DEF TypeOK, n
<1>3. Holds(s, n)'
  BY <1>1 DEF Holds
<1>4. ASSUME NEW m \in Elems(toServer[s]) \cup {held[s]} PROVE Holds(s, m)'
  BY Unreleased DEF Holds
<1> QED
  BY <1>2, <1>3, <1>4 DEF ResultInv

\* A pipeline that ends says one thing, and the invariant holds if that is true.
LEMMA SettleKeeps ==
  ASSUME TypeOK, NEW s \in Restores, ResultInv(s), stage[s] # "none", NEW ok \in BOOLEAN,
         NEW ph \in ReportedSafe \cup {"rollback_failed", "none"}, Settle(s, ok, ph),
         ok => ph # "none", Truthful(s, ph)'
  PROVE  ResultInv(s)'
<1>1. PICK res \in Terminal :
        /\ res = IF ok THEN "succeeded" ELSE IF s \in cancelled THEN "cancelled" ELSE "failed"
        /\ Send(s, Result(res, ph)) /\ held' = [held EXCEPT ![s] = Result(res, ph)]
        /\ stage' = [stage EXCEPT ![s] = "none"]
  BY DEF Settle, Terminal
<1> DEFINE n == Result(res, ph)
<1>2. ph = "none" => res # "succeeded"
  BY <1>1
<1>3. Send(s, n) /\ held' = [held EXCEPT ![s] = n] /\ stage' = [stage EXCEPT ![s] = "none"]
  BY <1>1
<1>4. n \in Report
  BY ReportTyped
<1>5. restoreResultOutcome(n) \in ReportedSafe => restoreResultOutcome(n) = ph
  BY <1>2 DEF restoreResultOutcome, Result, ReportedSafe
<1> HIDE DEF n
<1>6. Elems(toServer'[s]) \subseteq Elems(toServer[s]) \cup {n}
  BY <1>3, <1>4, SendSays DEF TypeOK
<1>7. stage'[s] = "none" /\ held'[s] = n
  BY <1>3 DEF TypeOK, AgentTypeOK
<1>8. Holds(s, n)'
  BY <1>5, <1>7 DEF Holds, Truthful
<1>9. ASSUME NEW m \in Elems(toServer[s]) PROVE Holds(s, m)'
  BY Unreleased DEF Holds
<1> QED
  BY <1>6, <1>7, <1>8, <1>9 DEF ResultInv

\* Every step of the pipeline keeps the invariant.
LEMMA RestoreInvPipeline ==
  ASSUME TypeOK, NEW s \in Restores, Pipeline(s), RestoreInv(s)
  PROVE  RestoreInv(s)'
<1> USE RestoreAssumption
<1>1. stage[s] # "none"
  BY DEF Pipeline, StartPreBackup, StartImport, StartRollback, FailPreparing, FailPreBackup,
     FailFilesystem, Succeed, FinishRollback
<1>2. UNCHANGED <<dbVars, serverVars, toAgent, starts>>
  BY DEF Pipeline, StartPreBackup, StartImport, StartRollback, FailPreparing, FailPreBackup,
     FailFilesystem, Succeed, FinishRollback, Settle, histVars
<1>3. ResultInv(s)
  BY DEF RestoreInv
<1>4. ASSUME StartPreBackup(s) PROVE ResultInv(s)'
  <2>1. target'[s] = "original" /\ held' = held
    BY <1>3, <1>4 DEF StartPreBackup, ResultInv, histVars
  <2> QED
    BY <1>1, <1>3, <1>4, <2>1, ProgressKeeps DEF StartPreBackup
<1>5. ASSUME StartImport(s) PROVE ResultInv(s)'
  <2>1. stage'[s] = "restoring" /\ held' = held
    BY <1>5 DEF StartImport, TypeOK, AgentTypeOK
  <2> QED
    BY <1>1, <1>3, <1>5, <2>1, ProgressKeeps DEF StartImport
<1>6. ASSUME StartRollback(s) PROVE ResultInv(s)'
  <2>1. stage'[s] = "rolling_back" /\ held' = held
    BY <1>6 DEF StartRollback, TypeOK, AgentTypeOK
  <2> QED
    BY <1>1, <1>3, <1>6, <2>1, ProgressKeeps DEF StartRollback
<1>7. ASSUME FailPreparing(s) PROVE ResultInv(s)'
  <2>1. target'[s] = "original"
    BY <1>3, <1>7 DEF FailPreparing, ResultInv
  <2>2. Truthful(s, "failed")' /\ Truthful(s, "none")' /\ "failed" \in ReportedSafe
    BY <2>1 DEF Truthful, ReportedSafe
  <2> QED
    BY <1>1, <1>3, <1>7, <2>2, SettleKeeps DEF FailPreparing
<1>8. ASSUME FailPreBackup(s) PROVE ResultInv(s)'
  <2>1. target'[s] = "original"
    BY <1>3, <1>8 DEF FailPreBackup, ResultInv
  <2>2. Truthful(s, "pre_backup_failed")' /\ "pre_backup_failed" \in ReportedSafe
    BY <2>1 DEF Truthful, ReportedSafe
  <2> QED
    BY <1>1, <1>3, <1>8, <2>2, SettleKeeps DEF FailPreBackup
<1>9. ASSUME FailFilesystem(s) PROVE ResultInv(s)'
  <2>1. Truthful(s, "none")'
    BY DEF Truthful, ReportedSafe
  <2> QED
    BY <1>1, <1>3, <1>9, <2>1, SettleKeeps DEF FailFilesystem
<1>10. ASSUME Succeed(s) PROVE ResultInv(s)'
  <2>1. target'[s] = "restored"
    BY <1>10 DEF Succeed, TypeOK, HistoryTypeOK
  <2>2. Truthful(s, "succeeded")' /\ "succeeded" \in ReportedSafe
    BY <2>1 DEF Truthful, ReportedSafe
  <2> QED
    BY <1>1, <1>3, <1>10, <2>2, SettleKeeps DEF Succeed
<1>11. ASSUME FinishRollback(s) PROVE ResultInv(s)'
  <2>1. ASSUME NEW ph \in {"rolled_back", "new_target_cleaned"}, Settle(s, FALSE, ph),
               target' = [target EXCEPT ![s] = "original"]
        PROVE  ResultInv(s)'
    <3>1. target'[s] = "original"
      BY <2>1 DEF TypeOK, HistoryTypeOK
    <3>2. Truthful(s, ph)' /\ ph \in ReportedSafe
      BY <3>1 DEF Truthful, ReportedSafe
    <3> QED
      BY <1>1, <1>3, <2>1, <3>2, SettleKeeps
  <2>2. CASE Settle(s, FALSE, "rollback_failed")
    <3>1. Truthful(s, "rollback_failed")'
      BY DEF Truthful, ReportedSafe
    <3> QED
      BY <1>1, <1>3, <2>2, <3>1, SettleKeeps
  <2> QED
    BY <1>11, <2>1, <2>2 DEF FinishRollback
<1>12. ResultInv(s)'
  BY <1>4, <1>5, <1>6, <1>7, <1>8, <1>9, <1>10, <1>11 DEF Pipeline
<1>13. /\ ~HasOrder(toAgent'[s]) /\ OneOrder(toAgent'[s])
       /\ starts'[s] <= 1 /\ starts'[s] # 0
  BY <1>1, <1>2, Begun DEF RestoreInv, CommandInv
<1> QED
  BY <1>1, <1>2, <1>12, <1>13, BegunKeeps

\* Every step keeps it.
LEMMA RestoreInvStep ==
  ASSUME Inv, [Next]_vars, NEW s \in Restores, RestoreInv(s)
  PROVE  RestoreInv(s)'
<1>1. TypeOK /\ RowsAgree
  BY DEF Inv
<1>2. RowHyp(s)
  BY DEF RestoreInv, CommandInv, ReleaseInv, Untouched, RowHyp
<1>3. CASE Active(s)
  BY <1>1, <1>3, RestoreInvSend, RestoreInvAccept, RestoreInvTempDir, RestoreInvPipeline DEF Active
<1>4. CASE ~Active(s)
  <2>1. Passive(s)
    BY <1>1, <1>4, PassiveStep
  <2>2. CASE \A p \in Repositories : ~SendCommand(p)
    BY <1>1, <1>2, <2>1, <2>2, RowStep, RestoreInvPassive
  <2>3. CASE \E p \in Repositories : SendCommand(p)
    <3>1. PICK p \in Repositories : SendCommand(p)
      BY <2>3
    <3>2. worker[p] # s /\ RestoreRepository[worker[p]] = p /\ worker[p] \in Restores
      BY <1>1, <1>4, <3>1 DEF Active, SendCommand, WorkerAt, TypeOK, WorkerTypeOK
    <3>3. RowKept(s)
      BY <1>1, <1>2, <3>1, <3>2 DEF SendCommand, workerFrame, dbVars, TypeOK, WorkerTypeOK,
         RowHyp, RowKept, RunKept, WorkerKept, RequestKept, OpenCancel, AtSend, WorkerAt
    <3> QED
      BY <1>1, <2>1, <3>3, RestoreInvPassive
  <2> QED
    BY <2>2, <2>3
<1> QED
  BY <1>3, <1>4

\* It holds before the first restore.
LEMMA RestoreInvInit ==
  ASSUME Init, NEW s \in Restores
  PROVE  RestoreInv(s)
<1> USE RestoreAssumption
<1>1. Untouched(s)
  BY NoOrders DEF Init, Untouched, Pristine, AtSend, WorkerAt
<1>2. Holds(s, NoResult)
  BY DEF Holds, NoResult, Result, restoreResultOutcome, ReportedSafe
<1>3. toAgent[s] = <<>> /\ toServer[s] = <<>> /\ held[s] = NoResult
  BY DEF Init
<1>4. ResultInv(s)
  BY <1>2, <1>3, NoOrders DEF ResultInv, Init
<1>5. CommandInv(s)
  BY <1>1, <1>3, NoOrders DEF CommandInv, Untouched, Init
<1>6. ReleaseInv(s)
  BY <1>1 DEF ReleaseInv, OpenCancel, Init, Terminal, ReportedSafe
<1> QED
  BY <1>4, <1>5, <1>6 DEF RestoreInv

\* In every reachable state every restore has the invariant.
LEMMA RestoreInvAlways == Spec => [](\A s \in Restores : RestoreInv(s))
<1> DEFINE J == Inv /\ \A s \in Restores : RestoreInv(s)
<1>1. Init => J
  BY InvInit, RestoreInvInit
<1>2. J /\ [Next]_vars => J'
  <2> SUFFICES ASSUME J, [Next]_vars PROVE J'
    OBVIOUS
  <2>1. Inv'
    BY InvStep
  <2>2. ASSUME NEW s \in Restores PROVE RestoreInv(s)'
    BY RestoreInvStep
  <2> QED
    BY <2>1, <2>2
<1> QED
  BY <1>1, <1>2, PTL DEF Spec

\* A restore is never replayed: whatever is lost, delayed, cancelled or
\* restarted, its command is sent once and its pipeline starts at most once.
THEOREM RestoresRunOnce == Spec => []RestoreRunsOnce
<1>1. (\A s \in Restores : RestoreInv(s)) => RestoreRunsOnce
  BY DEF RestoreInv, CommandInv, RestoreRunsOnce
<1> QED
  BY <1>1, RestoreInvAlways, PTL

\* The occupancy is not released while the restore can still write its target:
\* its pipeline runs, its command is in flight, or a worker is about to send it.
THEOREM OccupancyCovers == Spec => []OccupancyCoversExecution
<1>1. (\A s \in Restores : RestoreInv(s)) => OccupancyCoversExecution
  BY DEF RestoreInv, ReleaseInv, OccupancyCoversExecution, CanStillWrite, HasOrder, AtSend
<1> QED
  BY <1>1, RestoreInvAlways, PTL

\* A phase that releases the occupancy, written by a result of any age or by the
\* server itself, is true of the target.
THEOREM SafePhasesAreTruthful == Spec => []SafePhaseIsTruthful
<1>1. (\A s \in Restores : RestoreInv(s)) => SafePhaseIsTruthful
  BY DEF RestoreInv, ReleaseInv, SafePhaseIsTruthful, Truthful, ReportedSafe
<1> QED
  BY <1>1, RestoreInvAlways, PTL


-----------------------------------------------------------------------------
(* The promise of each restore.                                             *)

PromiseStep(s) == [Promise(s)!Next]_(Promise(s)!vars)

\* What the promise sees of a restore that nobody touched is as it was.
LEMMA PromiseFrame ==
  ASSUME NEW s \in Restores, stage'[s] = stage[s], starts'[s] = starts[s],
         target'[s] = target[s], reported'[s] = reported[s],
         (s \in protected') = (s \in protected)
  PROVE  PromiseStep(s)
<1>1. PromisedStage(s)' = PromisedStage(s)
  BY DEF PromisedStage
<1> QED
  BY <1>1 DEF PromiseStep, Promise!vars

\* A passive step is a stutter, or the process of the agent is gone.
LEMMA PassivePromise ==
  ASSUME TypeOK, NEW s \in Restores, RestoreInv(s), Passive(s)
  PROVE  PromiseStep(s)
<1>1. CASE stage'[s] = stage[s]
  BY <1>1, PromiseFrame DEF Passive
<1>2. CASE stage'[s] # stage[s]
  <2>1. stage[s] \notin {"none", "ended"} /\ stage'[s] = "none" /\ starts[s] # 0
    BY <1>2 DEF Passive, RestoreInv, CommandInv, TypeOK, AgentTypeOK
  <2>2. PromisedStage(s)' = "ended" /\ PromisedStage(s) # "ended"
    BY <2>1 DEF PromisedStage, Passive
  <2> QED
    BY <2>2 DEF PromiseStep, Promise!Next, Promise!Crash, Passive
<1> QED
  BY <1>1, <1>2

\* The end of a pipeline is the promise's report of what is true of it.
LEMMA SettlePromise ==
  ASSUME TypeOK, NEW s \in Restores, stage[s] # "none", NEW ok \in BOOLEAN,
         NEW ph \in ReportedSafe \cup {"rollback_failed", "none"}, Settle(s, ok, ph),
         target'[s] \in Promise(s)!Targets, Promise(s)!Truthful(ph)
  PROVE  PromiseStep(s)
<1>1. stage'[s] = "none" /\ reported'[s] = ph /\ protected' = protected
  BY DEF Settle, TypeOK, AgentTypeOK, HistoryTypeOK
<1>2. PromisedStage(s)' = "ended" /\ PromisedStage(s) # "ended"
  BY <1>1 DEF PromisedStage, TypeOK, AgentTypeOK, ReportedSafe
<1>3. ph \in Promise(s)!Reports
  BY DEF Promise!Reports, ReportedSafe
<1>4. Promise(s)!Report(ph)
  BY <1>1, <1>2 DEF Promise!Report
<1> QED
  BY <1>3, <1>4 DEF PromiseStep, Promise!Next

\* So every step of the pipeline is one of the promise.
LEMMA PipelinePromise ==
  ASSUME TypeOK, TypeOK', NEW s \in Restores, Pipeline(s)
  PROVE  PromiseStep(s)
<1>1. stage[s] # "none" /\ PromisedStage(s) = stage[s] /\ target'[s] \in Promise(s)!Targets
  BY DEF Pipeline, StartPreBackup, StartImport, StartRollback, FailPreparing, FailPreBackup,
     FailFilesystem, Succeed, FinishRollback, PromisedStage, TypeOK, HistoryTypeOK, Promise!Targets
<1>2. ASSUME StartPreBackup(s) PROVE PromiseStep(s)
  <2>1. stage'[s] = "pre_backup" /\ PromisedStage(s)' = "pre_backup"
    BY <1>2 DEF StartPreBackup, PromisedStage, TypeOK, AgentTypeOK
  <2>2. Promise(s)!PreBackup
    BY <1>1, <1>2, <2>1 DEF StartPreBackup, Promise!PreBackup, histVars
  <2> QED
    BY <2>2 DEF PromiseStep, Promise!Next
<1>3. ASSUME StartImport(s) PROVE PromiseStep(s)
  <2>1. stage'[s] = "restoring" /\ PromisedStage(s)' = "restoring"
    BY <1>3 DEF StartImport, PromisedStage, TypeOK, AgentTypeOK
  <2>2. \/ stage[s] = "preparing" /\ protected' = protected
        \/ stage[s] = "pre_backup" /\ s \in protected'
    BY <1>3 DEF StartImport
  <2>3. reported' = reported
    BY <1>3 DEF StartImport
  <2>4. Promise(s)!Import
    BY <1>1, <2>1, <2>2, <2>3 DEF Promise!Import
  <2> QED
    BY <2>4 DEF PromiseStep, Promise!Next
<1>4. ASSUME StartRollback(s) PROVE PromiseStep(s)
  <2>1. stage'[s] = "rolling_back" /\ PromisedStage(s)' = "rolling_back"
    BY <1>4 DEF StartRollback, PromisedStage, TypeOK, AgentTypeOK
  <2>2. Promise(s)!RollBack
    BY <1>1, <1>4, <2>1 DEF StartRollback, Promise!RollBack, histVars
  <2> QED
    BY <2>2 DEF PromiseStep, Promise!Next
<1>5. ASSUME FailPreparing(s) PROVE PromiseStep(s)
  <2>1. Promise(s)!Truthful("failed") /\ Promise(s)!Truthful("none")
    BY <1>1, <1>5 DEF FailPreparing, Promise!Truthful
  <2> QED
    BY <1>1, <1>5, <2>1, SettlePromise, Values DEF FailPreparing
<1>6. ASSUME FailPreBackup(s) PROVE PromiseStep(s)
  <2>1. Promise(s)!Truthful("pre_backup_failed")
    BY <1>1, <1>6 DEF FailPreBackup, Promise!Truthful
  <2> QED
    BY <1>1, <1>6, <2>1, SettlePromise, Values DEF FailPreBackup
<1>7. ASSUME FailFilesystem(s) PROVE PromiseStep(s)
  <2>1. Promise(s)!Truthful("none")
    BY <1>1, <1>7 DEF FailFilesystem, Promise!Truthful
  <2> QED
    BY <1>1, <1>7, <2>1, SettlePromise DEF FailFilesystem
<1>8. ASSUME Succeed(s) PROVE PromiseStep(s)
  <2>1. target'[s] = "restored"
    BY <1>8 DEF Succeed, TypeOK, HistoryTypeOK
  <2>2. Promise(s)!Truthful("succeeded")
    BY <1>1, <1>8, <2>1 DEF Succeed, Promise!Truthful
  <2> QED
    BY <1>1, <1>8, <2>2, SettlePromise, Values DEF Succeed
<1>9. ASSUME FinishRollback(s) PROVE PromiseStep(s)
  <2> DEFINE ph == IF s \in protected THEN "rolled_back" ELSE "new_target_cleaned"
  <2>1. stage[s] = "rolling_back" /\ ph \in ReportedSafe
    BY <1>9, Values DEF FinishRollback
  <2>2. CASE Settle(s, FALSE, ph) /\ target' = [target EXCEPT ![s] = "original"]
    <3>1. target'[s] = "original"
      BY <2>2 DEF TypeOK, HistoryTypeOK
    <3>2. Promise(s)!Truthful(ph)
      BY <1>1, <2>1, <3>1 DEF Promise!Truthful
    <3> QED
      BY <1>1, <2>1, <2>2, <3>2, SettlePromise
  <2>3. CASE Settle(s, FALSE, "rollback_failed")
    <3>1. Promise(s)!Truthful("rollback_failed")
      BY <1>1, <2>1 DEF Promise!Truthful
    <3> QED
      BY <1>1, <2>3, <3>1, SettlePromise
  <2> QED
    BY <1>9, <2>2, <2>3 DEF FinishRollback
<1> QED
  BY <1>2, <1>3, <1>4, <1>5, <1>6, <1>7, <1>8, <1>9 DEF Pipeline

\* The command starts what the promise calls preparing already.
LEMMA AcceptPromise ==
  ASSUME TypeOK, NEW s \in Restores, AcceptCommand(s), RestoreInv(s)
  PROVE  PromiseStep(s)
<1>1. Pristine(s)
  <2>1. /\ toAgent[s] \in Seq({"execute", "cancel"}) /\ toAgent[s] # <<>>
        /\ Head(toAgent[s]) = "execute"
    BY DEF AcceptCommand, AgentReceive, TypeOK, StreamTypeOK
  <2> QED
    BY <2>1, OrderFacts DEF RestoreInv, CommandInv
<1>2. PromisedStage(s)' = "preparing" /\ PromisedStage(s) = "preparing"
  BY <1>1 DEF AcceptCommand, PromisedStage, Pristine, TypeOK, AgentTypeOK
<1>3. UNCHANGED <<target, protected, reported>>
  BY DEF AcceptCommand
<1> QED
  BY <1>2, <1>3 DEF PromiseStep, Promise!vars

\* Without a temporary directory the promise ends with a result without a phase.
LEMMA TempDirPromise ==
  ASSUME TypeOK, NEW s \in Restores, TempDirFails(s), RestoreInv(s)
  PROVE  PromiseStep(s)
<1>1. Pristine(s)
  <2>1. /\ toAgent[s] \in Seq({"execute", "cancel"}) /\ toAgent[s] # <<>>
        /\ Head(toAgent[s]) = "execute"
    BY DEF TempDirFails, AgentReceive, TypeOK, StreamTypeOK
  <2> QED
    BY <2>1, OrderFacts DEF RestoreInv, CommandInv
<1>2. reported'[s] = "none" /\ UNCHANGED <<stage, target, protected>>
  BY DEF TempDirFails, TypeOK, HistoryTypeOK
<1>3. PromisedStage(s)' = "ended" /\ PromisedStage(s) = "preparing"
  BY <1>1, <1>2 DEF PromisedStage, Pristine
<1>4. Promise(s)!Report("none") /\ "none" \in Promise(s)!Reports
  BY <1>1, <1>2, <1>3 DEF Promise!Report, Promise!Truthful, Promise!Targets, Promise!Reports,
     Pristine
<1> QED
  BY <1>4 DEF PromiseStep, Promise!Next

\* The agent as the server knows it keeps the promise of every restore, for any
\* loss, delay, replay, cancel and restart: the steps of RestoreOccupancy are
\* steps of RestorePromise or leave what it sees alone.
THEOREM AgentsKeepPromises == Spec => PromisesKept
<1> DEFINE J == Inv /\ \A s \in Restores : RestoreInv(s)
<1>1. Init => \A r \in Restores : Promise(r)!Init
  BY DEF Init, PromisedStage, Promise!Init
<1>2. J /\ [Next]_vars => \A r \in Restores : PromiseStep(r)
  <2> SUFFICES ASSUME J, [Next]_vars, NEW s \in Restores PROVE PromiseStep(s)
    OBVIOUS
  <2>1. TypeOK /\ TypeOK' /\ RestoreInv(s)
    BY TypeStep DEF Inv
  <2>2. CASE Active(s)
    <3>1. ASSUME NEW p \in Repositories, SendCommand(p) PROVE PromiseStep(s)
      BY <3>1, PromiseFrame DEF SendCommand, agentVars, histVars
    <3> QED
      BY <2>1, <2>2, <3>1, AcceptPromise, TempDirPromise, PipelinePromise DEF Active
  <2>3. CASE ~Active(s)
    BY <2>1, <2>3, PassiveStep, PassivePromise
  <2> QED
    BY <2>2, <2>3
<1>3. Spec => []Inv /\ [](\A s \in Restores : RestoreInv(s))
  BY RestoreInvAlways, InvAlways, PTL
<1>4. J /\ [Next]_vars => [\A r \in Restores : [Promise(r)!Next]_(Promise(r)!vars)]_vars
  BY <1>2 DEF PromiseStep
<1> QED
  BY <1>1, <1>3, <1>4, PTL DEF Spec, PromisesKept

-----------------------------------------------------------------------------
(* How a request can be left open.                                          *)

\* What a step that leaves no request open behind does: a run that has ended
\* after it had ended before, or its request has ended with it.
EndsTogether(s) ==
  status'[s] \in Terminal /\ startup'[s] # "finish" =>
    \/ status[s] \in Terminal /\ startup[s] # "finish"
    \/ phase'[s] \in TerminalPhases \cup {"absent"}

\* A step that moves no run.
LEMMA FrameEnds ==
  ASSUME NEW s \in Restores, UNCHANGED <<status, startup>>
  PROVE  EndsTogether(s)
  BY DEF EndsTogether

\* A transition to a state that is not terminal ends no run.
LEMMA TransitionEnds ==
  ASSUME StoreTypeOK, NEW r \in Restores, NEW s \in Restores, NEW from,
         NEW to \in RunStatuses \ Terminal, NEW newLease, TransitionRun(r, from, to, newLease),
         UNCHANGED startup
  PROVE  EndsTogether(s)
  BY DEF EndsTogether, TransitionRun, StoreTypeOK

\* FinishRestoreRun ends the request of every run it leaves ended.
LEMMA FinishEnds ==
  ASSUME StoreTypeOK, NEW r \in Restores, NEW s \in Restores, NEW froms, NEW to,
         NEW ph \in TerminalPhases, FinishRestoreRun(r, froms, to, ph), r # s => startup'[s] = startup[s]
  PROVE  EndsTogether(s)
<1>1. CASE r = s /\ updateRestoreRequestTx(r, ph)
  BY <1>1 DEF EndsTogether, updateRestoreRequestTx, StoreTypeOK, TerminalPhases
<1>2. CASE r = s /\ UNCHANGED dbVars /\ status[r] \notin Terminal
  BY <1>2 DEF EndsTogether, dbVars
<1>3. CASE r # s
  <2>1. status'[s] = status[s]
    BY <1>3 DEF FinishRestoreRun, dbVars, StoreTypeOK
  <2> QED
    BY <1>3, <2>1 DEF EndsTogether
<1> QED
  BY <1>1, <1>2, <1>3 DEF FinishRestoreRun

\* The steps OrphansHaveKnownCauses names.
Orphaning ==
  \/ \E p \in Repositories : BuildFails(p)
  \/ \E r \in Restores : SavePasswordFails(r) \/ FailStaleQueued(r) \/ CreateRestoreRequest(r)
  \/ ServerCrash

\* Every other step ends a run and its request together.
LEMMA EndsTogetherStep ==
  ASSUME TypeOK, [Next]_vars, NEW s \in Restores, ~Orphaning
  PROVE  EndsTogether(s)
<1> USE RestoreAssumption DEF TypeOK
<1>1. ASSUME NEW p \in Repositories, Claim(p) PROVE EndsTogether(s)
  <2>1. worker[p] \in Restores /\ "dispatched" \in RunStatuses \ Terminal
    BY <1>1 DEF Claim, WorkerAt, WorkerTypeOK, RunStatuses, Terminal
  <2> QED
    BY <1>1, <2>1, TransitionEnds DEF Claim, workerFrame
<1>2. ASSUME NEW p \in Repositories, SendFails(p) PROVE EndsTogether(s)
  <2>1. worker[p] \in Restores /\ "queued" \in RunStatuses \ Terminal
    BY <1>2 DEF SendFails, WorkerAt, WorkerTypeOK, RunStatuses, Terminal
  <2> QED
    BY <1>2, <2>1, TransitionEnds DEF SendFails, workerFrame
<1>3. ASSUME NEW r \in Restores, HandleAccepted(r) PROVE EndsTogether(s)
  <2>1. "running" \in RunStatuses \ Terminal
    BY DEF RunStatuses, Terminal
  <2> QED
    BY <1>3, <2>1, TransitionEnds DEF HandleAccepted
<1>4. "failed" \in TerminalPhases /\ "manual_recovery_required" \in TerminalPhases
  BY DEF TerminalPhases, Releasing, ReportedSafe, Manual
<1>5. ASSUME NEW p \in Repositories, RefuseUnsafe(p) PROVE EndsTogether(s)
  <2>1. worker[p] \in Restores
    BY <1>5 DEF RefuseUnsafe, WorkerAt, WorkerTypeOK
  <2> QED
    BY <1>4, <1>5, <2>1, FinishEnds DEF RefuseUnsafe, workerFrame
<1>6. ASSUME NEW r \in Restores, TakeWithoutRequest(r) PROVE EndsTogether(s)
  BY <1>4, <1>6, FinishEnds DEF TakeWithoutRequest, workerFrame
<1>7. ASSUME NEW r \in Restores, RequestRestoreStop(r), UNCHANGED startup PROVE EndsTogether(s)
  BY <1>7, StopQuiet DEF EndsTogether
<1>8. ASSUME NEW r \in Restores, CancelCommit(r) PROVE EndsTogether(s)
  BY <1>4, <1>7, <1>8, FinishEnds DEF CancelCommit
<1>9. ASSUME NEW r \in Restores, WatchdogWrite(r) PROVE EndsTogether(s)
  BY <1>4, <1>7, <1>9, FinishEnds DEF WatchdogWrite
<1>10. ASSUME NEW r \in Restores, HandleResult(r) PROVE EndsTogether(s)
  <2> DEFINE m == Head(toServer[r])
             ph == restoreResultOutcome(m)
             to == IF ph = "rollback_failed" THEN "failed" ELSE m.res
  <2>1. m \in Report /\ m.type = "result"
    BY <1>10, ReceiveTyped DEF HandleResult
  <2>2. ph \in TerminalPhases
    BY <2>1 DEF Report, restoreResultOutcome, TerminalPhases, Releasing, ReportedSafe, Manual
  <2>3. FinishRestoreRun(r, {"queued", "dispatched", "running"}, to, ph) /\ startup' = startup
    BY <1>10 DEF HandleResult, serverVars
  <2> HIDE DEF m, ph, to
  <2> QED
    BY <2>2, <2>3, FinishEnds
<1>11. ASSUME NEW r \in Restores, RecoverRequest(r) PROVE EndsTogether(s)
  <2>1. r # s => startup'[s] = startup[s]
    BY <1>11 DEF RecoverRequest, ServerTypeOK
  <2> QED
    BY <1>4, <1>11, <2>1, FinishEnds DEF RecoverRequest
<1>12. ASSUME NEW r \in Restores, RecoverRun(r) PROVE EndsTogether(s)
  <2>1. CASE CanTransition(status[r], startup[r], "failed")
    BY <1>12, <2>1 DEF RecoverRun, TransitionRun, EndsTogether, StoreTypeOK, ServerTypeOK
  <2>2. CASE ~CanTransition(status[r], startup[r], "failed")
    BY <1>12, <2>2 DEF RecoverRun, TransitionRun, EndsTogether, StoreTypeOK, ServerTypeOK
  <2> QED
    BY <2>1, <2>2
<1>13. ASSUME NEW r \in Restores, Resolve(r) PROVE EndsTogether(s)
  <2>1. "manual_recovery_resolved" \in TerminalPhases
    BY DEF TerminalPhases, Releasing
  <2> QED
    BY <1>13, <2>1 DEF Resolve, serverVars, EndsTogether, StoreTypeOK
<1>14. ASSUME NEW r \in Restores, CreateDatabaseRestore(r) PROVE EndsTogether(s)
  BY <1>14 DEF CreateDatabaseRestore, EndsTogether, StoreTypeOK, Terminal
<1>15. ASSUME NEW r \in Restores, CreateFilesystemRun(r) PROVE EndsTogether(s)
  BY <1>15 DEF CreateFilesystemRun, EndsTogether, StoreTypeOK, Terminal
<1>16. ASSUME NEW p \in Repositories, SendCommand(p) \/ Poll(p) PROVE EndsTogether(s)
  BY <1>16, FrameEnds DEF SendCommand, Poll, dbVars, workerFrame
<1>17. ASSUME NEW r \in Restores,
              \/ SavePassword(r) \/ Take(r) \/ CancelRead(r) \/ LeaseRunsOut(r)
              \/ LeaseRunsOutEarly(r) \/ WatchdogList(r) \/ WatchdogDecide(r)
              \/ RecordRunning(r) \/ HandleProgress(r) \/ DisconnectRun(r)
       PROVE  EndsTogether(s)
  BY <1>17, FrameEnds DEF SavePassword, Take, CancelRead, LeaseRunsOut, LeaseRunsOutEarly,
     WatchdogList, WatchdogDecide, RecordRunning, HandleProgress, DisconnectRun, dbVars,
     serverVars, workerFrame
<1>18. ASSUME NEW r \in Restores, AgentNext(r) PROVE EndsTogether(s)
  BY <1>18, FrameEnds DEF AgentNext, AcceptCommand, TempDirFails, ReceiveCancel,
     StartPreBackup, StartImport, StartRollback, FailPreparing, FailPreBackup, FailFilesystem,
     Succeed, FinishRollback, Settle, dbVars, serverVars
<1>19. ASSUME NEW a \in Agents, StreamNext(a) PROVE EndsTogether(s)
  BY <1>19, FrameEnds DEF StreamNext, LinkBreaks, StreamEnds, DisconnectList, Reconnect,
     ReportCapabilities, ReceiveWelcome, AgentRestart, dbVars, serverVars
<1>20. CASE StartServing \/ UNCHANGED vars
  BY <1>20, FrameEnds DEF StartServing, vars, dbVars, serverVars
<1> QED
  BY <1>1, <1>2, <1>3, <1>5, <1>6, <1>8, <1>9, <1>10, <1>11, <1>12, <1>13, <1>14, <1>15,
     <1>16, <1>17, <1>18, <1>19, <1>20 DEF Next, WorkerNext, ServerNext, Orphaning

\* A request is left open by a run that ends in five ways and no others: a build
\* that fails, a password that cannot be saved, the stale-queue tick, a crash
\* between the two writes of recoverStaleRuns, and an insert after the run has
\* ended.  Every other writer of the two rows ends both.
THEOREM OrphansHaveNoOtherCause == Spec => OrphansHaveKnownCauses
<1>1. Inv /\ [Next]_vars =>
        [(\E r \in Restores : ~Orphaned(r) /\ Orphaned(r)')
           => \/ \E p \in Repositories : BuildFails(p)
              \/ \E r \in Restores : \/ SavePasswordFails(r) \/ FailStaleQueued(r)
                                    \/ CreateRestoreRequest(r)
              \/ ServerCrash]_vars
  <2> SUFFICES ASSUME Inv, [Next]_vars, NEW s \in Restores, ~Orphaned(s), Orphaned(s)',
                      ~Orphaning
               PROVE  FALSE
    BY DEF Orphaning
  <2>1. EndsTogether(s)
    BY EndsTogetherStep DEF Inv
  <2>2. phase[s] \in TerminalPhases \cup {"absent"}
    BY <2>1 DEF EndsTogether, Orphaned
  <2>3. CASE Quiet
    <3>1. "manual_recovery_resolved" \in TerminalPhases
      BY DEF TerminalPhases, Releasing
    <3>2. PhaseKept(s)
      BY <2>3 DEF Quiet
    <3> QED
      BY <2>2, <3>1, <3>2 DEF PhaseKept, Orphaned, TerminalPhases
  <2>4. ASSUME NEW r \in Restores, CreateDatabaseRestore(r) PROVE FALSE
    <3>1. r # s
      BY <2>4 DEF CreateDatabaseRestore, Orphaned, Inv, TypeOK, StoreTypeOK, Terminal
    <3>2. phase'[s] = phase[s]
      BY <2>4, <3>1 DEF CreateDatabaseRestore, Inv, TypeOK, StoreTypeOK
    <3> QED
      BY <2>2, <3>2 DEF Orphaned
  <2>5. ASSUME NEW r \in Restores, CreateFilesystemRun(r) PROVE FALSE
    BY <2>2, <2>5 DEF CreateFilesystemRun, Orphaned
  <2> QED
    BY <2>3, <2>4, <2>5, QuietStep DEF Inv, Orphaning
<1> QED
  BY <1>1, InvAlways, PTL DEF Spec, OrphansHaveKnownCauses

==============================================================================
