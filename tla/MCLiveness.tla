------------------------------ MODULE MCLiveness ------------------------------
(* What must eventually happen in the parts that share no state: restores,   *)
(* the sessions of an agent, and the deletions of the snapshot catalogue.    *)
(* A behaviour is a behaviour of one of them, the focus; the other two keep  *)
(* their initial state and owe nothing. The dispatcher, whose state space is *)
(* the largest, has a run of its own.                                        *)
EXTENDS MCRestoreOccupancy

CONSTANTS
    Machines, Streams, NoStream, Tokens, Takeover, NoMachine, MaxAdminOps, MaxSessionFaults,
    Backups, Protection, Lists, None, CatalogFaultKinds, MaxCatalogFaults, MaxBrowses

VARIABLES
    focus,
    agentRow, tokens, identity, up, enroll, enrolled, registry, stream, sender, granted,
    revoker, scanning, throttled, adminOps, sessionFaults,
    remote, rows, exec, worked, listing, cache, flight, deletion, aged, scanRun, tick, todo,
    subject, awaited, restore, good, wanted, catalogFaults, browses

Sessions == INSTANCE AgentSessions
Catalog == INSTANCE SnapshotCatalog WITH
    status <- rows, faults <- catalogFaults,
    FaultKinds <- CatalogFaultKinds, MaxFaults <- MaxCatalogFaults,
    Prunable <- {}, Requests <- {"restore"}

sessions == <<agentRow, tokens, identity, up, enroll, enrolled, registry, stream, sender,
              granted, revoker, scanning, throttled, adminOps, sessionFaults>>
catalog == <<remote, rows, exec, worked, listing, cache, flight, deletion, aged, scanRun,
             tick, todo, subject, awaited, restore, good, wanted, catalogFaults, browses>>
allVars == <<focus, vars, sessions, catalog>>

LiveInit ==
    /\ focus \in {"restore", "sessions", "catalog"}
    /\ Init /\ Sessions!SessionInit /\ Catalog!Init

Restoring == focus = "restore" /\ UNCHANGED <<focus, sessions, catalog>>
Connecting == focus = "sessions" /\ UNCHANGED <<focus, vars, catalog>>
Cataloguing == focus = "catalog" /\ UNCHANGED <<focus, vars, sessions>>

\* Bounds of the restores: a behaviour has one, of either kind, with one cancel
\* request or one fault (for a database restore, passing its deadline is one).
\* What is known to leave a request open for good is the subject of other runs:
\* two restores that are queued together, and a cancel request between the two
\* inserts of a filesystem restore.
RestoreBounds ==
    /\ \E r \in Restores : \A s \in Restores \ {r} : status'[s] = "absent"
    /\ \A r \in Restores : cancels'[r] # cancels[r] => phase[r] # "absent"
    /\ faults' = 0 \/ \A r \in Restores : cancels'[r] = 0

\* Bounds of the sessions: one fault or one administrator's step, and no
\* restores sent, which the status column does not depend on.
SessionBounds == adminOps' + sessionFaults' <= 1 /\ sender' = NoStream /\ \A s \in Streams : ~stream'[s].safe

\* Bound of the catalogue: restores are on the agent of the repository.
CatalogBounds == ~restore'.away

LiveNext ==
    \/ Restoring /\ Next /\ RestoreBounds
    \/ Connecting /\ Sessions!SessionNext /\ SessionBounds
    \/ Cataloguing /\ Catalog!CatalogNext /\ CatalogBounds

\* Fairness of RestoreOccupancy, for behaviours that are about restores: each
\* has one, so what is fair to some restore is fair to that one; and of actions
\* that wait for different values of one variable only one is enabled at a
\* time, so what is fair to all of them together is fair to each.
RestoreFairness ==
    /\ \A p \in Repositories :
         WF_allVars(Restoring /\ (Claim(p) \/ SendCommand(p) \/ RefuseUnsafe(p) \/ SendFails(p) \/ Poll(p)))
    /\ SF_allVars(Restoring /\ \E r \in Restores : Take(r) \/ TakeWithoutRequest(r))
    /\ WF_allVars(Restoring /\ \E r \in Restores : CreateRestoreRequest(r) \/ SavePassword(r))
    /\ WF_allVars(Restoring /\ \E r \in Restores : CancelCommit(r))
    /\ WF_allVars(Restoring /\ \E r \in Restores : LeaseRunsOut(r))
    /\ WF_allVars(Restoring /\ \E r \in Restores : WatchdogList(r) \/ WatchdogDecide(r) \/ WatchdogWrite(r))
    /\ WF_allVars(Restoring /\ \E r \in Restores :
                     HandleAccepted(r) \/ RecordRunning(r) \/ HandleProgress(r) \/ HandleResult(r))
    /\ WF_allVars(Restoring /\ \E r \in Restores : DisconnectRun(r))
    /\ WF_allVars(Restoring /\ (StartServing \/ \E r \in Restores : RecoverRun(r) \/ RecoverRequest(r)))
    /\ WF_allVars(Restoring /\ \E r \in Restores : AcceptCommand(r) \/ ReceiveCancel(r))
    /\ WF_allVars(Restoring /\ \E r \in Restores :
                     \/ StartPreBackup(r) \/ StartImport(r) \/ StartRollback(r)
                     \/ FailPreparing(r) \/ FailPreBackup(r) \/ FailFilesystem(r)
                     \/ Succeed(r) \/ FinishRollback(r))
    /\ \A a \in Agents :
         /\ WF_allVars(Restoring /\ StreamEnds(a)) /\ WF_allVars(Restoring /\ DisconnectList(a))
         /\ WF_allVars(Restoring /\ Reconnect(a))
         /\ WF_allVars(Restoring /\ ReportCapabilities(a)) /\ WF_allVars(Restoring /\ ReceiveWelcome(a))

\* CatalogFairness, for behaviours that are about the catalogue. SessionFairness
\* needs no such care: none of its actions is enabled before an agent enrols.
CatalogFairness ==
    /\ WF_allVars(Cataloguing /\ (\E s \in Catalog!Snapshots :
                                    \/ Catalog!SettleSucceeded(s)
                                    \/ \E l \in Lists : Catalog!SettleFailed(s, l)))
    /\ WF_allVars(Cataloguing /\ (\/ Catalog!TickStart \/ Catalog!ReconcileDeletion
                                  \/ Catalog!ClaimPendingDeletion
                                  \/ Catalog!ConsumeCleanupScan \/ Catalog!SkipCleanupScan))
    /\ WF_allVars(Cataloguing /\ Catalog!DoWork)
    /\ WF_allVars(Cataloguing /\ Catalog!ReportSuccess)
    /\ WF_allVars(Cataloguing /\ (\E k \in Catalog!Keys : exec # k /\ Catalog!TimeOut(k)))
    /\ SF_allVars(Cataloguing /\ (\E s \in Catalog!Snapshots : Catalog!StartRun(Catalog!ForgetRun(s))))
    /\ SF_allVars(Cataloguing /\ (\E l \in Lists : Catalog!StartRun(Catalog!ListRun(l))))
    /\ SF_allVars(Cataloguing /\ Catalog!StartRestore)
    /\ WF_allVars(Cataloguing /\ Catalog!EndRestore)

LiveSpec ==
    /\ LiveInit /\ [][LiveNext]_allVars
    /\ RestoreFairness /\ CatalogFairness /\ Sessions!SessionFairness

\* An agent whose stream stays up is shown online for good.
ConnectedAgentShownOnline == Sessions!ConnectedAgentShownOnline

\* An agent that is gone for good is shown offline for good.
GoneAgentShownOffline == Sessions!GoneAgentShownOffline

\* A snapshot deletion under way does not stay under way.
RunningDeletionSettles == Catalog!RunningDeletionSettles
===============================================================================
