--------------------------- MODULE MCControlPlane ---------------------------
(* The parts of the system that share no state with each other, checked in   *)
(* one run: a behaviour is a behaviour of one of them, the focus, while the  *)
(* others keep their initial state (the first, where there are several).     *)
EXTENDS PlanSchedule, AgentSessions, RepositoryBinding, RestoreExecution,
        BackupExecution, TLC

VARIABLE focus

EverySecond == {{1, 3}, {2}}
OneFlag == {{}, {"tables_t1", "ignore_t1"}, {"ignore_view", "skip_triggers"}} \cup {{f} : f \in Flags}
Alike == Permutations(Streams) \cup Permutations(Binders)

vars == <<focus, scheduleVars, sessionVars, bindingVars, executionVars, backupVars>>

IdleRestore ==
    /\ engine = "sqlite" /\ db = NoDatabase
    /\ order = [replace |-> FALSE, dryRun |-> FALSE]
IdleBackup == source = [kind |-> "sqlite", all |-> FALSE, args |-> {}, account |-> NoAccount]

\* Bounds of the sessions: a takeover by a second machine, or one machine and
\* one step of an administrator or one fault. Heartbeats, on which none of the
\* invariants here depends, are in the liveness run.
SessionBounds ==
    /\ ~throttled'
    /\ adminOps' + sessionFaults' # 0 =>
         /\ adminOps' + sessionFaults' = 1
         /\ \A t \in Takeover : tokens'[t] = "absent"
         /\ \E m \in Machines : \A n \in Machines \ {m} : identity'[n] = "absent"

\* Bounds of the bindings: plans use the first row only.
BindingBounds == rows' = MaxRows => ~hasPlan'

MCInit ==
    /\ focus \in {"schedule", "sessions", "binding", "restore", "backup"}
    /\ ScheduleInit
    /\ focus # "schedule" => plan.schedule = {2}
    /\ focus # "restore" => IdleRestore
    /\ focus # "backup" => IdleBackup
    /\ SessionInit /\ BindingInit /\ ExecutionInit /\ BackupInit

MCNext ==
    /\ UNCHANGED focus
    /\ \/ /\ focus = "schedule" /\ ScheduleNext
          /\ UNCHANGED <<sessionVars, bindingVars, executionVars, backupVars>>
       \/ /\ focus = "sessions" /\ SessionNext /\ SessionBounds
          /\ UNCHANGED <<scheduleVars, bindingVars, executionVars, backupVars>>
       \/ /\ focus = "binding" /\ BindingNext /\ BindingBounds
          /\ UNCHANGED <<scheduleVars, sessionVars, executionVars, backupVars>>
       \/ /\ focus = "restore" /\ ExecutionNext
          /\ UNCHANGED <<scheduleVars, sessionVars, bindingVars, backupVars>>
       \/ /\ focus = "backup" /\ BackupNext
          /\ UNCHANGED <<scheduleVars, sessionVars, bindingVars, executionVars>>

MCSpec == MCInit /\ [][MCNext]_vars
=============================================================================
