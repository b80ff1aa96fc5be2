-------------------------- MODULE RepositoryBinding --------------------------
(* The binding of an agent to a storage target: a row with a password of    *)
(* its own, and the restic repository at the remote path, which opens only  *)
(* with the password it was initialised with. Bind probes the remote and    *)
(* initialises it when it is missing; it waits for both runs with a limit,  *)
(* so that results arrive after it has given up. Unbind keeps the password, *)
(* deleting the storage target drops it.                                    *)
(*                                                                          *)
(* There is one agent and one remote path. A row is known by its password,  *)
(* a number; remote is the password of the repository there, 0 for none.    *)
EXTENDS Naturals

CONSTANTS
    Binders,        \* concurrent calls of BindRepository
    MaxRows,        \* bound on rows ever created
    MaxBindFaults   \* bound on crashes, cancellations and disconnects

ASSUME BindingAssumption == MaxRows \in Nat \ {0} /\ MaxBindFaults \in Nat

VARIABLES
    target,      \* the storage target exists
    repo,        \* repositories: the row
    rows,        \* passwords given so far
    remote,
    probeRow,    \* of each row's latest probe run: its state
    initRow,     \* and of its latest init run
    initJob,     \* the agent's work on an init run, and that run's state
    binder,      \* each call of BindRepository: its step, the row it works on
    unbinding,   \* UnbindRepository has checked plans and runs
    hasPlan,     \* a plan uses the repository
    interrupted, \* history: a crash cut a bind short
    bindFaults

repoVars == <<target, repo, rows, remote, hasPlan>>
runVars == <<probeRow, initRow, initJob>>
bindTally == <<interrupted, bindFaults>>
bindingVars == <<repoVars, runVars, binder, unbinding, bindTally>>

Rows == 1..MaxRows
NoRepo == [exists |-> FALSE, pw |-> 0, status |-> "none", detached |-> FALSE]
NoJob == [pc |-> "none", row |-> "active"]
NoBind == [pc |-> "idle", pw |-> 0, clash |-> FALSE]

BindingTypeOK ==
    /\ target \in BOOLEAN
    /\ repo \in [exists : BOOLEAN, pw : 0..MaxRows, detached : BOOLEAN,
                 status : {"none", "pending", "ready", "error"}]
    /\ repo.exists <=> repo.status # "none"
    /\ rows \in 0..MaxRows
    /\ remote \in 0..MaxRows
    /\ probeRow \in [Rows -> {"none", "active", "succeeded", "missing", "failed", "cancelled"}]
    /\ initRow \in [Rows -> {"none", "active", "succeeded", "failed", "cancelled"}]
    /\ initJob \in [Rows -> [pc : {"none", "working", "ok", "bad"},
                             row : {"active", "cancelled", "failed"}]]
    /\ binder \in [Binders -> [pc : {"idle", "create", "probe", "waitProbe", "init", "waitInit",
                                     "markRead", "markWrite"},
                               pw : 0..MaxRows, clash : BOOLEAN]]
    /\ unbinding \in BOOLEAN /\ hasPlan \in BOOLEAN
    /\ interrupted \in BOOLEAN /\ bindFaults \in 0..MaxBindFaults

BindingInit ==
    /\ target = TRUE
    /\ repo = NoRepo
    /\ rows = 0 /\ remote = 0
    /\ probeRow = [g \in Rows |-> "none"]
    /\ initRow = [g \in Rows |-> "none"]
    /\ initJob = [g \in Rows |-> NoJob]
    /\ binder = [b \in Binders |-> NoBind]
    /\ unbinding = FALSE /\ hasPlan = FALSE
    /\ interrupted = FALSE /\ bindFaults = 0

BindFault == bindFaults < MaxBindFaults /\ bindFaults' = bindFaults + 1

BindStep(b, pc) == binder' = [binder EXCEPT ![b].pc = pc]

\* The call returns; clash notes that it met another call (history).
BindReturns(b, clash) == binder' = [binder EXCEPT ![b] = [NoBind EXCEPT !.clash = clash]]

\* UpdateRepositoryStatus: ready also attaches the row again.
UpdateRepositoryStatus(g, status) ==
    repo' = IF ~(repo.exists /\ repo.pw = g) THEN repo
            ELSE IF status = "ready" THEN [repo EXCEPT !.status = status, !.detached = FALSE]
            ELSE [repo EXCEPT !.status = status]

-----------------------------------------------------------------------------
(* BindRepository and EnsureRepository.                                     *)

\* The existing row is probed again unless it is ready and attached.
Lookup(b) ==
    /\ target
    /\ binder' = [binder EXCEPT ![b] =
         [pc |-> IF ~repo.exists THEN "create"
                 ELSE IF repo.status # "ready" \/ repo.detached THEN "probe" ELSE "idle",
          pw |-> IF repo.status = "ready" /\ ~repo.detached THEN 0 ELSE repo.pw,
          clash |-> FALSE]]
    /\ UNCHANGED <<repoVars, runVars, unbinding, bindTally>>

\* Mutant: no bindMu.
BindLookup_Unlocked(b) == binder[b].pc = "idle" /\ Lookup(b)

\* bindMu: one call at a time.
BindLookup(b) == (\A c \in Binders : binder[c].pc = "idle") /\ Lookup(b)

\* CreateRepository, with a fresh password; the pair of agent and target is
\* unique, and the target must still be there.
CreateRepository(b) ==
    /\ binder[b].pc = "create"
    /\ \/ /\ target /\ ~repo.exists /\ rows < MaxRows
          /\ rows' = rows + 1
          /\ repo' = [exists |-> TRUE, pw |-> rows', status |-> "pending", detached |-> FALSE]
          /\ binder' = [binder EXCEPT ![b].pc = "probe", ![b].pw = rows']
       \/ /\ repo.exists
          /\ BindReturns(b, TRUE)
          /\ UNCHANGED <<repo, rows>>
       \/ /\ ~target
          /\ BindReturns(b, FALSE)
          /\ UNCHANGED <<repo, rows>>
    /\ UNCHANGED <<target, remote, hasPlan, runVars, unbinding, bindTally>>

\* SystemRun joins an active run with the same key.
StartProbe(b) ==
    /\ binder[b].pc = "probe"
    /\ probeRow' = [probeRow EXCEPT ![binder[b].pw] = "active"]
    /\ BindStep(b, "waitProbe")
    /\ UNCHANGED <<repoVars, initRow, initJob, unbinding, bindTally>>

\* The probe's outcome: adopt, initialise (dropping the expected failure's
\* row), or fail. A cancelled probe is followed by an initialisation too.
\* A joined run that was dropped meanwhile answers "not found".
FinishProbe(b) ==
    LET g == binder[b].pw IN
    /\ binder[b].pc = "waitProbe"
    /\ \/ /\ probeRow[g] = "succeeded"
          /\ UpdateRepositoryStatus(g, "ready")
          /\ BindReturns(b, FALSE)
          /\ UNCHANGED probeRow
       \/ /\ probeRow[g] = "missing"
          /\ probeRow' = [probeRow EXCEPT ![g] = "none"]
          /\ BindStep(b, "init")
          /\ UNCHANGED repo
       \/ /\ probeRow[g] = "cancelled"
          /\ BindStep(b, "init")
          /\ UNCHANGED <<repo, probeRow>>
       \/ /\ probeRow[g] = "failed"
          /\ BindStep(b, "markRead")
          /\ UNCHANGED <<repo, probeRow>>
       \/ /\ probeRow[g] = "none"
          /\ binder' = [binder EXCEPT ![b].pc = "markRead", ![b].clash = TRUE]
          /\ UNCHANGED <<repo, probeRow>>
    /\ UNCHANGED <<target, rows, remote, hasPlan, initRow, initJob, unbinding, bindTally>>

StartInit(b) ==
    /\ binder[b].pc = "init"
    /\ initRow' = [initRow EXCEPT ![binder[b].pw] = "active"]
    /\ BindStep(b, "waitInit")
    /\ UNCHANGED <<repoVars, probeRow, initJob, unbinding, bindTally>>

FinishInit(b) ==
    LET g == binder[b].pw IN
    /\ binder[b].pc = "waitInit"
    /\ \/ /\ initRow[g] = "succeeded"
          /\ UpdateRepositoryStatus(g, "ready")
          /\ BindReturns(b, FALSE)
       \/ /\ initRow[g] \in {"failed", "cancelled"}
          /\ BindStep(b, "markRead")
          /\ UNCHANGED repo
    /\ UNCHANGED <<target, rows, remote, hasPlan, runVars, unbinding, bindTally>>

\* Mutant: a wait that ends early returns at once.
WaitGivesUp_Forgets(b) ==
    /\ binder[b].pc \in {"waitProbe", "waitInit"}
    /\ BindReturns(b, FALSE)
    /\ UNCHANGED <<repoVars, runVars, unbinding, bindTally>>

\* WaitRun ends with its limit or with the request: the run goes on.
WaitGivesUp(b) ==
    /\ binder[b].pc \in {"waitProbe", "waitInit"}
    /\ BindStep(b, "markRead")
    /\ UNCHANGED <<repoVars, runVars, unbinding, bindTally>>

\* markRepositoryError reads the row ...
MarkRead(b) ==
    /\ binder[b].pc = "markRead"
    /\ IF repo.exists /\ repo.pw = binder[b].pw /\ repo.status = "ready"
       THEN BindReturns(b, binder[b].clash)
       ELSE BindStep(b, "markWrite")
    /\ UNCHANGED <<repoVars, runVars, unbinding, bindTally>>

\* ... and writes it.
MarkWrite(b) ==
    /\ binder[b].pc = "markWrite"
    /\ UpdateRepositoryStatus(binder[b].pw, "error")
    /\ BindReturns(b, binder[b].clash)
    /\ UNCHANGED <<target, rows, remote, hasPlan, runVars, unbinding, bindTally>>

-----------------------------------------------------------------------------
(* The runs.                                                                *)

\* The agent lists the snapshots with the row's password.
ProbeRuns(g) ==
    /\ probeRow[g] = "active"
    /\ \E outcome \in {"failed", IF remote = g THEN "succeeded"
                                 ELSE IF remote = 0 THEN "missing" ELSE "failed"} :
         probeRow' = [probeRow EXCEPT ![g] = outcome]
    /\ UNCHANGED <<repoVars, initRow, initJob, binder, unbinding, bindTally>>

AgentStartsInit(g) ==
    /\ initRow[g] = "active" /\ initJob[g].pc = "none"
    /\ initJob' = [initJob EXCEPT ![g] = [pc |-> "working", row |-> "active"]]
    /\ UNCHANGED <<repoVars, probeRow, initRow, binder, unbinding, bindTally>>

\* restic init succeeds only where there is no repository.
AgentInit(g) ==
    /\ initJob[g].pc = "working"
    /\ \/ /\ remote = 0
          /\ remote' = g
          /\ initJob' = [initJob EXCEPT ![g].pc = "ok"]
       \/ /\ initJob' = [initJob EXCEPT ![g].pc = "bad"]
          /\ UNCHANGED remote
    /\ UNCHANGED <<target, repo, rows, hasPlan, probeRow, initRow, binder, unbinding, bindTally>>

\* Mutant: any end of the init run makes the repository ready.
HandleInitResult_AlwaysReady(g) ==
    /\ initJob[g].pc \in {"ok", "bad"}
    /\ IF initJob[g].row = "active"
       THEN /\ initRow' = [initRow EXCEPT ![g] =
                             IF initJob[g].pc = "ok" THEN "succeeded" ELSE "failed"]
            /\ UpdateRepositoryStatus(g, "ready")
       ELSE UNCHANGED <<initRow, repo>>
    /\ initJob' = [initJob EXCEPT ![g] = NoJob]
    /\ UNCHANGED <<target, rows, remote, hasPlan, probeRow, binder, unbinding, bindTally>>

\* handleRunResult of an init run: the repository's status follows the result,
\* also of a cancelled run whose success came late; other ended runs stay.
HandleInitResult(g) ==
    LET ok == initJob[g].pc = "ok" IN
    /\ initJob[g].pc \in {"ok", "bad"}
    /\ \/ /\ initJob[g].row = "active"
          /\ initRow' = [initRow EXCEPT ![g] = IF ok THEN "succeeded" ELSE "failed"]
          /\ UpdateRepositoryStatus(g, IF ok THEN "ready" ELSE "error")
       \/ /\ initJob[g].row = "cancelled" /\ ok
          /\ initRow' = [initRow EXCEPT ![g] = IF @ = "cancelled" THEN "succeeded" ELSE @]
          /\ UpdateRepositoryStatus(g, "ready")
       \/ /\ initJob[g].row = "failed" \/ (initJob[g].row = "cancelled" /\ ~ok)
          /\ UNCHANGED <<initRow, repo>>
    /\ initJob' = [initJob EXCEPT ![g] = NoJob]
    /\ UNCHANGED <<target, rows, remote, hasPlan, probeRow, binder, unbinding, bindTally>>

JobRow(g, state) ==
    initJob' = [initJob EXCEPT ![g].row = IF initJob[g].pc # "none" /\ @ = "active" THEN state ELSE @]

CancelRun(g) ==
    /\ BindFault
    /\ \/ /\ probeRow[g] = "active"
          /\ probeRow' = [probeRow EXCEPT ![g] = "cancelled"]
          /\ UNCHANGED <<initRow, initJob>>
       \/ /\ initRow[g] = "active"
          /\ initRow' = [initRow EXCEPT ![g] = "cancelled"]
          /\ JobRow(g, "cancelled")
          /\ UNCHANGED probeRow
    /\ UNCHANGED <<repoVars, binder, unbinding, interrupted>>

\* handleDisconnect fails the init run, which is no retry-safe operation.
InitDisconnected(g) ==
    /\ BindFault
    /\ initRow[g] = "active"
    /\ initRow' = [initRow EXCEPT ![g] = "failed"]
    /\ JobRow(g, "failed")
    /\ UNCHANGED <<repoVars, probeRow, binder, unbinding, interrupted>>

-----------------------------------------------------------------------------
(* Unbinding, plans, storage targets, restarts.                             *)

NoActiveRun(g) == probeRow[g] # "active" /\ initRow[g] # "active"

\* UnbindRepository looks for plans and active runs ...
UnbindCheck ==
    /\ repo.exists /\ ~unbinding
    /\ ~hasPlan /\ NoActiveRun(repo.pw)
    /\ unbinding' = TRUE
    /\ UNCHANGED <<repoVars, runVars, binder, bindTally>>

\* ... and detaches the row in another transaction.
DetachRepository ==
    /\ unbinding
    /\ repo' = IF repo.exists THEN [repo EXCEPT !.detached = TRUE] ELSE repo
    /\ unbinding' = FALSE
    /\ UNCHANGED <<target, rows, remote, hasPlan, runVars, binder, bindTally>>

PlanChanges ==
    /\ repo.exists
    /\ hasPlan' = ~hasPlan
    /\ UNCHANGED <<target, repo, rows, remote, runVars, binder, unbinding, bindTally>>

\* Mutant: an attached row does not keep the target from being deleted.
DeleteStorageTarget_Any ==
    /\ target
    /\ target' = FALSE
    /\ repo' = IF repo.detached THEN NoRepo ELSE repo
    /\ UNCHANGED <<rows, remote, hasPlan, runVars, binder, unbinding, bindTally>>

\* DeleteStorageTarget: an attached row forbids it, a detached one goes too,
\* unless a plan refers to it.
DeleteStorageTarget ==
    /\ target
    /\ repo.exists => repo.detached /\ ~hasPlan
    /\ target' = FALSE
    /\ repo' = NoRepo
    /\ UNCHANGED <<rows, remote, hasPlan, runVars, binder, unbinding, bindTally>>

CreateStorageTarget ==
    /\ ~target
    /\ target' = TRUE
    /\ UNCHANGED <<repo, rows, remote, hasPlan, runVars, binder, unbinding, bindTally>>

\* A restart ends the calls; recoverStaleRuns fails the init run it finds
\* dispatched, and the probe is queued again.
BindingRestart ==
    /\ BindFault
    /\ binder' = [b \in Binders |-> NoBind]
    /\ interrupted' = (interrupted \/ \E b \in Binders : binder[b].pc # "idle")
    /\ unbinding' = FALSE
    /\ initRow' = [g \in Rows |-> IF initJob[g] = [pc |-> initJob[g].pc, row |-> "active"]
                                     /\ initJob[g].pc # "none"
                                  THEN "failed" ELSE initRow[g]]
    /\ initJob' = [g \in Rows |-> IF initJob[g].pc # "none" /\ initJob[g].row = "active"
                                  THEN [initJob[g] EXCEPT !.row = "failed"] ELSE initJob[g]]
    /\ UNCHANGED <<repoVars, probeRow>>

BindNext(b) ==
    \/ BindLookup(b) \/ CreateRepository(b) \/ StartProbe(b) \/ FinishProbe(b)
    \/ StartInit(b) \/ FinishInit(b) \/ WaitGivesUp(b) \/ MarkRead(b) \/ MarkWrite(b)

BindingNext ==
    \/ \E b \in Binders : BindNext(b)
    \/ \E g \in Rows : \/ ProbeRuns(g) \/ AgentStartsInit(g) \/ AgentInit(g)
                       \/ HandleInitResult(g) \/ CancelRun(g) \/ InitDisconnected(g)
    \/ UnbindCheck \/ DetachRepository \/ PlanChanges
    \/ DeleteStorageTarget \/ CreateStorageTarget \/ BindingRestart

BindingSpec == BindingInit /\ [][BindingNext]_bindingVars

-----------------------------------------------------------------------------
(* Properties.                                                              *)

\* A repository shown as ready can be opened: it was initialised with the
\* password its row keeps, whichever late result, repeated bind, unbind or
\* new row for the same remote came in between (EnsureRepository,
\* handleRunResult).
ReadyOpensRemote == repo.exists /\ repo.status = "ready" => remote = repo.pw

\* A bind that gives up says so: no row is left pending once the calls have
\* returned, unless the server crashed under one (markRepositoryError).
NothingLeftPending ==
    repo.status = "pending" =>
        interrupted \/ \E b \in Binders : binder[b].pc # "idle"

\* Two binds of the same pair neither meet in the UNIQUE constraint nor lose
\* the probe they share (bindMu).
BindsDoNotCollide == \A b \in Binders : ~binder[b].clash

\* The credentials of a repository that plans can use stay: a row that is
\* attached has its storage target (DeleteStorageTarget).
AttachedHasTarget == repo.exists => target

=============================================================================
