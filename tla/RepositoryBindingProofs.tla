----------------------- MODULE RepositoryBindingProofs -----------------------
(***************************************************************************)
(* Theorems about RepositoryBinding, for any number of concurrent calls of *)
(* BindRepository, of rows, and of crashes, cancels and disconnects.       *)
(***************************************************************************)
EXTENDS RepositoryBinding, TLAPS

RepoType == [exists : BOOLEAN, pw : 0..MaxRows, detached : BOOLEAN,
             status : {"none", "pending", "ready", "error"}]
ProbeStates == {"none", "active", "succeeded", "missing", "failed", "cancelled"}
InitStates == {"none", "active", "succeeded", "failed", "cancelled"}
JobType == [pc : {"none", "working", "ok", "bad"}, row : {"active", "cancelled", "failed"}]
BindSteps == {"idle", "create", "probe", "waitProbe", "init", "waitInit", "markRead", "markWrite"}
BindType == [pc : BindSteps, pw : 0..MaxRows, clash : BOOLEAN]

-----------------------------------------------------------------------------
(* The inductive invariant.                                                  *)

\* Calls beyond the lookup work on a row that was created.
BoundRows ==
    /\ repo.exists => repo.pw \in Rows
    /\ \A b \in Binders : binder[b].pc \notin {"idle", "create"} => binder[b].pw \in Rows

\* bindMu: at most one call is between its lookup and its return.
OneBinder == \A b, c \in Binders : binder[b].pc # "idle" /\ binder[c].pc # "idle" => b = c

\* So the row that the lookup missed is still missing when it is inserted ...
CreatorFindsNone == \A b \in Binders : binder[b].pc = "create" => ~repo.exists

\* ... and the probe that a call waits for is not dropped by another one.
ProbeIsKept == \A b \in Binders : binder[b].pc = "waitProbe" => probeRow[binder[b].pw] # "none"

\* A success of the agent means that the remote opens with the row's password.
SuccessOpensRemote ==
    \A g \in Rows : /\ probeRow[g] = "succeeded" => remote = g
                    /\ initRow[g] = "succeeded" => remote = g
                    /\ initJob[g].pc = "ok" => remote = g

\* A pending row has a call that works on it, unless a crash ended the call.
PendingHasCall ==
    repo.status = "pending" /\ ~interrupted =>
        \E b \in Binders : binder[b].pc \notin {"idle", "create"} /\ binder[b].pw = repo.pw

BindingInv ==
    /\ BindingTypeOK
    /\ BoundRows
    /\ OneBinder
    /\ CreatorFindsNone
    /\ ProbeIsKept
    /\ SuccessOpensRemote
    /\ PendingHasCall
    /\ ReadyOpensRemote
    /\ BindsDoNotCollide
    /\ AttachedHasTarget

\* The absent row and the idle call.
LEMMA NoneFacts ==
  /\ NoRepo \in RepoType /\ ~NoRepo.exists /\ NoRepo.status = "none"
  /\ NoBind \in BindType /\ NoBind.pc = "idle" /\ ~NoBind.clash
<1>1. 0 \in 0..MaxRows
  BY BindingAssumption
<1>2. NoRepo \in RepoType
  BY <1>1 DEF NoRepo, RepoType
<1>3. NoBind \in BindType
  BY <1>1 DEF NoBind, BindType, BindSteps
<1>4. ~NoRepo.exists /\ NoRepo.status = "none"
  BY DEF NoRepo
<1>5. NoBind.pc = "idle" /\ ~NoBind.clash
  BY DEF NoBind
<1> QED
  BY <1>2, <1>3, <1>4, <1>5

\* No row, no run, no call.
LEMMA BindingInitInv == BindingInit => BindingInv
<1> SUFFICES ASSUME BindingInit PROVE BindingInv
  OBVIOUS
<1> USE BindingAssumption DEF BindingInit
<1>1. repo \in RepoType /\ ~repo.exists /\ repo.status = "none"
  BY NoneFacts
<1>2. \A b \in Binders : binder[b] \in BindType /\ binder[b].pc = "idle" /\ ~binder[b].clash
  BY NoneFacts
<1>3. \A g \in Rows : initJob[g] \in JobType /\ initJob[g].pc = "none"
  BY DEF JobType, NoJob
<1>4. BindingTypeOK
  <2>1. binder \in [Binders -> BindType] /\ initJob \in [Rows -> JobType]
    BY <1>2, <1>3
  <2>2. rows \in 0..MaxRows /\ remote \in 0..MaxRows /\ bindFaults \in 0..MaxBindFaults
    OBVIOUS
  <2>3. probeRow \in [Rows -> ProbeStates] /\ initRow \in [Rows -> InitStates]
    BY DEF ProbeStates, InitStates
  <2> QED
    BY <1>1, <2>1, <2>2, <2>3 DEF BindingTypeOK, RepoType, BindType, BindSteps, JobType,
       ProbeStates, InitStates
<1>5. BoundRows /\ OneBinder /\ CreatorFindsNone /\ ProbeIsKept
  BY <1>1, <1>2 DEF BoundRows, OneBinder, CreatorFindsNone, ProbeIsKept
<1>6. SuccessOpensRemote
  BY <1>3 DEF SuccessOpensRemote
<1>7. PendingHasCall /\ ReadyOpensRemote /\ BindsDoNotCollide /\ AttachedHasTarget
  BY <1>1, <1>2 DEF PendingHasCall, ReadyOpensRemote, BindsDoNotCollide, AttachedHasTarget
<1> QED
  BY <1>4, <1>5, <1>6, <1>7 DEF BindingInv

-----------------------------------------------------------------------------
(* What the statements do.                                                   *)

\* The types, under the names used here.
LEMMA BindingTypes ==
  ASSUME BindingTypeOK
  PROVE  /\ repo \in RepoType /\ (repo.exists <=> repo.status # "none")
         /\ rows \in 0..MaxRows /\ remote \in 0..MaxRows
         /\ probeRow \in [Rows -> ProbeStates] /\ initRow \in [Rows -> InitStates]
         /\ initJob \in [Rows -> JobType] /\ binder \in [Binders -> BindType]
  BY DEF BindingTypeOK, RepoType, ProbeStates, InitStates, JobType, BindType, BindSteps

\* UpdateRepositoryStatus writes the status of that row and of no other.
LEMMA UpdateFact ==
  ASSUME repo \in RepoType, repo.exists <=> repo.status # "none",
         NEW g, NEW status \in {"ready", "error"}, UpdateRepositoryStatus(g, status)
  PROVE  /\ repo' \in RepoType /\ (repo'.exists <=> repo'.status # "none")
         /\ repo'.exists = repo.exists /\ repo'.pw = repo.pw
         /\ repo'.status = IF repo.exists /\ repo.pw = g THEN status ELSE repo.status
<1>1. CASE ~(repo.exists /\ repo.pw = g)
  BY <1>1 DEF UpdateRepositoryStatus
<1>2. CASE repo.exists /\ repo.pw = g /\ status = "ready"
  <2>1. repo' = [repo EXCEPT !.status = "ready", !.detached = FALSE]
    BY <1>2 DEF UpdateRepositoryStatus
  <2> QED
    BY <1>2, <2>1 DEF RepoType
<1>3. CASE repo.exists /\ repo.pw = g /\ status = "error"
  <2>1. repo' = [repo EXCEPT !.status = "error"]
    BY <1>3 DEF UpdateRepositoryStatus
  <2> QED
    BY <1>3, <2>1 DEF RepoType
<1> QED
  BY <1>1, <1>2, <1>3

\* A call that returns is idle again, and notes whether it met another call.
LEMMA ReturnsFact ==
  ASSUME BindingTypeOK, NEW b \in Binders, NEW clash \in BOOLEAN, BindReturns(b, clash)
  PROVE  \E nb \in BindType : /\ binder' = [binder EXCEPT ![b] = nb]
                              /\ nb.pc = "idle" /\ nb.clash = clash
<1> DEFINE nb == [NoBind EXCEPT !.clash = clash]
<1>1. nb \in BindType /\ nb.pc = "idle" /\ nb.clash = clash
  BY BindingAssumption DEF NoBind, BindType, BindSteps
<1> QED
  BY <1>1 DEF BindReturns

\* A call that goes on keeps its row.
LEMMA BindStepFact ==
  ASSUME BindingTypeOK, NEW b \in Binders, NEW pc \in BindSteps, BindStep(b, pc)
  PROVE  \E nb \in BindType : /\ binder' = [binder EXCEPT ![b] = nb]
                              /\ nb.pc = pc /\ nb.pw = binder[b].pw
                              /\ nb.clash = binder[b].clash
<1> DEFINE nb == [binder[b] EXCEPT !.pc = pc]
<1>1. binder[b] \in BindType
  BY BindingTypes
<1>2. nb \in BindType /\ nb.pc = pc /\ nb.pw = binder[b].pw /\ nb.clash = binder[b].clash
  BY <1>1 DEF BindType
<1>3. binder' = [binder EXCEPT ![b] = nb]
  BY DEF BindStep
<1> QED
  BY <1>2, <1>3

\* The step of a call: what it must see to for the invariant to hold on. The
\* other calls are idle.
LEMMA CallKeeps ==
  ASSUME BindingInv, NEW b \in Binders, binder[b].pc # "idle",
         NEW nb \in BindType, binder' = [binder EXCEPT ![b] = nb],
         UNCHANGED <<target, remote, hasPlan, initJob, unbinding, bindTally>>,
         repo' \in RepoType, repo'.exists <=> repo'.status # "none", rows' \in 0..MaxRows,
         probeRow' \in [Rows -> ProbeStates], initRow' \in [Rows -> InitStates],
         nb.pc # "create", nb.pc # "idle" => nb.pw \in Rows, ~nb.clash,
         nb.pc = "waitProbe" => probeRow'[nb.pw] # "none",
         repo'.exists => repo'.pw \in Rows /\ target,
         \A g \in Rows : (probeRow'[g] = "succeeded" \/ initRow'[g] = "succeeded") => remote = g,
         repo'.status = "pending" /\ ~interrupted => nb.pc # "idle" /\ nb.pw = repo'.pw,
         repo'.exists /\ repo'.status = "ready" => remote = repo'.pw
  PROVE  BindingInv'
<1>1. /\ binder \in [Binders -> BindType] /\ initJob \in [Rows -> JobType]
      /\ remote \in 0..MaxRows
  BY BindingTypes DEF BindingInv
<1>2. /\ binder' \in [Binders -> BindType] /\ binder'[b] = nb
      /\ \A c \in Binders \ {b} : binder'[c] = binder[c] /\ binder[c].pc = "idle"
  BY <1>1 DEF BindingInv, OneBinder
<1>3. BindingTypeOK'
  <2>1. /\ target' \in BOOLEAN /\ unbinding' \in BOOLEAN /\ hasPlan' \in BOOLEAN
        /\ interrupted' \in BOOLEAN /\ bindFaults' \in 0..MaxBindFaults
    BY DEF BindingInv, BindingTypeOK, bindTally
  <2> QED
    BY <1>1, <1>2, <2>1 DEF BindingTypeOK, RepoType, ProbeStates, InitStates, JobType, BindType,
       BindSteps
<1>4. BoundRows' /\ OneBinder' /\ CreatorFindsNone' /\ ProbeIsKept'
  BY <1>2 DEF BoundRows, OneBinder, CreatorFindsNone, ProbeIsKept
<1>5. SuccessOpensRemote'
  BY DEF BindingInv, SuccessOpensRemote
<1>6. PendingHasCall'
  BY <1>2 DEF PendingHasCall, bindTally
<1>7. BindsDoNotCollide'
  BY <1>2 DEF BindingInv, BindsDoNotCollide
<1>8. ReadyOpensRemote' /\ AttachedHasTarget'
  BY DEF ReadyOpensRemote, AttachedHasTarget
<1> QED
  BY <1>3, <1>4, <1>5, <1>6, <1>7, <1>8 DEF BindingInv

\* What a call knows between its lookup and its return.
LEMMA CallFacts ==
  ASSUME BindingInv, NEW b \in Binders, binder[b].pc \notin {"idle", "create"}
  PROVE  /\ binder[b].pw \in Rows /\ ~binder[b].clash /\ binder[b] \in BindType
         /\ binder[b].pc = "waitProbe" => probeRow[binder[b].pw] # "none"
         /\ repo \in RepoType /\ (repo.exists <=> repo.status # "none") /\ rows \in 0..MaxRows
         /\ repo.exists => repo.pw \in Rows /\ target
         /\ probeRow \in [Rows -> ProbeStates] /\ initRow \in [Rows -> InitStates]
         /\ \A g \in Rows : (probeRow[g] = "succeeded" \/ initRow[g] = "succeeded") => remote = g
         /\ repo.status = "pending" /\ ~interrupted => binder[b].pw = repo.pw
         /\ repo.exists /\ repo.status = "ready" => remote = repo.pw
<1>1. binder[b].pw \in Rows /\ ~binder[b].clash
  BY DEF BindingInv, BoundRows, BindsDoNotCollide
<1>2. binder[b].pc = "waitProbe" => probeRow[binder[b].pw] # "none"
  BY DEF BindingInv, ProbeIsKept
<1>3. repo.status = "pending" /\ ~interrupted => binder[b].pw = repo.pw
  BY DEF BindingInv, PendingHasCall, OneBinder
<1>4. /\ repo.exists => repo.pw \in Rows /\ target
      /\ repo.exists /\ repo.status = "ready" => remote = repo.pw
  BY DEF BindingInv, BoundRows, AttachedHasTarget, ReadyOpensRemote
<1>5. \A g \in Rows : (probeRow[g] = "succeeded" \/ initRow[g] = "succeeded") => remote = g
  BY DEF BindingInv, SuccessOpensRemote
<1>6. /\ repo \in RepoType /\ (repo.exists <=> repo.status # "none") /\ rows \in 0..MaxRows
      /\ probeRow \in [Rows -> ProbeStates] /\ initRow \in [Rows -> InitStates]
      /\ binder[b] \in BindType
  BY BindingTypes DEF BindingInv
<1> QED
  BY <1>1, <1>2, <1>3, <1>4, <1>5, <1>6

-----------------------------------------------------------------------------
(* BindRepository.                                                           *)

\* The lookup starts a call only when no other one is under way.
LEMMA LookupStep ==
  ASSUME BindingInv, NEW b \in Binders, BindLookup(b)
  PROVE  BindingInv'
<1>1. /\ repo \in RepoType /\ (repo.exists <=> repo.status # "none")
      /\ binder \in [Binders -> BindType]
      /\ \A c \in Binders : binder[c].pc = "idle"
      /\ UNCHANGED <<repoVars, runVars, unbinding, bindTally>>
  BY BindingTypes DEF BindingInv, BindLookup, Lookup
<1> DEFINE nb == [pc |-> IF ~repo.exists THEN "create"
                         ELSE IF repo.status # "ready" \/ repo.detached THEN "probe" ELSE "idle",
                  pw |-> IF repo.status = "ready" /\ ~repo.detached THEN 0 ELSE repo.pw,
                  clash |-> FALSE]
<1>2. /\ nb \in BindType /\ ~nb.clash /\ nb.pc \in {"create", "probe", "idle"}
      /\ nb.pc = "create" => ~repo.exists
      /\ nb.pc = "probe" => repo.exists /\ nb.pw = repo.pw
      /\ nb.pc = "idle" => repo.exists /\ repo.status = "ready"
  <2>1. /\ nb.pc \in {"create", "probe", "idle"}
        /\ nb.pc = "create" => ~repo.exists
        /\ nb.pc = "probe" => repo.exists /\ nb.pw = repo.pw
        /\ nb.pc = "idle" => repo.exists /\ repo.status = "ready"
    BY <1>1
  <2>2. nb.pw \in 0..MaxRows
    BY <1>1, BindingAssumption DEF RepoType
  <2> QED
    BY <2>1, <2>2 DEF BindType, BindSteps
<1>3. binder' = [binder EXCEPT ![b] = nb]
  BY DEF BindLookup, Lookup
<1> HIDE DEF nb
<1>4. /\ binder' \in [Binders -> BindType] /\ binder'[b] = nb
      /\ \A c \in Binders \ {b} : binder'[c].pc = "idle" /\ ~binder'[c].clash
  BY <1>1, <1>2, <1>3 DEF BindingInv, BindsDoNotCollide
<1>5. UNCHANGED <<target, repo, rows, remote, hasPlan, probeRow, initRow, initJob, unbinding,
                  interrupted, bindFaults>>
  BY <1>1 DEF repoVars, runVars, bindTally
<1>6. BindingTypeOK'
  BY <1>4, <1>5 DEF BindingInv, BindingTypeOK, BindType, BindSteps
<1>7. BoundRows' /\ OneBinder' /\ CreatorFindsNone' /\ ProbeIsKept'
  BY <1>2, <1>4, <1>5 DEF BindingInv, BoundRows, OneBinder, CreatorFindsNone, ProbeIsKept
<1>8. SuccessOpensRemote' /\ ReadyOpensRemote' /\ AttachedHasTarget'
  BY <1>5 DEF BindingInv, SuccessOpensRemote, ReadyOpensRemote, AttachedHasTarget
<1>9. PendingHasCall'
  BY <1>1, <1>5 DEF BindingInv, PendingHasCall
<1>10. BindsDoNotCollide'
  BY <1>2, <1>4 DEF BindsDoNotCollide
<1> QED
  BY <1>6, <1>7, <1>8, <1>9, <1>10 DEF BindingInv

\* CreateRepository meets no other row: the constraint never refuses.
LEMMA CreateStep ==
  ASSUME BindingInv, NEW b \in Binders, CreateRepository(b)
  PROVE  BindingInv'
<1>1. /\ binder[b].pc = "create" /\ binder[b].pc # "idle" /\ ~repo.exists
      /\ UNCHANGED <<target, remote, hasPlan, probeRow, initRow, initJob, unbinding, bindTally>>
  BY DEF CreateRepository, BindingInv, CreatorFindsNone, runVars
<1>2. /\ repo \in RepoType /\ (repo.exists <=> repo.status # "none") /\ rows \in 0..MaxRows
      /\ probeRow \in [Rows -> ProbeStates] /\ initRow \in [Rows -> InitStates]
      /\ binder[b] \in BindType /\ ~binder[b].clash
      /\ \A g \in Rows : (probeRow[g] = "succeeded" \/ initRow[g] = "succeeded") => remote = g
  BY BindingTypes DEF BindingInv, SuccessOpensRemote, BindsDoNotCollide
<1>3. CASE /\ target /\ rows < MaxRows /\ rows' = rows + 1
           /\ repo' = [exists |-> TRUE, pw |-> rows', status |-> "pending", detached |-> FALSE]
           /\ binder' = [binder EXCEPT ![b].pc = "probe", ![b].pw = rows']
  <2> DEFINE nb == [binder[b] EXCEPT !.pc = "probe", !.pw = rows']
  <2>1. rows' \in 0..MaxRows /\ rows' \in Rows
    BY <1>2, <1>3, BindingAssumption DEF Rows
  <2>2. nb \in BindType /\ nb.pc = "probe" /\ nb.pw = rows' /\ ~nb.clash
    BY <1>2, <2>1 DEF BindType, BindSteps
  <2>3. /\ repo' \in RepoType /\ repo'.exists /\ repo'.status = "pending" /\ repo'.pw = rows'
    BY <1>3, <2>1 DEF RepoType
  <2>4. binder' = [binder EXCEPT ![b] = nb]
    <3>1. binder \in [Binders -> BindType]
      BY BindingTypes DEF BindingInv
    <3> QED
      BY <1>3, <3>1 DEF BindType
  <2> HIDE DEF nb
  <2> QED
    BY <1>1, <1>2, <1>3, <2>1, <2>2, <2>3, <2>4, CallKeeps
<1>4. CASE BindReturns(b, FALSE) /\ UNCHANGED <<repo, rows>>
  <2>1. PICK nb \in BindType : /\ binder' = [binder EXCEPT ![b] = nb]
                               /\ nb.pc = "idle" /\ nb.clash = FALSE
    BY <1>4, ReturnsFact DEF BindingInv
  <2> QED
    BY <1>1, <1>2, <1>4, <2>1, CallKeeps
<1> QED
  BY <1>1, <1>3, <1>4 DEF CreateRepository

\* StartProbe and StartInit: the call now waits for a run of its row.
LEMMA StartStep ==
  ASSUME BindingInv, NEW b \in Binders, StartProbe(b) \/ StartInit(b)
  PROVE  BindingInv'
<1>1. /\ binder[b].pc \notin {"idle", "create"}
      /\ UNCHANGED <<target, repo, rows, remote, hasPlan, initJob, unbinding, bindTally>>
  BY DEF StartProbe, StartInit, repoVars
<1>2. CASE StartProbe(b)
  <2>1. PICK nb \in BindType : /\ binder' = [binder EXCEPT ![b] = nb]
                               /\ nb.pc = "waitProbe" /\ nb.pw = binder[b].pw
                               /\ nb.clash = binder[b].clash
    BY <1>2, BindStepFact DEF StartProbe, BindingInv, BindSteps
  <2>2. /\ probeRow' \in [Rows -> ProbeStates] /\ UNCHANGED initRow
        /\ probeRow'[binder[b].pw] = "active"
        /\ \A g \in Rows : probeRow'[g] = "succeeded" => probeRow[g] = "succeeded"
    BY <1>1, <1>2, CallFacts DEF StartProbe, ProbeStates
  <2> QED
    BY <1>1, <2>1, <2>2, CallFacts, CallKeeps
<1>3. CASE StartInit(b)
  <2>1. PICK nb \in BindType : /\ binder' = [binder EXCEPT ![b] = nb]
                               /\ nb.pc = "waitInit" /\ nb.pw = binder[b].pw
                               /\ nb.clash = binder[b].clash
    BY <1>3, BindStepFact DEF StartInit, BindingInv, BindSteps
  <2>2. /\ initRow' \in [Rows -> InitStates] /\ UNCHANGED probeRow
        /\ \A g \in Rows : initRow'[g] = "succeeded" => initRow[g] = "succeeded"
    BY <1>1, <1>3, CallFacts DEF StartInit, InitStates
  <2> QED
    BY <1>1, <2>1, <2>2, CallFacts, CallKeeps
<1> QED
  BY <1>2, <1>3

\* A call that goes on without writing a row.
LEMMA GoesOn ==
  ASSUME BindingInv, NEW b \in Binders, binder[b].pc \notin {"idle", "create"},
         NEW pc \in BindSteps \ {"idle", "create", "waitProbe"}, BindStep(b, pc),
         UNCHANGED <<target, repo, rows, remote, hasPlan, initRow, initJob, unbinding, bindTally>>,
         probeRow' \in [Rows -> ProbeStates],
         \A g \in Rows : probeRow'[g] = "succeeded" => probeRow[g] = "succeeded"
  PROVE  BindingInv'
<1>1. PICK nb \in BindType : /\ binder' = [binder EXCEPT ![b] = nb]
                             /\ nb.pc = pc /\ nb.pw = binder[b].pw
                             /\ nb.clash = binder[b].clash
  BY BindStepFact DEF BindingInv
<1> QED
  BY <1>1, CallFacts, CallKeeps

\* A call that returns after it has written its row ready or error: ready only
\* if the remote opens.
LEMMA ReturnsWith ==
  ASSUME BindingInv, NEW b \in Binders, binder[b].pc \notin {"idle", "create"},
         BindReturns(b, FALSE), NEW status \in {"ready", "error"},
         UpdateRepositoryStatus(binder[b].pw, status), status = "ready" => remote = binder[b].pw,
         UNCHANGED <<target, rows, remote, hasPlan, probeRow, initRow, initJob, unbinding,
                     bindTally>>
  PROVE  BindingInv'
<1>1. PICK nb \in BindType : /\ binder' = [binder EXCEPT ![b] = nb]
                             /\ nb.pc = "idle" /\ nb.clash = FALSE
  BY ReturnsFact DEF BindingInv
<1>2. /\ repo' \in RepoType /\ (repo'.exists <=> repo'.status # "none")
      /\ repo'.exists = repo.exists /\ repo'.pw = repo.pw
      /\ repo'.status = IF repo.exists /\ repo.pw = binder[b].pw THEN status ELSE repo.status
  BY CallFacts, UpdateFact
<1>3. ~(repo'.status = "pending" /\ ~interrupted)
  BY <1>2, CallFacts
<1>4. repo'.exists /\ repo'.status = "ready" => remote = repo'.pw
  BY <1>2, CallFacts
<1> QED
  BY <1>1, <1>2, <1>3, <1>4, CallFacts, CallKeeps

\* FinishProbe adopts what the probe opened, initialises what it missed, and
\* never finds its run gone.
LEMMA FinishProbeStep ==
  ASSUME BindingInv, NEW b \in Binders, FinishProbe(b)
  PROVE  BindingInv'
<1> DEFINE g == binder[b].pw
<1>1. /\ binder[b].pc = "waitProbe" /\ binder[b].pc \notin {"idle", "create"}
      /\ UNCHANGED <<target, rows, remote, hasPlan, initRow, initJob, unbinding, bindTally>>
  BY DEF FinishProbe
<1>2. probeRow[g] # "none" /\ g \in Rows /\ (probeRow[g] = "succeeded" => remote = g)
  BY <1>1, CallFacts
<1>3. CASE /\ probeRow[g] = "succeeded" /\ UpdateRepositoryStatus(g, "ready")
           /\ BindReturns(b, FALSE) /\ UNCHANGED probeRow
  BY <1>1, <1>2, <1>3, ReturnsWith
<1>4. CASE /\ probeRow' = [probeRow EXCEPT ![g] = "none"]
           /\ BindStep(b, "init") /\ UNCHANGED repo
  <2>1. /\ probeRow' \in [Rows -> ProbeStates]
        /\ \A h \in Rows : probeRow'[h] = "succeeded" => probeRow[h] = "succeeded"
    BY <1>1, <1>2, <1>4, CallFacts DEF ProbeStates
  <2>2. "init" \in BindSteps \ {"idle", "create", "waitProbe"}
    BY DEF BindSteps
  <2> QED
    BY <1>1, <1>4, <2>1, <2>2, GoesOn
<1>5. CASE BindStep(b, "init") /\ UNCHANGED <<repo, probeRow>>
  BY <1>1, <1>5, CallFacts, GoesOn DEF BindSteps
<1>6. CASE BindStep(b, "markRead") /\ UNCHANGED <<repo, probeRow>>
  BY <1>1, <1>6, CallFacts, GoesOn DEF BindSteps
<1> QED
  BY <1>2, <1>3, <1>4, <1>5, <1>6 DEF FinishProbe

\* FinishInit trusts only a run that succeeded.
LEMMA FinishInitStep ==
  ASSUME BindingInv, NEW b \in Binders, FinishInit(b)
  PROVE  BindingInv'
<1> DEFINE g == binder[b].pw
<1>1. /\ binder[b].pc = "waitInit" /\ binder[b].pc \notin {"idle", "create"}
      /\ UNCHANGED <<target, rows, remote, hasPlan, probeRow, initRow, initJob, unbinding,
                     bindTally>>
  BY DEF FinishInit, runVars
<1>2. CASE initRow[g] = "succeeded" /\ UpdateRepositoryStatus(g, "ready") /\ BindReturns(b, FALSE)
  <2>1. remote = g
    BY <1>1, <1>2, CallFacts
  <2> QED
    BY <1>1, <1>2, <2>1, ReturnsWith
<1>3. CASE BindStep(b, "markRead") /\ UNCHANGED repo
  BY <1>1, <1>3, CallFacts, GoesOn DEF BindSteps
<1> QED
  BY <1>2, <1>3 DEF FinishInit

\* A wait that ends early marks the row before the call returns, unless the row
\* has become ready.
LEMMA GiveUpStep ==
  ASSUME BindingInv, NEW b \in Binders, WaitGivesUp(b) \/ MarkRead(b) \/ MarkWrite(b)
  PROVE  BindingInv'
<1>1. /\ binder[b].pc \in {"waitProbe", "waitInit", "markRead", "markWrite"}
      /\ binder[b].pc \notin {"idle", "create"}
      /\ UNCHANGED <<target, rows, remote, hasPlan, probeRow, initRow, initJob, unbinding,
                     bindTally>>
  BY DEF WaitGivesUp, MarkRead, MarkWrite, repoVars, runVars
<1>2. ~binder[b].clash /\ binder[b] \in BindType
  BY <1>1, CallFacts
<1>3. binder[b].clash = FALSE
  BY <1>2 DEF BindType
<1>4. CASE WaitGivesUp(b)
  <2>1. BindStep(b, "markRead") /\ UNCHANGED repo
    BY <1>4 DEF WaitGivesUp, repoVars
  <2> QED
    BY <1>1, <2>1, CallFacts, GoesOn DEF BindSteps
<1>5. CASE MarkRead(b)
  <2>1. UNCHANGED repo
    BY <1>5 DEF MarkRead, repoVars
  <2>2. CASE BindStep(b, "markWrite")
    BY <1>1, <2>1, <2>2, CallFacts, GoesOn DEF BindSteps
  <2>3. CASE repo.exists /\ repo.pw = binder[b].pw /\ repo.status = "ready" /\ BindReturns(b, FALSE)
    <3>1. PICK nb \in BindType : /\ binder' = [binder EXCEPT ![b] = nb]
                                 /\ nb.pc = "idle" /\ nb.clash = FALSE
      BY <2>3, ReturnsFact DEF BindingInv
    <3> QED
      BY <1>1, <2>1, <2>3, <3>1, CallFacts, CallKeeps
  <2> QED
    BY <1>3, <1>5, <2>2, <2>3 DEF MarkRead
<1>6. CASE MarkWrite(b)
  <2>1. UpdateRepositoryStatus(binder[b].pw, "error") /\ BindReturns(b, FALSE)
    BY <1>3, <1>6 DEF MarkWrite
  <2> QED
    BY <1>1, <2>1, ReturnsWith
<1> QED
  BY <1>4, <1>5, <1>6

-----------------------------------------------------------------------------
(* The runs and the world: no call moves.                                    *)

\* A step of a run: what it must see to. remote, once it has a password, keeps
\* it.
LEMMA RunKeeps ==
  ASSUME BindingInv, UNCHANGED <<target, rows, hasPlan, binder, unbinding, interrupted>>,
         repo' \in RepoType, repo'.exists <=> repo'.status # "none",
         repo'.exists = repo.exists, repo'.pw = repo.pw,
         repo'.status = repo.status \/ repo'.status \in {"ready", "error"},
         remote' \in 0..MaxRows, bindFaults' \in 0..MaxBindFaults,
         probeRow' \in [Rows -> ProbeStates], initRow' \in [Rows -> InitStates],
         initJob' \in [Rows -> JobType],
         \A g \in Rows : probeRow'[g] = "none" => probeRow[g] = "none",
         \A g \in Rows : /\ probeRow'[g] = "succeeded" => remote' = g
                         /\ initRow'[g] = "succeeded" => remote' = g
                         /\ initJob'[g].pc = "ok" => remote' = g,
         repo'.exists /\ repo'.status = "ready" => remote' = repo'.pw
  PROVE  BindingInv'
<1>1. BindingTypeOK'
  <2>1. /\ target' \in BOOLEAN /\ unbinding' \in BOOLEAN /\ hasPlan' \in BOOLEAN
        /\ interrupted' \in BOOLEAN /\ rows' \in 0..MaxRows /\ binder' \in [Binders -> BindType]
    BY BindingTypes DEF BindingInv, BindingTypeOK
  <2> QED
    BY <2>1 DEF BindingTypeOK, RepoType, ProbeStates, InitStates, JobType, BindType, BindSteps
<1>2. BoundRows' /\ OneBinder' /\ CreatorFindsNone'
  BY DEF BindingInv, BoundRows, OneBinder, CreatorFindsNone
<1>3. ProbeIsKept'
  BY DEF BindingInv, ProbeIsKept, BoundRows
<1>4. SuccessOpensRemote' /\ ReadyOpensRemote'
  BY DEF SuccessOpensRemote, ReadyOpensRemote
<1>5. PendingHasCall'
  BY DEF BindingInv, PendingHasCall
<1>6. BindsDoNotCollide' /\ AttachedHasTarget'
  BY DEF BindingInv, BindsDoNotCollide, AttachedHasTarget
<1> QED
  BY <1>1, <1>2, <1>3, <1>4, <1>5, <1>6 DEF BindingInv

\* What a step of a run may rely on.
LEMMA RunFacts ==
  ASSUME BindingInv
  PROVE  /\ repo \in RepoType /\ (repo.exists <=> repo.status # "none")
         /\ remote \in 0..MaxRows /\ bindFaults \in 0..MaxBindFaults
         /\ probeRow \in [Rows -> ProbeStates] /\ initRow \in [Rows -> InitStates]
         /\ initJob \in [Rows -> JobType]
         /\ \A g \in Rows : /\ probeRow[g] = "succeeded" => remote = g
                            /\ initRow[g] = "succeeded" => remote = g
                            /\ initJob[g].pc = "ok" => remote = g
         /\ repo.exists /\ repo.status = "ready" => remote = repo.pw
         /\ repo.exists => repo.pw \in Rows
         /\ 0 \notin Rows
<1>1. 0 \notin Rows
  BY DEF Rows
<1> QED
  BY <1>1, BindingTypes DEF BindingInv, BindingTypeOK, SuccessOpensRemote, ReadyOpensRemote,
     BoundRows

\* A probe succeeds only on the remote of its own password.
LEMMA ProbeStep ==
  ASSUME BindingInv, NEW g \in Rows, ProbeRuns(g)
  PROVE  BindingInv'
<1>1. UNCHANGED <<target, repo, rows, remote, hasPlan, initRow, initJob, binder, unbinding,
                  interrupted, bindFaults>>
  BY DEF ProbeRuns, repoVars, bindTally
<1>2. PICK outcome \in {"failed", "succeeded", "missing"} :
        probeRow' = [probeRow EXCEPT ![g] = outcome] /\ (outcome = "succeeded" => remote = g)
  BY DEF ProbeRuns
<1>3. /\ probeRow' \in [Rows -> ProbeStates]
      /\ \A h \in Rows : probeRow'[h] = "none" => probeRow[h] = "none"
      /\ \A h \in Rows : probeRow'[h] = "succeeded" => remote = h
  BY <1>2, RunFacts DEF ProbeStates
<1> QED
  BY <1>1, <1>3, RunFacts, RunKeeps

\* The agent initialises only a remote that is empty: no password is lost.
LEMMA AgentInitStep ==
  ASSUME BindingInv, NEW g \in Rows, AgentStartsInit(g) \/ AgentInit(g)
  PROVE  BindingInv'
<1>1. UNCHANGED <<target, repo, rows, hasPlan, probeRow, initRow, binder, unbinding,
                  interrupted, bindFaults>>
  BY DEF AgentStartsInit, AgentInit, repoVars, bindTally
<1>2. CASE AgentStartsInit(g)
  <2>1. initJob' = [initJob EXCEPT ![g] = [pc |-> "working", row |-> "active"]] /\ remote' = remote
    BY <1>2 DEF AgentStartsInit, repoVars
  <2>2. /\ initJob' \in [Rows -> JobType]
        /\ \A h \in Rows : initJob'[h].pc = "ok" => remote = h
    BY <2>1, RunFacts DEF JobType
  <2> QED
    BY <1>1, <2>1, <2>2, RunFacts, RunKeeps
<1>3. ASSUME NEW end \in {"ok", "bad"}, initJob' = [initJob EXCEPT ![g].pc = end],
             IF end = "ok" THEN remote = 0 /\ remote' = g ELSE remote' = remote
      PROVE  BindingInv'
  <2>1. /\ initJob' \in [Rows -> JobType] /\ initJob'[g].pc = end
        /\ \A h \in Rows \ {g} : initJob'[h] = initJob[h]
    BY <1>3, RunFacts DEF JobType
  <2>2. remote' \in 0..MaxRows
    BY <1>3, RunFacts DEF Rows
  <2>3. \A h \in Rows : /\ probeRow[h] = "succeeded" => remote' = h
                        /\ initRow[h] = "succeeded" => remote' = h
                        /\ initJob'[h].pc = "ok" => remote' = h
    BY <1>3, <2>1, RunFacts
  <2>4. repo.exists /\ repo.status = "ready" => remote' = repo.pw
    BY <1>3, RunFacts
  <2> QED
    BY <1>1, <2>1, <2>2, <2>3, <2>4, RunFacts, RunKeeps
<1> QED
  BY <1>2, <1>3 DEF AgentInit

\* handleRunResult makes a row ready only after an init that succeeded, on time
\* or late.
LEMMA InitResultStep ==
  ASSUME BindingInv, NEW g \in Rows, HandleInitResult(g)
  PROVE  BindingInv'
<1> DEFINE ok == initJob[g].pc = "ok"
<1>1. /\ UNCHANGED <<target, rows, remote, hasPlan, probeRow, binder, unbinding, interrupted,
                     bindFaults>>
      /\ initJob' = [initJob EXCEPT ![g] = NoJob]
  BY DEF HandleInitResult, bindTally
<1>2. initJob' \in [Rows -> JobType] /\ \A h \in Rows : initJob'[h].pc = "ok" => remote = h
  BY <1>1, RunFacts DEF NoJob, JobType
<1>3. /\ initRow' \in [Rows -> InitStates]
      /\ \A h \in Rows : initRow'[h] = "succeeded" => remote = h
  <2>1. ok => remote = g
    BY RunFacts
  <2>2. \/ initRow' = [initRow EXCEPT ![g] = IF ok THEN "succeeded" ELSE "failed"]
        \/ ok /\ initRow' = [initRow EXCEPT ![g] = IF @ = "cancelled" THEN "succeeded" ELSE @]
        \/ UNCHANGED initRow
    BY DEF HandleInitResult
  <2> HIDE DEF ok
  <2> QED
    BY <2>1, <2>2, RunFacts DEF InitStates
<1>4. CASE UNCHANGED repo
  BY <1>1, <1>2, <1>3, <1>4, RunFacts, RunKeeps
<1>5. ASSUME NEW status \in {"ready", "error"}, status = "ready" => remote = g,
             UpdateRepositoryStatus(g, status)
      PROVE  BindingInv'
  <2>1. /\ repo' \in RepoType /\ (repo'.exists <=> repo'.status # "none")
        /\ repo'.exists = repo.exists /\ repo'.pw = repo.pw
        /\ repo'.status = IF repo.exists /\ repo.pw = g THEN status ELSE repo.status
    BY <1>5, RunFacts, UpdateFact
  <2>2. repo'.exists /\ repo'.status = "ready" => remote = repo'.pw
    BY <1>5, <2>1, RunFacts
  <2> QED
    BY <1>1, <1>2, <1>3, <2>1, <2>2, RunFacts, RunKeeps
<1>6. \/ UNCHANGED repo
      \/ ok /\ UpdateRepositoryStatus(g, "ready")
      \/ UpdateRepositoryStatus(g, "error")
  BY DEF HandleInitResult
<1> QED
  BY <1>4, <1>5, <1>6, RunFacts

\* A cancelled or disconnected run has not succeeded.
LEMMA InterruptStep ==
  ASSUME BindingInv, NEW g \in Rows, CancelRun(g) \/ InitDisconnected(g)
  PROVE  BindingInv'
<1>1. UNCHANGED <<target, repo, rows, remote, hasPlan, binder, unbinding, interrupted>>
  BY DEF CancelRun, InitDisconnected, repoVars
<1>2. bindFaults' \in 0..MaxBindFaults
  BY RunFacts, BindingAssumption DEF CancelRun, InitDisconnected, BindFault
<1>3. /\ probeRow' \in [Rows -> ProbeStates]
      /\ \A h \in Rows : probeRow'[h] = "none" => probeRow[h] = "none"
      /\ \A h \in Rows : probeRow'[h] = "succeeded" => remote = h
  <2>1. probeRow' = [probeRow EXCEPT ![g] = "cancelled"] \/ probeRow' = probeRow
    BY DEF CancelRun, InitDisconnected
  <2> QED
    BY <2>1, RunFacts DEF ProbeStates
<1>4. /\ initRow' \in [Rows -> InitStates]
      /\ \A h \in Rows : initRow'[h] = "succeeded" => remote = h
  <2>1. \/ initRow' = [initRow EXCEPT ![g] = "cancelled"]
        \/ initRow' = [initRow EXCEPT ![g] = "failed"]
        \/ initRow' = initRow
    BY DEF CancelRun, InitDisconnected
  <2> QED
    BY <2>1, RunFacts DEF InitStates
<1>5. /\ initJob' \in [Rows -> JobType]
      /\ \A h \in Rows : initJob'[h].pc = "ok" => remote = h
  <2>1. initJob' = initJob \/ JobRow(g, "cancelled") \/ JobRow(g, "failed")
    BY DEF CancelRun, InitDisconnected
  <2>2. ASSUME NEW state \in {"cancelled", "failed"}, JobRow(g, state)
        PROVE  initJob' \in [Rows -> JobType] /\ \A h \in Rows : initJob'[h].pc = initJob[h].pc
    BY <2>2, RunFacts DEF JobRow, JobType
  <2> QED
    BY <2>1, <2>2, RunFacts
<1> QED
  BY <1>1, <1>2, <1>3, <1>4, <1>5, RunFacts, RunKeeps

\* Unbinding, plans and storage targets.
LEMMA TargetStep ==
  ASSUME BindingInv,
         UnbindCheck \/ DetachRepository \/ PlanChanges \/ DeleteStorageTarget \/ CreateStorageTarget
  PROVE  BindingInv'
<1>1. /\ repo \in RepoType /\ (repo.exists <=> repo.status # "none")
      /\ target \in BOOLEAN /\ unbinding \in BOOLEAN /\ hasPlan \in BOOLEAN
  BY BindingTypes DEF BindingInv, BindingTypeOK
<1>2. UNCHANGED <<rows, remote, probeRow, initRow, initJob, binder, interrupted, bindFaults>>
  BY DEF UnbindCheck, DetachRepository, PlanChanges, DeleteStorageTarget, CreateStorageTarget,
     repoVars, runVars, bindTally
<1>3. target' \in BOOLEAN /\ unbinding' \in BOOLEAN /\ hasPlan' \in BOOLEAN
  BY <1>1 DEF UnbindCheck, DetachRepository, PlanChanges, DeleteStorageTarget,
     CreateStorageTarget, repoVars
<1>4. CASE repo' = NoRepo
  <2>1. repo' \in RepoType /\ ~repo'.exists /\ repo'.status = "none"
    BY <1>4, NoneFacts
  <2>2. BindingTypeOK'
    BY <1>2, <1>3, <2>1 DEF BindingInv, BindingTypeOK, RepoType
  <2> QED
    BY <1>2, <2>1, <2>2 DEF BindingInv, BoundRows, OneBinder, CreatorFindsNone, ProbeIsKept,
       SuccessOpensRemote, PendingHasCall, ReadyOpensRemote, BindsDoNotCollide, AttachedHasTarget
<1>5. CASE repo' = repo \/ (repo.exists /\ repo' = [repo EXCEPT !.detached = TRUE])
  <2>1. /\ repo' \in RepoType /\ repo'.exists = repo.exists /\ repo'.pw = repo.pw
        /\ repo'.status = repo.status
    BY <1>1, <1>5 DEF RepoType
  <2>2. BindingTypeOK'
    BY <1>1, <1>2, <1>3, <2>1 DEF BindingInv, BindingTypeOK, RepoType
  <2>3. target => target' \/ ~repo.exists
    <3>1. CASE DeleteStorageTarget
      BY <1>5, <3>1, NoneFacts, <2>1 DEF DeleteStorageTarget
    <3> QED
      BY <3>1 DEF UnbindCheck, DetachRepository, PlanChanges, CreateStorageTarget, repoVars
  <2> QED
    BY <1>2, <2>1, <2>2, <2>3 DEF BindingInv, BoundRows, OneBinder, CreatorFindsNone, ProbeIsKept,
       SuccessOpensRemote, PendingHasCall, ReadyOpensRemote, BindsDoNotCollide, AttachedHasTarget
<1> QED
  BY <1>4, <1>5 DEF UnbindCheck, DetachRepository, PlanChanges, DeleteStorageTarget,
     CreateStorageTarget, repoVars

\* A restart ends the calls, and says so.
LEMMA RestartStep ==
  ASSUME BindingInv, BindingRestart
  PROVE  BindingInv'
<1>1. /\ UNCHANGED <<target, repo, rows, remote, hasPlan, probeRow>>
      /\ unbinding' = FALSE
      /\ binder' = [b \in Binders |-> NoBind]
      /\ interrupted' = (interrupted \/ \E b \in Binders : binder[b].pc # "idle")
  BY DEF BindingRestart, repoVars
<1>2. bindFaults' \in 0..MaxBindFaults
  BY RunFacts, BindingAssumption DEF BindingRestart, BindFault
<1>3. /\ binder' \in [Binders -> BindType]
      /\ \A b \in Binders : binder'[b].pc = "idle" /\ ~binder'[b].clash
  BY <1>1, NoneFacts
<1>4. /\ initRow' \in [Rows -> InitStates]
      /\ \A h \in Rows : initRow'[h] = "succeeded" => initRow[h] = "succeeded"
  BY RunFacts DEF BindingRestart, InitStates
<1>5. /\ initJob' \in [Rows -> JobType]
      /\ \A h \in Rows : initJob'[h].pc = initJob[h].pc
  <2>1. initJob' = [g \in Rows |-> IF initJob[g].pc # "none" /\ initJob[g].row = "active"
                                   THEN [initJob[g] EXCEPT !.row = "failed"] ELSE initJob[g]]
    BY DEF BindingRestart
  <2> QED
    BY <2>1, RunFacts DEF JobType
<1>6. interrupted' \in BOOLEAN
  BY <1>1
<1>7. BindingTypeOK'
  BY <1>1, <1>2, <1>3, <1>4, <1>5, <1>6 DEF BindingInv, BindingTypeOK, BindType, BindSteps,
     InitStates, JobType
<1>8. BoundRows' /\ OneBinder' /\ CreatorFindsNone' /\ ProbeIsKept' /\ BindsDoNotCollide'
  BY <1>1, <1>3 DEF BindingInv, BoundRows, OneBinder, CreatorFindsNone, ProbeIsKept,
     BindsDoNotCollide
<1>9. SuccessOpensRemote' /\ ReadyOpensRemote' /\ AttachedHasTarget'
  BY <1>1, <1>4, <1>5 DEF BindingInv, SuccessOpensRemote, ReadyOpensRemote, AttachedHasTarget
<1>10. PendingHasCall'
  BY <1>1 DEF BindingInv, PendingHasCall
<1> QED
  BY <1>7, <1>8, <1>9, <1>10 DEF BindingInv

\* Every step keeps the invariant.
LEMMA BindingStep == BindingInv /\ [BindingNext]_bindingVars => BindingInv'
<1> SUFFICES ASSUME BindingInv, [BindingNext]_bindingVars PROVE BindingInv'
  OBVIOUS
<1>1. CASE UNCHANGED bindingVars
  BY <1>1 DEF bindingVars, repoVars, runVars, bindTally, BindingInv, BindingTypeOK, BoundRows,
     OneBinder, CreatorFindsNone, ProbeIsKept, SuccessOpensRemote, PendingHasCall,
     ReadyOpensRemote, BindsDoNotCollide, AttachedHasTarget
<1>2. ASSUME NEW b \in Binders, BindNext(b) PROVE BindingInv'
  BY <1>2, LookupStep, CreateStep, StartStep, FinishProbeStep, FinishInitStep, GiveUpStep
  DEF BindNext
<1>3. ASSUME NEW g \in Rows,
             \/ ProbeRuns(g) \/ AgentStartsInit(g) \/ AgentInit(g)
             \/ HandleInitResult(g) \/ CancelRun(g) \/ InitDisconnected(g)
      PROVE  BindingInv'
  BY <1>3, ProbeStep, AgentInitStep, InitResultStep, InterruptStep
<1> QED
  BY <1>1, <1>2, <1>3, TargetStep, RestartStep DEF BindingNext

\* The invariant holds in every state.
LEMMA BindingInvariant == BindingSpec => []BindingInv
  BY BindingInitInv, BindingStep, PTL DEF BindingSpec

-----------------------------------------------------------------------------
(* The theorems.                                                             *)

\* The row, the runs, the agent's jobs and the calls keep their types.
THEOREM BindingTypeCorrect == BindingSpec => []BindingTypeOK
  BY BindingInvariant, PTL DEF BindingInv

\* A repository shown as ready opens with the password of its row, whatever
\* late result, repeated bind, unbind or new row came in between.
THEOREM ReadyRepositoriesOpen == BindingSpec => []ReadyOpensRemote
  BY BindingInvariant, PTL DEF BindingInv

\* No row stays pending once the calls have returned, unless the server crashed
\* under one of them.
THEOREM NoRowLeftPending == BindingSpec => []NothingLeftPending
<1>1. BindingInv => NothingLeftPending
  BY DEF BindingInv, PendingHasCall, NothingLeftPending
<1> QED
  BY <1>1, BindingInvariant, PTL

\* With bindMu, no call meets the UNIQUE constraint or loses its probe.
THEOREM NoBindCollides == BindingSpec => []BindsDoNotCollide
  BY BindingInvariant, PTL DEF BindingInv

\* A repository keeps its storage target and with it its credentials.
THEOREM RepositoriesKeepTargets == BindingSpec => []AttachedHasTarget
  BY BindingInvariant, PTL DEF BindingInv
=============================================================================
