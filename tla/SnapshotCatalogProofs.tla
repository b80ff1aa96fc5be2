------------------------ MODULE SnapshotCatalogProofs ------------------------
(***************************************************************************)
(* Theorems about SnapshotCatalog, for any number of snapshots, list runs, *)
(* requests and faults.                                                    *)
(***************************************************************************)
EXTENDS SnapshotCatalog, TLAPS

Statuses == {"none", "pruned"} \cup Active \cup Ended
Intents == {"none", "candidate"} \cup HiddenStates
RestoreType == [phase : {"none", "authorised", "queued", "running", "manual", "released"},
                source : Snapshots \cup {None}, away : BOOLEAN]

-----------------------------------------------------------------------------
(* The inductive invariant.                                                  *)

\* Some list run holds the snapshot in its result.
Found(s) == \E l \in Lists : listing[l] # None /\ s \in listing[l]

\* The backup has had its effect or will not have it: it cannot bring the
\* snapshot back.
Past(s) ==
    /\ status[BackupRun(s)] \notin {"none", "queued"}
    /\ exec = BackupRun(s) => worked

\* The backup's row will never be recorded as succeeded.
Dead(s) == status[BackupRun(s)] \in {"failed", "cancelled"} /\ exec # BackupRun(s)

\* While a restore writes or waits for an operator no row is running, and the
\* agent is idle unless the restore is elsewhere.
HeldBack ==
    restore.phase \in {"running", "manual"} =>
        /\ \A k \in Keys : status[k] # "running"
        /\ restore.away \/ exec = None

\* What the agent executes is the run of a row, and what that row holds is still
\* true when its answer is under way. A list that nobody waits for any more may
\* lack the protection snapshot of a restore elsewhere.
ExecInv ==
    /\ HeldBack
    /\ \A k \in Keys : exec = k => status[k] # "queued"
    /\ \A s \in Backups : exec = BackupRun(s) =>
         /\ status[BackupRun(s)] \in {"running", "failed", "cancelled"}
         /\ worked => s \in remote
    /\ \A s \in Snapshots : exec = ForgetRun(s) =>
         /\ status[ForgetRun(s)] # "none"
         /\ worked => s \notin remote
    /\ \A l \in Lists : exec = ListRun(l) /\ worked /\ listing[l] # None =>
         \A s \in remote : s \in listing[l] \/ (s = Protection /\ status[ListRun(l)] # "running")

\* A result in the row of a list run that has not ended is of this run.
ListInv ==
    \A l \in Lists :
        status[ListRun(l)] \in Active /\ listing[l] # None => exec = ListRun(l) /\ worked

\* A snapshot that anything refers to does not come into the repository again;
\* the protection snapshot is given up only after its restore.
PastInv ==
    /\ \A s \in Backups :
         \/ s \in remote \/ s \in cache.snaps \/ Found(s)
         \/ deletion[s] # "none" \/ status[ForgetRun(s)] # "none"
         => Past(s)
    /\ deletion[Protection] # "none" \/ status[ForgetRun(Protection)] # "none"
         => restore.phase = "released"

\* Deletions and what the cleanup tick is about to do with them.
GoneInv ==
    /\ \A s \in Snapshots : status[ForgetRun(s)] = "succeeded" => s \notin remote
    /\ SucceededDeletionIsGone
    /\ \A s \in todo : deletion[s] \in HiddenStates
    /\ tick = "await" =>
         /\ awaited \in Lists /\ subject \in Snapshots
         /\ deletion[subject] \in HiddenStates
         /\ listing[awaited] # None /\ subject \in remote => subject \in listing[awaited]

\* Rows of succeeded backups stay, so what the orphan scan takes for an orphan
\* has no future as a good backup. A week is what makes it wait for that.
GoodInv ==
    /\ \A s \in Backups : status[BackupRun(s)] # "pruned"
    /\ \A s \in good : status[BackupRun(s)] = "succeeded"
    /\ \A s \in Backups : deletion[s] \in HiddenStates \/ status[ForgetRun(s)] # "none"
         => s \in wanted \/ Dead(s)
    /\ \A s \in aged \cap Backups : status[BackupRun(s)] = "succeeded" \/ Dead(s)
    /\ BackedUpSnapshotsSurvive

CatalogInv ==
    /\ CatalogTypeOK
    /\ ExecInv
    /\ ListInv
    /\ PastInv
    /\ GoneInv
    /\ "backup" \notin Prunable => GoodInv

-----------------------------------------------------------------------------
(* Names and types.                                                          *)

\* The names of runs differ where their operations or objects do.
LEMMA KeyFacts ==
  /\ \A s \in Backups : BackupRun(s) \in Keys /\ s \in Snapshots
  /\ \A s \in Snapshots : ForgetRun(s) \in Keys
  /\ \A l \in Lists : ListRun(l) \in Keys /\ l # None
  /\ RetentionRun \in Keys /\ PurgeRun \in Keys /\ None \notin Keys
  /\ \A s, t : BackupRun(s) = BackupRun(t) => s = t
  /\ \A s, t : ForgetRun(s) = ForgetRun(t) => s = t
  /\ \A s, t : ListRun(s) = ListRun(t) => s = t
  /\ \A s, t : BackupRun(s) # ForgetRun(t) /\ BackupRun(s) # ListRun(t) /\ ForgetRun(s) # ListRun(t)
  /\ \A s : /\ RetentionRun \notin {BackupRun(s), ForgetRun(s), ListRun(s)}
            /\ PurgeRun \notin {BackupRun(s), ForgetRun(s), ListRun(s)}
  /\ \A s : BackupRun(s)[1] = "backup" /\ ForgetRun(s)[1] = "forget"
  /\ \A k \in Keys : \/ k \in {RetentionRun, PurgeRun}
                     \/ \E s \in Backups : k = BackupRun(s)
                     \/ \E s \in Snapshots : k = ForgetRun(s)
                     \/ \E l \in Lists : k = ListRun(l)
  /\ Protection \in Snapshots /\ Protection \notin Backups
  /\ \A s \in Snapshots : s \in Backups \/ s = Protection
<1> USE DEF BackupRun, ForgetRun, ListRun, RetentionRun, PurgeRun, Keys, Snapshots
<1>1. /\ \A s \in Backups : BackupRun(s) \in Keys /\ s \in Snapshots
      /\ \A s \in Snapshots : ForgetRun(s) \in Keys
      /\ \A l \in Lists : ListRun(l) \in Keys
      /\ RetentionRun \in Keys /\ PurgeRun \in Keys
  OBVIOUS
<1>2. /\ \A s, t : BackupRun(s) = BackupRun(t) => s = t
      /\ \A s, t : ForgetRun(s) = ForgetRun(t) => s = t
      /\ \A s, t : ListRun(s) = ListRun(t) => s = t
  OBVIOUS
<1>3. \A s, t : BackupRun(s) # ForgetRun(t) /\ BackupRun(s) # ListRun(t) /\ ForgetRun(s) # ListRun(t)
  OBVIOUS
<1>4. \A s : /\ RetentionRun \notin {BackupRun(s), ForgetRun(s), ListRun(s)}
             /\ PurgeRun \notin {BackupRun(s), ForgetRun(s), ListRun(s)}
  OBVIOUS
<1>5. \A s : BackupRun(s)[1] = "backup" /\ ForgetRun(s)[1] = "forget"
  OBVIOUS
<1>6. \A k \in Keys : \/ k \in {RetentionRun, PurgeRun}
                      \/ \E s \in Backups : k = BackupRun(s)
                      \/ \E s \in Snapshots : k = ForgetRun(s)
                      \/ \E l \in Lists : k = ListRun(l)
  OBVIOUS
<1>7. /\ Protection \in Snapshots /\ Protection \notin Backups
      /\ \A s \in Snapshots : s \in Backups \/ s = Protection
  BY CatalogAssumption
<1>8. None \notin Keys /\ \A l \in Lists : l # None
  BY CatalogAssumption, NoneAssumption
<1> QED
  BY <1>1, <1>2, <1>3, <1>4, <1>5, <1>6, <1>7, <1>8

\* Parts of the types that steps change together.
RowType ==
    /\ status \in [Keys -> Statuses]
    /\ listing \in [Lists -> (SUBSET Snapshots) \cup {None}]
IntentType ==
    /\ deletion \in [Snapshots -> Intents]
    /\ aged \subseteq Snapshots
CacheType ==
    /\ cache \in [snaps : SUBSET Snapshots, valid : BOOLEAN]
    /\ flight \in [list : Lists \cup {None}, current : BOOLEAN]
    /\ browses \in 0..MaxBrowses
TickType ==
    /\ tick \in {"idle", "settle", "await", "scan"}
    /\ todo \subseteq Snapshots
    /\ subject \in Snapshots \cup {None}
    /\ awaited \in Lists \cup {None}
    /\ scanRun \in Lists \cup {None}
ExecType ==
    /\ remote \subseteq Snapshots
    /\ exec \in Keys \cup {None}
    /\ worked \in BOOLEAN
HistoryType ==
    /\ good \subseteq Backups
    /\ wanted \subseteq Snapshots

\* The types, by these parts.
LEMMA CatalogTypes ==
  CatalogTypeOK <=>
    /\ RowType /\ IntentType /\ CacheType /\ TickType /\ ExecType /\ HistoryType
    /\ restore \in RestoreType /\ faults \in 0..MaxFaults
  BY DEF CatalogTypeOK, RowType, IntentType, CacheType, TickType, ExecType, HistoryType,
     RestoreType, Statuses, Intents

\* The same after a step.
LEMMA CatalogTypesPrimed ==
  ASSUME RowType', IntentType', CacheType', TickType', ExecType', HistoryType',
         restore' \in RestoreType, faults' \in 0..MaxFaults
  PROVE  CatalogTypeOK'
  BY DEF CatalogTypeOK, RowType, IntentType, CacheType, TickType, ExecType, HistoryType,
     RestoreType, Statuses, Intents

\* Nothing exists yet.
LEMMA CatalogInitInv == Init => CatalogInv
<1> SUFFICES ASSUME Init PROVE CatalogInv
  OBVIOUS
<1> USE DEF Init
<1>1. CatalogTypeOK
  <2>1. restore \in RestoreType
    BY DEF RestoreType
  <2>2. CacheType
    BY CatalogAssumption DEF CacheType
  <2>3. RowType /\ IntentType /\ TickType /\ ExecType /\ HistoryType
    BY DEF RowType, IntentType, TickType, ExecType, HistoryType, Statuses, Intents
  <2>4. faults \in 0..MaxFaults
    BY CatalogAssumption
  <2> QED
    BY <2>1, <2>2, <2>3, <2>4, CatalogTypes
<1>2. ExecInv
  BY KeyFacts DEF ExecInv, HeldBack
<1>3. ListInv
  BY DEF ListInv
<1>4. PastInv
  BY KeyFacts DEF PastInv, Found
<1>5. GoneInv
  BY KeyFacts DEF GoneInv, SucceededDeletionIsGone
<1>6. GoodInv
  BY KeyFacts DEF GoodInv, BackedUpSnapshotsSurvive, HiddenStates
<1> QED
  BY <1>1, <1>2, <1>3, <1>4, <1>5, <1>6 DEF CatalogInv

-----------------------------------------------------------------------------
(* Quiet steps: nothing starts, ends or touches the repository. What such a  *)
(* step may do to each part of the state, and why that keeps the invariant.  *)

BackupRows ==
    \A s \in Backups :
        LET k == BackupRun(s) IN
        \/ status'[k] = status[k]
        \/ status[k] = "none" /\ status'[k] = "queued"
        \/ status[k] \in Active /\ status'[k] \in {"failed", "cancelled"}
        \/ status[k] \in Ended /\ status'[k] = "pruned" /\ exec # k /\ "backup" \in Prunable
ForgetRows ==
    \A s \in Snapshots :
        LET k == ForgetRun(s) IN
        \/ status'[k] = status[k]
        \/ deletion[s] = "pending" /\ status'[k] = "queued"
        \/ status[k] \in Active /\ status'[k] \in {"failed", "cancelled"}
        \/ status[k] \in Ended /\ status'[k] = "pruned"
ListRows ==
    \A l \in Lists :
        /\ listing'[l] = listing[l] \/ listing'[l] = None
        /\ status'[ListRun(l)] \in Active /\ listing'[l] # None => status[ListRun(l)] \in Active
NothingStarts ==
    \A k \in Keys :
        \/ status'[k] = status[k]
        \/ status'[k] = "queued" /\ exec # k
        \/ status'[k] \notin Active
RowsQuiet == RowType' /\ BackupRows /\ ForgetRows /\ ListRows /\ NothingStarts

CacheQuiet == CacheType' /\ \A s \in Backups : s \in cache'.snaps => s \in cache.snaps \/ Found(s)

IntentMoves(s) ==
    \/ deletion'[s] = deletion[s]
    \* QueueSnapshotDeletion
    \/ /\ deletion'[s] = "pending" /\ s \in cache.snaps /\ s \in wanted'
       /\ s = Protection => restore.phase = "released"
    \* claimed, settled or offered again
    \/ deletion[s] \in HiddenStates /\ deletion'[s] \in {"pending", "running"}
    \/ deletion[s] \in HiddenStates /\ deletion'[s] = "succeeded" /\ s \notin remote
    \* the orphan scan
    \/ deletion[s] = "candidate" /\ deletion'[s] = "none"
    \/ s \in Backups /\ Found(s) /\ deletion[s] = "none" /\ deletion'[s] = "candidate"
    \/ /\ s \in Backups /\ s \in aged /\ status[BackupRun(s)] # "succeeded"
       /\ deletion[s] = "candidate" /\ deletion'[s] = "pending"
IntentsQuiet ==
    /\ IntentType'
    /\ \A s \in Snapshots : IntentMoves(s)
    /\ \A s \in aged' \cap Backups :
         s \in aged \/ (deletion[s] = "candidate" /\ exec = None /\ status[BackupRun(s)] # "running")

RestoreQuiet ==
    /\ restore' \in RestoreType
    /\ restore'.phase \in {"running", "manual"} =>
         /\ \A k \in Keys : status[k] # "running"
         /\ restore'.away \/ exec = None
    /\ restore.phase = "released" => restore'.phase = "released"

TickQuiet ==
    /\ TickType'
    /\ \A s \in todo' : s \in todo \/ deletion[s] \in HiddenStates
    /\ tick' = "await" =>
         \/ UNCHANGED <<tick, awaited, subject>>
         \/ /\ awaited' \in Lists /\ subject' \in todo
            /\ listing'[awaited'] # None => status[ListRun(awaited')] \in Active

HistoryQuiet == HistoryType' /\ UNCHANGED good /\ wanted \subseteq wanted'

\* Such steps keep the invariant.
LEMMA QuietKeeps ==
  ASSUME CatalogInv, UNCHANGED <<remote, exec, worked>>, faults' \in 0..MaxFaults,
         RowsQuiet, CacheQuiet, IntentsQuiet, RestoreQuiet, TickQuiet, HistoryQuiet
  PROVE  CatalogInv'
<1>1. CatalogTypeOK /\ ExecInv /\ ListInv /\ PastInv /\ GoneInv
  BY DEF CatalogInv
<1>2. /\ RowType /\ IntentType /\ CacheType /\ TickType /\ ExecType /\ HistoryType
  BY <1>1, CatalogTypes
<1>3. CatalogTypeOK'
  <2>1. ExecType'
    BY <1>2 DEF ExecType
  <2> QED
    BY <2>1, CatalogTypesPrimed DEF RowsQuiet, CacheQuiet, IntentsQuiet, RestoreQuiet, TickQuiet,
       HistoryQuiet
<1>4. BackupRows /\ ForgetRows /\ ListRows /\ RowType' /\ NothingStarts
  BY DEF RowsQuiet
<1>5. ExecInv'
  <2>1. HeldBack' /\ \A k \in Keys : exec' = k => status'[k] # "queued"
    BY <1>1, <1>4 DEF RestoreQuiet, ExecInv, HeldBack, NothingStarts, Active
  <2>2. \A s \in Backups : exec' = BackupRun(s) =>
          /\ status'[BackupRun(s)] \in {"running", "failed", "cancelled"}
          /\ worked' => s \in remote'
    BY <1>1, <1>4 DEF ExecInv, BackupRows, Active
  <2>3. \A s \in Snapshots : exec' = ForgetRun(s) =>
          status'[ForgetRun(s)] # "none" /\ (worked' => s \notin remote')
    BY <1>1, <1>4 DEF ExecInv, ForgetRows
  <2>4. \A l \in Lists : exec' = ListRun(l) /\ worked' /\ listing'[l] # None =>
          \A s \in remote' : s \in listing'[l] \/ (s = Protection /\ status'[ListRun(l)] # "running")
    BY <1>1, <1>4, KeyFacts DEF ExecInv, ListRows, NothingStarts, Active
  <2> QED
    BY <2>1, <2>2, <2>3, <2>4 DEF ExecInv
<1>6. ListInv'
  BY <1>1, <1>4 DEF ListInv, ListRows
<1>7. \A s \in Backups : Past(s) => Past(s)'
  BY <1>4 DEF Past, BackupRows, Active
<1>8. \A s \in Backups : Found(s)' => Found(s)
  BY <1>4 DEF Found, ListRows
<1>9. \A s \in Snapshots : IntentMoves(s)
  BY DEF IntentsQuiet
<1>10. PastInv'
  <2>1. ASSUME NEW s \in Backups,
               \/ s \in remote' \/ s \in cache'.snaps \/ Found(s)'
               \/ deletion'[s] # "none" \/ status'[ForgetRun(s)] # "none"
        PROVE  Past(s)'
    <3>1. CASE s \in remote' \/ s \in cache'.snaps \/ Found(s)'
      BY <1>1, <1>7, <1>8, <3>1 DEF PastInv, CacheQuiet
    <3>2. CASE deletion'[s] # "none"
      <4>1. deletion[s] # "none" \/ s \in cache.snaps \/ Found(s)
        BY <1>9, <3>2, KeyFacts DEF IntentMoves, HiddenStates
      <4> QED
        BY <1>1, <1>7, <4>1 DEF PastInv
    <3>3. CASE status'[ForgetRun(s)] # "none"
      <4>1. deletion[s] # "none" \/ status[ForgetRun(s)] # "none"
        BY <1>4, <3>3, KeyFacts DEF ForgetRows, Active, Ended
      <4> QED
        BY <1>1, <1>7, <4>1 DEF PastInv
    <3> QED
      BY <2>1, <3>1, <3>2, <3>3
  <2>2. ASSUME deletion'[Protection] # "none" \/ status'[ForgetRun(Protection)] # "none"
        PROVE  restore'.phase = "released"
    <3>1. \/ deletion[Protection] # "none" \/ status[ForgetRun(Protection)] # "none"
          \/ restore.phase = "released"
      BY <1>4, <1>9, <2>2, KeyFacts DEF ForgetRows, IntentMoves, HiddenStates, Active, Ended
    <3> QED
      BY <1>1, <3>1 DEF PastInv, RestoreQuiet
  <2> QED
    BY <2>1, <2>2 DEF PastInv
<1>11. \A s \in Snapshots : deletion[s] \in HiddenStates => deletion'[s] \in HiddenStates
  BY <1>9 DEF IntentMoves, HiddenStates
<1>12. GoneInv'
  <2>1. \A s \in Snapshots : status'[ForgetRun(s)] = "succeeded" => s \notin remote'
    BY <1>1, <1>4 DEF GoneInv, ForgetRows
  <2>2. SucceededDeletionIsGone'
    BY <1>1, <1>9 DEF GoneInv, SucceededDeletionIsGone, IntentMoves
  <2>3. \A s \in todo' : deletion'[s] \in HiddenStates
    BY <1>1, <1>2, <1>11 DEF GoneInv, TickQuiet, TickType
  <2>4. ASSUME tick' = "await"
        PROVE  /\ awaited' \in Lists /\ subject' \in Snapshots
               /\ deletion'[subject'] \in HiddenStates
               /\ listing'[awaited'] # None /\ subject' \in remote' => subject' \in listing'[awaited']
    <3>1. CASE UNCHANGED <<tick, awaited, subject>>
      BY <1>1, <1>4, <1>11, <2>4, <3>1 DEF GoneInv, ListRows
    <3>2. CASE /\ awaited' \in Lists /\ subject' \in todo
               /\ listing'[awaited'] # None => status[ListRun(awaited')] \in Active
      <4>1. subject' \in Snapshots /\ deletion'[subject'] \in HiddenStates
        BY <1>1, <1>2, <1>11, <3>2 DEF GoneInv, TickType
      <4>2. ASSUME listing'[awaited'] # None PROVE remote' \subseteq listing'[awaited']
        <5>1. /\ status[ListRun(awaited')] \in Active /\ listing'[awaited'] = listing[awaited']
              /\ exec = ListRun(awaited') /\ worked
          BY <1>1, <1>4, <3>2, <4>2 DEF ListInv, ListRows
        <5>2. status[ListRun(awaited')] = "running"
          BY <1>1, <3>2, <5>1, KeyFacts DEF ExecInv, Active
        <5> QED
          BY <1>1, <3>2, <4>2, <5>1, <5>2 DEF ExecInv
      <4> QED
        BY <3>2, <4>1, <4>2
    <3> QED
      BY <2>4, <3>1, <3>2 DEF TickQuiet
  <2> QED
    BY <2>1, <2>2, <2>3, <2>4 DEF GoneInv
<1>13. ASSUME "backup" \notin Prunable PROVE GoodInv'
  <2>1. GoodInv
    BY <1>13 DEF CatalogInv
  <2>2. good \subseteq Backups /\ UNCHANGED good /\ wanted \subseteq wanted'
    BY <1>2 DEF HistoryType, HistoryQuiet
  <2>3. \A s \in Backups : status[BackupRun(s)] = "succeeded" => status'[BackupRun(s)] = "succeeded"
    BY <1>4, <1>13 DEF BackupRows, Active
  <2>4. \A s \in Backups : Dead(s) => Dead(s)'
    BY <1>4, <1>13 DEF BackupRows, Dead, Active
  <2>5. \A s \in good' : status'[BackupRun(s)] = "succeeded"
    BY <2>1, <2>2, <2>3 DEF GoodInv
  <2>6. ASSUME NEW s \in Backups, deletion'[s] \in HiddenStates \/ status'[ForgetRun(s)] # "none"
        PROVE  s \in wanted' \/ Dead(s)'
    <3>1. \/ s \in wanted' \/ deletion[s] \in HiddenStates \/ status[ForgetRun(s)] # "none"
          \/ s \in aged /\ status[BackupRun(s)] # "succeeded"
      BY <1>4, <1>9, <2>6, KeyFacts DEF IntentMoves, ForgetRows, HiddenStates, Active, Ended
    <3> QED
      BY <2>1, <2>2, <2>4, <3>1 DEF GoodInv
  <2>7. \A s \in aged' \cap Backups : status'[BackupRun(s)] = "succeeded" \/ Dead(s)'
    <3> SUFFICES ASSUME NEW s \in aged' \cap Backups
                 PROVE  status'[BackupRun(s)] = "succeeded" \/ Dead(s)'
      OBVIOUS
    <3>1. CASE s \in aged
      BY <2>1, <2>3, <2>4, <3>1 DEF GoodInv
    <3>2. CASE deletion[s] = "candidate" /\ exec = None /\ status[BackupRun(s)] # "running"
      <4>1. status[BackupRun(s)] \in Statuses \ {"none", "queued", "running"} /\ exec # BackupRun(s)
        BY <1>1, <1>2, <3>2, KeyFacts DEF PastInv, Past, RowType
      <4>2. PICK v \in {"succeeded", "failed", "cancelled", "pruned"} : status[BackupRun(s)] = v
        BY <4>1 DEF Statuses, Active, Ended
      <4>3. v # "pruned"
        BY <2>1, <4>2 DEF GoodInv
      <4> QED
        BY <2>3, <2>4, <4>1, <4>2, <4>3 DEF Dead
    <3> QED
      BY <3>1, <3>2 DEF IntentsQuiet
  <2>8. BackedUpSnapshotsSurvive'
    BY <2>1, <2>2 DEF GoodInv, BackedUpSnapshotsSurvive
  <2>9. \A s \in Backups : status'[BackupRun(s)] # "pruned"
    BY <1>4, <1>13, <2>1 DEF GoodInv, BackupRows
  <2> QED
    BY <2>5, <2>6, <2>7, <2>8, <2>9 DEF GoodInv
<1> QED
  BY <1>3, <1>5, <1>6, <1>10, <1>12, <1>13 DEF CatalogInv

\* A part that a step leaves alone is quiet.
LEMMA Still ==
  ASSUME CatalogInv
  PROVE  /\ UNCHANGED <<status, listing>> => RowsQuiet
         /\ UNCHANGED cacheVars => CacheQuiet
         /\ UNCHANGED intentVars => IntentsQuiet
         /\ UNCHANGED restore => RestoreQuiet
         /\ UNCHANGED <<tickVars, scanRun>> => TickQuiet
         /\ UNCHANGED historyVars => HistoryQuiet
<1>1. RowType /\ IntentType /\ CacheType /\ TickType /\ HistoryType /\ restore \in RestoreType
  BY CatalogTypes DEF CatalogInv
<1>2. UNCHANGED <<status, listing>> => RowsQuiet
  BY <1>1 DEF RowsQuiet, RowType, BackupRows, ForgetRows, ListRows, NothingStarts
<1>3. UNCHANGED cacheVars => CacheQuiet
  BY <1>1 DEF CacheQuiet, CacheType, cacheVars
<1>4. UNCHANGED intentVars => IntentsQuiet
  BY <1>1 DEF IntentsQuiet, IntentType, IntentMoves, intentVars
<1>5. UNCHANGED restore => RestoreQuiet
  BY <1>1 DEF RestoreQuiet, CatalogInv, ExecInv, HeldBack
<1>6. UNCHANGED <<tickVars, scanRun>> => TickQuiet
  BY <1>1 DEF TickQuiet, TickType, tickVars
<1>7. UNCHANGED historyVars => HistoryQuiet
  BY <1>1 DEF HistoryQuiet, HistoryType, historyVars
<1> QED
  BY <1>2, <1>3, <1>4, <1>5, <1>6, <1>7

\* A fault is counted within its bound.
LEMMA FaultCounts ==
  ASSUME CatalogInv, NEW kind
  PROVE  faults \in 0..MaxFaults /\ (Fault(kind) => faults' \in 0..MaxFaults)
<1>1. faults \in 0..MaxFaults /\ MaxFaults \in Nat
  BY CatalogAssumption DEF CatalogInv, CatalogTypeOK
<1> QED
  BY <1>1 DEF Fault

\* One row changes.
LEMMA OneRow ==
  ASSUME CatalogInv, NEW k \in Keys, NEW v \in Statuses, status' = [status EXCEPT ![k] = v],
         UNCHANGED listing
  PROVE  RowType' /\ status'[k] = v /\ \A j \in Keys \ {k} : status'[j] = status[j]
<1>1. RowType
  BY CatalogTypes DEF CatalogInv
<1> QED
  BY <1>1 DEF RowType

\* invalidateSnapshotCacheTx only forgets.
LEMMA InvalidateQuiet ==
  ASSUME CatalogInv, InvalidateCache, UNCHANGED browses
  PROVE  CacheQuiet
<1>1. CacheType
  BY CatalogTypes DEF CatalogInv
<1> QED
  BY <1>1 DEF InvalidateCache, CacheType, CacheQuiet

\* New rows of backups, retention and purge.
LEMMA CreateKeeps ==
  ASSUME CatalogInv, NEW k \in Keys, CreateInvalidating(k),
         k \in {RetentionRun, PurgeRun} \/ \E s \in Backups : k = BackupRun(s) /\ status[k] = "none"
  PROVE  CatalogInv'
<1>1. /\ UNCHANGED <<remote, exec, worked, listing, browses, intentVars, scanRun, tickVars,
                     restore, historyVars, faults>>
      /\ status' = [status EXCEPT ![k] = "queued"] /\ InvalidateCache /\ exec # k
  BY DEF CreateInvalidating
<1>2. RowType' /\ status'[k] = "queued" /\ \A j \in Keys \ {k} : status'[j] = status[j]
  BY <1>1, OneRow DEF Statuses, Active
<1>3. RowsQuiet
  <2>1. BackupRows
    BY <1>2, KeyFacts DEF BackupRows
  <2>2. ForgetRows
    BY <1>2, KeyFacts DEF ForgetRows
  <2>3. ListRows
    BY <1>1, <1>2, KeyFacts DEF ListRows
  <2>4. NothingStarts
    BY <1>1, <1>2 DEF NothingStarts
  <2> QED
    BY <1>2, <2>1, <2>2, <2>3, <2>4 DEF RowsQuiet
<1>4. CacheQuiet
  BY <1>1, InvalidateQuiet
<1>5. faults' \in 0..MaxFaults
  BY <1>1, FaultCounts
<1>6. IntentsQuiet /\ RestoreQuiet /\ TickQuiet /\ HistoryQuiet
  BY <1>1, Still
<1> QED
  BY <1>1, <1>3, <1>4, <1>5, <1>6, QuietKeeps

\* A list run joined or created says nothing yet that it should not.
LEMMA JoinQuiet ==
  ASSUME CatalogInv, NEW l \in Lists, JoinOrCreate(l)
  PROVE  RowsQuiet /\ (listing'[l] # None => status[ListRun(l)] \in Active)
<1>1. RowType
  BY CatalogTypes DEF CatalogInv
<1>2. CASE status[ListRun(l)] \in Active /\ UNCHANGED <<status, listing>>
  BY <1>2, Still
<1>3. CASE /\ status' = [status EXCEPT ![ListRun(l)] = "queued"] /\ exec # ListRun(l)
           /\ listing' = [listing EXCEPT ![l] = None]
  <2>1. /\ status'[ListRun(l)] = "queued"
        /\ \A j \in Keys \ {ListRun(l)} : status'[j] = status[j]
        /\ listing'[l] = None /\ \A i \in Lists \ {l} : listing'[i] = listing[i]
    BY <1>1, <1>3, KeyFacts DEF RowType
  <2>2. RowType'
    BY <1>1, <1>3, KeyFacts DEF RowType, Statuses, Active
  <2>3. BackupRows
    BY <2>1, KeyFacts DEF BackupRows
  <2>4. ForgetRows
    BY <2>1, KeyFacts DEF ForgetRows
  <2>5. ListRows
    BY <2>1, KeyFacts DEF ListRows
  <2>6. NothingStarts
    BY <1>3, <2>1 DEF NothingStarts
  <2> QED
    BY <2>1, <2>2, <2>3, <2>4, <2>5, <2>6 DEF RowsQuiet
<1> QED
  BY <1>2, <1>3 DEF JoinOrCreate

\* A list run that its reader is done with.
LEMMA ForgetListQuiet ==
  ASSUME CatalogInv, NEW l \in Lists, status[ListRun(l)] \notin Active,
         status' = status \/ status' = [status EXCEPT ![ListRun(l)] = "none"],
         listing' = listing \/ listing' = [listing EXCEPT ![l] = None]
  PROVE  RowsQuiet
<1>1. RowType
  BY CatalogTypes DEF CatalogInv
<1>2. /\ status'[ListRun(l)] \notin Active
      /\ \A j \in Keys \ {ListRun(l)} : status'[j] = status[j]
      /\ \A i \in Lists : listing'[i] = listing[i] \/ listing'[i] = None
  BY <1>1, KeyFacts DEF RowType, Active
<1>3. RowType'
  BY <1>1, KeyFacts DEF RowType, Statuses
<1>4. BackupRows
  BY <1>2, KeyFacts DEF BackupRows
<1>5. ForgetRows
  BY <1>2, KeyFacts DEF ForgetRows
<1>6. ListRows
  BY <1>2, KeyFacts DEF ListRows
<1>7. NothingStarts
  BY <1>2 DEF NothingStarts
<1> QED
  BY <1>3, <1>4, <1>5, <1>6, <1>7 DEF RowsQuiet

\* DropList, where the run has ended.
LEMMA DropQuiet ==
  ASSUME CatalogInv, NEW l \in Lists, NEW others, DropList(l, others), status[ListRun(l)] \notin Active
  PROVE  RowsQuiet
<1>1. /\ status' = status \/ status' = [status EXCEPT ![ListRun(l)] = "none"]
      /\ listing' = listing \/ listing' = [listing EXCEPT ![l] = None]
  BY DEF DropList
<1> QED
  BY <1>1, ForgetListQuiet

\* The status of an ended row.
LEMMA AtEndFact ==
  ASSUME NEW k \in Keys, NEW v
  PROVE  /\ AtEnd(k, v) \in {v, "none"}
         /\ \A s : k = BackupRun(s) \/ k = ForgetRun(s) => AtEnd(k, v) = v
  BY KeyFacts DEF AtEnd

\* A row that ends without its run being heard of.
LEMMA EndRowQuiet ==
  ASSUME CatalogInv, NEW k \in Keys, NEW v \in {"failed", "cancelled"}, status[k] \in Active,
         status' = [status EXCEPT ![k] = AtEnd(k, v)], UNCHANGED listing
  PROVE  RowsQuiet
<1>1. PICK w \in {v, "none"} : /\ w = AtEnd(k, v)
                               /\ \A s : k = BackupRun(s) \/ k = ForgetRun(s) => w = v
  BY AtEndFact
<1>2. w \in Statuses
  BY <1>1 DEF Statuses, Ended
<1>3. status' = [status EXCEPT ![k] = w]
  BY <1>1
<1>4. RowType' /\ status'[k] = w /\ \A j \in Keys \ {k} : status'[j] = status[j]
  BY <1>2, <1>3, OneRow
<1>5. BackupRows
  BY <1>1, <1>4, KeyFacts DEF BackupRows
<1>6. ForgetRows
  BY <1>1, <1>4, KeyFacts DEF ForgetRows
<1>7. ListRows
  BY <1>4, KeyFacts DEF ListRows, Active
<1>8. NothingStarts
  BY <1>1, <1>4 DEF NothingStarts, Active
<1> QED
  BY <1>4, <1>5, <1>6, <1>7, <1>8 DEF RowsQuiet

\* Deadlines and cancellation.
LEMMA TimeOutKeeps ==
  ASSUME CatalogInv, NEW k \in Keys, TimeOut(k) \/ CancelRun(k)
  PROVE  CatalogInv'
<1>1. /\ UNCHANGED <<remote, exec, worked, listing, cacheVars, intentVars, scanRun, tickVars,
                     restore, historyVars>>
      /\ status[k] \in Active
      /\ \E v \in {"failed", "cancelled"} : status' = [status EXCEPT ![k] = AtEnd(k, v)]
      /\ UNCHANGED faults \/ Fault("timeout") \/ Fault("cancel")
  BY DEF TimeOut, CancelRun, Active
<1>2. RowsQuiet
  BY <1>1, EndRowQuiet
<1>3. faults' \in 0..MaxFaults
  BY <1>1, FaultCounts
<1>4. CacheQuiet /\ IntentsQuiet /\ RestoreQuiet /\ TickQuiet /\ HistoryQuiet
  BY <1>1, Still
<1> QED
  BY <1>1, <1>2, <1>3, <1>4, QuietKeeps

\* PruneHistory.
LEMMA PruneKeeps ==
  ASSUME CatalogInv, NEW k \in Keys, PruneHistory(k)
  PROVE  CatalogInv'
<1>1. /\ UNCHANGED <<remote, exec, worked, cacheVars, intentVars, scanRun, tickVars,
                     restore, historyVars, faults>>
      /\ status[k] \in Ended /\ exec # k /\ k[1] \in Prunable
      /\ status' = [status EXCEPT ![k] = "pruned"]
      /\ listing' = [l \in Lists |-> IF k = ListRun(l) THEN None ELSE listing[l]]
  BY DEF PruneHistory
<1>2. RowType
  BY CatalogTypes DEF CatalogInv
<1>3. /\ status'[k] = "pruned" /\ \A j \in Keys \ {k} : status'[j] = status[j]
      /\ \A l \in Lists : listing'[l] = listing[l] \/ listing'[l] = None
  BY <1>1, <1>2 DEF RowType
<1>4. RowType'
  BY <1>1, <1>2 DEF RowType, Statuses
<1>5. BackupRows
  BY <1>1, <1>3, KeyFacts DEF BackupRows
<1>6. ForgetRows
  BY <1>1, <1>3, KeyFacts DEF ForgetRows
<1>7. ListRows
  BY <1>3, KeyFacts DEF ListRows, Active
<1>8. NothingStarts
  BY <1>3 DEF NothingStarts, Active
<1>9. RowsQuiet
  BY <1>4, <1>5, <1>6, <1>7, <1>8 DEF RowsQuiet
<1>10. CacheQuiet /\ IntentsQuiet /\ RestoreQuiet /\ TickQuiet /\ HistoryQuiet /\ faults' \in 0..MaxFaults
  BY <1>1, Still, FaultCounts
<1> QED
  BY <1>1, <1>9, <1>10, QuietKeeps

\* A forget row that the ticks no longer read.
LEMMA LeaveWindowKeeps ==
  ASSUME CatalogInv, NEW s \in Snapshots, LeaveWindow(s)
  PROVE  CatalogInv'
<1>1. /\ UNCHANGED <<remote, exec, worked, listing, cacheVars, intentVars, scanRun, tickVars,
                     restore, historyVars, faults>>
      /\ status[ForgetRun(s)] \in Ended /\ status' = [status EXCEPT ![ForgetRun(s)] = "pruned"]
  BY DEF LeaveWindow
<1>2. ForgetRun(s) \in Keys /\ "pruned" \in Statuses
  BY KeyFacts DEF Statuses
<1>3. /\ RowType' /\ status'[ForgetRun(s)] = "pruned"
      /\ \A j \in Keys \ {ForgetRun(s)} : status'[j] = status[j]
  BY <1>1, <1>2, OneRow
<1>4. BackupRows
  BY <1>3, KeyFacts DEF BackupRows
<1>5. ForgetRows
  BY <1>1, <1>3, KeyFacts DEF ForgetRows
<1>6. ListRows
  BY <1>1, <1>3, KeyFacts DEF ListRows
<1>7. NothingStarts
  BY <1>3 DEF NothingStarts, Active
<1>8. RowsQuiet
  BY <1>3, <1>4, <1>5, <1>6, <1>7 DEF RowsQuiet
<1>9. CacheQuiet /\ IntentsQuiet /\ RestoreQuiet /\ TickQuiet /\ HistoryQuiet /\ faults' \in 0..MaxFaults
  BY <1>1, Still, FaultCounts
<1> QED
  BY <1>1, <1>8, <1>9, QuietKeeps

-----------------------------------------------------------------------------
(* The verified list and the requests of users.                              *)

\* A list request starts.
LEMMA BrowseStartKeeps ==
  ASSUME CatalogInv, NEW l \in Lists, BrowseStart(l)
  PROVE  CatalogInv'
<1>1. /\ UNCHANGED <<remote, exec, worked, cache, intentVars, scanRun, tickVars, restore,
                     historyVars, faults>>
      /\ JoinOrCreate(l) /\ flight' = [list |-> l, current |-> TRUE]
      /\ browses < MaxBrowses /\ browses' = browses + 1
  BY DEF BrowseStart
<1>2. CacheType
  BY CatalogTypes DEF CatalogInv
<1>3. browses' \in 0..MaxBrowses
  BY <1>1, <1>2, CatalogAssumption DEF CacheType
<1>4. CacheQuiet
  BY <1>1, <1>2, <1>3 DEF CacheType, CacheQuiet
<1>5. RowsQuiet
  BY <1>1, JoinQuiet
<1>6. IntentsQuiet /\ RestoreQuiet /\ TickQuiet /\ HistoryQuiet /\ faults' \in 0..MaxFaults
  BY <1>1, Still, FaultCounts
<1> QED
  BY <1>1, <1>4, <1>5, <1>6, QuietKeeps

\* It ends and saves what the list run found.
LEMMA BrowseFinishKeeps ==
  ASSUME CatalogInv, BrowseFinish
  PROVE  CatalogInv'
<1>1. CacheType /\ RowType
  BY CatalogTypes DEF CatalogInv
<1>2. PICK l \in Lists : l = flight.list
  BY <1>1 DEF BrowseFinish, CacheType
<1>3. /\ UNCHANGED <<remote, exec, worked, browses, intentVars, scanRun, tickVars, restore,
                     historyVars, faults>>
      /\ status[ListRun(l)] \notin Active
      /\ status' = [status EXCEPT ![ListRun(l)] =
                      IF l \in {scanRun, awaited} THEN status[ListRun(l)] ELSE "none"]
      /\ listing' = [listing EXCEPT ![l] = None]
      /\ flight' = [list |-> None, current |-> FALSE]
      /\ cache' = cache \/ (Usable(l) /\ cache' = [snaps |-> listing[l], valid |-> TRUE])
  BY <1>2 DEF BrowseFinish
<1>4. status' = status \/ status' = [status EXCEPT ![ListRun(l)] = "none"]
  BY <1>1, <1>3 DEF RowType
<1>5. RowsQuiet
  BY <1>3, <1>4, ForgetListQuiet
<1>6. CacheQuiet
  <2>1. CASE cache' = cache
    BY <1>1, <1>3, <2>1 DEF CacheQuiet, CacheType
  <2>2. CASE Usable(l) /\ cache' = [snaps |-> listing[l], valid |-> TRUE]
    <3>1. listing[l] # None /\ listing[l] \in SUBSET Snapshots
      BY <1>1, <2>2 DEF Usable, RowType
    <3> QED
      BY <1>1, <1>3, <2>2, <3>1 DEF CacheQuiet, CacheType, Found
  <2> QED
    BY <1>3, <2>1, <2>2
<1>7. IntentsQuiet /\ RestoreQuiet /\ TickQuiet /\ HistoryQuiet /\ faults' \in 0..MaxFaults
  BY <1>3, Still, FaultCounts
<1> QED
  BY <1>3, <1>5, <1>6, <1>7, QuietKeeps

\* It waits no longer.
LEMMA BrowseGivesUpKeeps ==
  ASSUME CatalogInv, BrowseGivesUp
  PROVE  CatalogInv'
<1>1. /\ UNCHANGED <<repoVars, cache, browses, intentVars, scanRun, tickVars, restore,
                     historyVars, faults>>
      /\ flight' = [list |-> None, current |-> FALSE]
  BY DEF BrowseGivesUp
<1>2. CacheType
  BY CatalogTypes DEF CatalogInv
<1>3. CacheQuiet
  BY <1>1, <1>2 DEF CacheType, CacheQuiet
<1>4. UNCHANGED <<remote, exec, worked, status, listing>>
  BY <1>1 DEF repoVars
<1>5. RowsQuiet /\ IntentsQuiet /\ RestoreQuiet /\ TickQuiet /\ HistoryQuiet /\ faults' \in 0..MaxFaults
  BY <1>1, <1>4, Still, FaultCounts
<1> QED
  BY <1>3, <1>4, <1>5, QuietKeeps

\* One intent changes.
LEMMA OneIntent ==
  ASSUME CatalogInv, NEW s \in Snapshots, NEW v \in Intents, deletion' = [deletion EXCEPT ![s] = v]
  PROVE  /\ deletion' \in [Snapshots -> Intents]
         /\ deletion'[s] = v /\ \A o \in Snapshots \ {s} : deletion'[o] = deletion[o]
<1>1. IntentType
  BY CatalogTypes DEF CatalogInv
<1> QED
  BY <1>1 DEF IntentType

\* A user gives a snapshot up.
LEMMA QueueKeeps ==
  ASSUME CatalogInv, NEW s \in Snapshots, QueueSnapshotDeletion(s)
  PROVE  CatalogInv'
<1>1. /\ UNCHANGED <<repoVars, cacheVars, scanRun, tickVars, restore, good, faults>>
      /\ deletion' = [deletion EXCEPT ![s] = "pending"] /\ wanted' = wanted \cup {s}
      /\ aged' = aged \ {s}
      /\ s \in cache.snaps /\ (s = Protection => restore.phase = "released")
  BY DEF QueueSnapshotDeletion, NotRestoreProtected
<1>2. HistoryType /\ IntentType
  BY CatalogTypes DEF CatalogInv
<1>3. /\ deletion' \in [Snapshots -> Intents]
      /\ deletion'[s] = "pending" /\ \A o \in Snapshots \ {s} : deletion'[o] = deletion[o]
  BY <1>1, OneIntent DEF Intents, HiddenStates
<1>4. IntentsQuiet
  BY <1>1, <1>2, <1>3 DEF IntentsQuiet, IntentType, IntentMoves
<1>5. HistoryQuiet
  BY <1>1, <1>2 DEF HistoryQuiet, HistoryType
<1>6. UNCHANGED <<remote, exec, worked, status, listing>>
  BY <1>1 DEF repoVars
<1>7. RowsQuiet /\ CacheQuiet /\ RestoreQuiet /\ TickQuiet /\ faults' \in 0..MaxFaults
  BY <1>1, <1>6, Still, FaultCounts
<1> QED
  BY <1>4, <1>5, <1>6, <1>7, QuietKeeps

-----------------------------------------------------------------------------
(* The cleanup tick.                                                         *)

\* The tick begins with the deletions whose runs have ended.
LEMMA TickStartKeeps ==
  ASSUME CatalogInv, TickStart
  PROVE  CatalogInv'
<1>1. /\ UNCHANGED <<repoVars, cacheVars, intentVars, scanRun, subject, awaited, restore,
                     historyVars, faults>>
      /\ tick' = "settle" /\ todo' \subseteq {s \in Snapshots : deletion[s] = "running"}
  BY DEF TickStart
<1>2. TickType
  BY CatalogTypes DEF CatalogInv
<1>3. TickQuiet
  BY <1>1, <1>2 DEF TickQuiet, TickType, HiddenStates
<1>4. UNCHANGED <<remote, exec, worked, status, listing>>
  BY <1>1 DEF repoVars
<1>5. RowsQuiet /\ CacheQuiet /\ IntentsQuiet /\ RestoreQuiet /\ HistoryQuiet /\ faults' \in 0..MaxFaults
  BY <1>1, <1>4, Still, FaultCounts
<1> QED
  BY <1>3, <1>4, <1>5, QuietKeeps

\* A forget run that succeeded has removed its snapshot.
LEMMA SettleSucceededKeeps ==
  ASSUME CatalogInv, NEW s \in Snapshots, SettleSucceeded(s)
  PROVE  CatalogInv'
<1>1. /\ UNCHANGED <<repoVars, cacheVars, aged, scanRun, tick, subject, awaited, restore,
                     historyVars, faults>>
      /\ tick = "settle" /\ s \in todo /\ status[ForgetRun(s)] = "succeeded"
      /\ deletion' = [deletion EXCEPT ![s] = "succeeded"] /\ todo' = todo \ {s}
  BY DEF SettleSucceeded
<1>2. TickType /\ IntentType
  BY CatalogTypes DEF CatalogInv
<1>3. /\ deletion' \in [Snapshots -> Intents]
      /\ deletion'[s] = "succeeded" /\ \A o \in Snapshots \ {s} : deletion'[o] = deletion[o]
  BY <1>1, OneIntent DEF Intents, HiddenStates
<1>4. s \notin remote /\ deletion[s] \in HiddenStates
  BY <1>1 DEF CatalogInv, GoneInv
<1>5. IntentsQuiet
  BY <1>1, <1>2, <1>3, <1>4 DEF IntentsQuiet, IntentType, IntentMoves
<1>6. TickQuiet
  BY <1>1, <1>2 DEF TickQuiet, TickType
<1>7. UNCHANGED <<remote, exec, worked, status, listing>>
  BY <1>1 DEF repoVars
<1>8. RowsQuiet /\ CacheQuiet /\ RestoreQuiet /\ HistoryQuiet /\ faults' \in 0..MaxFaults
  BY <1>1, <1>7, Still, FaultCounts
<1> QED
  BY <1>5, <1>6, <1>7, <1>8, QuietKeeps

\* One that failed is looked up in a list, a new one or one under way.
LEMMA SettleFailedKeeps ==
  ASSUME CatalogInv, NEW s \in Snapshots, NEW l \in Lists, SettleFailed(s, l)
  PROVE  CatalogInv'
<1>1. /\ UNCHANGED <<remote, exec, worked, cacheVars, intentVars, scanRun, restore, historyVars, faults>>
      /\ s \in todo /\ JoinOrCreate(l)
      /\ tick' = "await" /\ todo' = todo \ {s} /\ subject' = s /\ awaited' = l
  BY DEF SettleFailed
<1>2. TickType
  BY CatalogTypes DEF CatalogInv
<1>3. RowsQuiet /\ (listing'[l] # None => status[ListRun(l)] \in Active)
  BY <1>1, JoinQuiet
<1>4. TickQuiet
  BY <1>1, <1>2, <1>3 DEF TickQuiet, TickType
<1>5. CacheQuiet /\ IntentsQuiet /\ RestoreQuiet /\ HistoryQuiet /\ faults' \in 0..MaxFaults
  BY <1>1, Still, FaultCounts
<1> QED
  BY <1>1, <1>3, <1>4, <1>5, QuietKeeps

\* reconcileFailedDeletion: the list was taken when the snapshot could no
\* longer come back.
LEMMA ReconcileKeeps ==
  ASSUME CatalogInv, ReconcileDeletion
  PROVE  CatalogInv'
<1>1. /\ UNCHANGED <<remote, exec, worked, cacheVars, aged, scanRun, todo, restore, historyVars, faults>>
      /\ tick = "await" /\ status[ListRun(awaited)] \notin Active
      /\ deletion' = [deletion EXCEPT ![subject] = Reconciled(subject, awaited)]
      /\ DropList(awaited, {scanRun, flight.list})
      /\ tick' = "settle" /\ subject' = None /\ awaited' = None
  BY DEF ReconcileDeletion
<1>2. TickType /\ IntentType
  BY CatalogTypes DEF CatalogInv
<1>3. /\ awaited \in Lists /\ subject \in Snapshots /\ deletion[subject] \in HiddenStates
      /\ listing[awaited] # None /\ subject \in remote => subject \in listing[awaited]
  BY <1>1 DEF CatalogInv, GoneInv
<1>4. RowsQuiet
  BY <1>1, <1>3, DropQuiet
<1>5. \/ Reconciled(subject, awaited) \in {"running", "pending"}
      \/ Reconciled(subject, awaited) = "succeeded" /\ subject \notin remote
  BY <1>3 DEF Reconciled, Usable
<1>6. PICK v \in {"running", "pending", "succeeded"} : v = Reconciled(subject, awaited)
  BY <1>5
<1>7. /\ deletion' \in [Snapshots -> Intents]
      /\ deletion'[subject] = v /\ \A o \in Snapshots \ {subject} : deletion'[o] = deletion[o]
  BY <1>1, <1>3, <1>6, OneIntent DEF Intents, HiddenStates
<1>8. IntentsQuiet
  BY <1>1, <1>2, <1>3, <1>5, <1>6, <1>7 DEF IntentsQuiet, IntentType, IntentMoves
<1>9. TickQuiet
  BY <1>1, <1>2 DEF TickQuiet, TickType
<1>10. CacheQuiet /\ RestoreQuiet /\ HistoryQuiet /\ faults' \in 0..MaxFaults
  BY <1>1, Still, FaultCounts
<1> QED
  BY <1>1, <1>4, <1>8, <1>9, <1>10, QuietKeeps

\* The tick gives up, or has no scan to start.
LEMMA TickEndsKeeps ==
  ASSUME CatalogInv, ReconcileTimesOut \/ SkipCleanupScan
  PROVE  CatalogInv'
<1>1. /\ UNCHANGED <<repoVars, cacheVars, intentVars, scanRun, restore, historyVars>>
      /\ tick' = "idle" /\ todo' \in {todo, {}}
      /\ subject' \in {subject, None} /\ awaited' \in {awaited, None}
      /\ UNCHANGED faults \/ Fault("timeout")
  BY DEF ReconcileTimesOut, SkipCleanupScan
<1>2. TickType
  BY CatalogTypes DEF CatalogInv
<1>3. TickQuiet
  BY <1>1, <1>2 DEF TickQuiet, TickType
<1>4. UNCHANGED <<remote, exec, worked, status, listing>>
  BY <1>1 DEF repoVars
<1>5. RowsQuiet /\ CacheQuiet /\ IntentsQuiet /\ RestoreQuiet /\ HistoryQuiet /\ faults' \in 0..MaxFaults
  BY <1>1, <1>4, Still, FaultCounts
<1> QED
  BY <1>3, <1>4, <1>5, QuietKeeps

\* ClaimSnapshotDeletionRun.
LEMMA ClaimKeeps ==
  ASSUME CatalogInv, ClaimPendingDeletion
  PROVE  CatalogInv'
<1>1. /\ UNCHANGED <<remote, exec, worked, listing, cacheVars, aged, scanRun, todo, subject,
                     awaited, restore, historyVars, faults>>
      /\ tick' = "scan"
      /\ \/ \E s \in Snapshots : /\ deletion[s] = "pending" /\ exec # ForgetRun(s)
                                 /\ status' = [status EXCEPT ![ForgetRun(s)] = "queued"]
                                 /\ deletion' = [deletion EXCEPT ![s] = "running"]
         \/ UNCHANGED <<status, deletion>>
  BY DEF ClaimPendingDeletion, Claimable
<1>2. TickType /\ IntentType
  BY CatalogTypes DEF CatalogInv
<1>3. TickQuiet
  BY <1>1, <1>2 DEF TickQuiet, TickType
<1>4. RowsQuiet /\ IntentsQuiet
  <2>1. CASE UNCHANGED <<status, deletion>>
    BY <1>1, <2>1, Still DEF intentVars
  <2>2. ASSUME NEW s \in Snapshots, deletion[s] = "pending", exec # ForgetRun(s),
               status' = [status EXCEPT ![ForgetRun(s)] = "queued"],
               deletion' = [deletion EXCEPT ![s] = "running"]
        PROVE  RowsQuiet /\ IntentsQuiet
    <3>1. /\ deletion' \in [Snapshots -> Intents]
          /\ deletion'[s] = "running" /\ \A o \in Snapshots \ {s} : deletion'[o] = deletion[o]
      BY <2>2, OneIntent DEF Intents, HiddenStates
    <3>2. IntentsQuiet
      BY <1>1, <1>2, <2>2, <3>1 DEF IntentsQuiet, IntentType, IntentMoves, HiddenStates
    <3>3. ForgetRun(s) \in Keys /\ "queued" \in Statuses
      BY KeyFacts DEF Statuses, Active
    <3>4. /\ RowType' /\ status'[ForgetRun(s)] = "queued"
          /\ \A j \in Keys \ {ForgetRun(s)} : status'[j] = status[j]
      BY <1>1, <2>2, <3>3, OneRow
    <3>5. BackupRows
      BY <3>4, KeyFacts DEF BackupRows
    <3>6. ForgetRows
      BY <2>2, <3>4, KeyFacts DEF ForgetRows
    <3>7. ListRows
      BY <1>1, <3>4, KeyFacts DEF ListRows
    <3>8. NothingStarts
      BY <2>2, <3>4 DEF NothingStarts
    <3> QED
      BY <3>2, <3>4, <3>5, <3>6, <3>7, <3>8 DEF RowsQuiet
  <2> QED
    BY <1>1, <2>1, <2>2
<1>5. CacheQuiet /\ RestoreQuiet /\ HistoryQuiet /\ faults' \in 0..MaxFaults
  BY <1>1, Still, FaultCounts
<1> QED
  BY <1>1, <1>3, <1>4, <1>5, QuietKeeps

\* What a scan makes of one snapshot.
LEMMA ScanFact ==
  ASSUME CatalogInv, NEW l \in Lists, Usable(l), NEW s \in Snapshots,
         deletion'[s] = ScanOutcome(listing[l], s)
  PROVE  IntentMoves(s) /\ deletion'[s] \in Intents
<1>1. deletion[s] \in Intents
  BY CatalogTypes DEF CatalogInv, IntentType
<1>2. CASE s \in listing[l] /\ s \in Backups /\ status[BackupRun(s)] # "succeeded"
  <2>1. Found(s)
    BY <1>2 DEF Found, Usable
  <2>2. deletion'[s] = OrphanState(s)
    BY <1>2 DEF ScanOutcome
  <2> QED
    BY <1>1, <1>2, <2>1, <2>2 DEF OrphanState, IntentMoves, Intents, HiddenStates
<1>3. CASE ~(s \in listing[l] /\ s \in Backups /\ status[BackupRun(s)] # "succeeded")
  <2>1. deletion'[s] = deletion[s] \/ (deletion[s] = "candidate" /\ deletion'[s] = "none")
    BY <1>3 DEF ScanOutcome
  <2> QED
    BY <1>1, <2>1 DEF IntentMoves, Intents
<1> QED
  BY <1>2, <1>3

\* FinishSnapshotCleanupScan.
LEMMA ConsumeScanKeeps ==
  ASSUME CatalogInv, ConsumeCleanupScan
  PROVE  CatalogInv'
<1>1. TickType /\ IntentType
  BY CatalogTypes DEF CatalogInv
<1>2. PICK l \in Lists : l = scanRun
  BY <1>1 DEF ConsumeCleanupScan, TickType
<1>3. /\ UNCHANGED <<remote, exec, worked, cacheVars, todo, subject, awaited, restore, historyVars, faults>>
      /\ status[ListRun(l)] \notin Active /\ DropList(l, {flight.list, awaited})
      /\ tick' = "idle" /\ scanRun' = None
      /\ \/ /\ Usable(l)
            /\ deletion' = [s \in Snapshots |-> ScanOutcome(listing[l], s)]
            /\ aged' = {s \in aged : deletion'[s] = "candidate"}
         \/ UNCHANGED <<deletion, aged>>
  BY <1>2 DEF ConsumeCleanupScan
<1>4. RowsQuiet
  BY <1>3, DropQuiet
<1>5. TickQuiet
  BY <1>1, <1>3 DEF TickQuiet, TickType
<1>6. IntentsQuiet
  <2>1. CASE UNCHANGED <<deletion, aged>>
    BY <2>1, Still DEF intentVars
  <2>2. CASE /\ Usable(l)
             /\ deletion' = [s \in Snapshots |-> ScanOutcome(listing[l], s)]
             /\ aged' = {s \in aged : deletion'[s] = "candidate"}
    <3>1. \A s \in Snapshots : IntentMoves(s) /\ deletion'[s] \in Intents
      BY <2>2, ScanFact
    <3>2. deletion' \in [Snapshots -> Intents]
      BY <2>2, <3>1
    <3>3. aged' \subseteq aged
      BY <2>2
    <3> QED
      BY <1>1, <3>1, <3>2, <3>3 DEF IntentsQuiet, IntentType
  <2> QED
    BY <1>3, <2>1, <2>2
<1>7. CacheQuiet /\ RestoreQuiet /\ HistoryQuiet /\ faults' \in 0..MaxFaults
  BY <1>3, Still, FaultCounts
<1> QED
  BY <1>3, <1>4, <1>5, <1>6, <1>7, QuietKeeps

\* The next scan.
LEMMA StartScanKeeps ==
  ASSUME CatalogInv, NEW l \in Lists, StartCleanupScan(l)
  PROVE  CatalogInv'
<1>1. /\ UNCHANGED <<remote, exec, worked, cacheVars, intentVars, todo, subject, awaited, restore,
                     historyVars, faults>>
      /\ JoinOrCreate(l) /\ scanRun' = l /\ tick' = "idle"
  BY DEF StartCleanupScan
<1>2. TickType
  BY CatalogTypes DEF CatalogInv
<1>3. TickQuiet
  BY <1>1, <1>2 DEF TickQuiet, TickType
<1>4. RowsQuiet
  BY <1>1, JoinQuiet
<1>5. CacheQuiet /\ IntentsQuiet /\ RestoreQuiet /\ HistoryQuiet /\ faults' \in 0..MaxFaults
  BY <1>1, Still, FaultCounts
<1> QED
  BY <1>1, <1>3, <1>4, <1>5, QuietKeeps

\* A week passes when nothing runs: what is still a candidate has ended.
LEMMA WeekKeeps ==
  ASSUME CatalogInv, WeekPasses
  PROVE  CatalogInv'
<1>1. /\ UNCHANGED <<repoVars, cacheVars, deletion, scanRun, tickVars, restore, historyVars, faults>>
      /\ exec = None /\ \A k \in Keys : status[k] # "running"
      /\ aged' = {s \in Snapshots : deletion[s] = "candidate"}
  BY DEF WeekPasses
<1>2. IntentType
  BY CatalogTypes DEF CatalogInv
<1>3. IntentsQuiet
  BY <1>1, <1>2, KeyFacts DEF IntentsQuiet, IntentType, IntentMoves
<1>4. UNCHANGED <<remote, exec, worked, status, listing>>
  BY <1>1 DEF repoVars
<1>5. RowsQuiet /\ CacheQuiet /\ RestoreQuiet /\ TickQuiet /\ HistoryQuiet /\ faults' \in 0..MaxFaults
  BY <1>1, <1>4, Still, FaultCounts
<1> QED
  BY <1>3, <1>4, <1>5, QuietKeeps

-----------------------------------------------------------------------------
(* The restore.                                                              *)

\* The steps of a restore that leave the repository alone. Writing starts when
\* no row runs, and on the repository's own agent when that is idle.
LEMMA RestoreStepKeeps ==
  ASSUME CatalogInv, \/ CreateRestore \/ StartRestore \/ EndRestore \/ ResolveRestore
                     \/ \E s \in Backups : AuthorizeRestoreSnapshot(s)
  PROVE  CatalogInv'
<1>1. restore \in RestoreType /\ HeldBack
  BY CatalogTypes DEF CatalogInv, ExecInv
<1>2. UNCHANGED <<remote, restoreFrame>>
  BY DEF CreateRestore, StartRestore, EndRestore, ResolveRestore, AuthorizeRestoreSnapshot
<1>3. RestoreQuiet
  <2>1. ASSUME NEW ph \in {"authorised", "queued", "released"}, restore'.phase = ph,
               restore' \in RestoreType, restore.phase # "released"
        PROVE  RestoreQuiet
    BY <2>1 DEF RestoreQuiet
  <2>2. ASSUME NEW ph \in {"running", "manual"}, restore'.phase = ph, restore'.away = restore.away,
               restore' \in RestoreType, restore.phase # "released",
               restore.away \/ exec = None, \A k \in Keys : status[k] # "running"
        PROVE  RestoreQuiet
    BY <2>2 DEF RestoreQuiet
  <2>3. CASE \E s \in Backups : AuthorizeRestoreSnapshot(s)
    <3>1. PICK s \in Snapshots :
                 restore' = [restore EXCEPT !.phase = "authorised", !.source = s]
                 /\ restore.phase = "none"
      BY <2>3, KeyFacts DEF AuthorizeRestoreSnapshot
    <3>2. restore' \in RestoreType /\ restore'.phase = "authorised"
      BY <1>1, <3>1 DEF RestoreType
    <3> QED
      BY <2>1, <3>1, <3>2
  <2>4. CASE CreateRestore
    <3>1. PICK away \in BOOLEAN : restore' = [restore EXCEPT !.phase = "queued", !.away = away]
                                  /\ restore.phase = "authorised"
      BY <2>4 DEF CreateRestore
    <3>2. restore' \in RestoreType /\ restore'.phase = "queued"
      BY <1>1, <3>1 DEF RestoreType
    <3> QED
      BY <2>1, <3>1, <3>2
  <2>5. ASSUME NEW ph \in {"running", "manual", "released"},
               restore' = [restore EXCEPT !.phase = ph]
        PROVE  restore' \in RestoreType /\ restore'.phase = ph /\ restore'.away = restore.away
    BY <1>1, <2>5 DEF RestoreType
  <2>6. CASE StartRestore
    BY <2>2, <2>5, <2>6 DEF StartRestore
  <2>7. CASE EndRestore
    BY <1>1, <2>1, <2>2, <2>5, <2>7 DEF EndRestore, HeldBack
  <2>8. CASE ResolveRestore
    BY <2>1, <2>5, <2>8 DEF ResolveRestore
  <2> QED
    BY <2>3, <2>4, <2>6, <2>7, <2>8
<1>4. UNCHANGED <<remote, exec, worked, status, listing>>
  BY <1>2 DEF restoreFrame
<1>5. RowsQuiet /\ CacheQuiet /\ IntentsQuiet /\ TickQuiet /\ HistoryQuiet /\ faults' \in 0..MaxFaults
  BY <1>2, <1>4, Still, FaultCounts DEF restoreFrame
<1> QED
  BY <1>3, <1>4, <1>5, QuietKeeps

-----------------------------------------------------------------------------
(* Steps of the agent: they start, do or end the work of a run.              *)

\* What such a step must see to so that deletions stay true.
LEMMA BusyKeeps ==
  ASSUME CatalogInv, UNCHANGED <<intentVars, tickVars, restore>>, cache'.snaps = cache.snaps,
         \A s \in Backups : Past(s) => Past(s)' /\ (s \in remote' => s \in remote),
         \A s \in Backups : s \in remote' => Past(s)',
         restore.phase = "released" /\ Protection \in remote' => Protection \in remote,
         \A l \in Lists : listing'[l] = listing[l] \/ listing'[l] = None \/ listing'[l] = remote',
         \A s \in Snapshots :
           /\ status'[ForgetRun(s)] # "none" => status[ForgetRun(s)] # "none"
           /\ status'[ForgetRun(s)] = "succeeded" =>
                status[ForgetRun(s)] = "succeeded" \/ s \notin remote'
  PROVE  PastInv' /\ GoneInv'
<1>1. PastInv /\ GoneInv /\ UNCHANGED <<deletion, tick, todo, subject, awaited>>
  BY DEF CatalogInv, intentVars, tickVars
<1>2. \A s \in Snapshots : deletion[s] # "none" \/ status[ForgetRun(s)] # "none" =>
        (s \in remote' => s \in remote)
  BY <1>1, KeyFacts DEF PastInv
<1>3. PastInv'
  <2>1. \A s \in Backups : Found(s)' => Found(s) \/ s \in remote'
    BY DEF Found
  <2>2. ASSUME NEW s \in Backups,
               \/ s \in remote' \/ s \in cache'.snaps \/ Found(s)'
               \/ deletion'[s] # "none" \/ status'[ForgetRun(s)] # "none"
        PROVE  Past(s)'
    BY <1>1, <2>1, <2>2, KeyFacts DEF PastInv
  <2>3. deletion'[Protection] # "none" \/ status'[ForgetRun(Protection)] # "none"
          => restore'.phase = "released"
    BY <1>1, KeyFacts DEF PastInv
  <2> QED
    BY <2>2, <2>3 DEF PastInv
<1>4. GoneInv'
  <2>1. \A s \in Snapshots : status'[ForgetRun(s)] = "succeeded" => s \notin remote'
    BY <1>1, <1>2 DEF GoneInv
  <2>2. SucceededDeletionIsGone'
    BY <1>1, <1>2 DEF GoneInv, SucceededDeletionIsGone
  <2>3. ASSUME tick' = "await", listing'[awaited'] # None, subject' \in remote'
        PROVE  subject' \in listing'[awaited']
    <3>1. awaited \in Lists /\ subject \in Snapshots /\ deletion[subject] # "none"
      BY <1>1, <2>3 DEF GoneInv, HiddenStates
    <3>2. subject \in remote
      BY <1>1, <1>2, <2>3, <3>1
    <3> QED
      BY <1>1, <2>3, <3>1, <3>2 DEF GoneInv
  <2> QED
    BY <1>1, <2>1, <2>2, <2>3 DEF GoneInv
<1> QED
  BY <1>3, <1>4

\* The dispatcher sends a queued run to the idle agent.
LEMMA StartRunKeeps ==
  ASSUME CatalogInv, NEW k \in Keys, StartRun(k)
  PROVE  CatalogInv'
<1>1. /\ UNCHANGED <<remote, listing, cacheVars, intentVars, scanRun, tickVars, restore,
                     historyVars, faults>>
      /\ status[k] = "queued" /\ exec = None /\ exec' = k /\ worked' = FALSE
      /\ restore.phase \notin {"running", "manual"}
      /\ status' = [status EXCEPT ![k] = "running"]
  BY DEF StartRun, Unresolved, AgentFree
<1>2. CatalogTypeOK /\ ExecInv /\ ListInv /\ PastInv
  BY DEF CatalogInv
<1>3. /\ RowType /\ IntentType /\ CacheType /\ TickType /\ ExecType /\ HistoryType
      /\ restore \in RestoreType /\ faults \in 0..MaxFaults
  BY <1>2, CatalogTypes
<1>4. RowType' /\ status'[k] = "running" /\ \A j \in Keys \ {k} : status'[j] = status[j]
  BY <1>1, OneRow DEF Statuses, Active
<1>5. CatalogTypeOK'
  <2>1. ExecType' /\ restore' \in RestoreType /\ faults' \in 0..MaxFaults
    BY <1>1, <1>3 DEF ExecType
  <2>2. IntentType' /\ CacheType' /\ TickType' /\ HistoryType'
    BY <1>1, <1>3 DEF IntentType, CacheType, TickType, HistoryType, intentVars, cacheVars,
       tickVars, historyVars
  <2> QED
    BY <1>4, <2>1, <2>2, CatalogTypesPrimed
<1>6. ExecInv'
  BY <1>1, <1>4, KeyFacts DEF ExecInv, HeldBack
<1>7. ListInv'
  BY <1>1, <1>2, <1>4, KeyFacts DEF ListInv, Active
<1>8. \A s \in Backups : Past(s) => Past(s)'
  BY <1>1, <1>4, KeyFacts DEF Past
<1>9. \A s \in Backups : s \in remote' => Past(s)'
  BY <1>1, <1>2, <1>8 DEF PastInv
<1>10. \A s \in Snapshots :
          /\ status'[ForgetRun(s)] # "none" => status[ForgetRun(s)] # "none"
          /\ status'[ForgetRun(s)] = "succeeded" => status[ForgetRun(s)] = "succeeded"
  BY <1>1, <1>4, KeyFacts
<1>11. cache' = cache
  BY <1>1 DEF cacheVars
<1>12. PastInv' /\ GoneInv'
  BY <1>1, <1>8, <1>9, <1>10, <1>11, BusyKeeps
<1>13. ASSUME GoodInv PROVE GoodInv'
  <2>1. \A s \in Backups : /\ Dead(s) => Dead(s)'
                           /\ status[BackupRun(s)] = "succeeded" => status'[BackupRun(s)] = "succeeded"
                           /\ status'[BackupRun(s)] = "pruned" => status[BackupRun(s)] = "pruned"
    BY <1>1, <1>4, KeyFacts DEF Dead
  <2>2. UNCHANGED <<good, wanted, deletion, aged>> /\ good \subseteq Backups
    BY <1>1, <1>3 DEF historyVars, intentVars, HistoryType
  <2> QED
    BY <1>1, <1>10, <1>13, <2>1, <2>2, KeyFacts DEF GoodInv, BackedUpSnapshotsSurvive
<1> QED
  BY <1>5, <1>6, <1>7, <1>12, <1>13 DEF CatalogInv

\* The parts that the agent's own steps leave alone.
LEMMA BusyTypes ==
  ASSUME CatalogInv, UNCHANGED <<intentVars, scanRun, tickVars, restore>>
  PROVE  IntentType' /\ TickType' /\ restore' \in RestoreType
<1>1. IntentType /\ TickType /\ restore \in RestoreType
  BY CatalogTypes DEF CatalogInv
<1> QED
  BY <1>1 DEF IntentType, TickType, intentVars, tickVars

\* restic has its effect. One lemma for the invariant's parts that do not
\* depend on which.
LEMMA DoWorkFacts ==
  ASSUME CatalogInv, DoWork
  PROVE  /\ UNCHANGED <<status, exec, cacheVars, intentVars, scanRun, tickVars, restore, good, faults>>
         /\ exec # None /\ ~worked /\ worked' = TRUE /\ WorkEffect
         /\ \A s \in Backups : Past(s) => Past(s)'
         /\ \A l \in Lists : status[ListRun(l)] \in Active => listing[l] = None
<1>1. /\ UNCHANGED <<status, exec, cacheVars, intentVars, scanRun, tickVars, restore, good, faults>>
      /\ exec # None /\ ~worked /\ worked' = TRUE /\ WorkEffect
  BY DEF DoWork
<1>2. \A s \in Backups : Past(s) => Past(s)'
  BY <1>1 DEF Past
<1>3. \A l \in Lists : status[ListRun(l)] \in Active => listing[l] = None
  BY <1>1 DEF CatalogInv, ListInv
<1> QED
  BY <1>1, <1>2, <1>3

\* The agent works.
LEMMA DoWorkKeeps ==
  ASSUME CatalogInv, DoWork
  PROVE  CatalogInv'
<1>1. /\ UNCHANGED <<status, exec, cacheVars, intentVars, scanRun, tickVars, restore, good, faults>>
      /\ exec # None /\ ~worked /\ worked' = TRUE
      /\ \A s \in Backups : Past(s) => Past(s)'
      /\ \A l \in Lists : status[ListRun(l)] \in Active => listing[l] = None
  BY DoWorkFacts
<1>2. CatalogTypeOK /\ ExecInv /\ ListInv /\ PastInv /\ GoneInv
  BY DEF CatalogInv
<1>3. /\ RowType /\ CacheType /\ ExecType /\ HistoryType /\ faults \in 0..MaxFaults
  BY <1>2, CatalogTypes
<1>4. IntentType' /\ TickType' /\ restore' \in RestoreType /\ CacheType' /\ faults' \in 0..MaxFaults
      /\ cache' = cache
  BY <1>1, <1>3, BusyTypes DEF CacheType, cacheVars
<1>5. ASSUME remote' \subseteq Snapshots, listing' \in [Lists -> (SUBSET Snapshots) \cup {None}],
             wanted' \subseteq Snapshots
      PROVE  CatalogTypeOK'
  <2>1. RowType' /\ ExecType' /\ HistoryType'
    BY <1>1, <1>3, <1>5 DEF RowType, ExecType, HistoryType
  <2> QED
    BY <1>4, <2>1, CatalogTypesPrimed
<1>6. ASSUME \A s \in Backups : s \in remote' => s \in remote \/ (exec = BackupRun(s) /\ Past(s)'),
             Protection \in remote' => Protection \in remote,
             \A l \in Lists : listing'[l] = listing[l] \/ listing'[l] = remote'
      PROVE  PastInv' /\ GoneInv'
  <2>1. \A s \in Backups : Past(s) => (s \in remote' => s \in remote)
    BY <1>1, <1>6 DEF Past
  <2>2. \A s \in Backups : s \in remote' => Past(s)'
    BY <1>1, <1>2, <1>6 DEF PastInv
  <2>3. cache'.snaps = cache.snaps /\ status' = status
    BY <1>1, <1>4
  <2> QED
    BY <1>1, <1>6, <2>1, <2>2, <2>3, BusyKeeps
<1>7. ASSUME wanted \subseteq wanted', good \subseteq remote' \cup wanted', GoodInv
      PROVE  GoodInv'
  <2>1. \A s \in Backups : Dead(s) => Dead(s)'
    BY <1>1 DEF Dead
  <2> QED
    BY <1>1, <1>7, <2>1 DEF GoodInv, BackedUpSnapshotsSurvive, intentVars
<1>8. ASSUME NEW s \in Backups, exec = BackupRun(s), remote' = remote \cup {s},
             UNCHANGED <<listing, wanted>>
      PROVE  CatalogInv'
  <2>1. CatalogTypeOK'
    BY <1>3, <1>5, <1>8, KeyFacts DEF RowType, ExecType, HistoryType
  <2>2. ExecInv'
    BY <1>1, <1>2, <1>8, KeyFacts DEF ExecInv, HeldBack
  <2>3. ListInv'
    BY <1>1, <1>8 DEF ListInv
  <2>4. Past(s)'
    BY <1>1, <1>2, <1>8 DEF Past, ExecInv
  <2>5. PastInv' /\ GoneInv'
    BY <1>6, <1>8, <2>4, KeyFacts
  <2>6. GoodInv => GoodInv'
    BY <1>7, <1>8 DEF GoodInv, BackedUpSnapshotsSurvive
  <2> QED
    BY <2>1, <2>2, <2>3, <2>5, <2>6 DEF CatalogInv
<1>9. ASSUME NEW s \in Snapshots, exec = ForgetRun(s), remote' = remote \ {s},
             UNCHANGED <<listing, wanted>>
      PROVE  CatalogInv'
  <2>1. CatalogTypeOK'
    BY <1>3, <1>5, <1>9 DEF RowType, ExecType, HistoryType
  <2>2. ExecInv'
    BY <1>1, <1>2, <1>9, KeyFacts DEF ExecInv, HeldBack
  <2>3. ListInv'
    BY <1>1, <1>9 DEF ListInv
  <2>4. PastInv' /\ GoneInv'
    BY <1>6, <1>9
  <2>5. ASSUME GoodInv PROVE GoodInv'
    <3>1. s \in good => s \in wanted
      BY <1>2, <1>3, <1>9, <2>5 DEF GoodInv, ExecInv, Dead, HistoryType
    <3> QED
      BY <1>7, <1>9, <2>5, <3>1 DEF GoodInv, BackedUpSnapshotsSurvive
  <2> QED
    BY <2>1, <2>2, <2>3, <2>4, <2>5 DEF CatalogInv
<1>10. ASSUME NEW gone \in SUBSET (remote \cap Backups), exec \in {RetentionRun, PurgeRun},
              remote' = remote \ gone, wanted' = wanted \cup gone, UNCHANGED listing
       PROVE  CatalogInv'
  <2>1. CatalogTypeOK'
    BY <1>3, <1>5, <1>10, KeyFacts DEF RowType, ExecType, HistoryType
  <2>2. ExecInv'
    BY <1>1, <1>2, <1>10, KeyFacts DEF ExecInv, HeldBack
  <2>3. ListInv'
    BY <1>1, <1>10 DEF ListInv
  <2>4. PastInv' /\ GoneInv'
    BY <1>6, <1>10
  <2>5. GoodInv => GoodInv'
    BY <1>7, <1>10 DEF GoodInv, BackedUpSnapshotsSurvive
  <2> QED
    BY <2>1, <2>2, <2>3, <2>4, <2>5 DEF CatalogInv
<1>11. ASSUME NEW l \in Lists, exec = ListRun(l), listing' = [listing EXCEPT ![l] = remote],
              UNCHANGED <<remote, wanted>>
       PROVE  CatalogInv'
  <2>1. listing'[l] = remote /\ \A i \in Lists \ {l} : listing'[i] = listing[i]
    BY <1>3, <1>11 DEF RowType
  <2>2. CatalogTypeOK'
    BY <1>3, <1>5, <1>11 DEF RowType, ExecType, HistoryType
  <2>3. ExecInv'
    BY <1>1, <1>2, <1>11, <2>1, KeyFacts DEF ExecInv, HeldBack
  <2>4. ListInv'
    BY <1>1, <1>11, <2>1 DEF ListInv
  <2>5. PastInv' /\ GoneInv'
    BY <1>6, <1>11, <2>1
  <2>6. GoodInv => GoodInv'
    BY <1>7, <1>11 DEF GoodInv, BackedUpSnapshotsSurvive
  <2> QED
    BY <2>2, <2>3, <2>4, <2>5, <2>6 DEF CatalogInv
<1>12. WorkEffect
  BY DoWorkFacts
<1> QED
  BY <1>8, <1>9, <1>10, <1>11, <1>12 DEF WorkEffect

\* The agent is done with its run: what its row may become.
LEMMA EndKeeps ==
  ASSUME CatalogInv, UNCHANGED <<remote, intentVars, scanRun, tickVars, restore, wanted>>,
         NEW k \in Keys, exec = k, exec' = None, worked' = FALSE,
         RowType', CacheType', cache'.snaps = cache.snaps, faults' \in 0..MaxFaults,
         \A j \in Keys \ {k} : status'[j] = status[j],
         \A l \in Lists : listing'[l] = listing[l] \/ listing'[l] = None,
         \A l \in Lists : k = ListRun(l) => status'[k] \notin Active \/ listing'[l] = None,
         \/ status'[k] = status[k]
         \/ status'[k] = AtEnd(k, "failed")
         \/ worked /\ status'[k] = AtEnd(k, "succeeded"),
         good' = good \cup {s \in Backups : /\ worked /\ k = BackupRun(s)
                                            /\ status'[k] = "succeeded"}
  PROVE  CatalogInv'
<1>1. CatalogTypeOK /\ ExecInv /\ ListInv /\ PastInv
  BY DEF CatalogInv
<1>2. ExecType /\ HistoryType
  BY <1>1, CatalogTypes
<1>3. CatalogTypeOK'
  <2>1. ExecType' /\ HistoryType'
    BY <1>2 DEF ExecType, HistoryType
  <2>2. IntentType' /\ TickType' /\ restore' \in RestoreType
    BY BusyTypes
  <2> QED
    BY <2>1, <2>2, CatalogTypesPrimed
<1>4. ExecInv'
  <2>1. status'[k] = status[k] \/ status'[k] # "running"
    BY AtEndFact
  <2>2. HeldBack'
    BY <1>1, <2>1 DEF ExecInv, HeldBack
  <2> QED
    BY <2>2, KeyFacts DEF ExecInv
<1>5. ListInv'
  BY <1>1, KeyFacts DEF ListInv
<1>6. ASSUME NEW s \in Backups
      PROVE  /\ k = BackupRun(s) =>
                  \/ status'[k] = status[k] \/ status'[k] = "failed"
                  \/ worked /\ status'[k] = "succeeded"
             /\ k # BackupRun(s) => status'[BackupRun(s)] = status[BackupRun(s)]
  BY AtEndFact, KeyFacts
<1>7. \A s \in Backups : Past(s) => Past(s)'
  BY <1>6, KeyFacts DEF Past
<1>8. ASSUME NEW s \in Snapshots
      PROVE  /\ status'[ForgetRun(s)] # "none" => status[ForgetRun(s)] # "none"
             /\ status'[ForgetRun(s)] = "succeeded" =>
                  status[ForgetRun(s)] = "succeeded" \/ s \notin remote'
  <2>1. CASE k = ForgetRun(s)
    <3>1. status[k] # "none" /\ (worked => s \notin remote)
      BY <1>1, <2>1 DEF ExecInv
    <3>2. AtEnd(k, "failed") = "failed"
      BY <2>1, AtEndFact
    <3> QED
      BY <2>1, <3>1, <3>2
  <2>2. CASE k # ForgetRun(s)
    BY <2>2, KeyFacts
  <2> QED
    BY <2>1, <2>2
<1>9. \A s \in Backups : s \in remote' => Past(s)'
  BY <1>1, <1>7 DEF PastInv
<1>10. PastInv' /\ GoneInv'
  BY <1>7, <1>8, <1>9, BusyKeeps
<1>11. ASSUME GoodInv PROVE GoodInv'
  <2>1. UNCHANGED <<deletion, aged>> /\ good \subseteq Backups
    BY <1>2 DEF intentVars, HistoryType
  <2>2. \A s \in Backups : /\ Dead(s) => Dead(s)'
                           /\ status[BackupRun(s)] = "succeeded" => status'[BackupRun(s)] = "succeeded"
    BY <1>1, <1>6, KeyFacts DEF Dead, ExecInv
  <2>3. \A s \in Backups : status'[BackupRun(s)] # "pruned"
    BY <1>6, <1>11 DEF GoodInv
  <2>4. \A s \in good' : status'[BackupRun(s)] = "succeeded"
    BY <1>11, <2>1, <2>2 DEF GoodInv
  <2>5. \A s \in good' : s \in remote' \cup wanted'
    BY <1>1, <1>11 DEF GoodInv, BackedUpSnapshotsSurvive, ExecInv
  <2>6. \A s \in Backups : deletion'[s] \in HiddenStates \/ status'[ForgetRun(s)] # "none"
          => s \in wanted' \/ Dead(s)'
    BY <1>8, <1>11, <2>1, <2>2, KeyFacts DEF GoodInv
  <2>7. \A s \in aged' \cap Backups : status'[BackupRun(s)] = "succeeded" \/ Dead(s)'
    BY <1>11, <2>1, <2>2 DEF GoodInv
  <2> QED
    BY <2>3, <2>4, <2>5, <2>6, <2>7 DEF GoodInv, BackedUpSnapshotsSurvive
<1> QED
  BY <1>3, <1>4, <1>5, <1>10, <1>11 DEF CatalogInv

\* A command that fails, and an answer that is lost.
LEMMA WorkFailsKeeps ==
  ASSUME CatalogInv, WorkFails
  PROVE  CatalogInv'
<1>1. RowType /\ CacheType /\ ExecType /\ HistoryType
  BY CatalogTypes DEF CatalogInv
<1>2. PICK k \in Keys : exec = k
  BY <1>1 DEF WorkFails, ExecType
<1>3. /\ UNCHANGED <<remote, worked, listing, cacheVars, intentVars, scanRun, tickVars, restore,
                     historyVars>>
      /\ ~worked /\ Fault("failure") /\ exec' = None
      /\ status' = [status EXCEPT ![k] = IF status[k] = "running" THEN AtEnd(k, "failed") ELSE status[k]]
  BY <1>2 DEF WorkFails
<1>4. PICK w \in Statuses : /\ w = IF status[k] = "running" THEN AtEnd(k, "failed") ELSE status[k]
  BY <1>1, AtEndFact DEF RowType, Statuses, Ended
<1>5. status' = [status EXCEPT ![k] = w]
  BY <1>3, <1>4
<1>6. RowType' /\ status'[k] = w /\ \A j \in Keys \ {k} : status'[j] = status[j]
  BY <1>3, <1>5, OneRow
<1>7. faults' \in 0..MaxFaults
  BY <1>3, FaultCounts
<1>8. CacheType' /\ cache'.snaps = cache.snaps /\ worked' = FALSE /\ UNCHANGED wanted
  BY <1>1, <1>3 DEF CacheType, ExecType, cacheVars, historyVars
<1>9. \A l \in Lists : k = ListRun(l) => status'[k] \notin Active \/ listing'[l] = None
  <2>1. \A l \in Lists : k = ListRun(l) /\ status[k] \in Active => listing[l] = None
    BY <1>3 DEF CatalogInv, ListInv
  <2>2. AtEnd(k, "failed") \notin Active
    BY AtEndFact DEF Active
  <2> QED
    BY <1>3, <1>4, <1>6, <2>1, <2>2
<1>10. good' = good \cup {s \in Backups : worked /\ k = BackupRun(s) /\ status'[k] = "succeeded"}
  BY <1>3 DEF historyVars
<1> QED
  BY <1>2, <1>3, <1>4, <1>6, <1>7, <1>8, <1>9, <1>10, EndKeeps

\* The agent restarted: the row stays as it is.
LEMMA LoseAnswerKeeps ==
  ASSUME CatalogInv, LoseAnswer
  PROVE  CatalogInv'
<1>1. RowType /\ CacheType /\ ExecType /\ HistoryType
  BY CatalogTypes DEF CatalogInv
<1>2. PICK k \in Keys : exec = k
  BY <1>1 DEF LoseAnswer, ExecType
<1>3. /\ UNCHANGED <<remote, status, cacheVars, intentVars, scanRun, tickVars, restore, historyVars>>
      /\ Fault("lost") /\ exec' = None /\ worked' = FALSE
      /\ listing' = [l \in Lists |-> IF k = ListRun(l) THEN None ELSE listing[l]]
  BY <1>2 DEF LoseAnswer
<1>4. RowType' /\ \A l \in Lists : listing'[l] = IF k = ListRun(l) THEN None ELSE listing[l]
  BY <1>1, <1>3 DEF RowType
<1>5. faults' \in 0..MaxFaults
  BY <1>3, FaultCounts
<1>6. CacheType' /\ cache'.snaps = cache.snaps /\ UNCHANGED <<good, wanted>>
  BY <1>1, <1>3 DEF CacheType, cacheVars, historyVars
<1>7. {s \in Backups : worked /\ k = BackupRun(s) /\ status'[k] = "succeeded"} = {}
  BY <1>2, <1>3 DEF CatalogInv, ExecInv
<1> QED
  BY <1>2, <1>3, <1>4, <1>5, <1>6, <1>7, EndKeeps

\* handleRunResult.
LEMMA ReportSuccessKeeps ==
  ASSUME CatalogInv, ReportSuccess
  PROVE  CatalogInv'
<1>1. RowType /\ CacheType /\ ExecType /\ HistoryType /\ faults \in 0..MaxFaults
  BY CatalogTypes DEF CatalogInv
<1>2. PICK k \in Keys : exec = k
  BY <1>1 DEF ReportSuccess, ExecType
<1> DEFINE accepted == status[k] \in {"running", "cancelled"}
<1>3. /\ UNCHANGED <<remote, browses, intentVars, scanRun, tickVars, restore, wanted, faults>>
      /\ worked /\ exec' = None /\ worked' = FALSE
      /\ status' = [status EXCEPT ![k] = IF accepted THEN AtEnd(k, "succeeded") ELSE status[k]]
      /\ listing' = [l \in Lists |-> IF k = ListRun(l) /\ ~accepted THEN None ELSE listing[l]]
      /\ good' = good \cup {s \in Backups : accepted /\ k = BackupRun(s)}
      /\ InvalidateCache \/ UNCHANGED <<cache, flight>>
  BY <1>2 DEF ReportSuccess
<1>4. PICK w \in Statuses : w = IF accepted THEN AtEnd(k, "succeeded") ELSE status[k]
  BY <1>1, AtEndFact DEF RowType, Statuses, Ended
<1>5. status' = [status EXCEPT ![k] = w]
  BY <1>3, <1>4
<1>6. /\ status'[k] = w /\ \A j \in Keys \ {k} : status'[j] = status[j]
      /\ \A l \in Lists : listing'[l] = IF k = ListRun(l) /\ ~accepted THEN None ELSE listing[l]
  BY <1>1, <1>3, <1>5 DEF RowType
<1>7. RowType'
  BY <1>1, <1>3, <1>5 DEF RowType
<1>8. CacheType' /\ cache'.snaps = cache.snaps
  BY <1>1, <1>3 DEF CacheType, InvalidateCache
<1>9. \A l \in Lists : k = ListRun(l) => status'[k] \notin Active \/ listing'[l] = None
  <2>1. AtEnd(k, "succeeded") \notin Active
    BY AtEndFact DEF Active
  <2> QED
    BY <1>4, <1>6, <2>1
<1>10. \A s \in Backups : k = BackupRun(s) => (accepted <=> status'[k] = "succeeded")
  <2>1. \A s \in Backups : k = BackupRun(s) => status[k] \in {"running", "failed", "cancelled"}
    BY <1>2 DEF CatalogInv, ExecInv
  <2>2. \A s \in Backups : k = BackupRun(s) => AtEnd(k, "succeeded") = "succeeded"
    BY AtEndFact
  <2> QED
    BY <1>4, <1>6, <2>1, <2>2
<1>11. good' = good \cup {s \in Backups : worked /\ k = BackupRun(s) /\ status'[k] = "succeeded"}
  BY <1>3, <1>10
<1>12. /\ status'[k] = status[k] \/ (worked /\ status'[k] = AtEnd(k, "succeeded"))
       /\ \A l \in Lists : listing'[l] = listing[l] \/ listing'[l] = None
       /\ faults' \in 0..MaxFaults
  BY <1>1, <1>3, <1>4, <1>6
<1> QED
  BY <1>2, <1>3, <1>6, <1>7, <1>8, <1>9, <1>11, <1>12, EndKeeps

\* protectionBackup adds a snapshot that nothing refers to yet.
LEMMA ProtectionKeeps ==
  ASSUME CatalogInv, ProtectionBackup
  PROVE  CatalogInv'
<1>1. /\ UNCHANGED <<restore, restoreFrame>> /\ restore.phase = "running"
      /\ remote' = remote \cup {Protection}
  BY DEF ProtectionBackup
<1>2. /\ UNCHANGED <<status, exec, worked, listing, cacheVars, intentVars, scanRun, tickVars,
                     historyVars, faults>>
  BY <1>1 DEF restoreFrame
<1>3. CatalogTypeOK /\ ExecInv /\ ListInv /\ PastInv
  BY DEF CatalogInv
<1>4. CatalogTypeOK'
  <2>1. RowType /\ CacheType /\ ExecType /\ HistoryType /\ faults \in 0..MaxFaults
    BY <1>3, CatalogTypes
  <2>2. RowType' /\ CacheType' /\ HistoryType' /\ faults' \in 0..MaxFaults
    BY <1>2, <2>1 DEF RowType, CacheType, HistoryType, cacheVars, historyVars
  <2>3. ExecType'
    BY <1>1, <1>2, <2>1, KeyFacts DEF ExecType
  <2>4. IntentType' /\ TickType' /\ restore' \in RestoreType
    BY <1>1, <1>2, BusyTypes
  <2> QED
    BY <2>2, <2>3, <2>4, CatalogTypesPrimed
<1>5. ExecInv'
  <2>1. HeldBack /\ HeldBack'
    BY <1>1, <1>2, <1>3 DEF ExecInv, HeldBack
  <2>2. exec # ForgetRun(Protection)
    BY <1>1, <1>3, KeyFacts DEF ExecInv, PastInv
  <2>3. \A s \in Snapshots : exec' = ForgetRun(s) =>
          status'[ForgetRun(s)] # "none" /\ (worked' => s \notin remote')
    BY <1>1, <1>2, <1>3, <2>2 DEF ExecInv
  <2>4. \A l \in Lists : exec' = ListRun(l) /\ worked' /\ listing'[l] # None =>
          \A s \in remote' : s \in listing'[l] \/ (s = Protection /\ status'[ListRun(l)] # "running")
    BY <1>1, <1>2, <1>3, <2>1, KeyFacts DEF ExecInv, HeldBack
  <2>5. \A s \in Backups : exec' = BackupRun(s) =>
          /\ status'[BackupRun(s)] \in {"running", "failed", "cancelled"}
          /\ worked' => s \in remote'
    BY <1>1, <1>2, <1>3 DEF ExecInv
  <2> QED
    BY <1>2, <1>3, <2>1, <2>3, <2>4, <2>5 DEF ExecInv
<1>6. ListInv'
  BY <1>2, <1>3 DEF ListInv
<1>7. \A s \in Backups : (Past(s) => Past(s)') /\ (s \in remote' => s \in remote)
  BY <1>1, <1>2, KeyFacts DEF Past
<1>8. \A s \in Backups : s \in remote' => Past(s)'
  BY <1>3, <1>7 DEF PastInv
<1>9. PastInv' /\ GoneInv'
  <2>1. cache'.snaps = cache.snaps
    BY <1>2 DEF cacheVars
  <2> QED
    BY <1>1, <1>2, <1>7, <1>8, <2>1, BusyKeeps
<1>10. GoodInv => GoodInv'
  <2>1. UNCHANGED <<good, wanted, deletion, aged, status, exec>> /\ remote \subseteq remote'
    BY <1>1, <1>2 DEF historyVars, intentVars
  <2> QED
    BY <2>1 DEF GoodInv, Dead, BackedUpSnapshotsSurvive
<1> QED
  BY <1>4, <1>5, <1>6, <1>9, <1>10 DEF CatalogInv

-----------------------------------------------------------------------------
(* The theorems.                                                             *)

\* A step keeps the invariant.
LEMMA CatalogStep == CatalogInv /\ [CatalogNext]_vars => CatalogInv'
<1> SUFFICES ASSUME CatalogInv, [CatalogNext]_vars PROVE CatalogInv'
  OBVIOUS
<1>1. CASE UNCHANGED vars
  <2>1. /\ UNCHANGED <<remote, exec, worked, status, listing, cacheVars, intentVars, scanRun,
                       tickVars, restore, historyVars, faults>>
    BY <1>1 DEF vars, repoVars
  <2>2. /\ RowsQuiet /\ CacheQuiet /\ IntentsQuiet /\ RestoreQuiet /\ TickQuiet /\ HistoryQuiet
        /\ faults' \in 0..MaxFaults
    BY <2>1, Still, FaultCounts
  <2> QED
    BY <2>1, <2>2, QuietKeeps
<1>2. CASE ExecutionNext
  BY <1>2, StartRunKeeps, TimeOutKeeps, PruneKeeps, LeaveWindowKeeps, DoWorkKeeps, WorkFailsKeeps,
     ReportSuccessKeeps, LoseAnswerKeeps DEF ExecutionNext
<1>3. CASE RequestNext
  <2>1. ASSUME NEW s \in Backups, CreateBackup(s) PROVE CatalogInv'
    BY <2>1, CreateKeeps, KeyFacts DEF CreateBackup
  <2>2. CASE StartRetentionRun \/ DeletePlanBackups
    BY <2>2, CreateKeeps, KeyFacts DEF StartRetentionRun, DeletePlanBackups
  <2> QED
    BY <1>3, <2>1, <2>2, RestoreStepKeeps, QueueKeeps, BrowseStartKeeps, BrowseFinishKeeps,
       BrowseGivesUpKeeps DEF RequestNext
<1>4. CASE TickNext
  BY <1>4, SettleSucceededKeeps, SettleFailedKeeps, StartScanKeeps, TickStartKeeps, ReconcileKeeps,
     TickEndsKeeps, ClaimKeeps, ConsumeScanKeeps DEF TickNext
<1>5. CASE RestoreNext
  BY <1>5, RestoreStepKeeps, ProtectionKeeps DEF RestoreNext
<1>6. CASE WeekPasses
  BY <1>6, WeekKeeps
<1> QED
  BY <1>1, <1>2, <1>3, <1>4, <1>5, <1>6 DEF CatalogNext

\* The invariant holds throughout.
LEMMA CatalogInvariant == CatalogSpec => []CatalogInv
  BY CatalogInitInv, CatalogStep, PTL DEF CatalogSpec

\* Rows, results, cache, intents, the tick and the restore keep their types.
THEOREM CatalogTypeCorrect == CatalogSpec => []CatalogTypeOK
<1>1. CatalogInv => CatalogTypeOK
  BY DEF CatalogInv
<1> QED
  BY <1>1, CatalogInvariant, PTL

\* reconcileFailedDeletion and the settlement of forget runs: whatever fails,
\* times out, is cancelled or loses its answer, a deletion marked succeeded is
\* of a snapshot that is gone, and stays gone.
THEOREM SucceededDeletionsAreGone == CatalogSpec => []SucceededDeletionIsGone
<1>1. CatalogInv => SucceededDeletionIsGone
  BY DEF CatalogInv, GoneInv
<1> QED
  BY <1>1, CatalogInvariant, PTL

\* FinishSnapshotCleanupScan, as long as the history limit does not reach rows
\* of succeeded backups: no snapshot of a succeeded backup is lost to the
\* orphan scan, only to a user, to retention or to a purge.
THEOREM GoodBackupsSurvive ==
  ASSUME "backup" \notin Prunable
  PROVE  CatalogSpec => []BackedUpSnapshotsSurvive
<1>1. CatalogInv => BackedUpSnapshotsSurvive
  BY DEF CatalogInv, GoodInv
<1> QED
  BY <1>1, CatalogInvariant, PTL

\* RepositoryRestoreBlocked: while a restore writes or waits for an operator,
\* no step removes anything from the repository, but for the one run that a
\* restore on another agent does not wait for, a run whose row had ended and
\* that the repository's agent still executes; and no step at all removes the
\* protection snapshot.
THEOREM RestoresKeepSnapshots == CatalogSpec => RestoreSnapshotsSurvive
<1> DEFINE Kept == /\ remote \subseteq remote' \/ Straggler
                   /\ Protection \in remote => Protection \in remote'
<1>1. CatalogInv /\ [CatalogNext]_vars => [restore.phase \in {"running", "manual"} => Kept]_vars
  <2> SUFFICES ASSUME CatalogInv, CatalogNext, restore.phase \in {"running", "manual"}
               PROVE  Kept
    OBVIOUS
  <2>1. ASSUME remote \subseteq remote' PROVE Kept
    BY <2>1
  <2>2. CASE ExecutionNext
    <3>1. CASE \/ \E k \in Keys : StartRun(k) \/ TimeOut(k) \/ CancelRun(k) \/ PruneHistory(k)
               \/ \E s \in Snapshots : LeaveWindow(s)
               \/ WorkFails \/ ReportSuccess \/ LoseAnswer
      <4>1. remote' = remote
        BY <3>1, Zenon DEF StartRun, TimeOut, CancelRun, PruneHistory, LeaveWindow, WorkFails,
           ReportSuccess, LoseAnswer
      <4> QED
        BY <2>1, <4>1
    <3>2. CASE DoWork
      <4>1. exec \in Keys /\ WorkEffect
        BY <3>2, CatalogTypes DEF DoWork, CatalogInv, ExecType
      <4>2. Straggler
        BY <3>2, <4>1 DEF DoWork, CatalogInv, ExecInv, HeldBack, Straggler
      <4>3. exec # ForgetRun(Protection)
        BY KeyFacts DEF CatalogInv, ExecInv, PastInv
      <4>4. Protection \in remote => Protection \in remote'
        BY <4>1, <4>3, KeyFacts DEF WorkEffect
      <4> QED
        BY <4>2, <4>4
    <3> QED
      BY <2>2, <3>1, <3>2 DEF ExecutionNext
  <2>3. ASSUME RequestNext PROVE remote' = remote
    BY <2>3, Zenon DEF RequestNext, CreateBackup, AuthorizeRestoreSnapshot, QueueSnapshotDeletion,
       BrowseStart, StartRetentionRun, DeletePlanBackups, CreateInvalidating, BrowseFinish,
       BrowseGivesUp, repoVars
  <2>4. ASSUME TickNext PROVE remote' = remote
    BY <2>4, Zenon DEF TickNext, SettleSucceeded, SettleFailed, StartCleanupScan, TickStart,
       ReconcileDeletion, ReconcileTimesOut, ClaimPendingDeletion, ConsumeCleanupScan,
       SkipCleanupScan, repoVars
  <2>5. ASSUME RestoreNext PROVE remote \subseteq remote'
    BY <2>5 DEF RestoreNext, CreateRestore, StartRestore, ProtectionBackup, EndRestore, ResolveRestore
  <2>6. ASSUME WeekPasses PROVE remote' = remote
    BY <2>6 DEF WeekPasses, repoVars
  <2>7. CASE RequestNext \/ TickNext \/ RestoreNext \/ WeekPasses
    BY <2>1, <2>3, <2>4, <2>5, <2>6, <2>7
  <2> QED
    BY <2>2, <2>7 DEF CatalogNext
<1> QED
  BY <1>1, CatalogInvariant, PTL DEF CatalogSpec, RestoreSnapshotsSurvive
=============================================================================
