------------------------ MODULE BackupExecutionProofs ------------------------
(***************************************************************************)
(* Theorems about BackupExecution, for any extra arguments of the plan and *)
(* any number of deliveries of the run.                                    *)
(***************************************************************************)
EXTENDS BackupExecution, FiniteSetTheorems, WellFoundedInduction, TLAPS

WorkSteps == {"idle", "export", "list", "upload", "answer"}
WorkType == [pc : WorkSteps, content : SUBSET Wanted, warned : SUBSET Wanted, ok : BOOLEAN]
SnapshotType == [attempt : 1..MaxAttempts, content : SUBSET Wanted]
VerdictType == [state : {"none", "succeeded", "failed"}, content : SUBSET Wanted,
                warned : SUBSET Wanted]

\* What every attempt of this run warns of: the rights do not change.
MustWarn ==
    IF source.kind = "mysql"
    THEN ObjectWarnings \cup (IF MayLoseViews THEN {"view"} ELSE {})
    ELSE {}

\* Declared, of other warnings than the recorded ones.
DeclaredBy(warned) ==
    warned
    \cup (IF Has("skip_triggers") THEN {"trigger"} ELSE {})
    \cup (IF Has("skip_routines") THEN {"routine"} ELSE {})
    \cup (IF Has("skip_events") THEN {"event"} ELSE {})
    \cup (IF ExplicitTableSelection THEN {"t1", "t2", "view"} ELSE {})

\* The content lacks nothing but what every attempt declares.
Accounted(content) ==
    source.kind # "filesystem" => Wanted \ content \subseteq DeclaredBy(MustWarn)

-----------------------------------------------------------------------------
(* The inductive invariant.                                                  *)

\* Every snapshot that carries the tag could be taken over, so each of them is
\* accounted for, as is what an attempt is about to upload or to answer.
ContentInv ==
    /\ \A s \in tagged : Accounted(s.content)
    /\ work.pc \in {"list", "upload"} \/ (work.pc = "answer" /\ work.ok) =>
         Accounted(work.content) /\ MustWarn \subseteq work.warned
    /\ verdict.state = "succeeded" =>
         Accounted(verdict.content) /\ MustWarn \subseteq verdict.warned

\* An attempt that uploads has seen no snapshot of the run or is counted as
\* blind.
CountInv ==
    /\ work.pc # "idle" => attempts > 0
    /\ work.pc \in {"export", "list"} => blind < attempts
    /\ IsFiniteSet(tagged)
    /\ Cardinality(tagged) <= 1 + blind
    /\ work.pc = "upload" => Cardinality(tagged) <= blind

BackupInv == BackupTypeOK /\ ContentInv /\ CountInv

-----------------------------------------------------------------------------
(* The adapters.                                                             *)

\* What depends on the source alone does not change.
LEMMA SourceFixed ==
  ASSUME source' = source
  PROVE  /\ Wanted' = Wanted /\ MustWarn' = MustWarn
         /\ \A c : Accounted(c)' <=> Accounted(c)
<1>1. Wanted' = Wanted
  BY DEF Wanted
<1>3. ExplicitTableSelection' = ExplicitTableSelection
  BY DEF ExplicitTableSelection, Has
<1>4. ObjectWarnings' = ObjectWarnings
  BY DEF ObjectWarnings, Has, RoutineVisible, Account
<1>5. MayLoseViews' = MayLoseViews
  BY <1>3 DEF MayLoseViews, Account
<1>6. MustWarn' = MustWarn
  BY <1>4, <1>5 DEF MustWarn
<1>7. ASSUME NEW c PROVE Accounted(c)' <=> Accounted(c)
  BY <1>1, <1>3, <1>6 DEF Accounted, DeclaredBy, Has
<1> QED
  BY <1>1, <1>6, <1>7

\* The MySQL dump: what mysqldump leaves out in silence is what the checks
\* refuse, the warnings name or the plan excludes.
LEMMA MySQLExportFact ==
  ASSUME source \in Sources, source.kind = "mysql", NEW e \in MySQLExports
  PROVE  /\ e.content \subseteq Wanted /\ e.warned \subseteq Wanted
         /\ MustWarn \subseteq e.warned /\ Accounted(e.content)
<1>1. Wanted = {"t1", "t2", "view", "trigger", "routine", "event"}
  BY DEF Wanted
<1>2. Account.view \in Levels /\ source.all \in BOOLEAN
  BY DEF Sources, MySQLAccounts, Account
<1>3. /\ e.content \in MySQLDumps /\ ReadsAllTables /\ ObjectPrivileges
      /\ e.warned = ObjectWarnings \/ e.warned = ObjectWarnings \cup {"view"}
      /\ MayLoseViews => "view" \in e.warned
  BY DEF MySQLExports
<1>4. MustWarn \subseteq e.warned
  BY <1>3 DEF MustWarn
<1>5. ObjectWarnings \subseteq {"view", "trigger", "event", "routine"}
  BY DEF ObjectWarnings
<1>6. e.warned \subseteq Wanted
  BY <1>1, <1>3, <1>5
<1>7. DumpedTables \subseteq {"t1", "t2"}
  BY DEF DumpedTables
<1>8. e.content \subseteq Wanted
  BY <1>1, <1>3, <1>7, ZenonT(60) DEF MySQLDumps
<1>9. ASSUME NEW x \in Wanted \ e.content PROVE x \in DeclaredBy(MustWarn)
  <2>1. CASE x = "event"
    BY <1>3, <1>9, <2>1 DEF MySQLDumps, DeclaredBy
  <2>2. CASE x = "routine"
    BY <1>3, <1>9, <2>2 DEF MySQLDumps, DeclaredBy, MustWarn, ObjectWarnings
  <2>3. CASE x = "trigger"
    BY <1>2, <1>3, <1>9, <2>3 DEF MySQLDumps, DeclaredBy, MustWarn, ObjectWarnings, ObjectPrivileges,
       Covers
  <2>4. CASE x \in {"t1", "t2"}
    BY <1>3, <1>9, <2>4 DEF MySQLDumps, DeclaredBy, DumpedTables, ReadsAllTables,
       ExplicitTableSelection
  <2>5. CASE x = "view"
    BY <1>2, <1>3, <1>9, <2>5 DEF MySQLDumps, DeclaredBy, MustWarn, ObjectWarnings, MayLoseViews,
       ReadsAllTables, ExplicitTableSelection, Covers, Levels
  <2> QED
    BY <1>1, <2>1, <2>2, <2>3, <2>4, <2>5
<1> QED
  BY <1>4, <1>6, <1>8, <1>9 DEF Accounted

\* Every adapter: what an export may hold and what it lacks.
LEMMA ExportFact ==
  ASSUME source \in Sources, NEW e \in Exports
  PROVE  /\ e.content \in SUBSET Wanted /\ e.warned \in SUBSET Wanted
         /\ MustWarn \subseteq e.warned /\ Accounted(e.content)
<1>1. CASE source.kind = "mysql"
  BY <1>1, MySQLExportFact DEF Exports
<1>2. CASE source.kind = "postgresql"
  <2>1. e \in PostgreSQLExports /\ MustWarn = {}
    BY <1>2 DEF Exports, MustWarn
  <2>2. PICK l \in Listings : l.ok /\
          e = [content |-> IF source.all THEN {"globals"} \cup l.names ELSE {"d1"}, warned |-> {}]
    BY <2>1 DEF PostgreSQLExports
  <2>3. l.names = {"d1", "d2"}
    BY <2>2 DEF Listings
  <2>4. e.content = Wanted /\ e.warned = {}
    BY <1>2, <2>2, <2>3 DEF Wanted
  <2> QED
    BY <2>1, <2>4 DEF Accounted
<1>3. CASE source.kind \notin {"mysql", "postgresql"}
  <2>1. e = [content |-> Wanted, warned |-> {}] /\ MustWarn = {}
    BY <1>3 DEF Exports, MongoDBExports, FileExports, MustWarn
  <2> QED
    BY <2>1 DEF Accounted
<1> QED
  BY <1>1, <1>2, <1>3

\* The search finds nothing only when there is nothing.
LEMMA FindTaggedFact ==
  ASSUME BackupTypeOK, FindTagged = {}
  PROVE  tagged = {}
<1> DEFINE A == {s.attempt : s \in tagged}
<1>1. tagged \subseteq SnapshotType
  BY DEF BackupTypeOK, SnapshotType
<1>2. A \subseteq Nat
  BY <1>1, AttemptsAssumption DEF SnapshotType
<1> SUFFICES ASSUME tagged # {} PROVE FALSE
  OBVIOUS
<1>3. A # {}
  OBVIOUS
<1> HIDE DEF A
<1>4. \E x \in A : \A y \in A : <<y, x>> \notin OpToRel(<, Nat)
  BY <1>2, <1>3, NatLessThanWellFounded, WFMin, Zenon
<1>5. PICK x \in A : \A y \in A : <<y, x>> \notin OpToRel(<, Nat)
  BY <1>4
<1>6. \A y \in A : ~(y < x)
  BY <1>2, <1>5, Zenon DEF OpToRel
<1>7. \A y \in A : x <= y
  BY <1>2, <1>6
<1>8. PICK s \in tagged : s.attempt = x
  BY DEF A
<1>9. \A o \in tagged : o.attempt \in A
  BY DEF A
<1>10. s \in FindTagged
  BY <1>7, <1>8, <1>9 DEF FindTagged
<1> QED
  BY <1>10

-----------------------------------------------------------------------------
(* The steps.                                                                *)

\* The types, under the names used here.
LEMMA BackupTypes ==
  BackupTypeOK <=>
    /\ source \in Sources /\ work \in WorkType /\ tagged \subseteq SnapshotType
    /\ attempts \in 0..MaxAttempts /\ blind \in 0..attempts /\ verdict \in VerdictType
  BY DEF BackupTypeOK, WorkType, WorkSteps, SnapshotType, VerdictType

\* The types do not change, for the source does not.
LEMMA TypesFixed ==
  ASSUME source' = source
  PROVE  WorkType' = WorkType /\ SnapshotType' = SnapshotType /\ VerdictType' = VerdictType
  BY SourceFixed DEF WorkType, SnapshotType, VerdictType

\* The records of a run that has not started.
LEMMA Nothing ==
  /\ NoWork \in WorkType /\ NoWork.pc = "idle"
  /\ NoVerdict \in VerdictType /\ NoVerdict.state = "none"
  BY DEF NoWork, WorkType, WorkSteps, NoVerdict, VerdictType

\* A run that was not delivered yet.
LEMMA BackupInitInv == BackupInit => BackupInv
<1> SUFFICES ASSUME BackupInit PROVE BackupInv
  OBVIOUS
<1>1. BackupTypeOK
  BY Nothing, BackupTypes, AttemptsAssumption DEF BackupInit
<1>2. ContentInv
  BY Nothing DEF BackupInit, ContentInv
<1>3. CountInv
  BY Nothing, FS_EmptySet DEF BackupInit, CountInv
<1> QED
  BY <1>1, <1>2, <1>3 DEF BackupInv

\* A step of the attempt that stores no snapshot: what it must see to.
LEMMA WorkKeeps ==
  ASSUME BackupInv, UNCHANGED <<source, tagged, attempts, verdict>>,
         work' \in WorkType, blind' \in {blind, blind + 1}, blind' \in 0..attempts,
         work'.pc # "idle" => attempts > 0,
         work'.pc \in {"export", "list"} => blind' < attempts,
         work'.pc = "upload" => Cardinality(tagged) <= blind',
         work'.pc \in {"list", "upload"} \/ (work'.pc = "answer" /\ work'.ok) =>
           Accounted(work'.content) /\ MustWarn \subseteq work'.warned
  PROVE  BackupInv'
<1>1. BackupTypeOK /\ ContentInv /\ CountInv
  BY DEF BackupInv
<1>2. BackupTypeOK'
  <2>1. source \in Sources /\ tagged \subseteq SnapshotType /\ verdict \in VerdictType
        /\ attempts \in 0..MaxAttempts
    BY <1>1, BackupTypes
  <2>2. work' \in WorkType' /\ tagged' \subseteq SnapshotType' /\ verdict' \in VerdictType'
    BY <2>1, TypesFixed
  <2> QED
    BY <2>1, <2>2 DEF BackupTypeOK, WorkType, WorkSteps, SnapshotType, VerdictType
<1>3. ContentInv'
  BY <1>1, SourceFixed DEF ContentInv
<1>4. Cardinality(tagged) \in Nat /\ blind \in Nat
  BY <1>1, FS_CardinalityType DEF CountInv, BackupTypeOK
<1>5. CountInv'
  BY <1>1, <1>4 DEF CountInv
<1> QED
  BY <1>2, <1>3, <1>5 DEF BackupInv

\* A step of the upload that stores a snapshot: there was none, or the attempt
\* is a blind one.
LEMMA StoreKeeps ==
  ASSUME BackupInv, work.pc = "upload", UNCHANGED <<source, attempts, blind, verdict>>,
         NEW c \in SUBSET Wanted, Accounted(c),
         tagged' = tagged \cup {[attempt |-> attempts, content |-> c]},
         work' \in WorkType, work'.pc \in {"idle", "answer"},
         work'.ok /\ work'.pc = "answer" =>
           Accounted(work'.content) /\ MustWarn \subseteq work'.warned
  PROVE  BackupInv'
<1>1. BackupTypeOK /\ ContentInv /\ CountInv
  BY DEF BackupInv
<1>2. source \in Sources /\ tagged \subseteq SnapshotType /\ verdict \in VerdictType
      /\ attempts \in 0..MaxAttempts /\ blind \in 0..attempts /\ attempts > 0
  BY <1>1, BackupTypes DEF CountInv
<1> DEFINE new == [attempt |-> attempts, content |-> c]
<1>3. new \in SnapshotType /\ new.content = c
  BY <1>2, AttemptsAssumption DEF SnapshotType
<1> HIDE DEF new
<1>4. tagged' = tagged \cup {new}
  BY DEF new
<1>5. work' \in WorkType' /\ tagged' \subseteq SnapshotType' /\ verdict' \in VerdictType'
  BY <1>2, <1>3, <1>4, TypesFixed
<1>6. BackupTypeOK'
  BY <1>2, <1>5 DEF BackupTypeOK, WorkType, WorkSteps, SnapshotType, VerdictType
<1>7. ContentInv'
  BY <1>1, <1>3, <1>4, SourceFixed DEF ContentInv
<1>8. IsFiniteSet(tagged) /\ Cardinality(tagged) \in Nat /\ Cardinality(tagged) <= blind
  BY <1>1, FS_CardinalityType DEF CountInv
<1>9. /\ IsFiniteSet(tagged')
      /\ Cardinality(tagged') = IF new \in tagged THEN Cardinality(tagged) ELSE Cardinality(tagged) + 1
  <2>1. /\ IsFiniteSet(tagged \cup {new})
        /\ Cardinality(tagged \cup {new}) =
             IF new \in tagged THEN Cardinality(tagged) ELSE Cardinality(tagged) + 1
    BY <1>8, FS_AddElement, Zenon
  <2> QED
    BY <1>4, <2>1, Zenon
<1>10. Cardinality(tagged') <= 1 + blind
  BY <1>2, <1>8, <1>9
<1>11. CountInv'
  BY <1>2, <1>9, <1>10 DEF CountInv
<1> QED
  BY <1>6, <1>7, <1>11 DEF BackupInv

\* The server sends the run, again after an attempt that died.
LEMMA DeliverKeeps == BackupInv /\ DeliverRun => BackupInv'
<1> SUFFICES ASSUME BackupInv, DeliverRun PROVE BackupInv'
  OBVIOUS
<1>1. BackupTypeOK /\ ContentInv /\ CountInv
  BY DEF BackupInv
<1>2. /\ UNCHANGED <<source, tagged, blind, verdict>> /\ attempts < MaxAttempts
      /\ attempts' = attempts + 1 /\ work' = [NoWork EXCEPT !.pc = "export"]
  BY DEF DeliverRun
<1>3. work' \in WorkType /\ work'.pc = "export"
  BY <1>2, Nothing DEF WorkType, WorkSteps
<1>4. source \in Sources /\ tagged \subseteq SnapshotType /\ verdict \in VerdictType
      /\ attempts \in 0..MaxAttempts /\ blind \in 0..attempts
  BY <1>1, BackupTypes
<1>5. attempts' \in 0..MaxAttempts /\ blind' \in 0..attempts' /\ blind' < attempts' /\ attempts' > 0
  BY <1>2, <1>4, AttemptsAssumption
<1>6. work' \in WorkType' /\ tagged' \subseteq SnapshotType' /\ verdict' \in VerdictType'
  BY <1>2, <1>3, <1>4, TypesFixed
<1>7. BackupTypeOK'
  BY <1>2, <1>4, <1>5, <1>6 DEF BackupTypeOK, WorkType, WorkSteps, SnapshotType, VerdictType
<1>8. ContentInv'
  BY <1>1, <1>2, <1>3, SourceFixed DEF ContentInv
<1>9. CountInv'
  BY <1>1, <1>2, <1>3, <1>5 DEF CountInv
<1> QED
  BY <1>7, <1>8, <1>9 DEF BackupInv

\* A failed attempt answers, at any step.
LEMMA AnswerType ==
  ASSUME work \in WorkType, NEW ok \in BOOLEAN, NEW c \in SUBSET Wanted, Answers(ok, c)
  PROVE  /\ work' \in WorkType /\ work'.pc = "answer" /\ work'.ok = ok
         /\ work'.content = c /\ work'.warned = work.warned
  BY DEF Answers, WorkType, WorkSteps

\* The dump, whose checks account for what it lacks.
LEMMA ExportKeeps == BackupInv /\ Export => BackupInv'
<1> SUFFICES ASSUME BackupInv, Export PROVE BackupInv'
  OBVIOUS
<1>1. /\ work \in WorkType /\ source \in Sources /\ work.pc = "export" /\ blind \in 0..attempts
      /\ blind < attempts /\ attempts > 0
  BY BackupTypes DEF BackupInv, Export, CountInv
<1>2. UNCHANGED <<source, tagged, attempts, blind, verdict>>
  BY DEF Export
<1>3. ASSUME NEW e \in Exports,
             work' = [work EXCEPT !.pc = "list", !.content = e.content, !.warned = e.warned]
      PROVE  BackupInv'
  <2>1. work' \in WorkType /\ work'.pc = "list" /\ work'.content = e.content
        /\ work'.warned = e.warned
    BY <1>1, <1>3, ExportFact DEF WorkType, WorkSteps
  <2> QED
    BY <1>1, <1>2, <2>1, ExportFact, WorkKeeps
<1>4. CASE Answers(FALSE, {})
  <2>1. work' \in WorkType /\ work'.pc = "answer" /\ work'.ok = FALSE
    BY <1>1, <1>4, AnswerType
  <2> QED
    BY <1>1, <1>2, <2>1, WorkKeeps
<1> QED
  BY <1>3, <1>4 DEF Export

\* The search for the tag: an earlier snapshot is taken over, or there is none,
\* or the attempt goes on blind.
LEMMA ListKeeps == BackupInv /\ ListSnapshots => BackupInv'
<1> SUFFICES ASSUME BackupInv, ListSnapshots PROVE BackupInv'
  OBVIOUS
<1>1. BackupTypeOK /\ ContentInv /\ CountInv
  BY DEF BackupInv
<1>2. /\ work \in WorkType /\ work.pc = "list" /\ tagged \subseteq SnapshotType
      /\ blind \in 0..attempts /\ attempts \in 0..MaxAttempts /\ blind < attempts /\ attempts > 0
      /\ Accounted(work.content) /\ MustWarn \subseteq work.warned
      /\ UNCHANGED <<source, tagged, attempts, verdict>>
  BY <1>1, BackupTypes DEF ListSnapshots, CountInv, ContentInv
<1>3. ASSUME NEW s \in FindTagged, UNCHANGED blind, Answers(TRUE, s.content) PROVE BackupInv'
  <2>1. s \in tagged /\ s.content \in SUBSET Wanted /\ Accounted(s.content)
    BY <1>1, <1>2 DEF FindTagged, ContentInv, SnapshotType
  <2>2. /\ work' \in WorkType /\ work'.pc = "answer" /\ work'.content = s.content
        /\ work'.warned = work.warned
    BY <1>2, <1>3, <2>1, AnswerType
  <2> QED
    BY <1>2, <1>3, <2>1, <2>2, WorkKeeps
<1>4. ASSUME work' = [work EXCEPT !.pc = "upload"], blind' \in {blind, blind + 1},
             Cardinality(tagged) <= blind'
      PROVE  BackupInv'
  <2>1. /\ work' \in WorkType /\ work'.pc = "upload" /\ work'.content = work.content
        /\ work'.warned = work.warned
    BY <1>2, <1>4 DEF WorkType, WorkSteps
  <2>2. blind' \in 0..attempts
    BY <1>2, <1>4
  <2> QED
    BY <1>2, <1>4, <2>1, <2>2, WorkKeeps
<1>5. ASSUME FindTagged = {} PROVE Cardinality(tagged) <= blind
  BY <1>1, <1>2, <1>5, FindTaggedFact, FS_EmptySet
<1>6. Cardinality(tagged) <= blind + 1
  BY <1>1, <1>2, FS_CardinalityType DEF CountInv
<1> QED
  BY <1>3, <1>4, <1>5, <1>6 DEF ListSnapshots

\* restic backup.
LEMMA UploadKeeps == BackupInv /\ Upload => BackupInv'
<1> SUFFICES ASSUME BackupInv, Upload PROVE BackupInv'
  OBVIOUS
<1>1. BackupTypeOK /\ ContentInv /\ CountInv
  BY DEF BackupInv
<1>2. /\ work \in WorkType /\ work.pc = "upload" /\ work.content \in SUBSET Wanted
      /\ blind \in 0..attempts /\ attempts > 0
      /\ Accounted(work.content) /\ MustWarn \subseteq work.warned
      /\ UNCHANGED <<source, attempts, blind, verdict>>
  BY <1>1, BackupTypes DEF Upload, CountInv, ContentInv, WorkType
<1>3. CASE /\ tagged' = tagged \cup {[attempt |-> attempts, content |-> work.content]}
           /\ Answers(TRUE, work.content)
  <2>1. /\ work' \in WorkType /\ work'.pc = "answer" /\ work'.content = work.content
        /\ work'.warned = work.warned
    BY <1>2, <1>3, AnswerType
  <2> QED
    BY <1>2, <1>3, <2>1, StoreKeeps
<1>4. ASSUME NEW c \in SUBSET Wanted, Accounted(c), Answers(FALSE, {}),
             tagged' = tagged \cup {[attempt |-> attempts, content |-> c]}
      PROVE  BackupInv'
  <2>1. work' \in WorkType /\ work'.pc = "answer" /\ work'.ok = FALSE
    BY <1>2, <1>4, AnswerType
  <2> QED
    BY <1>2, <1>4, <2>1, StoreKeeps
<1>5. CASE UNCHANGED tagged /\ Answers(FALSE, {})
  <2>1. work' \in WorkType /\ work'.pc = "answer" /\ work'.ok = FALSE
    BY <1>2, <1>5, AnswerType
  <2> QED
    BY <1>2, <1>5, <2>1, WorkKeeps
<1>6. ASSUME source.kind = "filesystem", NEW read \in SUBSET work.content, Answers(FALSE, {}),
             tagged' = tagged \cup {[attempt |-> attempts, content |-> read]}
      PROVE  BackupInv'
  <2>1. read \in SUBSET Wanted /\ Accounted(read)
    BY <1>2, <1>6 DEF Accounted
  <2> QED
    BY <1>4, <1>6, <2>1
<1> QED
  BY <1>2, <1>3, <1>4, <1>5, <1>6 DEF Upload

\* The answer is recorded.
LEMMA ReportKeeps == BackupInv /\ ReportResult => BackupInv'
<1> SUFFICES ASSUME BackupInv, ReportResult PROVE BackupInv'
  OBVIOUS
<1>1. BackupTypeOK /\ ContentInv /\ CountInv
  BY DEF BackupInv
<1>2. /\ work \in WorkType /\ work.pc = "answer" /\ tagged \subseteq SnapshotType /\ source \in Sources
      /\ attempts \in 0..MaxAttempts /\ blind \in 0..attempts
  BY <1>1, BackupTypes DEF ReportResult
<1>3. UNCHANGED <<source, tagged, attempts, blind>> /\ work' = NoWork
  BY DEF ReportResult
<1>4. /\ verdict' = [state |-> IF work.ok THEN "succeeded" ELSE "failed",
                     content |-> work.content, warned |-> work.warned]
  BY DEF ReportResult
<1>5. /\ verdict' \in VerdictType /\ (verdict'.state = "succeeded" => work.ok)
      /\ verdict'.content = work.content /\ verdict'.warned = work.warned
  BY <1>2, <1>4 DEF VerdictType, WorkType
<1>6. work' \in WorkType' /\ tagged' \subseteq SnapshotType' /\ verdict' \in VerdictType'
  BY <1>2, <1>3, <1>5, TypesFixed, Nothing
<1>7. BackupTypeOK'
  BY <1>2, <1>3, <1>6 DEF BackupTypeOK, WorkType, WorkSteps, SnapshotType, VerdictType
<1>8. ContentInv'
  BY <1>1, <1>2, <1>3, <1>5, SourceFixed, Nothing DEF ContentInv
<1>9. CountInv'
  BY <1>1, <1>3, Nothing DEF CountInv
<1> QED
  BY <1>7, <1>8, <1>9 DEF BackupInv

\* The agent dies, perhaps just after the snapshot was stored.
LEMMA DiesKeeps == BackupInv /\ AgentDies => BackupInv'
<1> SUFFICES ASSUME BackupInv, AgentDies PROVE BackupInv'
  OBVIOUS
<1>1. /\ work \in WorkType /\ blind \in 0..attempts /\ work' = NoWork
      /\ UNCHANGED <<source, attempts, blind, verdict>>
  BY BackupTypes DEF BackupInv, AgentDies
<1>2. CASE UNCHANGED tagged
  BY <1>1, <1>2, Nothing, WorkKeeps
<1>3. CASE /\ work.pc = "upload"
           /\ tagged' = tagged \cup {[attempt |-> attempts, content |-> work.content]}
  <2>1. work.content \in SUBSET Wanted /\ Accounted(work.content)
    BY <1>1, <1>3 DEF BackupInv, ContentInv, WorkType
  <2> QED
    BY <1>1, <1>3, <2>1, Nothing, StoreKeeps
<1> QED
  BY <1>2, <1>3 DEF AgentDies

\* A step keeps the invariant.
LEMMA BackupStep == BackupInv /\ [BackupNext]_backupVars => BackupInv'
<1> SUFFICES ASSUME BackupInv, [BackupNext]_backupVars PROVE BackupInv'
  OBVIOUS
<1>1. CASE UNCHANGED backupVars
  <2>1. /\ UNCHANGED <<source, tagged, attempts, blind, verdict, work>>
        /\ work \in WorkType /\ blind \in 0..attempts
    BY <1>1, BackupTypes DEF backupVars, BackupInv
  <2> QED
    BY <2>1, WorkKeeps DEF BackupInv, ContentInv, CountInv
<1> QED
  BY <1>1, DeliverKeeps, ExportKeeps, ListKeeps, UploadKeeps, ReportKeeps, DiesKeeps DEF BackupNext

\* The invariant holds throughout.
LEMMA BackupInvariant == BackupSpec => []BackupInv
  BY BackupInitInv, BackupStep, PTL DEF BackupSpec

\* The attempt, the snapshots and the verdict keep their types; exported and
\* recorded contents are parts of what the plan asks for.
THEOREM BackupTypeCorrect == BackupSpec => []BackupTypeOK
<1>1. BackupInv => BackupTypeOK
  BY DEF BackupInv
<1> QED
  BY <1>1, BackupInvariant, PTL

\* runBackup with the adapters' checks: whatever the rights of the account and
\* the plan's arguments, and however often the agent dies and the run is
\* redelivered, a database backup recorded as succeeded lacks only what the
\* plan excludes or the log warns of.
THEOREM DumpsAreComplete == BackupSpec => []DumpIsComplete
<1>1. BackupInv => DumpIsComplete
  <2> SUFFICES ASSUME BackupInv, verdict.state = "succeeded", source.kind # "filesystem"
               PROVE  Wanted \ verdict.content \subseteq Declared
    BY DEF DumpIsComplete
  <2>1. /\ Wanted \ verdict.content \subseteq DeclaredBy(MustWarn)
        /\ MustWarn \subseteq verdict.warned
    BY DEF BackupInv, ContentInv, Accounted
  <2> QED
    BY <2>1 DEF DeclaredBy, Declared
<1> QED
  BY <1>1, BackupInvariant, PTL

\* The run's tag: redeliveries store one snapshot, and one more for each
\* attempt that could not list the repository.
THEOREM RetriesReuseSnapshots == BackupSpec => []RetryReusesSnapshot
<1>1. BackupInv => RetryReusesSnapshot
  BY DEF BackupInv, CountInv, RetryReusesSnapshot
<1> QED
  BY <1>1, BackupInvariant, PTL
=============================================================================
