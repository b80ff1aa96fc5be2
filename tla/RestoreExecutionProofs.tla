----------------------- MODULE RestoreExecutionProofs ------------------------
(***************************************************************************)
(* Theorems about RestoreExecution: for every content of the target and of *)
(* the snapshot, and wherever a command fails, is killed or meets another  *)
(* session, the phase that is reported is true, the old content is never   *)
(* lost, and a rollback fails only for a cause.                            *)
(***************************************************************************)
EXTENDS RestoreExecution, TLAPS

StepType == [pc : Steps, rolling : BOOLEAN, isNew : BOOLEAN, hadOld : BOOLEAN]
DatabaseType == [exists : BOOLEAN, data : SUBSET (Old \cup Snap \cup Foreign)]

-----------------------------------------------------------------------------
(* Contents.                                                                 *)

\* The old content and the snapshot are not empty, have nothing in common, and
\* name some object.
LEMMA Contents ==
  /\ Old # {} /\ Snap # {}
  /\ Old \cap Snap = {}
  /\ Names(Old) # {} /\ Names(Snap) # {}
<1>1. PICK o \in OldNames, n \in SnapNames : TRUE
  BY NamesAssumption
<1>2. <<"old", o, "schema">> \in Old /\ <<"new", n, "schema">> \in Snap
  BY DEF Old, Snap, Parts
<1>3. Old \cap Snap = {}
  BY DEF Old, Snap
<1>4. <<"old", o, "schema">>[2] \in Names(Old) /\ <<"new", n, "schema">>[2] \in Names(Snap)
  BY <1>2 DEF Names
<1> QED
  BY <1>2, <1>3, <1>4

\* More content has more names.
LEMMA NamesGrow ==
  ASSUME NEW A, NEW B, A \subseteq B
  PROVE  Names(A) \subseteq Names(B)
  BY DEF Names

\* What another actor makes has the names of the old content.
LEMMA ForeignNames ==
  \A x \in Foreign : x[2] \in Names(Old)
<1> TAKE x \in Foreign
<1>1. x[2] \in OldNames
  BY DEF Foreign
<1>2. <<"old", x[2], "schema">> \in Old
  BY <1>1 DEF Old, Parts
<1>3. <<"old", x[2], "schema">>[2] \in Names(Old)
  BY <1>2 DEF Names
<1> QED
  BY <1>3

-----------------------------------------------------------------------------
(* The inductive invariant.                                                  *)

\* Until the import begins the target is what it was when the task arrived and
\* nothing is protected.
Untouched ==
    step.pc \in {"download", "preflight", "exists", "protect", "files"} =>
        /\ ~step.rolling
        /\ shield = NoShield
        /\ db.exists = step.hadOld
        /\ db.data = IF step.hadOld THEN Old ELSE {}

\* A filesystem restore is a check and one command, and only it has them. What
\* the command is let loose on is absent or may be overwritten.
EngineSteps ==
    /\ step.pc \in {"files", "copy"} => engine = "filesystem"
    /\ engine = "filesystem" => step.pc \in {"files", "copy", "done", "crashed"}
    /\ step.pc = "copy" => /\ ~step.rolling /\ shield = NoShield
                           /\ step.hadOld => order.replace
                           /\ order.replace \/ db.data \subseteq Foreign

Writing == {"import", "drop", "create", "load", "verify", "remove", "fetch"}

\* While the target is written, isNew says what was found, and a target that
\* was there has its content in the protection snapshot. Only a new target is
\* removed, only an old one is restored again.
Prepared ==
    /\ step.pc = "protect" => step.hadOld /\ ~step.isNew
    /\ step.pc \in Writing => /\ step.isNew = ~step.hadOld
                              /\ shield = IF step.isNew THEN NoShield ELSE Old
    /\ step.pc = "remove" => step.isNew /\ step.rolling
    /\ step.pc = "fetch" => ~step.isNew /\ step.rolling
    /\ step.pc \in Writing \ {"remove"} /\ step.rolling => ~step.isNew

\* MySQL and PostgreSQL load into the database that CREATE DATABASE has just
\* made; MongoDB, over an old target, into nothing or what another actor made
\* since the drop.
LoadsIntoEmpty ==
    step.pc = "load" =>
        /\ engine \in {"mysql", "postgresql"} => db = EmptyDatabase
        /\ engine = "mongodb" /\ ~step.isNew => db.data \subseteq Foreign

\* What is verified has been loaded completely, and in a rollback nothing of
\* the failed import is left beside it.
VerifiesLoaded ==
    step.pc = "verify" =>
        /\ Artifact \subseteq db.data
        /\ engine = "postgresql" => db.data = Artifact
        /\ step.rolling => db = [exists |-> TRUE, data |-> Artifact]

\* Only the end of the run reports a phase.
SilentUntilDone == step.pc # "done" => outcome = "none"

ExecutionInv ==
    /\ ExecutionTypeOK
    /\ Untouched
    /\ EngineSteps
    /\ Prepared
    /\ LoadsIntoEmpty
    /\ VerifiesLoaded
    /\ SilentUntilDone
    /\ OutcomeIsTrue
    /\ OldDataIsSafe
    /\ RollbackFailsForCause

\* A new task: the target is untouched and nothing is reported.
LEMMA ExecutionInitInv == ExecutionInit => ExecutionInv
<1> SUFFICES ASSUME ExecutionInit PROVE ExecutionInv
  OBVIOUS
<1>0. db = [exists |-> FALSE, data |-> {}] \/ db = [exists |-> TRUE, data |-> Old]
  BY DEF ExecutionInit, NoDatabase
<1>1. db \in DatabaseType /\ (~db.exists => db.data = {})
      /\ db.data = IF db.exists THEN Old ELSE {}
  <2>1. CASE db = [exists |-> FALSE, data |-> {}]
    BY <2>1 DEF DatabaseType
  <2>2. CASE db = [exists |-> TRUE, data |-> Old]
    BY <2>2 DEF DatabaseType
  <2> QED
    BY <1>0, <2>1, <2>2
<1>2. /\ step \in StepType /\ step.pc \in {"files", "download"}
      /\ (step.pc = "files" => engine = "filesystem")
      /\ ~step.rolling /\ ~step.isNew /\ step.hadOld = db.exists
  BY <1>1 DEF ExecutionInit, StepType, Steps, DatabaseType
<1>3. role \in {"superuser", "creator", "owner"}
  BY DEF ExecutionInit
<1>4. ExecutionTypeOK
  BY <1>1, <1>2, <1>3 DEF ExecutionInit, ExecutionTypeOK, StepType, DatabaseType, Phases
<1>5. /\ Untouched /\ EngineSteps /\ Prepared /\ LoadsIntoEmpty /\ VerifiesLoaded
      /\ SilentUntilDone
  BY <1>1, <1>2 DEF ExecutionInit, Untouched, EngineSteps, Prepared, LoadsIntoEmpty,
     VerifiesLoaded, SilentUntilDone, Writing
<1>6. OutcomeIsTrue /\ OldDataIsSafe /\ RollbackFailsForCause
  BY <1>1, <1>2 DEF ExecutionInit, OutcomeIsTrue, OldDataIsSafe, RollbackFailsForCause
<1> QED
  BY <1>4, <1>5, <1>6 DEF ExecutionInv

-----------------------------------------------------------------------------
(* The ways a command ends.                                                  *)

\* The run goes on with another command.
LEMMA GoesFact ==
  ASSUME step \in StepType, NEW pc \in Steps, Goes(pc)
  PROVE  /\ step' \in StepType /\ step'.pc = pc
         /\ step'.rolling = step.rolling /\ step'.isNew = step.isNew
         /\ step'.hadOld = step.hadOld
         /\ outcome' = outcome /\ disturbed' = disturbed
  BY DEF Goes, StepType

\* The run ends with a phase.
LEMMA ReportsFact ==
  ASSUME step \in StepType, NEW ph, Reports(ph)
  PROVE  /\ step' \in StepType /\ step'.pc = "done"
         /\ step'.rolling = step.rolling /\ step'.isNew = step.isNew
         /\ step'.hadOld = step.hadOld
         /\ outcome' = ph /\ disturbed' = disturbed
  BY DEF Reports, StepType, Steps

\* A failing command ends the rollback or begins it.
LEMMA BrokenFact ==
  ASSUME step \in StepType, disturbed \in BOOLEAN, NEW exogenous \in BOOLEAN, Broken(exogenous)
  PROVE  /\ step' \in StepType
         /\ step'.isNew = step.isNew /\ step'.hadOld = step.hadOld /\ step'.rolling
         /\ step.rolling => step'.pc = "done" /\ outcome' = "rollback_failed"
         /\ ~step.rolling => /\ step'.pc = IF step.isNew THEN "remove" ELSE "fetch"
                             /\ outcome' = outcome
         /\ disturbed' \in BOOLEAN
         /\ step.rolling /\ exogenous => disturbed'
         /\ disturbed => disturbed'
<1>1. disturbed' = (disturbed \/ (step.rolling /\ exogenous))
  BY DEF Broken
<1>2. CASE step.rolling
  <2>1. step' = [step EXCEPT !.pc = "done"] /\ outcome' = "rollback_failed"
    BY <1>2 DEF Broken
  <2> QED
    BY <1>1, <1>2, <2>1 DEF StepType, Steps
<1>3. CASE ~step.rolling
  <2>1. /\ step' = [step EXCEPT !.pc = IF step.isNew THEN "remove" ELSE "fetch", !.rolling = TRUE]
        /\ outcome' = outcome
    BY <1>3 DEF Broken
  <2> QED
    BY <1>1, <1>3, <2>1 DEF StepType, Steps
<1> QED
  BY <1>2, <1>3

\* While the target is written, a command may leave it in any state: the old
\* content is protected, and a rollback that fails has a cause.
LEMMA BrokenKeeps ==
  ASSUME ExecutionInv, NEW exogenous \in BOOLEAN, Broken(exogenous), step.pc \in Writing,
         UNCHANGED <<taskVars, shield, ctxDone>>,
         db' \in DatabaseType, ~db'.exists => db'.data = {}, occupied' \in BOOLEAN,
         step.rolling => exogenous \/ (engine = "postgresql" /\ role # "superuser")
  PROVE  ExecutionInv'
<1> USE DEF ExecutionInv
<1>1. step \in StepType /\ disturbed \in BOOLEAN
  BY DEF ExecutionTypeOK, StepType
<1>2. /\ step' \in StepType
      /\ step'.isNew = step.isNew /\ step'.hadOld = step.hadOld /\ step'.rolling
      /\ step.rolling => step'.pc = "done" /\ outcome' = "rollback_failed"
      /\ ~step.rolling => /\ step'.pc = IF step.isNew THEN "remove" ELSE "fetch"
                          /\ outcome' = outcome
      /\ disturbed' \in BOOLEAN
      /\ step.rolling /\ exogenous => disturbed'
  BY <1>1, BrokenFact
<1>3. outcome = "none"
  BY DEF SilentUntilDone, Writing
<1>4. outcome' \in {"none", "rollback_failed"} /\ (outcome' = "rollback_failed" => step.rolling)
  BY <1>2, <1>3
<1>5. ExecutionTypeOK'
  BY <1>2, <1>4 DEF ExecutionTypeOK, taskVars, StepType, DatabaseType, Phases
<1>6. /\ step.isNew = ~step.hadOld
      /\ shield = IF step.isNew THEN NoShield ELSE Old
  BY DEF Prepared
<1>7. Prepared'
  BY <1>2, <1>6 DEF Prepared, Writing
<1>8. Untouched' /\ EngineSteps' /\ LoadsIntoEmpty' /\ VerifiesLoaded' /\ SilentUntilDone'
  BY <1>2, <1>3 DEF Untouched, EngineSteps, LoadsIntoEmpty, VerifiesLoaded, SilentUntilDone,
     Writing, taskVars
<1>9. OutcomeIsTrue'
  BY <1>4 DEF OutcomeIsTrue
<1>10. OldDataIsSafe'
  BY <1>1, <1>2, <1>6 DEF OldDataIsSafe, StepType
<1>11. RollbackFailsForCause'
  BY <1>2, <1>4 DEF RollbackFailsForCause, taskVars
<1> QED
  BY <1>5, <1>7, <1>8, <1>9, <1>10, <1>11

\* A command that succeeds leads to another one of the import.
LEMMA GoesKeeps ==
  ASSUME ExecutionInv, NEW pc \in {"import", "drop", "create", "load", "verify"}, Goes(pc),
         step.pc \in Writing \ {"remove"},
         UNCHANGED <<taskVars, shield, ctxDone>>,
         db' \in DatabaseType, ~db'.exists => db'.data = {}, occupied' \in BOOLEAN,
         pc = "load" => /\ engine \in {"mysql", "postgresql"} => db' = EmptyDatabase
                        /\ engine = "mongodb" /\ ~step.isNew => db'.data \subseteq Foreign,
         pc = "verify" => /\ Artifact \subseteq db'.data
                          /\ engine = "postgresql" => db'.data = Artifact
                          /\ step.rolling => db' = [exists |-> TRUE, data |-> Artifact]
  PROVE  ExecutionInv'
<1> USE DEF ExecutionInv
<1>1. step \in StepType /\ pc \in Steps
  BY DEF ExecutionTypeOK, StepType, Steps
<1>2. /\ step' \in StepType /\ step'.pc = pc
      /\ step'.rolling = step.rolling /\ step'.isNew = step.isNew
      /\ step'.hadOld = step.hadOld
      /\ outcome' = outcome /\ disturbed' = disturbed
  BY <1>1, GoesFact
<1>3. outcome = "none"
  BY DEF SilentUntilDone, Writing
<1>4. ExecutionTypeOK'
  BY <1>2, <1>3 DEF ExecutionTypeOK, taskVars, StepType, DatabaseType
<1>5. /\ step.isNew = ~step.hadOld
      /\ shield = IF step.isNew THEN NoShield ELSE Old
      /\ step.rolling => ~step.isNew
  BY DEF Prepared
<1>6. Prepared'
  BY <1>2, <1>5 DEF Prepared, Writing
<1>7. Artifact' = Artifact
  BY <1>2 DEF Artifact
<1>8. Untouched' /\ EngineSteps' /\ LoadsIntoEmpty' /\ VerifiesLoaded' /\ SilentUntilDone'
  BY <1>2, <1>3, <1>7 DEF Untouched, EngineSteps, LoadsIntoEmpty, VerifiesLoaded, SilentUntilDone,
     Writing, taskVars
<1>9. OutcomeIsTrue' /\ RollbackFailsForCause'
  BY <1>2, <1>3 DEF OutcomeIsTrue, RollbackFailsForCause
<1>10. OldDataIsSafe'
  BY <1>1, <1>2, <1>5 DEF OldDataIsSafe, StepType
<1> QED
  BY <1>4, <1>6, <1>8, <1>9, <1>10

\* The run ends with a phase that is true and is no failed rollback.
LEMMA ReportsKeeps ==
  ASSUME ExecutionInv, NEW ph \in Phases \ {"rollback_failed"}, Reports(ph),
         UNCHANGED <<taskVars, shield, ctxDone>>,
         db' \in DatabaseType, ~db'.exists => db'.data = {}, occupied' \in BOOLEAN,
         ph = "succeeded" => Delivered',
         ph = "rolled_back" => Old \subseteq db'.data,
         ph \in {"failed", "pre_backup_failed", "new_target_cleaned", "listed"}
            => db'.data \cap Snap = {} /\ (step.hadOld => Old \subseteq db'.data),
         step.hadOld /\ (engine = "filesystem" => ~order.replace)
            => Old \subseteq db'.data \/ shield = Old
  PROVE  ExecutionInv'
<1> USE DEF ExecutionInv
<1>1. step \in StepType
  BY DEF ExecutionTypeOK, StepType
<1>2. /\ step' \in StepType /\ step'.pc = "done"
      /\ step'.rolling = step.rolling /\ step'.isNew = step.isNew
      /\ step'.hadOld = step.hadOld
      /\ outcome' = ph /\ disturbed' = disturbed
  BY <1>1, ReportsFact
<1>3. ExecutionTypeOK'
  BY <1>2 DEF ExecutionTypeOK, taskVars, StepType, DatabaseType
<1>4. /\ Untouched' /\ EngineSteps' /\ Prepared' /\ LoadsIntoEmpty' /\ VerifiesLoaded'
      /\ SilentUntilDone'
  BY <1>2 DEF Untouched, EngineSteps, Prepared, LoadsIntoEmpty, VerifiesLoaded, SilentUntilDone,
     Writing
<1>5. OutcomeIsTrue' /\ RollbackFailsForCause'
  BY <1>2 DEF OutcomeIsTrue, RollbackFailsForCause
<1>6. OldDataIsSafe'
  BY <1>2 DEF OldDataIsSafe, taskVars
<1> QED
  BY <1>3, <1>4, <1>5, <1>6

-----------------------------------------------------------------------------
(* Before the target is touched.                                             *)

\* A failure before the import finds the target as it was.
LEMMA EarlyReport ==
  ASSUME ExecutionInv, step.pc \in {"download", "preflight", "exists", "protect", "files"},
         NEW ph \in {"listed", "failed", "pre_backup_failed"}, Reports(ph),
         UNCHANGED <<taskVars, db, occupied, shield, ctxDone>>
  PROVE  ExecutionInv'
<1>1. ph \in Phases \ {"rollback_failed"} /\ ph # "succeeded" /\ ph # "rolled_back"
  BY DEF Phases
<1>2. /\ db' \in DatabaseType /\ (~db'.exists => db'.data = {}) /\ occupied' \in BOOLEAN
  BY DEF ExecutionInv, ExecutionTypeOK, DatabaseType
<1>3. db'.data \cap Snap = {} /\ (step.hadOld => Old \subseteq db'.data)
  BY Contents DEF ExecutionInv, Untouched
<1> QED
  BY <1>1, <1>2, <1>3, ReportsKeeps

\* Download and preflight go on without touching anything.
LEMMA EarlyGoes ==
  ASSUME ExecutionInv, step.pc \in {"download", "preflight"},
         NEW pc \in {"preflight", "exists"}, Goes(pc),
         UNCHANGED <<taskVars, db, occupied, shield, ctxDone>>
  PROVE  ExecutionInv'
<1> USE DEF ExecutionInv
<1>1. step \in StepType /\ pc \in Steps
  BY DEF ExecutionTypeOK, StepType, Steps
<1>2. /\ step' \in StepType /\ step'.pc = pc
      /\ step'.rolling = step.rolling /\ step'.isNew = step.isNew
      /\ step'.hadOld = step.hadOld
      /\ outcome' = outcome /\ disturbed' = disturbed
  BY <1>1, GoesFact
<1>3. ExecutionTypeOK'
  BY <1>2 DEF ExecutionTypeOK, taskVars, StepType
<1>4. Untouched'
  BY <1>2 DEF Untouched
<1>5. EngineSteps' /\ Prepared' /\ LoadsIntoEmpty' /\ VerifiesLoaded' /\ SilentUntilDone'
  BY <1>2 DEF EngineSteps, Prepared, LoadsIntoEmpty, VerifiesLoaded, SilentUntilDone, Writing,
     taskVars
<1>6. outcome = "none"
  BY DEF SilentUntilDone
<1>7. OutcomeIsTrue' /\ OldDataIsSafe' /\ RollbackFailsForCause'
  BY <1>2, <1>6 DEF OutcomeIsTrue, OldDataIsSafe, RollbackFailsForCause, taskVars
<1> QED
  BY <1>3, <1>4, <1>5, <1>7

\* Download and PreflightRestore go on or refuse the task.
LEMMA DownloadStep == ExecutionInv /\ (Download \/ PreflightRestore) => ExecutionInv'
<1> SUFFICES ASSUME ExecutionInv, Download \/ PreflightRestore PROVE ExecutionInv'
  OBVIOUS
<1>1. CASE Download
  <2>1. /\ step.pc = "download" /\ UNCHANGED <<taskVars, db, occupied, shield, ctxDone>>
        /\ Reports("listed") \/ Reports("failed") \/ Goes("preflight")
    BY <1>1 DEF Download, At
  <2> QED
    BY <2>1, EarlyReport, EarlyGoes
<1>2. CASE PreflightRestore
  <2>1. /\ step.pc = "preflight" /\ UNCHANGED <<taskVars, db, occupied, shield, ctxDone>>
        /\ Reports("failed") \/ Goes("exists")
    BY <1>2 DEF PreflightRestore, At
  <2> QED
    BY <2>1, EarlyReport, EarlyGoes
<1> QED
  BY <1>1, <1>2

\* TargetExists: the answer decides whether the target is protected or new.
LEMMA TargetExistsStep == ExecutionInv /\ TargetExists => ExecutionInv'
<1> SUFFICES ASSUME ExecutionInv, TargetExists PROVE ExecutionInv'
  OBVIOUS
<1> USE DEF ExecutionInv
<1>0. step.pc = "exists" /\ UNCHANGED <<taskVars, db, occupied, shield, ctxDone>>
  BY DEF TargetExists, At
<1>1. CASE Reports("failed")
  BY <1>0, <1>1, EarlyReport
<1>2. CASE /\ step' = [step EXCEPT !.isNew = ~db.exists,
                                   !.pc = IF db.exists THEN "protect" ELSE "import"]
           /\ UNCHANGED <<outcome, disturbed>>
  <2>1. /\ step \in StepType /\ db.exists \in BOOLEAN /\ db.exists = step.hadOld
        /\ ~step.rolling /\ shield = NoShield /\ db.data = IF step.hadOld THEN Old ELSE {}
    BY <1>0 DEF ExecutionTypeOK, StepType, Untouched
  <2>2. /\ step' \in StepType /\ step'.isNew = ~db.exists
        /\ step'.pc = IF db.exists THEN "protect" ELSE "import"
        /\ step'.rolling = step.rolling /\ step'.hadOld = step.hadOld
    BY <1>2, <2>1 DEF StepType, Steps
  <2>3. ExecutionTypeOK'
    BY <1>0, <1>2, <2>2 DEF ExecutionTypeOK, taskVars, StepType
  <2>4. Untouched' /\ EngineSteps'
    BY <1>0, <2>1, <2>2 DEF Untouched, EngineSteps, taskVars
  <2>5. Prepared'
    BY <1>0, <2>1, <2>2 DEF Prepared, Writing
  <2>6. LoadsIntoEmpty' /\ VerifiesLoaded' /\ SilentUntilDone'
    BY <1>0, <1>2, <2>2 DEF LoadsIntoEmpty, VerifiesLoaded, SilentUntilDone
  <2>7. outcome = "none"
    BY <1>0 DEF SilentUntilDone
  <2>8. OutcomeIsTrue' /\ OldDataIsSafe' /\ RollbackFailsForCause'
    BY <1>0, <1>2, <2>2, <2>7 DEF OutcomeIsTrue, OldDataIsSafe, RollbackFailsForCause, taskVars
  <2> QED
    BY <2>3, <2>4, <2>5, <2>6, <2>8
<1> QED
  BY <1>1, <1>2 DEF TargetExists

\* UploadProtection: the import begins with the old content in the snapshot.
LEMMA UploadProtectionStep == ExecutionInv /\ UploadProtection => ExecutionInv'
<1> SUFFICES ASSUME ExecutionInv, UploadProtection PROVE ExecutionInv'
  OBVIOUS
<1> USE DEF ExecutionInv
<1>0. step.pc = "protect" /\ UNCHANGED <<taskVars, db, occupied, ctxDone>>
  BY DEF UploadProtection, At
<1>1. CASE Reports("pre_backup_failed") /\ UNCHANGED shield
  BY <1>0, <1>1, EarlyReport
<1>2. CASE Goes("import") /\ shield' = db.data
  <2>1. step \in StepType /\ "import" \in Steps
    BY DEF ExecutionTypeOK, StepType, Steps
  <2>2. step.hadOld /\ ~step.isNew /\ ~step.rolling /\ db.data = Old
    BY <1>0 DEF Untouched, Prepared
  <2>3. /\ step' \in StepType /\ step'.pc = "import"
        /\ step'.rolling = step.rolling /\ step'.isNew = step.isNew
        /\ step'.hadOld = step.hadOld
        /\ outcome' = outcome /\ disturbed' = disturbed
    BY <1>2, <2>1, GoesFact
  <2>4. ExecutionTypeOK'
    BY <1>0, <1>2, <2>2, <2>3 DEF ExecutionTypeOK, taskVars, StepType
  <2>5. Prepared'
    BY <1>2, <2>1, <2>2, <2>3 DEF Prepared, Writing, StepType
  <2>6. Untouched' /\ EngineSteps' /\ LoadsIntoEmpty' /\ VerifiesLoaded' /\ SilentUntilDone'
    BY <1>0, <2>3 DEF Untouched, EngineSteps, LoadsIntoEmpty, VerifiesLoaded, SilentUntilDone,
       taskVars
  <2>7. outcome = "none"
    BY <1>0 DEF SilentUntilDone
  <2>8. OutcomeIsTrue' /\ OldDataIsSafe' /\ RollbackFailsForCause'
    BY <1>0, <1>2, <2>2, <2>3, <2>7 DEF OutcomeIsTrue, OldDataIsSafe, RollbackFailsForCause,
       taskVars
  <2> QED
    BY <2>4, <2>5, <2>6, <2>8
<1> QED
  BY <1>1, <1>2 DEF UploadProtection

-----------------------------------------------------------------------------
(* The commands of the import.                                               *)

\* What every command of the import may rely on and may leave behind.
LEMMA ImportFacts ==
  ASSUME ExecutionInv
  PROVE  /\ db \in DatabaseType /\ (~db.exists => db.data = {}) /\ occupied \in BOOLEAN
         /\ NoDatabase \in DatabaseType /\ NoDatabase.data = {}
         /\ EmptyDatabase \in DatabaseType /\ EmptyDatabase.exists
         /\ Artifact \subseteq Old \cup Snap
         /\ Partial(Artifact) \subseteq SUBSET Artifact
         /\ step.pc \in Writing \ {"remove"} => Artifact # {}
<1>1. db \in DatabaseType /\ (~db.exists => db.data = {}) /\ occupied \in BOOLEAN
  BY DEF ExecutionInv, ExecutionTypeOK, DatabaseType
<1>2. NoDatabase \in DatabaseType /\ NoDatabase.data = {}
  BY DEF NoDatabase, DatabaseType
<1>3. EmptyDatabase \in DatabaseType /\ EmptyDatabase.exists
  BY DEF EmptyDatabase, DatabaseType
<1>4. Artifact \subseteq Old \cup Snap
  BY DEF ExecutionInv, ExecutionTypeOK, Artifact, NoShield
<1>5. Partial(Artifact) \subseteq SUBSET Artifact
  BY DEF Partial
<1>6. ASSUME step.pc \in Writing \ {"remove"} PROVE Artifact # {}
  BY <1>6, Contents DEF ExecutionInv, Prepared, Artifact
<1> QED
  BY <1>1, <1>2, <1>3, <1>4, <1>5, <1>6

\* A load adds to the target.
LEMMA AddsFact ==
  ASSUME ExecutionInv, NEW s \in SUBSET Artifact
  PROVE  /\ Adds(s) \in DatabaseType
         /\ ~Adds(s).exists => Adds(s).data = {}
         /\ Adds(s).data = s \cup db.data
<1>1. db \in DatabaseType /\ (~db.exists => db.data = {}) /\ Artifact \subseteq Old \cup Snap
  BY ImportFacts
<1>2. (db.exists \/ s # {}) \in BOOLEAN /\ s \cup db.data \in SUBSET (Old \cup Snap \cup Foreign)
  BY <1>1 DEF DatabaseType
<1> QED
  BY <1>1, <1>2 DEF Adds, DatabaseType

\* MySQL: the batch of DROP and CREATE, and the load.
LEMMA MySQLStep == ExecutionInv /\ (MySQLSetup \/ MySQLLoad) => ExecutionInv'
<1> SUFFICES ASSUME ExecutionInv, MySQLSetup \/ MySQLLoad PROVE ExecutionInv'
  OBVIOUS
<1>1. CASE MySQLSetup
  <2>1. /\ step.pc \in Writing \ {"remove"} /\ engine = "mysql"
        /\ UNCHANGED <<taskVars, occupied, shield, ctxDone>>
    BY <1>1 DEF MySQLSetup, At, Writing
  <2>2. CASE db' = EmptyDatabase /\ Goes("load")
    BY <2>1, <2>2, ImportFacts, GoesKeeps
  <2>3. CASE Broken(TRUE) /\ db' \in {db, NoDatabase, EmptyDatabase}
    BY <2>1, <2>3, ImportFacts, BrokenKeeps
  <2> QED
    BY <1>1, <2>2, <2>3 DEF MySQLSetup
<1>2. CASE MySQLLoad
  <2>1. /\ step.pc \in Writing \ {"remove"} /\ engine = "mysql"
        /\ UNCHANGED <<taskVars, occupied, shield, ctxDone>>
    BY <1>2 DEF MySQLLoad, At, Writing
  <2>2. CASE Goes("verify") /\ db' = Adds(Artifact)
    <3>1. db = EmptyDatabase
      BY <1>2 DEF ExecutionInv, LoadsIntoEmpty, MySQLLoad, At
    <3>2. db' = [exists |-> TRUE, data |-> Artifact]
      BY <2>2, <3>1 DEF Adds, EmptyDatabase
    <3> QED
      BY <2>1, <2>2, <3>2, ImportFacts, AddsFact, GoesKeeps
  <2>3. CASE Broken(TRUE) /\ \E s \in Partial(Artifact) : db' = Adds(s)
    <3>1. PICK s \in Partial(Artifact) : db' = Adds(s)
      BY <2>3
    <3>2. s \in SUBSET Artifact
      BY ImportFacts
    <3>3. db' \in DatabaseType /\ (~db'.exists => db'.data = {})
      BY <3>1, <3>2, AddsFact
    <3> QED
      BY <2>1, <2>3, <3>3, ImportFacts, BrokenKeeps
  <2> QED
    BY <1>2, <2>2, <2>3 DEF MySQLLoad
<1> QED
  BY <1>1, <1>2

\* PostgreSQL: the right to rebuild, DROP and CREATE. Only a role that is no
\* superuser fails without a failing command.
LEMMA PostgreSQLRebuildStep ==
  ExecutionInv /\ (PostgreSQLPermit \/ PostgreSQLDrop \/ PostgreSQLCreate) => ExecutionInv'
<1> SUFFICES ASSUME ExecutionInv, PostgreSQLPermit \/ PostgreSQLDrop \/ PostgreSQLCreate
             PROVE  ExecutionInv'
  OBVIOUS
<1>1. CASE PostgreSQLPermit
  <2>1. /\ step.pc \in Writing \ {"remove"} /\ engine = "postgresql"
        /\ UNCHANGED <<taskVars, db, shield, ctxDone>>
    BY <1>1 DEF PostgreSQLPermit, At, Writing
  <2>2. CASE Goes("create") /\ UNCHANGED occupied
    BY <2>1, <2>2, ImportFacts, GoesKeeps
  <2>3. CASE Goes("drop") /\ occupied' = FALSE
    BY <2>1, <2>3, ImportFacts, GoesKeeps
  <2>4. CASE ~MayRebuild /\ Broken(FALSE) /\ UNCHANGED occupied
    <3>1. role # "superuser"
      BY <2>4 DEF MayRebuild
    <3> QED
      BY <2>1, <2>4, <3>1, ImportFacts, BrokenKeeps
  <2>5. CASE Broken(TRUE) /\ UNCHANGED occupied
    BY <2>1, <2>5, ImportFacts, BrokenKeeps
  <2> QED
    BY <1>1, <2>2, <2>3, <2>4, <2>5 DEF PostgreSQLPermit
<1>2. CASE PostgreSQLDrop
  <2>1. /\ step.pc \in Writing \ {"remove"} /\ engine = "postgresql"
        /\ UNCHANGED <<taskVars, occupied, shield, ctxDone>>
    BY <1>2 DEF PostgreSQLDrop, At, Writing
  <2>2. CASE Goes("create") /\ db' = NoDatabase
    BY <2>1, <2>2, ImportFacts, GoesKeeps
  <2>3. CASE Broken(TRUE) /\ db' \in {db, NoDatabase}
    BY <2>1, <2>3, ImportFacts, BrokenKeeps
  <2> QED
    BY <1>2, <2>2, <2>3 DEF PostgreSQLDrop
<1>3. CASE PostgreSQLCreate
  <2>1. /\ step.pc \in Writing \ {"remove"} /\ engine = "postgresql"
        /\ UNCHANGED <<taskVars, occupied, shield, ctxDone>>
    BY <1>3 DEF PostgreSQLCreate, At, Writing
  <2>2. CASE Goes("load") /\ db' = EmptyDatabase
    BY <2>1, <2>2, ImportFacts, GoesKeeps
  <2>3. CASE role = "owner" /\ Broken(FALSE) /\ UNCHANGED db
    BY <2>1, <2>3, ImportFacts, BrokenKeeps
  <2>4. CASE Broken(TRUE) /\ db' \in {db, EmptyDatabase}
    BY <2>1, <2>4, ImportFacts, BrokenKeeps
  <2> QED
    BY <1>3, <2>2, <2>3, <2>4 DEF PostgreSQLCreate
<1> QED
  BY <1>1, <1>2, <1>3

\* pg_restore: what goes on to the verification is the whole artifact, and
\* nothing else is in the database it was loaded into.
LEMMA PostgreSQLLoadStep == ExecutionInv /\ PostgreSQLLoad => ExecutionInv'
<1> SUFFICES ASSUME ExecutionInv, PostgreSQLLoad PROVE ExecutionInv'
  OBVIOUS
<1>1. /\ step.pc \in Writing \ {"remove"} /\ engine = "postgresql"
      /\ UNCHANGED <<taskVars, occupied, shield, ctxDone>>
      /\ db = EmptyDatabase
  BY DEF PostgreSQLLoad, At, Writing, ExecutionInv, LoadsIntoEmpty
<1>2. PICK s \in Partial(Artifact) :
        /\ db' = Adds(s)
        /\ (Goes("verify") /\ s = Artifact) \/ Broken(TRUE)
  BY DEF PostgreSQLLoad, IgnorableErrors
<1>3. /\ db' \in DatabaseType /\ (~db'.exists => db'.data = {})
      /\ db'.data = s
  <2>1. s \in SUBSET Artifact
    BY ImportFacts
  <2>2. /\ db' \in DatabaseType /\ (~db'.exists => db'.data = {})
        /\ db'.data = s \cup db.data
    BY <1>2, <2>1, AddsFact
  <2> QED
    BY <1>1, <2>2 DEF EmptyDatabase
<1>4. CASE Goes("verify") /\ s = Artifact
  <2>1. db' = [exists |-> TRUE, data |-> Artifact]
    BY <1>1, <1>2, <1>4 DEF Adds, EmptyDatabase
  <2> QED
    BY <1>1, <1>3, <1>4, <2>1, ImportFacts, GoesKeeps
<1>5. CASE Broken(TRUE)
  BY <1>1, <1>3, <1>5, ImportFacts, BrokenKeeps
<1> QED
  BY <1>2, <1>4, <1>5

\* MongoDB: dropDatabase, and mongorestore, which replaces the collections that
\* the archive names.
LEMMA MongoDBStep == ExecutionInv /\ (MongoDBDrop \/ MongoDBLoad) => ExecutionInv'
<1> SUFFICES ASSUME ExecutionInv, MongoDBDrop \/ MongoDBLoad PROVE ExecutionInv'
  OBVIOUS
<1>1. CASE MongoDBDrop
  <2>1. /\ step.pc \in Writing \ {"remove"} /\ engine = "mongodb"
        /\ UNCHANGED <<taskVars, occupied, shield, ctxDone>>
    BY <1>1 DEF MongoDBDrop, At, Writing
  <2>2. CASE Goes("load") /\ ((step.isNew /\ db' = db) \/ db' = NoDatabase)
    BY <2>1, <2>2, ImportFacts, GoesKeeps
  <2>3. CASE Broken(TRUE) /\ db' \in {db, NoDatabase}
    BY <2>1, <2>3, ImportFacts, BrokenKeeps
  <2> QED
    BY <1>1, <2>2, <2>3 DEF MongoDBDrop
<1>2. CASE MongoDBLoad
  <2> DEFINE kept(s) == {x \in db.data : x[2] \notin Names(s)}
             loaded(s) == IF step.isNew THEN Adds(s)
                          ELSE [exists |-> db.exists \/ s # {}, data |-> s \cup kept(s)]
  <2>1. /\ step.pc \in Writing \ {"remove"} /\ engine = "mongodb"
        /\ UNCHANGED <<taskVars, occupied, shield, ctxDone>>
        /\ \/ Goes("verify") /\ db' = loaded(Artifact)
           \/ Broken(TRUE) /\ \E s \in Partial(Artifact) : db' = loaded(s)
    BY <1>2 DEF MongoDBLoad, At, Writing
  <2>2. ASSUME NEW s \in SUBSET Artifact
        PROVE  /\ loaded(s) \in DatabaseType /\ (~loaded(s).exists => loaded(s).data = {})
               /\ s \subseteq loaded(s).data
    <3>1. CASE step.isNew
      BY <3>1, AddsFact
    <3>2. CASE ~step.isNew
      <4>1. db \in DatabaseType /\ (~db.exists => db.data = {}) /\ Artifact \subseteq Old \cup Snap
        BY ImportFacts
      <4>2. s \cup kept(s) \in SUBSET (Old \cup Snap \cup Foreign)
        BY <4>1 DEF DatabaseType
      <4>3. (db.exists \/ s # {}) \in BOOLEAN
        OBVIOUS
      <4>4. db.data = {} /\ s = {} => s \cup kept(s) = {}
        OBVIOUS
      <4> HIDE DEF kept
      <4> QED
        BY <3>2, <4>1, <4>2, <4>3, <4>4 DEF DatabaseType
    <3> QED
      BY <3>1, <3>2
  <2> HIDE DEF loaded
  <2>3. CASE Goes("verify") /\ db' = loaded(Artifact)
    <3>1. ASSUME step.rolling PROVE db' = [exists |-> TRUE, data |-> Artifact]
      <4>1. ~step.isNew /\ Artifact = Old /\ db.data \subseteq Foreign
        BY <1>2, <2>1, <3>1 DEF ExecutionInv, Prepared, LoadsIntoEmpty, MongoDBLoad, At, Artifact
      <4>2. kept(Artifact) = {}
        BY <4>1, ForeignNames
      <4>3. (db.exists \/ Artifact # {}) = TRUE
        BY <4>1, Contents
      <4> QED
        BY <2>3, <4>1, <4>2, <4>3 DEF loaded
    <3> QED
      BY <2>1, <2>2, <2>3, <3>1, ImportFacts, GoesKeeps
  <2>4. CASE Broken(TRUE) /\ \E s \in Partial(Artifact) : db' = loaded(s)
    <3>1. PICK s \in Partial(Artifact) : db' = loaded(s)
      BY <2>4
    <3>2. s \in SUBSET Artifact
      BY ImportFacts
    <3>3. db' \in DatabaseType /\ (~db'.exists => db'.data = {})
      BY <2>2, <3>1, <3>2
    <3> QED
      BY <2>1, <2>4, <3>3, ImportFacts, BrokenKeeps
  <2> QED
    BY <2>1, <2>3, <2>4
<1> QED
  BY <1>1, <1>2

\* SQLite: a new target must still be absent, which a rollback never asks.
LEMMA SQLiteStep == ExecutionInv /\ (SQLiteCopy \/ SQLiteReplace) => ExecutionInv'
<1> SUFFICES ASSUME ExecutionInv, SQLiteCopy \/ SQLiteReplace PROVE ExecutionInv'
  OBVIOUS
<1>1. CASE SQLiteCopy
  <2>1. /\ step.pc \in Writing \ {"remove"} /\ engine = "sqlite"
        /\ UNCHANGED <<taskVars, db, occupied, shield, ctxDone>>
    BY <1>1 DEF SQLiteCopy, At, Writing
  <2>2. CASE Goes("load")
    BY <2>1, <2>2, ImportFacts, GoesKeeps
  <2>3. CASE step.isNew /\ Broken(FALSE)
    <3>1. ~step.rolling
      BY <2>1, <2>3 DEF ExecutionInv, Prepared
    <3> QED
      BY <2>1, <2>3, <3>1, ImportFacts, BrokenKeeps
  <2>4. CASE Broken(TRUE)
    BY <2>1, <2>4, ImportFacts, BrokenKeeps
  <2> QED
    BY <1>1, <2>2, <2>3, <2>4 DEF SQLiteCopy
<1>2. CASE SQLiteReplace
  <2>1. /\ step.pc \in Writing \ {"remove"} /\ engine = "sqlite"
        /\ UNCHANGED <<taskVars, occupied, shield, ctxDone>>
    BY <1>2 DEF SQLiteReplace, At, Writing
  <2>2. CASE Goes("verify") /\ db' = [exists |-> TRUE, data |-> Artifact]
    <3>1. db' \in DatabaseType /\ db'.exists /\ db'.data = Artifact /\ occupied' \in BOOLEAN
      BY <2>1, <2>2, ImportFacts DEF DatabaseType
    <3> QED
      BY <2>1, <2>2, <3>1, GoesKeeps
  <2>3. CASE Broken(TRUE) /\ UNCHANGED db
    BY <2>1, <2>3, ImportFacts, BrokenKeeps
  <2> QED
    BY <1>2, <2>2, <2>3 DEF SQLiteReplace
<1> QED
  BY <1>1, <1>2

\* The verification refuses nothing that was loaded completely.
LEMMA LoadedVerifies ==
  ASSUME ExecutionInv, step.pc = "verify", engine \in Databases
  PROVE  step.rolling => Verifies
<1> SUFFICES ASSUME step.rolling PROVE Verifies
  OBVIOUS
<1>1. Artifact \subseteq db.data /\ (engine = "postgresql" => db.data = Artifact)
  BY DEF ExecutionInv, VerifiesLoaded
<1>2. Artifact = Old
  BY DEF ExecutionInv, Prepared, Writing, Artifact
<1>3. Names(Artifact) \subseteq Names(db.data) /\ Names(Artifact) # {}
  BY <1>1, <1>2, NamesGrow, Contents
<1> QED
  BY <1>1, <1>3 DEF Verifies, MySQLVerifies, PostgreSQLVerifies, MongoDBVerifies,
     SQLiteVerifies, Databases

\* VerifyRestored reports what was loaded: the snapshot, or the old content.
LEMMA VerifyStep == ExecutionInv /\ VerifyRestored => ExecutionInv'
<1> SUFFICES ASSUME ExecutionInv, VerifyRestored PROVE ExecutionInv'
  OBVIOUS
<1>1. /\ step.pc = "verify" /\ step.pc \in Writing \ {"remove"}
      /\ UNCHANGED <<taskVars, db, occupied, shield, ctxDone>>
  BY DEF VerifyRestored, At, Writing
<1>2. engine # "filesystem"
  BY <1>1 DEF ExecutionInv, EngineSteps, Writing
<1>3. engine \in Databases
  BY <1>2 DEF ExecutionInv, ExecutionTypeOK
<1>4. CASE Reports(IF step.rolling THEN "rolled_back" ELSE "succeeded")
  <2> DEFINE ph == IF step.rolling THEN "rolled_back" ELSE "succeeded"
  <2>1. ph \in Phases \ {"rollback_failed"} /\ ph \in {"rolled_back", "succeeded"}
    BY DEF Phases
  <2>2. Artifact \subseteq db.data
    BY <1>1 DEF ExecutionInv, VerifiesLoaded
  <2>21. /\ step.isNew = ~step.hadOld /\ step.isNew \in BOOLEAN
         /\ shield = IF step.isNew THEN NoShield ELSE Old
         /\ step.rolling => ~step.isNew
    BY <1>1 DEF ExecutionInv, Prepared, ExecutionTypeOK
  <2>3. /\ ph = "succeeded" => Delivered'
        /\ ph = "rolled_back" => Old \subseteq db'.data
        /\ step.hadOld => shield = Old
    BY <1>1, <2>2, <2>21 DEF Artifact, Delivered
  <2>4. Reports(ph)
    BY <1>4
  <2> HIDE DEF ph
  <2> QED
    BY <1>1, <2>1, <2>3, <2>4, ImportFacts, ReportsKeeps
<1>5. CASE ~Verifies /\ Broken(FALSE)
  BY <1>1, <1>3, <1>5, LoadedVerifies, ImportFacts, BrokenKeeps
<1>6. CASE Broken(TRUE)
  BY <1>1, <1>6, ImportFacts, BrokenKeeps
<1> QED
  BY <1>4, <1>5, <1>6 DEF VerifyRestored

-----------------------------------------------------------------------------
(* The rollback, and the restore of files.                                   *)

\* RemoveTarget runs only for a target that was not there.
LEMMA RemoveStep == ExecutionInv /\ RemoveTarget => ExecutionInv'
<1> SUFFICES ASSUME ExecutionInv, RemoveTarget PROVE ExecutionInv'
  OBVIOUS
<1>1. step.pc = "remove" /\ step.pc \in Writing /\ UNCHANGED <<taskVars, shield, ctxDone>>
  BY DEF RemoveTarget, At, Writing
<1>2. CASE db' = NoDatabase /\ occupied' = FALSE /\ Reports("new_target_cleaned")
  <2>1. "new_target_cleaned" \in Phases \ {"rollback_failed"}
    BY DEF Phases
  <2>2. ~step.hadOld
    BY <1>1 DEF ExecutionInv, Prepared, ExecutionTypeOK
  <2> QED
    BY <1>1, <1>2, <2>1, <2>2, ImportFacts, ReportsKeeps
<1>3. CASE Broken(TRUE) /\ db' \in {db, NoDatabase} /\ UNCHANGED occupied
  BY <1>1, <1>3, ImportFacts, BrokenKeeps
<1> QED
  BY <1>2, <1>3 DEF RemoveTarget

\* FetchProtection always has a protection snapshot to fetch.
LEMMA FetchStep == ExecutionInv /\ FetchProtection => ExecutionInv'
<1> SUFFICES ASSUME ExecutionInv, FetchProtection PROVE ExecutionInv'
  OBVIOUS
<1>1. /\ step.pc = "fetch" /\ step.pc \in Writing \ {"remove"}
      /\ UNCHANGED <<taskVars, db, occupied, shield, ctxDone>>
  BY DEF FetchProtection, At, Writing
<1>2. shield # NoShield
  BY <1>1, Contents DEF ExecutionInv, Prepared, NoShield
<1>3. CASE Goes("import")
  BY <1>1, <1>3, ImportFacts, GoesKeeps
<1>4. CASE Broken(TRUE)
  BY <1>1, <1>4, ImportFacts, BrokenKeeps
<1> QED
  BY <1>2, <1>3, <1>4 DEF FetchProtection

\* CheckFiles refuses before anything is written.
LEMMA CheckFilesStep == ExecutionInv /\ CheckFiles => ExecutionInv'
<1> SUFFICES ASSUME ExecutionInv, CheckFiles PROVE ExecutionInv'
  OBVIOUS
<1> USE DEF ExecutionInv
<1>0. /\ step.pc = "files" /\ UNCHANGED <<taskVars, db, occupied, shield, ctxDone>>
      /\ \/ (order.replace \/ db.data = {}) /\ Goes("copy")
         \/ Reports("failed") \/ Reports("listed") \/ Reports("broken")
  BY DEF CheckFiles, At
<1>1. CASE Reports("failed") \/ Reports("listed")
  BY <1>0, <1>1, EarlyReport
<1>2. CASE Reports("broken")
  <2>1. "broken" \in Phases \ {"rollback_failed"}
    BY DEF Phases
  <2>2. step.hadOld => Old \subseteq db'.data
    BY <1>0 DEF Untouched
  <2> QED
    BY <1>0, <1>2, <2>1, <2>2, ImportFacts, ReportsKeeps
<1>3. CASE (order.replace \/ db.data = {}) /\ Goes("copy")
  <2>1. step \in StepType /\ "copy" \in Steps
    BY DEF ExecutionTypeOK, StepType, Steps
  <2>2. /\ ~step.rolling /\ shield = NoShield /\ engine = "filesystem"
        /\ db.data = (IF step.hadOld THEN Old ELSE {})
    BY <1>0 DEF Untouched, EngineSteps
  <2>3. step.hadOld => order.replace
    BY <1>3, <2>2, Contents
  <2>4. /\ step' \in StepType /\ step'.pc = "copy"
        /\ step'.rolling = step.rolling /\ step'.isNew = step.isNew
        /\ step'.hadOld = step.hadOld
        /\ outcome' = outcome /\ disturbed' = disturbed
    BY <1>3, <2>1, GoesFact
  <2>5. ExecutionTypeOK'
    BY <1>0, <2>4 DEF ExecutionTypeOK, taskVars, StepType
  <2>6. EngineSteps'
    BY <1>0, <1>3, <2>2, <2>3, <2>4 DEF EngineSteps, taskVars
  <2>7. Untouched' /\ Prepared' /\ LoadsIntoEmpty' /\ VerifiesLoaded' /\ SilentUntilDone'
    BY <1>0, <2>4 DEF Untouched, Prepared, LoadsIntoEmpty, VerifiesLoaded, SilentUntilDone,
       Writing
  <2>8. outcome = "none"
    BY <1>0 DEF SilentUntilDone
  <2>9. OutcomeIsTrue' /\ OldDataIsSafe' /\ RollbackFailsForCause'
    BY <1>0, <2>4, <2>8 DEF OutcomeIsTrue, OldDataIsSafe, RollbackFailsForCause, taskVars
  <2> QED
    BY <2>5, <2>6, <2>7, <2>9
<1> QED
  BY <1>0, <1>1, <1>2, <1>3

\* RestoreFiles brings the snapshot, and leaves only what it may not overwrite.
LEMMA FilesStep == ExecutionInv /\ RestoreFiles => ExecutionInv'
<1> SUFFICES ASSUME ExecutionInv, RestoreFiles PROVE ExecutionInv'
  OBVIOUS
<1> DEFINE over(s) == s \cup {x \in db.data : x[2] \notin Names(s)}
           under(s) == db.data \cup {x \in s : x[2] \notin Names(db.data)}
           brought(s) == [exists |-> TRUE, data |-> IF order.replace THEN over(s) ELSE under(s)]
<1>1. /\ step.pc = "copy" /\ UNCHANGED <<taskVars, occupied, shield, ctxDone>>
      /\ \/ Reports("succeeded") /\ db' = brought(Snap)
         \/ Reports("broken") /\ \E s \in Partial(Snap) : db' = brought(s)
  BY DEF RestoreFiles, At
<1>2. /\ engine = "filesystem" /\ (step.hadOld => order.replace)
      /\ order.replace \/ db.data \subseteq Foreign
      /\ db \in DatabaseType /\ occupied \in BOOLEAN
  BY <1>1, ImportFacts DEF ExecutionInv, EngineSteps
<1>3. ASSUME NEW s \in SUBSET Snap, db' = brought(s)
      PROVE  db' \in DatabaseType /\ db'.exists
             /\ db'.data = IF order.replace THEN over(s) ELSE under(s)
  <2>1. over(s) \in SUBSET (Old \cup Snap \cup Foreign) /\ under(s) \in SUBSET (Old \cup Snap \cup Foreign)
    BY <1>2 DEF DatabaseType
  <2> HIDE DEF over, under
  <2> QED
    BY <1>3, <2>1 DEF DatabaseType
<1>4. CASE Reports("succeeded") /\ db' = brought(Snap)
  <2>1. "succeeded" \in Phases \ {"rollback_failed"}
    BY DEF Phases
  <2>2. db' \in DatabaseType /\ db'.exists
        /\ db'.data = IF order.replace THEN over(Snap) ELSE under(Snap)
    BY <1>3, <1>4
  <2>3. Delivered'
    <3>1. CASE order.replace
      BY <1>1, <2>2, <3>1 DEF Delivered, taskVars
    <3>2. CASE ~order.replace
      <4>1. db.data \subseteq Foreign /\ db'.data = under(Snap)
        BY <1>2, <2>2, <3>2
      <4>2. Names(db.data) \subseteq Names(db'.data \cap Foreign)
        BY <4>1, NamesGrow
      <4> QED
        BY <1>1, <1>2, <3>2, <4>1, <4>2 DEF Delivered, taskVars
    <3> QED
      BY <3>1, <3>2
  <2> QED
    BY <1>1, <1>2, <1>4, <2>1, <2>2, <2>3, ReportsKeeps
<1>5. CASE Reports("broken") /\ \E s \in Partial(Snap) : db' = brought(s)
  <2>1. "broken" \in Phases \ {"rollback_failed"}
    BY DEF Phases
  <2>2. PICK s \in SUBSET Snap : db' = brought(s)
    BY <1>5 DEF Partial
  <2>3. db' \in DatabaseType /\ db'.exists
    BY <1>3, <2>2
  <2> QED
    BY <1>1, <1>2, <1>5, <2>1, <2>3, ReportsKeeps
<1> QED
  BY <1>1, <1>4, <1>5

-----------------------------------------------------------------------------
(* The environment.                                                          *)

\* A cancellation, a crash, another session, another creator of the target.
LEMMA EnvironmentStep ==
  ExecutionInv /\ (CancelRestore \/ AgentCrash \/ SessionChanges \/ OtherCreates) => ExecutionInv'
<1> SUFFICES ASSUME ExecutionInv, CancelRestore \/ AgentCrash \/ SessionChanges \/ OtherCreates
             PROVE  ExecutionInv'
  OBVIOUS
<1> USE DEF ExecutionInv
<1>0. step.pc \notin {"done", "crashed"} /\ outcome = "none"
  BY DEF CancelRestore, AgentCrash, SessionChanges, OtherCreates, Running, SilentUntilDone
<1>1. CASE CancelRestore
  <2>1. ctxDone' \in BOOLEAN /\ UNCHANGED <<engine, order, role, db, occupied, step, shield,
                                            outcome, disturbed>>
    BY <1>1 DEF CancelRestore, taskVars
  <2>2. ExecutionTypeOK'
    BY <2>1 DEF ExecutionTypeOK
  <2>3. Untouched' /\ EngineSteps' /\ Prepared' /\ LoadsIntoEmpty' /\ SilentUntilDone'
    BY <2>1 DEF Untouched, EngineSteps, Prepared, LoadsIntoEmpty, SilentUntilDone
  <2>4. VerifiesLoaded'
    BY <2>1 DEF VerifiesLoaded, Artifact
  <2>5. OutcomeIsTrue' /\ OldDataIsSafe' /\ RollbackFailsForCause'
    BY <1>0, <2>1 DEF OutcomeIsTrue, OldDataIsSafe, RollbackFailsForCause
  <2> QED
    BY <2>2, <2>3, <2>4, <2>5
<1>2. CASE AgentCrash
  <2>1. /\ UNCHANGED <<engine, order, role, db, occupied, shield, outcome, ctxDone, disturbed>>
        /\ step' = [step EXCEPT !.pc = "crashed"]
    BY <1>2 DEF AgentCrash, taskVars
  <2>2. step' \in StepType /\ step'.pc = "crashed" /\ step'.hadOld = step.hadOld
    BY <2>1 DEF ExecutionTypeOK, StepType, Steps
  <2>3. ExecutionTypeOK'
    BY <2>1, <2>2 DEF ExecutionTypeOK, StepType
  <2>4. /\ Untouched' /\ EngineSteps' /\ Prepared' /\ LoadsIntoEmpty' /\ VerifiesLoaded'
        /\ SilentUntilDone'
    BY <1>0, <2>1, <2>2 DEF Untouched, EngineSteps, Prepared, LoadsIntoEmpty, VerifiesLoaded,
       SilentUntilDone, Writing
  <2>5. OutcomeIsTrue' /\ OldDataIsSafe' /\ RollbackFailsForCause'
    BY <1>0, <2>1, <2>2 DEF OutcomeIsTrue, OldDataIsSafe, RollbackFailsForCause
  <2> QED
    BY <2>3, <2>4, <2>5
<1>3. CASE SessionChanges
  <2>1. /\ UNCHANGED <<engine, order, role, db, step, shield, outcome, ctxDone>>
        /\ occupied' \in BOOLEAN /\ disturbed' \in BOOLEAN
    BY <1>3 DEF SessionChanges, taskVars, ExecutionTypeOK
  <2>2. ExecutionTypeOK'
    BY <2>1 DEF ExecutionTypeOK
  <2>3. Untouched' /\ EngineSteps' /\ Prepared' /\ LoadsIntoEmpty' /\ SilentUntilDone'
    BY <2>1 DEF Untouched, EngineSteps, Prepared, LoadsIntoEmpty, SilentUntilDone
  <2>4. VerifiesLoaded'
    BY <2>1 DEF VerifiesLoaded, Artifact
  <2>5. OutcomeIsTrue' /\ OldDataIsSafe' /\ RollbackFailsForCause'
    BY <1>0, <2>1 DEF OutcomeIsTrue, OldDataIsSafe, RollbackFailsForCause
  <2> QED
    BY <2>2, <2>3, <2>4, <2>5
<1>4. CASE OtherCreates
  <2>1. /\ UNCHANGED <<engine, order, role, occupied, step, shield, outcome, ctxDone>>
        /\ ~db.exists /\ db' = [exists |-> TRUE, data |-> Foreign]
        /\ step.pc \notin {"download", "preflight", "exists", "files"}
        /\ disturbed' \in BOOLEAN
    BY <1>4 DEF OtherCreates, taskVars, ExecutionTypeOK
  <2>2. db' \in DatabaseType /\ db'.exists /\ db.data = {}
    BY <2>1 DEF DatabaseType, ExecutionTypeOK
  <2>3. ExecutionTypeOK'
    BY <2>1, <2>2 DEF ExecutionTypeOK, DatabaseType
  <2>4. step.pc # "protect"
    BY <2>1 DEF Untouched, Prepared
  <2>5. Untouched' /\ EngineSteps' /\ Prepared' /\ SilentUntilDone'
    BY <2>1, <2>4 DEF Untouched, EngineSteps, Prepared, SilentUntilDone
  <2>6. ~(step.pc = "load" /\ engine \in {"mysql", "postgresql"})
    BY <2>1 DEF LoadsIntoEmpty, EmptyDatabase
  <2>7. step.pc # "verify"
    BY <2>2, ImportFacts DEF VerifiesLoaded, Writing
  <2>8. LoadsIntoEmpty' /\ VerifiesLoaded'
    BY <2>1, <2>6, <2>7 DEF LoadsIntoEmpty, VerifiesLoaded
  <2>9. OldDataIsSafe'
    BY <2>1, <2>2, Contents DEF OldDataIsSafe
  <2>10. OutcomeIsTrue' /\ RollbackFailsForCause'
    BY <1>0, <2>1 DEF OutcomeIsTrue, RollbackFailsForCause
  <2> QED
    BY <2>3, <2>5, <2>8, <2>9, <2>10
<1> QED
  BY <1>1, <1>2, <1>3, <1>4

\* Every step keeps the invariant.
LEMMA ExecutionStep == ExecutionInv /\ [ExecutionNext]_executionVars => ExecutionInv'
<1> SUFFICES ASSUME ExecutionInv, [ExecutionNext]_executionVars PROVE ExecutionInv'
  OBVIOUS
<1>1. CASE UNCHANGED executionVars
  <2> USE <1>1 DEF executionVars, taskVars, ExecutionInv
  <2>1. ExecutionTypeOK' /\ Untouched' /\ EngineSteps' /\ Prepared' /\ LoadsIntoEmpty'
    BY DEF ExecutionTypeOK, Untouched, EngineSteps, Prepared, LoadsIntoEmpty
  <2>2. VerifiesLoaded' /\ SilentUntilDone'
    BY DEF VerifiesLoaded, Artifact, SilentUntilDone
  <2>3. OutcomeIsTrue' /\ OldDataIsSafe' /\ RollbackFailsForCause'
    BY DEF OutcomeIsTrue, Delivered, OldDataIsSafe, RollbackFailsForCause
  <2> QED
    BY <2>1, <2>2, <2>3
<1>2. CASE ExecutionNext
  BY <1>2, DownloadStep, TargetExistsStep, UploadProtectionStep, MySQLStep,
     PostgreSQLRebuildStep, PostgreSQLLoadStep, MongoDBStep, SQLiteStep, VerifyStep, RemoveStep,
     FetchStep, CheckFilesStep, FilesStep, EnvironmentStep
  DEF ExecutionNext
<1> QED
  BY <1>1, <1>2

\* The invariant holds in every state of a restore.
LEMMA ExecutionInvariant == ExecutionSpec => []ExecutionInv
  BY ExecutionInitInv, ExecutionStep, PTL DEF ExecutionSpec

-----------------------------------------------------------------------------
(* The theorems.                                                             *)

\* The task, the target, the running command and the report keep their types.
THEOREM ExecutionTypeCorrect == ExecutionSpec => []ExecutionTypeOK
  BY ExecutionInvariant, PTL DEF ExecutionInv

\* Whatever fails, is killed or interferes, the phase that runDatabaseRestore or
\* runFilesystemRestore reports is true of the target.
THEOREM OutcomesAreTrue == ExecutionSpec => []OutcomeIsTrue
  BY ExecutionInvariant, PTL DEF ExecutionInv

\* At every moment, a crash included, the old content is in the target or in
\* the protection snapshot.
THEOREM OldDataStaysSafe == ExecutionSpec => []OldDataIsSafe
  BY ExecutionInvariant, PTL DEF ExecutionInv

\* rollbackDatabaseRestore fails only if one of its commands fails, another
\* session or actor interferes, or PostgreSQL denies the role.
THEOREM RollbacksFailForCause == ExecutionSpec => []RollbackFailsForCause
  BY ExecutionInvariant, PTL DEF ExecutionInv

-----------------------------------------------------------------------------
(* The pipeline implements RestorePromise.                                   *)

PromiseStep == [Promise!Next]_(Promise!vars)

\* The stages, pc by pc.
LEMMA Stages ==
  ASSUME step \in StepType
  PROVE  /\ step.pc \in {"done", "crashed"} => Stage = "ended"
         /\ step.pc = "protect" => Stage = "pre_backup"
         /\ step.pc \in {"download", "preflight", "exists", "files"} => Stage = "preparing"
         /\ step.pc \in Writing \cup {"copy"} =>
              Stage = IF step.rolling THEN "rolling_back" ELSE "restoring"
         /\ Content \in Promise!Targets
  BY DEF Stage, Content, Writing, Promise!Targets

\* The same of the next state.
LEMMA NextStages ==
  ASSUME step' \in StepType
  PROVE  /\ step'.pc \in {"done", "crashed"} => Stage' = "ended"
         /\ step'.pc = "protect" => Stage' = "pre_backup"
         /\ step'.pc \in {"download", "preflight", "exists", "files"} => Stage' = "preparing"
         /\ step'.pc \in Writing \cup {"copy"} =>
              Stage' = IF step'.rolling THEN "rolling_back" ELSE "restoring"
         /\ Content' \in Promise!Targets
  BY DEF Stage, Content, Writing, Promise!Targets

\* A target as it was holds no whole snapshot, so what is delivered is a change.
LEMMA DeliveredIsRestored ==
  ASSUME Delivered' PROVE Content' = "restored"
<1>1. PICK x \in Snap : TRUE
  BY Contents
<1>2. /\ Old \cap Foreign = {} /\ {} \cap Foreign = {}
      /\ x \notin Old /\ x \notin {} /\ Names({}) = {}
  BY <1>1, Contents DEF Old, Foreign, Names
<1>3. ASSUME db' = [exists |-> TRUE, data |-> Old] PROVE FALSE
  <2>1. db'.data = Old
    BY <1>3
  <2> QED
    BY <1>1, <1>2, <2>1 DEF Delivered
<1>4. ASSUME db' = NoDatabase PROVE FALSE
  <2>1. db'.data = {}
    BY <1>4 DEF NoDatabase
  <2> QED
    BY <1>1, <1>2, <2>1 DEF Delivered
<1> QED
  BY <1>3, <1>4 DEF Content

\* Until the import begins the target is the original, in every part.
LEMMA UntouchedIsOriginal ==
  ASSUME ExecutionInv, step.pc \in {"download", "preflight", "exists", "protect", "files"}
  PROVE  db = IF step.hadOld THEN [exists |-> TRUE, data |-> Old] ELSE NoDatabase
<1>1. db \in DatabaseType /\ db.exists = step.hadOld /\ step.hadOld \in BOOLEAN
      /\ db.data = IF step.hadOld THEN Old ELSE {}
  BY DEF ExecutionInv, ExecutionTypeOK, DatabaseType, Untouched
<1>2. db = [exists |-> db.exists, data |-> db.data]
  BY <1>1 DEF DatabaseType
<1> QED
  BY <1>1, <1>2 DEF NoDatabase

\* The run goes on inside one stage, or reports nothing: the promise allows any
\* change of the target while it is written.
LEMMA WritePromise ==
  ASSUME ExecutionInv, step' \in StepType, step.pc \in Writing \cup {"copy"},
         step'.pc \in Writing \cup {"copy"}, step'.rolling = step.rolling, UNCHANGED shield
  PROVE  PromiseStep
<1>1. step \in StepType
  BY DEF ExecutionInv, ExecutionTypeOK, StepType
<1>2. Stage \in {"restoring", "rolling_back"} /\ Stage' = Stage /\ Content' \in Promise!Targets
  BY <1>1, Stages, NextStages
<1>3. Result = "pending" /\ Result' = "pending"
  BY DEF Result, Writing
<1>4. Promise!Write
  BY <1>2, <1>3 DEF Promise!Write
<1> QED
  BY <1>4 DEF PromiseStep, Promise!Next

\* A failing command of the import begins the rollback, one of the rollback
\* ends it without a claim about the target.
LEMMA BrokenPromise ==
  ASSUME ExecutionInv, NEW exogenous \in BOOLEAN, Broken(exogenous), step.pc \in Writing,
         UNCHANGED shield
  PROVE  PromiseStep
<1>1. step \in StepType /\ disturbed \in BOOLEAN
  BY DEF ExecutionInv, ExecutionTypeOK, StepType
<1>2. /\ step' \in StepType /\ step'.rolling
      /\ step.rolling => step'.pc = "done" /\ outcome' = "rollback_failed"
      /\ ~step.rolling => step'.pc = IF step.isNew THEN "remove" ELSE "fetch"
  BY <1>1, BrokenFact
<1>3. Content' \in Promise!Targets /\ Result = "pending"
  BY <1>2, NextStages DEF Result, Writing
<1>4. CASE step.rolling
  <2>1. Stage = "rolling_back" /\ Stage' = "ended" /\ Result' = "rollback_failed"
    BY <1>1, <1>2, <1>4, Stages, NextStages DEF Result
  <2>2. Promise!Report("rollback_failed")
    BY <1>3, <2>1 DEF Promise!Report, Promise!Truthful
  <2> QED
    BY <2>2 DEF PromiseStep, Promise!Next, Promise!Reports
<1>5. CASE ~step.rolling
  <2>1. Stage = "restoring" /\ Stage' = "rolling_back" /\ Result' = "pending"
    BY <1>1, <1>2, <1>5, Stages, NextStages DEF Result, Writing
  <2>2. Promise!RollBack
    BY <1>3, <2>1 DEF Promise!RollBack
  <2> QED
    BY <2>2 DEF PromiseStep, Promise!Next
<1> QED
  BY <1>4, <1>5

\* A result that is truthful is promised.
LEMMA ReportPromise ==
  ASSUME ExecutionInv, NEW ph \in Phases \ {"none", "broken"}, Reports(ph),
         step.pc \notin {"done", "crashed"}, UNCHANGED shield, Promise!Truthful(ph)
  PROVE  PromiseStep
<1>1. step \in StepType
  BY DEF ExecutionInv, ExecutionTypeOK, StepType
<1>2. step' \in StepType /\ step'.pc = "done" /\ outcome' = ph
  BY <1>1, ReportsFact
<1>3. Content' \in Promise!Targets /\ Stage' = "ended" /\ Result' = ph /\ Stage # "ended"
  BY <1>2, NextStages DEF Result, Stage
<1>4. Promise!Report(ph) /\ ph \in Promise!Reports
  BY <1>3 DEF Promise!Report, Promise!Reports, Phases
<1> QED
  BY <1>4 DEF PromiseStep, Promise!Next

\* So is one without a phase, from a filesystem restore.
LEMMA BrokenReportPromise ==
  ASSUME ExecutionInv, Reports("broken"), step.pc \in {"files", "copy"}, UNCHANGED shield,
         step.pc = "files" => UNCHANGED db
  PROVE  PromiseStep
<1>1. step \in StepType /\ ~step.rolling
  BY DEF ExecutionInv, ExecutionTypeOK, StepType, Untouched, EngineSteps
<1>2. step' \in StepType /\ step'.pc = "done" /\ outcome' = "broken" /\ step'.hadOld = step.hadOld
  BY <1>1, ReportsFact
<1>3. /\ Content' \in Promise!Targets /\ Stage' = "ended" /\ Result' = "none"
      /\ Stage = IF step.pc = "files" THEN "preparing" ELSE "restoring"
  BY <1>1, <1>2, Stages, NextStages DEF Result
<1>4. step.pc = "files" => Content' = Content
  <2> SUFFICES ASSUME step.pc = "files" PROVE Content' = Content
    OBVIOUS
  <2>1. db' = db
    OBVIOUS
  <2>2. db = (IF step.hadOld THEN [exists |-> TRUE, data |-> Old] ELSE NoDatabase)
    BY UntouchedIsOriginal DEF ExecutionInv
  <2> QED
    BY <1>2, <2>1, <2>2 DEF Content
<1>5. Promise!Report("none")
  BY <1>3, <1>4 DEF Promise!Report, Promise!Truthful
<1> QED
  BY <1>5 DEF PromiseStep, Promise!Next, Promise!Reports
\* A report before the import says nothing else of the target.
LEMMA EarlyReportPromise ==
  ASSUME ExecutionInv, NEW ph \in {"listed", "failed", "pre_backup_failed"}, Reports(ph),
         step.pc \in {"download", "preflight", "exists", "files", "protect"},
         (step.pc = "protect") = (ph = "pre_backup_failed"),
         UNCHANGED <<taskVars, db, shield>>
  PROVE  PromiseStep
<1>1. step \in StepType
  BY DEF ExecutionInv, ExecutionTypeOK, StepType
<1>2. step'.hadOld = step.hadOld
  BY <1>1, ReportsFact
<1>3. Content' = Content
  <2>1. db = (IF step.hadOld THEN [exists |-> TRUE, data |-> Old] ELSE NoDatabase)
    BY UntouchedIsOriginal
  <2> QED
    BY <1>2, <2>1 DEF Content
<1>4. Stage = IF ph = "pre_backup_failed" THEN "pre_backup" ELSE "preparing"
  BY <1>1, Stages
<1>5. Promise!Truthful(ph) /\ ph \in Phases \ {"none", "broken"}
  BY <1>3, <1>4 DEF Promise!Truthful, Phases
<1> QED
  BY <1>5, ReportPromise

\* Download and preflight stutter or refuse.
LEMMA EarlyPromise ==
  ASSUME ExecutionInv, Download \/ PreflightRestore PROVE PromiseStep
<1>1. /\ step.pc \in {"download", "preflight"} /\ UNCHANGED <<taskVars, db, occupied, shield, ctxDone>>
      /\ Reports("listed") \/ Reports("failed") \/ Goes("preflight") \/ Goes("exists")
  BY DEF Download, PreflightRestore, At
<1>2. CASE Reports("listed") \/ Reports("failed")
  BY <1>1, <1>2, EarlyReportPromise
<1>3. CASE Goes("preflight") \/ Goes("exists")
  <2>1. step \in StepType /\ "preflight" \in Steps /\ "exists" \in Steps
    BY DEF ExecutionInv, ExecutionTypeOK, StepType, Steps
  <2>2. /\ step' \in StepType /\ step'.pc \in {"preflight", "exists"}
        /\ step'.hadOld = step.hadOld
    BY <1>3, <2>1, GoesFact
  <2>3. Stage' = Stage /\ Result' = Result
    BY <1>1, <2>1, <2>2, Stages, NextStages DEF Result
  <2>4. Content' = Content
    <3>1. db = (IF step.hadOld THEN [exists |-> TRUE, data |-> Old] ELSE NoDatabase)
      BY <1>1, UntouchedIsOriginal
    <3> QED
      BY <1>1, <2>2, <3>1 DEF Content
  <2> QED
    BY <1>1, <2>3, <2>4 DEF PromiseStep, Promise!vars
<1> QED
  BY <1>1, <1>2, <1>3

\* The import begins with what was found protected, or with nothing there.
LEMMA BeginPromise ==
  ASSUME ExecutionInv, TargetExists \/ UploadProtection \/ CheckFiles PROVE PromiseStep
<1>1. step \in StepType /\ {"copy", "import"} \subseteq Steps
  BY DEF ExecutionInv, ExecutionTypeOK, StepType, Steps
<1>2. step.pc \in {"exists", "protect", "files"} /\ UNCHANGED <<taskVars, db, ctxDone>>
  BY DEF TargetExists, UploadProtection, CheckFiles, At
<1>3. ~step.rolling /\ shield = NoShield /\ Result = "pending"
      /\ Stage = IF step.pc = "protect" THEN "pre_backup" ELSE "preparing"
  BY <1>1, <1>2, Stages DEF ExecutionInv, Untouched, Result
<1>4. CASE TargetExists
  <2>1. step.pc = "exists" /\ UNCHANGED shield
    BY <1>4 DEF TargetExists, At
  <2>2. CASE Reports("failed")
    BY <1>2, <2>1, <2>2, EarlyReportPromise
  <2>3. CASE step' = [step EXCEPT !.isNew = ~db.exists,
                                  !.pc = IF db.exists THEN "protect" ELSE "import"]
    <3>1. /\ step' \in StepType /\ step'.pc \in {"protect", "import"}
          /\ step'.hadOld = step.hadOld /\ ~step'.rolling
      BY <1>1, <1>3, <2>3 DEF StepType, Steps, ExecutionInv, ExecutionTypeOK
    <3>2. /\ Stage' = IF step'.pc = "protect" THEN "pre_backup" ELSE "restoring"
          /\ Result' = "pending" /\ Content' \in Promise!Targets
      BY <3>1, NextStages DEF Result, Writing
    <3>3. db = (IF step.hadOld THEN [exists |-> TRUE, data |-> Old] ELSE NoDatabase)
      BY <1>2, UntouchedIsOriginal
    <3>4. Content' = Content
      BY <1>2, <3>1, <3>3 DEF Content
    <3>5. Promise!PreBackup \/ Promise!Import
      BY <1>3, <2>1, <3>1, <3>2, <3>4 DEF Promise!PreBackup, Promise!Import
    <3> QED
      BY <3>5 DEF PromiseStep, Promise!Next
  <2> QED
    BY <1>4, <2>2, <2>3 DEF TargetExists
<1>5. CASE UploadProtection
  <2>1. step.pc = "protect"
    BY <1>5 DEF UploadProtection, At
  <2>2. CASE Reports("pre_backup_failed") /\ UNCHANGED shield
    BY <1>2, <2>1, <2>2, EarlyReportPromise
  <2>3. CASE Goes("import") /\ shield' = db.data
    <3>1. step' \in StepType /\ step'.pc = "import" /\ ~step'.rolling
      BY <1>1, <1>3, <2>3, GoesFact
    <3>2. Stage' = "restoring" /\ Result' = "pending" /\ Content' \in Promise!Targets
      BY <3>1, NextStages DEF Result, Writing
    <3>3. (shield' # NoShield) = TRUE
      BY <2>1, <2>3, Contents DEF ExecutionInv, Untouched, Prepared, NoShield
    <3>4. Promise!Import
      BY <1>3, <2>1, <3>2, <3>3 DEF Promise!Import
    <3> QED
      BY <3>4 DEF PromiseStep, Promise!Next
  <2> QED
    BY <1>5, <2>2, <2>3 DEF UploadProtection
<1>6. CASE CheckFiles
  <2>1. /\ step.pc = "files" /\ UNCHANGED <<db, shield>>
        /\ Reports("failed") \/ Reports("listed") \/ Reports("broken") \/ Goes("copy")
    BY <1>6 DEF CheckFiles, At
  <2>2. CASE Reports("failed") \/ Reports("listed")
    BY <1>2, <2>1, <2>2, EarlyReportPromise
  <2>3. CASE Reports("broken")
    BY <2>1, <2>3, BrokenReportPromise
  <2>4. CASE Goes("copy")
    <3>1. step' \in StepType /\ step'.pc = "copy" /\ ~step'.rolling
      BY <1>1, <1>3, <2>4, GoesFact
    <3>2. Stage' = "restoring" /\ Result' = "pending" /\ Content' \in Promise!Targets
      BY <3>1, NextStages DEF Result, Writing
    <3>3. Promise!Import
      BY <1>3, <2>1, <3>2 DEF Promise!Import
    <3> QED
      BY <3>3 DEF PromiseStep, Promise!Next
  <2> QED
    BY <2>1, <2>2, <2>3, <2>4
<1> QED
  BY <1>4, <1>5, <1>6

\* A command of the import goes on, or fails.
LEMMA ImportPromise ==
  ASSUME ExecutionInv,
         \/ MySQLSetup \/ MySQLLoad
         \/ PostgreSQLPermit \/ PostgreSQLDrop \/ PostgreSQLCreate \/ PostgreSQLLoad
         \/ MongoDBDrop \/ MongoDBLoad \/ SQLiteCopy \/ SQLiteReplace \/ FetchProtection
  PROVE  PromiseStep
<1>1. /\ step.pc \in Writing /\ UNCHANGED shield
      /\ \/ Broken(TRUE) \/ Broken(FALSE)
         \/ \E pc \in {"import", "drop", "create", "load", "verify"} : Goes(pc)
  BY DEF MySQLSetup, MySQLLoad, PostgreSQLPermit, PostgreSQLDrop, PostgreSQLCreate,
     PostgreSQLLoad, MongoDBDrop, MongoDBLoad, SQLiteCopy, SQLiteReplace, FetchProtection, At,
     Writing
<1>2. CASE Broken(TRUE) \/ Broken(FALSE)
  BY <1>1, <1>2, BrokenPromise
<1>3. CASE \E pc \in {"import", "drop", "create", "load", "verify"} : Goes(pc)
  <2>1. PICK pc \in {"import", "drop", "create", "load", "verify"} : Goes(pc)
    BY <1>3
  <2>2. step \in StepType /\ pc \in Steps /\ pc \in Writing
    BY DEF ExecutionInv, ExecutionTypeOK, StepType, Steps, Writing
  <2>3. step' \in StepType /\ step'.pc = pc /\ step'.rolling = step.rolling
    BY <2>1, <2>2, GoesFact
  <2> QED
    BY <1>1, <2>2, <2>3, WritePromise
<1> QED
  BY <1>1, <1>2, <1>3

\* The verification, the removal of a new target and restic end the restore
\* with the target that their phases name.
LEMMA EndPromise ==
  ASSUME ExecutionInv, VerifyRestored \/ RemoveTarget \/ RestoreFiles PROVE PromiseStep
<1>1. step \in StepType
  BY DEF ExecutionInv, ExecutionTypeOK, StepType
<1>2. ExecutionInv'
  BY VerifyStep, RemoveStep, FilesStep
<1>3. CASE VerifyRestored
  <2>1. step.pc = "verify" /\ step.pc \in Writing /\ UNCHANGED <<db, shield>>
    BY <1>3 DEF VerifyRestored, At, Writing
  <2>2. CASE Broken(FALSE) \/ Broken(TRUE)
    BY <2>1, <2>2, BrokenPromise
  <2>3. CASE step.rolling /\ Reports("rolled_back")
    <3>1. Stage = "rolling_back"
      BY <1>1, <2>1, <2>3, Stages
    <3>2. ~step.isNew /\ shield = Old /\ Artifact = Old /\ step.hadOld
      BY <2>1, <2>3 DEF ExecutionInv, Prepared, ExecutionTypeOK, Artifact, Writing
    <3>3. db = [exists |-> TRUE, data |-> Old]
      BY <2>1, <2>3, <3>2 DEF ExecutionInv, VerifiesLoaded
    <3>4. step'.hadOld
      BY <1>1, <2>3, <3>2, ReportsFact
    <3>5. Content' = "original" /\ shield # NoShield
      BY <2>1, <3>2, <3>3, <3>4, Contents DEF Content, NoShield
    <3>6. Promise!Truthful("rolled_back") /\ "rolled_back" \in Phases \ {"none", "broken"}
      BY <3>1, <3>5 DEF Promise!Truthful, Phases
    <3> QED
      BY <2>1, <2>3, <3>6, ReportPromise
  <2>4. CASE ~step.rolling /\ Reports("succeeded")
    <3>1. Stage = "restoring"
      BY <1>1, <2>1, <2>4, Stages
    <3>2. Content' = "restored"
      BY <1>1, <1>2, <2>4, ReportsFact, DeliveredIsRestored DEF ExecutionInv, OutcomeIsTrue
    <3>3. Promise!Truthful("succeeded") /\ "succeeded" \in Phases \ {"none", "broken"}
      BY <3>1, <3>2 DEF Promise!Truthful, Phases
    <3> QED
      BY <2>1, <2>4, <3>3, ReportPromise
  <2> QED
    BY <1>3, <2>2, <2>3, <2>4 DEF VerifyRestored
<1>4. CASE RemoveTarget
  <2>1. step.pc = "remove" /\ step.pc \in Writing /\ UNCHANGED shield
    BY <1>4 DEF RemoveTarget, At, Writing
  <2>2. CASE Broken(TRUE)
    BY <2>1, <2>2, BrokenPromise
  <2>3. CASE db' = NoDatabase /\ Reports("new_target_cleaned")
    <3>1. step.rolling /\ step.isNew /\ ~step.hadOld /\ shield = NoShield
      BY <2>1 DEF ExecutionInv, Prepared, ExecutionTypeOK
    <3>2. Stage = "rolling_back" /\ ~step'.hadOld
      BY <1>1, <2>1, <2>3, <3>1, Stages, ReportsFact
    <3>3. Content' = "original"
      BY <2>3, <3>2 DEF Content
    <3>4. Promise!Truthful("new_target_cleaned") /\ "new_target_cleaned" \in Phases \ {"none", "broken"}
      BY <3>1, <3>2, <3>3 DEF Promise!Truthful, Phases
    <3> QED
      BY <2>1, <2>3, <3>4, ReportPromise
  <2> QED
    BY <1>4, <2>2, <2>3 DEF RemoveTarget
<1>5. CASE RestoreFiles
  <2>1. /\ step.pc = "copy" /\ UNCHANGED shield /\ ~step.rolling
        /\ Reports("succeeded") \/ Reports("broken")
    BY <1>5 DEF RestoreFiles, At, ExecutionInv, EngineSteps
  <2>2. CASE Reports("broken")
    BY <2>1, <2>2, BrokenReportPromise
  <2>3. CASE Reports("succeeded")
    <3>1. Stage = "restoring"
      BY <1>1, <2>1, Stages
    <3>2. Content' = "restored"
      BY <1>1, <1>2, <2>3, ReportsFact, DeliveredIsRestored DEF ExecutionInv, OutcomeIsTrue
    <3>3. Promise!Truthful("succeeded") /\ "succeeded" \in Phases \ {"none", "broken"}
      BY <3>1, <3>2 DEF Promise!Truthful, Phases
    <3> QED
      BY <2>1, <2>3, <3>3, ReportPromise
  <2> QED
    BY <2>1, <2>2, <2>3
<1> QED
  BY <1>3, <1>4, <1>5

\* What happens around the restore is a stutter, a crash, or a change of the
\* target while it is written.
LEMMA EnvironmentPromise ==
  ASSUME ExecutionInv, CancelRestore \/ AgentCrash \/ SessionChanges \/ OtherCreates
  PROVE  PromiseStep
<1>1. step \in StepType
  BY DEF ExecutionInv, ExecutionTypeOK, StepType
<1>2. CASE CancelRestore \/ SessionChanges
  <2>1. UNCHANGED <<taskVars, db, step, shield, outcome>>
    BY <1>2 DEF CancelRestore, SessionChanges
  <2>2. Stage' = Stage /\ Content' = Content /\ Result' = Result
    BY <2>1 DEF Stage, Content, Delivered, Result, taskVars
  <2> QED
    BY <2>1, <2>2 DEF PromiseStep, Promise!vars
<1>3. CASE AgentCrash
  <2>1. /\ step.pc \notin {"done", "crashed"} /\ step' = [step EXCEPT !.pc = "crashed"]
        /\ UNCHANGED <<taskVars, db, shield, outcome>>
    BY <1>3 DEF AgentCrash, Running
  <2>2. step' \in StepType /\ step'.pc = "crashed" /\ step'.hadOld = step.hadOld
    BY <1>1, <2>1 DEF StepType, Steps
  <2>3. Stage # "ended" /\ Stage' = "ended" /\ Result' = "pending" /\ Result = "pending"
    BY <2>1, <2>2, NextStages DEF Stage, Result
  <2>4. Content' = Content
    BY <2>1, <2>2 DEF Content, Delivered, taskVars
  <2>5. Promise!Crash
    BY <2>1, <2>3, <2>4 DEF Promise!Crash
  <2> QED
    BY <2>5 DEF PromiseStep, Promise!Next
<1>4. CASE OtherCreates
  <2>1. /\ step.pc \notin {"done", "crashed", "download", "preflight", "exists", "files"}
        /\ ~db.exists /\ UNCHANGED <<step, shield>>
    BY <1>4 DEF OtherCreates, Running
  <2>2. step.pc # "protect"
    BY <2>1 DEF ExecutionInv, Untouched, Prepared
  <2>3. step.pc \in Writing \cup {"copy"}
    BY <1>1, <2>1, <2>2 DEF StepType, Steps, Writing
  <2> QED
    BY <1>1, <2>1, <2>3, WritePromise
<1> QED
  BY <1>2, <1>3, <1>4

\* runDatabaseRestore, runFilesystemRestore, the adapters and the rollback keep
\* what RestorePromise says of a restore, for every content of the target and
\* of the snapshot: RestoreOccupancy, whose agents keep the same promise, may
\* stand for them.
THEOREM PipelineKeepsPromise == ExecutionSpec => PromiseKept
<1>1. ExecutionInit => Promise!Init
  <2> SUFFICES ASSUME ExecutionInit PROVE Promise!Init
    OBVIOUS
  <2>1. ExecutionInv /\ step.pc \in {"files", "download"} /\ shield = NoShield
    BY ExecutionInitInv DEF ExecutionInit
  <2>2. Stage = "preparing" /\ Result = "pending"
    BY <2>1, Stages DEF Result, ExecutionInv, ExecutionTypeOK, StepType
  <2>3. Content = "original"
    BY <2>1, UntouchedIsOriginal DEF Content
  <2> QED
    BY <2>1, <2>2, <2>3 DEF Promise!Init
<1>2. ExecutionInv /\ [ExecutionNext]_executionVars => PromiseStep
  <2> SUFFICES ASSUME ExecutionInv, [ExecutionNext]_executionVars PROVE PromiseStep
    OBVIOUS
  <2>1. CASE UNCHANGED executionVars
    <3>1. Stage' = Stage /\ Content' = Content /\ Result' = Result /\ UNCHANGED shield
      BY <2>1 DEF executionVars, taskVars, Stage, Content, Delivered, Result
    <3> QED
      BY <3>1 DEF PromiseStep, Promise!vars
  <2>2. CASE ExecutionNext
    BY <2>2, EarlyPromise, BeginPromise, ImportPromise, EndPromise, EnvironmentPromise
    DEF ExecutionNext
  <2> QED
    BY <2>1, <2>2
<1> QED
  BY <1>1, <1>2, ExecutionInvariant, PTL DEF ExecutionSpec, PromiseKept, Promise!Spec, PromiseStep
=============================================================================
