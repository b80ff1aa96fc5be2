-------------------------- MODULE RestoreExecution --------------------------
(* One restore on the agent, command by command, and the target it writes   *)
(* to. A database restore downloads the snapshot, refuses what it can       *)
(* refuse before it touches the target, saves an existing target as a       *)
(* protection snapshot, imports, verifies, and rolls back what failed; the  *)
(* four engines differ in how they clear and load the target. A filesystem  *)
(* restore looks at the target and runs one restic command.                 *)
(*                                                                          *)
(* A command may fail or be killed between any two of its effects. The      *)
(* agent may crash, the request may be cancelled, other sessions may hold   *)
(* the target, and another actor may create it while it does not exist.     *)
EXTENDS Naturals

CONSTANTS
    OldNames,    \* objects (tables, collections, files) of the target before
    SnapNames    \* objects of the snapshot being restored

ASSUME NamesAssumption == OldNames # {} /\ SnapNames # {}

VARIABLES
    engine,     \* task.Kind
    order,      \* ReplaceExisting, dry run
    role,       \* the PostgreSQL role: owner lacks CREATEDB, creator has it
    db,         \* the target: whether it exists, and its content
    occupied,   \* another session uses the target
    step,       \* the running command; rolling: inside rollbackDatabaseRestore
    shield,     \* content of the protection snapshot
    outcome,    \* the phase reported to the server
    ctxDone,    \* the request was cancelled
    disturbed   \* history: the rollback met a failing command or a busy target

taskVars == <<engine, order, role>>
executionVars == <<taskVars, db, occupied, step, shield, outcome, ctxDone, disturbed>>

\* An object is its schema and its rows: a load cut short leaves schemas
\* without their rows.
Parts == {"schema", "rows"}
Old == {"old"} \X OldNames \X Parts
Snap == {"new"} \X SnapNames \X Parts
Foreign == {"other"} \X OldNames \X Parts
Names(content) == {x[2] : x \in {y \in content : y[3] = "schema"}}
NoDatabase == [exists |-> FALSE, data |-> {}]
EmptyDatabase == [exists |-> TRUE, data |-> {}]
NoShield == {}

Databases == {"mysql", "postgresql", "mongodb", "sqlite"}
Steps == {"download", "preflight", "exists", "protect", "import", "drop", "create", "load",
          "verify", "remove", "fetch", "files", "copy", "done", "crashed"}
Phases == {"none", "listed", "failed", "pre_backup_failed", "succeeded", "broken",
           "rolled_back", "new_target_cleaned", "rollback_failed"}

ExecutionTypeOK ==
    /\ engine \in Databases \cup {"filesystem"}
    /\ order \in [replace : BOOLEAN, dryRun : BOOLEAN]
    /\ role \in {"superuser", "creator", "owner"}
    /\ db \in [exists : BOOLEAN, data : SUBSET (Old \cup Snap \cup Foreign)]
    /\ ~db.exists => db.data = {}
    /\ occupied \in BOOLEAN /\ ctxDone \in BOOLEAN /\ disturbed \in BOOLEAN
    /\ step \in [pc : Steps, rolling : BOOLEAN, isNew : BOOLEAN, hadOld : BOOLEAN]
    /\ shield \in {NoShield, Old}
    /\ outcome \in Phases

ExecutionInit ==
    /\ engine \in Databases \cup {"filesystem"}
    /\ order \in [replace : BOOLEAN, dryRun : BOOLEAN]
    /\ role \in IF engine = "postgresql" THEN {"superuser", "creator", "owner"} ELSE {"superuser"}
    /\ db \in {NoDatabase, [exists |-> TRUE, data |-> Old]}
    /\ occupied = FALSE
    /\ step = [pc |-> IF engine = "filesystem" THEN "files" ELSE "download",
               rolling |-> FALSE, isNew |-> FALSE, hadOld |-> db.exists]
    /\ shield = NoShield
    /\ outcome = "none"
    /\ ctxDone = FALSE /\ disturbed = FALSE

At(pc) == step.pc = pc
Goes(pc) == step' = [step EXCEPT !.pc = pc] /\ UNCHANGED <<outcome, disturbed>>
Reports(phase) ==
    /\ step' = [step EXCEPT !.pc = "done"]
    /\ outcome' = phase
    /\ UNCHANGED disturbed

\* A cancelled context lets no further command start; the rollback has a
\* context of its own.
MayRun == step.rolling \/ ~ctxDone

\* A failing import or verification: rolls back, unless it is the rollback's
\* own. Exogenous: for a reason the run cannot help.
Broken(exogenous) ==
    /\ disturbed' = (disturbed \/ (step.rolling /\ exogenous))
    /\ IF step.rolling
       THEN step' = [step EXCEPT !.pc = "done"] /\ outcome' = "rollback_failed"
       ELSE /\ step' = [step EXCEPT !.pc = IF step.isNew THEN "remove" ELSE "fetch", !.rolling = TRUE]
            /\ UNCHANGED outcome

-----------------------------------------------------------------------------
(* Before the target is touched: every failure here reports a safe phase. *)

\* Task and path checks, restic restore into the staging directory, the
\* manifest, the single database rule; a dry run ends with the list.
Download ==
    /\ At("download")
    /\ \/ MayRun /\ (IF order.dryRun THEN Reports("listed") ELSE Goes("preflight"))
       \/ Reports("failed")
    /\ UNCHANGED <<taskVars, db, occupied, shield, ctxDone>>

\* MySQL looks for sessions and, if the server lets it, for metadata locks: a
\* session it cannot see passes.
MySQLPreflight == MayRun

\* sqliteCheckMaintenanceWindow: no lock of any kind.
MaintenanceWindow == MayRun /\ ~occupied

\* The other engines have no preflight.
PreflightRestore ==
    /\ At("preflight")
    /\ \/ /\ CASE engine = "mysql" -> MySQLPreflight
               [] engine = "sqlite" -> MaintenanceWindow
               [] OTHER -> TRUE
          /\ Goes("exists")
       \/ engine \in {"mysql", "sqlite"} /\ Reports("failed")
    /\ UNCHANGED <<taskVars, db, occupied, shield, ctxDone>>

\* A failing query is an error, never an absent target.
TargetExists ==
    /\ At("exists")
    /\ \/ /\ MayRun /\ (db.exists => order.replace)
          /\ step' = [step EXCEPT !.isNew = ~db.exists,
                                  !.pc = IF db.exists THEN "protect" ELSE "import"]
          /\ UNCHANGED <<outcome, disturbed>>
       \/ Reports("failed")
    /\ UNCHANGED <<taskVars, db, occupied, shield, ctxDone>>

\* Mutant: an upload that returns no snapshot id is taken for a success.
UploadProtection_NoId ==
    /\ At("protect")
    /\ \/ MayRun /\ Goes("import") /\ shield' \in {NoShield, db.data}
       \/ Reports("pre_backup_failed") /\ UNCHANGED shield
    /\ UNCHANGED <<taskVars, db, occupied, ctxDone>>

\* uploadProtectionBackup: the export of the target and its upload. Only an
\* answer with a snapshot id lets the import begin.
UploadProtection ==
    /\ At("protect")
    /\ \/ MayRun /\ Goes("import") /\ shield' = db.data
       \/ Reports("pre_backup_failed") /\ UNCHANGED shield
    /\ UNCHANGED <<taskVars, db, occupied, ctxDone>>

-----------------------------------------------------------------------------
(* Import and VerifyRestored of the adapters: of the snapshot, and in a      *)
(* rollback of the protection snapshot. Each action is one command.          *)

Artifact == IF step.rolling THEN shield ELSE Snap

\* What a load cut short may have written.
Partial(content) == {s \in SUBSET content : \A x \in s : <<x[1], x[2], "schema">> \in s}

Adds(s) == [exists |-> db.exists \/ s # {}, data |-> s \cup db.data]

\* MySQL. One batch drops and creates, with IF EXISTS for the first and not for
\* the second: a database made meanwhile by another actor is a conflict. A
\* client that is killed leaves any prefix of the batch done.
MySQLSetup ==
    /\ At("import") /\ engine = "mysql"
    /\ \/ /\ MayRun /\ ~occupied /\ (step.isNew => ~db.exists)
          /\ db' = EmptyDatabase /\ Goes("load")
       \/ /\ Broken(TRUE)
          /\ db' \in IF step.isNew THEN {db} \cup (IF db.exists THEN {} ELSE {EmptyDatabase})
                                   ELSE {db, NoDatabase, EmptyDatabase}
    /\ UNCHANGED <<taskVars, occupied, shield, ctxDone>>

MySQLLoad ==
    /\ At("load") /\ engine = "mysql"
    /\ \/ MayRun /\ Goes("verify") /\ db' = Adds(Artifact)
       \/ Broken(TRUE) /\ \E s \in Partial(Artifact) : db' = Adds(s)
    /\ UNCHANGED <<taskVars, occupied, shield, ctxDone>>

\* PostgreSQL lets a superuser rebuild, and the owner of the database: the
\* query finds no owner when the database is gone.
MayRebuild == role = "superuser" \/ (db.exists /\ db.data \cap Foreign = {})

\* An overwrite needs the right to rebuild and throws the other sessions out.
PostgreSQLPermit ==
    /\ At("import") /\ engine = "postgresql"
    /\ \/ step.isNew /\ Goes("create") /\ UNCHANGED occupied
       \/ ~step.isNew /\ MayRun /\ MayRebuild /\ Goes("drop") /\ occupied' = FALSE
       \/ ~step.isNew /\ ~MayRebuild /\ Broken(FALSE) /\ UNCHANGED occupied
       \/ ~step.isNew /\ Broken(TRUE) /\ UNCHANGED occupied
    /\ UNCHANGED <<taskVars, db, shield, ctxDone>>

\* Mutant: DROP DATABASE without IF EXISTS.
PostgreSQLDrop_MustExist ==
    /\ At("drop") /\ engine = "postgresql"
    /\ \/ MayRun /\ ~occupied /\ db.exists /\ Goes("create") /\ db' = NoDatabase
       \/ ~db.exists /\ Broken(FALSE) /\ UNCHANGED db
       \/ Broken(TRUE) /\ db' \in {db, NoDatabase}
    /\ UNCHANGED <<taskVars, occupied, shield, ctxDone>>

\* DROP DATABASE IF EXISTS: the server may have executed it although the client
\* was killed.
PostgreSQLDrop ==
    /\ At("drop") /\ engine = "postgresql"
    /\ \/ MayRun /\ ~occupied /\ Goes("create") /\ db' = NoDatabase
       \/ Broken(TRUE) /\ db' \in {db, NoDatabase}
    /\ UNCHANGED <<taskVars, occupied, shield, ctxDone>>

\* CREATE DATABASE, which an existing one fails.
PostgreSQLCreate ==
    /\ At("create") /\ engine = "postgresql"
    /\ \/ MayRun /\ ~db.exists /\ role # "owner" /\ Goes("load") /\ db' = EmptyDatabase
       \/ role = "owner" /\ Broken(FALSE) /\ UNCHANGED db
       \/ Broken(TRUE) /\ db' \in {db} \cup (IF db.exists THEN {} ELSE {EmptyDatabase})
    /\ UNCHANGED <<taskVars, occupied, shield, ctxDone>>

\* Mutant: any exit code will do when the only messages are version skew.
IgnorableErrors_AnyExit(exit, onlySkew) == onlySkew

\* pgOnlyIgnorableRestoreErrors: a pg_restore that ended by itself, with exit
\* code 1, over statements an older server does not know.
IgnorableErrors(exit, onlySkew) == exit = "errors" /\ onlySkew

\* pg_restore goes on after errors: it may have loaded everything except what
\* its messages name. One that is killed may have printed no other message.
PostgreSQLLoad ==
    /\ At("load") /\ engine = "postgresql"
    /\ \E exit \in {"ok", "errors", "killed"}, onlySkew \in BOOLEAN, s \in Partial(Artifact) :
         /\ exit = "ok" \/ (exit = "errors" /\ onlySkew) => s = Artifact /\ MayRun
         /\ db' = Adds(s)
         /\ IF exit = "ok" \/ IgnorableErrors(exit, onlySkew) THEN Goes("verify") ELSE Broken(TRUE)
    /\ UNCHANGED <<taskVars, occupied, shield, ctxDone>>

\* Mutant: the database is left to mongorestore --drop.
MongoDBDrop_Keeps ==
    /\ At("import") /\ engine = "mongodb"
    /\ step.isNew \/ MayRun
    /\ Goes("load")
    /\ UNCHANGED <<taskVars, db, occupied, shield, ctxDone>>

\* MongoDB drops the whole database, sessions or not: mongorestore --drop would
\* leave the collections that the archive does not name.
MongoDBDrop ==
    /\ At("import") /\ engine = "mongodb"
    /\ \/ step.isNew /\ Goes("load") /\ UNCHANGED db
       \/ ~step.isNew /\ MayRun /\ Goes("load") /\ db' = NoDatabase
       \/ ~step.isNew /\ Broken(TRUE) /\ db' \in {db, NoDatabase}
    /\ UNCHANGED <<taskVars, occupied, shield, ctxDone>>

MongoDBLoad ==
    LET loaded(s) == IF step.isNew THEN Adds(s)
                     ELSE [exists |-> db.exists \/ s # {},
                           data |-> s \cup {x \in db.data : x[2] \notin Names(s)}]
    IN  /\ At("load") /\ engine = "mongodb"
        /\ \/ MayRun /\ Goes("verify") /\ db' = loaded(Artifact)
           \/ Broken(TRUE) /\ \E s \in Partial(Artifact) : db' = loaded(s)
        /\ UNCHANGED <<taskVars, occupied, shield, ctxDone>>

\* SQLite: the maintenance window, a new target still absent, a copy beside it.
SQLiteCopy ==
    /\ At("import") /\ engine = "sqlite"
    /\ \/ MaintenanceWindow /\ (step.isNew => ~db.exists) /\ Goes("load")
       \/ step.isNew /\ db.exists /\ Broken(FALSE)
       \/ Broken(TRUE)
    /\ UNCHANGED <<taskVars, db, occupied, shield, ctxDone>>

\* The sidecars are removed and the copy renamed over the target.
SQLiteReplace ==
    /\ At("load") /\ engine = "sqlite"
    /\ \/ Goes("verify") /\ db' = [exists |-> TRUE, data |-> Artifact]
       \/ Broken(TRUE) /\ UNCHANGED db
    /\ UNCHANGED <<taskVars, occupied, shield, ctxDone>>

\* The verifications compare names, not rows. A MongoDB archive must name some
\* collection, a PostgreSQL database must have no others.
MySQLVerifies == Names(Artifact) \subseteq Names(db.data)
PostgreSQLVerifies == Names(db.data) = Names(Artifact)
MongoDBVerifies == Names(Artifact) # {} /\ Names(Artifact) \subseteq Names(db.data)
SQLiteVerifies == Names(Artifact) \subseteq Names(db.data)

Verifies ==
    CASE engine = "mysql" -> MySQLVerifies
      [] engine = "postgresql" -> PostgreSQLVerifies
      [] engine = "mongodb" -> MongoDBVerifies
      [] engine = "sqlite" -> SQLiteVerifies

VerifyRestored ==
    /\ At("verify")
    /\ \/ MayRun /\ Verifies /\ Reports(IF step.rolling THEN "rolled_back" ELSE "succeeded")
       \/ ~Verifies /\ Broken(FALSE)
       \/ Broken(TRUE)
    /\ UNCHANGED <<taskVars, db, occupied, shield, ctxDone>>

-----------------------------------------------------------------------------
(* rollbackDatabaseRestore. *)

\* RemoveTarget of a target that did not exist when the run looked. A session
\* keeps MySQL from dropping it; PostgreSQL throws the sessions out; MongoDB and
\* the removal of a file do not mind them.
RemoveTarget ==
    /\ At("remove")
    /\ \/ /\ engine = "mysql" => ~occupied
          /\ db' = NoDatabase
          /\ occupied' = FALSE
          /\ Reports("new_target_cleaned")
       \/ Broken(TRUE) /\ db' \in {db, NoDatabase} /\ UNCHANGED occupied
    /\ UNCHANGED <<taskVars, shield, ctxDone>>

\* The protection snapshot is downloaded, its artifact resolved anew.
FetchProtection ==
    /\ At("fetch")
    /\ \/ shield # NoShield /\ Goes("import")
       \/ shield = NoShield /\ Broken(FALSE)
       \/ Broken(TRUE)
    /\ UNCHANGED <<taskVars, db, occupied, shield, ctxDone>>

-----------------------------------------------------------------------------

\* runFilesystemRestore up to restic: the path checks, and a target that is not
\* empty is refused unless it may be overwritten, also in a dry run.
CheckFiles ==
    /\ At("files")
    /\ \/ /\ order.replace \/ db.data = {}
          /\ IF order.dryRun THEN (MayRun /\ Reports("listed")) \/ Reports("broken") ELSE Goes("copy")
       \/ Reports("failed")
    /\ UNCHANGED <<taskVars, db, occupied, shield, ctxDone>>

\* restic restore, and the check of the symbolic links. --overwrite never leaves
\* the files that are there by now; a failure leaves any part and reports no
\* phase.
RestoreFiles ==
    LET brought(s) == [exists |-> TRUE,
                       data |-> IF order.replace
                                THEN s \cup {x \in db.data : x[2] \notin Names(s)}
                                ELSE db.data \cup {x \in s : x[2] \notin Names(db.data)}]
    IN  /\ At("copy")
        /\ \/ MayRun /\ Reports("succeeded") /\ db' = brought(Snap)
           \/ Reports("broken") /\ \E s \in Partial(Snap) : db' = brought(s)
        /\ UNCHANGED <<taskVars, occupied, shield, ctxDone>>

-----------------------------------------------------------------------------
(* The environment. *)

Running == step.pc \notin {"done", "crashed"}

\* context.CancelFunc of the run.
CancelRestore ==
    /\ Running /\ ~ctxDone
    /\ ctxDone' = TRUE
    /\ UNCHANGED <<taskVars, db, occupied, step, shield, outcome, disturbed>>

AgentCrash ==
    /\ Running
    /\ step' = [step EXCEPT !.pc = "crashed"]
    /\ UNCHANGED <<taskVars, db, occupied, shield, outcome, ctxDone, disturbed>>

\* An application connects to the target or leaves it.
SessionChanges ==
    /\ Running /\ engine # "filesystem"
    /\ occupied' = ~occupied /\ (occupied' => db.exists)
    /\ disturbed' = (disturbed \/ (step.rolling /\ occupied'))
    /\ UNCHANGED <<taskVars, db, step, shield, outcome, ctxDone>>

\* Another actor creates the target after the run has looked for it; a target
\* made earlier is one that exists in ExecutionInit.
OtherCreates ==
    /\ Running /\ ~db.exists /\ ~(step.pc \in {"download", "preflight", "exists", "files"})
    /\ db' = [exists |-> TRUE, data |-> Foreign]
    /\ disturbed' = (disturbed \/ step.rolling)
    /\ UNCHANGED <<taskVars, occupied, step, shield, outcome, ctxDone>>

ExecutionNext ==
    \/ Download \/ PreflightRestore \/ TargetExists \/ UploadProtection
    \/ MySQLSetup \/ MySQLLoad
    \/ PostgreSQLPermit \/ PostgreSQLDrop \/ PostgreSQLCreate \/ PostgreSQLLoad
    \/ MongoDBDrop \/ MongoDBLoad \/ SQLiteCopy \/ SQLiteReplace \/ VerifyRestored
    \/ RemoveTarget \/ FetchProtection \/ CheckFiles \/ RestoreFiles
    \/ CancelRestore \/ AgentCrash \/ SessionChanges \/ OtherCreates

ExecutionSpec == ExecutionInit /\ [][ExecutionNext]_executionVars

-----------------------------------------------------------------------------

\* The whole snapshot is in the target, except under the name of a file that
\* another actor made after the check and that restic was told not to overwrite.
Delivered ==
    \A x \in Snap : x \in db.data \/ /\ engine = "filesystem" /\ ~order.replace
                                     /\ x[2] \in Names(db.data \cap Foreign)

\* The phase that the pipeline reports is true of the target: succeeded means
\* every object of the snapshot with its rows although only names are
\* verified (pg_restore killed half-way must not pass), rolled_back means
\* the old content is back, and the phases that free the target without a
\* rollback mean that nothing of the snapshot is in it.
OutcomeIsTrue ==
    /\ outcome = "succeeded" => Delivered
    /\ outcome = "rolled_back" => Old \subseteq db.data
    /\ outcome \in {"failed", "pre_backup_failed", "new_target_cleaned", "listed"}
          => db.data \cap Snap = {} /\ (step.hadOld => Old \subseteq db.data)

\* At every moment, a crash or a failed rollback included, the old content is
\* in the target or in the protection snapshot that the rollback and the
\* operator start from. A filesystem restore only promises it when it may not
\* overwrite.
OldDataIsSafe ==
    step.hadOld /\ (engine = "filesystem" => ~order.replace)
        => Old \subseteq db.data \/ shield = Old

\* A rollback that meets no failing command, no other session and no other
\* actor succeeds, whatever the failed import left: also when the server had
\* executed the DROP whose client was killed. PostgreSQL roles other than a
\* superuser are excluded: they may be unable to create what they dropped.
RollbackFailsForCause ==
    outcome = "rollback_failed" =>
        disturbed \/ occupied \/ (engine = "postgresql" /\ role # "superuser")

-----------------------------------------------------------------------------
(* The restore as RestorePromise sees it.                                    *)

Stage ==
    CASE step.pc \in {"done", "crashed"} -> "ended"
      [] step.pc = "protect" -> "pre_backup"
      [] step.pc \in {"download", "preflight", "exists", "files"} -> "preparing"
      [] OTHER -> IF step.rolling THEN "rolling_back" ELSE "restoring"

\* Original: as it was when the task arrived, with nothing more and nothing less.
Content ==
    IF db = (IF step.hadOld THEN [exists |-> TRUE, data |-> Old] ELSE NoDatabase) THEN "original"
    ELSE IF Delivered THEN "restored" ELSE "modified"

Result ==
    IF step.pc # "done" THEN "pending" ELSE IF outcome = "broken" THEN "none" ELSE outcome

Promise == INSTANCE RestorePromise
           WITH stage <- Stage, target <- Content, protected <- shield # NoShield, report <- Result

\* Command by command the pipeline keeps what the server's half of the model
\* takes for granted: nothing is written before the existing target is
\* protected, the rollback puts back exactly the original (collections that
\* the archive does not name must not survive), one result ends the restore.
PromiseKept == Promise!Spec
=============================================================================
