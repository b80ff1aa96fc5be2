--------------------------- MODULE BackupExecution ---------------------------
(* One backup run on the agent: the checks that a dump will be complete, the *)
(* dump, the search for a snapshot an earlier attempt of the same run left,  *)
(* the upload and the answer. The server redelivers the run when the agent   *)
(* dies before its answer is recorded.                                       *)
(*                                                                           *)
(* What mysqldump, pg_dump, mongodump and restic do with the rights of the   *)
(* account is modelled from what the adapters' comments record of them. The  *)
(* grants do not change while a run exports.                                 *)
EXTENDS Naturals, FiniteSets

CONSTANTS
    ArgSets,      \* the extra_args of MySQL plans, as sets of flags
    MaxAttempts   \* bound on deliveries of the run

ASSUME AttemptsAssumption == MaxAttempts \in Nat \ {0}

VARIABLES
    source,     \* the plan's source and the rights of its account
    work,       \* the attempt: its step, the exported content, what it warned of
    tagged,     \* snapshots in the repository that carry the run's tag
    attempts,
    blind,      \* history: attempts that could not list the repository
    verdict     \* what the server recorded, and the content of the snapshot

backupVars == <<source, work, tagged, attempts, blind, verdict>>

Flags == {"skip_triggers", "skip_routines", "skip_events",
          "tables_t1", "ignore_t1", "ignore_t2", "ignore_view"}
Levels == {"global", "schema", "none"}
Kinds == {"mysql", "postgresql", "mongodb", "sqlite", "filesystem"}

\* Account: of MySQL the levels of its grants, "table" meaning SELECT on t1;
\* cluster: of MongoDB a role that sees every database.
NoAccount == [select |-> "none", trigger |-> "none", event |-> "none", view |-> "none",
              routine |-> FALSE, cluster |-> FALSE]
MySQLAccounts ==
    [select : Levels \cup {"table"}, trigger : Levels, event : Levels, view : Levels,
     routine : BOOLEAN, cluster : {FALSE}]
Sources ==
    [kind : {"mysql"}, all : BOOLEAN, args : ArgSets, account : MySQLAccounts]
    \cup [kind : {"mongodb"}, all : BOOLEAN, args : {{}},
          account : {NoAccount, [NoAccount EXCEPT !.cluster = TRUE]}]
    \cup [kind : {"postgresql"}, all : BOOLEAN, args : {{}}, account : {NoAccount}]
    \cup [kind : {"sqlite", "filesystem"}, all : {FALSE}, args : {{}}, account : {NoAccount}]

\* What the plan asks to back up.
Wanted ==
    CASE source.kind = "mysql" -> {"t1", "t2", "view", "trigger", "routine", "event"}
      [] source.kind = "filesystem" -> {"f1", "f2"}
      [] source.kind = "postgresql" /\ source.all -> {"globals", "d1", "d2"}
      [] source.kind = "mongodb" /\ source.all -> {"d1", "d2"}
      [] OTHER -> {"d1"}

NoWork == [pc |-> "idle", content |-> {}, warned |-> {}, ok |-> FALSE]
NoVerdict == [state |-> "none", content |-> {}, warned |-> {}]

BackupTypeOK ==
    /\ source \in Sources
    /\ work \in [pc : {"idle", "export", "list", "upload", "answer"},
                content : SUBSET Wanted, warned : SUBSET Wanted, ok : BOOLEAN]
    /\ tagged \subseteq [attempt : 1..MaxAttempts, content : SUBSET Wanted]
    /\ attempts \in 0..MaxAttempts /\ blind \in 0..attempts
    /\ verdict \in [state : {"none", "succeeded", "failed"},
                   content : SUBSET Wanted, warned : SUBSET Wanted]

BackupInit ==
    /\ source \in Sources
    /\ work = NoWork /\ tagged = {} /\ attempts = 0 /\ blind = 0
    /\ verdict = NoVerdict

-----------------------------------------------------------------------------
(* The MySQL adapter. *)

Has(flag) == flag \in source.args
Account == source.account

\* A right that covers every database the plan exports.
Covers(level) == level = "global" \/ (level = "schema" /\ ~source.all)

\* mysqlCheckTableArgs: the same table selected and ignored.
ContradictoryArgs == Has("tables_t1") /\ Has("ignore_t1")

\* mysqlExplicitTableSelection: the plan says itself which tables it leaves out.
ExplicitTableSelection == \E f \in {"tables_t1", "ignore_t1", "ignore_t2", "ignore_view"} : Has(f)

\* mysqlCheckInstanceScope and mysqlCheckTableScope.
ReadsAllTables ==
    /\ source.all => Account.select = "global"
    /\ ExplicitTableSelection \/ Account.select \in {"global", "schema"}

\* mysqlCheckViewScope: refuses the views it can count; when the count fails
\* it warns.
MayLoseViews ==
    ~source.all /\ ~ExplicitTableSelection /\ Account.view = "none"

\* mysqlCheckObjectPrivileges: for a single database a missing right refuses
\* the run, for the whole instance it warns.
ObjectPrivileges ==
    /\ Has("skip_triggers") \/ source.all \/ Covers(Account.trigger)
    /\ Has("skip_events") \/ source.all \/ Covers(Account.event)

RoutineVisible == Account.select = "global" \/ Account.routine

ObjectWarnings ==
    {o \in {"view", "trigger", "event", "routine"} :
        \/ o = "view" /\ source.all /\ Account.view # "global"
        \/ o = "trigger" /\ source.all /\ ~Has("skip_triggers") /\ Account.trigger # "global"
        \/ o = "event" /\ source.all /\ ~Has("skip_events") /\ Account.event # "global"
        \/ o = "routine" /\ ~Has("skip_routines") /\ ~RoutineVisible}

\* mysqldump: the contents it may produce with exit code 0. Tables the account
\* cannot see, triggers and routines are skipped in silence; events it may not
\* see are an error, views are an error or skipped.
DumpedTables ==
    LET visible == CASE Account.select \in {"global", "schema"} -> {"t1", "t2"}
                     [] Account.select = "table" -> {"t1"}
                     [] OTHER -> {}
        ignored == {t \in {"t1", "t2"} : Has(IF t = "t1" THEN "ignore_t1" ELSE "ignore_t2")}
    IN IF Has("tables_t1") THEN {"t1"} \cap visible ELSE visible \ ignored

MySQLDumps ==
    LET fixed == DumpedTables
                 \cup (IF ~Has("skip_triggers") /\ Covers(Account.trigger) THEN {"trigger"} ELSE {})
                 \cup (IF ~Has("skip_routines") /\ RoutineVisible THEN {"routine"} ELSE {})
                 \cup (IF ~Has("skip_events") THEN {"event"} ELSE {})
        views == ~Has("tables_t1") /\ ~Has("ignore_view") /\ Account.select \in {"global", "schema"}
    IN IF Account.select = "none" \/ (~Has("skip_events") /\ ~Covers(Account.event))
       THEN {}
       ELSE {fixed \cup (IF views /\ Covers(Account.view) THEN {"view"} ELSE {})}

\* MySQLAdapter.Backup. An empty dump of the whole instance is refused.
MySQLExports ==
    LET warnings == {ObjectWarnings} \cup (IF MayLoseViews THEN {ObjectWarnings \cup {"view"}} ELSE {})
    IN {e \in [content : MySQLDumps, warned : warnings] :
           /\ ~ContradictoryArgs /\ ReadsAllTables /\ ObjectPrivileges
           /\ MayLoseViews => "view" \in e.warned
           /\ source.all => e.content # {}}

-----------------------------------------------------------------------------
(* The other adapters. *)

\* psql lists the databases: one that fails may have printed some of them.
Listings == {l \in [ok : BOOLEAN, names : SUBSET {"d1", "d2"}] : l.ok => l.names = {"d1", "d2"}}

\* Mutant: the exit code of the listing is not looked at.
PostgreSQLExports_AnyListing ==
    {[content |-> IF source.all THEN {"globals"} \cup l.names ELSE {"d1"}, warned |-> {}] :
        l \in Listings}

\* pg_dumpall for the globals, the list of databases, pg_dump of each. A list
\* that failed or is empty fails the run; pg_dump fails on what it cannot lock.
PostgreSQLExports ==
    {[content |-> IF source.all THEN {"globals"} \cup l.names ELSE {"d1"}, warned |-> {}] :
        l \in {k \in Listings : k.ok /\ k.names # {}}}

\* The whole instance needs a cluster-wide role: listDatabases shows others
\* only their own databases and mongodump says nothing.
MongoDBExports ==
    IF source.all /\ ~Account.cluster THEN {} ELSE {[content |-> Wanted, warned |-> {}]}

\* VACUUM INTO, of a copy with its sidecars where the source cannot be opened;
\* a torn copy does not pass integrity_check. A filesystem has no export.
FileExports == {[content |-> Wanted, warned |-> {}]}

Exports ==
    CASE source.kind = "mysql" -> MySQLExports
      [] source.kind = "postgresql" -> PostgreSQLExports
      [] source.kind = "mongodb" -> MongoDBExports
      [] OTHER -> FileExports

-----------------------------------------------------------------------------
(* runBackup. *)

DeliverRun ==
    /\ work.pc = "idle" /\ verdict = NoVerdict
    /\ attempts < MaxAttempts
    /\ attempts' = attempts + 1
    /\ work' = [NoWork EXCEPT !.pc = "export"]
    /\ UNCHANGED <<source, tagged, blind, verdict>>

Answers(ok, content) == work' = [work EXCEPT !.pc = "answer", !.ok = ok, !.content = content]

\* Path, plan and space checks, then the adapter.
Export ==
    /\ work.pc = "export"
    /\ \/ \E e \in Exports :
             work' = [work EXCEPT !.pc = "list", !.content = e.content, !.warned = e.warned]
       \/ Answers(FALSE, {})
    /\ UNCHANGED <<source, tagged, attempts, blind, verdict>>

\* Mutant: the snapshots are listed and never compared.
FindTagged_Nothing == {}

\* The oldest snapshot that carries the run's tag.
FindTagged == {s \in tagged : \A o \in tagged : s.attempt <= o.attempt}

\* An earlier attempt's snapshot is taken for this one's. A listing that fails
\* is ignored.
ListSnapshots ==
    /\ work.pc = "list"
    /\ \/ /\ FindTagged # {} /\ UNCHANGED blind
          /\ \E s \in FindTagged : Answers(TRUE, s.content)
       \/ FindTagged = {} /\ UNCHANGED blind /\ work' = [work EXCEPT !.pc = "upload"]
       \/ blind' = blind + 1 /\ work' = [work EXCEPT !.pc = "upload"]
    /\ UNCHANGED <<source, tagged, attempts, verdict>>

\* restic backup. It may stop before or after the snapshot exists, end without
\* a snapshot id, or read live files only in part: exit code 3, which fails the
\* run and leaves the snapshot.
Upload ==
    /\ work.pc = "upload"
    /\ LET stores(content) == tagged' = tagged \cup {[attempt |-> attempts, content |-> content]}
       IN \/ stores(work.content) /\ Answers(TRUE, work.content)
          \/ stores(work.content) /\ Answers(FALSE, {})
          \/ UNCHANGED tagged /\ Answers(FALSE, {})
          \/ /\ source.kind = "filesystem"
             /\ \E read \in SUBSET work.content : stores(read) /\ Answers(FALSE, {})
    /\ UNCHANGED <<source, attempts, blind, verdict>>

\* The answer reaches the server, which settles the run.
ReportResult ==
    /\ work.pc = "answer"
    /\ verdict' = [state |-> IF work.ok THEN "succeeded" ELSE "failed",
                   content |-> work.content, warned |-> work.warned]
    /\ work' = NoWork
    /\ UNCHANGED <<source, tagged, attempts, blind>>

\* The agent dies: the run is queued again.
AgentDies ==
    /\ work.pc # "idle"
    /\ work' = NoWork
    \* restic may have stored the snapshot when its parent dies.
    /\ \/ UNCHANGED tagged
       \/ /\ work.pc = "upload"
          /\ tagged' = tagged \cup {[attempt |-> attempts, content |-> work.content]}
    /\ UNCHANGED <<source, attempts, blind, verdict>>

BackupNext ==
    \/ DeliverRun \/ Export \/ ListSnapshots \/ Upload \/ ReportResult \/ AgentDies

BackupSpec == BackupInit /\ [][BackupNext]_backupVars

-----------------------------------------------------------------------------

\* What the plan or the run's log says the backup leaves out. A plan that
\* selects tables in any way has declared its tables and views.
Declared ==
    verdict.warned
    \cup (IF Has("skip_triggers") THEN {"trigger"} ELSE {})
    \cup (IF Has("skip_routines") THEN {"routine"} ELSE {})
    \cup (IF Has("skip_events") THEN {"event"} ELSE {})
    \cup (IF ExplicitTableSelection THEN {"t1", "t2", "view"} ELSE {})

\* A database backup that is recorded as succeeded holds every object of its
\* source, whatever the rights of the account, except what the plan excludes
\* or the log warns of: the dump tools leave things out with exit code 0. A
\* retry that takes over the snapshot of an earlier attempt included.
DumpIsComplete ==
    verdict.state = "succeeded" /\ source.kind # "filesystem"
        => Wanted \ verdict.content \subseteq Declared

\* The run's tag keeps a retry from storing the backup twice; only an attempt
\* that could not list the repository may add one.
RetryReusesSnapshot == Cardinality(tagged) <= 1 + blind

\* The same for a filesystem: the snapshot that a retry finds by its tag is
\* one whose upload was complete ("may have completed the upload but lost its
\* terminal response").
ReusedSnapshotIsComplete ==
    verdict.state = "succeeded" /\ source.kind = "filesystem" => verdict.content = Wanted
=============================================================================
