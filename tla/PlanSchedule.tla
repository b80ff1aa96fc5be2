---------------------------- MODULE PlanSchedule ----------------------------
(* One backup plan and the scheduler's cron tick. The cursor of a plan is    *)
(* the next slot; it lives in memory together with the schedule it was       *)
(* computed from, and in the database without it. The tick reads the plan,   *)
(* starts the run of a due slot and then saves the cursor, and the server    *)
(* may crash or users may edit, disable, delete or run the plan in between.  *)
(*                                                                           *)
(* A schedule is the set of its slots. NoSlot is Go's zero time, which cron  *)
(* returns when nothing lies ahead and which tickPlan takes for no cursor.   *)
EXTENDS Integers, FiniteSets, FiniteSetsExt

CONSTANTS
    Schedules,       \* the schedules users choose from
    MaxClock,        \* bound on time
    MaxEdits,        \* bound on the number of edits by users
    MaxCrashes       \* bound on server restarts and failed cursor writes

ASSUME ScheduleAssumption ==
    /\ Schedules # {}
    /\ \A s \in Schedules : s \subseteq 1..MaxClock
    /\ MaxClock \in Nat /\ MaxEdits \in Nat /\ MaxCrashes \in Nat

VARIABLES
    clock,
    plan,        \* the row: does it exist, is it enabled, its schedule
    agentOnline, \* the agent's row says online
    repoReady,   \* the repository's status is ready
    memCursor,   \* s.cursors: the slot, the schedule behind it, is it cached
    dbCursor,    \* schedule_cursor, NoSlot without a row
    tickPc,      \* where the tick is: "idle", "start", "create", "save"
    ticket,      \* what the tick read: the schedule, the due slot, its
                 \* successor, and whether the slot came from memory
    slotRun,     \* the run row of each slot: "none", "active", "ended"
    starts,      \* history: how many run rows each slot ever had
    manual,      \* the row with the plan's dedup key: "none", "queued", "running"
    request,     \* a manual run request: "idle", "read", "refused", "error"
    finished,    \* history: a manual run ended since the request began
    edits, crashes

planVars == <<plan, agentOnline, repoReady, edits>>
cursorVars == <<memCursor, dbCursor>>
tickVars == <<tickPc, ticket>>
slotVars == <<slotRun, starts>>
manualVars == <<manual, request, finished>>
scheduleVars == <<clock, planVars, cursorVars, tickVars, slotVars, manualVars, crashes>>

NoSlot == 0
Slots == 1..MaxClock
NoCursor == [cached |-> FALSE, schedule |-> {}, next |-> NoSlot]
NoTicket == [schedule |-> {}, slot |-> NoSlot, next |-> NoSlot, cached |-> FALSE]

ScheduleTypeOK ==
    /\ clock \in 0..MaxClock
    /\ plan \in [exists : BOOLEAN, enabled : BOOLEAN, schedule : Schedules]
    /\ agentOnline \in BOOLEAN
    /\ repoReady \in BOOLEAN
    /\ memCursor \in [cached : BOOLEAN, schedule : Schedules \cup {{}}, next : 0..MaxClock]
    /\ dbCursor \in 0..MaxClock
    /\ tickPc \in {"idle", "start", "create", "save"}
    /\ ticket \in [schedule : Schedules \cup {{}}, slot : 0..MaxClock,
                   next : 0..MaxClock, cached : BOOLEAN]
    /\ slotRun \in [Slots -> {"none", "active", "ended"}]
    /\ starts \in [Slots -> Nat]
    /\ manual \in {"none", "queued", "running"}
    /\ request \in {"idle", "read", "refused", "error"}
    /\ finished \in BOOLEAN
    /\ edits \in 0..MaxEdits
    /\ crashes \in 0..MaxCrashes

ScheduleInit ==
    /\ clock = 0
    /\ plan \in [exists : {TRUE}, enabled : {TRUE}, schedule : Schedules]
    /\ agentOnline = TRUE
    /\ repoReady = TRUE
    /\ memCursor = NoCursor
    /\ dbCursor = NoSlot
    /\ tickPc = "idle"
    /\ ticket = NoTicket
    /\ slotRun = [t \in Slots |-> "none"]
    /\ starts = [t \in Slots |-> 0]
    /\ manual = "none"
    /\ request = "idle"
    /\ finished = FALSE
    /\ edits = 0
    /\ crashes = 0

-----------------------------------------------------------------------------
(* The tick.                                                                 *)

\* sched.Next(now): the first slot after now.
NextSlot(schedule, now) ==
    LET later == {t \in schedule : t > now} IN
    IF later = {} THEN NoSlot ELSE Min(later)

\* The cursor the tick goes by: the cached one, or the persisted one.
CurrentCursor == IF memCursor.cached THEN memCursor.next ELSE dbCursor

\* Mutant: the cached cursor is kept when the plan has another schedule.
TickPlan_KeepsCursor ==
    LET due == CurrentCursor # NoSlot /\ CurrentCursor <= clock /\ agentOnline IN
    /\ tickPc = "idle"
    /\ plan.exists /\ plan.enabled
    /\ ticket' = [schedule |-> plan.schedule,
                  slot |-> IF due THEN CurrentCursor ELSE NoSlot,
                  next |-> NextSlot(plan.schedule, clock),
                  cached |-> memCursor.cached]
    /\ tickPc' = IF due THEN "start" ELSE "save"
    /\ UNCHANGED <<clock, planVars, cursorVars, slotVars, manualVars, crashes>>

\* tickPlan up to StartPlanRun: a cursor computed from another schedule is
\* dropped, a due slot of an offline agent is skipped.
TickPlan ==
    LET edited == memCursor.cached /\ memCursor.schedule # plan.schedule
        due == /\ ~edited
               /\ CurrentCursor # NoSlot /\ CurrentCursor <= clock
               /\ agentOnline
    IN
    /\ tickPc = "idle"
    /\ plan.exists /\ plan.enabled
    /\ ticket' = [schedule |-> plan.schedule,
                  slot |-> IF due THEN CurrentCursor ELSE NoSlot,
                  next |-> NextSlot(plan.schedule, clock),
                  cached |-> memCursor.cached]
    /\ tickPc' = IF due THEN "start" ELSE "save"
    /\ UNCHANGED <<clock, planVars, cursorVars, slotVars, manualVars, crashes>>

\* StartPlanRun reads the plan, the agent and the repository; an error is
\* logged and the slot is lost.
StartPlanRun ==
    /\ tickPc = "start"
    /\ tickPc' = IF plan.exists /\ repoReady THEN "create" ELSE "save"
    /\ UNCHANGED <<clock, planVars, cursorVars, ticket, slotVars, manualVars, crashes>>

\* Mutant: the row of a slot that already ran may be inserted again.
CreateSlotRun_NotUnique ==
    /\ tickPc = "create"
    /\ IF plan.exists
       THEN /\ slotRun' = [slotRun EXCEPT ![ticket.slot] = "active"]
            /\ starts' = [starts EXCEPT ![ticket.slot] = @ + 1]
       ELSE UNCHANGED slotVars
    /\ tickPc' = "save"
    /\ UNCHANGED <<clock, planVars, cursorVars, ticket, manualVars, crashes>>

\* CreateRun: refused by UNIQUE(plan_id, scheduled_at) when the slot has a row,
\* and by the foreign key when the plan is gone.
CreateSlotRun ==
    /\ tickPc = "create"
    /\ IF plan.exists /\ slotRun[ticket.slot] = "none"
       THEN /\ slotRun' = [slotRun EXCEPT ![ticket.slot] = "active"]
            /\ starts' = [starts EXCEPT ![ticket.slot] = @ + 1]
       ELSE UNCHANGED slotVars
    /\ tickPc' = "save"
    /\ UNCHANGED <<clock, planVars, cursorVars, ticket, manualVars, crashes>>

\* The cursor moves on in memory and, unless the write fails, in the database;
\* the row of a deleted plan is refused by its foreign key.
SaveCursor ==
    /\ tickPc = "save"
    /\ memCursor' = [cached |-> TRUE, schedule |-> ticket.schedule, next |-> ticket.next]
    /\ \/ /\ dbCursor' = IF plan.exists THEN ticket.next ELSE dbCursor
          /\ UNCHANGED crashes
       \/ /\ crashes < MaxCrashes
          /\ crashes' = crashes + 1
          /\ UNCHANGED dbCursor
    /\ tickPc' = "idle"
    /\ ticket' = NoTicket
    /\ UNCHANGED <<clock, planVars, slotVars, manualVars>>

-----------------------------------------------------------------------------
(* Users, agents, time, restarts.                                            *)

\* PUT /plans/{id}
UpdatePlan ==
    /\ plan.exists
    /\ edits < MaxEdits
    /\ \E s \in Schedules, on \in BOOLEAN :
        /\ plan' = [plan EXCEPT !.schedule = s, !.enabled = on]
        /\ plan' # plan
    /\ edits' = edits + 1
    /\ UNCHANGED <<clock, agentOnline, repoReady, cursorVars, tickVars, slotVars,
                   manualVars, crashes>>

ActiveRun == manual # "none" \/ \E t \in Slots : slotRun[t] = "active"

\* Mutant: the plan is deleted without a look at its runs.
DeletePlan_IgnoresRuns ==
    /\ plan.exists
    /\ edits < MaxEdits
    /\ plan' = [plan EXCEPT !.exists = FALSE]
    /\ dbCursor' = NoSlot
    /\ edits' = edits + 1
    /\ UNCHANGED <<clock, agentOnline, repoReady, memCursor, tickVars, slotVars,
                   manualVars, crashes>>

\* DELETE /plans/{id}: one transaction refuses a plan with an active run and
\* detaches the others; the cursor row goes with the plan.
DeletePlan ==
    /\ plan.exists
    /\ ~ActiveRun
    /\ edits < MaxEdits
    /\ plan' = [plan EXCEPT !.exists = FALSE]
    /\ dbCursor' = NoSlot
    /\ edits' = edits + 1
    /\ UNCHANGED <<clock, agentOnline, repoReady, memCursor, tickVars, slotVars,
                   manualVars, crashes>>

\* ManualRun reads plan, agent and repository ...
RequestManualRun ==
    /\ request = "idle"
    /\ plan.exists /\ repoReady
    /\ request' = "read"
    /\ finished' = FALSE
    /\ UNCHANGED <<clock, planVars, cursorVars, tickVars, slotVars, manual, crashes>>

\* ... inserts the row, which the index on the dedup key refuses while an
\* equivalent run is active ...
CreateManualRun ==
    /\ request = "read"
    /\ IF plan.exists /\ manual = "none"
       THEN manual' = "queued" /\ request' = "idle"
       ELSE /\ request' = IF plan.exists THEN "refused" ELSE "idle"
            /\ UNCHANGED manual
    /\ UNCHANGED <<clock, planVars, cursorVars, tickVars, slotVars, finished, crashes>>

\* Mutant: only a queued run is found.
JoinDuplicateRun_QueuedOnly ==
    /\ request = "refused"
    /\ request' = IF manual = "queued" THEN "idle" ELSE "error"
    /\ UNCHANGED <<clock, planVars, cursorVars, tickVars, slotVars, manual, finished,
                   crashes>>

\* ... and is then answered with that run, or with the refusal if it has just
\* ended.
JoinDuplicateRun ==
    /\ request = "refused"
    /\ request' = IF manual # "none" THEN "idle" ELSE "error"
    /\ UNCHANGED <<clock, planVars, cursorVars, tickVars, slotVars, manual, finished,
                   crashes>>

AnswerError ==
    /\ request = "error"
    /\ request' = "idle"
    /\ finished' = FALSE
    /\ UNCHANGED <<clock, planVars, cursorVars, tickVars, slotVars, manual, crashes>>

\* Dispatch and results, see RunDispatch.
RunAdvances ==
    /\ \/ /\ manual = "queued"
          /\ manual' = "running"
          /\ UNCHANGED <<slotRun, finished>>
       \/ /\ manual # "none"
          /\ manual' = "none"
          /\ finished' = (request # "idle")
          /\ UNCHANGED slotRun
       \/ \E t \in Slots :
          /\ slotRun[t] = "active"
          /\ slotRun' = [slotRun EXCEPT ![t] = "ended"]
          /\ UNCHANGED <<manual, finished>>
    /\ UNCHANGED <<clock, planVars, cursorVars, tickVars, starts, request, crashes>>

\* The agent comes and goes, a binding breaks or is repaired.
PreconditionChanges ==
    /\ edits < MaxEdits
    /\ \/ agentOnline' = ~agentOnline /\ UNCHANGED repoReady
       \/ repoReady' = ~repoReady /\ UNCHANGED agentOnline
    /\ edits' = edits + 1
    /\ UNCHANGED <<clock, plan, cursorVars, tickVars, slotVars, manualVars, crashes>>

TimePasses ==
    /\ clock < MaxClock
    /\ clock' = clock + 1
    /\ UNCHANGED <<planVars, cursorVars, tickVars, slotVars, manualVars, crashes>>

\* A restart forgets the cached cursor, the tick and the request.
SchedulerRestart ==
    /\ crashes < MaxCrashes
    /\ crashes' = crashes + 1
    /\ memCursor' = NoCursor
    /\ tickPc' = "idle"
    /\ ticket' = NoTicket
    /\ request' = "idle"
    /\ finished' = FALSE
    /\ UNCHANGED <<clock, planVars, dbCursor, slotVars, manual>>

ScheduleNext ==
    \/ TickPlan \/ StartPlanRun \/ CreateSlotRun \/ SaveCursor
    \/ UpdatePlan \/ DeletePlan
    \/ RequestManualRun \/ CreateManualRun \/ JoinDuplicateRun \/ AnswerError
    \/ RunAdvances \/ PreconditionChanges \/ TimePasses \/ SchedulerRestart

ScheduleSpec == ScheduleInit /\ [][ScheduleNext]_scheduleVars

-----------------------------------------------------------------------------
(* Properties.                                                               *)

\* No slot of a plan is backed up twice, although the server may crash between
\* starting its run and saving the cursor, or fail to save it (tickPlan).
SlotRunsOnce == \A t \in Slots : starts[t] <= 1

\* A running scheduler never starts a slot of a schedule that the plan no
\* longer has when the tick reads it. After a restart it may, because the
\* database does not say which schedule the cursor belongs to.
EditedPlanDropsOldSlot ==
    ticket.slot # NoSlot /\ ticket.cached => ticket.slot \in ticket.schedule

\* The plan of an active run is not deleted under it, although DELETE looks at
\* the plan before the scheduler or a user inserts the run.
ActiveRunHasPlan == ActiveRun => plan.exists

\* A manual request is refused only if an equivalent run has ended since it
\* began; while one is active the request joins it (joinDuplicateRun).
RefusalMeansItRan == request = "error" => finished
=============================================================================
