------------------------- MODULE PlanScheduleProofs --------------------------
(***************************************************************************)
(* Theorems about PlanSchedule, for every set of schedules, every length   *)
(* of time and any number of edits, restarts and failed cursor writes.     *)
(***************************************************************************)
EXTENDS PlanSchedule, WellFoundedInduction, TLAPS

-----------------------------------------------------------------------------
(* The cron library.                                                         *)

\* sched.Next answers with a slot of the schedule that lies ahead, or with the
\* zero time when there is none.
LEMMA NextSlotFact ==
  ASSUME NEW schedule \in Schedules, NEW now \in 0..MaxClock
  PROVE  /\ NextSlot(schedule, now) \in 0..MaxClock
         /\ NextSlot(schedule, now) # NoSlot =>
              NextSlot(schedule, now) \in schedule /\ NextSlot(schedule, now) > now
<1> DEFINE later == {t \in schedule : t > now}
<1>1. later \subseteq 1..MaxClock /\ MaxClock \in Nat
  BY ScheduleAssumption
<1>2. CASE later = {}
  BY <1>1, <1>2 DEF NextSlot, NoSlot
<1>3. CASE later # {}
  <2>1. later \subseteq Nat
    BY <1>1
  <2>2. \E x \in later : \A y \in later : <<y, x>> \notin OpToRel(<, Nat)
    BY <1>3, <2>1, NatLessThanWellFounded, WFMin, Zenon
  <2>3. PICK x \in later : \A y \in later : <<y, x>> \notin OpToRel(<, Nat)
    BY <2>2
  <2>4. \A y \in later : ~(y < x)
    BY <2>1, <2>3, Zenon DEF OpToRel
  <2>5. \A y \in later : x =< y
    BY <2>1, <2>4
  <2>6. Min(later) \in later
    BY <2>5 DEF Min
  <2> QED
    BY <1>1, <1>3, <2>6 DEF NextSlot, NoSlot
<1> QED
  BY <1>2, <1>3

-----------------------------------------------------------------------------
(* The inductive invariant.                                                  *)

\* A tick on its way to a run row has a slot to run.
DueSlotIsSlot == tickPc \in {"start", "create"} => ticket.slot \in Slots

\* UNIQUE(plan_id, scheduled_at): as many starts as rows.
StartsCountRows == \A t \in Slots : starts[t] = IF slotRun[t] = "none" THEN 0 ELSE 1

\* A slot kept in memory belongs to the schedule kept beside it, in the cursor
\* and in what the tick is about to save.
CursorOfItsSchedule ==
    /\ memCursor.cached /\ memCursor.next # NoSlot => memCursor.next \in memCursor.schedule
    /\ ticket.next # NoSlot => ticket.next \in ticket.schedule

\* A request that lost against the dedup index has an equivalent run, now or
\* since it began.
RefusedHasRun == request = "refused" => manual # "none" \/ finished

ScheduleInv ==
    /\ ScheduleTypeOK
    /\ DueSlotIsSlot
    /\ StartsCountRows
    /\ CursorOfItsSchedule
    /\ EditedPlanDropsOldSlot
    /\ ActiveRunHasPlan
    /\ RefusedHasRun
    /\ RefusalMeansItRan

\* A new plan has no cursor, no run and no request.
LEMMA ScheduleInitInv == ScheduleInit => ScheduleInv
<1> SUFFICES ASSUME ScheduleInit PROVE ScheduleInv
  OBVIOUS
<1> USE ScheduleAssumption DEF ScheduleInit
<1>1. plan \in [exists : BOOLEAN, enabled : BOOLEAN, schedule : Schedules] /\ plan.exists
  OBVIOUS
<1>2. memCursor \in [cached : BOOLEAN, schedule : Schedules \cup {{}}, next : 0..MaxClock]
  BY DEF NoCursor, NoSlot
<1>3. ticket \in [schedule : Schedules \cup {{}}, slot : 0..MaxClock,
                  next : 0..MaxClock, cached : BOOLEAN]
  BY DEF NoTicket, NoSlot
<1>a. clock \in 0..MaxClock /\ dbCursor \in 0..MaxClock /\ edits \in 0..MaxEdits
      /\ crashes \in 0..MaxCrashes
  BY DEF NoSlot
<1>b. slotRun \in [Slots -> {"none", "active", "ended"}] /\ starts \in [Slots -> Nat]
  OBVIOUS
<1>4. ScheduleTypeOK
  BY <1>1, <1>2, <1>3, <1>a, <1>b DEF ScheduleTypeOK
<1>5. DueSlotIsSlot /\ StartsCountRows /\ CursorOfItsSchedule /\ EditedPlanDropsOldSlot
  BY DEF DueSlotIsSlot, StartsCountRows, CursorOfItsSchedule, EditedPlanDropsOldSlot,
     NoCursor, NoTicket, NoSlot
<1>6. ActiveRunHasPlan /\ RefusedHasRun /\ RefusalMeansItRan
  BY <1>1 DEF ActiveRunHasPlan, RefusedHasRun, RefusalMeansItRan
<1> QED
  BY <1>4, <1>5, <1>6 DEF ScheduleInv

-----------------------------------------------------------------------------
(* The steps.                                                                *)

\* The tick takes a due slot from a cursor whose schedule the plan still has.
LEMMA TickPlanStep == ScheduleInv /\ TickPlan => ScheduleInv'
<1> SUFFICES ASSUME ScheduleInv, TickPlan PROVE ScheduleInv'
  OBVIOUS
<1> USE ScheduleAssumption DEF TickPlan, ScheduleInv, planVars, cursorVars, slotVars, manualVars
<1>1. /\ NextSlot(plan.schedule, clock) \in 0..MaxClock
      /\ NextSlot(plan.schedule, clock) # NoSlot =>
           NextSlot(plan.schedule, clock) \in plan.schedule
  BY NextSlotFact DEF ScheduleTypeOK
<1>2. CurrentCursor \in 0..MaxClock
  BY DEF CurrentCursor, ScheduleTypeOK
<1>3. ScheduleTypeOK'
  BY <1>1, <1>2 DEF ScheduleTypeOK, NoSlot
<1>4. DueSlotIsSlot'
  BY <1>2 DEF DueSlotIsSlot, ScheduleTypeOK, NoSlot, Slots
<1>5. CursorOfItsSchedule'
  BY <1>1 DEF CursorOfItsSchedule, NoSlot
<1>6. EditedPlanDropsOldSlot'
  BY DEF EditedPlanDropsOldSlot, CursorOfItsSchedule, CurrentCursor, NoSlot
<1>7. StartsCountRows' /\ ActiveRunHasPlan' /\ RefusedHasRun' /\ RefusalMeansItRan'
  BY DEF StartsCountRows, ActiveRunHasPlan, ActiveRun, RefusedHasRun, RefusalMeansItRan
<1> QED
  BY <1>3, <1>4, <1>5, <1>6, <1>7

\* The rest of the tick: the row is inserted once, under a plan that exists, and
\* the cursor is saved with its schedule.
LEMMA TickStep == ScheduleInv /\ (StartPlanRun \/ CreateSlotRun \/ SaveCursor) => ScheduleInv'
<1> SUFFICES ASSUME ScheduleInv, StartPlanRun \/ CreateSlotRun \/ SaveCursor
             PROVE  ScheduleInv'
  OBVIOUS
<1> USE ScheduleAssumption
    DEF ScheduleInv, planVars, cursorVars, tickVars, slotVars, manualVars
<1>1. CASE StartPlanRun
  BY <1>1 DEF StartPlanRun, ScheduleTypeOK, DueSlotIsSlot, StartsCountRows,
      CursorOfItsSchedule, EditedPlanDropsOldSlot, ActiveRunHasPlan, ActiveRun, RefusedHasRun,
      RefusalMeansItRan
<1>2. CASE CreateSlotRun
  <2> USE <1>2 DEF CreateSlotRun
  <2>1. ticket.slot \in Slots
    BY DEF DueSlotIsSlot
  <2>2. ScheduleTypeOK'
    BY <2>1 DEF ScheduleTypeOK
  <2>3. StartsCountRows'
    BY <2>1 DEF StartsCountRows, ScheduleTypeOK
  <2>4. ActiveRunHasPlan'
    BY <2>1 DEF ActiveRunHasPlan, ActiveRun, ScheduleTypeOK
  <2>5. DueSlotIsSlot' /\ CursorOfItsSchedule' /\ EditedPlanDropsOldSlot'
    BY DEF DueSlotIsSlot, CursorOfItsSchedule, EditedPlanDropsOldSlot
  <2>6. RefusedHasRun' /\ RefusalMeansItRan'
    BY DEF RefusedHasRun, RefusalMeansItRan
  <2> QED
    BY <2>2, <2>3, <2>4, <2>5, <2>6
<1>3. CASE SaveCursor
  <2> USE <1>3 DEF SaveCursor
  <2>1. ScheduleTypeOK'
    BY DEF ScheduleTypeOK, NoTicket, NoSlot
  <2>2. DueSlotIsSlot' /\ CursorOfItsSchedule' /\ EditedPlanDropsOldSlot'
    BY DEF DueSlotIsSlot, CursorOfItsSchedule, EditedPlanDropsOldSlot, NoTicket, NoSlot
  <2>3. StartsCountRows' /\ ActiveRunHasPlan' /\ RefusedHasRun' /\ RefusalMeansItRan'
    BY DEF StartsCountRows, ActiveRunHasPlan, ActiveRun, RefusedHasRun, RefusalMeansItRan
  <2> QED
    BY <2>1, <2>2, <2>3
<1> QED
  BY <1>1, <1>2, <1>3

\* Users: an edit changes what the plan says, a deletion finds no active run,
\* a manual run is inserted under a plan that exists.
LEMMA UserStep ==
  ScheduleInv /\ (UpdatePlan \/ DeletePlan \/ RequestManualRun \/ CreateManualRun
                  \/ JoinDuplicateRun \/ AnswerError) => ScheduleInv'
<1> SUFFICES ASSUME ScheduleInv,
                    UpdatePlan \/ DeletePlan \/ RequestManualRun \/ CreateManualRun
                    \/ JoinDuplicateRun \/ AnswerError
             PROVE  ScheduleInv'
  OBVIOUS
<1> USE ScheduleAssumption
    DEF ScheduleInv, planVars, cursorVars, tickVars, slotVars, manualVars
<1>1. CASE UpdatePlan
  <2>1. /\ edits < MaxEdits /\ edits' = edits + 1
        /\ UNCHANGED <<clock, agentOnline, repoReady, memCursor, dbCursor, tickPc, ticket, slotRun,
                       starts, manual, request, finished, crashes>>
    BY <1>1, Zenon DEF UpdatePlan
  <2>2. plan \in [exists : BOOLEAN, enabled : BOOLEAN, schedule : Schedules]
    BY DEF ScheduleTypeOK
  <2>3. /\ plan' \in [exists : BOOLEAN, enabled : BOOLEAN, schedule : Schedules]
        /\ plan'.exists = plan.exists
    BY <1>1, <2>2 DEF UpdatePlan
  <2>4. ScheduleTypeOK'
    BY <2>1, <2>3 DEF ScheduleTypeOK
  <2>5. ActiveRunHasPlan'
    BY <2>1, <2>3 DEF ActiveRunHasPlan, ActiveRun
  <2> QED
    BY <2>1, <2>4, <2>5 DEF DueSlotIsSlot, StartsCountRows, CursorOfItsSchedule,
       EditedPlanDropsOldSlot, RefusedHasRun, RefusalMeansItRan
<1>2. CASE DeletePlan
  <2> USE <1>2 DEF DeletePlan
  <2>1. plan' \in [exists : BOOLEAN, enabled : BOOLEAN, schedule : Schedules]
    BY DEF ScheduleTypeOK
  <2>2. ScheduleTypeOK'
    BY <2>1 DEF ScheduleTypeOK, NoSlot
  <2>3. ~ActiveRun'
    BY DEF ActiveRun
  <2> QED
    BY <2>2, <2>3 DEF DueSlotIsSlot, StartsCountRows, CursorOfItsSchedule,
       EditedPlanDropsOldSlot, ActiveRunHasPlan, RefusedHasRun, RefusalMeansItRan
<1>3. CASE RequestManualRun \/ CreateManualRun \/ JoinDuplicateRun \/ AnswerError
  <2> USE <1>3 DEF RequestManualRun, CreateManualRun, JoinDuplicateRun, AnswerError
  <2>1. ScheduleTypeOK'
    BY ZenonT(60) DEF ScheduleTypeOK
  <2>2. DueSlotIsSlot' /\ StartsCountRows' /\ CursorOfItsSchedule' /\ EditedPlanDropsOldSlot'
    BY DEF DueSlotIsSlot, StartsCountRows, CursorOfItsSchedule, EditedPlanDropsOldSlot
  <2>3. ActiveRunHasPlan'
    BY DEF ActiveRunHasPlan, ActiveRun
  <2>4. RefusedHasRun' /\ RefusalMeansItRan'
    BY DEF RefusedHasRun, RefusalMeansItRan
  <2> QED
    BY <2>1, <2>2, <2>3, <2>4
<1> QED
  BY <1>1, <1>2, <1>3

\* Runs end, time passes, the server restarts.
LEMMA WorldStep ==
  ScheduleInv /\ (RunAdvances \/ PreconditionChanges \/ TimePasses \/ SchedulerRestart)
    => ScheduleInv'
<1> SUFFICES ASSUME ScheduleInv,
                    RunAdvances \/ PreconditionChanges \/ TimePasses \/ SchedulerRestart
             PROVE  ScheduleInv'
  OBVIOUS
<1> USE ScheduleAssumption
    DEF ScheduleInv, planVars, cursorVars, tickVars, slotVars, manualVars
<1>1. CASE RunAdvances
  <2> USE <1>1 DEF RunAdvances
  <2>0. finished' \in BOOLEAN
    BY DEF ScheduleTypeOK
  <2>1. ScheduleTypeOK'
    BY <2>0 DEF ScheduleTypeOK
  <2>2. StartsCountRows'
    BY DEF StartsCountRows, ScheduleTypeOK
  <2>3. ActiveRunHasPlan'
    BY DEF ActiveRunHasPlan, ActiveRun, ScheduleTypeOK
  <2>4. RefusedHasRun' /\ RefusalMeansItRan'
    BY DEF RefusedHasRun, RefusalMeansItRan
  <2>5. DueSlotIsSlot' /\ CursorOfItsSchedule' /\ EditedPlanDropsOldSlot'
    BY DEF DueSlotIsSlot, CursorOfItsSchedule, EditedPlanDropsOldSlot
  <2> QED
    BY <2>1, <2>2, <2>3, <2>4, <2>5
<1>2. CASE PreconditionChanges \/ TimePasses
  <2> USE <1>2 DEF PreconditionChanges, TimePasses
  <2>0. agentOnline' \in BOOLEAN /\ repoReady' \in BOOLEAN
    BY DEF ScheduleTypeOK
  <2>1. ScheduleTypeOK'
    BY <2>0 DEF ScheduleTypeOK
  <2> QED
    BY <2>1 DEF DueSlotIsSlot, StartsCountRows, CursorOfItsSchedule, EditedPlanDropsOldSlot,
       ActiveRunHasPlan, ActiveRun, RefusedHasRun, RefusalMeansItRan
<1>3. CASE SchedulerRestart
  <2> USE <1>3 DEF SchedulerRestart
  <2>0. /\ memCursor' \in [cached : BOOLEAN, schedule : Schedules \cup {{}}, next : 0..MaxClock]
        /\ ticket' \in [schedule : Schedules \cup {{}}, slot : 0..MaxClock,
                         next : 0..MaxClock, cached : BOOLEAN]
    BY DEF NoCursor, NoTicket, NoSlot
  <2>a. crashes' \in 0..MaxCrashes
    BY DEF ScheduleTypeOK
  <2>1. ScheduleTypeOK'
    BY <2>0, <2>a DEF ScheduleTypeOK
  <2> QED
    BY <2>1 DEF DueSlotIsSlot, StartsCountRows, CursorOfItsSchedule, EditedPlanDropsOldSlot,
       ActiveRunHasPlan, ActiveRun, RefusedHasRun, RefusalMeansItRan, NoCursor, NoTicket, NoSlot
<1> QED
  BY <1>1, <1>2, <1>3

\* Every step keeps the invariant.
LEMMA ScheduleStep == ScheduleInv /\ [ScheduleNext]_scheduleVars => ScheduleInv'
<1> SUFFICES ASSUME ScheduleInv, [ScheduleNext]_scheduleVars PROVE ScheduleInv'
  OBVIOUS
<1>1. CASE UNCHANGED scheduleVars
  BY <1>1 DEF scheduleVars, planVars, cursorVars, tickVars, slotVars, manualVars, ScheduleInv,
     ScheduleTypeOK, DueSlotIsSlot, StartsCountRows, CursorOfItsSchedule,
     EditedPlanDropsOldSlot, ActiveRunHasPlan, ActiveRun, RefusedHasRun, RefusalMeansItRan
<1> QED
  BY <1>1, TickPlanStep, TickStep, UserStep, WorldStep DEF ScheduleNext

\* The invariant holds in every state of the scheduler.
LEMMA ScheduleInvariant == ScheduleSpec => []ScheduleInv
  BY ScheduleInitInv, ScheduleStep, PTL DEF ScheduleSpec

-----------------------------------------------------------------------------
(* The theorems.                                                             *)

\* The plan, both cursors, the tick and the run rows keep their types.
THEOREM ScheduleTypeCorrect == ScheduleSpec => []ScheduleTypeOK
  BY ScheduleInvariant, PTL DEF ScheduleInv

\* No slot of a plan is backed up twice, wherever the server crashes between
\* CreateRun and SetScheduleCursor, and however often the cursor is not saved.
THEOREM SlotsRunOnce == ScheduleSpec => []SlotRunsOnce
<1>1. ScheduleInv => SlotRunsOnce
  BY DEF ScheduleInv, StartsCountRows, SlotRunsOnce
<1> QED
  BY <1>1, ScheduleInvariant, PTL

\* A slot that the tick takes from the cursor in memory belongs to the schedule
\* the tick has just read, whatever edits came since the cursor was computed.
THEOREM EditsDropOldSlots == ScheduleSpec => []EditedPlanDropsOldSlot
  BY ScheduleInvariant, PTL DEF ScheduleInv

\* DELETE of a plan and the insertion of its run exclude each other.
THEOREM ActiveRunsHavePlans == ScheduleSpec => []ActiveRunHasPlan
  BY ScheduleInvariant, PTL DEF ScheduleInv

\* ManualRun refuses only a request during which an equivalent run has ended.
THEOREM RefusalsAreJustified == ScheduleSpec => []RefusalMeansItRan
  BY ScheduleInvariant, PTL DEF ScheduleInv
=============================================================================
