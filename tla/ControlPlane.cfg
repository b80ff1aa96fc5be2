SPECIFICATION MCSpec
CONSTANTS
    Schedules <- EverySecond
    MaxClock = 3
    MaxEdits = 2
    MaxCrashes = 1
    Machines = {m1, m2}
    Streams = {s1, s2}
    NoStream = NoStream
    Tokens = {tnew, ttake}
    Takeover = {ttake}
    NoMachine = NoMachine
    MaxAdminOps = 1
    MaxSessionFaults = 1
    Binders = {b1, b2}
    MaxRows = 2
    MaxBindFaults = 1
    OldNames = {"a", "b"}
    SnapNames = {"b", "c"}
    ArgSets <- OneFlag
    MaxAttempts = 2
SYMMETRY Alike
INVARIANTS
    SlotRunsOnce EditedPlanDropsOldSlot ActiveRunHasPlan RefusalMeansItRan
    LiveStreamIsCurrent RestoreNeedsOwnReport TokenEnrolsOnce
    ReadyOpensRemote NothingLeftPending BindsDoNotCollide AttachedHasTarget
    OutcomeIsTrue OldDataIsSafe RollbackFailsForCause
    DumpIsComplete RetryReusesSnapshot
PROPERTY PromiseKept
CHECK_DEADLOCK FALSE
