SPECIFICATION LiveSpec
CONSTANTS
    d1 = d1
    d2 = d2
    f1 = f1
    f2 = f2
    p1 = p1
    p2 = p2
    a1 = a1
    NoRestore = NoRestore
    Restores = {d1, f1}
    Databases = {d1}
    Repositories = {p1}
    Agents = {a1}
    RestoreRepository <- MCOneRepository
    RestoreAgent <- MCAgent
    Overlapping <- MCOverlapping
    SafeAgents = {a1}
    MaxCancels = 1
    ChannelCap = 1
    FaultKinds = {"link", "crash", "tempdir", "deadline"}
    MaxFaults = 1
    Machines = {m1}
    Streams = {s1, s2}
    NoStream = NoStream
    Tokens = {tnew}
    Takeover = {}
    NoMachine = NoMachine
    MaxAdminOps = 1
    MaxSessionFaults = 1
    Backups = {b1}
    Protection = p
    Lists = {l1, l2}
    None = None
    CatalogFaultKinds = {"failure", "timeout", "lost"}
    MaxCatalogFaults = 1
    MaxBrowses = 1
PROPERTIES EveryRestoreEnds ConnectedAgentShownOnline GoneAgentShownOffline RunningDeletionSettles
CHECK_DEADLOCK FALSE
