SPECIFICATION MCSpec
CONSTANTS
  d1 = d1
  d2 = d2
  f1 = f1
  f2 = f2
  p1 = p1
  p2 = p2
  a1 = a1
  NoRestore = NoRestore
  Restores = {d1, d2, f1}
  Databases = {d1, d2}
  Repositories = {p1}
  Agents = {a1}
  RestoreRepository <- MCOneRepository
  RestoreAgent <- MCAgent
  Overlapping <- MCOverlapping
  SafeAgents = {a1}
  MaxCancels = 1
  ChannelCap = 2
  FaultKinds = {"link", "restart", "crash", "build", "tempdir", "password", "offline", "deadline", "early_job"}
  MaxFaults = 2
SYMMETRY RestoreSymmetry
INVARIANT SafePhaseIsTruthful
INVARIANT OccupancyCoversExecution
INVARIANT RestoreRunsOnce
INVARIANT DatabaseRestoreExclusive
PROPERTY TerminalPhasesAreFinal
PROPERTY PromisesKept
PROPERTY OrphansHaveKnownCauses
CHECK_DEADLOCK FALSE
