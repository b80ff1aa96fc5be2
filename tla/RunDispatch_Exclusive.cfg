SPECIFICATION MCPairSpec
CONSTANTS
  r1 = r1
  r2 = r2
  u1 = u1
  p1 = p1
  a1 = a1
  NoRun = NoRun
  Runs = {r1, r2}
  Repositories = {p1}
  Agents = {a1}
  RunRepository <- MCOneRepository
  RunAgent <- MCAgent
  Retryable = {r1, r2}
  CacheCap = 1
  MaxConcurrency = 1
  ChannelCap = 2
  Cancellable = {}
  MayTimeOut = {}
  FaultKinds = {"link", "lease", "crash", "store", "build"}
  MaxFaults = 2
SYMMETRY RunSymmetry
INVARIANTS
  OneActiveRunPerRepository
  RedeliveryIsIdempotent
CHECK_DEADLOCK FALSE
