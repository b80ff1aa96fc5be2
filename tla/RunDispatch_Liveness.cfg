SPECIFICATION MCFairSpec
CONSTANTS
  r1 = r1
  r2 = r2
  u1 = u1
  p1 = p1
  a1 = a1
  NoRun = NoRun
  Runs = {r1}
  Repositories = {p1}
  Agents = {a1}
  RunRepository <- MCOneRepository
  RunAgent <- MCAgent
  Retryable = {r1}
  CacheCap = 1
  MaxConcurrency = 1
  ChannelCap = 2
  Cancellable = {r1}
  MayTimeOut = {r1}
  FaultKinds = {"link", "restart", "crash", "store"}
  MaxFaults = 1
PROPERTIES
  EveryRunSettles
CHECK_DEADLOCK FALSE
