SPECIFICATION Spec
CONSTANTS
  d1 = d1
  d2 = d2
  f1 = f1
  f2 = f2
  p1 = p1
  p2 = p2
  a1 = a1
  NoRestore = NoRestore
  Restores = {f1, f2}
  Databases = {}
  Repositories = {p1, p2}
  Agents = {a1}
  RestoreRepository <- MCTwoRepositories
  RestoreAgent <- MCAgent
  Overlapping <- MCOverlapping
  SafeAgents = {a1}
  MaxCancels = 0
  ChannelCap = 2
  FaultKinds = {}
  MaxFaults = 0
INVARIANT FilesystemTargetExclusive
CHECK_DEADLOCK FALSE
