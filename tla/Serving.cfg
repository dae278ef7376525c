SPECIFICATION PartsSpec
CONSTANTS
  a1 = a1
  a2 = a2
  s1 = s1
  s2 = s2
  Addr <- MCAddr
  Configs <- MCConfigs
  MaxFails = 2
  FailWindow = 1
  FailTimeout = 2
  UnhealthyThreshold = 2
  HealthyThreshold = 1
  MaxNow = 6
  PoolConfigs <- MCPoolConfigs
  PoolBoot <- MCPoolBoot
  Lookups = {{}, {2}, {3}}
  Appliers = {"reload", "ingress"}
  PoolRequests = {"r1"}
  MaxApplies = 3
  Requests <- MCRequests
  Inputs <- MCInputs
  Tasks = {"t1", "t2", "t3"}
  Peers = 2
  Views = {{1, 2}, {1}}
  Cap = 1
  Ttl = 1
  MaxTime = 1
  MaxStarts = 3
  g1 = g1
  g2 = g2
  d1 = d1
  i1 = i1
  q1 = q1
  k1 = k1
  k2 = k2
  p1 = p1
  NoOne = NoOne
  NoConfig = NoConfig
  Gated <- MCGated
  Direct <- MCDirect
  Ingress <- MCIngress
  Request <- MCRequest
  Config <- MCConfig
  Plugin <- MCPlugin
  ReloadAttempts = 2
  MaxGen = 2
  N = 3
  FailClosed <- MCFailClosed
  Retries = 1
  PeerCount = 3
  LogOnNoRoute <- MCLogOnNoRoute
  PluginStatus = 403
  UpstreamStatus = 206
  MaxChunks = 2
INVARIANTS
  MirrorAgrees BurstIsCaught SwrrIsFair PoolFollowsConfig AffinityIsBounded
  FailureChangesNothing SettledAgreement PinsOneBehind
  EveryPluginLogs FailClosedStops StatusAgrees EditsAreFaithful
PROPERTIES
  DownIsEarned ReloadIsNeutral RuntimeMonotone HostStateContinuity PhasesInOrder
