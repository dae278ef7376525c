SPECIFICATION PartsSpec
CONSTANTS
  h1 = h1
  h2 = h2
  r1 = r1
  r2 = r2
  u1 = u1
  u2 = u2
  Publisher <- MCPublisher
  Addr <- MCHosts
  Lists <- MCLists
  Req <- MCReq
  Retries = 1
  RetryOnTimeout = TRUE
  MaxAbandoned = 1
  MaxFails = 1
  FailWindow = 1
  FailTimeout = 1
  UnhealthyThreshold = 1
  HealthyThreshold = 1
  a1 = a1
  a2 = a2
  m1 = m1
  m2 = m2
  NoModule = NoModule
  Admin <- MCAdmin
  Module <- MCModule
  Path <- MCPath
  Asked <- MCAsked
  Config <- MCConfig
  CasAttempts = 2
  MaxBindings = 2
  MaxCalls = 2
  MaxReloads = 1
  Requests = {"r1", "r2", "r3"}
  Uploads = {1, 2}
  MaxRemoves = 1
  Workers <- MCWorkers
  Keys = {1, 2, 3}
  Sizes = {1, 3}
  MaxValue = 3
  MaxTotal = 6
  Word = 32
  MaxCursors = 1
  SweepEvery = 1
  CursorTtl = 1
  Ttl = 1
  StartLen = 1
  MaxRead = 6
  Loaded <- MCLoaded
  MaxTime = 1
  MaxOps <- MCOps
INVARIANTS
  NonIdempotentOnce NoRevisit GaugeBounded GaugeExact
  LookupMostSpecific TableIsSound ScanIsComplete CacheIsFresh
PROPERTIES NoLostUpdates StoreRefinesLedger
SYMMETRY Symmetry
