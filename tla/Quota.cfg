SPECIFICATION StoreSpec
CONSTANTS
  Workers <- MCWorkers
  Keys = {1, 2, 3}
  Sizes = {1, 3}
  MaxValue = 3
  MaxTotal = 6
  Word = 32
  MaxCursors = 1
  SweepEvery = 1
  CursorTtl = 1
  Ttl = 1
  StartLen = 1
  MaxRead = 6
  Loaded <- MCLoaded
  MaxTime = 1
  MaxOps <- MCOps
INVARIANT QuotaHolds
CHECK_DEADLOCK FALSE
