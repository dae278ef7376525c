SPECIFICATION Spec
CONSTANTS
  l1 = l1
  l2 = l2
  c1 = c1
  c2 = c2
  Loop <- MCLoop
  Conn <- MCConn
INVARIANT EarlySignalDrains
CHECK_DEADLOCK FALSE
