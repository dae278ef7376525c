SPECIFICATION SwapSpec
CONSTANTS
  g1 = g1
  g2 = g2
  d1 = d1
  i1 = i1
  q1 = q1
  k1 = k1
  k2 = k2
  p1 = p1
  NoOne = NoOne
  NoConfig = NoConfig
  Gated <- MCGated
  Direct <- MCDirect
  Ingress <- MCIngress
  Request <- MCRequest
  Config <- MCConfig
  Plugin <- MCPlugin
  ReloadAttempts = 2
  MaxGen = 2
INVARIANT IngressNeverDisagrees
CHECK_DEADLOCK FALSE
SYMMETRY SwapSymmetry
