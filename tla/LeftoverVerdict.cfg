SPECIFICATION Spec
CONSTANTS
  a1 = a1
  a2 = a2
  Addr <- MCAddr
  Configs <- MCConfigsActiveOff
  MaxFails = 2
  FailWindow = 1
  FailTimeout = 2
  UnhealthyThreshold = 2
  HealthyThreshold = 1
  MaxNow = 6
PROPERTY LeftoverVerdictIsHarmless
