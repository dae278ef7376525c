SPECIFICATION Spec
CONSTANTS
  a1 = a1
  a2 = a2
  m1 = m1
  m2 = m2
  NoModule = NoModule
  Admin <- MCAdmin
  Module <- MCModule
  Path <- MCPath
  Asked <- MCAsked
  Config <- MCConfig
  CasAttempts = 2
  MaxBindings = 2
  MaxCalls = 2
  MaxReloads = 1
PROPERTIES RuntimeBindingsSurvive
CHECK_DEADLOCK FALSE
SYMMETRY BindingsSymmetry
