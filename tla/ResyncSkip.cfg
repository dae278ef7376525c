SPECIFICATION Spec
CONSTANTS
  f1 = f1
  f2 = f2
  NoFile = NoFile
  Nothing = Nothing
  Class = "own"
  File <- MCFile
  StaticRoutes <- MCStaticRoutes
  StaticUpstreams <- MCStaticUpstreams
  Namespace <- MCNamespace
  Contents <- MCContents
  Starts <- MCFaultless
  FileRuntimes <- MCFileRuntimes
  Environments <- MCEnvironments
INVARIANT ResyncMissesNothing
CHECK_DEADLOCK FALSE
