SPECIFICATION Spec
CONSTANTS
  f1 = f1
  f2 = f2
  NoFile = NoFile
  Nothing = Nothing
  Class = "own"
  File <- MCFile
  StaticRoutes <- MCStaticRoutes
  StaticUpstreams <- MCStaticUpstreams
  Namespace <- MCNamespace
  Contents <- MCContents
  Starts <- MCStarts
  FileRuntimes <- MCFileRuntimes
  Environments <- MCEnvironments
INVARIANT OnlyFresherReplaces
CHECK_DEADLOCK FALSE
