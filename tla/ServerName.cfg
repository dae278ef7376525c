SPECIFICATION PartsSpec
CONSTANTS
  l1 = l1
  l2 = l2
  c1 = c1
  c2 = c2
  Loop <- MCLoop
  Conn <- MCConn
  Files <- BootFiles
  Envs <- BootEnvs
  Nowhere <- BootNowhere
  Manifests <- Workloads
  NoManifest <- WorkloadNone
  Ports = {80, 443, 8080, 4191}
  MaxFaults = 2
  MaxRuns = 3
  Streams <- TapStreams
  Methods <- TapMethods
  H2Prefix <- TapPrefix
  Dests <- TapDests
  Gateway <- TapGateway
  ListenPorts = {4143, 4140, 4191}
  Cases <- TapCases
  NoCase <- TapNoCase
  Clients = {"c1"}
  ListenerSets <- FencedListeners
  Tokens = {"blank", "s1", "s2"}
  Credentials <- FencedCredentials
  MaxReloads = 1
INVARIANTS ValidatedNamesDoNotPanic
CHECK_DEADLOCK FALSE
