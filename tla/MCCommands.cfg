CONSTANTS
  Scenes = {"snapshots", "proxies", "config", "profiles", "lifecycle", "logs", "update"}
  s1 = s1
  s2 = s2
  p1 = p1
  p2 = p2
  c1 = c1
  c2 = c2
  u1 = u1
  u2 = u2
  l1 = l1
  l2 = l2
  v1 = v1
  v2 = v2
  SnapProcs = {s1, s2}
  SnapRequests <- MCSnapRequests
  Items = {"i"}
  MaxVersions = 3
  ProxyProcs = {p1, p2}
  ProxyRequests <- MCProxyRequests
  MaxSignals = 1
  ServicePorts = {4510, 4511}
  HostEnv <- MCHostEnv
  LocalStackVars <- MCLocalStackVars
  ConfigProcs = {c1, c2}
  ConfigRequests <- MCConfigRequests
  ConfigWorlds <- MCConfigWorlds
  UserConfigs <- MCUserConfigs
  ProfileProcs = {u1, u2}
  ProfileRequests <- MCProfileRequests
  AwsStarts <- MCAwsStarts
  UserSections = {"partial", "broken"}
  LifeProcs = {l1, l2}
  LifeRequests <- MCLifeRequests
  LifeWorlds <- MCLifeWorlds
  LogRequests <- MCLogRequests
  LineKinds = {"plain", "http"}
  MaxLines = 5
  BacklogFetchFactor = 2
  MaxBacklogFetch = 4
  UpdateProcs = {v1, v2}
  UpdateRequests <- MCUpdateRequests
  MaxRelease = 2
SPECIFICATION CommandsSpec
INVARIANTS CommandsTypeOK SavedIsFound ToolTargetsEmulator   UserConfigKept StartsWhatWasChosen PlannedAsAsked ProfileNotTakenOver MarkerMeansReady RestartKeepsPersistence OutcomeReportedOnce TailExact 
PROPERTIES RemovalConfirmed StateLostOnlyByLoad ForeignOverrideKept InterceptionUndone
CHECK_DEADLOCK FALSE
