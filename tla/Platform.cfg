SPECIFICATION Spec
CONSTANTS
  SvVersions = {v1, v2}
  SvShares = {1, 2}
  SvMaxRequests = 3
  SvMaxForeign = 1
  SvMaxFaults = 2
  SvNone = SvNone
  ExAttempts = 2
  ExTries = 2
  ExMaxRuns = 2
  ExNobody = ExNobody
  AcKeys = {k1}
  AcForged = kf
  AcPeers = {p1, p2}
  AcProxies = {p1}
  AcThreads = 2
  AcTtl = 1
  AcMinRefetch = 1
  AcWhole = 2
  AcCapacity = 1
  AcMaxKeys = 1
  AcMaxTime = 2
  AcMaxChanges = 1
  MsPorts = {registry, dataset}
  MsAttempts = {a1, a2}
  MsWorker = worker
  MsBuckets = 3
  MsMaxCalls = 3
  MsMaxDepth = 3
CHECK_DEADLOCK FALSE
INVARIANTS
  SvDeploysHold
  ExAttemptsApart
  AcBounded
  MsNothingEstimated
