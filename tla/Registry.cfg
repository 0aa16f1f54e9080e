SPECIFICATION Spec
CONSTANTS
  FsClients = {f1, f2}
  FsMaxVersions = 2
  FsTags = {"t", "u"}
  FsMaxCalls = 4
  FsNobody = FsNobody
  MrClients = {m1, m2}
  MrMaxVersions = 2
  MrTagValues = {"x", "y"}
  MrMaxCalls = 3
  CnWriters = {w1, w2}
  CnNames = {"a", "b"}
  CnTags = {"t", "u"}
  CnMaxVersions = 2
  CnMaxCalls = 4
  CnTagAttempts = 2
  CnMaxProps = 1
  ObRequests = {o1, o2, o3}
  ObModels = {"p", "q"}
  ObNone = ObNone
CHECK_DEADLOCK FALSE
INVARIANTS
  FsNothingLost
  MrMirrors
  CnNothingUndone
  ObRejectedLeavesNothing
