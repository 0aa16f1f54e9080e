SPECIFICATION Spec
CONSTANTS
  Keys = {k1, k2}
  Images = {1, 2}
  Incomplete = {2}
  Consumers = {c1, c2}
  Makers = {m1}
  Sources = {"postgresql", "sqlite", "kafka"}
  NoBatch = NoBatch
  MaxChanges = 3
  BatchSize = 2
  MaxFaults = 1
  Names = {n1, n2}
  Contents = {"a", "b", "c"}
  Shapes = {"columns", "other"}
  ShapeOf <- OneShapeEach
  Clients = {r1}
  Backends = {"file", "http", "fsspec", "sql", "rankpi", "s3", "gcs"}
  Modes = {"off", "fingerprint", "hash"}
  None = None
  MaxWrites = 2
  DlClients = {d1, d2}
  DlNames = {x1, x2}
  DlHashes = {1, 2}
  DlNone = DlNone
  DlMaxRequests = 3
SYMMETRY Symmetry
CHECK_DEADLOCK FALSE
INVARIANTS
  EveryChangeOnce
  CleaningIsReplay
  ReadsAreRight
  DlAnswersHold
