SPECIFICATION Spec
CONSTANTS
  WkMaxAttempts = 2
  WkMaxMessages = 2
  WkMaxFaults = 2
  SkTries = 3
  HeValues <- HeV
  HeLimit = 2
  HeMaxDegradation = 1
  HeMaxRatio = 2
  HeMinSamples = 1
  HeMaxSamples = 3
  CfMaxFileKeys = 2
  CfMaxEnvKeys = 1
  HbMaxUnits = 3
  RqMaxBytes = 2
  RqMaxChunks = 3
  InModels = {m1, m2}
  InIds = {i1}
  InMissing = none
  InThreads = {t1, t2}
  InMaxRecords = 3
  InMaxEvents = 2
  InMaxPosts = 3
  EvRowCount = 3
  EvValues <- EvV
  EvTrain <- EvTr
  EvSlices = {{1, 2}, {3}}
  EvSliceRows = 1
  EvNone = EvNone
CHECK_DEADLOCK FALSE
INVARIANTS
  SkOutcomeIsTrue
  CfLintHolds
  HbStaysAlive
  RqOneTrueAnswer
  InBatchAccounted
  EvMeasures
PROPERTIES
  HeWorseKeepsBreach
  WkEveryJobRuns
