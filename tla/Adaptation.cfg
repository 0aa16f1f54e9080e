SPECIFICATION Spec
CONSTANTS
  Jobs = {j1, j2}
  Values = {0, 1, 2}
  Worlds <- AllWorlds
  MaxVersions = 3
  MaxFaults = 1
  MaxMoves = 1
  None = None
  RowCount = 3
  RowTimes = {1, 2}
  RowKeys = {k1}
  RowValues = {a, b}
  HoldOutMin = 1
  NoValue = NoValue
  Callers = {c1, c2}
  LlmSteps = 2
  LlmRetries = 1
  Threshold = 2
  Input = 1
  MaxOutput = 1
  Budget = 5
  MaxLost = 1
SYMMETRY Symmetry
CHECK_DEADLOCK FALSE
INVARIANTS
  ReplacesWhatItBeat
  BaselineIsLives
  ReportsAreRight
  HoldOutIsKept
  GuardHolds
PROPERTIES
  LiveNeverWorse
