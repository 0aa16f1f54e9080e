SPECIFICATION FairSpec
CONSTANTS
  j1 = j1
  j2 = j2
  m1 = m1
  w1 = w1
  w2 = w2
  t1 = t1
  x1 = x1
  NoOne = NoOne
  Jobs = {j1}
  Models = {m1}
  Workers = {w1, w2}
  Tenants = {t1}
  External = {}
  ModelOf <- OneModel
  TenantOf <- OneTenant
  TenantLimit <- LimitOne
  Reports <- FirstStage
  MaxRetries = 0
  PoisonThreshold = 2
  MaxDrains = 1
CHECK_DEADLOCK FALSE
INVARIANTS
  AttemptsAccounted
PROPERTIES
  EveryJobEnds
