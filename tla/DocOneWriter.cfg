SPECIFICATION Spec
CONSTANTS
  j1 = j1
  j2 = j2
  m1 = m1
  w1 = w1
  w2 = w2
  t1 = t1
  x1 = x1
  NoOne = NoOne
  Jobs = {j1, j2}
  Models = {m1}
  Workers = {w1, w2}
  Tenants = {t1}
  External = {}
  ModelOf <- OneModel
  TenantOf <- OneTenant
  TenantLimit <- Unlimited
  Reports <- ReusePath
  MaxRetries = 1
  PoisonThreshold = 1
  MaxDrains = 0
SYMMETRY Symmetry
CHECK_DEADLOCK FALSE
INVARIANTS
  OneRegistryWriter
