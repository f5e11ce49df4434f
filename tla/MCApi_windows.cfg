SPECIFICATION ApiSpec
CONSTANTS
  w1 = w1
  w2 = w2
  k1 = k1
  k2 = k2
  t1 = t1
  t2 = t2
  NoWindow = NoWindow
  Thread = {w1, w2}
  Key = {k1}
  Tenant = {t1, t2}
  TenantOf <- MCTenantOf
  Asserting = {k1}
  CreateLimit = 1
  StartLimit = 4
  Window = 1
  MaxTime = 3
  MaxRequests = 5
SYMMETRY MCSymmetry
INVARIANTS StartBucketNeverBinds
CHECK_DEADLOCK FALSE
