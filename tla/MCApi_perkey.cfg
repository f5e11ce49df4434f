SPECIFICATION ApiSpec
CONSTANTS
  w1 = w1
  w2 = w2
  k1 = k1
  k2 = k2
  t1 = t1
  t2 = t2
  NoWindow = NoWindow
  Thread = {w1, w2}
  Key = {k1, k2}
  Tenant = {t1}
  TenantOf <- MCTenantOf
  Asserting = {}
  CreateLimit = 1
  StartLimit = 4
  Window = 1
  MaxTime = 3
  MaxRequests = 2
SYMMETRY MCSymmetry
INVARIANTS LimitsAreThoseOfKeys
CHECK_DEADLOCK FALSE
