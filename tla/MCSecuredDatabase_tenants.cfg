SPECIFICATION DbSpec
CONSTANTS
  s1 = s1
  s2 = s2
  c1 = c1
  c2 = c2
  k1 = k1
  k2 = k2
  t1 = t1
  t2 = t2
  NoTenant = NoTenant
  NoKey = NoKey
  NoConnection = NoConnection
  Session = {s1, s2}
  Connection = {c1, c2}
  Tenant = {t1, t2}
  Key = {k1, k2}
  TenantOf <- MCTenantOf
  Hour = 1
  MaxTime = 1
  investigations = investigations
  audit_events = audit_events
  api_keys = api_keys
  Protected = {investigations, audit_events}
  Audit = audit_events
  Plain = {api_keys}
  ContextTable = ContextTable
  Marker = Marker
  MaxPolls = 1
SYMMETRY MCSymmetry
INVARIANTS ScopeDecidesSight SightIsVouchedFor ContextIsPrivate ReadsAreVouchedFor
PROPERTIES SightIsStable MigratedIsComplete
CHECK_DEADLOCK FALSE
