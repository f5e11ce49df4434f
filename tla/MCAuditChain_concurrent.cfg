SPECIFICATION Spec
CONSTANTS
  s1 = s1
  s2 = s2
  t1 = t1
  t2 = t2
  e1 = e1
  e2 = e2
  e3 = e3
  e4 = e4
  Session = {s1, s2}
  Tenant = {t1}
  Event = {e1, e2, e3}
  Owners = {"mine"}
  Limit = 3
  MaxEdits = 1
SYMMETRY MCSymmetry
INVARIANTS ChainVerifies
CHECK_DEADLOCK FALSE
