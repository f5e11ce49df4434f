SPECIFICATION Spec
CONSTANTS
  s1 = s1
  s2 = s2
  t1 = t1
  t2 = t2
  e1 = e1
  e2 = e2
  e3 = e3
  e4 = e4
  Session = {s1}
  Tenant = {t1, t2}
  Event = {e1, e2, e3}
  Owners = {"mine", "shared"}
  Limit = 2
  MaxEdits = 1
SYMMETRY MCSymmetry
INVARIANTS ChainVerifies TamperingIsDetected
CHECK_DEADLOCK FALSE
