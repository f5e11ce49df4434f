SPECIFICATION Spec
CONSTANTS
  w1 = w1
  w2 = w2
  k1 = k1
  k2 = k2
  Worker = {w1, w2}
  Key = {k1, k2}
  Expiring = {k1}
  MaxCalls = 4
SYMMETRY WorkerSymmetry
INVARIANTS RevocationIsImmediate AuditMatchesRows RotationReplaces
PROPERTIES RevokedStaysRevoked
CHECK_DEADLOCK FALSE
