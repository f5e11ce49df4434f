SPECIFICATION FairSpec
CONSTANTS
  w1 = w1
  w2 = w2
  w3 = w3
  Worker = {w1, w2, w3}
  Nobody = Nobody
  NoWindow = NoWindow
  Limit = 2
  Window = 1
  MaxTime = 3
  MaxChecks = 4
INVARIANTS NoOverAdmission DeniedOnlyWhenSpent
PROPERTIES ImplementsRateWindow EveryCheckEnds
CHECK_DEADLOCK FALSE
