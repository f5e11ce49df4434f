SPECIFICATION CaseSpec
CONSTANTS
  good = good
  long = long
  weak = weak
  Key = {good, long, weak}
  Strong = {good, long}
  Usable = {good, weak}
  NoKey = NoKey
  HasProfiler = TRUE
INVARIANTS EveryIndicatorIsLookedUp ProductionCellsAreSealed ApiNeverLooksUpCiphertext
CHECK_DEADLOCK FALSE
