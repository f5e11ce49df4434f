SPECIFICATION Spec
CONSTANTS
  w1 = w1
  w2 = w2
  Worker = {w1, w2}
  Results <- MCResults
  MaxRuns = 2
PROPERTIES CompletedIsFinal
CHECK_DEADLOCK FALSE
