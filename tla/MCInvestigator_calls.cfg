SPECIFICATION Spec
CONSTANTS
  w1 = w1
  w2 = w2
  Worker = {w1, w2}
  Results <- MCResults
  MaxRuns = 3
INVARIANTS CitedEvidenceIsStored NoFindingIsEverSupported CompletedHasFindings ReturnMatchesRow
PROPERTIES ErrorSurvives FollowsLifecycle InterruptedStaysStuck
CHECK_DEADLOCK FALSE
