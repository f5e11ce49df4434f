SPECIFICATION Spec
CONSTANTS
  s1 = s1
  s2 = s2
  t1 = t1
  t2 = t2
  k1 = k1
  Scan = {s1, s2}
  Target = {t1, t2}
  Keyword = {k1}
  KeywordOf <- MCKeywordOf
  MaxHits = 2
  MaxAlerts = 2
SYMMETRY MCSymmetry
INVARIANTS SettledTargetsStay CountsAreBacked SmoothCountsAgree
CHECK_DEADLOCK FALSE
