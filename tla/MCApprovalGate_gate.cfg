SPECIFICATION GateSpec
CONSTANTS
  risky = risky
  lookup = lookup
  o1 = o1
  o2 = o2
  Agent = {risky}
  Risky = {risky}
  Capability = {lookup}
  Organization = {o1, o2}
  EnforceLimit = 1
  Window = 2
  MaxTime = 2
  NoOrganization = NoOrganization
  NoRecord = NoRecord
  NoAnswer = NoAnswer
  NoWindow = NoWindow
SYMMETRY MCSymmetry
PROPERTIES DecisionsAreFinal AllowNeedsStandingApproval MemoryIsRateWindow
CHECK_DEADLOCK FALSE
