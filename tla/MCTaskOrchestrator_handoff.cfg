SPECIFICATION Spec
CONSTANTS
  place = place
  source = source
  able = able
  osint = osint
  t1 = t1
  other = other
  Agent = {place, source, able, other}
  Roster <- MCRoster
  Placeholder = {place}
  Task = {t1}
  Intent = {osint}
  Can <- MCCan
  NoAgent = NoAgent
INVARIANTS OnlyPlannedAgentsExecute HandedOffIsNeverReviewed
PROPERTIES LateSourcesStayOut
CHECK_DEADLOCK FALSE
