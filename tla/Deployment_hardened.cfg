SPECIFICATION DeploySpec
CONSTANTS
  Protected = {investigations, audit_events}
  Audit = audit_events
  Plain = {api_keys}
  ContextTable = ContextTable
  Marker = Marker
  MaxPolls = 1
PROPERTIES AuditStaysInsertOnly
CHECK_DEADLOCK FALSE
