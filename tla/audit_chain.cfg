SPECIFICATION AuditSpec
CONSTANTS
  MaxEvents = 2
  MaxFailures = 1
INVARIANT RowsAreAChain
CHECK_DEADLOCK FALSE
