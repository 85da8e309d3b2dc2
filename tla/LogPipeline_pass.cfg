SPECIFICATION Spec
CONSTANTS
  CacheCount = 2
  BatchSize = 0
  SqlBatch = 2
  MaxMessages = 5
  Torn = Torn
INVARIANTS
  TypeOK
  RowsAreEvents
  DownIsCommitted
PROPERTIES
  ImplementsChannel
  TerminateReturns
  ServerStops
  TerminateDelivers
CHECK_DEADLOCK FALSE
