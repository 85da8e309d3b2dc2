SPECIFICATION Spec
CONSTANTS
  MaxCalls = 3
  MaxWaiting = 2
  Retries = 2
  MaxStarts = 1
  MaxSocketFailures = 1
INVARIANTS
  RefusalsBounded
PROPERTIES
  ImplementsRemoteCall
  PromisesSettle
  ReplierTerminateReturns
CHECK_DEADLOCK FALSE
