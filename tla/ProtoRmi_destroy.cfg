SPECIFICATION Spec
CONSTANTS
  MaxCalls = 1
  MaxWaiting = 2
  Retries = 0
  MaxStarts = 1
  MaxSocketFailures = 0
PROPERTIES
  DestructorReturns
CHECK_DEADLOCK FALSE
