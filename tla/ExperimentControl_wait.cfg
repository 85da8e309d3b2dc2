SPECIFICATION Spec
CONSTANTS
  own = own
  other = other
  Slaves <- MCSlaves
  Master <- MCMaster
  Faulty <- MCOther
  Interruptible <- MCNobody
  Timed = TRUE
  StartupRetries = 3
  HeartbeatRetries = 2
  StaleAfter = 1
  MaxTimeouts = 0
  MaxLosses = 0
  MaxCrashes = 0
  MaxUpdates = 0
CHECK_DEADLOCK FALSE
INVARIANT WaitsForSlaves
