SPECIFICATION Spec
CONSTANTS
  own = own
  other = other
  Slaves <- MCSlaves
  Master <- MCMaster
  Faulty <- MCOther
  Interruptible <- MCNobody
  Timed = TRUE
  StartupRetries = 1
  HeartbeatRetries = 2
  StaleAfter = 1
  MaxTimeouts = 1
  MaxLosses = 1
  MaxCrashes = 0
  MaxUpdates = 1
CHECK_DEADLOCK FALSE
INVARIANT TypeOK
INVARIANT StartsTogether
INVARIANT RemovedIsDown
PROPERTY TerminatedIsFinal
