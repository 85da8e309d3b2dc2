SPECIFICATION FairSpec
CONSTANTS
  own = own
  other = other
  Slaves <- MCSlaves
  Master <- MCMaster
  Faulty <- MCOther
  Interruptible <- MCJustMaster
  Timed = FALSE
  StartupRetries = 3
  HeartbeatRetries = 2
  StaleAfter = 1
  MaxTimeouts = 0
  MaxLosses = 0
  MaxCrashes = 1
  MaxUpdates = 0
CHECK_DEADLOCK FALSE
INVARIANT RemovedIsDown
PROPERTY InterruptedMasterExits
PROPERTY SlavesDieWithMaster
