SPECIFICATION FairSpec
CONSTANTS
  c1 = c1
  c2 = c2
  Callers = {c1, c2}
  NoCaller = NoCaller
  MaxCalls = 2
  MaxConfigures = 1
  MaxBindFailures = 1
  MaxLoopErrors = 1
INVARIANTS
  PassivatedReplierIsQuiet
PROPERTIES
  ReplierImplementsLedger
  PortsReturn
CHECK_DEADLOCK FALSE
