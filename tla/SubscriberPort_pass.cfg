SPECIFICATION FairSpec
CONSTANTS
  s1 = s1
  s2 = s2
  Senders <- MCSenders
  NoSender = NoSender
  MaxQueueSize = 2
  MaxReceived = 4
  MaxConfigures = 3
INVARIANTS
  TypeOK
  Conservation
  QueueBounded
  InOrder
  TerminatedIsQuiet
  GuardsNeverFire
  AtMostOneLateCallback
PROPERTIES
  TransitionsComplete
  PassivatedLoopEnds
  FirstActivationServes
  ImplementsLedger
CHECK_DEADLOCK FALSE
