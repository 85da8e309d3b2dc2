SPECIFICATION PSpec
CONSTANTS
  Tick = Tick
  Senders <- MCSenders
  NoSender = NoSender
  MaxQueueSize = 1
  MaxReceived = 3
  MaxConfigures = 2
INVARIANTS
  PeriodicTerminatedIsQuiet
  AtMostOneLateTick
PROPERTIES
  PassivatedTickEnds
CHECK_DEADLOCK FALSE
