SPECIFICATION PSpec
CONSTANTS
  Tick = Tick
  Senders <- MCSenders
  NoSender = NoSender
  MaxQueueSize = 1
  MaxReceived = 1
  MaxConfigures = 2
INVARIANTS
  RunningPortServes
CHECK_DEADLOCK FALSE
