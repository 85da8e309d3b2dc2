SPECIFICATION Spec
CONSTANTS
  x = x
  y = y
  Names <- MCNames
  Feeds <- MCFeeds
  ManagerPorts <- MCManagerPorts
  NodePorts <- MCNodePorts
  MaxHandlers = 2
  MaxRegistrations = 2
  MaxInspects = 1
  MaxCrashes = 1
  MaxLosses = 1
CHECK_DEADLOCK FALSE
INVARIANT TypeOK
INVARIANT PortsExclusive
INVARIANT OneMaster
INVARIANT ShutdownNotLost
PROPERTY ShutdownCompletes
