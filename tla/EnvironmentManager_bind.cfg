SPECIFICATION Spec
CONSTANTS
  x = x
  y = y
  Names <- MCNames
  Feeds <- MCFeeds
  ManagerPorts <- MCManagerPorts
  NodePorts <- MCNodePorts
  MaxHandlers = 2
  MaxRegistrations = 2
  MaxInspects = 0
  MaxCrashes = 0
  MaxLosses = 1
CHECK_DEADLOCK FALSE
INVARIANT BindFailureReported
