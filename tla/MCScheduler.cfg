SPECIFICATION LiveSpec
CONSTANTS
  Requests = {1, 2, 3}
  Keys = {k1, k2}
  Priorities <- MCPriorities
  Limit = 1
  Signals = {1}
  None = None
INVARIANTS
  NoRequestLost
  ExplicitWorkPreempts
  OnlyAskedAborts
PROPERTIES
  NoStaleDelivery
  ImplementsLane
  EveryRequestSettles
