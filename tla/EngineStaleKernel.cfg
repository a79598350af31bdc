SPECIFICATION Spec
CONSTANTS
  Graphs = {g1, g2}
  Tiers = {0, 1}
  NoRealization = None
  ThrottleThreshold = 2
  MaxCalls = 2
  MaxEditions = 0
INVARIANT ResultIsOfRequestedGraph
CHECK_DEADLOCK FALSE
