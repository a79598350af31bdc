SPECIFICATION FairSpec
CONSTANTS
  Graphs = {g1}
  Tiers = {0, 1, 2}
  NoRealization = None
  ThrottleThreshold = 2
  MaxCalls = 3
  MaxEditions = 1
INVARIANTS HonestTier JoinSkippedOnlyWhenDone FallbackAccounting
PROPERTIES ImplementsService CallReturns
CHECK_DEADLOCK FALSE
