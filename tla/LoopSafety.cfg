SPECIFICATION FairSpec
CONSTANTS
  Calls <- MCCalls
  HardwareThreads = 2
  MaxThreads = 4
  Amortized = 3
  MaxTrip = 5
  ThreadParameters = {0, 1, 3, 4}
  Bound = {TRUE}
INVARIANTS TypeOK RunOnce OkMeansComplete FirstFaultReported
PROPERTY LoopReturns
CHECK_DEADLOCK FALSE
