SPECIFICATION Spec
CONSTANTS
  Calls <- MCCalls
  HardwareThreads = 2
  MaxThreads = 4
  Amortized = 3
  MaxTrip = 5
  ThreadParameters = {0, 1, 3, 4}
  Bound = {TRUE}
INVARIANT CertificateIsRun
CHECK_DEADLOCK FALSE
