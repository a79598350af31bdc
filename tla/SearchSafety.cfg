CONSTANTS
  Runs = {"bench", "tune"}
  Kernels = {"tiled", "untiled", "skewed"}
  Fingerprints = {"t", "u"}
  Fingerprint <- MCFingerprint
  Answers = {"answer", "other"}
  Computes <- MCComputes
  Expected <- MCExpected
  Space <- MCSpace
  Budget <- MCBudget
  BaselineRuntime <- MCBaselineRuntime
  Runtimes <- MCRuntimes
  BuildTimes <- MCBuildTimes
  CompileTime = 1
  ThreadCap = 4
  MaxLives <- MCMaxLives
  Torn = "torn"
SPECIFICATION Spec
INVARIANTS OutcomesAreOfTheirCandidates LoneSearchRebuilds WinnerJustified
CHECK_DEADLOCK FALSE
