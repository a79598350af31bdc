CONSTANTS
  GemmTile = 2
  Jobs <- MCJobs
  DataWords = {0, 7}
  MaxThreads = 3
  GridCaps <- MCGridCaps
  MaxRoots = 2
  MaxBuffers = 8
SPECIFICATION Spec
INVARIANTS TypeOK AnswersAsTheWalker BarrierUniform
