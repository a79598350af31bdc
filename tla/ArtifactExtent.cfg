CONSTANTS
  GemmTile = 2
  Jobs <- MCExtent
  DataWords = {0, 7}
  MaxThreads = 3
  GridCaps <- MCGridCaps
  MaxRoots = 2
  MaxBuffers = 8
SPECIFICATION Spec
INVARIANT AnswersAsTheWalker
