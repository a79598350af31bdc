CONSTANTS
  GemmTile = 2
  MaxDims = 3
  MaxStatements = 6
  MaxExtent = 3
  RowCoeff = 1
  MaxCopies = 2
  Kernels <- MCVectors
  TileSizes = {2}
  Killable = {"scop_detect", "dependence", "schedule", "tile", "codegen", "verify"}
SPECIFICATION Spec
INVARIANTS AnswerKept
