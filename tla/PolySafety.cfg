CONSTANTS
  GemmTile = 2
  MaxDims = 3
  MaxStatements = 6
  MaxExtent = 3
  RowCoeff = 1
  MaxCopies = 2
  Kernels <- MCKernels
  TileSizes = {2, 3}
  Killable = {"scop_detect", "dependence", "schedule", "tile", "codegen", "verify"}
SPECIFICATION Spec
INVARIANTS TypeOK AnswerKept LoopsRaceFree DependencesCover
