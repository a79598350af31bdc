SPECIFICATION Spec
CONSTANTS
  Modulus = 5
  EquivalenceDepth = 4
  MaxENodes = 16
  MaxCostDepth = 6
  Leaves <- MCSquare
  Operations = {"add", "pow", "ffi"}
  Passes = {"canonicalize", "cse", "dce", "annotate"}
  TestInputs <- MCInputs
  MaxOperations = 3
  MaxOutputs = 1
  MaxPasses = 2
  FixpointIterations = 3
  TensorNames = {}
  FusionDepth = 8
INVARIANTS MeaningPreserved UsersExact ChainExact RejectedOnlyAfterStop
