SPECIFICATION Spec
CONSTANTS
  Modulus = 5
  EquivalenceDepth = 4
  MaxENodes = 16
  MaxCostDepth = 6
  Leaves <- MCSquare
  Operations = {"mul", "pow"}
  Passes = {"canonicalize"}
  TestInputs <- MCInputs
  MaxOperations = 2
  MaxOutputs = 1
  MaxPasses = 1
  FixpointIterations = 3
  TensorNames = {}
  FusionDepth = 8
INVARIANT StoppedGraphInterprets
