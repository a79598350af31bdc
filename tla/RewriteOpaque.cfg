SPECIFICATION Spec
CONSTANTS
  Modulus = 5
  EquivalenceDepth = 4
  MaxENodes = 16
  MaxCostDepth = 6
  Leaves <- MCInput
  Operations = {"neg", "ffi"}
  Passes = {"cse"}
  TestInputs <- MCInputs
  MaxOperations = 4
  MaxOutputs = 2
  MaxPasses = 1
  FixpointIterations = 3
  TensorNames = {}
  FusionDepth = 8
PROPERTY OpaqueMeaningPreserved
