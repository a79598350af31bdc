SPECIFICATION Spec
CONSTANTS
  Modulus = 5
  EquivalenceDepth = 1
  TensorNames = {3, 4}
  FusionDepth = 2
  StartGraphs <- MCStartGraphs
  Operations = {"sub", "lift", "matmul"}
  MaxNodes = 3
  MaxOutputs = 2
  Bindings <- MCBindings
INVARIANTS RegionComputesRoot TiersAgree BuffersAgree LoweringComplete
