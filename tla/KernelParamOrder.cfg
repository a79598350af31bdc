SPECIFICATION Spec
CONSTANTS
  Modulus = 5
  EquivalenceDepth = 1
  TensorNames = {3, 4}
  FusionDepth = 2
  StartGraphs <- MCScalars
  Operations = {"sub"}
  MaxNodes = 1
  MaxOutputs = 1
  Bindings <- MCBindings
INVARIANT SameAnswerOnEveryTier
