SPECIFICATION Spec
CONSTANTS
  Modulus = 5
  EquivalenceDepth = 4
  MaxENodes = 16
  MaxCostDepth = 6
  Leaves <- MCSquare
  Operations = {"div", "neg", "pow"}
  Passes = {"algebraic_simplify", "strength_reduce", "extract", "cse"}
  TestInputs <- MCInputs
  MaxOperations = 3
  MaxOutputs = 2
  MaxPasses = 2
  FixpointIterations = 3
  TensorNames = {}
  FusionDepth = 8
INVARIANTS MeaningPreserved KernelAnswersAsWritten
