SPECIFICATION Spec
CONSTANTS
  Modulus = 5
  EquivalenceDepth = 4
  MaxENodes = 8
  MaxCostDepth = 5
  Leaves <- MCZero
  Operations = {"add", "mul"}
  MaxOperations = 2
  MaxIterations = 2
INVARIANT SoundWithSignedZeros
