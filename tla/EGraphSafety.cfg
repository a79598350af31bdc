SPECIFICATION Spec
CONSTANTS
  Modulus = 5
  EquivalenceDepth = 2
  MaxENodes = 7
  MaxCostDepth = 5
  Leaves <- MCSquares
  Operations = {"add", "mul", "pow"}
  MaxOperations = 3
  MaxIterations = 3
INVARIANTS TypeOK PartitionConsistent Sound ExtractionPreserves
