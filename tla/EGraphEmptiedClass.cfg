SPECIFICATION Spec
CONSTANTS
  Modulus = 5
  EquivalenceDepth = 4
  MaxENodes = 8
  MaxCostDepth = 5
  Leaves <- MCSquares
  Operations = {"mul", "pow"}
  MaxOperations = 3
  MaxIterations = 2
INVARIANT LookupsReadMembers
