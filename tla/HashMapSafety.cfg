SPECIFICATION Spec
CONSTANTS
  k1 = k1
  k2 = k2
  k3 = k3
  k4 = k4
  k5 = k5
  Keys <- MCKeys
  Values = {0, 1}
  Hash <- MCHash
  NoKey = NoKey
  NoValue = NoValue
  InitialCapacity = 4
INVARIANTS TypeOK ProbingStops SizeExact
PROPERTY ImplementsStore
SYMMETRY SameHash
