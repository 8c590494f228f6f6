SPECIFICATION AccessSpec
CONSTANTS
  Bases <- MCBases
  Distances <- MCDistances
  Indices <- MCIndices
INVARIANTS ReferenceIsExact AccessIsExactUnlessStraddling
