SPECIFICATION Spec
CONSTANTS
  BlockWords = {990}
  Conditions <- Condition
  WordValues = 4
  BranchValues = 8192
  JumpValues = 2097152
  Floats <- MCFloats
  NaN = 99
  MaxTokens = 5
  MaxComparisons = 1
  MaxBytes = 4072
INVARIANTS ComparisonsAnswer
PROPERTIES ReturnsAfterLoops ImplementsStructure
