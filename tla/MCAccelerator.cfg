SPECIFICATION Spec
CONSTANTS
  Lengths <- MCLengths
  Addresses = {65516, 70000}
  Memory <- MCMemory
  WordValues = 32
  ImmediateValues = 16
INVARIANTS DotProduct LoopInvariant
PROPERTIES Ends
