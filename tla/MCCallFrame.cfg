SPECIFICATION Spec
CONSTANTS
  Functions <- MCFunctions
  Main = "main"
  SavedRegisters = 2
  Values <- MCValues
  StackWords = 16
  MaxWrites = 2
  MaxCalls = 2
INVARIANTS StackInBounds
PROPERTIES ImplementsActivations
