SPECIFICATION Spec
CONSTANTS
  Names = {"main", "x"}
  Main = "main"
  UsedTypes = {"int", "void"}
  Params <- MCParams
  ArgTypes <- MCArgTypes
  MaxEntries = 4
  MaxErrors = 1
INVARIANTS TableConsistent LocalsDisjoint FrameMatchesSignature
PROPERTIES ImplementsScoping
