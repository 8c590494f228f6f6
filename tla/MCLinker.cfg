SPECIFICATION Spec
CONSTANTS
  Tables <- MCTables
  Externals <- MCExternals
  AsmComments = {FALSE, TRUE}
  MaxNodes = 3
  Page = 256
INVARIANTS CallsLand Layout ExternalsHoldTheirData StackClearsSmallGlobals
