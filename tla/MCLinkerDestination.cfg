SPECIFICATION Spec
CONSTANTS
  Tables <- MCTables
  Externals <- MCExternals
  AsmComments = {FALSE}
  MaxNodes = 3
  Page = 256
INVARIANTS CallsHaveDestination
