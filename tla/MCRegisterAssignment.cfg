SPECIFICATION FairSpec
CONSTANTS
  NumColors = 2
  MaxTemps = 3
  MaxNodes = 4
  Forms <- MCForms
  Garbage <- MCGarbage
INVARIANTS GraphConsistent NoClobber TotalMap FatalOnlyWhenCrowded
PROPERTIES Terminates ImplementsColouring
