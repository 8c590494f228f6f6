SPECIFICATION Spec
CONSTANTS
  Programs <- MCPrograms
  Variables <- MCVariables
  Initially <- MCInitially
  Functions <- MCFunctions
INVARIANTS ValueAssigned MisreadsAreRetagged TypesAllowed CompilesUnlessFloatEquality
