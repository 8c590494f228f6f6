SPECIFICATION Spec
CONSTANTS
  Temporaries <- MCTemporaries
  Immediates <- MCImmediates
  Uppers <- MCUppers
  Lowers <- MCLowers
  Uninitialised <- MCUninitialised
INVARIANTS InstructionMeant ImmediateIsCut ConstantsLoaded EncodersAgree OutputIsWords
