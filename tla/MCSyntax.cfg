SPECIFICATION ParserSpec
CONSTANTS
  MaxNodes = 7
  MaxErrors = 2
  MaxTokens = 2
INVARIANTS TreeWhole FreedOnce SourceOrder CrashesOnlyAfterErrors
