SPECIFICATION Spec
CONSTANTS
  CommandLines <- MCCommandLines
  Programs = {"syntax error", "semantic error", "link error", "crash", "crowded", "fine"}
INVARIANTS FilesConsistent ErrorsGiveNoCode
PROPERTIES Ends
