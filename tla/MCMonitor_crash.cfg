\* WriteFile may be cut short: coverage is lost through an empty file only.
SPECIFICATION Spec
CONSTANTS
  StartIndex = 0
  InitSize = 1
  MaxSize = 3
  TornWrites = TRUE
  Breakable <- OneBreakable
INVARIANTS TypeOK LostOnlyByEmptyFile
