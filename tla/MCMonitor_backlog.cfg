\* While polling, every leaf of the tracker's checkpoint has been decided.
SPECIFICATION Spec
CONSTANTS
  StartIndex = 0
  InitSize = 1
  MaxSize = 3
  TornWrites = FALSE
  Breakable <- NoneBreakable
INVARIANT NoBacklogWhilePolling
