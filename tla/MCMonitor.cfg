\* WriteFile is never cut short; one leaf of the first backlog never builds.
SPECIFICATION FairSpec
CONSTANTS
  StartIndex = 1
  InitSize = 3
  MaxSize = 5
  TornWrites = FALSE
  Breakable <- OneBreakable
INVARIANT PersistedCovered
PROPERTIES KeepsPromise InitialBacklogChecked
