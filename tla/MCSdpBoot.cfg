SPECIFICATION FairSpec
CONSTANTS
  Chunks = 3
  Noise = 2
  Chatter = 2
  Faults = TRUE
  Darwin = TRUE
INVARIANTS TypeOK RunsWholeImage NeverWaitsInVain
PROPERTIES Returns KeepsPromise EndsInTime
CHECK_DEADLOCK FALSE
