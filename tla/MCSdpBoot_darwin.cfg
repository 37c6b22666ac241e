SPECIFICATION Spec
CONSTANTS
  Chunks = 3
  Noise = 2
  Chatter = 2
  Faults = FALSE
  Darwin = TRUE
PROPERTY ContentionRetried
CHECK_DEADLOCK FALSE
