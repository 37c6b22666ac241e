\* Two builds at a time, any number of them one after the other.
SPECIFICATION Spec
CONSTANTS
  Builds = {b1, b2}
  Pushes <- OsAndBoot
  Faults = TRUE
INVARIANTS TypeOK LoggedIsInstallable EntryNotLost
PROPERTY KeepsLog
