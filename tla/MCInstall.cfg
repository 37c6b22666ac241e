\* One board, runs of the tool one after the other.
SPECIFICATION Spec
CONSTANTS
  Releases <- Log
  BootloaderBlock = 1
  BootloaderConfigBlock = 4
  OsBlock = 6
  AppletBlock = 10
  AppletDataBlock = 14
  AppletDataNumBlocks = 3
  MaxLength = 2
  MmcBlocks = 17
  FactoryDisk <- Blank
  FlagChoices <- Choices
  ChunkBlocks = 2
  MaxRuns = 3
INVARIANTS TypeOK ReadsBack NoAppletWhileFusing DataWiped
PROPERTY OthersKept
CHECK_DEADLOCK FALSE
