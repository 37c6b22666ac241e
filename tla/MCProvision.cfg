\* One board with any history, runs with any flags.
SPECIFICATION FairSpec
CONSTANTS
  Devices = {d1}
  HabTarget = "ci"
  OldBootEnv = "prod"
  NoDevice = NoDevice
  FlagChoices <- AllFlags
INVARIANTS TypeOK SuccessMeansInstalled
PROPERTIES FusedToTarget FusedQuietUnlessMixed Completable
