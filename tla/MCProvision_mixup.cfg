SPECIFICATION Spec
CONSTANTS
  Devices = {d1,d2}
  HabTarget = "ci"
  OldBootEnv = "ci"
  NoDevice = NoDevice
  FlagChoices <- FuseOnly
PROPERTY FusedQuietAndSigned
