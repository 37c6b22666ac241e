--------------------------- MODULE MCDeviceVerify ----------------------------
(* Runs of DeviceVerify take their values from the configurations.         *)
EXTENDS DeviceVerify
=============================================================================
