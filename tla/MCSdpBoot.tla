------------------------------ MODULE MCSdpBoot -------------------------------
(* Runs of SdpBoot take their values from the configurations.              *)
EXTENDS SdpBoot
=============================================================================
