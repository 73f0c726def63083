-------------------------- MODULE MCDeviceCommand ---------------------------
(***************************************************************************)
(* An instance of DeviceCommand for TLC: its constants are in              *)
(* DeviceCommand.cfg.                                                      *)
(***************************************************************************)
EXTENDS DeviceCommand, TLC

MCSymmetry == Permutations(Requests) \cup Permutations(Devices)
=============================================================================
