---------------------------- MODULE MCDeviceSession ---------------------------
(***************************************************************************)
(* DeviceSession for TLC: the second code is longer than the first, the    *)
(* third shorter than the second.                                          *)
(***************************************************************************)
EXTENDS DeviceSession

MCCodeLength == <<1, 2, 1>>
=============================================================================
