--------------------------- MODULE MCDeviceEvents ---------------------------
(* DeviceEvents on a small instance: two devices, two listeners, a command. *)
EXTENDS DeviceEvents, TLC

CONSTANTS d1, d2, l1, l2, m1, version, c1
=============================================================================
