---------------------------- MODULE MCDeviceModel ----------------------------
(* Two phones, on which the app is installed in turn with data of the other.*)
EXTENDS DeviceModel

CONSTANTS old, new
=============================================================================
