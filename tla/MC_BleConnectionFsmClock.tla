---------------------- MODULE MC_BleConnectionFsmClock ----------------------
(* Instance of BleConnectionFsmClock for TLC: the constants are in the .cfg. *)
EXTENDS BleConnectionFsmClock
=============================================================================
