-------------------------- MODULE MC_ConnectBackoff --------------------------
(* Instance of ConnectBackoff for TLC: the constants are in the .cfg files.  *)
EXTENDS ConnectBackoff
=============================================================================
