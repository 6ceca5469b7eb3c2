---------------------------- MODULE MC_BleClient ----------------------------
(* Instance of BleClient for TLC: the constants are in the .cfg files.      *)
EXTENDS BleClient, TLC

\* Clients are told apart by auto_connect only, handles not at all.
Symmetry == Permutations(Handles)
=============================================================================
