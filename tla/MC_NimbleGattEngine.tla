------------------------ MODULE MC_NimbleGattEngine ------------------------
(* Instance of NimbleGattEngine for TLC: the constants are in the .cfg files. *)
EXTENDS NimbleGattEngine, TLC

Symmetry == Permutations(Engines) \cup Permutations(Peers) \cup Permutations(Handles)
=============================================================================
