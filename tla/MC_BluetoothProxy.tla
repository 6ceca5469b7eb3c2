------------------------- MODULE MC_BluetoothProxy -------------------------
(* Slots and devices are interchangeable.                                  *)
EXTENDS BluetoothProxy, TLC

Symmetry == Permutations(Slots) \cup Permutations(Peers)
=============================================================================
