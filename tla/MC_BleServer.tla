---------------------------- MODULE MC_BleServer ----------------------------
(* Handles and values are interchangeable.                                 *)
EXTENDS BleServer, TLC

Symmetry == Permutations(Handles) \cup Permutations(Values)
=============================================================================
