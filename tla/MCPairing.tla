------------------------------ MODULE MCPairing ------------------------------
(* Pairing for TLC: runs and devices are interchangeable.                   *)
EXTENDS Pairing, TLC

Symmetry == Permutations(Runs) \cup Permutations(Devices)
=============================================================================
