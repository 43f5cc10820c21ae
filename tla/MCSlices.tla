------------------------------ MODULE MCSlices ------------------------------
(* Instances of Slices for TLC: two slices that share a subnet.             *)
EXTENDS Slices, TLC
Symmetry == Permutations(Slice) \cup Permutations(SharedNs)
=============================================================================
