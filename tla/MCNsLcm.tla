------------------------------ MODULE MCNsLcm ------------------------------
(* Instances of NsLcm for TLC. *)
EXTENDS NsLcm, TLC

Symmetry == Permutations(Op) \cup Permutations(Worker)
=============================================================================
