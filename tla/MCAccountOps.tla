---------------------------- MODULE MCAccountOps ----------------------------
(* Instances of AccountOps for TLC. *)
EXTENDS AccountOps, TLC

Symmetry == Permutations(Worker) \cup Permutations(RoId)
=============================================================================
