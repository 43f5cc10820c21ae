------------------------------ MODULE MCGitOps ------------------------------
(* Instances of GitOps for TLC: clusters with their default profiles.       *)
EXTENDS GitOps, TLC

CONSTANTS c1, c2, p1, p2

DefaultOf == c1 :> p1 @@ c2 :> p2
DefaultOfOne == c1 :> p1
=============================================================================
