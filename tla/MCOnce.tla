------------------------------- MODULE MCOnce -------------------------------
(* Instances of Once for TLC. *)
EXTENDS Once, TLC

Symmetric == Permutations(VM)
=============================================================================
