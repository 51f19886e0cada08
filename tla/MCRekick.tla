------------------------------ MODULE MCRekick ------------------------------
(***************************************************************************)
(* Instances of Rekick for TLC.                                            *)
(***************************************************************************)
EXTENDS Rekick, TLC

Symmetry == Permutations(Dev) \cup Permutations(Event) \cup Permutations(EventID)
=============================================================================
