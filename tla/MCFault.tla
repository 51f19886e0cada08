------------------------------ MODULE MCFault ------------------------------
(* Instances of Fault for TLC. *)
EXTENDS Fault, TLC

CPUSymmetry == Permutations(CPU)

=============================================================================
