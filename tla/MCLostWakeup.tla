---------------------------- MODULE MCLostWakeup ----------------------------
(* The instance of LostWakeup for TLC. *)
EXTENDS LostWakeup, TLC
=============================================================================
