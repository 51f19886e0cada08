---------------------------- MODULE MCTraceStages ----------------------------
(* The instance of TraceStages for TLC. *)
EXTENDS TraceStages
==============================================================================
