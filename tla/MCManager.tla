------------------------------ MODULE MCManager ------------------------------
(* The instance of Manager for TLC. *)
EXTENDS Manager

\* --domain-regex alone, and --pid alone.
OneOfBoth == {[pids |-> {}, regex |-> TRUE], [pids |-> PID, regex |-> FALSE]}
==============================================================================
