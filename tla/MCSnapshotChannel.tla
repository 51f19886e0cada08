-------------------------- MODULE MCSnapshotChannel --------------------------
(* The instance of SnapshotChannel for TLC. *)
EXTENDS SnapshotChannel
==============================================================================
