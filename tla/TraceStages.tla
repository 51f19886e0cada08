----------------------------- MODULE TraceStages -----------------------------
(***************************************************************************)
(* The handler accounting of --trace-stages: the BPF maps stats, works and *)
(* inflight under the probes of the TX handler (watch.bpf.c), against the  *)
(* worker that snapshots a queue and forgets it when its attachment was    *)
(* replaced or vanished (run_linux.go, BPF.Forget).  One queue; its        *)
(* address stays when only the eventfd or the backend is replaced.         *)
(*                                                                         *)
(* The counters of signals, writes and wakeups, found through the maps     *)
(* contexts and waits, are only logged and left out.  active is a u64.     *)
(***************************************************************************)
EXTENDS Integers, FiniteSets

CONSTANTS
  Thread,     \* vhost worker threads that run the handler of the queue
  ActiveMod,  \* number of values of the counter (2^64)
  None

VARIABLES
  active,    \* stats[vq].active, None without an entry
  works,     \* works holds the queue
  inflight,  \* threads with an entry of inflight
  handling,  \* threads in handle_tx_kick
  pc,        \* the worker: between two visits, or in Snapshot or Forget
  known      \* the worker keeps a snapshot of an earlier visit

vars == <<active, works, inflight, handling, pc, known>>

Init ==
  /\ active = None /\ works = FALSE /\ inflight = {} /\ handling = {}
  /\ pc = "tick" /\ known = FALSE

-----------------------------------------------------------------------------
(* The probes. *)

\* handler_enter: counted if the work is known and the queue has an entry.
\* The device of a vanished FD is closed and has no handler.
HandlerEnter(t) ==
  /\ t \notin handling /\ pc # "vanished"
  /\ handling' = handling \cup {t}
  /\ IF works /\ active # None
       THEN inflight' = inflight \cup {t} /\ active' = (active + 1) % ActiveMod
       ELSE UNCHANGED <<inflight, active>>
  /\ UNCHANGED <<works, pc, known>>

\* handler_exit: of a handler that was counted, if the queue has an entry.
HandlerExit(t) ==
  /\ t \in handling
  /\ handling' = handling \ {t}
  /\ inflight' = inflight \ {t}
  /\ active' = IF t \in inflight /\ active # None THEN (active - 1) % ActiveMod ELSE active
  /\ UNCHANGED <<works, pc, known>>

-----------------------------------------------------------------------------
(* The worker. *)

\* The probe of Snapshot creates what is missing: first stats, then works.
SnapshotStats ==
  /\ pc \in {"tick", "again"}
  /\ active' = IF active = None THEN 0 ELSE active
  /\ pc' = IF pc = "tick" THEN "works" ELSE "worksAgain"
  /\ UNCHANGED <<works, inflight, handling, known>>

\* A visit that finds the attachment replaced forgets the old snapshot and
\* takes another one.
SnapshotWorks ==
  /\ pc \in {"works", "worksAgain"}
  /\ works' = TRUE
  /\ pc' \in {"read"} \cup (IF known /\ pc = "works" THEN {"replaced"} ELSE {})
  /\ known' = (pc' = "read")
  /\ UNCHANGED <<active, inflight, handling>>

\* The second snapshot fails: the old one is kept, to be forgotten once more.
SnapshotFails ==
  /\ pc = "again"
  /\ pc' = "tick" /\ known' = TRUE
  /\ UNCHANGED <<active, works, inflight, handling>>

\* Counters: the visit takes the queue for busy while a handler is active.
ReadCounters ==
  /\ pc = "read"
  /\ pc' = "tick"
  /\ UNCHANGED <<active, works, inflight, handling, known>>

\* The FD is no longer listed: its snapshot is forgotten.  QEMU has closed
\* the device, which waits for the handler to end.
Vanish ==
  /\ pc = "tick" /\ known /\ handling = {}
  /\ pc' = "vanished" /\ known' = FALSE
  /\ UNCHANGED <<active, works, inflight, handling>>

\* Forget deletes the entries in the order of a Go map: any order.
Forget ==
  /\ pc \in {"replaced", "vanished"}
  /\ \/ active # None /\ active' = None /\ UNCHANGED <<works, pc>>
     \/ works /\ works' = FALSE /\ UNCHANGED <<active, pc>>
     \/ /\ active = None /\ ~works
        /\ pc' = IF pc = "replaced" THEN "again" ELSE "tick"
        /\ UNCHANGED <<active, works>>
  /\ UNCHANGED <<inflight, handling, known>>

Next ==
  \/ \E t \in Thread : HandlerEnter(t) \/ HandlerExit(t)
  \/ SnapshotStats \/ SnapshotWorks \/ SnapshotFails \/ ReadCounters \/ Vanish \/ Forget

Spec == Init /\ [][Next]_vars

-----------------------------------------------------------------------------
\* A queue that nobody is working on is not taken for busy, so that its
\* backlog ages (model_test.go: "published backlog should age without a
\* host notification event").
QuietIsNotBusy == pc = "read" /\ handling = {} => active = 0
==============================================================================
