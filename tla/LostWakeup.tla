----------------------------- MODULE LostWakeup -----------------------------
(***************************************************************************)
(* What the agent is for: a guest, the vhost worker of its TX queue and    *)
(* the guarded loop of run_linux.go together, when wakeups of the worker   *)
(* get lost.  The guest and the worker are external; the loop samples once *)
(* per interval, one tick of the clock, with the detector and the budget   *)
(* of module Detector.  Its readings succeed; module Watch has the rest.   *)
(***************************************************************************)
EXTENDS Detector

CONSTANTS
  Num,        \* size of the ring
  MaxLosses,  \* bound on lost wakeups
  MaxClock,   \* bound on the clock
  None

\* A sample cannot tell IndexMod descriptors from none: fewer are consumed
\* between two snapshots.
ASSUME LostWakeupAssumption ==
  /\ Num \in 1 .. IndexMod - 1 /\ {MaxLosses, MaxClock} \subseteq Nat
  /\ None \notin Int

VARIABLES
  clock,
  ring,     \* avail, consumed and used (one step completes what it consumes)
  notify,   \* the guest notifies the worker of what it publishes
  worker,   \* "asleep", "running", or about to sleep: "recheck"
  wake,     \* VHOST_WORK_QUEUED
  burst,    \* descriptors consumed since the last snapshot
  losses,   \* wakeups lost
  pc,       \* the loop: "snapshot", "ring", "kick", "wait"
  seen,     \* what its snapshot read
  det,      \* the Detector of the queue
  emptyAt,  \* when the queue was last empty (history)
  stuckAt,  \* since when the queue has been stuck, or None (history)
  kicks     \* times of the kicks so far (history)

queueVars == <<ring, notify, worker, wake, burst, losses>>
loopVars == <<pc, seen, det>>
vars == <<clock, queueVars, loopVars, emptyAt, stuckAt, kicks>>

Empty == ring.avail = ring.consumed

\* A backlog that nobody works on and nobody will be woken for.
Stuck == ~Empty /\ worker = "asleep" /\ ~wake

Init ==
  /\ clock = 0 /\ ring = [avail |-> 0, consumed |-> 0]
  /\ notify = TRUE /\ worker = "asleep" /\ wake = FALSE /\ burst = 0 /\ losses = 0
  /\ pc = "snapshot" /\ seen = None /\ det = NewDetector
  /\ emptyAt = 0 /\ stuckAt = None /\ kicks = {}

\* A write of the eventfd wakes the worker, unless the wakeup gets lost.
Signal ==
  \/ wake' = TRUE /\ UNCHANGED losses
  \/ losses < MaxLosses /\ losses' = losses + 1 /\ UNCHANGED wake

Publish ==
  /\ Distance(ring.avail, ring.consumed) < Num
  /\ burst + Distance(ring.avail, ring.consumed) < IndexMod - 1
  /\ ring' = [ring EXCEPT !.avail = (@ + 1) % IndexMod]
  /\ IF notify THEN Signal /\ notify' \in BOOLEAN ELSE UNCHANGED <<wake, losses, notify>>
  /\ UNCHANGED <<clock, worker, burst, loopVars>>

Work ==
  /\ \/ /\ worker = "asleep" /\ wake
        /\ worker' = "running" /\ wake' = FALSE /\ notify' = FALSE
        /\ UNCHANGED <<ring, burst>>
     \/ /\ worker = "running" /\ ~Empty
        /\ ring' = [ring EXCEPT !.consumed = (@ + 1) % IndexMod]
        /\ burst' = burst + 1
        /\ UNCHANGED <<worker, wake, notify>>
     \/ /\ worker = "running" /\ Empty
        /\ worker' = "recheck" /\ notify' = TRUE
        /\ UNCHANGED <<ring, burst, wake>>
     \/ /\ worker = "recheck"
        /\ worker' = IF Empty THEN "asleep" ELSE "running"
        /\ notify' = Empty
        /\ UNCHANGED <<ring, burst, wake>>
  /\ UNCHANGED <<clock, losses, loopVars>>

-----------------------------------------------------------------------------
(* The loop. *)

\* Duplicate and Snapshot: vhost's position and whether work is queued.
TakeSnapshot ==
  /\ pc = "snapshot"
  /\ seen' = [consumed |-> ring.consumed, busy |-> wake]
  /\ burst' = 0 /\ pc' = "ring"
  /\ UNCHANGED <<clock, ring, notify, worker, wake, losses, det>>

\* Target.Ring a moment later, and the verdict.
ReadRing ==
  LET s == [identity |-> 0, num |-> Num, avail |-> ring.avail, used |-> ring.consumed,
            consumed |-> seen.consumed, busy |-> seen.busy]
      d == Observe(det, s, clock)
      stalled == Stalled(d, s, clock)
      d1 == IF stalled THEN Prune(d, clock) ELSE d
  IN
  /\ pc = "ring"
  /\ det' = [d1 EXCEPT !.reported = @ \/ stalled]
  /\ pc' = IF stalled /\ Allowed(d1, clock) THEN "kick" ELSE "wait"
  /\ seen' = None
  /\ UNCHANGED <<clock, queueVars>>

\* Rekick writes the eventfd the worker waits on.
Kick ==
  /\ pc = "kick"
  /\ Signal
  /\ det' = Kicked(det, clock)
  /\ pc' = "wait"
  /\ UNCHANGED <<clock, ring, notify, worker, burst, seen>>

\* The next interval begins.
NextTick ==
  /\ pc = "wait" /\ clock < MaxClock
  /\ clock' = clock + 1 /\ pc' = "snapshot"
  /\ UNCHANGED <<queueVars, seen, det>>

History ==
  /\ emptyAt' = IF Empty' THEN clock' ELSE emptyAt
  /\ stuckAt' = IF ~Stuck' THEN None ELSE IF Stuck THEN stuckAt ELSE clock'
  /\ kicks' = IF pc = "kick" /\ pc' = "wait" THEN kicks \cup {clock} ELSE kicks

Next ==
  \/ Publish /\ History
  \/ Work /\ History
  \/ TakeSnapshot /\ History
  \/ ReadRing /\ History
  \/ Kick /\ History
  \/ NextTick /\ History

Spec == Init /\ [][Next]_vars

-----------------------------------------------------------------------------
\* A kick now would be within the advertised budget.
Affordable ==
  /\ \A k \in kicks : clock - k >= Cooldown
  /\ Cardinality({k \in kicks : clock - k < Hour}) < Maximum

\* A lost wakeup costs Threshold and at most one interval more: whatever the
\* guest goes on to publish and however the sample is torn, an iteration that
\* finds the queue stuck for that long decides to kick it, unless the kicks
\* so far leave nothing of the budget (Detector.Observe and Allowed).
StallIsCured ==
  [][pc = "ring" /\ pc' = "wait" /\ Stuck /\ clock - stuckAt > Threshold => ~Affordable]_vars

\* The budget is not spent on a queue that is served: at each decision to
\* kick, the backlog has been there for Threshold less the one interval by
\* which the age of a stall may be too old.
KickIsDue == [][pc = "ring" /\ pc' = "kick" => clock - emptyAt >= Threshold - 1]_vars
=============================================================================
