------------------------------ MODULE Detector ------------------------------
(***************************************************************************)
(* The stall detector and recovery budget of one TX queue slot             *)
(* (internal/watch/model.go), as operators on a record.  The loops that    *)
(* own detectors keep one record per vhost FD.                             *)
(*                                                                         *)
(* A sample is what one iteration learns about a queue:                    *)
(*   identity         Snapshot.Identity(): every address, the eventfd id,  *)
(*                    the features and the ring size, as one token         *)
(*   num              the ring size (Snapshot.Num)                         *)
(*   avail, used      the user-ring indices read by Target.Ring            *)
(*   consumed         Snapshot.LastAvail, vhost's own position             *)
(*   busy             work queued, handler active or handler just run      *)
(* The three indices are uint16 in the code: IndexMod is 65536 there, and  *)
(* a smaller power of two in the model-checked instances.                  *)
(* Times are whole ticks of the monotonic clock.                           *)
(***************************************************************************)
EXTENDS Integers, FiniteSets

CONSTANTS
  IndexMod,     \* number of values of a ring index (2^16)
  Threshold,    \* Config.Threshold
  Cooldown,     \* Config.Cooldown
  Maximum,      \* Config.MaxRecoveries
  Hour,         \* the 3600 seconds of the budget window
  NegInf,       \* math.Inf(-1), a time earlier than every other
  NoIdentity    \* the zero Snapshot of a detector that has seen nothing

\* Config.Validate accepts only positive thresholds, cooldowns and budgets.
ASSUME DetectorAssumption ==
  /\ IndexMod \in Nat \ {0}
  /\ Threshold \in Nat \ {0}
  /\ Cooldown \in Nat \ {0}
  /\ Maximum \in Nat \ {0}
  /\ Hour \in Nat \ {0}
  /\ NegInf \notin Int

-----------------------------------------------------------------------------
\* Elapsed(last, period, now): now - last >= period, where last may be -Inf.
Elapsed(last, period, now) == last # NegInf => now - last >= period

\* uint16 subtraction.
Distance(a, b) == (a - b) % IndexMod

\* Descriptors published by the guest that vhost has not consumed.
Pending(s) == Distance(s.avail, s.consumed)

\* Descriptors published by the guest that vhost has not completed.
Outstanding(s) == Distance(s.avail, s.used)

\* Indices that no ring of this size can show: the sample is inconsistent.
Invalid(s) == Pending(s) > s.num \/ Outstanding(s) > s.num

\* A sample that lets the age of a stall grow: a consistent, unconsumed
\* backlog and nobody working on it.
Quiet(s) == Pending(s) # 0 /\ ~s.busy /\ ~Invalid(s)

\* No queue was replaced and no index moved between the two observations.
Unmoved(a, b) ==
  a.identity = b.identity /\ a.used = b.used /\ a.consumed = b.consumed

NewDetector ==
  [since |-> 0, lastKick |-> NegInf, reported |-> FALSE, have |-> FALSE,
   identity |-> NoIdentity, used |-> 0, consumed |-> 0, attempts |-> {}]

\* Mutant of Observe: a busy or invalid sample does not restart the age.
ObserveOnlyMoves(d, s, now) ==
  LET restart == ~d.have \/ ~Unmoved(d, s)
  IN  [d EXCEPT !.since = IF restart THEN now ELSE @,
                !.reported = ~restart /\ @,
                !.identity = s.identity, !.used = s.used,
                !.consumed = s.consumed, !.have = TRUE]

\* The detector after Observe: anything but an unmoved quiet sample restarts
\* the age, and the sample is remembered in every case.
Observe(d, s, now) ==
  LET restart == ~d.have \/ ~Unmoved(d, s) \/ ~Quiet(s)
  IN  [d EXCEPT !.since = IF restart THEN now ELSE @,
                !.reported = ~restart /\ @,
                !.identity = s.identity,
                !.used = s.used,
                !.consumed = s.consumed,
                !.have = TRUE]

\* Mutant of Stalled: off by one.
StalledLate(d, s, now) == Quiet(s) /\ now - d.since > Threshold

\* The verdict of Observe, d being the detector it has just updated.
Stalled(d, s, now) == Quiet(s) /\ now - d.since >= Threshold

\* Mutants of Interrupt: the stall stays reported; the age goes on.
InterruptKeepsReport(d, now) == [d EXCEPT !.since = now]

InterruptKeepsAge(d, now) == [d EXCEPT !.reported = FALSE]

\* The error path of the loops: the age restarts, what was seen is kept.
Interrupt(d, now) == [d EXCEPT !.since = now, !.reported = FALSE]

\* Mutant of Prune: attempts count for ever.
PruneNothing(d, now) == d

\* Attempts of the last hour.  The slice is kept as a set: Cooldown > 0
\* separates any two attempts, so no two have the same time.
Prune(d, now) == [d EXCEPT !.attempts = {t \in @ : now - t < Hour}]

\* The verdict of Allowed, d being the detector it has just pruned.
Allowed(d, now) ==
  Elapsed(d.lastKick, Cooldown, now) /\ Cardinality(d.attempts) < Maximum

\* Mutant of Kicked: the attempt is not counted.
KickedUncounted(d, now) == [d EXCEPT !.lastKick = now]

\* A guarded kick was written.
Kicked(d, now) == [d EXCEPT !.lastKick = now, !.attempts = @ \cup {now}]

-----------------------------------------------------------------------------
\* The budget as it is advertised: at most Maximum kicks in any Hour, any two
\* of them Cooldown apart.
WithinBudget(times) ==
  \A k \in times :
    /\ Cardinality({j \in times : j <= k /\ k - j < Hour}) <= Maximum
    /\ \A j \in times : j < k => k - j >= Cooldown
=============================================================================
