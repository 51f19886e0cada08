-------------------------------- MODULE Watch --------------------------------
(***************************************************************************)
(* The sampling loop of one VM (run in internal/watch/run_linux.go) in the *)
(* observe, guarded and periodic modes, and its restart by the manager.    *)
(*                                                                         *)
(* QEMU, the guest and vhost are an arbitrary environment: every reading   *)
(* of a queue (Duplicate, Snapshot, Ring, Counters) may fail or return any *)
(* sample of Samples, every discovery any set of FDs.  Rekick, detailed in *)
(* module Rekick, either writes the kick or returns an error.  Time may    *)
(* pass between any two steps, while the loop keeps using the time it read *)
(* at the top of the iteration.                                            *)
(*                                                                         *)
(* hist, kicks and lifetime are history variables: no step reads them.     *)
(***************************************************************************)
EXTENDS Detector, Sequences

CONSTANTS
  FD,                \* vhost FD numbers QEMU may use
  Samples,           \* what a reading of a queue may return
  Mode,              \* Config.Mode
  InventoryInterval, \* Config.InventoryInterval
  KickInterval,      \* Config.KickInterval
  VerifyTimeout,     \* Config.VerifyTimeout
  None,              \* an absent map entry
  MaxClock,          \* bound on the clock
  MaxRuns            \* bound on the restarts of the worker

Identity == {s.identity : s \in Samples}

Times == Nat \cup {NegInf}
Indices == 0 .. IndexMod - 1
Kinds == {"sample", "error", "kick", "gone"}
Events == {"none", "recovered", "progress_after_kick", "recovery_unconfirmed"}

Detectors ==
  [since : Nat, lastKick : Times, reported : BOOLEAN, have : BOOLEAN,
   identity : Identity \cup {NoIdentity}, used : Indices, consumed : Indices,
   attempts : SUBSET Nat]

Verifications == [at : Nat, used : Indices, consumed : Indices, stalled : BOOLEAN]

Entries ==
  [kind : Kinds, t : Nat, s : Samples \cup {None}, stalled : BOOLEAN,
   event : Events, report : BOOLEAN]

Rows == [fd : FD, s : Samples, stalled : BOOLEAN]

\* A guarded attempt: the time the loop gives it and the time of the write.
Attempts == [t : Nat, at : Nat]

\* Indices are uint16, a ring has at least one entry, intervals are positive.
ASSUME WatchAssumption ==
  /\ FD \subseteq Nat /\ IsFiniteSet(FD)
  /\ \A s \in Samples : /\ s.avail \in 0 .. IndexMod - 1
                        /\ s.used \in 0 .. IndexMod - 1
                        /\ s.consumed \in 0 .. IndexMod - 1
                        /\ s.num \in 1 .. IndexMod - 1
                        /\ s.busy \in BOOLEAN
  /\ NoIdentity \notin Identity
  /\ None \notin Detectors \cup Verifications \cup Rows \cup Samples
  /\ Mode \in {"observe", "guarded", "periodic"}
  /\ {InventoryInterval, KickInterval, VerifyTimeout} \subseteq Nat \ {0}
  /\ MaxClock \in Nat /\ MaxRuns \in Nat

VARIABLES
  clock,         \* CLOCK_MONOTONIC
  cancelled,     \* ctx.Err() # nil
  pc,            \* the step the loop is at
  now,           \* the time read at the top of the iteration
  lastInventory, \* time of the last full discovery
  vhosts,        \* the FDs it returned
  todo,          \* those this iteration has not visited yet
  states,        \* FD -> Detector; entries are never deleted
  snapshots,     \* FD -> identity of the last snapshot
  pending,       \* FD -> verification of the last kick
  row,           \* the queue a kick has been decided for
  runs,          \* how often the worker has been restarted
  hist,          \* FD -> everything this run has learned and done
  kicks,         \* FD -> the guarded attempts of this run
  lifetime       \* FD -> the loop's times of the guarded attempts of all runs

env     == <<clock, cancelled, runs>>
maps    == <<states, snapshots, pending>>
loop    == <<now, lastInventory, vhosts>>
history == <<hist, kicks, lifetime>>
vars    == <<env, pc, loop, todo, maps, row, history>>

-----------------------------------------------------------------------------
(* Entries of hist. *)

Entry(kind, s, stalled, event, report) ==
  [kind |-> kind, t |-> now, s |-> s, stalled |-> stalled,
   event |-> event, report |-> report]

Record(fd, e) == hist' = [hist EXCEPT ![fd] = Append(@, e)]

-----------------------------------------------------------------------------
(* What one visit of a queue computes. *)

DetectorOf(fd) == IF states[fd] = None THEN NewDetector ELSE states[fd]

\* Mutant of Verification: every kick was for a stall.
VerificationOfStall(v, s) ==
  IF v # None /\ s.used # v.used /\ s.consumed # v.consumed THEN "recovered" ELSE "none"

\* The event a reading of the queue means for an open verification v.
Verification(v, s) ==
  CASE v = None -> "none"
    [] v # None /\ s.used # v.used /\ s.consumed # v.consumed ->
         IF v.stalled THEN "recovered" ELSE "progress_after_kick"
    [] v # None /\ (s.used = v.used \/ s.consumed = v.consumed) ->
         IF now - v.at >= VerifyTimeout THEN "recovery_unconfirmed" ELSE "none"

\* Mutant of Wanted: the interval is not checked.
WantedAtEveryVisit(d, stalled) ==
  /\ ~cancelled
  /\ Mode = "periodic" \/ (Mode = "guarded" /\ stalled /\ Allowed(d, now))

\* Whether this visit decides to write a kick, d being the updated detector.
Wanted(d, stalled) ==
  /\ ~cancelled
  /\ \/ Mode = "periodic" /\ Elapsed(d.lastKick, KickInterval, now)
     \/ Mode = "guarded" /\ stalled /\ Allowed(d, now)

Init ==
  /\ clock = 0 /\ cancelled = FALSE /\ runs = 0
  /\ pc = "top" /\ now = 0 /\ lastInventory = NegInf
  /\ vhosts = {} /\ todo = {} /\ row = None
  /\ states = [fd \in FD |-> None]
  /\ snapshots = [fd \in FD |-> NoIdentity]
  /\ pending = [fd \in FD |-> None]
  /\ hist = [fd \in FD |-> <<>>]
  /\ kicks = [fd \in FD |-> {}]
  /\ lifetime = [fd \in FD |-> {}]

-----------------------------------------------------------------------------
(* The environment. *)

Tick ==
  /\ clock < MaxClock
  /\ clock' = clock + 1
  /\ UNCHANGED <<cancelled, runs, pc, loop, todo, maps, row, history>>

Cancel ==
  /\ ~cancelled
  /\ cancelled' = TRUE
  /\ UNCHANGED <<clock, runs, pc, loop, todo, maps, row, history>>

-----------------------------------------------------------------------------
(* One iteration of the loop. *)

\* The run returns: nil on cancellation or when QEMU exited, else an error.
Return(outcome) ==
  /\ pc' = outcome
  /\ UNCHANGED <<env, loop, todo, maps, row, history>>

TopReturns ==
  /\ pc = "top"
  /\ IF cancelled THEN Return("stopped") ELSE \E o \in {"stopped", "failed"} : Return(o)

\* The checks pass, the time is read, the FDs are rediscovered when due.
BeginIteration ==
  /\ pc = "top" /\ ~cancelled
  /\ now' = clock
  /\ IF Elapsed(lastInventory, InventoryInterval, clock)
       THEN vhosts' \in SUBSET FD /\ lastInventory' = clock
       ELSE UNCHANGED <<vhosts, lastInventory>>
  /\ todo' = vhosts'
  /\ pc' = "queue"
  /\ UNCHANGED <<env, maps, row, history>>

\* The common error path of a visit: rediscover, restart the age, forget the
\* verification.  newState is the FD's detector when the error struck.
Unavailable(fd, newState) ==
  /\ lastInventory' = NegInf
  /\ states' = [states EXCEPT ![fd] = IF newState = None THEN None
                                      ELSE Interrupt(newState, now)]
  /\ pending' = [pending EXCEPT ![fd] = None]
  /\ todo' = todo \ {fd}
  /\ pc' \in {"queue", "failed"} \* "failed": the log of the error failed
  /\ row' = None
  /\ Record(fd, Entry("error", None, FALSE, "none", FALSE))
  /\ UNCHANGED <<env, now, vhosts, kicks, lifetime>>

\* The FDs are visited in ascending order.
Turn(fd) == pc = "queue" /\ fd \in todo /\ \A x \in todo : fd <= x

\* A reading fails, before or after the snapshot of the FD is replaced.
ReadFails(fd) ==
  /\ Turn(fd)
  /\ \/ Unavailable(fd, states[fd]) /\ UNCHANGED snapshots
     \/ /\ \E i \in Identity : snapshots' = [snapshots EXCEPT ![fd] = i]
        /\ Unavailable(fd, DetectorOf(fd))

\* A reading succeeds with sample s.  replaced: the first snapshot showed
\* another identity than the last visit, so the old one was forgotten, its
\* verification dropped and the snapshot taken again.
ReadQueue(fd, s, replaced) ==
  LET d0      == Observe(DetectorOf(fd), s, now)
      stalled == Stalled(d0, s, now)
      d1      == [d0 EXCEPT !.reported = @ \/ stalled]
      d2      == IF Mode = "guarded" /\ stalled THEN Prune(d1, now) ELSE d1
      v       == IF replaced THEN None ELSE pending[fd]
      event   == Verification(v, s)
      report  == stalled /\ ~d0.reported
  IN
  /\ Turn(fd)
  /\ snapshots[fd] = NoIdentity => ~replaced
  /\ replaced \/ snapshots[fd] \in {NoIdentity, s.identity}
  /\ snapshots' = [snapshots EXCEPT ![fd] = s.identity]
  /\ states' = [states EXCEPT ![fd] = d2]
  /\ pending' = [pending EXCEPT ![fd] = IF event = "none" THEN v ELSE None]
  /\ Record(fd, Entry("sample", s, stalled, event, report))
  /\ \/ /\ Wanted(d2, stalled)
        /\ pc' = "recover"
        /\ row' = [fd |-> fd, s |-> s, stalled |-> stalled]
        /\ UNCHANGED todo
     \/ /\ ~Wanted(d2, stalled)
        /\ todo' = todo \ {fd}
        /\ UNCHANGED <<pc, row>>
     \/ \* The log of the event fails: the run returns before any kick.
        /\ event # "none" \/ report
        /\ pc' = "failed"
        /\ UNCHANGED <<todo, row>>
  /\ UNCHANGED <<env, loop, kicks, lifetime>>

\* The refreshed inventory, the duplicate or Rekick refuses.
RekickFails ==
  /\ pc = "recover"
  /\ Unavailable(row.fd, states[row.fd])
  /\ UNCHANGED snapshots

\* Rekick wrote the eventfd of the queue that was sampled.
RekickWrites ==
  LET fd == row.fd
      d  == states[fd]
      guarded == Mode = "guarded"
  IN
  /\ pc = "recover"
  /\ states' = [states EXCEPT ![fd] = IF guarded THEN Kicked(d, now)
                                      ELSE [d EXCEPT !.lastKick = now]]
  /\ pending' = [pending EXCEPT ![fd] =
       IF Pending(row.s) > 0 /\ @ = None
         THEN [at |-> now, used |-> row.s.used, consumed |-> row.s.consumed,
               stalled |-> guarded \/ row.stalled]
         ELSE @]
  /\ Record(fd, Entry("kick", row.s, row.stalled, "none", FALSE))
  /\ IF guarded
       THEN /\ kicks' = [kicks EXCEPT ![fd] = @ \cup {[t |-> now, at |-> clock]}]
            /\ lifetime' = [lifetime EXCEPT ![fd] = @ \cup {now}]
       ELSE UNCHANGED <<kicks, lifetime>>
  /\ todo' = todo \ {fd}
  /\ pc' \in {"queue", "failed"} \* "failed": the log of the kick failed
  /\ row' = None
  /\ UNCHANGED <<env, loop, snapshots>>

\* Mutant of EndIteration: the verification of a vanished queue stays open.
EndIterationKeepsPending ==
  /\ pc = "queue" /\ todo = {}
  /\ snapshots' = [fd \in FD |-> IF fd \in vhosts THEN snapshots[fd] ELSE NoIdentity]
  /\ hist' = [fd \in FD |->
       IF fd \in vhosts \/ snapshots[fd] = NoIdentity THEN hist[fd]
       ELSE Append(hist[fd], Entry("gone", None, FALSE, "none", FALSE))]
  /\ pc' = "wait"
  /\ UNCHANGED <<env, loop, todo, states, pending, row, kicks, lifetime>>

\* Every listed FD was visited: what is known of the others is dropped, but
\* for their detectors.
EndIteration ==
  /\ pc = "queue" /\ todo = {}
  /\ snapshots' = [fd \in FD |-> IF fd \in vhosts THEN snapshots[fd] ELSE NoIdentity]
  /\ pending' = [fd \in FD |->
       IF fd \in vhosts \/ snapshots[fd] = NoIdentity THEN pending[fd] ELSE None]
  /\ hist' = [fd \in FD |->
       IF fd \in vhosts \/ snapshots[fd] = NoIdentity THEN hist[fd]
       ELSE Append(hist[fd], Entry("gone", None, FALSE, "none", FALSE))]
  /\ pc' \in {"wait", "failed"} \* "failed": the log of the summary failed
  /\ UNCHANGED <<env, loop, todo, states, row, kicks, lifetime>>

\* Mutant of Wait: the wait does not watch the context.
WaitForTicker ==
  /\ pc = "wait" /\ clock > now /\ pc' = "top"
  /\ UNCHANGED <<env, loop, todo, maps, row, history>>

\* The ticker drops ticks: iterations are apart by any positive time.
Wait ==
  /\ pc = "wait"
  /\ \/ cancelled /\ pc' = "stopped"
     \/ clock > now /\ pc' = "top"
  /\ UNCHANGED <<env, loop, todo, maps, row, history>>

\* The manager starts a failed worker again with nothing but its target.
Restart ==
  /\ pc = "failed" /\ ~cancelled /\ runs < MaxRuns /\ clock > now
  /\ runs' = runs + 1
  /\ pc' = "top" /\ lastInventory' = NegInf
  /\ vhosts' = {} /\ todo' = {} /\ row' = None
  /\ states' = [fd \in FD |-> None]
  /\ snapshots' = [fd \in FD |-> NoIdentity]
  /\ pending' = [fd \in FD |-> None]
  /\ hist' = [fd \in FD |-> <<>>]
  /\ kicks' = [fd \in FD |-> {}]
  /\ UNCHANGED <<clock, cancelled, now, lifetime>>

Next ==
  \/ Tick
  \/ Cancel
  \/ TopReturns
  \/ BeginIteration
  \/ \E fd \in FD : ReadFails(fd)
  \/ \E fd \in FD, s \in Samples, replaced \in BOOLEAN : ReadQueue(fd, s, replaced)
  \/ RekickFails
  \/ RekickWrites
  \/ EndIteration
  \/ Wait
  \/ Restart

Spec == Init /\ [][Next]_vars

\* Every step of the loop takes place: no system call of it blocks, ctx is
\* checked at the top of each iteration and in the wait.
LoopStep ==
  \/ TopReturns \/ BeginIteration \/ RekickFails \/ RekickWrites
  \/ EndIteration \/ Wait
  \/ \E fd \in FD : ReadFails(fd)
  \/ \E fd \in FD, s \in Samples, replaced \in BOOLEAN : ReadQueue(fd, s, replaced)

FairSpec == Spec /\ WF_vars(LoopStep)

-----------------------------------------------------------------------------
\* Every variable has its type, the loop never uses a time from the future,
\* visits only FDs of the last discovery, and a decided kick is on record
\* exactly while it is carried out.
TypeOK ==
  /\ clock \in 0 .. MaxClock /\ now \in 0 .. clock /\ runs \in 0 .. MaxRuns
  /\ cancelled \in BOOLEAN
  /\ pc \in {"top", "queue", "recover", "wait", "stopped", "failed"}
  /\ lastInventory \in Times
  /\ todo \subseteq vhosts /\ vhosts \subseteq FD
  /\ states \in [FD -> Detectors \cup {None}]
  /\ snapshots \in [FD -> Identity \cup {NoIdentity}]
  /\ pending \in [FD -> Verifications \cup {None}]
  /\ row \in Rows \cup {None}
  /\ pc = "recover" <=> row # None
  /\ row # None => row.fd \in todo /\ states[row.fd] # None
  /\ hist \in [FD -> Seq(Entries)]
  /\ \A fd \in FD : \A n \in DOMAIN hist[fd] :
       hist[fd][n].kind = "sample" => hist[fd][n].s \in Samples
  /\ kicks \in [FD -> SUBSET Attempts] /\ lifetime \in [FD -> SUBSET Nat]

-----------------------------------------------------------------------------
(* Safety: what the verdicts, reports, kicks and events mean, over all that
   the run has learned about a queue. *)

\* After entry i and up to entry n of h the age of a stall only grew: nothing
\* failed and every sample was quiet and showed what sample n shows.
Stretch(h, i, n) ==
  \A j \in i + 1 .. n :
    /\ h[j].kind # "error"
    /\ h[j].kind = "sample" => Quiet(h[j].s) /\ Unmoved(h[j].s, h[n].s)

Opens(h, i, n) ==
  /\ \/ h[i].kind = "error"
     \/ h[i].kind = "sample" /\ Unmoved(h[i].s, h[n].s)
  /\ Stretch(h, i, n)

Earned(h) ==
  \A n \in DOMAIN h : h[n].kind = "sample" /\ h[n].stalled =>
    \E i \in 1 .. n - 1 : Opens(h, i, n) /\ h[n].t - h[i].t >= Threshold

\* A queue is judged stalled only if Threshold passed since an observation
\* (or a failed one) after which every sample showed the same attachment, the
\* same used and consumed indices and an unserved backlog (Detector.Observe).
StallIsEarned == \A fd \in FD : Earned(hist[fd])

\* Conversely such a stretch of Threshold after any sample is always noticed:
\* no visit, error or restart of an age elsewhere lets a stall slip by.
StallIsNoticed ==
  \A fd \in FD : LET h == hist[fd] IN
    \A n \in DOMAIN h : h[n].kind = "sample" /\ ~h[n].stalled =>
      \A i \in 1 .. n - 1 :
        h[i].kind = "sample" /\ Opens(h, i, n) => h[n].t - h[i].t < Threshold

\* Each stall is logged exactly once: the stretch that leads to a stalled
\* verdict holds one "stall" report, at that verdict or before it.
StallReportedOnce ==
  \A fd \in FD : LET h == hist[fd] IN
    \A n \in DOMAIN h : h[n].kind = "sample" /\ h[n].stalled =>
      Cardinality({i \in 1 .. n : h[i].report /\ Opens(h, i, n)}) = 1

\* Times of the kicks of h before entry n.
KicksBefore(h, n) == {h[j].t : j \in {j \in 1 .. n - 1 : h[j].kind = "kick"}}

\* The loop's times of the attempts ks.
TimesOf(ks) == {k.t : k \in ks}

\* The attempts of ks up to k that were really written less than an Hour
\* before k was.
WrittenWithinHour(ks, k) == {j \in ks : j.t <= k.t /\ k.at - j.at < Hour}

\* Within one run a queue gets at most Maximum guarded kicks in any Hour and
\* any two are Cooldown apart, in the time the loop reads at the top of an
\* iteration (Detector.Allowed and Kicked).  A kick may be written long after
\* that time: of the real writes, too, no more than one in any Hour exceeds
\* Maximum, and each comes Cooldown after the time of the one before it.
BudgetHolds ==
  \A fd \in FD : LET ks == kicks[fd] IN
    /\ WithinBudget(TimesOf(ks))
    /\ \A k \in ks : Cardinality(WrittenWithinHour(ks, k)) <= Maximum + 1
    /\ \A j, k \in ks : j.t < k.t => j.at <= k.at /\ k.at - j.t >= Cooldown

\* A "recovered" or "progress_after_kick" event is about one attachment of
\* the queue: after a kick of it both indices moved, and between that kick
\* and the event the queue neither failed, vanished nor was replaced.
\* "recovered" is said of stalled queues only.
RecoveryIsReal ==
  \A fd \in FD : LET h == hist[fd] IN
    \A n \in DOMAIN h : h[n].event \in {"recovered", "progress_after_kick"} =>
      \E k \in 1 .. n - 1 :
        /\ h[k].kind = "kick"
        /\ h[k].s.used # h[n].s.used /\ h[k].s.consumed # h[n].s.consumed
        /\ \A j \in k + 1 .. n :
             /\ h[j].kind \notin {"error", "gone"}
             /\ h[j].s.identity = h[k].s.identity
        /\ h[n].event = "recovered" <=> h[k].stalled

\* In periodic mode any two kicks of a queue are KickInterval apart, and a
\* queue that was read KickInterval after its last kick is kicked at once.
PeriodicCadence ==
  Mode = "periodic" /\ ~cancelled =>
    \A fd \in FD : LET h == hist[fd] IN
      \A n \in DOMAIN h :
        /\ h[n].kind = "kick" =>
             \A k \in KicksBefore(h, n) : h[n].t - k >= KickInterval
        /\ /\ h[n].kind = "sample" /\ n < Len(h)
           /\ \A k \in KicksBefore(h, n) : h[n].t - k >= KickInterval
           => h[n + 1].kind \in {"kick", "error"}

-----------------------------------------------------------------------------
(* Liveness. *)

\* A cancelled run comes to its end, whatever it was doing.
CancelStops == cancelled ~> pc \in {"stopped", "failed"}

-----------------------------------------------------------------------------
(* What the documentation says and the code does not do. *)

\* The README promises the guarded budget per queue, not per run.
AdvertisedBudget == \A fd \in FD : WithinBudget(lifetime[fd])
=============================================================================
