-------------------------- MODULE LostWakeupProofs --------------------------
(***************************************************************************)
(* Proofs about the guest, the worker and the guarded loop together        *)
(* (module LostWakeup): for every size of the ring and of its indices,     *)
(* every threshold and budget, and any number of lost wakeups.             *)
(***************************************************************************)
EXTENDS LostWakeup, TLAPS

\* The values of the variables.
Indices == 0 .. IndexMod - 1

Rings == [avail : Indices, consumed : Indices]

Readings == [consumed : Indices, busy : BOOLEAN]

Detectors ==
  [since : Nat, lastKick : Nat \cup {NegInf}, reported : BOOLEAN, have : BOOLEAN,
   identity : {0, NoIdentity}, used : Indices, consumed : Indices,
   attempts : SUBSET Nat]

\* The index n descriptors after index x.
Ahead(x, n) == IF x + n < IndexMod THEN x + n ELSE x + n - IndexMod

\* When the ring was last read: every tick has an iteration.
Sampled == IF pc \in {"kick", "wait"} THEN clock ELSE clock - 1

\* Every variable has its type; there is a reading exactly while the loop
\* waits for the ring, and fewer than IndexMod descriptors are consumed
\* between two snapshots, those that wait now included.
TypeInv ==
  /\ clock \in Nat /\ ring \in Rings /\ notify \in BOOLEAN /\ wake \in BOOLEAN
  /\ worker \in {"asleep", "running", "recheck"}
  /\ pc \in {"snapshot", "ring", "kick", "wait"}
  /\ pc = "ring" => seen \in Readings
  /\ det \in Detectors
  /\ emptyAt \in 0 .. clock /\ kicks \subseteq Nat
  /\ burst \in Indices /\ burst + Distance(ring.avail, ring.consumed) < IndexMod
  /\ Distance(ring.avail, ring.consumed) <= Num

\* What the detector has seen, and how far the worker has got since.
ReadInv ==
  /\ Sampled >= 0 => det.have
  /\ det.have => det.identity = 0 /\ det.since <= Sampled
  /\ pc = "ring" =>
       /\ ring.consumed = Ahead(seen.consumed, burst)
       /\ det.have /\ seen.consumed = det.consumed => det.used = det.consumed
  /\ pc # "ring" /\ det.have =>
       /\ ring.consumed = Ahead(det.consumed, burst)
       /\ \E b \in 0 .. burst : det.used = Ahead(det.consumed, b)

\* The worker has consumed something since the last sample, or since the
\* snapshot before it, and the next sample will show it.
Moved == burst > 0 \/ (pc = "ring" /\ seen.consumed # det.consumed)

\* KickIsDue speaks of the moment of the decision only.  While the age of a
\* stall grows and nothing moves, the queue was not empty later than one
\* interval after that age began.
EmptyInv ==
  det.have /\ det.since < Sampled => Moved \/ (~Empty /\ emptyAt <= det.since + 1)

\* StallIsCured compares the moment the queue got stuck with the age that the
\* detector gives the stall: they differ by at most the interval of the first
\* sample after it.
StuckInv ==
  Stuck =>
    /\ stuckAt \in 0 .. clock
    /\ pc = "ring" /\ stuckAt < clock => seen.consumed = ring.consumed /\ ~seen.busy
    /\ stuckAt < Sampled => /\ det.consumed = ring.consumed /\ det.used = ring.consumed
                            /\ det.since <= stuckAt + 1

\* The budget of the detector against the kicks that were really written.
BudgetInv ==
  /\ det.attempts \subseteq kicks
  /\ \A k \in kicks : k <= clock
  /\ \A k \in kicks \ det.attempts : clock - k >= Hour
  /\ det.lastKick # NegInf => det.lastKick \in kicks
  /\ \A k \in kicks : det.lastKick # NegInf /\ k <= det.lastKick

\* The inductive invariant.
IInv == TypeInv /\ ReadInv /\ EmptyInv /\ StuckInv /\ BudgetInv

-----------------------------------------------------------------------------
(* Indices. *)

\* What uint16 subtraction gives for two indices.
LEMMA DistanceIs ==
  ASSUME NEW a \in Indices, NEW b \in Indices
  PROVE  Distance(a, b) = IF a >= b THEN a - b ELSE a - b + IndexMod
  BY DetectorAssumption DEF Distance, Indices

\* Two indices are equal if nothing lies between them.
LEMMA NoDistance ==
  ASSUME NEW a \in Indices, NEW b \in Indices
  PROVE  Distance(a, b) \in Indices /\ (Distance(a, b) = 0 <=> a = b)
  BY DistanceIs, DetectorAssumption DEF Indices

\* The next index.
LEMMA NextIndex ==
  ASSUME NEW a \in Indices PROVE (a + 1) % IndexMod = Ahead(a, 1)
  BY DetectorAssumption DEF Indices, Ahead

\* A descriptor more at either end of the ring.
LEMMA EmptyDistance ==
  ASSUME NEW a \in Indices, NEW b \in Indices
  PROVE  /\ Distance(a, b) \in Indices
         /\ Distance(a, b) = 0 <=> a = b
         /\ Distance(a, b) < IndexMod - 1 => Distance(Ahead(a, 1), b) = Distance(a, b) + 1
         /\ a # b => Distance(a, Ahead(b, 1)) = Distance(a, b) - 1
         /\ Ahead(a, 1) \in Indices /\ Ahead(b, 1) \in Indices
<1>1. IndexMod \in Nat \ {0} /\ a \in 0 .. IndexMod - 1 /\ b \in 0 .. IndexMod - 1
  BY DetectorAssumption DEF Indices
<1>2. Ahead(a, 1) \in Indices /\ Ahead(b, 1) \in Indices BY <1>1 DEF Ahead, Indices
<1>3. /\ Distance(a, b) = IF a >= b THEN a - b ELSE a - b + IndexMod
      /\ Distance(Ahead(a, 1), b) =
           IF Ahead(a, 1) >= b THEN Ahead(a, 1) - b ELSE Ahead(a, 1) - b + IndexMod
      /\ Distance(a, Ahead(b, 1)) =
           IF a >= Ahead(b, 1) THEN a - Ahead(b, 1) ELSE a - Ahead(b, 1) + IndexMod
  BY <1>2, DistanceIs
<1>4. /\ Ahead(a, 1) = IF a + 1 < IndexMod THEN a + 1 ELSE a + 1 - IndexMod
      /\ Ahead(b, 1) = IF b + 1 < IndexMod THEN b + 1 ELSE b + 1 - IndexMod
  BY DEF Ahead
<1>5. QED BY <1>1, <1>2, <1>3, <1>4 DEF Indices

\* Fewer than IndexMod steps ahead of an index is another index, unless none.
LEMMA AheadIs ==
  ASSUME NEW x \in Indices, NEW n \in Indices
  PROVE  /\ Ahead(x, n) \in Indices /\ (Ahead(x, n) = x <=> n = 0)
         /\ n + 1 \in Indices => Ahead(x, n + 1) = Ahead(Ahead(x, n), 1)
  BY DetectorAssumption DEF Indices, Ahead

-----------------------------------------------------------------------------
(* One lemma per action. *)

\* The guest publishes: the backlog grows, and the queue is stuck only if it
\* was or if the wakeup got lost just now.
LEMMA PublishInv == ASSUME IInv, Publish, History PROVE IInv'
<1> DEFINE dist == Distance(ring.avail, ring.consumed)
<1>1. TypeInv /\ ReadInv /\ EmptyInv /\ StuckInv /\ BudgetInv BY DEF IInv
<1>2. /\ ring.avail \in Indices /\ ring.consumed \in Indices /\ ring \in Rings
      /\ clock \in Nat /\ IndexMod \in Nat \ {0} /\ Num \in 1 .. IndexMod - 1
      /\ burst \in Indices
  BY <1>1, DetectorAssumption, LostWakeupAssumption DEF TypeInv, Rings
<1>3. /\ dist < Num /\ burst + dist < IndexMod - 1
      /\ ring' = [ring EXCEPT !.avail = Ahead(ring.avail, 1)]
      /\ UNCHANGED <<clock, worker, burst, pc, seen, det>>
      /\ wake' \in BOOLEAN /\ notify' \in BOOLEAN
      /\ wake = TRUE => wake' = TRUE
  BY <1>1, <1>2, NextIndex DEF Publish, Signal, loopVars, TypeInv
<1>4. ring'.avail = Ahead(ring.avail, 1) /\ ring'.consumed = ring.consumed /\ ring' \in Rings
  BY <1>2, <1>3, EmptyDistance DEF Rings
<1>5. /\ dist \in Indices /\ Distance(ring'.avail, ring'.consumed) = dist + 1
  BY <1>2, <1>3, <1>4, EmptyDistance DEF Indices
<1>6. ring'.avail # ring'.consumed
  <2>1. Distance(ring'.avail, ring'.consumed) # 0 BY <1>5 DEF Indices
  <2>2. ring'.avail \in Indices /\ ring'.consumed \in Indices BY <1>4 DEF Rings
  <2>3. QED BY <2>1, <2>2, EmptyDistance
<1> HIDE DEF dist
<1>7. emptyAt' = emptyAt /\ ~Empty' BY <1>6 DEF History, Empty
<1>8. kicks' = kicks BY <1>3 DEF History
<1>9. Sampled' = Sampled BY <1>3 DEF Sampled
<1>10. TypeInv'
  <2>1. burst' + Distance(ring'.avail, ring'.consumed) < IndexMod
        /\ Distance(ring'.avail, ring'.consumed) <= Num
    BY <1>2, <1>3, <1>5 DEF Indices
  <2>2. QED BY <1>1, <1>3, <1>4, <1>7, <1>8, <2>1 DEF TypeInv
<1>11. ReadInv' BY <1>1, <1>3, <1>4, <1>9 DEF ReadInv, Ahead
<1>12. EmptyInv' BY <1>1, <1>3, <1>7, <1>9 DEF EmptyInv, Moved
<1>13. StuckInv'
  <2>1. SUFFICES ASSUME Stuck'
                 PROVE  /\ stuckAt' \in 0 .. clock'
                        /\ pc' = "ring" /\ stuckAt' < clock' =>
                             seen'.consumed = ring'.consumed /\ ~seen'.busy
                        /\ stuckAt' < Sampled' =>
                             /\ det'.consumed = ring'.consumed /\ det'.used = ring'.consumed
                             /\ det'.since <= stuckAt' + 1
    BY DEF StuckInv
  <2>2. CASE Stuck
    <3>1. stuckAt' = stuckAt BY <2>1, <2>2 DEF History
    <3>2. QED BY <1>1, <1>3, <1>4, <1>9, <2>2, <3>1 DEF StuckInv
  <2>3. CASE ~Stuck
    <3>1. stuckAt' = clock BY <1>3, <2>1, <2>3 DEF History
    <3>2. Sampled \in Int /\ Sampled <= clock BY <1>2 DEF Sampled
    <3>3. QED BY <1>2, <1>3, <1>9, <3>1, <3>2
  <2>4. QED BY <2>2, <2>3
<1>14. BudgetInv' BY <1>1, <1>3, <1>8 DEF BudgetInv
<1>15. QED BY <1>10, <1>11, <1>12, <1>13, <1>14 DEF IInv

\* The worker: whatever it does, it does not leave a stuck queue.
LEMMA WorkInv == ASSUME IInv, Work, History PROVE IInv'
<1>1. TypeInv /\ ReadInv /\ EmptyInv /\ StuckInv /\ BudgetInv BY DEF IInv
<1>2. /\ ring.avail \in Indices /\ ring.consumed \in Indices /\ ring \in Rings
      /\ clock \in Nat /\ IndexMod \in Nat \ {0} /\ Num \in 1 .. IndexMod - 1
      /\ burst \in Indices /\ emptyAt \in 0 .. clock
  BY <1>1, DetectorAssumption, LostWakeupAssumption DEF TypeInv, Rings
<1>3. UNCHANGED <<clock, losses, pc, seen, det>> BY DEF Work, loopVars
<1>4. ~Stuck' BY DEF Work, Stuck, Empty
<1>5. /\ worker' \in {"asleep", "running", "recheck"} /\ wake' \in BOOLEAN
      /\ notify' \in BOOLEAN
  BY <1>1 DEF Work, TypeInv, Empty
<1>6. kicks' = kicks BY <1>3 DEF History
<1>7. Sampled' = Sampled BY <1>3 DEF Sampled
<1>8. StuckInv' BY <1>4 DEF StuckInv
<1>9. BudgetInv' BY <1>1, <1>3, <1>6 DEF BudgetInv
<1>10. emptyAt' \in 0 .. clock BY <1>2, <1>3 DEF History
<1>11. CASE UNCHANGED <<ring, burst>>
  <2>1. Empty' <=> Empty BY <1>11 DEF Empty
  <2>2. TypeInv' BY <1>1, <1>3, <1>5, <1>6, <1>10, <1>11 DEF TypeInv
  <2>3. ReadInv' BY <1>1, <1>3, <1>7, <1>11 DEF ReadInv, Ahead
  <2>4. EmptyInv' BY <1>1, <1>3, <1>7, <1>11, <2>1 DEF EmptyInv, Moved, History
  <2>5. QED BY <1>8, <1>9, <2>2, <2>3, <2>4 DEF IInv
<1>12. CASE /\ ~Empty /\ ring' = [ring EXCEPT !.consumed = (@ + 1) % IndexMod]
            /\ burst' = burst + 1
  <2>1. /\ ring'.avail = ring.avail /\ ring'.consumed = Ahead(ring.consumed, 1)
        /\ ring' \in Rings
    <3>1. (ring.consumed + 1) % IndexMod = Ahead(ring.consumed, 1) BY <1>2, NextIndex
    <3>2. Ahead(ring.consumed, 1) \in Indices BY <1>2, EmptyDistance
    <3>3. ring' = [ring EXCEPT !.consumed = Ahead(ring.consumed, 1)] BY <1>12, <3>1
    <3>4. QED BY <1>2, <3>2, <3>3 DEF Rings
  <2>2. /\ Distance(ring'.avail, ring'.consumed) = Distance(ring.avail, ring.consumed) - 1
        /\ Distance(ring.avail, ring.consumed) \in Indices
        /\ Distance(ring.avail, ring.consumed) # 0
    <3>1. ring.avail # ring.consumed BY <1>12 DEF Empty
    <3>2. QED BY <1>2, <2>1, <3>1, EmptyDistance
  <2>3. burst' \in Indices /\ burst' > 0
    BY <1>1, <1>2, <1>12, <2>2 DEF TypeInv, Indices
  <2>4. TypeInv'
    <3>1. /\ burst' + Distance(ring'.avail, ring'.consumed) < IndexMod
          /\ Distance(ring'.avail, ring'.consumed) <= Num
      BY <1>1, <1>2, <1>12, <2>2 DEF TypeInv, Indices
    <3>2. QED BY <1>1, <1>3, <1>5, <1>6, <1>10, <2>1, <2>3, <3>1 DEF TypeInv
  <2>5. ReadInv'
    <3>1. ASSUME NEW x \in Indices, ring.consumed = Ahead(x, burst)
          PROVE  ring'.consumed = Ahead(x, burst')
      BY <1>2, <1>12, <2>1, <2>3, <3>1, AheadIs
    <3>2. pc = "ring" => seen.consumed \in Indices BY <1>1 DEF TypeInv, Readings
    <3>3. det.consumed \in Indices BY <1>1 DEF TypeInv, Detectors
    <3>4. pc' = "ring" =>
            /\ ring'.consumed = Ahead(seen'.consumed, burst')
            /\ det'.have /\ seen'.consumed = det'.consumed => det'.used = det'.consumed
      BY <1>1, <1>3, <3>1, <3>2 DEF ReadInv
    <3>5. pc' # "ring" /\ det'.have =>
            /\ ring'.consumed = Ahead(det'.consumed, burst')
            /\ \E b \in 0 .. burst' : det'.used = Ahead(det'.consumed, b)
      <4>1. 0 .. burst \subseteq 0 .. burst' BY <1>2, <1>12 DEF Indices
      <4>2. QED BY <1>1, <1>3, <3>1, <3>3, <4>1 DEF ReadInv
    <3>6. /\ Sampled' >= 0 => det'.have
          /\ det'.have => det'.identity = 0 /\ det'.since <= Sampled'
      BY <1>1, <1>3, <1>7 DEF ReadInv
    <3>7. QED BY <3>4, <3>5, <3>6 DEF ReadInv, Ahead
  <2>6. EmptyInv' BY <2>3 DEF EmptyInv, Moved
  <2>7. QED BY <1>8, <1>9, <2>4, <2>5, <2>6 DEF IInv
<1>13. QED BY <1>11, <1>12 DEF Work

\* The snapshot shows whether anything was consumed since the last one.
LEMMA TakeSnapshotInv == ASSUME IInv, TakeSnapshot, History PROVE IInv'
<1>1. TypeInv /\ ReadInv /\ EmptyInv /\ StuckInv /\ BudgetInv BY DEF IInv
<1>2. /\ ring.avail \in Indices /\ ring.consumed \in Indices
      /\ clock \in Nat /\ IndexMod \in Nat \ {0} /\ Num \in 1 .. IndexMod - 1
      /\ burst \in Indices /\ det.consumed \in Indices /\ det.used \in Indices
      /\ wake \in BOOLEAN /\ emptyAt \in 0 .. clock
  BY <1>1, DetectorAssumption, LostWakeupAssumption DEF TypeInv, Rings, Detectors
<1>3. /\ pc = "snapshot" /\ pc' = "ring" /\ burst' = 0
      /\ UNCHANGED <<clock, ring, notify, worker, wake, losses, det>>
      /\ seen' \in Readings /\ seen'.consumed = ring.consumed /\ seen'.busy = wake
  BY <1>2 DEF TakeSnapshot, Readings
<1>4. (Empty' <=> Empty) /\ (Stuck' <=> Stuck) BY <1>3 DEF Stuck, Empty
<1>5. kicks' = kicks BY <1>3 DEF History
<1>6. Sampled' = Sampled /\ Sampled = clock - 1 BY <1>3 DEF Sampled
<1>7. /\ Distance(ring.avail, ring.consumed) \in Indices
      /\ Distance(ring.avail, ring.consumed) <= Num
  BY <1>1, <1>2, EmptyDistance DEF TypeInv
<1>8. TypeInv'
  <2>1. burst' \in Indices /\ burst' + Distance(ring'.avail, ring'.consumed) < IndexMod
    BY <1>2, <1>3, <1>7 DEF Indices
  <2>2. emptyAt' \in 0 .. clock' BY <1>2, <1>3 DEF History
  <2>3. QED BY <1>1, <1>3, <1>5, <2>1, <2>2 DEF TypeInv
<1>9. det.have => (ring.consumed = det.consumed <=> burst = 0)
  BY <1>1, <1>2, <1>3, AheadIs DEF ReadInv
<1>10. ReadInv'
  <2>1. ring.consumed = Ahead(ring.consumed, 0) BY <1>2 DEF Ahead, Indices
  <2>2. ASSUME det.have, ring.consumed = det.consumed PROVE det.used = det.consumed
    <3>1. burst = 0 BY <1>9, <2>2
    <3>2. PICK b \in 0 .. burst : det.used = Ahead(det.consumed, b)
      BY <1>1, <1>3, <2>2 DEF ReadInv
    <3>3. b = 0 BY <3>1
    <3>4. QED BY <1>2, <3>2, <3>3 DEF Ahead, Indices
  <2>3. QED BY <1>1, <1>3, <1>6, <2>1, <2>2 DEF ReadInv, Ahead
<1>11. EmptyInv'
  <2>1. SUFFICES ASSUME det.have, det.since < Sampled, ~Moved'
                 PROVE  ~Empty' /\ emptyAt' <= det'.since + 1
    BY <1>3, <1>6 DEF EmptyInv
  <2>2. ring.consumed = det.consumed BY <1>3, <2>1 DEF Moved
  <2>3. burst = 0 BY <1>9, <2>1, <2>2
  <2>4. ~Moved BY <1>3, <2>3 DEF Moved
  <2>5. ~Empty /\ emptyAt <= det.since + 1 BY <1>1, <2>1, <2>4 DEF EmptyInv
  <2>6. QED BY <1>3, <1>4, <2>5 DEF History
<1>12. StuckInv'
  <2>1. ASSUME Stuck PROVE stuckAt' = stuckAt /\ ~wake
    BY <1>4, <2>1 DEF History, Stuck
  <2>2. QED BY <1>1, <1>3, <1>4, <1>6, <2>1 DEF StuckInv
<1>13. BudgetInv' BY <1>1, <1>3, <1>5 DEF BudgetInv
<1>14. QED BY <1>8, <1>10, <1>11, <1>12, <1>13 DEF IInv

-----------------------------------------------------------------------------
(* The verdict of an iteration. *)

\* The sample of ReadRing.
Sample ==
  [identity |-> 0, num |-> Num, avail |-> ring.avail, used |-> ring.consumed,
   consumed |-> seen.consumed, busy |-> seen.busy]

\* The age of the stall grows with this sample.
Continues ==
  /\ det.have /\ det.identity = 0 /\ det.used = ring.consumed
  /\ det.consumed = seen.consumed /\ Quiet(Sample)

\* The stall is old enough to be reported.
Overdue == Continues /\ clock - det.since >= Threshold

\* The attempts that still count.
Recent == {t \in det.attempts : clock - t < Hour}

\* What Observe makes of the detector.
LEMMA ObserveFields ==
  ASSUME TypeInv, pc = "ring", NEW d, d = Observe(det, Sample, clock)
  PROVE  /\ d \in Detectors /\ d.have /\ d.identity = 0
         /\ d.used = ring.consumed /\ d.consumed = seen.consumed
         /\ d.lastKick = det.lastKick /\ d.attempts = det.attempts
         /\ d.since = IF Continues THEN det.since ELSE clock
         /\ Stalled(d, Sample, clock) <=> Overdue
<1> DEFINE restart == ~det.have \/ ~Unmoved(det, Sample) \/ ~Quiet(Sample)
<1>1. /\ det \in Detectors /\ clock \in Nat /\ ring.consumed \in Indices
      /\ seen.consumed \in Indices
  BY DEF TypeInv, Rings, Readings
<1>2. /\ Sample.identity = 0 /\ Sample.used = ring.consumed
      /\ Sample.consumed = seen.consumed
  BY DEF Sample
<1>3. restart <=> ~Continues BY <1>2 DEF Continues, Unmoved
<1>4. d = [det EXCEPT !.since = IF restart THEN clock ELSE @,
                      !.reported = ~restart /\ @, !.identity = 0,
                      !.used = ring.consumed, !.consumed = seen.consumed, !.have = TRUE]
  BY <1>2 DEF Observe
<1> HIDE DEF restart
<1>5. /\ d.have /\ d.identity = 0 /\ d.used = ring.consumed /\ d.consumed = seen.consumed
      /\ d.lastKick = det.lastKick /\ d.attempts = det.attempts
      /\ d.since = IF restart THEN clock ELSE det.since
      /\ d \in Detectors
  BY <1>1, <1>4 DEF Detectors
<1>6. d.since = IF Continues THEN det.since ELSE clock BY <1>3, <1>5
<1>7. Stalled(d, Sample, clock) <=> Overdue
  <2>1. CASE Continues BY <1>6, <2>1 DEF Stalled, Overdue, Continues
  <2>2. CASE ~Continues
    <3>1. ~(clock - d.since >= Threshold) BY <1>1, <1>6, <2>2, DetectorAssumption
    <3>2. QED BY <2>2, <3>1 DEF Stalled, Overdue
  <2>3. QED BY <2>1, <2>2
<1>8. QED BY <1>5, <1>6, <1>7

\* What an iteration leaves of the detector, and what it decides.
LEMMA ReadFields ==
  ASSUME TypeInv, ReadRing
  PROVE  /\ pc = "ring" /\ pc' \in {"kick", "wait"}
         /\ UNCHANGED <<clock, ring, notify, worker, wake, burst, losses>>
         /\ det' \in Detectors /\ det'.have /\ det'.identity = 0
         /\ det'.used = ring.consumed /\ det'.consumed = seen.consumed
         /\ det'.lastKick = det.lastKick
         /\ det'.attempts \in {det.attempts, Recent}
         /\ det'.since = IF Continues THEN det.since ELSE clock
         /\ pc' = "kick" => Overdue
         /\ pc' = "wait" /\ Overdue =>
              ~(Elapsed(det.lastKick, Cooldown, clock) /\ Cardinality(Recent) < Maximum)
<1> DEFINE d == Observe(det, Sample, clock)
           stalled == Stalled(d, Sample, clock)
           d1 == IF stalled THEN Prune(d, clock) ELSE d
<1>1. /\ pc = "ring" /\ UNCHANGED <<clock, ring, notify, worker, wake, burst, losses>>
      /\ det' = [d1 EXCEPT !.reported = @ \/ stalled]
      /\ pc' = IF stalled /\ Allowed(d1, clock) THEN "kick" ELSE "wait"
  BY DEF ReadRing, Sample, queueVars
<1>2. /\ d \in Detectors /\ d.have /\ d.identity = 0
      /\ d.used = ring.consumed /\ d.consumed = seen.consumed
      /\ d.lastKick = det.lastKick /\ d.attempts = det.attempts
      /\ d.since = IF Continues THEN det.since ELSE clock
      /\ stalled <=> Overdue
  BY <1>1, ObserveFields
<1>3. stalled \in BOOLEAN BY DEF Stalled
<1> HIDE DEF d, stalled
<1>4. /\ d1 \in Detectors /\ d1.have /\ d1.identity = 0
      /\ d1.used = ring.consumed /\ d1.consumed = seen.consumed
      /\ d1.lastKick = det.lastKick /\ d1.since = d.since
      /\ d1.attempts = IF stalled THEN Recent ELSE det.attempts
  <2>1. CASE stalled
    <3>1. d1 = [d EXCEPT !.attempts = {t \in d.attempts : clock - t < Hour}]
      BY <2>1 DEF Prune
    <3>2. QED BY <1>2, <2>1, <3>1 DEF Detectors, Recent
  <2>2. CASE ~stalled BY <1>2, <2>2
  <2>3. QED BY <2>1, <2>2
<1> HIDE DEF d1
<1>5. /\ det' \in Detectors /\ det'.have /\ det'.identity = 0
      /\ det'.used = ring.consumed /\ det'.consumed = seen.consumed
      /\ det'.lastKick = det.lastKick /\ det'.attempts = d1.attempts
      /\ det'.since = d1.since
  BY <1>1, <1>3, <1>4 DEF Detectors
<1>6. pc' = "kick" => Overdue BY <1>1, <1>2
<1>7. pc' = "wait" /\ Overdue =>
        ~(Elapsed(det.lastKick, Cooldown, clock) /\ Cardinality(Recent) < Maximum)
  BY <1>1, <1>2, <1>4 DEF Allowed
<1>8. pc' \in {"kick", "wait"} BY <1>1
<1>9. det'.attempts \in {det.attempts, Recent} BY <1>4, <1>5
<1>10. QED BY <1>1, <1>2, <1>4, <1>5, <1>6, <1>7, <1>8, <1>9

\* The sample of a queue that is stuck is a quiet one.
LEMMA StuckIsQuiet ==
  ASSUME TypeInv, Stuck, seen.consumed = ring.consumed, ~seen.busy
  PROVE  Quiet(Sample)
<1>1. ring.avail \in Indices /\ ring.consumed \in Indices BY DEF TypeInv, Rings
<1>2. /\ Pending(Sample) = Distance(ring.avail, ring.consumed)
      /\ Outstanding(Sample) = Distance(ring.avail, ring.consumed)
      /\ ~Sample.busy /\ Sample.num = Num
  BY DEF Pending, Outstanding, Sample
<1>3. ring.avail # ring.consumed BY DEF Stuck, Empty
<1>4. Distance(ring.avail, ring.consumed) # 0 BY <1>1, <1>3, NoDistance
<1>5. ~(Distance(ring.avail, ring.consumed) > Num)
  <2>1. Distance(ring.avail, ring.consumed) \in Indices BY <1>1, NoDistance
  <2>2. Distance(ring.avail, ring.consumed) <= Num BY DEF TypeInv
  <2>3. QED BY <2>1, <2>2, DetectorAssumption, LostWakeupAssumption DEF Indices
<1>6. QED BY <1>2, <1>4, <1>5 DEF Quiet, Invalid

\* The sample of the iteration: if the age of the stall goes on growing,
\* nothing was consumed between the two samples.
LEMMA ReadRingInv == ASSUME IInv, ReadRing, History PROVE IInv'
<1>1. TypeInv /\ ReadInv /\ EmptyInv /\ StuckInv /\ BudgetInv BY DEF IInv
<1>2. /\ ring.avail \in Indices /\ ring.consumed \in Indices
      /\ clock \in Nat /\ IndexMod \in Nat \ {0} /\ burst \in Indices
      /\ det.consumed \in Indices /\ det.used \in Indices /\ det.since \in Nat
      /\ emptyAt \in 0 .. clock
  BY <1>1, DetectorAssumption DEF TypeInv, Rings, Detectors
<1>3. /\ pc = "ring" /\ pc' \in {"kick", "wait"}
      /\ UNCHANGED <<clock, ring, notify, worker, wake, burst, losses>>
      /\ det' \in Detectors /\ det'.have /\ det'.identity = 0
      /\ det'.used = ring.consumed /\ det'.consumed = seen.consumed
      /\ det'.lastKick = det.lastKick
      /\ det'.attempts \in {det.attempts, Recent}
      /\ det'.since = IF Continues THEN det.since ELSE clock
  BY <1>1, ReadFields
<1>4. (Empty' <=> Empty) /\ (Stuck' <=> Stuck) BY <1>3 DEF Stuck, Empty
<1>5. kicks' = kicks BY <1>3 DEF History
<1>6. Sampled' = clock /\ Sampled = clock - 1 BY <1>3 DEF Sampled
<1>7. emptyAt' = IF Empty THEN clock ELSE emptyAt BY <1>3, <1>4 DEF History
<1>8. seen.consumed \in Indices /\ ring.consumed = Ahead(seen.consumed, burst)
  BY <1>1, <1>3 DEF TypeInv, Readings, ReadInv
<1>9. det'.since <= clock BY <1>1, <1>2, <1>3, <1>6 DEF ReadInv, Continues
<1>10. TypeInv'
  <2>1. emptyAt' \in 0 .. clock BY <1>2, <1>7
  <2>2. pc' \in {"snapshot", "ring", "kick", "wait"} /\ pc' # "ring" BY <1>3
  <2>3. QED BY <1>1, <1>3, <1>5, <2>1, <2>2 DEF TypeInv
<1>11. ReadInv'
  <2>1. burst' \in 0 .. burst' /\ det'.used = Ahead(det'.consumed, burst')
    BY <1>2, <1>3, <1>8 DEF Indices, Ahead
  <2>2. ring'.consumed = Ahead(det'.consumed, burst') BY <1>3, <1>8 DEF Ahead
  <2>3. pc' # "ring" BY <1>3
  <2>4. QED BY <1>3, <1>6, <1>9, <2>1, <2>2, <2>3 DEF ReadInv, Ahead
<1>12. EmptyInv'
  <2>1. SUFFICES ASSUME det'.since < clock, ~Moved'
                 PROVE  ~Empty /\ emptyAt <= det'.since + 1
    BY <1>3, <1>4, <1>6, <1>7 DEF EmptyInv
  <2>2. Continues /\ det'.since = det.since BY <1>2, <1>3, <2>1
  <2>3. det.have /\ seen.consumed = det.consumed BY <2>2 DEF Continues
  <2>4. burst = 0 BY <1>2, <1>3, <2>1 DEF Moved, Indices
  <2>5. ~Moved BY <1>2, <2>3, <2>4 DEF Moved
  <2>6. CASE det.since < Sampled BY <1>1, <2>2, <2>3, <2>5, <2>6 DEF EmptyInv
  <2>7. CASE ~(det.since < Sampled)
    <3>1. clock <= det.since + 1 BY <1>2, <1>6, <2>7
    <3>2. Pending(Sample) # 0 BY <2>2 DEF Continues, Quiet
    <3>3. Pending(Sample) = Distance(ring.avail, seen.consumed) BY DEF Pending, Sample
    <3>4. ring.consumed = seen.consumed BY <1>2, <1>8, <2>4, AheadIs
    <3>5. ~Empty BY <1>2, <3>2, <3>3, <3>4, NoDistance DEF Empty
    <3>6. QED BY <1>2, <2>2, <3>1, <3>5
  <2>8. QED BY <2>6, <2>7
<1>13. StuckInv'
  <2>1. SUFFICES ASSUME Stuck
                 PROVE  /\ stuckAt' \in 0 .. clock'
                        /\ stuckAt' < Sampled' =>
                             /\ det'.consumed = ring'.consumed /\ det'.used = ring'.consumed
                             /\ det'.since <= stuckAt' + 1
    BY <1>3, <1>4 DEF StuckInv
  <2>2. stuckAt' = stuckAt /\ stuckAt \in 0 .. clock
    BY <1>1, <1>4, <2>1 DEF History, StuckInv
  <2>3. SUFFICES ASSUME stuckAt < clock
                 PROVE  det'.consumed = ring.consumed /\ det'.since <= stuckAt + 1
    BY <1>3, <1>6, <2>2
  <2>4. seen.consumed = ring.consumed /\ ~seen.busy BY <1>1, <1>3, <2>1, <2>3 DEF StuckInv
  <2>5. CASE stuckAt < Sampled
    <3>1. /\ det.consumed = ring.consumed /\ det.used = ring.consumed
          /\ det.since <= stuckAt + 1
      BY <1>1, <2>1, <2>5 DEF StuckInv
    <3>2. det.have /\ det.identity = 0
      <4>1. Sampled >= 0 BY <1>2, <1>6, <2>2, <2>5
      <4>2. QED BY <1>1, <4>1 DEF ReadInv
    <3>3. Quiet(Sample) BY <1>1, <1>3, <2>1, <2>4, StuckIsQuiet
    <3>4. Continues BY <2>4, <3>1, <3>2, <3>3 DEF Continues
    <3>5. QED BY <1>3, <2>4, <3>1, <3>4
  <2>6. CASE ~(stuckAt < Sampled)
    <3>1. clock <= stuckAt + 1 BY <1>2, <1>6, <2>2, <2>6
    <3>2. det'.since \in Nat BY <1>3 DEF Detectors
    <3>3. QED BY <1>2, <1>3, <1>9, <2>2, <2>4, <3>1, <3>2
  <2>7. QED BY <2>5, <2>6
<1>14. BudgetInv'
  <2>1. /\ det'.attempts \subseteq det.attempts
        /\ \A k \in det.attempts \ det'.attempts : clock - k >= Hour
    <3>1. det.attempts \subseteq Nat BY <1>1 DEF TypeInv, Detectors
    <3>2. QED BY <1>2, <1>3, <3>1, DetectorAssumption DEF Recent
  <2>2. QED BY <1>1, <1>3, <1>5, <2>1 DEF BudgetInv
<1>15. QED BY <1>10, <1>11, <1>12, <1>13, <1>14 DEF IInv

\* The kick: it is counted, and the queue is not stuck afterwards unless it
\* was before and the wakeup got lost again.
LEMMA KickInv == ASSUME IInv, Kick, History PROVE IInv'
<1>1. TypeInv /\ ReadInv /\ EmptyInv /\ StuckInv /\ BudgetInv BY DEF IInv
<1>2. clock \in Nat /\ det \in Detectors /\ wake \in BOOLEAN BY <1>1 DEF TypeInv
<1>3. /\ pc = "kick" /\ pc' = "wait"
      /\ UNCHANGED <<clock, ring, notify, worker, burst, seen>>
      /\ wake' \in BOOLEAN /\ (wake = TRUE => wake' = TRUE)
      /\ det' = [det EXCEPT !.lastKick = clock, !.attempts = @ \cup {clock}]
  BY <1>2 DEF Kick, Signal, Kicked
<1>4. /\ det' \in Detectors /\ UNCHANGED <<det.since, det.have, det.identity>>
      /\ UNCHANGED <<det.used, det.consumed>>
      /\ det'.lastKick = clock /\ det'.attempts = det.attempts \cup {clock}
  BY <1>2, <1>3 DEF Detectors
<1>5. Empty' <=> Empty BY <1>3 DEF Empty
<1>6. kicks' = kicks \cup {clock} BY <1>3 DEF History
<1>7. Sampled' = Sampled BY <1>3 DEF Sampled
<1>8. emptyAt' = IF Empty THEN clock ELSE emptyAt BY <1>3, <1>5 DEF History
<1>9. TypeInv'
  <2>1. emptyAt' \in 0 .. clock BY <1>1, <1>2, <1>8 DEF TypeInv
  <2>2. kicks' \subseteq Nat BY <1>1, <1>2, <1>6 DEF TypeInv
  <2>3. QED BY <1>1, <1>3, <1>4, <2>1, <2>2 DEF TypeInv
<1>10. ReadInv' BY <1>1, <1>3, <1>4, <1>7 DEF ReadInv, Ahead
<1>11. EmptyInv'
  <2>1. Moved' <=> Moved BY <1>3 DEF Moved
  <2>2. QED BY <1>1, <1>4, <1>5, <1>7, <1>8, <2>1 DEF EmptyInv
<1>12. StuckInv'
  <2>1. SUFFICES ASSUME Stuck'
                 PROVE  /\ stuckAt' \in 0 .. clock'
                        /\ stuckAt' < Sampled' =>
                             /\ det'.consumed = ring'.consumed /\ det'.used = ring'.consumed
                             /\ det'.since <= stuckAt' + 1
    BY <1>3 DEF StuckInv
  <2>2. Stuck BY <1>2, <1>3, <1>5, <2>1 DEF Stuck
  <2>3. stuckAt' = stuckAt BY <2>1, <2>2 DEF History
  <2>4. QED BY <1>1, <1>3, <1>4, <1>7, <2>2, <2>3 DEF StuckInv
<1>13. BudgetInv'
  <2>1. /\ det'.attempts \subseteq kicks' /\ det'.lastKick \in kicks'
        /\ \A k \in kicks' \ det'.attempts : clock - k >= Hour
    BY <1>1, <1>4, <1>6 DEF BudgetInv
  <2>2. \A k \in kicks' : k <= clock BY <1>1, <1>2, <1>6 DEF BudgetInv
  <2>3. det'.lastKick # NegInf BY <1>2, <1>4, DetectorAssumption
  <2>4. QED BY <1>3, <1>4, <2>1, <2>2, <2>3 DEF BudgetInv
<1>14. QED BY <1>9, <1>10, <1>11, <1>12, <1>13 DEF IInv

\* The next interval: an attempt may leave the hour.
LEMMA NextTickInv == ASSUME IInv, NextTick, History PROVE IInv'
<1>1. TypeInv /\ ReadInv /\ EmptyInv /\ StuckInv /\ BudgetInv BY DEF IInv
<1>2. clock \in Nat /\ emptyAt \in 0 .. clock /\ kicks \subseteq Nat BY <1>1 DEF TypeInv
<1>3. /\ pc = "wait" /\ pc' = "snapshot" /\ clock' = clock + 1
      /\ UNCHANGED <<ring, notify, worker, wake, burst, seen, det>>
  BY DEF NextTick, queueVars
<1>4. (Empty' <=> Empty) /\ (Stuck' <=> Stuck) BY <1>3 DEF Stuck, Empty
<1>5. kicks' = kicks BY <1>3 DEF History
<1>6. Sampled' = Sampled /\ Sampled = clock BY <1>2, <1>3 DEF Sampled
<1>7. emptyAt' = IF Empty THEN clock + 1 ELSE emptyAt BY <1>3, <1>4 DEF History
<1>8. TypeInv'
  <2>1. emptyAt' \in 0 .. clock' /\ clock' \in Nat BY <1>2, <1>3, <1>7
  <2>2. QED BY <1>1, <1>3, <1>5, <2>1 DEF TypeInv
<1>9. ReadInv' BY <1>1, <1>3, <1>6 DEF ReadInv, Ahead
<1>10. EmptyInv'
  <2>1. Moved' <=> Moved BY <1>3 DEF Moved
  <2>2. QED BY <1>1, <1>3, <1>4, <1>6, <1>7, <2>1 DEF EmptyInv
<1>11. StuckInv'
  <2>1. ASSUME Stuck PROVE stuckAt' = stuckAt /\ stuckAt' \in 0 .. clock'
    BY <1>1, <1>2, <1>3, <1>4, <2>1 DEF History, StuckInv
  <2>2. QED BY <1>1, <1>3, <1>4, <1>6, <2>1 DEF StuckInv
<1>12. BudgetInv'
  <2>1. \A k \in kicks \ det.attempts : clock' - k >= Hour
    BY <1>1, <1>2, <1>3, DetectorAssumption DEF BudgetInv
  <2>2. \A k \in kicks : k <= clock' BY <1>1, <1>2, <1>3 DEF BudgetInv
  <2>3. QED BY <1>1, <1>3, <1>5, <2>1, <2>2 DEF BudgetInv
<1>13. QED BY <1>8, <1>9, <1>10, <1>11, <1>12 DEF IInv

-----------------------------------------------------------------------------
(* The theorems. *)

\* The loop has sampled nothing yet and the queue is empty.
LEMMA InitInv == ASSUME Init PROVE IInv
<1>1. /\ IndexMod \in Nat \ {0} /\ Num \in 1 .. IndexMod - 1
      /\ Distance(0, 0) = 0 /\ 0 \in Indices
  BY DetectorAssumption, LostWakeupAssumption, NoDistance DEF Indices
<1>2. ring \in Rings /\ ring.avail = 0 /\ ring.consumed = 0 BY <1>1 DEF Init, Rings
<1>3. det \in Detectors /\ det.have = FALSE /\ det.lastKick = NegInf /\ det.attempts = {}
  BY <1>1 DEF Init, NewDetector, Detectors
<1>4. TypeInv
  <2>1. /\ burst = 0 /\ burst \in Indices /\ clock = 0 /\ emptyAt = 0
        /\ Distance(ring.avail, ring.consumed) = 0
    BY <1>1, <1>2 DEF Init
  <2>2. /\ burst + Distance(ring.avail, ring.consumed) < IndexMod
        /\ Distance(ring.avail, ring.consumed) <= Num
        /\ clock \in Nat /\ emptyAt \in 0 .. clock
    BY <1>1, <2>1
  <2>3. /\ notify \in BOOLEAN /\ wake \in BOOLEAN /\ kicks \subseteq Nat
        /\ worker = "asleep" /\ pc = "snapshot"
    BY DEF Init
  <2>4. QED BY <1>2, <1>3, <2>1, <2>2, <2>3 DEF TypeInv
<1>5. ReadInv BY <1>3 DEF Init, ReadInv, Sampled
<1>6. EmptyInv BY <1>3 DEF EmptyInv
<1>7. StuckInv BY <1>2 DEF StuckInv, Stuck, Empty
<1>8. BudgetInv BY <1>3 DEF Init, BudgetInv
<1>9. QED BY <1>4, <1>5, <1>6, <1>7, <1>8 DEF IInv

\* A step that changes nothing.
LEMMA StutterInv == ASSUME IInv, UNCHANGED vars PROVE IInv'
<1>1. /\ UNCHANGED <<clock, ring, notify, worker, wake, burst, pc, seen, det>>
      /\ UNCHANGED <<emptyAt, stuckAt, kicks>>
  BY DEF vars, queueVars, loopVars
<1>2. Sampled' = Sampled /\ (Empty' <=> Empty) /\ (Stuck' <=> Stuck)
  BY <1>1 DEF Sampled, Empty, Stuck
<1>3. TypeInv' BY <1>1 DEF IInv, TypeInv
<1>4. ReadInv' BY <1>1, <1>2 DEF IInv, ReadInv, Ahead
<1>5. EmptyInv' BY <1>1, <1>2 DEF IInv, EmptyInv, Moved
<1>6. StuckInv' BY <1>1, <1>2 DEF IInv, StuckInv
<1>7. BudgetInv' BY <1>1 DEF IInv, BudgetInv
<1>8. QED BY <1>3, <1>4, <1>5, <1>6, <1>7 DEF IInv

\* The inductive invariant: what the detector knows of the queue, how long the
\* queue has really been stuck, and which kicks the budget counts.
THEOREM Invariant == Spec => []IInv
<1>1. Init => IInv BY InitInv
<1>2. IInv /\ [Next]_vars => IInv'
  BY PublishInv, WorkInv, TakeSnapshotInv, ReadRingInv, KickInv, NextTickInv, StutterInv
  DEF Next
<1>3. QED BY <1>1, <1>2, PTL DEF Spec

\* A queue that lost a wakeup is kicked at the first iteration more than
\* Threshold after it got stuck, unless the kicks so far use up the budget
\* (Observe and Allowed of model.go, run_linux.go).
THEOREM StallCured == Spec => StallIsCured
<1>1. ASSUME IInv, Next, pc = "ring", pc' = "wait", Stuck, clock - stuckAt > Threshold
      PROVE  ~Affordable
  <2>1. TypeInv /\ ReadInv /\ StuckInv /\ BudgetInv BY <1>1 DEF IInv
  <2>2. /\ clock \in Nat /\ stuckAt \in 0 .. clock /\ det.since \in Nat
        /\ ring.avail \in Indices /\ ring.consumed \in Indices
        /\ IndexMod \in Nat \ {0} /\ Threshold \in Nat \ {0}
    BY <1>1, <2>1, DetectorAssumption DEF TypeInv, StuckInv, Detectors, Rings
  <2>3. ReadRing BY <1>1 DEF Next, Publish, Work, TakeSnapshot, Kick, NextTick, loopVars
  <2>4. Sampled = clock - 1 BY <1>1 DEF Sampled
  <2>5. stuckAt < clock /\ stuckAt < Sampled /\ Sampled >= 0 BY <1>1, <2>2, <2>4
  <2>6. /\ seen.consumed = ring.consumed /\ ~seen.busy
        /\ det.consumed = ring.consumed /\ det.used = ring.consumed
        /\ det.since <= stuckAt + 1
    BY <1>1, <2>1, <2>5 DEF StuckInv
  <2>7. det.have /\ det.identity = 0 BY <2>1, <2>5 DEF ReadInv
  <2>8. Quiet(Sample) BY <1>1, <2>1, <2>6, StuckIsQuiet
  <2>9. Overdue BY <1>1, <2>2, <2>6, <2>7, <2>8 DEF Overdue, Continues
  <2>10. ~(Elapsed(det.lastKick, Cooldown, clock) /\ Cardinality(Recent) < Maximum)
    BY <1>1, <2>1, <2>3, <2>9, ReadFields
  <2>11. Recent = {k \in kicks : clock - k < Hour}
    <3>1. kicks \subseteq Nat BY <2>1 DEF TypeInv
    <3>2. det.attempts \subseteq kicks BY <2>1 DEF BudgetInv
    <3>3. \A k \in kicks : clock - k < Hour => k \in det.attempts
      <4>1. SUFFICES ASSUME NEW k \in kicks, k \notin det.attempts
                     PROVE  ~(clock - k < Hour)
        OBVIOUS
      <4>2. clock - k >= Hour BY <2>1, <4>1 DEF BudgetInv
      <4>3. k \in Nat /\ Hour \in Nat BY <3>1, DetectorAssumption
      <4>4. QED BY <2>2, <4>2, <4>3
    <3>4. QED BY <3>2, <3>3 DEF Recent
  <2>12. ASSUME Affordable PROVE FALSE
    <3>1. Elapsed(det.lastKick, Cooldown, clock)
      BY <2>1, <2>12 DEF Affordable, Elapsed, BudgetInv
    <3>2. QED BY <2>10, <2>11, <2>12, <3>1 DEF Affordable
  <2>13. QED BY <2>12
<1>2. IInv /\ [Next]_vars =>
        [pc = "ring" /\ pc' = "wait" /\ Stuck /\ clock - stuckAt > Threshold
           => ~Affordable]_vars
  BY <1>1
<1>3. QED BY <1>2, Invariant, PTL DEF Spec, StallIsCured

\* A kick is decided only on a queue that has had a backlog for Threshold less
\* one interval: the worker never catches up unnoticed (Detector.Observe).
THEOREM KickDue == Spec => KickIsDue
<1>1. ASSUME IInv, Next, pc = "ring", pc' = "kick" PROVE clock - emptyAt >= Threshold - 1
  <2>1. TypeInv /\ ReadInv /\ EmptyInv BY <1>1 DEF IInv
  <2>2. /\ clock \in Nat /\ emptyAt \in 0 .. clock /\ det.since \in Nat
        /\ Threshold \in Nat \ {0}
        /\ ring.consumed \in Indices /\ burst \in Indices
    BY <2>1, DetectorAssumption DEF TypeInv, Detectors, Rings
  <2>3. ReadRing BY <1>1 DEF Next, Publish, Work, TakeSnapshot, Kick, NextTick, loopVars
  <2>4. Sampled = clock - 1 BY <1>1 DEF Sampled
  <2>5. Continues /\ clock - det.since >= Threshold
    BY <1>1, <2>1, <2>3, ReadFields DEF Overdue
  <2>6. det.have /\ det.consumed = seen.consumed /\ det.used = ring.consumed
    BY <2>5 DEF Continues
  <2>7. burst = 0
    <3>1. ring.consumed = Ahead(seen.consumed, burst) /\ det.used = det.consumed
      BY <1>1, <2>1, <2>6 DEF ReadInv
    <3>2. QED BY <2>2, <2>6, <3>1, AheadIs
  <2>8. ~Moved BY <2>2, <2>6, <2>7 DEF Moved
  <2>9. CASE det.since < Sampled
    <3>1. emptyAt <= det.since + 1 BY <2>1, <2>6, <2>8, <2>9 DEF EmptyInv
    <3>2. QED BY <2>2, <2>5, <3>1
  <2>10. CASE ~(det.since < Sampled) BY <2>2, <2>4, <2>5, <2>10
  <2>11. QED BY <2>9, <2>10
<1>2. IInv /\ [Next]_vars =>
        [pc = "ring" /\ pc' = "kick" => clock - emptyAt >= Threshold - 1]_vars
  BY <1>1
<1>3. QED BY <1>2, Invariant, PTL DEF Spec, KickIsDue

=============================================================================
