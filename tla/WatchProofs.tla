----------------------------- MODULE WatchProofs -----------------------------
(***************************************************************************)
(* Proofs about the serial sampling loop (module Watch), for every set of  *)
(* queues and samples, every configuration and every bound.                *)
(***************************************************************************)
EXTENDS Watch, FiniteSetTheorems, TLAPS

\* Observe returns a detector.
LEMMA ObserveType ==
  ASSUME NEW d \in Detectors, NEW s \in Samples, NEW t \in Nat
  PROVE  Observe(d, s, t) \in Detectors
  BY WatchAssumption, DetectorAssumption
     DEF Observe, Detectors, Identity, Indices, Unmoved, Quiet

\* So do the other operations on detectors.
LEMMA DetectorTypes ==
  ASSUME NEW d \in Detectors, NEW t \in Nat
  PROVE  /\ Interrupt(d, t) \in Detectors
         /\ Prune(d, t) \in Detectors
         /\ Kicked(d, t) \in Detectors
         /\ [d EXCEPT !.lastKick = t] \in Detectors
         /\ \A b \in BOOLEAN : [d EXCEPT !.reported = b] \in Detectors
  BY DEF Interrupt, Prune, Kicked, Detectors, Times

\* A new detector has its type (NewDetector).
LEMMA NewDetectorType == NewDetector \in Detectors
  BY DetectorAssumption DEF NewDetector, Detectors, Times, Indices

\* An entry of the history that one of the actions records.
LEMMA EntryType ==
  ASSUME NEW kind \in Kinds, NEW s \in Samples \cup {None}, NEW stalled \in BOOLEAN,
         NEW event \in Events, NEW report \in BOOLEAN, now \in Nat
  PROVE  Entry(kind, s, stalled, event, report) \in Entries
  BY DEF Entry, Entries

\* The event of a visit is one of the loop's events.
LEMMA VerificationType ==
  ASSUME NEW v, NEW s PROVE Verification(v, s) \in Events
  BY DEF Verification, Events

\* Appending an entry to one history keeps the type of all.
LEMMA RecordType ==
  ASSUME TypeOK, NEW fd \in FD, NEW e \in Entries, Record(fd, e),
         e.kind = "sample" => e.s \in Samples
  PROVE  /\ hist' \in [FD -> Seq(Entries)]
         /\ \A x \in FD : \A n \in DOMAIN hist'[x] :
              hist'[x][n].kind = "sample" => hist'[x][n].s \in Samples
<1>1. hist \in [FD -> Seq(Entries)] BY DEF TypeOK
<1>2. hist' = [hist EXCEPT ![fd] = Append(hist[fd], e)] BY DEF Record
<1>3. hist' \in [FD -> Seq(Entries)] BY <1>1, <1>2
<1>4. ASSUME NEW x \in FD, NEW n \in DOMAIN hist'[x], hist'[x][n].kind = "sample"
      PROVE  hist'[x][n].s \in Samples
  <2>1. CASE x # fd BY <1>1, <1>2, <1>4, <2>1 DEF TypeOK
  <2>2. CASE x = fd
    <3>1. hist'[x] = Append(hist[fd], e) BY <1>1, <1>2, <2>2
    <3>2. CASE n = Len(hist[fd]) + 1 BY <1>1, <1>4, <3>1, <3>2
    <3>3. CASE n \in DOMAIN hist[fd] BY <1>1, <1>4, <3>1, <3>3 DEF TypeOK
    <3>4. QED BY <1>1, <3>1, <3>2, <3>3
  <2>3. QED BY <2>1, <2>2
<1>5. QED BY <1>3, <1>4

\* The error path of a visit keeps the types.
LEMMA UnavailableType ==
  ASSUME TypeOK, NEW fd \in FD, NEW d \in Detectors \cup {None}, Unavailable(fd, d),
         snapshots' \in [FD -> Identity \cup {NoIdentity}]
  PROVE  TypeOK'
<1>1. now \in Nat BY WatchAssumption DEF TypeOK
<1>2. Entry("error", None, FALSE, "none", FALSE) \in Entries
  BY <1>1, EntryType DEF Kinds, Events
<1>3. /\ hist' \in [FD -> Seq(Entries)]
      /\ \A x \in FD : \A n \in DOMAIN hist'[x] :
           hist'[x][n].kind = "sample" => hist'[x][n].s \in Samples
  BY <1>2, RecordType DEF Unavailable, Entry
<1>4. (IF d = None THEN None ELSE Interrupt(d, now)) \in Detectors \cup {None}
  BY <1>1, DetectorTypes
<1>5. states' \in [FD -> Detectors \cup {None}] BY <1>4 DEF Unavailable, TypeOK
<1>6. QED BY <1>3, <1>5 DEF Unavailable, TypeOK, env, Times

\* A successful visit keeps the types.
LEMMA ReadQueueType ==
  ASSUME TypeOK, NEW fd \in FD, NEW s \in Samples, NEW replaced \in BOOLEAN,
         ReadQueue(fd, s, replaced)
  PROVE  TypeOK'
<1> DEFINE d0 == Observe(DetectorOf(fd), s, now)
           stalled == Stalled(d0, s, now)
           d1 == [d0 EXCEPT !.reported = @ \/ stalled]
           d2 == IF Mode = "guarded" /\ stalled THEN Prune(d1, now) ELSE d1
           v == IF replaced THEN None ELSE pending[fd]
           event == Verification(v, s)
           report == stalled /\ ~d0.reported
<1>1. now \in Nat BY WatchAssumption DEF TypeOK
<1>2. stalled \in BOOLEAN /\ report \in BOOLEAN BY DEF Stalled, Quiet
<1>3. d2 \in Detectors
  <2>1. DetectorOf(fd) \in Detectors BY NewDetectorType DEF DetectorOf, TypeOK
  <2>2. d0 \in Detectors BY <1>1, <2>1, ObserveType
  <2>3. (d0.reported \/ stalled) \in BOOLEAN OBVIOUS
  <2>4. d1 \in Detectors BY <1>1, <2>2, <2>3, DetectorTypes
  <2>5. QED BY <1>1, <2>4, DetectorTypes
<1>4. event \in Events BY VerificationType
<1> HIDE DEF d2, d1, d0, stalled, report, event
<1>5. /\ snapshots' = [snapshots EXCEPT ![fd] = s.identity]
      /\ states' = [states EXCEPT ![fd] = d2]
      /\ pending' = [pending EXCEPT ![fd] = IF event = "none" THEN v ELSE None]
      /\ Record(fd, Entry("sample", s, stalled, event, report))
      /\ UNCHANGED <<env, loop, kicks, lifetime>>
      /\ \/ /\ pc' = "recover"
            /\ row' = [fd |-> fd, s |-> s, stalled |-> stalled]
            /\ UNCHANGED todo
         \/ todo' = todo \ {fd} /\ UNCHANGED <<pc, row>>
         \/ pc' = "failed" /\ UNCHANGED <<todo, row>>
      /\ pc = "queue" /\ fd \in todo
  BY DEF ReadQueue, Turn, d2, d1, d0, stalled, report, event
<1>6. Entry("sample", s, stalled, event, report) \in Entries
  BY <1>1, <1>2, <1>4, EntryType DEF Kinds
<1>7. /\ hist' \in [FD -> Seq(Entries)]
      /\ \A x \in FD : \A n \in DOMAIN hist'[x] :
           hist'[x][n].kind = "sample" => hist'[x][n].s \in Samples
  BY <1>5, <1>6, RecordType DEF Entry
<1>8. states' \in [FD -> Detectors \cup {None}] /\ states'[fd] # None
  BY <1>3, <1>5, WatchAssumption DEF TypeOK
<1>9. pending' \in [FD -> Verifications \cup {None}] BY <1>5 DEF TypeOK
<1>10. snapshots' \in [FD -> Identity \cup {NoIdentity}] BY <1>5 DEF TypeOK, Identity
<1>11. /\ row' \in Rows \cup {None} /\ (pc' = "recover" <=> row' # None)
       /\ row' # None => row'.fd \in todo' /\ states'[row'.fd] # None
  <2>1. row = None BY <1>5 DEF TypeOK
  <2>2. [fd |-> fd, s |-> s, stalled |-> stalled] \in Rows BY <1>2 DEF Rows
  <2>3. QED BY <1>5, <1>8, <2>1, <2>2, WatchAssumption
<1>12. QED
  BY <1>5, <1>7, <1>8, <1>9, <1>10, <1>11 DEF TypeOK, env, loop

\* A written kick keeps the types.
LEMMA RekickWritesType == ASSUME TypeOK, RekickWrites PROVE TypeOK'
<1> DEFINE fd == row.fd
<1>1. now \in Nat BY WatchAssumption DEF TypeOK
<1>2. row \in Rows /\ fd \in FD /\ row.s \in Samples /\ row.stalled \in BOOLEAN
      /\ states[fd] \in Detectors
  BY DEF TypeOK, RekickWrites, Rows
<1>3. states' \in [FD -> Detectors \cup {None}]
  BY <1>1, <1>2, DetectorTypes DEF TypeOK, RekickWrites
<1>4. [at |-> now, used |-> row.s.used, consumed |-> row.s.consumed,
       stalled |-> Mode = "guarded" \/ row.stalled] \in Verifications
  BY <1>1, <1>2, WatchAssumption DEF Verifications, Indices
<1>5. pending' \in [FD -> Verifications \cup {None}]
  BY <1>2, <1>4 DEF TypeOK, RekickWrites
<1>6. Entry("kick", row.s, row.stalled, "none", FALSE) \in Entries
  BY <1>1, <1>2, EntryType DEF Kinds, Events
<1>7. /\ hist' \in [FD -> Seq(Entries)]
      /\ \A x \in FD : \A n \in DOMAIN hist'[x] :
           hist'[x][n].kind = "sample" => hist'[x][n].s \in Samples
  BY <1>2, <1>6, RecordType DEF RekickWrites, Entry
<1>8. kicks' \in [FD -> SUBSET Attempts] /\ lifetime' \in [FD -> SUBSET Nat]
  <2>1. kicks \in [FD -> SUBSET Attempts] /\ lifetime \in [FD -> SUBSET Nat] BY DEF TypeOK
  <2>2. CASE Mode = "guarded"
    <3>1. /\ kicks' = [kicks EXCEPT ![fd] = @ \cup {[t |-> now, at |-> clock]}]
          /\ lifetime' = [lifetime EXCEPT ![fd] = @ \cup {now}]
      BY <2>2 DEF RekickWrites
    <3>2. [t |-> now, at |-> clock] \in Attempts
      BY <1>1, WatchAssumption DEF TypeOK, Attempts
    <3>3. QED BY <1>1, <1>2, <2>1, <3>1, <3>2
  <2>3. CASE Mode # "guarded" BY <2>1, <2>3 DEF RekickWrites
  <2>4. QED BY <2>2, <2>3
<1>9. QED BY <1>3, <1>5, <1>7, <1>8 DEF TypeOK, RekickWrites, env, loop

\* Dropping the vanished FDs keeps the types.
LEMMA EndIterationType == ASSUME TypeOK, EndIteration PROVE TypeOK'
<1> DEFINE e == Entry("gone", None, FALSE, "none", FALSE)
           stays(x) == x \in vhosts \/ snapshots[x] = NoIdentity
<1>1. now \in Nat /\ hist \in [FD -> Seq(Entries)] BY WatchAssumption DEF TypeOK
<1>2. e \in Entries /\ e.kind = "gone"
  BY <1>1, EntryType DEF Kinds, Events, Entry
<1> HIDE DEF e, stays
<1>3. hist' = [x \in FD |-> IF stays(x) THEN hist[x] ELSE Append(hist[x], e)]
  BY DEF EndIteration, e, stays
<1>4. hist' \in [FD -> Seq(Entries)] BY <1>1, <1>2, <1>3
<1>5. ASSUME NEW x \in FD, NEW n \in DOMAIN hist'[x], hist'[x][n].kind = "sample"
      PROVE  hist'[x][n].s \in Samples
  <2>1. CASE stays(x) BY <1>3, <1>5, <2>1 DEF TypeOK
  <2>2. CASE ~stays(x)
    <3>1. hist'[x] = Append(hist[x], e) BY <1>3, <2>2
    <3>2. CASE n = Len(hist[x]) + 1 BY <1>1, <1>2, <1>5, <3>1, <3>2
    <3>3. CASE n \in DOMAIN hist[x] BY <1>1, <1>5, <3>1, <3>3 DEF TypeOK
    <3>4. QED BY <1>1, <3>1, <3>2, <3>3
  <2>3. QED BY <2>1, <2>2
<1>6. QED BY <1>4, <1>5 DEF TypeOK, EndIteration, env, loop

\* Every step keeps the types.
LEMMA TypeInductive == TypeOK /\ [Next]_vars => TypeOK'
<1> SUFFICES ASSUME TypeOK, [Next]_vars PROVE TypeOK' OBVIOUS
<1>1. CASE Tick
  BY <1>1, WatchAssumption DEF TypeOK, Tick, loop, maps, history
<1>2. CASE Cancel BY <1>2 DEF TypeOK, Cancel, loop, maps, history
<1>3. CASE TopReturns
  BY <1>3 DEF TypeOK, TopReturns, Return, env, loop, maps, history
<1>4. CASE BeginIteration
  <2>1. clock \in Nat /\ now' = clock /\ clock' = clock
    BY <1>4, WatchAssumption DEF TypeOK, BeginIteration, env
  <2>2. vhosts' \subseteq FD /\ todo' = vhosts' /\ lastInventory' \in Times
    BY <1>4, <2>1 DEF TypeOK, BeginIteration, Times
  <2>3. row = None /\ row' = None /\ pc' = "queue" BY <1>4 DEF TypeOK, BeginIteration
  <2>4. QED
    BY <1>4, <2>1, <2>2, <2>3 DEF TypeOK, BeginIteration, env, maps, history
<1>5. ASSUME NEW fd \in FD, ReadFails(fd) PROVE TypeOK'
  <2>1. DetectorOf(fd) \in Detectors BY NewDetectorType DEF DetectorOf, TypeOK
  <2>2. states[fd] \in Detectors \cup {None} BY DEF TypeOK
  <2>3. snapshots' \in [FD -> Identity \cup {NoIdentity}] BY <1>5 DEF ReadFails, TypeOK
  <2>4. QED BY <1>5, <2>1, <2>2, <2>3, UnavailableType DEF ReadFails
<1>6. ASSUME NEW fd \in FD, NEW s \in Samples, NEW replaced \in BOOLEAN,
             ReadQueue(fd, s, replaced)
      PROVE  TypeOK'
  BY <1>6, ReadQueueType
<1>7. CASE RekickFails
  <2>1. row.fd \in FD /\ states[row.fd] \in Detectors \cup {None}
    BY <1>7 DEF TypeOK, RekickFails, Rows
  <2>2. snapshots' \in [FD -> Identity \cup {NoIdentity}] BY <1>7 DEF RekickFails, TypeOK
  <2>3. QED BY <1>7, <2>1, <2>2, UnavailableType DEF RekickFails
<1>8. CASE RekickWrites BY <1>8, RekickWritesType
<1>9. CASE EndIteration BY <1>9, EndIterationType
<1>10. CASE Wait BY <1>10 DEF TypeOK, Wait, env, loop, maps, history
<1>11. CASE Restart
  BY <1>11, WatchAssumption DEF TypeOK, Restart, Times
<1>12. CASE UNCHANGED vars
  BY <1>12 DEF TypeOK, vars, env, loop, maps, history
<1>13. QED
  BY <1>1, <1>2, <1>3, <1>4, <1>5, <1>6, <1>7, <1>8, <1>9, <1>10, <1>11, <1>12 DEF Next

\* Every variable of the loop keeps its type, decided kicks stay on record
\* while they are carried out, and no time is from the future.
THEOREM TypeCorrect == Spec => []TypeOK
<1>1. ASSUME Init PROVE TypeOK
  <2>1. /\ clock \in 0 .. MaxClock /\ now \in 0 .. clock /\ runs \in 0 .. MaxRuns
        /\ lastInventory \in Times
    BY <1>1, WatchAssumption DEF Init, Times
  <2>2. hist \in [FD -> Seq(Entries)] /\ \A fd \in FD : DOMAIN hist[fd] = {}
    BY <1>1 DEF Init
  <2>3. QED BY <1>1, <2>1, <2>2 DEF Init, TypeOK
<1>2. QED BY <1>1, TypeInductive, PTL DEF Spec

-----------------------------------------------------------------------------
(* The budget of guarded kicks. *)

\* What a detector knows of the kicks ks of its queue: those it has dropped
\* are an Hour old, and none is later than its last.
Account(d, ks) ==
  /\ IsFiniteSet(ks) /\ IsFiniteSet(d.attempts) /\ d.attempts \subseteq TimesOf(ks)
  /\ \A k \in ks : k.t <= now /\ (k.t \in d.attempts \/ now - k.t >= Hour)
  /\ ks # {} => d.lastKick \in Nat /\ \A k \in ks : k.t <= d.lastKick

\* The part of BudgetHolds in the loop's times.
TimesHold == \A fd \in FD : WithinBudget(TimesOf(kicks[fd]))

\* TimesHold is not inductive: the budget is decided on the detector's own
\* records, pruned and kept apart from the history, and at an earlier step
\* than the kick is written.
BudgetInv ==
  /\ Mode # "guarded" => \A fd \in FD : kicks[fd] = {}
  /\ \A fd \in FD : IF states[fd] = None THEN kicks[fd] = {}
                                         ELSE Account(states[fd], kicks[fd])
  /\ pc = "recover" /\ Mode = "guarded" => Allowed(states[row.fd], now)
  /\ TimesHold

\* One more kick fits a budget when Cooldown has passed since every other and
\* all but fewer than Maximum of them are an Hour old.
LEMMA OneMoreKick ==
  ASSUME NEW times \in SUBSET Nat, NEW kept \in SUBSET times, NEW t \in Nat,
         WithinBudget(times),
         IsFiniteSet(kept), Cardinality(kept) < Maximum,
         \A j \in times : t - j >= Cooldown,
         \A j \in times \ kept : t - j >= Hour
  PROVE  WithinBudget(times \cup {t})
<1> USE DetectorAssumption
<1> SUFFICES ASSUME NEW k \in times \cup {t}
             PROVE  /\ Cardinality({j \in times \cup {t} : j <= k /\ k - j < Hour}) <= Maximum
                    /\ \A j \in times \cup {t} : j < k => k - j >= Cooldown
  BY DEF WithinBudget
<1>1. CASE k = t
  <2> DEFINE recent == {j \in times \cup {t} : j <= k /\ k - j < Hour}
  <2>1. ASSUME NEW j \in recent, j # t PROVE j \in kept
    <3>1. j \in times /\ t - j < Hour BY <1>1, <2>1
    <3>2. j \in Nat BY <3>1
    <3>3. QED BY <3>1, <3>2
  <2>2. IsFiniteSet(kept \cup {t}) /\ Cardinality(kept \cup {t}) <= Cardinality(kept) + 1
    <3>1. Cardinality(kept) \in Nat BY FS_CardinalityType
    <3>2. /\ IsFiniteSet(kept \cup {t})
          /\ Cardinality(kept \cup {t}) =
               IF t \in kept THEN Cardinality(kept) ELSE Cardinality(kept) + 1
      BY FS_AddElement
    <3>3. QED BY <3>1, <3>2
  <2>3. Cardinality(recent) <= Cardinality(kept \cup {t}) /\ Cardinality(recent) \in Nat
    <3>1. recent \in SUBSET (kept \cup {t}) BY <2>1
    <3> HIDE DEF recent
    <3>2. IsFiniteSet(recent) /\ Cardinality(recent) <= Cardinality(kept \cup {t})
      BY <2>2, <3>1, FS_Subset
    <3>3. QED BY <3>2, FS_CardinalityType
  <2>4. Cardinality(kept) \in Nat /\ Cardinality(kept \cup {t}) \in Nat
    BY <2>2, FS_CardinalityType
  <2>5. Cardinality(recent) <= Maximum BY <2>2, <2>3, <2>4
  <2>6. QED BY <1>1, <2>5
<1>2. CASE k \in times
  <2>1. t - k >= Cooldown BY <1>2
  <2>2. ~(t <= k) BY <1>2, <2>1
  <2>3. {j \in times \cup {t} : j <= k /\ k - j < Hour} = {j \in times : j <= k /\ k - j < Hour}
    BY <2>2
  <2>4. QED BY <1>2, <2>2, <2>3 DEF WithinBudget
<1>3. QED BY <1>1, <1>2

\* Observing, reporting and interrupting leave the budget of a detector alone.
LEMMA BudgetFields ==
  ASSUME NEW d \in Detectors, NEW s, NEW t, NEW b
  PROVE  /\ Observe(d, s, t).attempts = d.attempts
         /\ Observe(d, s, t).lastKick = d.lastKick
         /\ [Observe(d, s, t) EXCEPT !.reported = b].attempts = d.attempts
         /\ [Observe(d, s, t) EXCEPT !.reported = b].lastKick = d.lastKick
         /\ Interrupt(d, t).attempts = d.attempts
         /\ Interrupt(d, t).lastKick = d.lastKick
  BY DEF Observe, Interrupt, Detectors

\* Prune changes nothing but the attempts.
LEMMA PruneFields ==
  ASSUME NEW d \in Detectors, NEW t
  PROVE  /\ Prune(d, t).attempts = {x \in d.attempts : t - x < Hour}
         /\ Prune(d, t).lastKick = d.lastKick
  BY DEF Prune, Detectors

\* Kicked adds the time to the attempts and makes it the last kick.
LEMMA KickedFields ==
  ASSUME NEW d \in Detectors, NEW t
  PROVE  Kicked(d, t).attempts = d.attempts \cup {t} /\ Kicked(d, t).lastKick = t
  BY DEF Kicked, Detectors

\* The account of a budget depends on two fields of the detector.
LEMMA AccountKept ==
  ASSUME NEW d, NEW e, NEW ks, Account(d, ks), e.attempts = d.attempts,
         e.lastKick = d.lastKick
  PROVE  Account(e, ks)
  BY DEF Account

\* Forgetting attempts older than Hour leaves the account right.
LEMMA AccountPruned ==
  ASSUME NEW d \in Detectors, NEW ks \in SUBSET Attempts, Account(d, ks), now \in Nat
  PROVE  Account(Prune(d, now), ks)
<1>1. Prune(d, now).attempts \subseteq d.attempts BY PruneFields
<1>2. IsFiniteSet(Prune(d, now).attempts) BY <1>1, FS_Subset DEF Account
<1>3. \A k \in ks : k.t \in Prune(d, now).attempts \/ now - k.t >= Hour
  BY PruneFields, DetectorAssumption DEF Account, Attempts
<1>4. QED BY <1>1, <1>2, <1>3, PruneFields DEF Account

\* A new detector is the account of no kicks.
LEMMA AccountOfNew == Account(NewDetector, {})
  BY FS_EmptySet DEF Account, NewDetector, TimesOf

\* The error path of a visit keeps the account of every queue.
LEMMA UnavailableBudget ==
  ASSUME TypeOK, BudgetInv, NEW fd \in FD, NEW d \in Detectors \cup {None},
         d = states[fd] \/ (states[fd] = None /\ d = NewDetector),
         Unavailable(fd, d)
  PROVE  BudgetInv'
<1>1. /\ states' = [states EXCEPT ![fd] = IF d = None THEN None ELSE Interrupt(d, now)]
      /\ kicks' = kicks /\ now' = now /\ pc' # "recover"
  BY DEF Unavailable
<1>2. states \in [FD -> Detectors \cup {None}] BY DEF TypeOK
<1>3. ASSUME NEW x \in FD
      PROVE  IF states'[x] = None THEN kicks[x] = {} ELSE Account(states'[x], kicks[x])
  <2>1. CASE x # fd BY <1>1, <1>2, <2>1 DEF BudgetInv
  <2>2. CASE x = fd /\ d = None
    BY <1>1, <1>2, <2>2, WatchAssumption, NewDetectorType DEF BudgetInv
  <2>3. CASE x = fd /\ d # None
    <3>1. Account(d, kicks[x]) BY <2>3, AccountOfNew DEF BudgetInv
    <3>2. Account(Interrupt(d, now), kicks[x]) BY <2>3, <3>1, BudgetFields, AccountKept
    <3>3. Interrupt(d, now) # None
      <4>1. now \in Nat BY WatchAssumption DEF TypeOK
      <4>2. QED BY <2>3, <4>1, DetectorTypes, WatchAssumption
    <3>4. QED BY <1>1, <1>2, <2>3, <3>2, <3>3
  <2>4. QED BY <2>1, <2>2, <2>3
<1>4. TimesHold' BY <1>1 DEF BudgetInv, TimesHold, WithinBudget, TimesOf
<1>5. \A x \in FD : IF states'[x] = None THEN kicks'[x] = {} ELSE Account(states[x],
                                                                          kicks[x])'
  BY <1>1, <1>3 DEF Account
<1>6. QED BY <1>1, <1>4, <1>5 DEF BudgetInv

\* A visit keeps the accounts, and a kick it decides is affordable.
LEMMA ReadQueueBudget ==
  ASSUME TypeOK, BudgetInv, NEW fd \in FD, NEW s \in Samples, NEW replaced \in BOOLEAN,
         ReadQueue(fd, s, replaced)
  PROVE  BudgetInv'
<1> DEFINE d0 == Observe(DetectorOf(fd), s, now)
           stalled == Stalled(d0, s, now)
           d1 == [d0 EXCEPT !.reported = @ \/ stalled]
           d2 == IF Mode = "guarded" /\ stalled THEN Prune(d1, now) ELSE d1
<1>1. now \in Nat /\ states \in [FD -> Detectors \cup {None}] /\ kicks[fd] \in SUBSET Attempts
  BY WatchAssumption DEF TypeOK
<1>2. DetectorOf(fd) \in Detectors /\ Account(DetectorOf(fd), kicks[fd])
  BY NewDetectorType, AccountOfNew DEF DetectorOf, TypeOK, BudgetInv
<1>3. d1 \in Detectors
  <2>1. d0 \in Detectors BY <1>1, <1>2, ObserveType
  <2>2. (d0.reported \/ stalled) \in BOOLEAN OBVIOUS
  <2>3. QED BY <1>1, <2>1, <2>2, DetectorTypes
<1>4. Account(d1, kicks[fd])
  <2>1. d1.attempts = DetectorOf(fd).attempts /\ d1.lastKick = DetectorOf(fd).lastKick
    BY <1>2, BudgetFields
  <2> HIDE DEF d1
  <2>2. QED BY <1>2, <2>1, AccountKept
<1>5. d2 \in Detectors /\ Account(d2, kicks[fd])
  <2> HIDE DEF d1, stalled
  <2>1. QED BY <1>1, <1>3, <1>4, AccountPruned, DetectorTypes
<1> HIDE DEF d0, d1, d2, stalled
<1>6. /\ states' = [states EXCEPT ![fd] = d2]
      /\ kicks' = kicks /\ now' = now
      /\ pc' = "recover" => Wanted(d2, stalled) /\ row'.fd = fd
  BY DEF ReadQueue, Turn, loop, d0, d1, d2, stalled
<1>7. \A x \in FD : IF states'[x] = None THEN kicks'[x] = {} ELSE Account(states[x],
                                                                          kicks[x])'
  <2>1. ASSUME NEW x \in FD
        PROVE  IF states'[x] = None THEN kicks[x] = {} ELSE Account(states'[x], kicks[x])
    BY <1>1, <1>5, <1>6, WatchAssumption DEF BudgetInv
  <2>2. QED BY <1>6, <2>1 DEF Account
<1>8. pc' = "recover" /\ Mode = "guarded" => Allowed(states'[row'.fd], now')
  BY <1>1, <1>6 DEF Wanted
<1>9. TimesHold' BY <1>6 DEF BudgetInv, TimesHold, WithinBudget, TimesOf
<1>10. (pc = "recover" /\ Mode = "guarded" => Allowed(states[row.fd], now))'
  BY <1>8 DEF Allowed, Elapsed
<1>11. QED BY <1>6, <1>7, <1>9, <1>10 DEF BudgetInv

\* One more attempt adds its time.
LEMMA TimesOfOneMore ==
  ASSUME NEW ks, NEW t, NEW at
  PROVE  TimesOf(ks \cup {[t |-> t, at |-> at]}) = TimesOf(ks) \cup {t}
<1> DEFINE k == [t |-> t, at |-> at]
<1>1. k.t = t OBVIOUS
<1> HIDE DEF k
<1>2. TimesOf(ks \cup {k}) = TimesOf(ks) \cup {t} BY <1>1 DEF TimesOf
<1>3. QED BY <1>2 DEF k

\* A guarded kick that was decided stays within the budget.
LEMMA RekickWritesBudget ==
  ASSUME TypeOK, BudgetInv, RekickWrites PROVE BudgetInv'
<1> DEFINE fd == row.fd
           d == states[fd]
           k == [t |-> now, at |-> clock]
           ts == TimesOf(kicks[fd])
<1>1. now \in Nat /\ states \in [FD -> Detectors \cup {None}] /\ kicks \in [FD -> SUBSET Attempts]
  BY WatchAssumption DEF TypeOK
<1>2. fd \in FD /\ d \in Detectors /\ d # None BY DEF TypeOK, RekickWrites, Rows
<1>3. now' = now /\ pc' # "recover" BY DEF RekickWrites, loop
<1>4. Account(d, kicks[fd]) BY <1>2 DEF BudgetInv
<1>5. CASE Mode = "guarded"
  <2>1. /\ states' = [states EXCEPT ![fd] = Kicked(d, now)]
        /\ kicks' = [kicks EXCEPT ![fd] = @ \cup {k}]
    BY <1>5 DEF RekickWrites
  <2>2. Allowed(d, now) BY <1>5 DEF BudgetInv, RekickWrites
  <2>3. IsFiniteSet(d.attempts) /\ Cardinality(d.attempts) < Maximum
    BY <1>4, <2>2 DEF Allowed, Account
  <2>4. \A j \in kicks[fd] : j.t \in Nat /\ now - j.t >= Cooldown
    BY <1>1, <1>2, <1>4, <2>2, DetectorAssumption
       DEF Allowed, Elapsed, Account, Attempts
  <2>5. WithinBudget(TimesOf(kicks[fd] \cup {k}))
    <3>1. TimesOf(kicks[fd] \cup {k}) = ts \cup {now} BY TimesOfOneMore
    <3>2. ts \in SUBSET Nat /\ \A t \in ts : now - t >= Cooldown BY <2>4 DEF TimesOf
    <3>3. d.attempts \in SUBSET ts /\ \A t \in ts \ d.attempts : now - t >= Hour
      BY <1>4 DEF Account, TimesOf
    <3>4. WithinBudget(ts) BY <1>2 DEF BudgetInv, TimesHold
    <3> HIDE DEF ts
    <3>5. WithinBudget(ts \cup {now})
      BY <1>1, <2>3, <3>2, <3>3, <3>4, OneMoreKick
    <3>6. QED BY <3>1, <3>5
  <2>6. Account(Kicked(d, now), kicks[fd] \cup {k})
    <3>1. /\ Kicked(d, now).attempts = d.attempts \cup {now}
          /\ Kicked(d, now).lastKick = now
      BY <1>2, KickedFields
    <3>2. IsFiniteSet(d.attempts \cup {now}) BY <2>3, FS_AddElement
    <3>3. IsFiniteSet(kicks[fd] \cup {k}) BY <1>4, FS_AddElement DEF Account
    <3>4. TimesOf(kicks[fd] \cup {k}) = ts \cup {now} BY TimesOfOneMore
    <3>5. d.attempts \cup {now} \subseteq TimesOf(kicks[fd] \cup {k})
      BY <1>4, <3>4 DEF Account
    <3>6. \A j \in kicks[fd] \cup {k} :
            j.t <= now /\ (j.t \in d.attempts \cup {now} \/ now - j.t >= Hour)
      BY <1>1, <1>4 DEF Account
    <3> HIDE DEF k, ts
    <3>7. QED BY <1>1, <3>1, <3>2, <3>3, <3>5, <3>6 DEF Account
  <2>7. Kicked(d, now) # None BY <1>1, <1>2, DetectorTypes, WatchAssumption
  <2>8. ASSUME NEW x \in FD
        PROVE  /\ IF states'[x] = None THEN kicks'[x] = {} ELSE Account(states'[x], kicks'[x])
               /\ WithinBudget(TimesOf(kicks'[x]))
    <3>1. CASE x = fd BY <1>1, <2>1, <2>5, <2>6, <2>7, <3>1
    <3>2. CASE x # fd BY <1>1, <2>1, <3>2 DEF BudgetInv, TimesHold
    <3>3. QED BY <3>1, <3>2
  <2>9. \A x \in FD : IF states'[x] = None THEN kicks'[x] = {} ELSE Account(states[x],
                                                                            kicks[x])'
    BY <1>3, <2>8 DEF Account
  <2>10. TimesHold' BY <2>8 DEF TimesHold, WithinBudget, TimesOf
  <2>11. QED BY <1>3, <1>5, <2>9, <2>10 DEF BudgetInv
<1>6. CASE Mode # "guarded"
  <2>1. kicks' = kicks /\ states' = [states EXCEPT ![fd] = [d EXCEPT !.lastKick = now]]
    BY <1>6 DEF RekickWrites
  <2>2. kicks[fd] = {} BY <1>2, <1>6 DEF BudgetInv
  <2>3. Account([d EXCEPT !.lastKick = now], {})
    <3>1. [d EXCEPT !.lastKick = now].attempts = d.attempts BY <1>2 DEF Detectors
    <3>2. QED BY <1>4, <2>2, <3>1 DEF Account
  <2>4. [d EXCEPT !.lastKick = now] # None BY <1>1, <1>2, DetectorTypes, WatchAssumption
  <2>5. ASSUME NEW x \in FD
        PROVE  IF states'[x] = None THEN kicks[x] = {} ELSE Account(states'[x], kicks[x])
    BY <1>1, <2>1, <2>2, <2>3, <2>4 DEF BudgetInv
  <2>6. \A x \in FD : IF states'[x] = None THEN kicks'[x] = {} ELSE Account(states[x],
                                                                            kicks[x])'
    BY <1>3, <2>1, <2>5 DEF Account
  <2>7. TimesHold' BY <2>1 DEF BudgetInv, TimesHold, WithinBudget, TimesOf
  <2>8. QED BY <1>3, <1>6, <2>1, <2>6, <2>7 DEF BudgetInv
<1>7. QED BY <1>5, <1>6

\* Time that passes makes no kick younger.
LEMMA AccountLater ==
  ASSUME NEW d, NEW ks \in SUBSET Attempts, Account(d, ks), now \in Nat,
         NEW later \in Nat, now <= later
  PROVE  \A k \in ks : k.t <= later /\ (k.t \in d.attempts \/ later - k.t >= Hour)
  BY DetectorAssumption DEF Account, Attempts

\* Every step keeps the accounts.
LEMMA BudgetInductive == TypeOK /\ BudgetInv /\ [Next]_vars => BudgetInv'
<1> SUFFICES ASSUME TypeOK, BudgetInv, [Next]_vars PROVE BudgetInv' OBVIOUS
<1> DEFINE Idle == /\ UNCHANGED <<states, kicks, now>>
                   /\ pc' # "recover" \/ UNCHANGED <<pc, row>>
<1>1. ASSUME Idle PROVE BudgetInv'
  BY <1>1 DEF BudgetInv, TimesHold, WithinBudget, TimesOf, Account, Allowed, Elapsed
<1>2. CASE Tick BY <1>1, <1>2 DEF Tick, loop, maps, history
<1>3. CASE Cancel BY <1>1, <1>3 DEF Cancel, loop, maps, history
<1>4. CASE TopReturns BY <1>1, <1>4 DEF TopReturns, Return, loop, maps, history
<1>5. CASE BeginIteration
  <2>1. states' = states /\ kicks' = kicks /\ pc' # "recover" /\ now' = clock
    BY <1>5 DEF BeginIteration, maps, history
  <2>2. now \in Nat /\ now' \in Nat /\ now <= now'
    BY <2>1, WatchAssumption DEF TypeOK
  <2>3. ASSUME NEW x \in FD
        PROVE  (IF states[x] = None THEN kicks[x] = {} ELSE Account(states[x], kicks[x]))'
    <3>1. CASE states[x] = None BY <2>1, <3>1 DEF BudgetInv
    <3>2. CASE states[x] # None
      <4>1. kicks[x] \in SUBSET Attempts BY DEF TypeOK
      <4>2. Account(states[x], kicks[x]) BY <3>2 DEF BudgetInv
      <4>3. \A k \in kicks[x] : /\ k.t <= now'
                                /\ k.t \in states[x].attempts \/ now' - k.t >= Hour
        BY <2>2, <4>1, <4>2, AccountLater
      <4>4. QED BY <2>1, <3>2, <4>2, <4>3 DEF Account
    <3>3. QED BY <3>1, <3>2
  <2>4. TimesHold' BY <2>1 DEF BudgetInv, TimesHold, WithinBudget, TimesOf
  <2>5. QED BY <2>1, <2>3, <2>4 DEF BudgetInv
<1>6. ASSUME NEW fd \in FD, ReadFails(fd) PROVE BudgetInv'
  <2>1. DetectorOf(fd) \in Detectors /\ states[fd] \in Detectors \cup {None}
    BY NewDetectorType DEF DetectorOf, TypeOK
  <2>2. QED BY <1>6, <2>1, UnavailableBudget DEF ReadFails, DetectorOf
<1>7. ASSUME NEW fd \in FD, NEW s \in Samples, NEW replaced \in BOOLEAN,
             ReadQueue(fd, s, replaced)
      PROVE  BudgetInv'
  BY <1>7, ReadQueueBudget
<1>8. CASE RekickFails
  <2>1. row.fd \in FD /\ states[row.fd] \in Detectors \cup {None}
    BY <1>8 DEF TypeOK, RekickFails, Rows
  <2>2. QED BY <1>8, <2>1, UnavailableBudget DEF RekickFails
<1>9. CASE RekickWrites BY <1>9, RekickWritesBudget
<1>10. CASE EndIteration BY <1>1, <1>10 DEF EndIteration, loop
<1>11. CASE Wait BY <1>1, <1>11 DEF Wait, loop, maps, history
<1>12. CASE Restart
  <2>1. /\ states' = [fd \in FD |-> None] /\ kicks' = [fd \in FD |-> {}]
        /\ pc' # "recover"
    BY <1>12 DEF Restart
  <2>2. TimesHold' BY <2>1 DEF TimesHold, WithinBudget, TimesOf
  <2>3. QED BY <2>1, <2>2 DEF BudgetInv
<1>13. CASE UNCHANGED vars BY <1>1, <1>13 DEF vars, loop, maps, history
<1>14. QED
  BY <1>2, <1>3, <1>4, <1>5, <1>6, <1>7, <1>8, <1>9, <1>10, <1>11, <1>12, <1>13 DEF Next

\* When the attempts ks were written, against the times the loop gave them:
\* an attempt is written in the iteration that decided it, hence before the
\* time of any later attempt is read.
Timely(ks) ==
  /\ IsFiniteSet(ks)
  /\ \A k \in ks : /\ k.t <= k.at /\ k.at <= clock /\ k.t <= now
                   /\ k.t < now => k.at <= now
  /\ \A j, k \in ks : /\ j.t < k.t => j.at <= k.t
                      /\ j.t = k.t => j = k

\* What the real times of BudgetHolds rest on.
DelayInv == \A fd \in FD : Timely(kicks[fd])

\* No step that leaves the attempts alone disturbs them: time only advances.
LEMMA DelayKept ==
  ASSUME TypeOK, DelayInv, kicks' = kicks, clock' \in Nat, clock <= clock',
         now' = now \/ (now' = clock /\ clock' = clock)
  PROVE  DelayInv'
<1>1. SUFFICES ASSUME NEW fd \in FD PROVE Timely(kicks[fd])'
  BY DEF DelayInv
<1>2. kicks[fd] \subseteq Attempts /\ Timely(kicks[fd]) BY DEF TypeOK, DelayInv
<1>3. clock \in Nat /\ now \in Nat /\ now <= clock BY WatchAssumption DEF TypeOK
<1>4. ASSUME NEW k \in kicks[fd]
      PROVE  k.t <= k.at /\ k.at <= clock' /\ k.t <= now' /\ (k.t < now' => k.at <= now')
  BY <1>2, <1>3 DEF Timely, Attempts
<1>5. QED BY <1>2, <1>4 DEF Timely

\* A new attempt is written after every earlier one, whose time is another.
LEMMA RekickWritesDelay ==
  ASSUME TypeOK, BudgetInv, DelayInv, RekickWrites PROVE DelayInv'
<1> DEFINE fd == row.fd
           d == states[fd]
           new == [t |-> now, at |-> clock]
<1>1. /\ clock \in Nat /\ now \in Nat /\ now <= clock
      /\ kicks \in [FD -> SUBSET Attempts] /\ clock' = clock /\ now' = now
  BY WatchAssumption DEF TypeOK, RekickWrites, env, loop
<1>2. CASE Mode # "guarded" BY <1>1, <1>2, DelayKept DEF RekickWrites
<1>3. CASE Mode = "guarded"
  <2>1. fd \in FD /\ d \in Detectors /\ d # None BY DEF TypeOK, RekickWrites, Rows
  <2>2. Allowed(d, now) /\ Account(d, kicks[fd])
    BY <1>3, <2>1 DEF BudgetInv, RekickWrites
  <2>3. ASSUME NEW j \in kicks[fd] PROVE j \in Attempts /\ j.t < now
    BY <1>1, <2>1, <2>2, DetectorAssumption DEF Allowed, Elapsed, Account, Attempts
  <2>4. kicks' = [kicks EXCEPT ![fd] = @ \cup {new}] BY <1>3 DEF RekickWrites
  <2>5. new.t = now /\ new.at = clock OBVIOUS
  <2> HIDE DEF new, fd
  <2>6. Timely(kicks[fd]) BY <2>1 DEF DelayInv
  <2> DEFINE ks == kicks[fd] \cup {new}
  <2>7. IsFiniteSet(ks) BY <2>6, FS_AddElement DEF Timely
  <2>8. \A k \in ks : k.t <= k.at /\ k.at <= clock /\ k.t <= now /\ (k.t < now => k.at <= now)
    BY <1>1, <2>5, <2>6 DEF Timely
  <2>9. ASSUME NEW j \in ks, NEW k \in ks
        PROVE  (j.t < k.t => j.at <= k.t) /\ (j.t = k.t => j = k)
    <3>1. CASE j \in kicks[fd] /\ k \in kicks[fd] BY <2>6, <3>1 DEF Timely
    <3>2. CASE j \in kicks[fd] /\ k = new
      BY <1>1, <2>3, <2>5, <2>6, <3>2 DEF Timely
    <3>3. CASE j = new /\ k \in kicks[fd]
      <4>1. k.t \in Nat /\ k.t < now BY <2>3, <3>3 DEF Attempts
      <4>2. QED BY <1>1, <2>5, <3>3, <4>1
    <3>4. CASE j = new /\ k = new BY <1>1, <2>5, <3>4
    <3>5. QED BY <3>1, <3>2, <3>3, <3>4
  <2> HIDE DEF ks
  <2>10. Timely(ks) BY <2>7, <2>8, <2>9 DEF Timely
  <2>11. ASSUME NEW x \in FD PROVE Timely(kicks'[x])
    <3>1. CASE x = fd BY <1>1, <2>4, <2>10, <3>1 DEF ks
    <3>2. CASE x # fd BY <1>1, <2>4, <3>2 DEF DelayInv
    <3>3. QED BY <3>1, <3>2
  <2>12. QED BY <1>1, <2>11 DEF DelayInv, Timely
<1>4. QED BY <1>2, <1>3

\* Every step keeps the order of the attempts.
LEMMA DelayInductive == TypeOK /\ BudgetInv /\ DelayInv /\ [Next]_vars => DelayInv'
<1> SUFFICES ASSUME TypeOK, BudgetInv, DelayInv, [Next]_vars PROVE DelayInv' OBVIOUS
<1>1. clock \in Nat BY WatchAssumption DEF TypeOK
<1>2. CASE Tick BY <1>1, <1>2, DelayKept DEF Tick, loop, history
<1>3. CASE Cancel BY <1>1, <1>3, DelayKept DEF Cancel, loop, history
<1>4. CASE TopReturns BY <1>1, <1>4, DelayKept DEF TopReturns, Return, env, loop, history
<1>5. CASE BeginIteration BY <1>1, <1>5, DelayKept DEF BeginIteration, env, history
<1>6. ASSUME NEW fd \in FD, ReadFails(fd) PROVE DelayInv'
  <2>1. kicks' = kicks /\ clock' = clock /\ now' = now
    BY <1>6 DEF ReadFails, Unavailable, env
  <2>2. QED BY <1>1, <2>1, DelayKept
<1>7. ASSUME NEW fd \in FD, NEW s \in Samples, NEW replaced \in BOOLEAN,
             ReadQueue(fd, s, replaced)
      PROVE  DelayInv'
  BY <1>1, <1>7, DelayKept DEF ReadQueue, env, loop
<1>8. CASE RekickFails BY <1>1, <1>8, DelayKept DEF RekickFails, Unavailable, env
<1>9. CASE RekickWrites BY <1>9, RekickWritesDelay
<1>10. CASE EndIteration BY <1>1, <1>10, DelayKept DEF EndIteration, env, loop
<1>11. CASE Wait BY <1>1, <1>11, DelayKept DEF Wait, env, loop, history
<1>12. CASE Restart
  <2>1. kicks' = [fd \in FD |-> {}] BY <1>12 DEF Restart
  <2>2. QED BY <2>1, FS_EmptySet DEF DelayInv, Timely
<1>13. CASE UNCHANGED vars BY <1>1, <1>13, DelayKept DEF vars, env, loop, history
<1>14. QED
  BY <1>2, <1>3, <1>4, <1>5, <1>6, <1>7, <1>8, <1>9, <1>10, <1>11, <1>12, <1>13 DEF Next

\* Of two attempts that were an Hour old for the loop when k was decided, the
\* earlier was really written an Hour before k.
LEMMA OneLateWrite ==
  ASSUME NEW ks \in SUBSET Attempts, Timely(ks), WithinBudget(TimesOf(ks)), NEW k \in ks
  PROVE  Cardinality(WrittenWithinHour(ks, k)) <= Maximum + 1
<1> USE DetectorAssumption
<1> DEFINE W == WrittenWithinHour(ks, k)
           A == {j \in W : k.t - j.t < Hour}
           T == {t \in TimesOf(ks) : t <= k.t /\ k.t - t < Hour}
           f == [j \in A |-> j.t]
<1>1. k.t \in Nat /\ k.at \in Nat /\ k.t <= k.at BY DEF Attempts, Timely
<1>2. W \in SUBSET ks /\ A \in SUBSET ks BY DEF WrittenWithinHour
<1>3. IsFiniteSet(W) /\ IsFiniteSet(A) BY <1>2, FS_Subset DEF Timely
<1>4. Cardinality(A) \in Nat /\ Cardinality(A) <= Maximum
  <2>1. k.t \in TimesOf(ks) BY DEF TimesOf
  <2>2. Cardinality(T) <= Maximum BY <2>1 DEF WithinBudget
  <2>3. f \in Injection(A, T)
    <3>1. \A j \in A : j.t \in T BY DEF WrittenWithinHour, TimesOf
    <3>2. \A i, j \in A : i.t = j.t => i = j BY <1>2 DEF Timely
    <3> HIDE DEF A, T
    <3>3. QED BY <3>1, <3>2 DEF Injection, IsInjective
  <2>4. IsFiniteSet(T)
    <3>1. [j \in ks |-> j.t] \in Surjection(ks, TimesOf(ks)) BY DEF Surjection, TimesOf
    <3>2. IsFiniteSet(TimesOf(ks)) BY <3>1, FS_Surjection DEF Timely
    <3>3. T \in SUBSET TimesOf(ks) OBVIOUS
    <3>4. QED BY <3>2, <3>3, FS_Subset
  <2> HIDE DEF A, T, f
  <2>5. Cardinality(A) <= Cardinality(T) BY <2>3, <2>4, FS_Injection
  <2>6. QED BY <1>3, <2>2, <2>4, <2>5, FS_CardinalityType
<1>5. ASSUME NEW i \in W \ A, NEW j \in W \ A PROVE i = j
  <2>1. /\ i \in ks /\ j \in ks /\ i \in Attempts /\ j \in Attempts
        /\ k.at - i.at < Hour /\ k.at - j.at < Hour
        /\ k.t - i.t >= Hour /\ k.t - j.t >= Hour
    BY <1>1 DEF WrittenWithinHour, Attempts
  <2>2. i.t \in Nat /\ j.t \in Nat /\ i.at \in Nat /\ j.at \in Nat BY <2>1 DEF Attempts
  <2>3. ~(i.t < j.t)
    <3>1. SUFFICES ASSUME i.t < j.t PROVE FALSE OBVIOUS
    <3>2. i.at <= j.t BY <2>1, <3>1 DEF Timely
    <3>3. QED BY <1>1, <2>1, <2>2, <3>2
  <2>4. ~(j.t < i.t)
    <3>1. SUFFICES ASSUME j.t < i.t PROVE FALSE OBVIOUS
    <3>2. j.at <= i.t BY <2>1, <3>1 DEF Timely
    <3>3. QED BY <1>1, <2>1, <2>2, <3>2
  <2>5. i.t = j.t BY <2>2, <2>3, <2>4
  <2>6. QED BY <2>1, <2>5 DEF Timely
<1>6. CASE W = A
  <2> HIDE DEF W, A
  <2>1. Cardinality(W) <= Maximum + 1 BY <1>4, <1>6
  <2>2. QED BY <2>1 DEF W
<1>7. CASE W # A
  <2>1. PICK i \in W : i \notin A BY <1>7
  <2>2. W \in SUBSET (A \cup {i}) BY <1>5, <2>1
  <2> HIDE DEF W, A
  <2>3. /\ IsFiniteSet(A \cup {i})
        /\ Cardinality(A \cup {i}) = IF i \in A THEN Cardinality(A) ELSE Cardinality(A) + 1
    BY <1>3, FS_AddElement
  <2>4. Cardinality(W) <= Cardinality(A \cup {i}) BY <2>2, <2>3, FS_Subset
  <2>5. Cardinality(W) \in Nat BY <1>3, FS_CardinalityType
  <2>6. QED BY <1>4, <2>3, <2>4, <2>5 DEF W
<1>8. QED BY <1>6, <1>7

\* Within one run of the loop every queue stays in its budget: at most Maximum
\* guarded kicks in any Hour of the loop's times, any two of them Cooldown
\* apart, whatever the readings, errors and replacements in between; and time
\* that passes before a kick is written costs at most one kick an Hour.
THEOREM BudgetCorrect == Spec => []BudgetHolds
<1>1. ASSUME Init PROVE BudgetInv /\ DelayInv
  <2>1. \A fd \in FD : kicks[fd] = {} /\ states[fd] = None BY <1>1 DEF Init
  <2>2. TimesOf({}) = {} BY DEF TimesOf
  <2>3. WithinBudget({}) BY DEF WithinBudget
  <2>4. BudgetInv BY <1>1, <2>1, <2>2, <2>3 DEF Init, BudgetInv, TimesHold
  <2>5. DelayInv BY <2>1, FS_EmptySet DEF DelayInv, Timely
  <2>6. QED BY <2>4, <2>5
<1>2. ASSUME TypeOK, BudgetInv, DelayInv PROVE BudgetHolds
  <2>1. SUFFICES ASSUME NEW fd \in FD
                 PROVE  LET ks == kicks[fd] IN
                        /\ WithinBudget(TimesOf(ks))
                        /\ \A k \in ks : Cardinality(WrittenWithinHour(ks, k)) <= Maximum + 1
                        /\ \A j, k \in ks :
                             j.t < k.t => j.at <= k.at /\ k.at - j.t >= Cooldown
    BY DEF BudgetHolds
  <2>2. kicks[fd] \in SUBSET Attempts /\ Timely(kicks[fd]) BY <1>2 DEF TypeOK, DelayInv
  <2>3. WithinBudget(TimesOf(kicks[fd])) BY <1>2 DEF BudgetInv, TimesHold
  <2>4. ASSUME NEW j \in kicks[fd], NEW k \in kicks[fd], j.t < k.t
        PROVE  j.at <= k.at /\ k.at - j.t >= Cooldown
    <3>1. j.t \in TimesOf(kicks[fd]) /\ k.t \in TimesOf(kicks[fd]) BY DEF TimesOf
    <3>2. k.t - j.t >= Cooldown BY <2>3, <2>4, <3>1 DEF WithinBudget
    <3>3. j.at <= k.t /\ k.t <= k.at BY <2>2, <2>4 DEF Timely
    <3>4. QED BY <2>2, <3>2, <3>3, DetectorAssumption DEF Attempts
  <2>5. QED BY <2>2, <2>3, <2>4, OneLateWrite
<1>3. QED
  BY <1>1, <1>2, TypeCorrect, BudgetInductive, DelayInductive, PTL DEF Spec

-----------------------------------------------------------------------------
(* The age of a stall. *)

\* The age of d began at an entry of h after which nothing failed and every
\* sample was quiet and showed what d remembers.
Age(h, d) ==
  \E i \in 1 .. Len(h) :
    /\ h[i].t = d.since
    /\ \/ h[i].kind = "error"
       \/ h[i].kind = "sample" /\ Unmoved(h[i].s, d)
    /\ \A j \in i + 1 .. Len(h) :
         /\ h[j].kind # "error"
         /\ h[j].kind = "sample" => Quiet(h[j].s) /\ Unmoved(h[j].s, d)

\* StallIsEarned is about the past of a queue, the detector only has a time
\* and the last sample: AgeInv says what that time stands for.
AgeInv ==
  /\ \A fd \in FD : states[fd] # None /\ states[fd].have => Age(hist[fd], states[fd])
  /\ StallIsEarned

\* An entry at which d restarts its age.
LEMMA AgeRestarts ==
  ASSUME NEW h \in Seq(Entries), NEW e \in Entries, NEW d,
         e.t = d.since, e.kind = "error" \/ (e.kind = "sample" /\ Unmoved(e.s, d))
  PROVE  Age(Append(h, e), d)
<1> DEFINE g == Append(h, e)
           n == Len(h) + 1
<1>1. n \in 1 .. Len(g) /\ g[n] = e /\ n + 1 .. Len(g) = {} OBVIOUS
<1> HIDE DEF g, n
<1>2. Age(g, d) BY <1>1 DEF Age
<1>3. QED BY <1>2 DEF g

\* An entry that lets the age of d grow.
LEMMA AgeGrows ==
  ASSUME NEW h \in Seq(Entries), NEW e \in Entries, NEW d, NEW f, Age(h, d),
         f.since = d.since, Unmoved(f, d),
         e.kind # "error", e.kind = "sample" => Quiet(e.s) /\ Unmoved(e.s, d)
  PROVE  Age(Append(h, e), f)
<1> DEFINE g == Append(h, e)
<1>1. PICK i \in 1 .. Len(h) :
        /\ h[i].t = d.since
        /\ \/ h[i].kind = "error"
           \/ h[i].kind = "sample" /\ Unmoved(h[i].s, d)
        /\ \A j \in i + 1 .. Len(h) :
             /\ h[j].kind # "error"
             /\ h[j].kind = "sample" => Quiet(h[j].s) /\ Unmoved(h[j].s, d)
  BY DEF Age
<1>2. /\ Len(g) = Len(h) + 1 /\ g[Len(h) + 1] = e
      /\ \A j \in 1 .. Len(h) : g[j] = h[j]
  OBVIOUS
<1>3. Len(h) \in Nat OBVIOUS
<1> HIDE DEF g
<1>4. ASSUME NEW j \in i + 1 .. Len(g)
      PROVE  /\ g[j].kind # "error"
             /\ g[j].kind = "sample" => Quiet(g[j].s) /\ Unmoved(g[j].s, f)
  <2>1. CASE j = Len(h) + 1 BY <1>2, <2>1 DEF Unmoved
  <2>2. CASE j \in i + 1 .. Len(h) BY <1>1, <1>2, <1>3, <2>2 DEF Unmoved
  <2>3. QED BY <1>2, <1>3, <2>1, <2>2
<1>5. /\ i \in 1 .. Len(g) /\ g[i].t = f.since
      /\ \/ g[i].kind = "error"
         \/ g[i].kind = "sample" /\ Unmoved(g[i].s, f)
  BY <1>1, <1>2, <1>3 DEF Unmoved
<1>6. Age(g, f) BY <1>4, <1>5 DEF Age
<1>7. QED BY <1>6 DEF g

\* Appending an entry leaves the judgement of the earlier ones alone.
LEMMA EarnedAppend ==
  ASSUME NEW h \in Seq(Entries), NEW e \in Entries, Earned(h),
         e.kind = "sample" /\ e.stalled =>
           \E i \in 1 .. Len(h) : /\ Opens(Append(h, e), i, Len(h) + 1)
                                  /\ e.t - h[i].t >= Threshold
  PROVE  Earned(Append(h, e))
<1> DEFINE g == Append(h, e)
<1>1. /\ Len(g) = Len(h) + 1 /\ g[Len(h) + 1] = e /\ DOMAIN g = 1 .. Len(h) + 1
      /\ \A j \in 1 .. Len(h) : g[j] = h[j]
      /\ Len(h) \in Nat /\ DOMAIN h = 1 .. Len(h)
  OBVIOUS
<1>2. e.kind = "sample" /\ e.stalled =>
        \E i \in 1 .. Len(h) : Opens(g, i, Len(h) + 1) /\ e.t - h[i].t >= Threshold
  OBVIOUS
<1> HIDE DEF g
<1>3. ASSUME NEW n \in DOMAIN g, g[n].kind = "sample", g[n].stalled
      PROVE  \E i \in 1 .. n - 1 : Opens(g, i, n) /\ g[n].t - g[i].t >= Threshold
  <2>1. CASE n = Len(h) + 1 BY <1>1, <1>2, <1>3, <2>1
  <2>2. CASE n \in 1 .. Len(h)
    <3>1. PICK i \in 1 .. n - 1 : Opens(h, i, n) /\ h[n].t - h[i].t >= Threshold
      BY <1>1, <1>3, <2>2 DEF Earned
    <3>2. \A j \in i .. n : g[j] = h[j] BY <1>1, <2>2, <3>1
    <3>3. Opens(g, i, n) BY <1>1, <2>2, <3>1, <3>2 DEF Opens, Stretch
    <3>4. QED BY <1>1, <2>2, <3>1, <3>2, <3>3
  <2>3. QED BY <1>1, <2>1, <2>2
<1>4. Earned(g) BY <1>3 DEF Earned
<1>5. QED BY <1>4 DEF g

\* What Observe remembers, and when it restarts.
LEMMA ObserveFields ==
  ASSUME NEW d \in Detectors, NEW s \in Samples, NEW t \in Nat
  PROVE  LET o == Observe(d, s, t) IN
         /\ Unmoved(s, o)
         /\ \/ o.since = t
            \/ d.have /\ Unmoved(d, s) /\ Quiet(s) /\ o.since = d.since
  BY DEF Observe, Detectors, Unmoved

\* A detector whose age a reading has just brought up to date is right when it
\* says the queue is stalled.
LEMMA VerdictEarned ==
  ASSUME NEW h \in Seq(Entries), NEW e \in Entries, NEW d,
         Age(Append(h, e), d), e.kind = "sample", Quiet(e.s), Unmoved(e.s, d),
         d.since \in Nat, e.t - d.since >= Threshold
  PROVE  \E i \in 1 .. Len(h) : /\ Opens(Append(h, e), i, Len(h) + 1)
                                /\ e.t - h[i].t >= Threshold
<1> DEFINE g == Append(h, e)
           n == Len(h) + 1
<1>1. /\ Len(g) = n /\ g[n] = e /\ Len(h) \in Nat
      /\ \A j \in 1 .. Len(h) : g[j] = h[j]
  OBVIOUS
<1>2. e.t \in Nat BY DEF Entries
<1> HIDE DEF g
<1>3. PICK i \in 1 .. n :
        /\ g[i].t = d.since
        /\ \/ g[i].kind = "error"
           \/ g[i].kind = "sample" /\ Unmoved(g[i].s, d)
        /\ \A j \in i + 1 .. n :
             /\ g[j].kind # "error"
             /\ g[j].kind = "sample" => Quiet(g[j].s) /\ Unmoved(g[j].s, d)
  BY <1>1 DEF Age, g
<1>4. i # n BY <1>1, <1>2, <1>3, DetectorAssumption
<1>5. Opens(g, i, n) BY <1>1, <1>3, <1>4 DEF Opens, Stretch, Unmoved
<1>6. QED BY <1>1, <1>3, <1>4, <1>5 DEF g

\* A step that records one entry e for fd, leaves d as its detector and the
\* other queues alone.
LEMMA RecordedAge ==
  ASSUME TypeOK, AgeInv, NEW fd \in FD, NEW e \in Entries, NEW d,
         Record(fd, e), states' = [states EXCEPT ![fd] = d],
         d # None /\ d.have => Age(Append(hist[fd], e), d),
         Earned(Append(hist[fd], e))
  PROVE  AgeInv'
<1>1. /\ hist \in [FD -> Seq(Entries)]
      /\ states \in [FD -> Detectors \cup {None}]
  BY DEF TypeOK
<1>2. hist' = [hist EXCEPT ![fd] = Append(hist[fd], e)] BY DEF Record
<1>3. ASSUME NEW x \in FD
      PROVE  /\ states'[x] # None /\ states'[x].have => Age(hist'[x], states'[x])
             /\ Earned(hist'[x])
  <2>1. CASE x = fd BY <1>1, <1>2, <2>1
  <2>2. CASE x # fd BY <1>1, <1>2, <2>2 DEF AgeInv, StallIsEarned
  <2>3. QED BY <2>1, <2>2
<1>4. StallIsEarned' BY <1>3 DEF StallIsEarned, Earned, Opens, Stretch
<1>5. \A x \in FD : (states[x] # None /\ states[x].have => Age(hist[x], states[x]))'
  BY <1>3 DEF Age
<1>6. QED BY <1>4, <1>5 DEF AgeInv

\* After the error path the age counts from the error.
LEMMA UnavailableAge ==
  ASSUME TypeOK, AgeInv, NEW fd \in FD, NEW d \in Detectors \cup {None}, Unavailable(fd, d)
  PROVE  AgeInv'
<1> DEFINE e == Entry("error", None, FALSE, "none", FALSE)
           f == IF d = None THEN None ELSE Interrupt(d, now)
<1>1. now \in Nat /\ hist[fd] \in Seq(Entries) /\ Earned(hist[fd])
  BY WatchAssumption DEF TypeOK, AgeInv, StallIsEarned
<1>2. e \in Entries /\ e.kind = "error" /\ e.t = now
  BY <1>1, EntryType DEF Kinds, Events, Entry
<1>3. f # None => f.since = now BY DEF Interrupt, Detectors
<1> HIDE DEF e, f
<1>4. f # None => Age(Append(hist[fd], e), f) BY <1>1, <1>2, <1>3, AgeRestarts
<1>5. Earned(Append(hist[fd], e)) BY <1>1, <1>2, EarnedAppend
<1>6. Record(fd, e) /\ states' = [states EXCEPT ![fd] = f] BY DEF Unavailable, e, f
<1>7. QED BY <1>2, <1>4, <1>5, <1>6, RecordedAge

\* A visit keeps the age right and earns a stalled verdict.
LEMMA ReadQueueAge ==
  ASSUME TypeOK, AgeInv, NEW fd \in FD, NEW s \in Samples, NEW replaced \in BOOLEAN,
         ReadQueue(fd, s, replaced)
  PROVE  AgeInv'
<1> DEFINE d == DetectorOf(fd)
           d0 == Observe(d, s, now)
           stalled == Stalled(d0, s, now)
           d1 == [d0 EXCEPT !.reported = @ \/ stalled]
           d2 == IF Mode = "guarded" /\ stalled THEN Prune(d1, now) ELSE d1
           v == IF replaced THEN None ELSE pending[fd]
           event == Verification(v, s)
           report == stalled /\ ~d0.reported
           e == Entry("sample", s, stalled, event, report)
           h == hist[fd]
<1>1. now \in Nat /\ h \in Seq(Entries) /\ Earned(h)
  BY WatchAssumption DEF TypeOK, AgeInv, StallIsEarned
<1>2. stalled \in BOOLEAN /\ report \in BOOLEAN BY DEF Stalled, Quiet
<1>3. d \in Detectors BY NewDetectorType DEF DetectorOf, TypeOK
<1>4. d.have => Age(h, d) BY DEF DetectorOf, NewDetector, AgeInv
<1>5. d0 \in Detectors BY <1>1, <1>3, ObserveType
<1>6. d2.since = d0.since /\ Unmoved(d2, d0)
  BY <1>5 DEF Prune, Detectors, Unmoved
<1>7. /\ Unmoved(s, d0)
      /\ \/ d0.since = now
         \/ d.have /\ Unmoved(d, s) /\ Quiet(s) /\ d0.since = d.since
  BY <1>1, <1>3, ObserveFields
<1>8. d0.since \in Nat BY <1>5 DEF Detectors
<1>9. stalled => Quiet(s) /\ now - d0.since >= Threshold BY DEF Stalled
<1>10. Record(fd, e) /\ states' = [states EXCEPT ![fd] = d2]
  BY DEF ReadQueue
<1>11. e \in Entries /\ e.kind = "sample" /\ e.t = now /\ e.s = s /\ e.stalled = stalled
  BY <1>1, <1>2, EntryType, VerificationType DEF Kinds, Entry
<1> HIDE DEF d, d0, d1, d2, stalled, event, report, e, h
<1>12. Age(Append(h, e), d2)
  <2>1. CASE d0.since = now
    BY <1>1, <1>6, <1>7, <1>11, <2>1, AgeRestarts DEF Unmoved
  <2>2. CASE d.have /\ Unmoved(d, s) /\ Quiet(s) /\ d0.since = d.since
    <3>1. d2.since = d.since /\ Unmoved(d2, d) /\ Unmoved(e.s, d)
      BY <1>6, <1>7, <1>11, <2>2 DEF Unmoved
    <3>2. QED BY <1>1, <1>4, <1>11, <2>2, <3>1, AgeGrows
  <2>3. QED BY <1>7, <2>1, <2>2
<1>13. Earned(Append(h, e))
  <2>1. ASSUME stalled
        PROVE  \E i \in 1 .. Len(h) : /\ Opens(Append(h, e), i, Len(h) + 1)
                                      /\ e.t - h[i].t >= Threshold
    <3>1. Unmoved(e.s, d2) BY <1>6, <1>7, <1>11 DEF Unmoved
    <3>2. d2.since \in Nat /\ e.t - d2.since >= Threshold /\ Quiet(e.s)
      BY <1>6, <1>8, <1>9, <1>11, <2>1
    <3>3. QED BY <1>1, <1>11, <1>12, <3>1, <3>2, VerdictEarned
  <2>2. QED BY <1>1, <1>11, <2>1, EarnedAppend
<1>14. QED BY <1>10, <1>11, <1>12, <1>13, RecordedAge DEF h

\* A kick does not touch the age.
LEMMA RekickWritesAge == ASSUME TypeOK, AgeInv, RekickWrites PROVE AgeInv'
<1> DEFINE fd == row.fd
           d == states[fd]
           f == IF Mode = "guarded" THEN Kicked(d, now) ELSE [d EXCEPT !.lastKick = now]
           e == Entry("kick", row.s, row.stalled, "none", FALSE)
<1>1. fd \in FD /\ d \in Detectors /\ row.s \in Samples /\ row.stalled \in BOOLEAN
      /\ now \in Nat
  BY WatchAssumption DEF TypeOK, RekickWrites, Rows
<1>2. hist[fd] \in Seq(Entries) /\ Earned(hist[fd])
  BY <1>1 DEF TypeOK, AgeInv, StallIsEarned
<1>3. e \in Entries /\ e.kind = "kick"
  BY <1>1, EntryType DEF Kinds, Events, Entry
<1>4. f.since = d.since /\ f.have = d.have /\ Unmoved(f, d)
  BY <1>1 DEF Kicked, Detectors, Unmoved
<1>5. d.have => Age(hist[fd], d)
  <2>1. d # None BY <1>1, WatchAssumption
  <2>2. QED BY <1>1, <2>1 DEF AgeInv
<1>6. Record(fd, e) /\ states' = [states EXCEPT ![fd] = f] BY DEF RekickWrites
<1> HIDE DEF fd, d, e, f
<1>7. f.have => Age(Append(hist[fd], e), f) BY <1>2, <1>3, <1>4, <1>5, AgeGrows
<1>8. Earned(Append(hist[fd], e)) BY <1>2, <1>3, EarnedAppend
<1>9. QED BY <1>1, <1>3, <1>6, <1>7, <1>8, RecordedAge

\* Dropping the vanished FDs does not touch the age.
LEMMA EndIterationAge == ASSUME TypeOK, AgeInv, EndIteration PROVE AgeInv'
<1> DEFINE e == Entry("gone", None, FALSE, "none", FALSE)
           stays(x) == x \in vhosts \/ snapshots[x] = NoIdentity
<1>1. now \in Nat /\ hist \in [FD -> Seq(Entries)] BY WatchAssumption DEF TypeOK
<1>2. e \in Entries /\ e.kind = "gone"
  BY <1>1, EntryType DEF Kinds, Events, Entry
<1> HIDE DEF e, stays
<1>3. /\ hist' = [x \in FD |-> IF stays(x) THEN hist[x] ELSE Append(hist[x], e)]
      /\ states' = states
  BY DEF EndIteration, e, stays
<1>4. ASSUME NEW x \in FD
      PROVE  /\ states[x] # None /\ states[x].have => Age(hist'[x], states[x])
             /\ Earned(hist'[x])
  <2>1. CASE stays(x) BY <1>3, <2>1 DEF AgeInv, StallIsEarned
  <2>2. CASE ~stays(x)
    <3>1. hist'[x] = Append(hist[x], e) /\ hist[x] \in Seq(Entries) BY <1>1, <1>3, <2>2
    <3>2. Earned(Append(hist[x], e)) BY <1>2, <3>1, EarnedAppend DEF AgeInv, StallIsEarned
    <3>3. Unmoved(states[x], states[x]) BY DEF Unmoved
    <3>4. states[x] # None /\ states[x].have => Age(Append(hist[x], e), states[x])
      BY <1>2, <3>1, <3>3, AgeGrows DEF AgeInv
    <3>5. QED BY <3>1, <3>2, <3>4
  <2>3. QED BY <2>1, <2>2
<1>5. StallIsEarned' BY <1>4 DEF StallIsEarned, Earned, Opens, Stretch
<1>6. \A x \in FD : (states[x] # None /\ states[x].have => Age(hist[x], states[x]))'
  BY <1>3, <1>4 DEF Age
<1>7. QED BY <1>5, <1>6 DEF AgeInv

\* Every step keeps the meaning of every age.
LEMMA AgeInductive == TypeOK /\ AgeInv /\ [Next]_vars => AgeInv'
<1> SUFFICES ASSUME TypeOK, AgeInv, [Next]_vars PROVE AgeInv' OBVIOUS
<1>1. ASSUME UNCHANGED <<states, hist>> PROVE AgeInv'
  BY <1>1 DEF AgeInv, StallIsEarned, Earned, Opens, Stretch, Age
<1>2. CASE Tick BY <1>1, <1>2 DEF Tick, maps, history
<1>3. CASE Cancel BY <1>1, <1>3 DEF Cancel, maps, history
<1>4. CASE TopReturns BY <1>1, <1>4 DEF TopReturns, Return, maps, history
<1>5. CASE BeginIteration BY <1>1, <1>5 DEF BeginIteration, maps, history
<1>6. ASSUME NEW fd \in FD, ReadFails(fd) PROVE AgeInv'
  <2>1. DetectorOf(fd) \in Detectors /\ states[fd] \in Detectors \cup {None}
    BY NewDetectorType DEF DetectorOf, TypeOK
  <2>2. QED BY <1>6, <2>1, UnavailableAge DEF ReadFails
<1>7. ASSUME NEW fd \in FD, NEW s \in Samples, NEW replaced \in BOOLEAN,
             ReadQueue(fd, s, replaced)
      PROVE  AgeInv'
  BY <1>7, ReadQueueAge
<1>8. CASE RekickFails
  <2>1. row.fd \in FD /\ states[row.fd] \in Detectors \cup {None}
    BY <1>8 DEF TypeOK, RekickFails, Rows
  <2>2. QED BY <1>8, <2>1, UnavailableAge DEF RekickFails
<1>9. CASE RekickWrites BY <1>9, RekickWritesAge
<1>10. CASE EndIteration BY <1>10, EndIterationAge
<1>11. CASE Wait BY <1>1, <1>11 DEF Wait, maps, history
<1>12. CASE Restart
  <2>1. states' = [fd \in FD |-> None] /\ hist' = [fd \in FD |-> <<>>]
    BY <1>12 DEF Restart
  <2>2. StallIsEarned' BY <2>1 DEF StallIsEarned, Earned
  <2>3. QED BY <2>1, <2>2 DEF AgeInv
<1>13. CASE UNCHANGED vars BY <1>1, <1>13 DEF vars, maps, history
<1>14. QED
  BY <1>2, <1>3, <1>4, <1>5, <1>6, <1>7, <1>8, <1>9, <1>10, <1>11, <1>12, <1>13 DEF Next

\* No queue is ever judged stalled without a stretch of at least Threshold
\* without failed, moving, busy or inconsistent readings, whatever the queue
\* does, however often it is replaced or lost from discovery.
THEOREM EarnedCorrect == Spec => []StallIsEarned
<1>1. ASSUME Init PROVE AgeInv
  <2>1. StallIsEarned BY <1>1 DEF Init, StallIsEarned, Earned
  <2>2. QED BY <1>1, <2>1 DEF Init, AgeInv
<1>2. AgeInv => StallIsEarned BY DEF AgeInv
<1>3. QED BY <1>1, <1>2, TypeCorrect, AgeInductive, PTL DEF Spec

-----------------------------------------------------------------------------
(* Recoveries. *)

\* A "recovered" or "progress_after_kick" event at entry n of h is about a
\* kick before it.
Real(h, n) ==
  h[n].event \in {"recovered", "progress_after_kick"} =>
    \E k \in 1 .. n - 1 :
      /\ h[k].kind = "kick"
      /\ h[k].s.used # h[n].s.used /\ h[k].s.consumed # h[n].s.consumed
      /\ \A j \in k + 1 .. n : /\ h[j].kind \notin {"error", "gone"}
                               /\ h[j].s.identity = h[k].s.identity
      /\ h[n].event = "recovered" <=> h[k].stalled

\* Verification v stands for a kick of attachment id, since which the queue
\* neither failed, vanished nor was replaced.
Stands(h, v, id) ==
  /\ id # NoIdentity
  /\ \E k \in 1 .. Len(h) :
       /\ h[k].kind = "kick" /\ h[k].s.identity = id /\ h[k].stalled = v.stalled
       /\ h[k].s.used = v.used /\ h[k].s.consumed = v.consumed
       /\ \A j \in k + 1 .. Len(h) : h[j].kind \notin {"error", "gone"}
                                     /\ h[j].s.identity = id

\* RecoveryIsReal is about a kick that the loop has forgotten but for the two
\* indices of its verification: RecoveryInv says that an open verification
\* still has its kick, of the attachment last seen.
RecoveryInv ==
  /\ \A fd \in FD : pending[fd] # None => Stands(hist[fd], pending[fd], snapshots[fd])
  /\ pc = "recover" => /\ snapshots[row.fd] = row.s.identity
                       /\ Mode = "guarded" => row.stalled
  /\ \A fd \in FD : \A n \in 1 .. Len(hist[fd]) : Real(hist[fd], n)

\* Appending an entry leaves the events of the earlier ones alone.
LEMMA RealAppend ==
  ASSUME NEW h \in Seq(Entries), NEW e \in Entries, \A n \in 1 .. Len(h) : Real(h, n),
         Real(Append(h, e), Len(h) + 1)
  PROVE  \A n \in 1 .. Len(Append(h, e)) : Real(Append(h, e), n)
<1> DEFINE g == Append(h, e)
<1>1. /\ Len(g) = Len(h) + 1 /\ Len(h) \in Nat
      /\ \A j \in 1 .. Len(h) : g[j] = h[j]
  OBVIOUS
<1>2. Real(g, Len(h) + 1) OBVIOUS
<1> HIDE DEF g
<1>3. ASSUME NEW n \in 1 .. Len(h) PROVE Real(g, n)
  <2>1. Real(h, n) /\ g[n] = h[n] BY <1>1
  <2>2. ASSUME NEW k \in 1 .. n - 1
        PROVE  g[k] = h[k] /\ \A j \in k + 1 .. n : g[j] = h[j]
    BY <1>1
  <2>3. QED BY <2>1, <2>2 DEF Real
<1>4. \A n \in 1 .. Len(g) : Real(g, n) BY <1>1, <1>2, <1>3
<1>5. QED BY <1>4 DEF g

\* An open verification outlives an entry of its own attachment.
LEMMA StandsAppend ==
  ASSUME NEW h \in Seq(Entries), NEW e \in Entries, NEW v, NEW id, Stands(h, v, id),
         e.kind \notin {"error", "gone"}, e.s.identity = id
  PROVE  Stands(Append(h, e), v, id)
<1> DEFINE g == Append(h, e)
<1>1. /\ Len(g) = Len(h) + 1 /\ Len(h) \in Nat /\ g[Len(h) + 1] = e
      /\ \A j \in 1 .. Len(h) : g[j] = h[j]
  OBVIOUS
<1> HIDE DEF g
<1>2. PICK k \in 1 .. Len(h) :
        /\ h[k].kind = "kick" /\ h[k].s.identity = id /\ h[k].stalled = v.stalled
        /\ h[k].s.used = v.used /\ h[k].s.consumed = v.consumed
        /\ \A j \in k + 1 .. Len(h) : h[j].kind \notin {"error", "gone"}
                                      /\ h[j].s.identity = id
  BY DEF Stands
<1>3. \A j \in k + 1 .. Len(g) : g[j].kind \notin {"error", "gone"} /\ g[j].s.identity = id
  <2>1. TAKE j \in k + 1 .. Len(g)
  <2>2. CASE j = Len(h) + 1 BY <1>1, <2>2
  <2>3. CASE j \in k + 1 .. Len(h) BY <1>1, <1>2, <2>3
  <2>4. QED BY <1>1, <2>2, <2>3
<1>4. k \in 1 .. Len(g) /\ g[k] = h[k] BY <1>1
<1>5. Stands(g, v, id)
  <2>1. id # NoIdentity BY DEF Stands
  <2>2. QED BY <1>2, <1>3, <1>4, <2>1, Zenon DEF Stands
<1>6. QED BY <1>5 DEF g

\* A kick opens a verification.
LEMMA StandsNew ==
  ASSUME NEW h \in Seq(Entries), NEW e \in Entries, NEW v, NEW id, id # NoIdentity,
         e.kind = "kick", e.s.identity = id, e.stalled = v.stalled,
         e.s.used = v.used, e.s.consumed = v.consumed
  PROVE  Stands(Append(h, e), v, id)
<1> DEFINE g == Append(h, e)
           k == Len(h) + 1
<1>1. Len(g) = k /\ k \in 1 .. k /\ g[k] = e /\ k + 1 .. k = {} OBVIOUS
<1> HIDE DEF g, k
<1>2. Stands(g, v, id) BY <1>1 DEF Stands
<1>3. QED BY <1>2 DEF g

\* A sample that moves both indices of an open verification is a recovery.
LEMMA StandsReal ==
  ASSUME NEW h \in Seq(Entries), NEW e \in Entries, NEW v, NEW id, Stands(h, v, id),
         e.kind = "sample", e.s.identity = id,
         e.s.used # v.used, e.s.consumed # v.consumed,
         e.event = "recovered" <=> v.stalled
  PROVE  Real(Append(h, e), Len(h) + 1)
<1> DEFINE g == Append(h, e)
           n == Len(h) + 1
<1>1. /\ Len(h) \in Nat /\ g[n] = e /\ n = Len(h) + 1
      /\ \A j \in 1 .. Len(h) : g[j] = h[j]
  OBVIOUS
<1> HIDE DEF g, n
<1>2. PICK k \in 1 .. Len(h) :
        /\ h[k].kind = "kick" /\ h[k].s.identity = id /\ h[k].stalled = v.stalled
        /\ h[k].s.used = v.used /\ h[k].s.consumed = v.consumed
        /\ \A j \in k + 1 .. Len(h) : h[j].kind \notin {"error", "gone"}
                                      /\ h[j].s.identity = id
  BY DEF Stands
<1>3. \A j \in k + 1 .. n : g[j].kind \notin {"error", "gone"} /\ g[j].s.identity = id
  <2>1. TAKE j \in k + 1 .. n
  <2>2. CASE j = n BY <1>1, <2>2
  <2>3. CASE j \in k + 1 .. Len(h) BY <1>1, <1>2, <2>3
  <2>4. QED BY <1>1, <2>2, <2>3
<1>4. k \in 1 .. n - 1 /\ g[k] = h[k] BY <1>1
<1>5. Real(g, n) BY <1>1, <1>2, <1>3, <1>4 DEF Real
<1>6. QED BY <1>5 DEF g, n

\* What the event of a visit says of the verification it closes.
LEMMA VerificationMeans ==
  ASSUME NEW v, NEW s, Verification(v, s) \in {"recovered", "progress_after_kick"}
  PROVE  /\ v # None /\ s.used # v.used /\ s.consumed # v.consumed
         /\ Verification(v, s) = "recovered" <=> v.stalled
  BY DEF Verification

\* RecoveryInv after a step, from what the step does to each queue.
LEMMA RecoveryNext ==
  ASSUME \A x \in FD :
           /\ pending'[x] # None => Stands(hist'[x], pending'[x], snapshots'[x])
           /\ \A n \in 1 .. Len(hist'[x]) : Real(hist'[x], n),
         pc' = "recover" => /\ snapshots'[row'.fd] = row'.s.identity
                            /\ Mode = "guarded" => row'.stalled
  PROVE  RecoveryInv'
  BY DEF RecoveryInv, Stands, Real

\* A step that records one entry e for fd and leaves the other queues alone.
LEMMA RecoveryStep ==
  ASSUME TypeOK, RecoveryInv, NEW fd \in FD, NEW e \in Entries, NEW v, NEW id,
         Record(fd, e), pending' = [pending EXCEPT ![fd] = v],
         snapshots' = [snapshots EXCEPT ![fd] = id],
         v # None => Stands(Append(hist[fd], e), v, id),
         Real(Append(hist[fd], e), Len(hist[fd]) + 1),
         pc' = "recover" => /\ snapshots'[row'.fd] = row'.s.identity
                            /\ Mode = "guarded" => row'.stalled
  PROVE  RecoveryInv'
<1>1. /\ hist \in [FD -> Seq(Entries)] /\ pending \in [FD -> Verifications \cup {None}]
      /\ snapshots \in [FD -> Identity \cup {NoIdentity}]
  BY DEF TypeOK
<1>2. hist' = [hist EXCEPT ![fd] = Append(hist[fd], e)] BY DEF Record
<1>3. ASSUME NEW x \in FD
      PROVE  /\ pending'[x] # None => Stands(hist'[x], pending'[x], snapshots'[x])
             /\ \A n \in 1 .. Len(hist'[x]) : Real(hist'[x], n)
  <2>1. CASE x = fd
    <3>1. /\ hist'[x] = Append(hist[fd], e) /\ pending'[x] = v /\ snapshots'[x] = id
          /\ hist[fd] \in Seq(Entries)
      BY <1>1, <1>2, <2>1
    <3>2. \A n \in 1 .. Len(hist[fd]) : Real(hist[fd], n) BY DEF RecoveryInv
    <3>3. QED BY <3>1, <3>2, RealAppend
  <2>2. CASE x # fd
    <3>1. hist'[x] = hist[x] /\ pending'[x] = pending[x] /\ snapshots'[x] = snapshots[x]
      BY <1>1, <1>2, <2>2
    <3>2. QED BY <3>1 DEF RecoveryInv
  <2>3. QED BY <2>1, <2>2
<1>4. QED BY <1>3, RecoveryNext

\* The error path closes the verification.
LEMMA UnavailableRecovery ==
  ASSUME TypeOK, RecoveryInv, NEW fd \in FD, NEW d, Unavailable(fd, d),
         NEW id, snapshots' = [snapshots EXCEPT ![fd] = id]
  PROVE  RecoveryInv'
<1> DEFINE e == Entry("error", None, FALSE, "none", FALSE)
<1>1. now \in Nat /\ hist[fd] \in Seq(Entries) BY WatchAssumption DEF TypeOK
<1>2. e \in Entries /\ e.event = "none" BY <1>1, EntryType DEF Kinds, Events, Entry
<1> HIDE DEF e
<1>3. Append(hist[fd], e)[Len(hist[fd]) + 1] = e BY <1>1, <1>2
<1>4. Real(Append(hist[fd], e), Len(hist[fd]) + 1) BY <1>2, <1>3 DEF Real
<1>5. Record(fd, e) /\ pending' = [pending EXCEPT ![fd] = None] /\ pc' # "recover"
  BY DEF Unavailable, e
<1>6. QED BY <1>2, <1>4, <1>5, RecoveryStep

\* A visit closes a verification with a true event or keeps it for the same
\* attachment.
LEMMA ReadQueueRecovery ==
  ASSUME TypeOK, RecoveryInv, NEW fd \in FD, NEW s \in Samples, NEW replaced \in BOOLEAN,
         ReadQueue(fd, s, replaced)
  PROVE  RecoveryInv'
<1> DEFINE d0 == Observe(DetectorOf(fd), s, now)
           stalled == Stalled(d0, s, now)
           d1 == [d0 EXCEPT !.reported = @ \/ stalled]
           d2 == IF Mode = "guarded" /\ stalled THEN Prune(d1, now) ELSE d1
           v == IF replaced THEN None ELSE pending[fd]
           event == Verification(v, s)
           report == stalled /\ ~d0.reported
           e == Entry("sample", s, stalled, event, report)
           h == hist[fd]
           w == IF event = "none" THEN v ELSE None
<1>1. now \in Nat /\ h \in Seq(Entries) BY WatchAssumption DEF TypeOK
<1>2. stalled \in BOOLEAN /\ report \in BOOLEAN BY DEF Stalled, Quiet
<1>3. /\ e \in Entries /\ e.kind = "sample" /\ e.s = s /\ e.event = event
  BY <1>1, <1>2, EntryType, VerificationType DEF Kinds, Entry
<1>4. event \in {"recovered", "progress_after_kick"} =>
        /\ v # None /\ s.used # v.used /\ s.consumed # v.consumed
        /\ event = "recovered" <=> v.stalled
  BY VerificationMeans
<1>5. v # None => Stands(h, v, s.identity)
  BY DEF RecoveryInv, ReadQueue, Stands
<1>6. /\ Record(fd, e) /\ pending' = [pending EXCEPT ![fd] = w]
      /\ snapshots' = [snapshots EXCEPT ![fd] = s.identity]
      /\ pc' = "recover" => /\ row' = [fd |-> fd, s |-> s, stalled |-> stalled]
                            /\ Mode = "guarded" => stalled
  BY DEF ReadQueue, Turn, Wanted
<1>7. snapshots'[fd] = s.identity BY <1>6 DEF TypeOK
<1> HIDE DEF d0, d1, d2, stalled, report, e, h, event, v
<1>8. w # None => Stands(Append(h, e), w, s.identity)
  BY <1>1, <1>3, <1>5, StandsAppend
<1>9. Real(Append(h, e), Len(h) + 1)
  <2>1. CASE event \in {"recovered", "progress_after_kick"}
    BY <1>1, <1>3, <1>4, <1>5, <2>1, StandsReal
  <2>2. CASE event \notin {"recovered", "progress_after_kick"}
    <3>1. Append(h, e)[Len(h) + 1] = e BY <1>1, <1>3
    <3>2. QED BY <1>3, <2>2, <3>1 DEF Real
  <2>3. QED BY <2>1, <2>2
<1>10. pc' = "recover" => /\ snapshots'[row'.fd] = row'.s.identity
                          /\ Mode = "guarded" => row'.stalled
  <2>1. SUFFICES ASSUME pc' = "recover"
                 PROVE  /\ snapshots'[row'.fd] = row'.s.identity
                        /\ Mode = "guarded" => row'.stalled
    OBVIOUS
  <2>2. row' = [fd |-> fd, s |-> s, stalled |-> stalled] BY <1>6, <2>1
  <2>3. row'.fd = fd /\ row'.s = s /\ row'.stalled = stalled BY <2>2
  <2>4. Mode = "guarded" => stalled BY <1>6, <2>1
  <2>5. QED BY <1>7, <2>3, <2>4, Zenon
<1> HIDE DEF w
<1>11. QED BY <1>3, <1>6, <1>8, <1>9, <1>10, RecoveryStep DEF h

\* A kick opens a verification of the attachment it was written for, or joins
\* the one that is open.
LEMMA RekickWritesRecovery == ASSUME TypeOK, RecoveryInv, RekickWrites PROVE RecoveryInv'
<1> DEFINE fd == row.fd
           e == Entry("kick", row.s, row.stalled, "none", FALSE)
           new == [at |-> now, used |-> row.s.used, consumed |-> row.s.consumed,
                   stalled |-> Mode = "guarded" \/ row.stalled]
           v == IF Pending(row.s) > 0 /\ pending[fd] = None THEN new ELSE pending[fd]
           id == row.s.identity
           h == hist[fd]
<1>1. /\ fd \in FD /\ row.s \in Samples /\ row.stalled \in BOOLEAN /\ now \in Nat
      /\ snapshots \in [FD -> Identity \cup {NoIdentity}]
  BY WatchAssumption DEF TypeOK, RekickWrites, Rows
<1>2. h \in Seq(Entries) BY <1>1 DEF TypeOK
<1>3. /\ e \in Entries /\ e.kind = "kick" /\ e.s = row.s /\ e.stalled = row.stalled
      /\ e.event = "none"
  BY <1>1, EntryType DEF Kinds, Events, Entry
<1>4. snapshots[fd] = id /\ (Mode = "guarded" => row.stalled)
  BY DEF RecoveryInv, RekickWrites
<1>5. id # NoIdentity BY <1>1, WatchAssumption DEF Identity
<1>6. snapshots' = [snapshots EXCEPT ![fd] = id] BY <1>1, <1>4 DEF RekickWrites
<1>7. Record(fd, e) /\ pending' = [pending EXCEPT ![fd] = v] /\ pc' # "recover"
  BY <1>1 DEF RekickWrites, TypeOK
<1>8. pending[fd] # None => Stands(h, pending[fd], id) BY <1>1, <1>4 DEF RecoveryInv
<1>9. new.stalled = row.stalled /\ new.used = row.s.used /\ new.consumed = row.s.consumed
  BY <1>1, <1>4
<1> HIDE DEF e, h, new, id, fd
<1>10. Stands(Append(h, e), new, id) BY <1>2, <1>3, <1>5, <1>9, StandsNew DEF id
<1>11. pending[fd] # None => Stands(Append(h, e), pending[fd], id)
  BY <1>2, <1>3, <1>8, StandsAppend DEF id
<1>12. v # None => Stands(Append(h, e), v, id) BY <1>10, <1>11
<1>13. Real(Append(h, e), Len(h) + 1)
  <2>1. Append(h, e)[Len(h) + 1] = e BY <1>2, <1>3
  <2>2. QED BY <1>3, <2>1 DEF Real
<1> HIDE DEF v
<1>14. QED BY <1>1, <1>3, <1>6, <1>7, <1>12, <1>13, RecoveryStep DEF h

\* The verification of a vanished FD is dropped.
LEMMA EndIterationRecovery == ASSUME TypeOK, RecoveryInv, EndIteration PROVE RecoveryInv'
<1> DEFINE e == Entry("gone", None, FALSE, "none", FALSE)
           stays(x) == x \in vhosts \/ snapshots[x] = NoIdentity
<1>1. now \in Nat /\ hist \in [FD -> Seq(Entries)] BY WatchAssumption DEF TypeOK
<1>2. e \in Entries /\ e.event = "none"
  BY <1>1, EntryType DEF Kinds, Events, Entry
<1> HIDE DEF e
<1>3. /\ hist' = [x \in FD |-> IF stays(x) THEN hist[x] ELSE Append(hist[x], e)]
      /\ pending' = [x \in FD |-> IF stays(x) THEN pending[x] ELSE None]
      /\ snapshots' = [x \in FD |-> IF x \in vhosts THEN snapshots[x] ELSE NoIdentity]
      /\ pc' # "recover"
  BY DEF EndIteration, e
<1>4. ASSUME NEW x \in FD
      PROVE  /\ pending'[x] # None => Stands(hist'[x], pending'[x], snapshots'[x])
             /\ \A n \in 1 .. Len(hist'[x]) : Real(hist'[x], n)
  <2>1. /\ \A n \in 1 .. Len(hist[x]) : Real(hist[x], n)
        /\ pending[x] # None => Stands(hist[x], pending[x], snapshots[x])
    BY DEF RecoveryInv
  <2>2. CASE stays(x)
    <3>1. hist'[x] = hist[x] /\ pending'[x] = pending[x] /\ snapshots'[x] = snapshots[x]
      BY <1>3, <2>2
    <3>2. QED BY <2>1, <3>1
  <2>3. CASE ~stays(x)
    <3>1. hist'[x] = Append(hist[x], e) /\ pending'[x] = None /\ hist[x] \in Seq(Entries)
      BY <1>1, <1>3, <2>3
    <3>2. Append(hist[x], e)[Len(hist[x]) + 1] = e BY <1>2, <3>1
    <3>3. Real(Append(hist[x], e), Len(hist[x]) + 1) BY <1>2, <3>2 DEF Real
    <3>4. QED BY <1>2, <2>1, <3>1, <3>3, RealAppend
  <2>4. QED BY <2>2, <2>3
<1>5. QED BY <1>3, <1>4, RecoveryNext

\* Every step keeps every open verification tied to its kick.
LEMMA RecoveryInductive == TypeOK /\ RecoveryInv /\ [Next]_vars => RecoveryInv'
<1> SUFFICES ASSUME TypeOK, RecoveryInv, [Next]_vars PROVE RecoveryInv' OBVIOUS
<1>1. ASSUME UNCHANGED <<pending, snapshots, hist>>,
             pc' = "recover" => pc = "recover" /\ row' = row
      PROVE  RecoveryInv'
  BY <1>1 DEF RecoveryInv, Stands, Real
<1>2. CASE Tick BY <1>1, <1>2 DEF Tick, maps, history
<1>3. CASE Cancel BY <1>1, <1>3 DEF Cancel, maps, history
<1>4. CASE TopReturns BY <1>1, <1>4 DEF TopReturns, Return, maps, history
<1>5. CASE BeginIteration BY <1>1, <1>5 DEF BeginIteration, maps, history
<1>6. ASSUME NEW fd \in FD, ReadFails(fd) PROVE RecoveryInv'
  <2>1. snapshots = [snapshots EXCEPT ![fd] = snapshots[fd]] BY DEF TypeOK
  <2>2. QED BY <1>6, <2>1, UnavailableRecovery DEF ReadFails
<1>7. ASSUME NEW fd \in FD, NEW s \in Samples, NEW replaced \in BOOLEAN,
             ReadQueue(fd, s, replaced)
      PROVE  RecoveryInv'
  BY <1>7, ReadQueueRecovery
<1>8. CASE RekickFails
  <2>1. row.fd \in FD /\ snapshots = [snapshots EXCEPT ![row.fd] = snapshots[row.fd]]
    BY <1>8 DEF TypeOK, RekickFails, Rows
  <2>2. QED BY <1>8, <2>1, UnavailableRecovery DEF RekickFails
<1>9. CASE RekickWrites BY <1>9, RekickWritesRecovery
<1>10. CASE EndIteration BY <1>10, EndIterationRecovery
<1>11. CASE Wait BY <1>1, <1>11 DEF Wait, maps, history
<1>12. CASE Restart
  <2>1. /\ pending' = [fd \in FD |-> None] /\ hist' = [fd \in FD |-> <<>>]
        /\ pc' = "top"
    BY <1>12 DEF Restart
  <2>2. QED BY <2>1 DEF RecoveryInv
<1>13. CASE UNCHANGED vars BY <1>1, <1>13 DEF vars, maps, history
<1>14. QED
  BY <1>2, <1>3, <1>4, <1>5, <1>6, <1>7, <1>8, <1>9, <1>10, <1>11, <1>12, <1>13 DEF Next

\* No "recovered" or "progress_after_kick" is logged that is not about a kick
\* of the same attachment, after which both indices moved and no reading
\* failed: a verification never survives a failure, a replaced queue or a
\* vanished FD, in any mode.
THEOREM RecoveryCorrect == Spec => []RecoveryIsReal
<1>1. Init => RecoveryInv BY DEF Init, RecoveryInv
<1>2. ASSUME TypeOK, RecoveryInv PROVE RecoveryIsReal
  <2>1. \A fd \in FD : DOMAIN hist[fd] = 1 .. Len(hist[fd]) BY <1>2 DEF TypeOK
  <2>2. \A fd \in FD : \A n \in DOMAIN hist[fd] : Real(hist[fd], n)
    BY <1>2, <2>1 DEF RecoveryInv
  <2>3. QED BY <2>2, Zenon DEF RecoveryIsReal, Real
<1>3. QED BY <1>1, <1>2, TypeCorrect, RecoveryInductive, PTL DEF Spec

-----------------------------------------------------------------------------
(* Stalls are noticed, and reported once. *)

\* Entry i of h is a sample, and since then nothing failed and every sample
\* was quiet: all showed what d remembers.
OnTrail(h, i, d) ==
  /\ h[i].kind = "sample" /\ Unmoved(h[i].s, d)
  /\ \A j \in i + 1 .. Len(h) :
       /\ h[j].kind # "error"
       /\ h[j].kind = "sample" => Quiet(h[j].s) /\ Unmoved(h[j].s, d)

\* What d remembers is the last sample of h.
Remembers(h, d) ==
  \E m \in 1 .. Len(h) :
    /\ h[m].kind = "sample" /\ Unmoved(h[m].s, d)
    /\ \A j \in m + 1 .. Len(h) : h[j].kind # "sample"

\* The reports of the stall that d is in.
Reports(h, d) == {i \in 1 .. Len(h) : h[i].report /\ OnTrail(h, i, d)}

\* The age of d is as old as its trail, and d.reported says whether the trail
\* has a report.
Trail(h, d) ==
  /\ Remembers(h, d)
  /\ \A i \in 1 .. Len(h) : OnTrail(h, i, d) => d.since <= h[i].t
  /\ d.reported => \E i \in 1 .. Len(h) : Reports(h, d) = {i}
  /\ ~d.reported => Reports(h, d) = {}

\* Entry n of h is judged stalled if it ends a stretch of Threshold.
Noticed(h, n) ==
  h[n].kind = "sample" /\ ~h[n].stalled =>
    \A i \in 1 .. n - 1 :
      h[i].kind = "sample" /\ Opens(h, i, n) => h[n].t - h[i].t < Threshold

\* The stretch that ends in a stalled entry n of h holds one report.
ReportedOnceAt(h, n) ==
  h[n].kind = "sample" /\ h[n].stalled =>
    Cardinality({i \in 1 .. n : h[i].report /\ Opens(h, i, n)}) = 1

\* The judgements of h are right; only samples are reports.
Told(h) ==
  \A n \in 1 .. Len(h) :
    /\ Noticed(h, n) /\ ReportedOnceAt(h, n)
    /\ h[n].report => h[n].kind = "sample"

\* What a detector, or the lack of one, knows of h at time t: without a
\* detector, or with one that has seen nothing, there is no sample.
Follows(h, d, t) ==
  /\ d # None /\ d.have => Trail(h, d)
  /\ d = None \/ ~d.have => \A n \in 1 .. Len(h) : h[n].kind # "sample"
  /\ d # None => d.since <= t

\* StallIsNoticed and StallReportedOnce compare entries of the past, the
\* detector has one time and one mark: TrailInv says that the time is not
\* later than any sample of the present stretch, and that the mark is set
\* exactly if that stretch holds a report.
TrailInv == \A fd \in FD : Told(hist[fd]) /\ Follows(hist[fd], states[fd], now)

\* The trail after one more entry.
LEMMA OnTrailAppend ==
  ASSUME NEW h \in Seq(Entries), NEW e \in Entries, NEW d
  PROVE  /\ \A i \in 1 .. Len(h) :
              OnTrail(Append(h, e), i, d) <=>
                /\ OnTrail(h, i, d) /\ e.kind # "error"
                /\ e.kind = "sample" => Quiet(e.s) /\ Unmoved(e.s, d)
         /\ OnTrail(Append(h, e), Len(h) + 1, d) <=> e.kind = "sample" /\ Unmoved(e.s, d)
<1> DEFINE g == Append(h, e)
           n == Len(h) + 1
<1>1. /\ Len(g) = n /\ g[n] = e /\ Len(h) \in Nat /\ n = Len(h) + 1
      /\ \A j \in 1 .. Len(h) : g[j] = h[j]
  OBVIOUS
<1> HIDE DEF g, n
<1>2. ASSUME NEW i \in 1 .. Len(h)
      PROVE  OnTrail(g, i, d) <=>
               /\ OnTrail(h, i, d) /\ e.kind # "error"
               /\ e.kind = "sample" => Quiet(e.s) /\ Unmoved(e.s, d)
  <2>1. g[i] = h[i] /\ (i + 1 .. n) = (i + 1 .. Len(h)) \cup {n}
        /\ \A j \in i + 1 .. Len(h) : g[j] = h[j]
    BY <1>1
  <2>2. OnTrail(g, i, d) <=>
          /\ h[i].kind = "sample" /\ Unmoved(h[i].s, d)
          /\ \A j \in (i + 1 .. Len(h)) \cup {n} :
               /\ g[j].kind # "error"
               /\ g[j].kind = "sample" => Quiet(g[j].s) /\ Unmoved(g[j].s, d)
    BY <1>1, <2>1 DEF OnTrail
  <2>3. QED BY <1>1, <2>1, <2>2 DEF OnTrail
<1>3. n + 1 .. n = {} BY <1>1
<1>4. OnTrail(g, n, d) <=> e.kind = "sample" /\ Unmoved(e.s, d) BY <1>1, <1>3 DEF OnTrail
<1>5. QED BY <1>2, <1>4 DEF g, n

\* The trail only depends on what the detector remembers.
LEMMA OnTrailSame ==
  ASSUME NEW h, NEW i, NEW d, NEW f, Unmoved(f, d)
  PROVE  OnTrail(h, i, f) <=> OnTrail(h, i, d)
  BY DEF OnTrail, Unmoved

\* Whatever is on the trail agrees with the last sample.
LEMMA TrailAgrees ==
  ASSUME NEW h \in Seq(Entries), NEW d, NEW f, Remembers(h, d),
         NEW i \in 1 .. Len(h), OnTrail(h, i, f)
  PROVE  Unmoved(f, d)
<1>1. Len(h) \in Nat OBVIOUS
<1>2. PICK m \in 1 .. Len(h) :
        /\ h[m].kind = "sample" /\ Unmoved(h[m].s, d)
        /\ \A j \in m + 1 .. Len(h) : h[j].kind # "sample"
  BY DEF Remembers
<1>3. h[i].kind = "sample" BY DEF OnTrail
<1>4. ~(i > m) BY <1>1, <1>2, <1>3
<1>5. i = m \/ m \in i + 1 .. Len(h) BY <1>1, <1>4
<1>6. Unmoved(h[m].s, f) BY <1>2, <1>5 DEF OnTrail
<1>7. QED BY <1>2, <1>6 DEF Unmoved

\* The last sample after one more entry.
LEMMA RemembersAppend ==
  ASSUME NEW h \in Seq(Entries), NEW e \in Entries, NEW d, NEW f,
         \/ e.kind = "sample" /\ Unmoved(e.s, f)
         \/ e.kind # "sample" /\ Remembers(h, d) /\ Unmoved(f, d)
  PROVE  Remembers(Append(h, e), f)
<1> DEFINE g == Append(h, e)
           n == Len(h) + 1
<1>1. /\ Len(g) = n /\ g[n] = e /\ Len(h) \in Nat /\ n = Len(h) + 1
      /\ \A j \in 1 .. Len(h) : g[j] = h[j]
  OBVIOUS
<1> HIDE DEF g, n
<1>2. CASE e.kind = "sample" /\ Unmoved(e.s, f)
  <2>1. n \in 1 .. Len(g) /\ n + 1 .. Len(g) = {} BY <1>1
  <2>2. Remembers(g, f) BY <1>1, <1>2, <2>1 DEF Remembers
  <2>3. QED BY <2>2 DEF g
<1>3. CASE e.kind # "sample" /\ Remembers(h, d) /\ Unmoved(f, d)
  <2>1. PICK m \in 1 .. Len(h) :
          /\ h[m].kind = "sample" /\ Unmoved(h[m].s, d)
          /\ \A j \in m + 1 .. Len(h) : h[j].kind # "sample"
    BY <1>3 DEF Remembers
  <2>2. \A j \in m + 1 .. Len(g) : g[j].kind # "sample"
    <3>1. TAKE j \in m + 1 .. Len(g)
    <3>2. j = n \/ j \in m + 1 .. Len(h) BY <1>1
    <3>3. QED BY <1>1, <1>3, <2>1, <3>2
  <2>3. m \in 1 .. Len(g) /\ g[m] = h[m] /\ Unmoved(h[m].s, f)
    BY <1>1, <1>3, <2>1 DEF Unmoved
  <2>4. Remembers(g, f) BY <2>1, <2>2, <2>3 DEF Remembers
  <2>5. QED BY <2>4 DEF g
<1>4. QED BY <1>2, <1>3

\* An entry that lets the stretch go on: the trail keeps its reports and its
\* age, and gets its first report with the first stalled sample.
LEMMA TrailKept ==
  ASSUME NEW h \in Seq(Entries), NEW e \in Entries, NEW d, NEW f, Trail(h, d),
         d.since \in Int, d.since <= e.t,
         f.since = d.since, Unmoved(f, d), f.reported <=> d.reported \/ e.report,
         e.kind # "error", e.kind = "sample" => Quiet(e.s) /\ Unmoved(e.s, d),
         e.report => e.kind = "sample" /\ ~d.reported
  PROVE  Trail(Append(h, e), f)
<1> DEFINE g == Append(h, e)
           n == Len(h) + 1
<1>1. /\ Len(g) = n /\ g[n] = e /\ Len(h) \in Nat /\ n = Len(h) + 1
      /\ \A j \in 1 .. Len(h) : g[j] = h[j]
  OBVIOUS
<1>2. \A i \in 1 .. Len(h) : OnTrail(g, i, f) <=> OnTrail(h, i, d)
  <2>1. \A i \in 1 .. Len(h) : OnTrail(g, i, d) <=> OnTrail(h, i, d) BY OnTrailAppend
  <2>2. \A i \in 1 .. Len(h) : OnTrail(g, i, f) <=> OnTrail(g, i, d) BY OnTrailSame
  <2>3. QED BY <2>1, <2>2
<1>3. OnTrail(g, n, f) <=> e.kind = "sample"
  <2>1. OnTrail(g, n, d) <=> e.kind = "sample" BY OnTrailAppend
  <2>2. QED BY <2>1, OnTrailSame
<1>4. Remembers(g, f)
  <2>1. Remembers(h, d) BY DEF Trail
  <2>2. e.kind = "sample" => Unmoved(e.s, f) BY DEF Unmoved
  <2>3. QED BY <2>1, <2>2, RemembersAppend
<1> HIDE DEF g, n
<1>5. \A i \in 1 .. Len(g) : OnTrail(g, i, f) => f.since <= g[i].t
  <2>1. SUFFICES ASSUME NEW i \in 1 .. Len(g), OnTrail(g, i, f) PROVE f.since <= g[i].t
    OBVIOUS
  <2>2. CASE i = n BY <1>1, <2>2
  <2>3. CASE i \in 1 .. Len(h) BY <1>1, <1>2, <2>1, <2>3 DEF Trail
  <2>4. QED BY <1>1, <2>2, <2>3
<1>6. CASE e.report
  <2>1. Reports(h, d) = {} BY <1>6 DEF Trail
  <2>2. \A i \in 1 .. Len(h) : ~(g[i].report /\ OnTrail(g, i, f))
    BY <1>1, <1>2, <2>1 DEF Reports
  <2>3. \A i \in 1 .. Len(g) : i = n \/ i \in 1 .. Len(h) BY <1>1
  <2>4. n \in 1 .. Len(g) /\ g[n].report /\ OnTrail(g, n, f) BY <1>1, <1>3, <1>6
  <2>5. Reports(g, f) = {n} BY <2>2, <2>3, <2>4 DEF Reports
  <2>6. Trail(g, f) BY <1>4, <1>5, <1>6, <2>4, <2>5 DEF Trail
  <2>7. QED BY <2>6 DEF g
<1>7. CASE ~e.report
  <2>1. \A i \in 1 .. Len(g) : i = n \/ i \in 1 .. Len(h) BY <1>1
  <2>2. 1 .. Len(h) \subseteq 1 .. Len(g) BY <1>1
  <2>3. \A i \in 1 .. Len(g) : g[i].report /\ OnTrail(g, i, f)
                               <=> i \in 1 .. Len(h) /\ h[i].report /\ OnTrail(h, i, d)
    <3>1. TAKE i \in 1 .. Len(g)
    <3>2. CASE i \in 1 .. Len(h) BY <1>1, <1>2, <3>2
    <3>3. CASE i \notin 1 .. Len(h) BY <1>1, <1>7, <2>1, <3>3
    <3>4. QED BY <3>2, <3>3
  <2>4. Reports(g, f) = Reports(h, d) BY <2>2, <2>3 DEF Reports
  <2>5. f.reported <=> d.reported BY <1>7
  <2>6. Trail(g, f) BY <1>4, <1>5, <2>2, <2>4, <2>5 DEF Trail
  <2>7. QED BY <2>6 DEF g
<1>8. QED BY <1>6, <1>7

\* An entry that ends every stretch: no report is left.
LEMMA TrailRestarts ==
  ASSUME NEW h \in Seq(Entries), NEW e \in Entries, NEW f,
         Remembers(Append(h, e), f), ~f.reported, ~e.report,
         e.kind = "sample" => f.since <= e.t,
         \A i \in 1 .. Len(h) : ~OnTrail(Append(h, e), i, f)
  PROVE  Trail(Append(h, e), f)
<1> DEFINE g == Append(h, e)
           n == Len(h) + 1
<1>1. Len(g) = n /\ g[n] = e /\ Len(h) \in Nat /\ n = Len(h) + 1 OBVIOUS
<1>2. OnTrail(g, n, f) => e.kind = "sample" BY OnTrailAppend
<1>3. \A i \in 1 .. Len(h) : ~OnTrail(g, i, f) OBVIOUS
<1>4. Remembers(g, f) OBVIOUS
<1> HIDE DEF g, n
<1>5. \A i \in 1 .. Len(g) : i = n \/ i \in 1 .. Len(h) BY <1>1
<1>6. \A i \in 1 .. Len(g) : OnTrail(g, i, f) => f.since <= g[i].t
  BY <1>1, <1>2, <1>3, <1>5
<1>7. \A i \in 1 .. Len(g) : ~(g[i].report /\ OnTrail(g, i, f)) BY <1>1, <1>3, <1>5
<1>8. Reports(g, f) = {} BY <1>7 DEF Reports
<1>9. Trail(g, f) BY <1>4, <1>6, <1>8 DEF Trail
<1>10. QED BY <1>9 DEF g

\* Opens for an earlier entry does not depend on the later ones.
LEMMA OpensPrefix ==
  ASSUME NEW h \in Seq(Entries), NEW e \in Entries, NEW n \in 1 .. Len(h), NEW i \in 1 .. n
  PROVE  Opens(Append(h, e), i, n) <=> Opens(h, i, n)
<1> DEFINE g == Append(h, e)
<1>1. Len(h) \in Nat /\ \A j \in 1 .. Len(h) : g[j] = h[j] OBVIOUS
<1> HIDE DEF g
<1>2. g[i] = h[i] /\ g[n] = h[n] /\ \A j \in i + 1 .. n : g[j] = h[j] BY <1>1
<1>3. Opens(g, i, n) <=> Opens(h, i, n) BY <1>2 DEF Opens, Stretch
<1>4. QED BY <1>3 DEF g

\* Appending an entry leaves the judgements of the earlier ones alone.
LEMMA ToldAppend ==
  ASSUME NEW h \in Seq(Entries), NEW e \in Entries, Told(h),
         Noticed(Append(h, e), Len(h) + 1), ReportedOnceAt(Append(h, e), Len(h) + 1),
         e.report => e.kind = "sample"
  PROVE  Told(Append(h, e))
<1> DEFINE g == Append(h, e)
<1>1. /\ Len(g) = Len(h) + 1 /\ g[Len(h) + 1] = e /\ Len(h) \in Nat
      /\ \A j \in 1 .. Len(h) : g[j] = h[j]
  OBVIOUS
<1>2. Noticed(g, Len(h) + 1) /\ ReportedOnceAt(g, Len(h) + 1) OBVIOUS
<1>3. \A n \in 1 .. Len(h) : \A i \in 1 .. n : Opens(g, i, n) <=> Opens(h, i, n)
  BY OpensPrefix
<1> HIDE DEF g
<1>4. ASSUME NEW n \in 1 .. Len(h)
      PROVE  Noticed(g, n) /\ ReportedOnceAt(g, n) /\ (g[n].report => g[n].kind = "sample")
  <2>1. Noticed(h, n) /\ ReportedOnceAt(h, n) /\ (h[n].report => h[n].kind = "sample")
    BY DEF Told
  <2>2. g[n] = h[n] /\ \A i \in 1 .. n : g[i] = h[i] BY <1>1
  <2>3. n \in Nat /\ 1 .. n - 1 \subseteq 1 .. n BY <1>1
  <2>4. Noticed(g, n) BY <1>3, <2>1, <2>2, <2>3 DEF Noticed
  <2>5. {i \in 1 .. n : g[i].report /\ Opens(g, i, n)}
        = {i \in 1 .. n : h[i].report /\ Opens(h, i, n)}
    BY <1>3, <2>2
  <2>6. ReportedOnceAt(g, n) BY <2>1, <2>2, <2>5 DEF ReportedOnceAt
  <2>7. QED BY <2>1, <2>2, <2>4, <2>6
<1>5. \A n \in 1 .. Len(g) : n = Len(h) + 1 \/ n \in 1 .. Len(h) BY <1>1
<1>6. Told(g) BY <1>1, <1>2, <1>4, <1>5 DEF Told
<1>7. QED BY <1>6 DEF g

\* Entries other than samples are not judged.
LEMMA ToldQuietly ==
  ASSUME NEW h \in Seq(Entries), NEW e \in Entries, Told(h), e.kind # "sample", ~e.report
  PROVE  Told(Append(h, e))
<1>1. Append(h, e)[Len(h) + 1] = e OBVIOUS
<1>2. Noticed(Append(h, e), Len(h) + 1) /\ ReportedOnceAt(Append(h, e), Len(h) + 1)
  BY <1>1 DEF Noticed, ReportedOnceAt
<1>3. QED BY <1>2, ToldAppend

\* A sample is judged rightly by the detector that follows the history up to
\* and including it.
LEMMA ToldSample ==
  ASSUME NEW h \in Seq(Entries), NEW e \in Entries, NEW f, Told(h),
         Trail(Append(h, e), f), e.kind = "sample", Unmoved(e.s, f), f.since \in Int,
         e.stalled => f.reported,
         ~e.stalled => ~Quiet(e.s) \/ e.t - f.since < Threshold
  PROVE  Told(Append(h, e))
<1> DEFINE g == Append(h, e)
           n == Len(h) + 1
<1>1. /\ Len(g) = n /\ g[n] = e /\ Len(h) \in Nat /\ n = Len(h) + 1
      /\ \A j \in 1 .. Len(h) : g[j] = h[j]
  OBVIOUS
<1>2. Trail(g, f) OBVIOUS
<1>3. e.t \in Nat /\ \A i \in 1 .. Len(h) : h[i].t \in Nat /\ h[i] \in Entries
  <2>1. \A x \in Entries : x.t \in Nat BY DEF Entries
  <2>2. QED BY <2>1
<1> HIDE DEF g, n
<1>4. \A i \in 1 .. n : g[i].kind = "sample" => (Opens(g, i, n) <=> OnTrail(g, i, f))
  BY <1>1 DEF Opens, Stretch, OnTrail, Unmoved
<1>5. Noticed(g, n)
  <2>1. SUFFICES ASSUME ~e.stalled, NEW i \in 1 .. n - 1, g[i].kind = "sample",
                        Opens(g, i, n)
                 PROVE  e.t - g[i].t < Threshold
    BY <1>1 DEF Noticed
  <2>2. i \in 1 .. n /\ n \in i + 1 .. n /\ i \in 1 .. Len(h) /\ g[i] = h[i] BY <1>1
  <2>3. Quiet(e.s) BY <1>1, <2>1, <2>2 DEF Opens, Stretch
  <2>4. f.since <= g[i].t BY <1>1, <1>2, <1>4, <2>1, <2>2 DEF Trail
  <2>5. QED BY <1>3, <2>1, <2>2, <2>3, <2>4, DetectorAssumption
<1>6. ReportedOnceAt(g, n)
  <2>1. SUFFICES ASSUME e.stalled
                 PROVE  Cardinality({i \in 1 .. n : g[i].report /\ Opens(g, i, n)}) = 1
    BY <1>1 DEF ReportedOnceAt
  <2>2. PICK k \in 1 .. n : Reports(g, f) = {k} BY <1>1, <1>2, <2>1 DEF Trail
  <2>3. \A i \in 1 .. n : g[i].report => g[i].kind = "sample"
    <3>1. \A i \in 1 .. n : i = n \/ i \in 1 .. Len(h) BY <1>1
    <3>2. QED BY <1>1, <3>1 DEF Told
  <2>4. {i \in 1 .. n : g[i].report /\ Opens(g, i, n)} = Reports(g, f)
    BY <1>1, <1>4, <2>3 DEF Reports
  <2>5. Cardinality({k}) = 1 BY FS_Singleton
  <2>6. QED BY <2>2, <2>4, <2>5
<1>7. QED BY <1>5, <1>6, ToldAppend DEF g, n

\* A history without samples gets none from another entry.
LEMMA NoSample ==
  ASSUME NEW h \in Seq(Entries), NEW e \in Entries, e.kind # "sample",
         \A n \in 1 .. Len(h) : h[n].kind # "sample"
  PROVE  \A n \in 1 .. Len(Append(h, e)) : Append(h, e)[n].kind # "sample"
<1> DEFINE g == Append(h, e)
<1>1. /\ Len(g) = Len(h) + 1 /\ g[Len(h) + 1] = e /\ Len(h) \in Nat
      /\ \A j \in 1 .. Len(h) : g[j] = h[j]
  OBVIOUS
<1> HIDE DEF g
<1>2. \A n \in 1 .. Len(g) : n = Len(h) + 1 \/ n \in 1 .. Len(h) BY <1>1
<1>3. \A n \in 1 .. Len(g) : g[n].kind # "sample" BY <1>1, <1>2
<1>4. QED BY <1>3 DEF g

\* Kicks and vanished FDs leave the stretch alone.
LEMMA FollowsOther ==
  ASSUME NEW h \in Seq(Entries), NEW e \in Entries, NEW d \in Detectors, NEW f,
         Follows(h, d, e.t), e.kind \notin {"error", "sample"}, ~e.report,
         f.since = d.since, Unmoved(f, d), f.reported <=> d.reported, f.have <=> d.have,
         f # None
  PROVE  Follows(Append(h, e), f, e.t)
<1>1. d # None /\ d.since \in Int BY WatchAssumption DEF Detectors
<1>2. d.since <= e.t BY <1>1 DEF Follows
<1>3. CASE d.have
  <2>1. Trail(h, d) BY <1>1, <1>3 DEF Follows
  <2>2. Trail(Append(h, e), f) BY <1>1, <1>2, <2>1, TrailKept
  <2>3. QED BY <1>2, <1>3, <2>2 DEF Follows
<1>4. CASE ~d.have
  <2>1. \A n \in 1 .. Len(h) : h[n].kind # "sample" BY <1>4 DEF Follows
  <2>2. \A n \in 1 .. Len(Append(h, e)) : Append(h, e)[n].kind # "sample"
    BY <2>1, NoSample
  <2>3. QED BY <1>2, <1>4, <2>2 DEF Follows
<1>5. QED BY <1>3, <1>4

\* After an error the stretch begins anew.
LEMMA FollowsError ==
  ASSUME NEW h \in Seq(Entries), NEW e \in Entries, NEW d \in Detectors, NEW f,
         Follows(h, d, e.t), e.kind = "error", ~e.report,
         f.since = e.t, Unmoved(f, d), ~f.reported, f.have <=> d.have,
         f # None
  PROVE  Follows(Append(h, e), f, e.t)
<1>1. d # None /\ e.t \in Nat BY WatchAssumption DEF Entries
<1>2. CASE d.have
  <2>1. Remembers(h, d) BY <1>1, <1>2 DEF Follows, Trail
  <2>2. Remembers(Append(h, e), f) BY <2>1, RemembersAppend
  <2>3. \A i \in 1 .. Len(h) : ~OnTrail(Append(h, e), i, f) BY OnTrailAppend
  <2>4. Trail(Append(h, e), f) BY <2>2, <2>3, TrailRestarts
  <2>5. QED BY <1>1, <1>2, <2>4 DEF Follows
<1>3. CASE ~d.have
  <2>1. \A n \in 1 .. Len(h) : h[n].kind # "sample" BY <1>3 DEF Follows
  <2>2. \A n \in 1 .. Len(Append(h, e)) : Append(h, e)[n].kind # "sample"
    BY <2>1, NoSample
  <2>3. QED BY <1>1, <1>3, <2>2 DEF Follows
<1>4. QED BY <1>2, <1>3

\* A sample at which the age restarts leaves no earlier sample on the trail.
LEMMA NothingLeft ==
  ASSUME NEW h \in Seq(Entries), NEW e \in Entries, NEW d \in Detectors, NEW f, NEW t,
         Follows(h, d, t), e.kind = "sample", Unmoved(e.s, f),
         ~d.have \/ ~Unmoved(d, e.s) \/ ~Quiet(e.s)
  PROVE  \A i \in 1 .. Len(h) : ~OnTrail(Append(h, e), i, f)
<1>1. SUFFICES ASSUME NEW i \in 1 .. Len(h), OnTrail(Append(h, e), i, f) PROVE FALSE
  OBVIOUS
<1>2. d # None BY WatchAssumption
<1>3. OnTrail(h, i, f) /\ Quiet(e.s) BY <1>1, OnTrailAppend
<1>4. d.have BY <1>3 DEF Follows, OnTrail
<1>5. Unmoved(f, d) BY <1>2, <1>3, <1>4, TrailAgrees DEF Follows, Trail
<1>6. QED BY <1>3, <1>4, <1>5 DEF Unmoved

\* TrailInv after a step, from what the step does to each queue.
LEMMA TrailNext ==
  ASSUME \A x \in FD : Told(hist'[x]) /\ Follows(hist'[x], states'[x], now')
  PROVE  TrailInv'
  BY DEF TrailInv, Told, Follows, Noticed, ReportedOnceAt, Opens, Stretch, Trail, OnTrail,
         Remembers, Reports

\* A step that records one entry e for fd, leaves d as its detector and the
\* other queues alone.
LEMMA TrailStep ==
  ASSUME TypeOK, TrailInv, NEW fd \in FD, NEW e \in Entries, NEW d, now' = now,
         Record(fd, e), states' = [states EXCEPT ![fd] = d],
         Told(Append(hist[fd], e)), Follows(Append(hist[fd], e), d, now)
  PROVE  TrailInv'
<1>1. hist \in [FD -> Seq(Entries)] /\ states \in [FD -> Detectors \cup {None}]
  BY DEF TypeOK
<1>2. hist' = [hist EXCEPT ![fd] = Append(hist[fd], e)] BY DEF Record
<1>3. ASSUME NEW x \in FD PROVE Told(hist'[x]) /\ Follows(hist'[x], states'[x], now')
  <2>1. CASE x = fd
    <3>1. hist'[x] = Append(hist[fd], e) /\ states'[x] = d BY <1>1, <1>2, <2>1
    <3>2. QED BY <3>1
  <2>2. CASE x # fd
    <3>1. hist'[x] = hist[x] /\ states'[x] = states[x] BY <1>1, <1>2, <2>2
    <3>2. QED BY <3>1 DEF TrailInv
  <2>3. QED BY <2>1, <2>2
<1>4. QED BY <1>3, TrailNext

\* After the error path nothing is on the trail.
LEMMA UnavailableTrail ==
  ASSUME TypeOK, TrailInv, NEW fd \in FD, NEW d \in Detectors \cup {None},
         Follows(hist[fd], d, now), Unavailable(fd, d)
  PROVE  TrailInv'
<1> DEFINE e == Entry("error", None, FALSE, "none", FALSE)
           f == IF d = None THEN None ELSE Interrupt(d, now)
           h == hist[fd]
<1>1. now \in Nat /\ h \in Seq(Entries) /\ Told(h) BY WatchAssumption DEF TypeOK, TrailInv
<1>2. e \in Entries /\ e.kind = "error" /\ e.t = now /\ ~e.report
  BY <1>1, EntryType DEF Kinds, Events, Entry
<1>3. Record(fd, e) /\ states' = [states EXCEPT ![fd] = f] /\ now' = now
  BY DEF Unavailable, e, f
<1>4. CASE d = None
  <2>1. f = None BY <1>4
  <2>2. \A n \in 1 .. Len(h) : h[n].kind # "sample" BY <1>4 DEF Follows
  <2> HIDE DEF e, f, h
  <2>3. \A n \in 1 .. Len(Append(h, e)) : Append(h, e)[n].kind # "sample"
    BY <1>1, <1>2, <2>2, NoSample
  <2>4. Follows(Append(h, e), f, now) BY <2>1, <2>3 DEF Follows
  <2>5. Told(Append(h, e)) BY <1>1, <1>2, ToldQuietly
  <2>6. QED BY <1>2, <1>3, <2>4, <2>5, TrailStep DEF h
<1>5. CASE d # None
  <2>1. /\ f.since = now /\ Unmoved(f, d) /\ f.have = d.have /\ f.reported = FALSE
        /\ d \in Detectors
    BY <1>5 DEF Interrupt, Detectors, Unmoved
  <2>2. Follows(h, d, now) /\ f # None
    <3>1. Interrupt(d, now) \in Detectors BY <1>1, <2>1, DetectorTypes
    <3>2. QED BY <1>5, <3>1, WatchAssumption
  <2> HIDE DEF e, f, h
  <2>3. Follows(Append(h, e), f, now) BY <1>1, <1>2, <2>1, <2>2, FollowsError
  <2>4. Told(Append(h, e)) BY <1>1, <1>2, ToldQuietly
  <2>5. QED BY <1>2, <1>3, <2>3, <2>4, TrailStep DEF h
<1>6. QED BY <1>4, <1>5

\* What Observe does to the age and the mark of a detector.
LEMMA ObserveTrail ==
  ASSUME NEW d \in Detectors, NEW s \in Samples, NEW t \in Nat
  PROVE  LET o == Observe(d, s, t) IN
         /\ Unmoved(s, o) /\ o.have
         /\ \/ /\ ~d.have \/ ~Unmoved(d, s) \/ ~Quiet(s)
               /\ o.since = t /\ o.reported = FALSE
            \/ /\ d.have /\ Unmoved(d, s) /\ Quiet(s)
               /\ o.since = d.since /\ o.reported = d.reported
<1> DEFINE o == Observe(d, s, t)
<1>1. Unmoved(s, o) /\ o.have BY DEF Observe, Detectors, Unmoved
<1>2. CASE ~d.have \/ ~Unmoved(d, s) \/ ~Quiet(s)
  <2>1. o.since = t /\ o.reported = FALSE BY <1>2 DEF Observe, Detectors
  <2>2. QED BY <1>1, <1>2, <2>1
<1>3. CASE d.have /\ Unmoved(d, s) /\ Quiet(s)
  <2>1. o.since = d.since BY <1>3 DEF Observe, Detectors
  <2>2. d.reported \in BOOLEAN BY DEF Detectors
  <2>3. o.reported = d.reported BY <1>3, <2>2 DEF Observe, Detectors
  <2>4. QED BY <1>1, <1>3, <2>1, <2>3
<1>4. QED BY <1>2, <1>3

\* A detector that has seen nothing follows a history without samples.
LEMMA DetectorOfFollows ==
  ASSUME TypeOK, TrailInv, NEW fd \in FD
  PROVE  DetectorOf(fd) \in Detectors /\ Follows(hist[fd], DetectorOf(fd), now)
<1>1. now \in Nat /\ Follows(hist[fd], states[fd], now)
  BY WatchAssumption DEF TypeOK, TrailInv
<1>2. CASE states[fd] = None
  <2>1. DetectorOf(fd) = NewDetector BY <1>2 DEF DetectorOf
  <2>2. NewDetector.have = FALSE /\ NewDetector.since = 0 BY DEF NewDetector
  <2>3. Follows(hist[fd], NewDetector, now) BY <1>1, <1>2, <2>2 DEF Follows
  <2>4. QED BY <2>1, <2>3, NewDetectorType
<1>3. CASE states[fd] # None BY <1>1, <1>3 DEF DetectorOf, TypeOK
<1>4. QED BY <1>2, <1>3

\* A visit judges its sample rightly and keeps the trail.
LEMMA ReadQueueTrail ==
  ASSUME TypeOK, TrailInv, NEW fd \in FD, NEW s \in Samples, NEW replaced \in BOOLEAN,
         ReadQueue(fd, s, replaced)
  PROVE  TrailInv'
<1> DEFINE d == DetectorOf(fd)
           d0 == Observe(d, s, now)
           stalled == Stalled(d0, s, now)
           d1 == [d0 EXCEPT !.reported = @ \/ stalled]
           d2 == IF Mode = "guarded" /\ stalled THEN Prune(d1, now) ELSE d1
           v == IF replaced THEN None ELSE pending[fd]
           event == Verification(v, s)
           report == stalled /\ ~d0.reported
           e == Entry("sample", s, stalled, event, report)
           h == hist[fd]
<1>1. now \in Nat /\ h \in Seq(Entries) /\ Told(h) BY WatchAssumption DEF TypeOK, TrailInv
<1>2. stalled \in BOOLEAN /\ report \in BOOLEAN BY DEF Stalled, Quiet
<1>3. d \in Detectors /\ Follows(h, d, now) BY DetectorOfFollows
<1>4. d0 \in Detectors BY <1>1, <1>3, ObserveType
<1>5. d2.since = d0.since /\ Unmoved(d2, d0) /\ d2.have = d0.have
  BY <1>4 DEF Prune, Detectors, Unmoved
<1>6. d2.reported = (d0.reported \/ stalled) BY <1>4 DEF Prune, Detectors
<1>7. /\ Unmoved(s, d0) /\ d0.have
      /\ \/ /\ ~d.have \/ ~Unmoved(d, s) \/ ~Quiet(s)
            /\ d0.since = now /\ d0.reported = FALSE
         \/ /\ d.have /\ Unmoved(d, s) /\ Quiet(s)
            /\ d0.since = d.since /\ d0.reported = d.reported
  BY <1>1, <1>3, ObserveTrail
<1>8. d0.since \in Nat /\ d.since \in Nat /\ d # None /\ d2 # None
  <2>1. d0.since \in Nat /\ d.since \in Nat /\ d # None
    BY <1>3, <1>4, WatchAssumption DEF Detectors
  <2>2. d1 \in Detectors
    <3>1. (d0.reported \/ stalled) \in BOOLEAN OBVIOUS
    <3>2. QED BY <1>1, <1>4, <3>1, DetectorTypes
  <2>3. d2 \in Detectors BY <1>1, <2>2, DetectorTypes
  <2>4. QED BY <2>1, <2>3, WatchAssumption
<1>9. stalled <=> Quiet(s) /\ now - d0.since >= Threshold BY DEF Stalled
<1>10. Record(fd, e) /\ states' = [states EXCEPT ![fd] = d2] /\ now' = now
  BY DEF ReadQueue, loop
<1>11. /\ e \in Entries /\ e.kind = "sample" /\ e.t = now /\ e.s = s /\ e.stalled = stalled
       /\ e.report = report
  BY <1>1, <1>2, EntryType, VerificationType DEF Kinds, Entry
<1>12. report <=> stalled /\ ~d0.reported OBVIOUS
<1> HIDE DEF d, d0, d1, d2, stalled, event, report, e, h
<1>13. d0.since <= now BY <1>1, <1>3, <1>7, <1>8 DEF Follows
<1>14. Unmoved(e.s, d2) BY <1>5, <1>7, <1>11 DEF Unmoved
<1>15. Trail(Append(h, e), d2)
  <2>1. CASE /\ ~d.have \/ ~Unmoved(d, s) \/ ~Quiet(s)
             /\ d0.since = now /\ d0.reported = FALSE
    <3>1. ~stalled BY <1>1, <1>9, <2>1, DetectorAssumption
    <3>2. ~e.report /\ ~d2.reported BY <1>6, <1>11, <1>12, <2>1, <3>1
    <3>3. Remembers(Append(h, e), d2) BY <1>1, <1>11, <1>14, RemembersAppend
    <3>4. \A i \in 1 .. Len(h) : ~OnTrail(Append(h, e), i, d2)
      BY <1>1, <1>3, <1>11, <1>14, <2>1, NothingLeft
    <3>5. d2.since <= e.t BY <1>5, <1>11, <1>13
    <3>6. QED BY <1>1, <1>11, <3>2, <3>3, <3>4, <3>5, TrailRestarts
  <2>2. CASE /\ d.have /\ Unmoved(d, s) /\ Quiet(s)
             /\ d0.since = d.since /\ d0.reported = d.reported
    <3>1. Trail(h, d) BY <1>3, <1>8, <2>2 DEF Follows
    <3>2. d2.since = d.since /\ d.since <= e.t BY <1>5, <1>11, <1>13, <2>2
    <3>3. Unmoved(d2, d) /\ Unmoved(e.s, d) BY <1>5, <1>7, <1>11, <2>2 DEF Unmoved
    <3>4. d2.reported <=> d.reported \/ e.report BY <1>6, <1>11, <1>12, <2>2
    <3>5. e.report => ~d.reported BY <1>11, <1>12, <2>2
    <3>6. Quiet(e.s) /\ d.since \in Int BY <1>8, <1>11, <2>2
    <3>7. QED BY <1>1, <1>11, <3>1, <3>2, <3>3, <3>4, <3>5, <3>6, TrailKept
  <2>3. QED BY <1>7, <2>1, <2>2
<1>16. Told(Append(h, e))
  <2>1. e.stalled => d2.reported BY <1>6, <1>11
  <2>2. ~e.stalled => ~Quiet(e.s) \/ e.t - d2.since < Threshold
    BY <1>1, <1>5, <1>8, <1>9, <1>11, DetectorAssumption
  <2>3. d2.since \in Int BY <1>5, <1>8
  <2>4. QED BY <1>1, <1>11, <1>14, <1>15, <2>1, <2>2, <2>3, ToldSample
<1>17. Follows(Append(h, e), d2, now) BY <1>5, <1>7, <1>8, <1>13, <1>15 DEF Follows
<1>18. QED BY <1>10, <1>11, <1>16, <1>17, TrailStep DEF h

\* A kick leaves the trail alone.
LEMMA RekickWritesTrail == ASSUME TypeOK, TrailInv, RekickWrites PROVE TrailInv'
<1> DEFINE fd == row.fd
           d == states[fd]
           f == IF Mode = "guarded" THEN Kicked(d, now) ELSE [d EXCEPT !.lastKick = now]
           e == Entry("kick", row.s, row.stalled, "none", FALSE)
           h == hist[fd]
<1>1. fd \in FD /\ d \in Detectors /\ row.s \in Samples /\ row.stalled \in BOOLEAN
      /\ now \in Nat
  BY WatchAssumption DEF TypeOK, RekickWrites, Rows
<1>2. h \in Seq(Entries) /\ Told(h) /\ Follows(h, d, now) BY <1>1 DEF TypeOK, TrailInv
<1>3. e \in Entries /\ e.kind = "kick" /\ e.t = now /\ ~e.report
  BY <1>1, EntryType DEF Kinds, Events, Entry
<1>4. f.since = d.since /\ f.have = d.have /\ f.reported = d.reported /\ Unmoved(f, d)
  BY <1>1 DEF Kicked, Detectors, Unmoved
<1>5. Record(fd, e) /\ states' = [states EXCEPT ![fd] = f] /\ now' = now
  BY DEF RekickWrites, loop
<1>6. f # None BY <1>1, DetectorTypes, WatchAssumption
<1> HIDE DEF fd, d, e, f, h
<1>7. Follows(Append(h, e), f, now) BY <1>1, <1>2, <1>3, <1>4, <1>6, FollowsOther
<1>8. Told(Append(h, e)) BY <1>2, <1>3, ToldQuietly
<1>9. QED BY <1>1, <1>3, <1>5, <1>7, <1>8, TrailStep DEF h

\* Dropping the vanished FDs leaves the trail alone.
LEMMA EndIterationTrail == ASSUME TypeOK, TrailInv, EndIteration PROVE TrailInv'
<1> DEFINE e == Entry("gone", None, FALSE, "none", FALSE)
           stays(x) == x \in vhosts \/ snapshots[x] = NoIdentity
<1>1. /\ now \in Nat /\ hist \in [FD -> Seq(Entries)]
      /\ states \in [FD -> Detectors \cup {None}]
  BY WatchAssumption DEF TypeOK
<1>2. e \in Entries /\ e.kind = "gone" /\ e.t = now /\ ~e.report
  BY <1>1, EntryType DEF Kinds, Events, Entry
<1> HIDE DEF e, stays
<1>3. /\ hist' = [x \in FD |-> IF stays(x) THEN hist[x] ELSE Append(hist[x], e)]
      /\ states' = states /\ now' = now
  BY DEF EndIteration, e, stays, loop
<1>4. ASSUME NEW x \in FD PROVE Told(hist'[x]) /\ Follows(hist'[x], states'[x], now')
  <2>1. Told(hist[x]) /\ Follows(hist[x], states[x], now) /\ hist[x] \in Seq(Entries)
    BY <1>1 DEF TrailInv
  <2>2. CASE stays(x) BY <1>3, <2>1, <2>2
  <2>3. CASE ~stays(x)
    <3>1. hist'[x] = Append(hist[x], e) BY <1>3, <2>3
    <3>2. Told(Append(hist[x], e)) BY <1>2, <2>1, ToldQuietly
    <3>3. CASE states[x] = None
      <4>1. \A n \in 1 .. Len(hist[x]) : hist[x][n].kind # "sample"
        BY <2>1, <3>3 DEF Follows
      <4>2. \A n \in 1 .. Len(Append(hist[x], e)) : Append(hist[x], e)[n].kind # "sample"
        BY <1>2, <2>1, <4>1, NoSample
      <4>3. Follows(Append(hist[x], e), states[x], now) BY <3>3, <4>2 DEF Follows
      <4>4. QED BY <1>3, <3>1, <3>2, <4>3
    <3>4. CASE states[x] # None
      <4>1. states[x] \in Detectors /\ Unmoved(states[x], states[x])
        BY <1>1, <3>4 DEF Unmoved
      <4>2. Follows(Append(hist[x], e), states[x], now)
        BY <1>2, <2>1, <3>4, <4>1, FollowsOther
      <4>3. QED BY <1>3, <3>1, <3>2, <4>2
    <3>5. QED BY <3>3, <3>4
  <2>4. QED BY <2>2, <2>3
<1>5. QED BY <1>4, TrailNext

\* Every step keeps what every detector knows of its trail.
LEMMA TrailInductive == TypeOK /\ TrailInv /\ [Next]_vars => TrailInv'
<1> SUFFICES ASSUME TypeOK, TrailInv, [Next]_vars PROVE TrailInv' OBVIOUS
<1>1. ASSUME UNCHANGED <<states, hist>>, now' \in Nat, now' >= now PROVE TrailInv'
  <2>1. ASSUME NEW x \in FD PROVE Told(hist'[x]) /\ Follows(hist'[x], states'[x], now')
    <3>1. Told(hist[x]) /\ Follows(hist[x], states[x], now) BY DEF TrailInv
    <3>2. states[x] # None => states[x].since \in Nat BY DEF TypeOK, Detectors
    <3>3. now \in Nat BY WatchAssumption DEF TypeOK
    <3>4. states[x] # None => states[x].since <= now' BY <1>1, <3>1, <3>2, <3>3 DEF Follows
    <3>5. QED BY <1>1, <3>1, <3>4 DEF Follows
  <2>2. QED BY <2>1, TrailNext
<1>2. now \in Nat /\ clock \in Nat /\ now <= clock BY WatchAssumption DEF TypeOK
<1>3. CASE Tick BY <1>1, <1>2, <1>3 DEF Tick, maps, history, loop
<1>4. CASE Cancel BY <1>1, <1>2, <1>4 DEF Cancel, maps, history, loop
<1>5. CASE TopReturns BY <1>1, <1>2, <1>5 DEF TopReturns, Return, maps, history, loop
<1>6. CASE BeginIteration BY <1>1, <1>2, <1>6 DEF BeginIteration, maps, history
<1>7. ASSUME NEW fd \in FD, ReadFails(fd) PROVE TrailInv'
  <2>1. states[fd] \in Detectors \cup {None} /\ Follows(hist[fd], states[fd], now)
    BY DEF TypeOK, TrailInv
  <2>2. QED BY <1>7, <2>1, DetectorOfFollows, UnavailableTrail DEF ReadFails
<1>8. ASSUME NEW fd \in FD, NEW s \in Samples, NEW replaced \in BOOLEAN,
             ReadQueue(fd, s, replaced)
      PROVE  TrailInv'
  BY <1>8, ReadQueueTrail
<1>9. CASE RekickFails
  <2>1. row.fd \in FD BY <1>9 DEF TypeOK, RekickFails, Rows
  <2>2. states[row.fd] \in Detectors \cup {None} /\ Follows(hist[row.fd], states[row.fd], now)
    BY <2>1 DEF TypeOK, TrailInv
  <2>3. QED BY <1>9, <2>1, <2>2, UnavailableTrail DEF RekickFails
<1>10. CASE RekickWrites BY <1>10, RekickWritesTrail
<1>11. CASE EndIteration BY <1>11, EndIterationTrail
<1>12. CASE Wait BY <1>1, <1>2, <1>12 DEF Wait, maps, history, loop
<1>13. CASE Restart
  <2>1. states' = [fd \in FD |-> None] /\ hist' = [fd \in FD |-> <<>>]
    BY <1>13 DEF Restart
  <2>2. ASSUME NEW x \in FD PROVE Told(hist'[x]) /\ Follows(hist'[x], states'[x], now')
    <3>1. states'[x] = None /\ hist'[x] = <<>> /\ 1 .. Len(<<>>) = {} BY <2>1
    <3>2. QED BY <3>1 DEF Told, Follows
  <2>3. QED BY <2>2, TrailNext
<1>14. CASE UNCHANGED vars BY <1>1, <1>2, <1>14 DEF vars, maps, history, loop
<1>15. QED
  BY <1>3, <1>4, <1>5, <1>6, <1>7, <1>8, <1>9, <1>10, <1>11, <1>12, <1>13, <1>14 DEF Next

\* The trail is right in every reachable state.
LEMMA TrailHolds == Spec => [](TypeOK /\ TrailInv)
<1>1. ASSUME Init PROVE TrailInv
  <2>1. \A fd \in FD : states[fd] = None /\ hist[fd] = <<>> BY <1>1 DEF Init
  <2>2. 1 .. Len(<<>>) = {} OBVIOUS
  <2>3. \A fd \in FD : Told(hist[fd]) /\ Follows(hist[fd], states[fd], now)
    BY <2>1, <2>2 DEF Told, Follows
  <2>4. QED BY <2>3 DEF TrailInv
<1>2. QED BY <1>1, TypeCorrect, TrailInductive, PTL DEF Spec

\* No stall slips by: a sample that ends a stretch of Threshold of quiet,
\* unmoved samples is judged stalled, whatever was read before that stretch,
\* whichever kicks were written and FDs lost from discovery meanwhile.
THEOREM NoticedCorrect == Spec => []StallIsNoticed
<1>1. ASSUME TypeOK, TrailInv PROVE StallIsNoticed
  <2>1. \A fd \in FD : DOMAIN hist[fd] = 1 .. Len(hist[fd]) BY <1>1 DEF TypeOK
  <2>2. \A fd \in FD : \A n \in DOMAIN hist[fd] : Noticed(hist[fd], n)
    BY <1>1, <2>1 DEF TrailInv, Told
  <2>3. QED BY <2>2, Zenon DEF StallIsNoticed, Noticed
<1>2. QED BY <1>1, TrailHolds, PTL

\* Every stall is logged exactly once, however long it lasts and however often
\* its queue is kicked or lost from discovery.
THEOREM ReportedOnce == Spec => []StallReportedOnce
<1>1. ASSUME TypeOK, TrailInv PROVE StallReportedOnce
  <2>1. \A fd \in FD : DOMAIN hist[fd] = 1 .. Len(hist[fd]) BY <1>1 DEF TypeOK
  <2>2. \A fd \in FD : \A n \in DOMAIN hist[fd] : ReportedOnceAt(hist[fd], n)
    BY <1>1, <2>1 DEF TrailInv, Told
  <2>3. QED BY <2>2, Zenon DEF StallReportedOnce, ReportedOnceAt
<1>2. QED BY <1>1, TrailHolds, PTL

-----------------------------------------------------------------------------
(* The cadence of periodic kicks. *)

\* The last kick that a detector, or the lack of one, knows of.
LastOf(d) == IF d = None THEN NegInf ELSE d.lastKick

\* l is the time of the last kick of h, NegInf if it has none.
IsLast(h, l) ==
  /\ l = NegInf => \A n \in 1 .. Len(h) : h[n].kind # "kick"
  /\ l # NegInf => /\ \A n \in 1 .. Len(h) : h[n].kind = "kick" => h[n].t <= l
                   /\ \E n \in 1 .. Len(h) : h[n].kind = "kick" /\ h[n].t = l

\* Entry n of h comes KickInterval after every kick before it.
DueAt(h, n) ==
  \A j \in 1 .. n - 1 : h[j].kind = "kick" => h[n].t - h[j].t >= KickInterval

\* The kicks of h are KickInterval apart, and every due sample but the last
\* was followed by a kick or an error.
Punctual(h) ==
  \A n \in 1 .. Len(h) :
    /\ h[n].kind = "kick" => DueAt(h, n)
    /\ h[n].kind = "sample" /\ n < Len(h) /\ DueAt(h, n) => h[n + 1].kind \in {"kick",
                                                                               "error"}

\* h does not end in a sample that is due for a kick.
Served(h) == Len(h) > 0 /\ h[Len(h)].kind = "sample" => ~DueAt(h, Len(h))

\* PeriodicCadence says nothing of the detector, by whose last kick the loop
\* decides, nor of the steps between that decision and the kick: CadenceInv
\* ties the detector to the history and says that only the queue being kicked
\* may owe a kick.
CadenceInv ==
  Mode = "periodic" =>
    /\ \A fd \in FD : IsLast(hist[fd], LastOf(states[fd]))
    /\ pc = "recover" => Elapsed(LastOf(states[row.fd]), KickInterval, now)
    /\ ~cancelled => \A fd \in FD :
         /\ Punctual(hist[fd])
         /\ \/ Served(hist[fd])
            \/ pc = "failed"
            \/ pc = "recover" /\ row.fd = fd

\* What is due at an earlier entry does not depend on the later ones.
LEMMA DuePrefix ==
  ASSUME NEW h \in Seq(Entries), NEW e \in Entries, NEW n \in 1 .. Len(h)
  PROVE  DueAt(Append(h, e), n) <=> DueAt(h, n)
<1> DEFINE g == Append(h, e)
<1>1. Len(h) \in Nat /\ \A j \in 1 .. Len(h) : g[j] = h[j] OBVIOUS
<1> HIDE DEF g
<1>2. g[n] = h[n] /\ \A j \in 1 .. n - 1 : g[j] = h[j] BY <1>1
<1>3. DueAt(g, n) <=> DueAt(h, n) BY <1>2 DEF DueAt
<1>4. QED BY <1>3 DEF g

\* Whether the next entry is due can be told from the last kick alone.
LEMMA DueByLast ==
  ASSUME NEW h \in Seq(Entries), NEW e \in Entries, NEW l \in Times, IsLast(h, l)
  PROVE  DueAt(Append(h, e), Len(h) + 1) <=> Elapsed(l, KickInterval, e.t)
<1> DEFINE g == Append(h, e)
           n == Len(h) + 1
<1>1. /\ g[n] = e /\ Len(h) \in Nat /\ n = Len(h) + 1
      /\ \A j \in 1 .. Len(h) : g[j] = h[j]
  OBVIOUS
<1>2. KickInterval \in Nat BY WatchAssumption
<1>3. e.t \in Nat /\ \A j \in 1 .. Len(h) : h[j].t \in Nat
  <2>1. \A x \in Entries : x.t \in Nat BY DEF Entries
  <2>2. QED BY <2>1
<1> HIDE DEF g, n
<1>4. DueAt(g,
            n) <=> \A j \in 1 .. Len(h) : h[j].kind = "kick" => e.t - h[j].t >= KickInterval
  <2>1. n - 1 = Len(h) BY <1>1
  <2>2. QED BY <1>1, <2>1 DEF DueAt
<1>5. CASE l = NegInf BY <1>4, <1>5 DEF IsLast, Elapsed, g, n
<1>6. CASE l # NegInf
  <2>1. l \in Nat BY <1>6 DEF Times
  <2>2. PICK k \in 1 .. Len(h) : h[k].kind = "kick" /\ h[k].t = l BY <1>6 DEF IsLast
  <2>3. \A j \in 1 .. Len(h) : h[j].kind = "kick" => h[j].t <= l BY <1>6 DEF IsLast
  <2>4. DueAt(g, n) => e.t - l >= KickInterval BY <1>4, <2>2
  <2>5. e.t - l >= KickInterval => DueAt(g, n)
    <3>1. SUFFICES ASSUME e.t - l >= KickInterval,
                          NEW j \in 1 .. Len(h), h[j].kind = "kick"
                   PROVE  e.t - h[j].t >= KickInterval
      BY <1>4
    <3>2. h[j].t <= l /\ h[j].t \in Nat BY <1>3, <2>3, <3>1
    <3>3. QED BY <1>2, <1>3, <2>1, <3>1, <3>2
  <2>6. QED BY <1>6, <2>4, <2>5 DEF Elapsed, g, n
<1>7. QED BY <1>5, <1>6

\* Another entry keeps the cadence if a kick is due and a due sample is not
\* followed by anything but a kick or an error.
LEMMA PunctualAppend ==
  ASSUME NEW h \in Seq(Entries), NEW e \in Entries, Punctual(h),
         e.kind = "kick" => DueAt(Append(h, e), Len(h) + 1),
         Served(h) \/ e.kind \in {"kick", "error"}
  PROVE  Punctual(Append(h, e))
<1> DEFINE g == Append(h, e)
           m == Len(h) + 1
<1>1. /\ Len(g) = m /\ g[m] = e /\ Len(h) \in Nat /\ m = Len(h) + 1
      /\ \A j \in 1 .. Len(h) : g[j] = h[j]
  OBVIOUS
<1>2. \A n \in 1 .. Len(h) : DueAt(g, n) <=> DueAt(h, n) BY DuePrefix
<1>3. e.kind = "kick" => DueAt(g, m) OBVIOUS
<1> HIDE DEF g, m
<1>4. ASSUME NEW n \in 1 .. Len(g)
      PROVE  /\ g[n].kind = "kick" => DueAt(g, n)
             /\ g[n].kind = "sample" /\ n < Len(g) /\ DueAt(g, n) =>
                  g[n + 1].kind \in {"kick", "error"}
  <2>1. CASE n = m BY <1>1, <1>3, <2>1
  <2>2. CASE n = Len(h)
    <3>1. n \in 1 .. Len(h) /\ Len(h) > 0 /\ g[n] = h[n] /\ n + 1 = m BY <1>1, <2>2
    <3>2. g[n].kind = "kick" => DueAt(g, n) BY <1>2, <3>1 DEF Punctual
    <3>3. g[n].kind = "sample" /\ DueAt(g, n) => e.kind \in {"kick", "error"}
      BY <1>2, <2>2, <3>1 DEF Served
    <3>4. QED BY <1>1, <3>1, <3>2, <3>3
  <2>3. CASE n \in 1 .. Len(h) - 1
    <3>1. n \in 1 .. Len(h) /\ n + 1 \in 1 .. Len(h) /\ n < Len(h) BY <1>1, <2>3
    <3>2. g[n] = h[n] /\ g[n + 1] = h[n + 1] BY <1>1, <3>1
    <3>3. QED BY <1>2, <3>1, <3>2 DEF Punctual
  <2>4. QED BY <1>1, <2>1, <2>2, <2>3
<1>5. Punctual(g) BY <1>4 DEF Punctual
<1>6. QED BY <1>5 DEF g

\* The last kick after another entry.
LEMMA IsLastAppend ==
  ASSUME NEW h \in Seq(Entries), NEW e \in Entries, NEW l \in Times, IsLast(h, l)
  PROVE  /\ e.kind # "kick" => IsLast(Append(h, e), l)
         /\ e.kind = "kick" /\ (l # NegInf => l <= e.t) => IsLast(Append(h, e), e.t)
<1> DEFINE g == Append(h, e)
           m == Len(h) + 1
<1>1. /\ Len(g) = m /\ g[m] = e /\ Len(h) \in Nat /\ m = Len(h) + 1
      /\ \A j \in 1 .. Len(h) : g[j] = h[j]
  OBVIOUS
<1>2. e.t \in Nat /\ \A j \in 1 .. Len(h) : h[j].t \in Nat
  <2>1. \A x \in Entries : x.t \in Nat BY DEF Entries
  <2>2. QED BY <2>1
<1> HIDE DEF g, m
<1>3. /\ \A n \in 1 .. Len(g) : n = m \/ n \in 1 .. Len(h)
      /\ m \in 1 .. Len(g) /\ 1 .. Len(h) \subseteq 1 .. Len(g)
  BY <1>1
<1>4. ASSUME e.kind # "kick" PROVE IsLast(g, l) BY <1>1, <1>3, <1>4 DEF IsLast
<1>5. ASSUME e.kind = "kick", l # NegInf => l <= e.t PROVE IsLast(g, e.t)
  <2>1. e.t # NegInf BY <1>2, DetectorAssumption
  <2>2. \A n \in 1 .. Len(h) : h[n].kind = "kick" => h[n].t <= e.t
    <3>1. CASE l = NegInf BY <3>1 DEF IsLast
    <3>2. CASE l # NegInf
      <4>1. l \in Nat /\ l <= e.t BY <1>5, <3>2 DEF Times
      <4>2. \A n \in 1 .. Len(h) : h[n].kind = "kick" => h[n].t <= l BY <3>2 DEF IsLast
      <4>3. QED BY <1>2, <4>1, <4>2
    <3>3. QED BY <3>1, <3>2
  <2>3. QED BY <1>1, <1>2, <1>3, <1>5, <2>1, <2>2 DEF IsLast
<1>6. QED BY <1>4, <1>5 DEF g

\* Only a sample can be owed a kick.
LEMMA ServedByOther ==
  ASSUME NEW h \in Seq(Entries), NEW e \in Entries, e.kind # "sample"
  PROVE  Served(Append(h, e))
<1>1. Len(Append(h, e)) = Len(h) + 1 /\ Append(h, e)[Len(h) + 1] = e OBVIOUS
<1>2. QED BY <1>1 DEF Served

\* CadenceInv after a step, from what the step does to each queue.
LEMMA CadenceNext ==
  ASSUME Mode = "periodic",
         \A x \in FD : IsLast(hist'[x], LastOf(states'[x])),
         pc' = "recover" => Elapsed(LastOf(states'[row'.fd]), KickInterval, now'),
         ~cancelled' => \A x \in FD :
           /\ Punctual(hist'[x])
           /\ Served(hist'[x]) \/ pc' = "failed" \/ (pc' = "recover" /\ row'.fd = x)
  PROVE  CadenceInv'
  BY DEF CadenceInv, IsLast, LastOf, Elapsed, Punctual, Served, DueAt

\* A step of queue fd that records entry e and leaves d as its detector.
LEMMA CadenceStep ==
  ASSUME TypeOK, CadenceInv, Mode = "periodic", NEW fd \in FD, NEW e \in Entries, NEW d,
         pc = "queue" \/ (pc = "recover" /\ row.fd = fd), UNCHANGED cancelled,
         Record(fd, e), states' = [states EXCEPT ![fd] = d],
         IsLast(Append(hist[fd], e), LastOf(d)),
         pc' = "recover" => row'.fd = fd /\ Elapsed(LastOf(d), KickInterval, now'),
         ~cancelled => /\ Punctual(Append(hist[fd], e))
                       /\ Served(Append(hist[fd], e)) \/ pc' \in {"failed", "recover"}
  PROVE  CadenceInv'
<1>1. hist \in [FD -> Seq(Entries)] /\ states \in [FD -> Detectors \cup {None}]
  BY DEF TypeOK
<1>2. hist' = [hist EXCEPT ![fd] = Append(hist[fd], e)] BY DEF Record
<1>3. hist'[fd] = Append(hist[fd], e) /\ states'[fd] = d BY <1>1, <1>2
<1>4. \A x \in FD : x # fd => hist'[x] = hist[x] /\ states'[x] = states[x] BY <1>1, <1>2
<1>5. \A x \in FD : IsLast(hist'[x], LastOf(states'[x])) BY <1>3, <1>4 DEF CadenceInv
<1>6. pc' = "recover" => Elapsed(LastOf(states'[row'.fd]), KickInterval, now') BY <1>3
<1>7. ASSUME ~cancelled', NEW x \in FD
      PROVE  /\ Punctual(hist'[x])
             /\ Served(hist'[x]) \/ pc' = "failed" \/ (pc' = "recover" /\ row'.fd = x)
  <2>1. ~cancelled BY <1>7
  <2>2. CASE x = fd BY <1>3, <2>1, <2>2
  <2>3. CASE x # fd
    <3>1. Punctual(hist[x]) /\ Served(hist[x]) BY <2>1, <2>3 DEF CadenceInv
    <3>2. QED BY <1>4, <2>3, <3>1
  <2>4. QED BY <2>2, <2>3
<1>8. QED BY <1>5, <1>6, <1>7, CadenceNext

\* The error path of a visit, or of the kick, leaves no queue owed a kick.
LEMMA UnavailableCadence ==
  ASSUME TypeOK, CadenceInv, Mode = "periodic", NEW fd \in FD, NEW d \in Detectors \cup {None},
         LastOf(d) = LastOf(states[fd]), Unavailable(fd, d),
         pc = "queue" \/ (pc = "recover" /\ row.fd = fd)
  PROVE  CadenceInv'
<1> DEFINE e == Entry("error", None, FALSE, "none", FALSE)
           f == IF d = None THEN None ELSE Interrupt(d, now)
           h == hist[fd]
<1>1. now \in Nat /\ h \in Seq(Entries) BY WatchAssumption DEF TypeOK
<1>2. e \in Entries /\ e.kind = "error" BY <1>1, EntryType DEF Kinds, Events, Entry
<1>3. LastOf(f) = LastOf(d) /\ LastOf(d) \in Times
  <2>1. CASE d = None BY <2>1 DEF LastOf, Times
  <2>2. CASE d # None
    <3>1. Interrupt(d, now) \in Detectors /\ d \in Detectors BY <1>1, <2>2, DetectorTypes
    <3>2. Interrupt(d, now) # None BY <3>1, WatchAssumption
    <3>3. Interrupt(d, now).lastKick = d.lastKick /\ d.lastKick \in Times
      BY <3>1 DEF Interrupt, Detectors
    <3>4. QED BY <2>2, <3>2, <3>3 DEF LastOf
  <2>3. QED BY <2>1, <2>2
<1>4. Record(fd, e) /\ states' = [states EXCEPT ![fd] = f] /\ pc' # "recover"
      /\ cancelled' = cancelled
  BY DEF Unavailable, env
<1> HIDE DEF e, f, h
<1>5. IsLast(h, LastOf(d)) BY DEF CadenceInv, h
<1>6. IsLast(Append(h, e), LastOf(f)) BY <1>1, <1>2, <1>3, <1>5, IsLastAppend
<1>7. Served(Append(h, e)) BY <1>1, <1>2, ServedByOther
<1>8. ~cancelled => Punctual(Append(h, e))
  BY <1>1, <1>2, PunctualAppend DEF CadenceInv, h
<1>9. QED BY <1>2, <1>4, <1>6, <1>7, <1>8, CadenceStep DEF h

\* A visit decides for a kick exactly if its sample is due.
LEMMA ReadQueueCadence ==
  ASSUME TypeOK, CadenceInv, Mode = "periodic", NEW fd \in FD, NEW s \in Samples,
         NEW replaced \in BOOLEAN, ReadQueue(fd, s, replaced)
  PROVE  CadenceInv'
<1> DEFINE d == DetectorOf(fd)
           d0 == Observe(d, s, now)
           stalled == Stalled(d0, s, now)
           d1 == [d0 EXCEPT !.reported = @ \/ stalled]
           d2 == IF Mode = "guarded" /\ stalled THEN Prune(d1, now) ELSE d1
           v == IF replaced THEN None ELSE pending[fd]
           event == Verification(v, s)
           report == stalled /\ ~d0.reported
           e == Entry("sample", s, stalled, event, report)
           h == hist[fd]
           l == LastOf(states[fd])
<1>1. now \in Nat /\ h \in Seq(Entries) BY WatchAssumption DEF TypeOK
<1>2. stalled \in BOOLEAN /\ report \in BOOLEAN BY DEF Stalled, Quiet
<1>3. e \in Entries /\ e.kind = "sample" /\ e.t = now
  BY <1>1, <1>2, EntryType, VerificationType DEF Kinds, Entry
<1>4. d \in Detectors /\ d.lastKick = l
  BY NewDetectorType DEF DetectorOf, TypeOK, LastOf, NewDetector
<1>5. l \in Times BY <1>4 DEF Detectors
<1>6. d2 = d1 OBVIOUS
<1>7. LastOf(d2) = l
  <2>1. d0 \in Detectors BY <1>1, <1>4, ObserveType
  <2>2. (d0.reported \/ stalled) \in BOOLEAN OBVIOUS
  <2>3. d1 \in Detectors BY <1>1, <2>1, <2>2, DetectorTypes
  <2>4. d1 # None BY <2>3, WatchAssumption
  <2>5. d1.lastKick = d.lastKick BY <1>4, BudgetFields
  <2>6. QED BY <1>4, <1>6, <2>4, <2>5 DEF LastOf
<1>8. d2.lastKick = l BY <1>4, <1>6, BudgetFields
<1>9. /\ Record(fd, e) /\ states' = [states EXCEPT ![fd] = d2] /\ pc = "queue"
      /\ now' = now /\ cancelled' = cancelled
      /\ \/ Wanted(d2, stalled) /\ pc' = "recover" /\ row' = [fd |-> fd, s |-> s,
                                                              stalled |-> stalled]
         \/ ~Wanted(d2, stalled) /\ pc' = pc
         \/ pc' = "failed"
  BY DEF ReadQueue, Turn, env, loop
<1> HIDE DEF d, d0, d1, d2, stalled, v, event, report, e, h, l
<1>10. Wanted(d2, stalled) <=> ~cancelled /\ Elapsed(l, KickInterval, now)
  BY <1>8 DEF Wanted
<1>11. IsLast(h, l) BY DEF CadenceInv, h, l
<1>12. IsLast(Append(h, e), LastOf(d2)) BY <1>1, <1>3, <1>5, <1>7, <1>11, IsLastAppend
<1>13. DueAt(Append(h, e), Len(h) + 1) <=> Elapsed(l, KickInterval, now)
  BY <1>1, <1>3, <1>5, <1>11, DueByLast
<1>14. ~cancelled => Punctual(Append(h, e))
  BY <1>1, <1>3, <1>9, PunctualAppend DEF CadenceInv, h
<1>15. pc' = "recover" => row'.fd = fd /\ Elapsed(LastOf(d2), KickInterval, now')
  BY <1>7, <1>9, <1>10
<1>16. ~cancelled => Served(Append(h, e)) \/ pc' \in {"failed", "recover"}
  <2>1. Len(Append(h, e)) = Len(h) + 1 BY <1>1, <1>3
  <2>2. ~Elapsed(l, KickInterval, now) => Served(Append(h, e)) BY <1>13, <2>1 DEF Served
  <2>3. QED BY <1>9, <1>10, <2>2
<1>17. QED BY <1>3, <1>9, <1>12, <1>14, <1>15, <1>16, CadenceStep DEF h

\* A kick is due when it is written.
LEMMA RekickWritesCadence ==
  ASSUME TypeOK, CadenceInv, Mode = "periodic", RekickWrites PROVE CadenceInv'
<1> DEFINE fd == row.fd
           d == states[fd]
           f == IF Mode = "guarded" THEN Kicked(d, now) ELSE [d EXCEPT !.lastKick = now]
           e == Entry("kick", row.s, row.stalled, "none", FALSE)
           h == hist[fd]
           l == LastOf(d)
<1>1. /\ fd \in FD /\ d \in Detectors /\ row.s \in Samples /\ row.stalled \in BOOLEAN
      /\ now \in Nat /\ pc = "recover"
  BY WatchAssumption DEF TypeOK, RekickWrites, Rows
<1>2. h \in Seq(Entries) /\ IsLast(h, l) BY <1>1 DEF TypeOK, CadenceInv
<1>3. e \in Entries /\ e.kind = "kick" /\ e.t = now
  BY <1>1, EntryType DEF Kinds, Events, Entry
<1>4. l \in Times BY <1>1 DEF LastOf, Detectors, Times
<1>5. LastOf(f) = now
  <2>1. f = [d EXCEPT !.lastKick = now] OBVIOUS
  <2>2. f \in Detectors /\ f.lastKick = now BY <1>1, <2>1, DetectorTypes DEF Detectors
  <2>3. QED BY <2>2, WatchAssumption DEF LastOf
<1>6. Elapsed(l, KickInterval, now) BY <1>1 DEF CadenceInv
<1>7. l # NegInf => l <= now BY <1>1, <1>4, <1>6, WatchAssumption DEF Elapsed, Times
<1>8. /\ Record(fd, e) /\ states' = [states EXCEPT ![fd] = f] /\ pc' # "recover"
      /\ cancelled' = cancelled
  BY DEF RekickWrites, env
<1> HIDE DEF fd, d, e, f, h, l
<1>9. IsLast(Append(h, e), LastOf(f)) BY <1>2, <1>3, <1>4, <1>5, <1>7, IsLastAppend
<1>10. DueAt(Append(h, e), Len(h) + 1) BY <1>2, <1>3, <1>4, <1>6, DueByLast
<1>11. ~cancelled => Punctual(Append(h, e))
  BY <1>1, <1>2, <1>3, <1>10, PunctualAppend DEF CadenceInv, h
<1>12. Served(Append(h, e)) BY <1>2, <1>3, ServedByOther
<1>13. pc = "recover" /\ row.fd = fd BY <1>1 DEF fd
<1>14. QED BY <1>1, <1>3, <1>8, <1>9, <1>11, <1>12, <1>13, CadenceStep DEF h

\* Dropping the vanished FDs leaves the cadence alone.
LEMMA EndIterationCadence ==
  ASSUME TypeOK, CadenceInv, Mode = "periodic", EndIteration PROVE CadenceInv'
<1> DEFINE e == Entry("gone", None, FALSE, "none", FALSE)
           stays(x) == x \in vhosts \/ snapshots[x] = NoIdentity
<1>1. /\ now \in Nat /\ hist \in [FD -> Seq(Entries)]
      /\ states \in [FD -> Detectors \cup {None}]
  BY WatchAssumption DEF TypeOK
<1>2. e \in Entries /\ e.kind = "gone" BY <1>1, EntryType DEF Kinds, Events, Entry
<1> HIDE DEF e, stays
<1>3. /\ hist' = [x \in FD |-> IF stays(x) THEN hist[x] ELSE Append(hist[x], e)]
      /\ states' = states /\ pc = "queue" /\ pc' # "recover" /\ cancelled' = cancelled
  BY DEF EndIteration, e, stays, env
<1>4. ASSUME NEW x \in FD
      PROVE  /\ IsLast(hist'[x], LastOf(states'[x]))
             /\ ~cancelled => Punctual(hist'[x]) /\ Served(hist'[x])
  <2>1. /\ hist[x] \in Seq(Entries) /\ IsLast(hist[x], LastOf(states[x]))
        /\ ~cancelled => Punctual(hist[x]) /\ Served(hist[x])
    BY <1>1, <1>3 DEF CadenceInv
  <2>2. CASE stays(x) BY <1>3, <2>1, <2>2
  <2>3. CASE ~stays(x)
    <3>1. hist'[x] = Append(hist[x], e) BY <1>3, <2>3
    <3>2. LastOf(states[x]) \in Times BY <1>1 DEF LastOf, Detectors, Times
    <3>3. IsLast(Append(hist[x], e), LastOf(states[x])) BY <1>2, <2>1, <3>2, IsLastAppend
    <3>4. Served(Append(hist[x], e)) BY <1>2, <2>1, ServedByOther
    <3>5. ~cancelled => Punctual(Append(hist[x], e)) BY <1>2, <2>1, PunctualAppend
    <3>6. QED BY <1>3, <3>1, <3>3, <3>4, <3>5
  <2>4. QED BY <2>2, <2>3
<1>5. QED BY <1>3, <1>4, CadenceNext

\* Every step keeps the cadence.
LEMMA CadenceInductive == TypeOK /\ CadenceInv /\ [Next]_vars => CadenceInv'
<1> SUFFICES ASSUME TypeOK, CadenceInv, [Next]_vars, Mode = "periodic" PROVE CadenceInv'
  BY DEF CadenceInv
<1>1. ASSUME UNCHANGED <<states, hist>>, ~cancelled' => ~cancelled,
             \/ UNCHANGED <<pc, row, now>>
             \/ pc \notin {"recover", "failed"} /\ pc' # "recover"
      PROVE  CadenceInv'
  <2>1. \A x \in FD : IsLast(hist'[x], LastOf(states'[x])) BY <1>1 DEF CadenceInv
  <2>2. pc' = "recover" => Elapsed(LastOf(states'[row'.fd]), KickInterval, now')
    BY <1>1 DEF CadenceInv
  <2>3. ~cancelled' => \A x \in FD :
          /\ Punctual(hist'[x])
          /\ Served(hist'[x]) \/ pc' = "failed" \/ (pc' = "recover" /\ row'.fd = x)
    BY <1>1 DEF CadenceInv
  <2>4. QED BY <2>1, <2>2, <2>3, CadenceNext
<1>2. CASE Tick BY <1>1, <1>2 DEF Tick, maps, history, loop
<1>3. CASE Cancel BY <1>1, <1>3 DEF Cancel, maps, history, loop
<1>4. CASE TopReturns BY <1>1, <1>4 DEF TopReturns, Return, env, maps, history
<1>5. CASE BeginIteration BY <1>1, <1>5 DEF BeginIteration, env, maps, history
<1>6. ASSUME NEW fd \in FD, ReadFails(fd) PROVE CadenceInv'
  <2>1. states[fd] \in Detectors \cup {None} /\ DetectorOf(fd) \in Detectors
    BY NewDetectorType DEF TypeOK, DetectorOf
  <2>2. LastOf(DetectorOf(fd)) = LastOf(states[fd])
    <3>1. NewDetector # None /\ NewDetector.lastKick = NegInf
      BY NewDetectorType, WatchAssumption DEF NewDetector
    <3>2. QED BY <3>1 DEF DetectorOf, LastOf
  <2>3. QED BY <1>6, <2>1, <2>2, UnavailableCadence DEF ReadFails, Turn
<1>7. ASSUME NEW fd \in FD, NEW s \in Samples, NEW replaced \in BOOLEAN,
             ReadQueue(fd, s, replaced)
      PROVE  CadenceInv'
  BY <1>7, ReadQueueCadence
<1>8. CASE RekickFails
  <2>1. row.fd \in FD /\ states[row.fd] \in Detectors \cup {None}
    BY <1>8 DEF TypeOK, RekickFails, Rows
  <2>2. QED BY <1>8, <2>1, UnavailableCadence DEF RekickFails
<1>9. CASE RekickWrites BY <1>9, RekickWritesCadence
<1>10. CASE EndIteration BY <1>10, EndIterationCadence
<1>11. CASE Wait BY <1>1, <1>11 DEF Wait, env, maps, history
<1>12. CASE Restart
  <2>1. /\ states' = [fd \in FD |-> None] /\ hist' = [fd \in FD |-> <<>>]
        /\ pc' = "top"
    BY <1>12 DEF Restart
  <2>2. \A x \in FD : states'[x] = None /\ hist'[x] = <<>> BY <2>1
  <2>3. IsLast(<<>>, NegInf) /\ Punctual(<<>>) /\ Served(<<>>)
    BY DEF IsLast, Punctual, Served
  <2>4. QED BY <2>1, <2>2, <2>3, CadenceNext DEF LastOf
<1>13. CASE UNCHANGED vars BY <1>1, <1>13 DEF vars, env, loop, maps, history
<1>14. QED
  BY <1>2, <1>3, <1>4, <1>5, <1>6, <1>7, <1>8, <1>9, <1>10, <1>11, <1>12, <1>13 DEF Next

\* In periodic mode a queue is kicked neither early nor late: the kicks of an
\* FD are KickInterval apart whatever was replaced, failed or lost between
\* them, and no due sample passes without its kick.
THEOREM CadenceCorrect == Spec => []PeriodicCadence
<1>1. ASSUME Init PROVE CadenceInv
  <2>1. \A x \in FD : states[x] = None /\ hist[x] = <<>> BY <1>1 DEF Init
  <2>2. IsLast(<<>>, NegInf) /\ Punctual(<<>>) /\ Served(<<>>)
    BY DEF IsLast, Punctual, Served
  <2>3. pc = "top" BY <1>1 DEF Init
  <2>4. QED BY <2>1, <2>2, <2>3 DEF CadenceInv, LastOf
<1>2. ASSUME TypeOK, CadenceInv PROVE PeriodicCadence
  <2>1. SUFFICES ASSUME Mode = "periodic", ~cancelled, NEW fd \in FD, NEW n \in DOMAIN hist[fd]
                 PROVE  LET h == hist[fd] IN
                        /\ h[n].kind = "kick" =>
                             \A k \in KicksBefore(h, n) : h[n].t - k >= KickInterval
                        /\ /\ h[n].kind = "sample" /\ n < Len(h)
                           /\ \A k \in KicksBefore(h, n) : h[n].t - k >= KickInterval
                           => h[n + 1].kind \in {"kick", "error"}
    BY DEF PeriodicCadence
  <2> DEFINE h == hist[fd]
  <2>2. n \in 1 .. Len(h) BY <1>2 DEF TypeOK
  <2>3. Punctual(h) BY <1>2, <2>1 DEF CadenceInv
  <2> HIDE DEF h
  <2>4. (\A k \in KicksBefore(h, n) : h[n].t - k >= KickInterval) <=> DueAt(h, n)
    BY DEF KicksBefore, DueAt
  <2>5. QED BY <2>2, <2>3, <2>4 DEF Punctual, h
<1>3. QED BY <1>1, <1>2, TypeCorrect, CadenceInductive, PTL DEF Spec
=============================================================================
