---------------------------- MODULE BatchedProofs ----------------------------
(***************************************************************************)
(* Proofs about the batched loop (module Batched), for every set of queues *)
(* and readings, every configuration and every bound.                      *)
(***************************************************************************)
EXTENDS Batched, FiniteSetTheorems, TLAPS

(* Queues. *)

\* The age of a queue after a reading of its ring, and what it keeps.
LEMMA PolledFields ==
  ASSUME NEW q \in Queues, NEW r \in Rings
  PROVE  LET p == Polled(q, r) IN
         /\ p.snapshot = q.snapshot /\ p.verification = q.verification
         /\ p.used = r.used /\ p.eligible = Eligible(r, q.snapshot.num)
         /\ p.since = IF q.eligible /\ p.eligible /\ q.used = r.used THEN q.since ELSE now
         /\ IF Ready(p, now) THEN p.candidate = q.candidate /\ p.reported = q.reported
                             ELSE p.candidate = None /\ p.reported = FALSE
<1> DEFINE g == Progress(q, r, now)
           p == Polled(q, r)
           u == [g EXCEPT !.candidate = None, !.reported = FALSE]
<1>1. /\ g.snapshot = q.snapshot /\ g.verification = q.verification
      /\ g.used = r.used /\ g.eligible = Eligible(r, q.snapshot.num)
      /\ g.since = IF q.eligible /\ g.eligible /\ q.used = r.used THEN q.since ELSE now
      /\ g.candidate = q.candidate /\ g.reported = q.reported
  BY DEF Progress, Queues
<1>2. /\ u.snapshot = g.snapshot /\ u.verification = g.verification
      /\ u.used = g.used /\ u.eligible = g.eligible /\ u.since = g.since
      /\ u.candidate = None /\ u.reported = FALSE
  BY DEF Progress, Queues
<1>3. p = IF Ready(g, now) THEN g ELSE u BY DEF Polled
<1> HIDE DEF g, u, p
<1>4. Ready(p, now) <=> Ready(g, now) BY <1>2, <1>3 DEF Ready
<1>5. CASE Ready(g, now) BY <1>1, <1>3, <1>4, <1>5 DEF p
<1>6. CASE ~Ready(g, now) BY <1>1, <1>2, <1>3, <1>4, <1>6 DEF p
<1>7. QED BY <1>5, <1>6

\* The two of them that need no case.
LEMMA PolledRing ==
  ASSUME NEW q \in Queues, NEW r \in Rings
  PROVE  Polled(q, r).used = r.used /\ Polled(q, r).eligible = Eligible(r, q.snapshot.num)
  BY PolledFields

\* A reading of the ring leaves a queue.
LEMMA PolledType ==
  ASSUME NEW q \in Queues, NEW r \in Rings, now \in Nat
  PROVE  Polled(q, r) \in Queues
<1>1. r.used \in Indices BY BatchedAssumption DEF Indices
<1>2. Eligible(r, q.snapshot.num) \in BOOLEAN BY DEF Eligible
<1>3. Progress(q, r, now) \in Queues BY <1>1, <1>2 DEF Progress, Queues
<1>4. \A p \in Queues : [p EXCEPT !.candidate = None, !.reported = FALSE] \in Queues
  BY DEF Queues
<1>5. QED BY <1>3, <1>4 DEF Polled

\* What giving up a confirmation, or all, leaves of a queue.
LEMMA ResetFields ==
  ASSUME NEW q \in Queues, NEW t \in Nat
  PROVE  /\ Reset(q, t) \in Queues /\ Abandon(q, t) \in Queues
         /\ Reset(q, t).snapshot = q.snapshot /\ Abandon(q, t).snapshot = q.snapshot
         /\ ~Reset(q, t).eligible /\ ~Abandon(q, t).eligible
         /\ Reset(q, t).candidate = None /\ Abandon(q, t).candidate = None
         /\ ~Reset(q, t).reported /\ ~Abandon(q, t).reported
         /\ Reset(q, t).verification = q.verification
         /\ Abandon(q, t).verification = None
<1>1. /\ Reset(q, t) \in Queues /\ Reset(q, t).snapshot = q.snapshot
      /\ ~Reset(q, t).eligible /\ Reset(q, t).candidate = None
      /\ ~Reset(q, t).reported /\ Reset(q, t).verification = q.verification
  BY DEF Reset, Queues
<1>2. \A p \in Queues : LET o == [p EXCEPT !.verification = None] IN
        /\ o \in Queues /\ o.snapshot = p.snapshot /\ o.eligible = p.eligible
        /\ o.candidate = p.candidate /\ o.reported = p.reported
        /\ o.verification = None
  BY DEF Queues
<1>3. QED BY <1>1, <1>2 DEF Abandon

\* A kick leaves all of a queue but what it is to be verified by.
LEMMA VerifyFields ==
  ASSUME NEW q \in Queues, NEW s \in Samples, now \in Nat
  PROVE  LET o == Verify(q, s) IN
         /\ o \in Queues /\ o.snapshot = q.snapshot /\ o.since = q.since
         /\ o.used = q.used /\ o.eligible = q.eligible /\ o.reported = q.reported
         /\ o.candidate = None
         /\ o.verification = [at |-> now, used |-> s.used, consumed |-> s.consumed]
<1>1. [at |-> now, used |-> s.used, consumed |-> s.consumed] \in Verifications
  BY BatchedAssumption DEF Verifications, Indices
<1>2. QED BY <1>1 DEF Verify, Queues

\* A queue that was just found.
LEMMA NewQueueFields ==
  ASSUME NEW s \in Snapshots
  PROVE  LET o == NewQueue(s) IN
         /\ o \in Queues /\ o.snapshot = s /\ ~o.eligible /\ ~o.reported
         /\ o.candidate = None /\ o.verification = None
  BY DetectorAssumption DEF NewQueue, Queues, Indices

\* A queue found again: all but the snapshot is kept, and its identity is too.
LEMMA RefreshedFields ==
  ASSUME NEW q \in Queues, NEW s \in Snapshots
  PROVE  LET o == [q EXCEPT !.snapshot = s] IN
         /\ o \in Queues /\ o.snapshot = s /\ o.since = q.since /\ o.used = q.used
         /\ o.eligible = q.eligible /\ o.reported = q.reported
         /\ o.candidate = q.candidate /\ o.verification = q.verification
  BY DEF Queues

\* One identity has one ring size.
LEMMA SameSize ==
  ASSUME NEW a \in Snapshots \cup Samples, NEW b \in Snapshots \cup Samples,
         a.identity = b.identity
  PROVE  a.num = b.num
<1>1. \A c \in Snapshots \cup Samples : \E s \in Samples : c.identity = s.identity /\ c.num = s.num
  BY DEF Snapshots
<1>2. QED BY <1>1, BatchedAssumption

\* The verdict of a live reading on a queue whose ring has been read.
LEMMA JudgedFields ==
  ASSUME NEW p \in Queues, NEW r \in Rings, NEW s \in Samples, now \in Nat
  PROVE  LET o == Judged(p, r, s) IN
         /\ o \in Queues /\ o.snapshot = p.snapshot
         /\ o.verification = p.verification
         /\ \/ /\ Ready(p, now) /\ (Agrees(r, s) => /\ p.candidate # None
                                                   /\ ~Confirms(p.candidate, s))
               /\ ~o.eligible /\ o.candidate = None /\ ~o.reported
            \/ /\ o.eligible = p.eligible /\ o.since = p.since /\ o.used = p.used
               /\ \/ ~Ready(p, now) /\ o.candidate = p.candidate /\ o.reported = p.reported
                  \/ /\ Ready(p, now) /\ Agrees(r, s) /\ p.candidate = None
                     /\ o.candidate = Candidate(s) /\ o.reported = p.reported
                  \/ /\ Ready(p, now) /\ Agrees(r, s) /\ p.candidate # None
                     /\ Confirms(p.candidate, s)
                     /\ o.candidate = p.candidate /\ o.reported
<1> DEFINE o == Judged(p, r, s)
<1>1. CASE ~Ready(p, now)
  <2>1. o = p BY <1>1 DEF Judged
  <2>2. QED BY <1>1, <2>1
<1>2. CASE Ready(p, now) /\ ~Agrees(r, s)
  <2>1. o = Reset(p, now) BY <1>2 DEF Judged
  <2>2. /\ o \in Queues /\ o.snapshot = p.snapshot /\ o.verification = p.verification
        /\ ~o.eligible /\ o.candidate = None /\ ~o.reported
    <3> HIDE DEF o
    <3>1. QED BY <2>1, ResetFields
  <2>3. QED BY <1>2, <2>2
<1>3. CASE Ready(p, now) /\ Agrees(r, s) /\ p.candidate = None
  <2>1. o = [p EXCEPT !.candidate = Candidate(s)] BY <1>3 DEF Judged
  <2>2. Candidate(s) \in Candidates
    BY BatchedAssumption DEF Candidate, Candidates, Identities, Indices
  <2>3. /\ o \in Queues /\ o.snapshot = p.snapshot /\ o.verification = p.verification
        /\ o.eligible = p.eligible /\ o.since = p.since /\ o.used = p.used
        /\ o.candidate = Candidate(s) /\ o.reported = p.reported
    BY <2>1, <2>2 DEF Queues
  <2>4. QED BY <1>3, <2>3
<1>4. CASE Ready(p, now) /\ Agrees(r, s) /\ p.candidate # None
  <2>1. CASE Confirms(p.candidate, s)
    <3>1. o = [p EXCEPT !.reported = TRUE] BY <1>4, <2>1 DEF Judged
    <3>2. /\ o \in Queues /\ o.snapshot = p.snapshot /\ o.verification = p.verification
          /\ o.eligible = p.eligible /\ o.since = p.since /\ o.used = p.used
          /\ o.candidate = p.candidate /\ o.reported
      BY <3>1 DEF Queues
    <3>3. QED BY <1>4, <2>1, <3>2
  <2>2. CASE ~Confirms(p.candidate, s)
    <3>1. o = Reset(p, now) BY <1>4, <2>2 DEF Judged
    <3>2. /\ o \in Queues /\ o.snapshot = p.snapshot /\ o.verification = p.verification
          /\ ~o.eligible /\ o.candidate = None /\ ~o.reported
      <4> HIDE DEF o
      <4>1. QED BY <3>1, ResetFields
    <3>3. QED BY <1>4, <2>2, <3>2
  <2>3. QED BY <2>1, <2>2
<1>5. QED BY <1>1, <1>2, <1>3, <1>4

-----------------------------------------------------------------------------
(* A visit with a live reading. *)

\* The verdict of Live.
SeenStalled(p, r, s) ==
  Ready(p, now) /\ Agrees(r, s) /\ p.candidate # None /\ Confirms(p.candidate, s)

\* The queue it leaves.
AfterLive(p, r, s) ==
  [Judged(p, r, s) EXCEPT !.verification =
     IF Verification(p.verification, s) = "none" THEN @ ELSE None]

\* The budget it leaves.
AfterPrune(b, p, r, s) == IF SeenStalled(p, r, s) THEN Prune(b, now) ELSE b

\* What it records.
LiveEntry(p, r, s) ==
  Entry("visit", r, s, SeenStalled(p, r, s), Verification(p.verification, s),
        SeenStalled(p, r, s) /\ ~p.reported)

\* What Live does, in these terms.
LEMMA LiveEffect ==
  ASSUME NEW fd \in FD, NEW r \in Rings, NEW s \in Samples, Live(fd, r, s)
  PROVE  LET p == Polled(queues[fd], r)
             b == AfterPrune(budgets[fd], p, r, s)
         IN
         /\ pc = "queue" /\ fd \in todo /\ s.identity = p.snapshot.identity
         /\ queues' = [queues EXCEPT ![fd] = AfterLive(p, r, s)]
         /\ budgets' = [budgets EXCEPT ![fd] = b]
         /\ Record(fd, LiveEntry(p, r, s))
         /\ UNCHANGED <<env, loop, kicks>>
         /\ \/ /\ SeenStalled(p, r, s) /\ Allowed(b, now)
               /\ pc' = "recover" /\ row' = [fd |-> fd, s |-> s] /\ UNCHANGED todo
            \/ todo' = todo \ {fd} /\ UNCHANGED <<pc, row>>
  BY DEF Live, Turn, AfterPrune, AfterLive, LiveEntry, SeenStalled

\* The queue after a live reading: its verification apart, it is Judged.
LEMMA AfterLiveFields ==
  ASSUME NEW p \in Queues, NEW r \in Rings, NEW s \in Samples, now \in Nat
  PROVE  LET o == AfterLive(p, r, s)
             j == Judged(p, r, s)
         IN
         /\ o \in Queues /\ o.snapshot = j.snapshot /\ o.since = j.since
         /\ o.used = j.used /\ o.eligible = j.eligible /\ o.reported = j.reported
         /\ o.candidate = j.candidate
         /\ o.verification = IF Verification(p.verification, s) = "none"
                             THEN p.verification ELSE None
<1>1. Judged(p, r, s) \in Queues /\ Judged(p, r, s).verification = p.verification
  BY JudgedFields
<1>2. QED BY <1>1 DEF AfterLive, Queues

-----------------------------------------------------------------------------
(* Types. *)

\* A stall is marked as reported only while the ring is without progress.
Aged(q, t) == q.reported => q.eligible /\ t - q.since >= Threshold

\* The operations on a budget.
LEMMA BudgetTypes ==
  /\ NewDetector \in Budgets
  /\ \A b \in Budgets : \A t \in Nat :
       Prune(b, t) \in Budgets /\ Kicked(b, t) \in Budgets
  BY DEF NewDetector, Budgets, Prune, Kicked

\* The event of a live reading.
LEMMA VerificationType ==
  ASSUME NEW v, NEW s
  PROVE  Verification(v, s) \in {"none", "recovered", "recovery_unconfirmed"}
  BY DEF Verification

\* An entry that one of the actions records.
LEMMA EntryType ==
  ASSUME NEW kind \in {"visit", "kick", "error", "replaced"}, NEW ring \in Rings \cup {None},
         NEW live \in Samples \cup {None}, NEW stalled \in BOOLEAN,
         NEW event \in {"none", "recovered", "recovery_unconfirmed"},
         NEW report \in BOOLEAN, now \in Nat
  PROVE  Entry(kind, ring, live, stalled, event, report) \in Entries
  BY DEF Entry, Entries

\* A live reading records an entry.
LEMMA LiveEntryType ==
  ASSUME NEW p \in Queues, NEW r \in Rings, NEW s \in Samples, now \in Nat
  PROVE  LiveEntry(p, r, s) \in Entries
<1>1. SeenStalled(p, r, s) \in BOOLEAN /\ (SeenStalled(p, r, s) /\ ~p.reported) \in BOOLEAN
  BY DEF SeenStalled
<1>2. QED BY <1>1, VerificationType, EntryType DEF LiveEntry

\* So do the other visits.
LEMMA NoteType ==
  ASSUME now \in Nat, NEW r \in Rings
  PROVE  /\ Note("error") \in Entries
         /\ \A t \in Nat : [Note("replaced") EXCEPT !.t = t] \in Entries
         /\ Entry("visit", r, None, FALSE, "none", FALSE) \in Entries
<1>1. Note("error") \in Entries /\ Note("replaced") \in Entries BY EntryType DEF Note
<1>2. \A e \in Entries : \A t \in Nat : [e EXCEPT !.t = t] \in Entries BY DEF Entries
<1>3. QED BY <1>1, <1>2, EntryType

\* Recording an entry keeps the histories.
LEMMA RecordType ==
  ASSUME hist \in [FD -> Seq(Entries)], NEW fd \in FD, NEW e \in Entries, Record(fd, e)
  PROVE  hist' \in [FD -> Seq(Entries)]
<1>1. Append(hist[fd], e) \in Seq(Entries) OBVIOUS
<1>2. QED BY <1>1 DEF Record

\* A step that leaves queue q on one FD that is being visited.
LEMMA VisitType ==
  ASSUME TypeOK, NEW fd \in todo, NEW q \in Queues, Aged(q, now), NEW e \in Entries,
         queues' = [queues EXCEPT ![fd] = q], Record(fd, e),
         UNCHANGED <<env, now>>, lastInventory' \in {lastInventory, NegInf},
         budgets' \in [FD -> Budgets \cup {None}],
         \A x \in FD : budgets'[x] = None => budgets[x] = None,
         kicks' \in [FD -> SUBSET Nat],
         \/ todo' = todo \ {fd} /\ pc' = "queue" /\ row' = None
         \/ /\ todo' = todo /\ pc' = "recover"
            /\ row' \in Rows /\ row'.fd = fd
  PROVE  TypeOK'
<1>1. fd \in FD /\ queues \in [FD -> Queues \cup {None}] BY DEF TypeOK
<1>2. /\ queues' \in [FD -> Queues \cup {None}] /\ queues'[fd] = q /\ q # None
      /\ \A x \in FD \ {fd} : queues'[x] = queues[x]
  BY <1>1, BatchedAssumption
<1>3. todo' \subseteq {x \in FD : queues'[x] # None} BY <1>1, <1>2 DEF TypeOK
<1>4. hist' \in [FD -> Seq(Entries)] BY <1>1, RecordType DEF TypeOK
<1>5. ASSUME NEW x \in FD, queues'[x] # None
      PROVE  budgets'[x] # None /\ Aged(queues'[x], now)
  <2>1. queues[x] # None BY <1>2, <1>5 DEF TypeOK
  <2>2. QED BY <1>2, <2>1 DEF TypeOK, Aged
<1>6. /\ row' \in Rows \cup {None} /\ (pc' = "recover" <=> row' # None)
      /\ row' # None => row'.fd \in todo'
  BY BatchedAssumption
<1>7. /\ clock' \in 0 .. MaxClock /\ now' \in 0 .. clock' /\ cancelled' \in BOOLEAN
      /\ lastInventory' \in Nat \cup {NegInf}
      /\ pc' \in {"top", "batch", "queue", "recover", "summary", "wait", "stopped", "failed"}
  BY DEF TypeOK, env
<1>8. QED BY <1>2, <1>3, <1>4, <1>5, <1>6, <1>7 DEF TypeOK, Aged

\* The error path of a visit keeps the types.
LEMMA UnavailableType ==
  ASSUME TypeOK, NEW fd \in todo, NEW q \in Queues, Unavailable(fd, q), UNCHANGED budgets
  PROVE  TypeOK'
<1>1. now \in Nat BY BatchedAssumption DEF TypeOK
<1>2. Abandon(q, now) \in Queues /\ Aged(Abandon(q, now), now)
  BY <1>1, ResetFields DEF Aged
<1>3. Note("error") \in Entries BY <1>1, EntryType DEF Note
<1>4. /\ queues' = [queues EXCEPT ![fd] = Abandon(q, now)] /\ Record(fd, Note("error"))
      /\ UNCHANGED <<env, now, kicks>> /\ lastInventory' = NegInf
      /\ todo' = todo \ {fd} /\ pc' = "queue" /\ row' = None
  BY DEF Unavailable
<1>5. /\ budgets' \in [FD -> Budgets \cup {None}] /\ kicks' \in [FD -> SUBSET Nat]
      /\ \A x \in FD : budgets'[x] = None => budgets[x] = None
  BY <1>4 DEF TypeOK
<1>6. QED BY <1>2, <1>3, <1>4, <1>5, VisitType

\* A queue that is being visited.
LEMMA VisitedQueue ==
  ASSUME TypeOK, NEW fd \in todo, NEW r \in Rings
  PROVE  /\ fd \in FD /\ now \in Nat /\ queues[fd] \in Queues /\ queues[fd] # None
         /\ budgets[fd] \in Budgets /\ Aged(queues[fd], now)
         /\ Polled(queues[fd], r) \in Queues /\ Aged(Polled(queues[fd], r), now)
<1>1. /\ fd \in FD /\ now \in Nat /\ queues[fd] \in Queues /\ queues[fd] # None
      /\ budgets[fd] \in Budgets /\ Aged(queues[fd], now)
  BY BatchedAssumption DEF TypeOK, Aged
<1>2. Polled(queues[fd], r) \in Queues BY <1>1, PolledType
<1>3. Aged(Polled(queues[fd], r), now) BY <1>1, PolledFields DEF Aged, Ready
<1>4. QED BY <1>1, <1>2, <1>3

\* A visit that stops after the ring keeps the types.
LEMMA SkipType ==
  ASSUME TypeOK, NEW fd \in FD, NEW r \in Rings, Skip(fd, r) PROVE TypeOK'
<1> DEFINE p == Polled(queues[fd], r)
           e == Entry("visit", r, None, FALSE, "none", FALSE)
<1>1. fd \in todo BY DEF Skip, Turn
<1>2. p \in Queues /\ Aged(p, now) /\ now \in Nat BY <1>1, VisitedQueue
<1>3. e \in Entries BY <1>2, NoteType
<1> HIDE DEF p, e
<1>4. /\ queues' = [queues EXCEPT ![fd] = p] /\ Record(fd, e)
      /\ UNCHANGED <<env, loop, budgets, kicks>>
      /\ todo' = todo \ {fd} /\ pc' = "queue" /\ row' = row /\ pc = "queue"
  BY DEF Skip, Turn, p, e
<1>5. /\ budgets' \in [FD -> Budgets \cup {None}] /\ kicks' \in [FD -> SUBSET Nat]
      /\ \A x \in FD : budgets'[x] = None => budgets[x] = None
      /\ row' = None /\ UNCHANGED now /\ UNCHANGED lastInventory
  BY <1>4 DEF TypeOK, loop
<1>6. QED BY <1>1, <1>2, <1>3, <1>4, <1>5, VisitType

\* A visit with a live reading keeps the types.
LEMMA LiveType ==
  ASSUME TypeOK, NEW fd \in FD, NEW r \in Rings, NEW s \in Samples, Live(fd, r, s)
  PROVE  TypeOK'
<1> DEFINE p == Polled(queues[fd], r)
           b == AfterPrune(budgets[fd], p, r, s)
           o == AfterLive(p, r, s)
           e == LiveEntry(p, r, s)
<1>1. /\ pc = "queue" /\ fd \in todo
      /\ queues' = [queues EXCEPT ![fd] = o] /\ Record(fd, e)
      /\ budgets' = [budgets EXCEPT ![fd] = b]
      /\ UNCHANGED <<env, loop, kicks>>
      /\ \/ pc' = "recover" /\ row' = [fd |-> fd, s |-> s] /\ UNCHANGED todo
         \/ todo' = todo \ {fd} /\ UNCHANGED <<pc, row>>
  BY LiveEffect
<1>2. p \in Queues /\ Aged(p, now) /\ now \in Nat /\ budgets[fd] \in Budgets
  BY <1>1, VisitedQueue
<1>3. e \in Entries BY <1>2, LiveEntryType
<1>4. b \in Budgets BY <1>2, BudgetTypes DEF AfterPrune
<1>5. o \in Queues BY <1>2, AfterLiveFields
<1>6. Aged(o, now)
  <2>1. Aged(Judged(p, r, s), now)
    <3> HIDE DEF p
    <3>1. QED BY <1>2, JudgedFields DEF Aged, Ready
  <2>2. QED BY <1>2, <2>1, AfterLiveFields DEF Aged
<1> HIDE DEF p, b, o, e
<1>7. /\ budgets' \in [FD -> Budgets \cup {None}] /\ kicks' \in [FD -> SUBSET Nat]
      /\ \A x \in FD : budgets'[x] = None => budgets[x] = None
  BY <1>1, <1>4, BatchedAssumption DEF TypeOK
<1>8. UNCHANGED now /\ UNCHANGED lastInventory /\ row = None BY <1>1 DEF loop, TypeOK
<1>9. [fd |-> fd, s |-> s] \in Rows BY DEF Rows
<1>10. \/ todo' = todo \ {fd} /\ pc' = "queue" /\ row' = None
       \/ todo' = todo /\ pc' = "recover" /\ row' \in Rows /\ row'.fd = fd
  BY <1>1, <1>8, <1>9
<1>11. QED BY <1>1, <1>3, <1>5, <1>6, <1>7, <1>8, <1>10, VisitType

\* While a kick is carried out its queue is at hand.
LEMMA RowType ==
  ASSUME TypeOK, pc = "recover"
  PROVE  /\ row.fd \in todo /\ row.s \in Samples /\ row.fd \in FD /\ now \in Nat
         /\ queues[row.fd] \in Queues /\ budgets[row.fd] \in Budgets
         /\ Aged(queues[row.fd], now)
<1>1. row \in Rows /\ row.fd \in todo BY DEF TypeOK
<1>2. queues[row.fd] # None /\ row.fd \in FD BY <1>1 DEF TypeOK
<1>3. QED BY <1>1, <1>2, BatchedAssumption DEF TypeOK, Rows, Aged

\* A written kick keeps the types.
LEMMA RekickWritesType == ASSUME TypeOK, RekickWrites PROVE TypeOK'
<1> DEFINE fd == row.fd
           q == Verify(queues[fd], row.s)
           e == Entry("kick", None, row.s, TRUE, "none", FALSE)
<1>1. pc = "recover" BY DEF RekickWrites
<1>2. /\ fd \in todo /\ row.s \in Samples /\ fd \in FD /\ now \in Nat
      /\ queues[fd] \in Queues /\ budgets[fd] \in Budgets /\ Aged(queues[fd], now)
  BY <1>1, RowType
<1>3. q \in Queues /\ Aged(q, now)
  <2>1. /\ q \in Queues /\ q.reported = queues[fd].reported
        /\ q.eligible = queues[fd].eligible /\ q.since = queues[fd].since
    BY <1>2, VerifyFields
  <2> HIDE DEF q, fd
  <2>2. QED BY <1>2, <2>1 DEF Aged
<1>4. e \in Entries BY <1>2, EntryType
<1>5. Kicked(budgets[fd], now) \in Budgets BY <1>2, BudgetTypes
<1>6. /\ queues' = [queues EXCEPT ![fd] = q] /\ Record(fd, e)
      /\ budgets' = [budgets EXCEPT ![fd] = Kicked(budgets[fd], now)]
      /\ kicks' = [kicks EXCEPT ![fd] = kicks[fd] \cup {now}]
      /\ todo' = todo \ {fd} /\ pc' = "queue" /\ row' = None
      /\ UNCHANGED <<env, loop>>
  BY DEF RekickWrites
<1> HIDE DEF fd, q, e
<1>7. /\ budgets' \in [FD -> Budgets \cup {None}] /\ kicks' \in [FD -> SUBSET Nat]
      /\ \A x \in FD : budgets'[x] = None => budgets[x] = None
  BY <1>2, <1>5, <1>6, BatchedAssumption DEF TypeOK
<1>8. UNCHANGED now /\ UNCHANGED lastInventory BY <1>6 DEF loop
<1>9. QED BY <1>2, <1>3, <1>4, <1>6, <1>7, <1>8, VisitType

\* What discovery makes of a queue is a queue, or nothing.
LEMMA RefreshedType ==
  ASSUME NEW q \in Queues \cup {None}, NEW s \in Snapshots \cup {None}
  PROVE  /\ Refreshed(q, s) \in Queues \cup {None}
         /\ Refreshed(q, s) = None <=> s = None
         /\ \A t \in Nat, u \in Nat :
              (q # None => Aged(q, t)) /\ t <= u /\ s # None => Aged(Refreshed(q, s), u)
<1>1. CASE s = None BY <1>1 DEF Refreshed
<1>2. CASE s # None /\ q # None /\ q.snapshot.identity = s.identity
  <2>1. Refreshed(q, s) = [q EXCEPT !.snapshot = s] BY <1>2 DEF Refreshed
  <2>2. Refreshed(q, s) \in Queues BY <1>2, <2>1, RefreshedFields
  <2>3. q.since \in Nat BY <1>2 DEF Queues
  <2>4. ASSUME NEW t \in Nat, NEW u \in Nat, Aged(q, t), t <= u
        PROVE  Aged(Refreshed(q, s), u)
    BY <1>2, <2>1, <2>3, <2>4, RefreshedFields, DetectorAssumption DEF Aged
  <2>5. QED BY <1>2, <2>2, <2>4, BatchedAssumption
<1>3. CASE s # None /\ ~(q # None /\ q.snapshot.identity = s.identity)
  <2>1. Refreshed(q, s) = NewQueue(s) BY <1>3 DEF Refreshed
  <2>2. QED BY <1>3, <2>1, NewQueueFields, BatchedAssumption DEF Aged
<1>4. QED BY <1>1, <1>2, <1>3

\* Discovery keeps the types: a queue that is found has a budget.
LEMMA InventoryType ==
  ASSUME TypeOK, BeginIteration, Inventory PROVE TypeOK'
<1>1. PICK found \in [FD -> Snapshots \cup {None}] :
        LET listed == {fd \in FD : found[fd] # None} IN
        /\ queues' = [fd \in FD |-> Refreshed(queues[fd], found[fd])]
        /\ budgets' = [fd \in FD |-> BudgetOf(budgets[fd], found[fd])]
        /\ hist' = [fd \in FD |->
             IF \/ found[fd] = None /\ queues[fd] = None
                \/ found[fd] # None /\ queues[fd] # None
                   /\ queues[fd].snapshot.identity = found[fd].identity
             THEN hist[fd] ELSE Append(hist[fd], [Note("replaced") EXCEPT !.t = clock])]
        /\ lastInventory' = clock
        /\ IF Cardinality(listed) <= MaxQueues
             THEN pc' = "batch" /\ todo' = listed
             ELSE pc' = "failed" /\ todo' = {}
  BY DEF Inventory
<1>2. /\ clock \in Nat /\ now \in Nat /\ now <= clock /\ now' = clock
      /\ UNCHANGED <<clock, cancelled, row, kicks>> /\ row = None
  BY BatchedAssumption DEF TypeOK, BeginIteration, env
<1>3. ASSUME NEW x \in FD
      PROVE  /\ queues'[x] \in Queues \cup {None} /\ (queues'[x] = None <=> found[x] = None)
             /\ queues'[x] # None => Aged(queues'[x], clock)
             /\ budgets'[x] \in Budgets \cup {None} /\ (found[x] # None => budgets'[x] # None)
  <2>1. /\ queues[x] \in Queues \cup {None} /\ budgets[x] \in Budgets \cup {None}
        /\ queues[x] # None => Aged(queues[x], now)
    BY DEF TypeOK, Aged
  <2>2. queues'[x] = Refreshed(queues[x], found[x]) BY <1>1
  <2>3. budgets'[x] \in Budgets \cup {None} /\ (found[x] # None => budgets'[x] # None)
    BY <1>1, <2>1, BudgetTypes, BatchedAssumption DEF BudgetOf
  <2>4. found[x] \in Snapshots \cup {None} OBVIOUS
  <2>5. /\ Refreshed(queues[x], found[x]) \in Queues \cup {None}
        /\ Refreshed(queues[x], found[x]) = None <=> found[x] = None
        /\ \A t \in Nat, u \in Nat :
             (queues[x] # None => Aged(queues[x], t)) /\ t <= u /\ found[x] # None =>
               Aged(Refreshed(queues[x], found[x]), u)
    BY <2>1, <2>4, RefreshedType
  <2>6. QED BY <1>2, <2>1, <2>2, <2>3, <2>5
<1>4. queues' \in [FD -> Queues \cup {None}] /\ budgets' \in [FD -> Budgets \cup {None}]
  <2>1. DOMAIN queues' = FD /\ DOMAIN budgets' = FD
        /\ queues' = [x \in FD |-> queues'[x]] /\ budgets' = [x \in FD |-> budgets'[x]]
    BY <1>1
  <2>2. QED BY <1>3, <2>1
<1>5. hist' \in [FD -> Seq(Entries)]
  <2> DEFINE e == [Note("replaced") EXCEPT !.t = clock]
  <2>1. e \in Entries
    <3>1. Note("replaced") \in Entries BY <1>2, EntryType DEF Note
    <3>2. QED BY <1>2, <3>1 DEF Entries
  <2>2. hist \in [FD -> Seq(Entries)] BY DEF TypeOK
  <2> HIDE DEF e
  <2>3. \A x \in FD : hist[x] \in Seq(Entries) /\ Append(hist[x], e) \in Seq(Entries)
    BY <2>1, <2>2
  <2>4. QED BY <1>1, <2>3 DEF e
<1>6. todo' \subseteq {x \in FD : queues'[x] # None} /\ pc' \in {"batch", "failed"}
  BY <1>1, <1>3
<1>7. clock' \in 0 .. MaxClock /\ cancelled' \in BOOLEAN /\ now' \in 0 .. clock'
  BY <1>2 DEF TypeOK
<1>8. lastInventory' \in Nat \cup {NegInf} BY <1>1, <1>2
<1>9. kicks' \in [FD -> SUBSET Nat] /\ row' = None BY <1>2 DEF TypeOK
<1>10. \A x \in FD : /\ queues'[x] # None => budgets'[x] # None
                     /\ queues'[x] # None /\ queues'[x].reported =>
                          queues'[x].eligible /\ now' - queues'[x].since >= Threshold
  BY <1>2, <1>3 DEF Aged
<1>11. QED BY <1>4, <1>5, <1>6, <1>7, <1>8, <1>9, <1>10 DEF TypeOK

\* A batch that could not be read keeps the types.
LEMMA BatchFailsType == ASSUME TypeOK, BatchFails PROVE TypeOK'
<1>1. /\ now \in Nat /\ queues \in [FD -> Queues \cup {None}] /\ hist \in [FD -> Seq(Entries)]
      /\ todo \subseteq FD /\ \A x \in todo : queues[x] # None
  BY BatchedAssumption DEF TypeOK
<1>2. \A x \in todo : /\ Abandon(queues[x], now) \in Queues
                      /\ ~Abandon(queues[x], now).reported
  BY <1>1, ResetFields
<1>3. Note("error") \in Entries BY <1>1, EntryType DEF Note
<1>4. /\ queues' = [fd \in FD |-> IF fd \in todo THEN Abandon(queues[fd],
                                                              now) ELSE queues[fd]]
      /\ hist' = [fd \in FD |-> IF fd \in todo THEN Append(hist[fd],
                                                           Note("error")) ELSE hist[fd]]
      /\ lastInventory' = NegInf /\ todo' = {} /\ pc' = "summary" /\ pc = "batch"
      /\ UNCHANGED <<clock, cancelled, now, budgets, row, kicks>>
  BY DEF BatchFails, env
<1>5. queues' \in [FD -> Queues \cup {None}] BY <1>1, <1>2, <1>4
<1>6. hist' \in [FD -> Seq(Entries)] BY <1>1, <1>3, <1>4
<1>7. \A x \in FD : queues'[x] # None =>
        /\ queues[x] # None
        /\ queues'[x].reported => queues'[x] = queues[x]
  BY <1>1, <1>2, <1>4
<1>8. QED BY <1>4, <1>5, <1>6, <1>7 DEF TypeOK

\* Every step keeps the types.
LEMMA TypeInductive == TypeOK /\ [Next]_vars => TypeOK'
<1> SUFFICES ASSUME TypeOK, [Next]_vars PROVE TypeOK' OBVIOUS
<1>1. CASE Tick
  <2>1. clock' \in 0 .. MaxClock /\ now \in 0 .. clock'
    BY <1>1, BatchedAssumption DEF TypeOK, Tick
  <2>2. QED BY <1>1, <2>1 DEF TypeOK, Tick, loop, history
<1>2. CASE Cancel BY <1>2 DEF TypeOK, Cancel, loop, history
<1>3. CASE TopReturns BY <1>3 DEF TypeOK, TopReturns, Return, env, loop, history
<1>4. CASE BeginIteration
  <2>1. CASE Inventory BY <1>4, <2>1, InventoryType
  <2>2. CASE ~Inventory
    <3>1. /\ todo' = {fd \in FD : queues[fd] # None} /\ pc' = "batch" /\ now' = clock
          /\ UNCHANGED <<lastInventory, queues, budgets, hist, clock, cancelled, row, kicks>>
      BY <1>4, <2>2 DEF BeginIteration, env
    <3>2. now \in Nat /\ now' \in Nat /\ now <= now' /\ now' \in 0 .. clock
      BY <3>1, BatchedAssumption DEF TypeOK
    <3>3. ASSUME NEW x \in FD, queues[x] # None, queues[x].reported
          PROVE  queues[x].eligible /\ now' - queues[x].since >= Threshold
      <4>1. queues[x].since \in Nat BY <3>3 DEF TypeOK, Queues
      <4>2. queues[x].eligible /\ now - queues[x].since >= Threshold BY <3>3 DEF TypeOK
      <4>3. QED BY <3>2, <4>1, <4>2, DetectorAssumption
    <3>4. row = None BY <1>4 DEF TypeOK, BeginIteration
    <3>5. QED BY <3>1, <3>2, <3>3, <3>4 DEF TypeOK
  <2>3. QED BY <2>1, <2>2
<1>5. CASE BatchFails BY <1>5, BatchFailsType
<1>6. CASE BatchReads BY <1>6 DEF TypeOK, BatchReads, env, loop, history
<1>7. ASSUME NEW fd \in FD, NEW r \in Rings, Skip(fd, r) \/ LiveFails(fd, r) PROVE TypeOK'
  <2>1. CASE Skip(fd, r) BY <2>1, SkipType
  <2>2. CASE LiveFails(fd, r)
    <3>1. fd \in todo BY <2>2 DEF LiveFails, Turn
    <3>2. QED BY <2>2, <3>1, VisitedQueue, UnavailableType DEF LiveFails
  <2>3. QED BY <1>7, <2>1, <2>2
<1>8. ASSUME NEW fd \in FD, NEW r \in Rings, NEW s \in Samples, Live(fd, r, s) PROVE TypeOK'
  BY <1>8, LiveType
<1>9. CASE RekickFails BY <1>9, RowType, UnavailableType DEF RekickFails
<1>10. CASE RekickWrites BY <1>10, RekickWritesType
<1>11. CASE EndQueues BY <1>11 DEF TypeOK, EndQueues, env, loop, history
<1>12. CASE Summary BY <1>12 DEF TypeOK, Summary, env, history
<1>13. CASE Wait BY <1>13 DEF TypeOK, Wait, env, loop, history
<1>14. CASE UNCHANGED vars BY <1>14 DEF TypeOK, vars, env, loop, history
<1>15. QED
  BY <1>1, <1>2, <1>3, <1>4, <1>5, <1>6, <1>7, <1>8, <1>9, <1>10, <1>11, <1>12, <1>13, <1>14
     DEF Next

\* Every variable of the batched loop keeps its type, every polled queue has a
\* budget, and a stall stays reported only while the ring is without progress.
THEOREM TypeCorrect == Spec => []TypeOK
<1>1. ASSUME Init PROVE TypeOK
  <2>1. clock \in 0 .. MaxClock /\ now \in 0 .. clock BY <1>1, BatchedAssumption DEF Init
  <2>2. hist \in [FD -> Seq(Entries)] BY <1>1 DEF Init
  <2>3. QED BY <1>1, <2>1, <2>2 DEF Init, TypeOK
<1>2. QED BY <1>1, TypeInductive, PTL DEF Spec

-----------------------------------------------------------------------------
(* The budget of kicks. *)

\* What a budget knows at time t of the kicks ks of its FD: those it has
\* dropped are an Hour old, and none is later than its last.
Account(b, ks, t) ==
  /\ IsFiniteSet(b.attempts) /\ b.attempts \subseteq ks
  /\ \A k \in ks : k <= t
  /\ \A k \in ks \ b.attempts : t - k >= Hour
  /\ ks # {} => b.lastKick \in Nat /\ \A k \in ks : k <= b.lastKick

\* The account of one FD, which has no kicks before it has a budget.
Books(b, ks, t) == IF b = None THEN ks = {} ELSE Account(b, ks, t)

\* BudgetHolds is not inductive: the kick is decided on the budget, which
\* outlives the queues, at an earlier step than the one that writes it.
BudgetInv ==
  /\ \A fd \in FD : Books(budgets[fd], kicks[fd], now) /\ WithinBudget(kicks[fd])
  /\ pc = "recover" => Allowed(budgets[row.fd], now)

\* One more kick is within the budget when Cooldown has passed since every
\* other and fewer than Maximum are less than an Hour old.
LEMMA OneMoreKick ==
  ASSUME NEW ks \in SUBSET Nat, NEW recent \in SUBSET ks, NEW t \in Nat,
         WithinBudget(ks), IsFiniteSet(recent), Cardinality(recent) < Maximum,
         \A k \in ks : t - k >= Cooldown, \A k \in ks \ recent : t - k >= Hour
  PROVE  WithinBudget(ks \cup {t})
<1> DEFINE window(k) == {j \in ks \cup {t} : j <= k /\ k - j < Hour}
<1>1. \A k \in ks : k < t BY DetectorAssumption
<1>2. ASSUME NEW k \in ks PROVE window(k) = {j \in ks : j <= k /\ k - j < Hour}
  BY <1>1
<1>3. Cardinality(window(t)) <= Maximum
  <2>1. ASSUME NEW j \in window(t), j # t PROVE j \in recent
    <3>1. j \in ks /\ j \in Nat /\ t - j < Hour BY <2>1
    <3>2. t - j >= Hour => FALSE BY <3>1, DetectorAssumption
    <3>3. QED BY <3>1, <3>2
  <2>2. /\ IsFiniteSet(recent \cup {t})
        /\ Cardinality(recent \cup {t}) =
             IF t \in recent THEN Cardinality(recent) ELSE Cardinality(recent) + 1
    BY FS_AddElement
  <2> HIDE DEF window
  <2>3. IsFiniteSet(window(t)) /\ Cardinality(window(t)) <= Cardinality(recent \cup {t})
    <3>1. window(t) \subseteq recent \cup {t} BY <2>1
    <3>2. QED BY <2>2, <3>1, FS_Subset
  <2>4. Cardinality(window(t)) \in Nat /\ Cardinality(recent) \in Nat
    BY <2>3, FS_CardinalityType
  <2>5. QED BY <2>2, <2>3, <2>4, DetectorAssumption
<1>4. ASSUME NEW k \in ks \cup {t}, NEW j \in ks \cup {t}, j < k PROVE k - j >= Cooldown
  <2>1. CASE k \in ks
    <3>1. k \in Nat /\ k < t BY <1>1, <2>1
    <3>2. j \in ks BY <1>4, <3>1
    <3>3. QED BY <1>4, <2>1, <3>2 DEF WithinBudget
  <2>2. CASE k = t BY <1>4, <2>2
  <2>3. QED BY <2>1, <2>2
<1>5. \A k \in ks : Cardinality({j \in ks : j <= k /\ k - j < Hour}) <= Maximum
  BY DEF WithinBudget
<1>6. \A k \in ks \cup {t} : Cardinality(window(k)) <= Maximum
  <2> HIDE DEF window
  <2>1. \A k \in ks : Cardinality(window(k)) <= Maximum BY <1>2, <1>5
  <2>2. QED BY <1>3, <2>1
<1>7. QED BY <1>4, <1>6 DEF WithinBudget

\* The account is right at later times, for a pruned budget, and with a kick.
LEMMA Accounting ==
  ASSUME NEW b \in Budgets, NEW ks \in SUBSET Nat, NEW t \in Nat, Account(b, ks, t)
  PROVE  /\ \A u \in Nat : t <= u => Account(b, ks, u)
         /\ Account(Prune(b, t), ks, t)
         /\ Account(Kicked(b, t), ks \cup {t}, t)
<1>1. ASSUME NEW u \in Nat, t <= u PROVE Account(b, ks, u)
  <2>1. \A k \in ks \ b.attempts : u - k >= Hour
    BY <1>1, DetectorAssumption DEF Account
  <2>2. \A k \in ks : k <= u BY <1>1 DEF Account
  <2>3. QED BY <2>1, <2>2 DEF Account
<1>2. Account(Prune(b, t), ks, t)
  <2>1. /\ Prune(b, t).attempts = {k \in b.attempts : t - k < Hour}
        /\ Prune(b, t).lastKick = b.lastKick
    BY DEF Prune, Budgets
  <2>2. Prune(b, t).attempts \subseteq b.attempts BY <2>1
  <2>3. IsFiniteSet(Prune(b, t).attempts) BY <2>2, FS_Subset DEF Account
  <2>4. \A k \in ks \ Prune(b, t).attempts : t - k >= Hour
    BY <2>1, DetectorAssumption DEF Account
  <2>5. QED BY <2>1, <2>2, <2>3, <2>4 DEF Account
<1>3. Account(Kicked(b, t), ks \cup {t}, t)
  <2>1. Kicked(b, t).attempts = b.attempts \cup {t} /\ Kicked(b, t).lastKick = t
    BY DEF Kicked, Budgets
  <2>2. IsFiniteSet(b.attempts \cup {t}) BY FS_AddElement DEF Account
  <2>3. QED BY <2>1, <2>2 DEF Account
<1>4. QED BY <1>1, <1>2, <1>3

\* A new budget is the account of no kicks.
LEMMA NewAccount == \A t : Account(NewDetector, {}, t)
  BY FS_EmptySet DEF Account, NewDetector

\* A budget that Allowed has just passed can afford a kick.
LEMMA AllowedKick ==
  ASSUME NEW b \in Budgets, NEW ks \in SUBSET Nat, NEW t \in Nat, Account(b, ks, t),
         Allowed(b, t), WithinBudget(ks)
  PROVE  WithinBudget(ks \cup {t})
<1>1. \A k \in ks : t - k >= Cooldown
  <2>1. SUFFICES ASSUME NEW k \in ks PROVE t - k >= Cooldown OBVIOUS
  <2>2. b.lastKick \in Nat /\ k <= b.lastKick BY DEF Account
  <2>3. t - b.lastKick >= Cooldown BY <2>2, DetectorAssumption DEF Allowed, Elapsed
  <2>4. QED BY <2>2, <2>3, DetectorAssumption
<1>2. Cardinality(b.attempts) < Maximum BY DEF Allowed
<1>3. QED BY <1>1, <1>2, OneMoreKick DEF Account

\* A step that changes neither budgets nor kicks and decides no kick.
LEMMA BudgetKept ==
  ASSUME TypeOK, BudgetInv, UNCHANGED <<budgets, kicks, now>>,
         pc' # "recover" \/ UNCHANGED <<pc, row>>
  PROVE  BudgetInv'
  BY DEF BudgetInv, Books, Account, WithinBudget, Allowed, Elapsed

\* A new iteration keeps the accounts, with the budgets that it creates.
LEMMA BeginBudget == ASSUME TypeOK, BudgetInv, BeginIteration PROVE BudgetInv'
<1>1. now \in Nat /\ clock \in Nat /\ now <= clock /\ now' = clock /\ kicks' = kicks
  BY BatchedAssumption DEF TypeOK, BeginIteration
<1>2. pc' # "recover" BY DEF BeginIteration, Inventory
<1>3. ASSUME NEW x \in FD
      PROVE  budgets'[x] = budgets[x] \/ (budgets[x] = None /\ budgets'[x] = NewDetector)
  BY DEF BeginIteration, Inventory, BudgetOf
<1>4. ASSUME NEW x \in FD PROVE Books(budgets'[x], kicks[x], clock)
  <2>1. kicks[x] \in SUBSET Nat /\ budgets[x] \in Budgets \cup {None} BY DEF TypeOK
  <2>2. Books(budgets[x], kicks[x], now) BY DEF BudgetInv
  <2>3. CASE budgets[x] = None
    <3>1. kicks[x] = {} BY <2>2, <2>3 DEF Books
    <3>2. QED BY <1>3, <2>3, <3>1, NewAccount DEF Books
  <2>4. CASE budgets[x] # None
    <3>1. budgets[x] \in Budgets /\ Account(budgets[x], kicks[x], now)
      BY <2>1, <2>2, <2>4 DEF Books
    <3>2. Account(budgets[x], kicks[x], clock) BY <1>1, <2>1, <3>1, Accounting
    <3>3. QED BY <1>3, <2>4, <3>2 DEF Books
  <2>5. QED BY <2>3, <2>4
<1>5. \A x \in FD : (Books(budgets[x], kicks[x], now) /\ WithinBudget(kicks[x]))'
  BY <1>1, <1>4 DEF Books, Account, WithinBudget, BudgetInv
<1>6. QED BY <1>2, <1>5 DEF BudgetInv

\* A live reading keeps the accounts, and a kick it decides is affordable.
LEMMA LiveBudget ==
  ASSUME TypeOK, BudgetInv, NEW fd \in FD, NEW r \in Rings, NEW s \in Samples,
         Live(fd, r, s)
  PROVE  BudgetInv'
<1> DEFINE p == Polled(queues[fd], r)
           b == AfterPrune(budgets[fd], p, r, s)
<1>1. /\ pc = "queue" /\ fd \in todo /\ budgets' = [budgets EXCEPT ![fd] = b]
      /\ UNCHANGED <<loop, kicks>>
      /\ pc' = "recover" => row' = [fd |-> fd, s |-> s] /\ Allowed(b, now)
  BY LiveEffect
<1>2. budgets[fd] \in Budgets /\ now \in Nat /\ kicks[fd] \in SUBSET Nat
      /\ budgets \in [FD -> Budgets \cup {None}]
  BY <1>1, VisitedQueue DEF TypeOK
<1>3. budgets[fd] # None BY <1>2, BatchedAssumption
<1>4. Account(budgets[fd], kicks[fd], now) BY <1>3 DEF BudgetInv, Books
<1>5. b \in Budgets BY <1>2, BudgetTypes DEF AfterPrune
<1>6. Account(b, kicks[fd], now) BY <1>2, <1>4, Accounting DEF AfterPrune
<1> HIDE DEF p, b
<1>7. Books(b, kicks[fd], now) BY <1>5, <1>6, BatchedAssumption DEF Books
<1>8. now' = now /\ kicks' = kicks BY <1>1 DEF loop
<1>9. \A x \in FD : Books(budgets'[x], kicks[x], now) /\ WithinBudget(kicks[x])
  BY <1>1, <1>2, <1>7 DEF BudgetInv
<1>10. \A x \in FD : (Books(budgets[x], kicks[x], now) /\ WithinBudget(kicks[x]))'
  BY <1>8, <1>9 DEF Books, Account, WithinBudget
<1>11. pc' = "recover" => Allowed(budgets'[row'.fd], now') BY <1>1, <1>2, <1>8
<1>12. QED BY <1>10, <1>11 DEF BudgetInv, Allowed, Elapsed

\* A kick that was decided stays within the budget of its FD.
LEMMA RekickWritesBudget == ASSUME TypeOK, BudgetInv, RekickWrites PROVE BudgetInv'
<1> DEFINE fd == row.fd
           b == budgets[fd]
<1>1. pc = "recover" /\ pc' # "recover" BY DEF RekickWrites
<1>2. /\ fd \in FD /\ now \in Nat /\ b \in Budgets /\ kicks[fd] \in SUBSET Nat
      /\ budgets \in [FD -> Budgets \cup {None}] /\ kicks \in [FD -> SUBSET Nat]
  BY <1>1, RowType DEF TypeOK
<1>3. Account(b, kicks[fd], now) /\ WithinBudget(kicks[fd])
  BY <1>2, BatchedAssumption DEF BudgetInv, Books
<1>4. Allowed(b, now) BY <1>1 DEF BudgetInv
<1>5. /\ budgets' = [budgets EXCEPT ![fd] = Kicked(b, now)]
      /\ kicks' = [kicks EXCEPT ![fd] = kicks[fd] \cup {now}] /\ now' = now
  BY DEF RekickWrites, loop
<1> HIDE DEF fd, b
<1>6. WithinBudget(kicks[fd] \cup {now}) BY <1>2, <1>3, <1>4, AllowedKick
<1>7. Account(Kicked(b, now), kicks[fd] \cup {now}, now) BY <1>2, <1>3, Accounting
<1>8. Kicked(b, now) # None BY <1>2, BudgetTypes, BatchedAssumption
<1>9. ASSUME NEW x \in FD
      PROVE  Books(budgets'[x], kicks'[x], now) /\ WithinBudget(kicks'[x])
  <2>1. CASE x = fd
    <3>1. budgets'[x] = Kicked(b, now) /\ kicks'[x] = kicks[fd] \cup {now}
      BY <1>2, <1>5, <2>1
    <3>2. QED BY <1>6, <1>7, <1>8, <3>1 DEF Books
  <2>2. CASE x # fd BY <1>2, <1>5, <2>2 DEF BudgetInv
  <2>3. QED BY <2>1, <2>2
<1>10. \A x \in FD : (Books(budgets[x], kicks[x], now) /\ WithinBudget(kicks[x]))'
  BY <1>5, <1>9 DEF Books, Account, WithinBudget
<1>11. QED BY <1>1, <1>10 DEF BudgetInv

\* Every step keeps the accounts.
LEMMA BudgetInductive == TypeOK /\ BudgetInv /\ [Next]_vars => BudgetInv'
<1> SUFFICES ASSUME TypeOK, BudgetInv, [Next]_vars PROVE BudgetInv' OBVIOUS
<1>1. CASE BeginIteration BY <1>1, BeginBudget
<1>2. ASSUME NEW fd \in FD, NEW r \in Rings, NEW s \in Samples, Live(fd, r, s)
      PROVE  BudgetInv'
  BY <1>2, LiveBudget
<1>3. CASE RekickWrites BY <1>3, RekickWritesBudget
<1>4. CASE Tick \/ Cancel \/ TopReturns
  BY <1>4, BudgetKept DEF Tick, Cancel, TopReturns, Return, loop, history
<1>5. CASE BatchFails \/ BatchReads
  BY <1>5, BudgetKept DEF BatchFails, BatchReads, loop, history
<1>6. ASSUME NEW fd \in FD, NEW r \in Rings, Skip(fd, r) \/ LiveFails(fd, r)
      PROVE  BudgetInv'
  BY <1>6, BudgetKept DEF Skip, LiveFails, Unavailable, loop
<1>7. CASE RekickFails BY <1>7, BudgetKept DEF RekickFails, Unavailable
<1>8. CASE EndQueues \/ Summary \/ Wait
  BY <1>8, BudgetKept DEF EndQueues, Summary, Wait, loop, history
<1>9. CASE UNCHANGED vars BY <1>9, BudgetKept DEF vars, loop, history
<1>10. QED BY <1>1, <1>2, <1>3, <1>4, <1>5, <1>6, <1>7, <1>8, <1>9 DEF Next

\* Whatever is replaced, lost and found again on an FD, it gets at most
\* Maximum kicks in any Hour, any two of them Cooldown apart.
THEOREM BudgetCorrect == Spec => []BudgetHolds
<1>1. ASSUME Init PROVE BudgetInv BY <1>1 DEF Init, BudgetInv, Books, WithinBudget
<1>2. BudgetInv => BudgetHolds BY DEF BudgetInv, BudgetHolds
<1>3. QED BY <1>1, <1>2, TypeCorrect, BudgetInductive, PTL DEF Spec

-----------------------------------------------------------------------------
(* What a queue knows of its past. *)

\* The ring stood still, with work outstanding, since a visit at q.since.
RingAge(h, q) ==
  q.eligible =>
    \E i \in 1 .. Len(h) :
      /\ h[i].kind = "visit" /\ h[i].t = q.since
      /\ \A j \in i .. Len(h) :
           /\ h[j].kind \in {"visit", "kick"}
           /\ h[j].kind = "visit" => h[j].ring.used = q.used
                                     /\ Eligible(h[j].ring, q.snapshot.num)

\* The candidate is what the last entry, a live reading, showed.
Shown(h, q) ==
  q.candidate # None =>
    LET e == h[Len(h)] IN
    /\ Len(h) > 0 /\ e.kind = "visit" /\ e.live # None
    /\ Quiet(e.live) /\ Unmoved(e.live, q.candidate)

\* The verification stands for the last kick, since which nothing failed.
Opened(h, q) ==
  q.verification # None =>
    \E k \in 1 .. Len(h) :
      /\ h[k].kind = "kick" /\ h[k].live.identity = q.snapshot.identity
      /\ h[k].live.used = q.verification.used
      /\ h[k].live.consumed = q.verification.consumed
      /\ \A j \in k + 1 .. Len(h) : h[j].kind = "visit"

\* The stall reported at entry i has gone on to the end of h.
Lasts(h, i) == \A j \in i + 1 .. Len(h) : Persists(h[i], h[j])

\* A stall that was reported and lasts is marked as reported.
Told(h, q) ==
  \A i \in 1 .. Len(h) : h[i].report /\ Lasts(h, i) =>
    q # None /\ q.reported /\ q.eligible /\ q.used = h[i].live.used

Knows(h, q) == (q # None => RingAge(h, q) /\ Shown(h, q) /\ Opened(h, q)) /\ Told(h, q)

\* What the entry n of a history owes to the ones before.
Justified(h, n) ==
  /\ h[n].kind = "visit" /\ h[n].stalled => Confirmed(h, n)
  /\ h[n].event = "recovered" => \E k \in 1 .. n - 1 : Cured(h, k, n)
  /\ \A i \in 1 .. n - 1 : h[i].report /\ h[n].report =>
       \E j \in i + 1 .. n : ~Persists(h[i], h[j])

Sound(h) == \A n \in 1 .. Len(h) : Justified(h, n)

\* The properties speak of the past, the loop decides on the few fields of a
\* queue: the invariant says what each field stands for.
HistoryInv ==
  /\ \A fd \in FD : Knows(hist[fd], queues[fd]) /\ Sound(hist[fd])
  /\ pc = "recover" => row.s.identity = queues[row.fd].snapshot.identity

\* Appending an entry.
LEMMA AppendFacts ==
  ASSUME NEW h \in Seq(Entries), NEW e \in Entries
  PROVE  LET g == Append(h, e)
             n == Len(h) + 1
         IN
         /\ g \in Seq(Entries) /\ Len(h) \in Nat /\ Len(g) = n /\ g[n] = e
         /\ \A j \in 1 .. Len(h) : g[j] = h[j]
  OBVIOUS

\* What an entry owes depends on the entries up to it.
LEMMA JustifiedPrefix ==
  ASSUME NEW h, NEW g, NEW n \in Nat \ {0}, \A j \in 1 .. n : g[j] = h[j], Justified(h, n)
  PROVE  Justified(g, n)
<1>1. g[n] = h[n] OBVIOUS
<1>2. ASSUME g[n].kind = "visit", g[n].stalled PROVE Confirmed(g, n)
  <2>1. Confirmed(h, n) BY <1>1, <1>2 DEF Justified
  <2>2. PICK i \in 1 .. n - 1 :
          /\ h[i].kind = "visit" /\ h[n].t - h[i].t >= Threshold
          /\ RingStuck(h, i, n, h[n].live.num)
    BY <2>1 DEF Confirmed
  <2>3. \A j \in i .. n : g[j] = h[j] BY <2>2
  <2>4. RingStuck(g, i, n, g[n].live.num) BY <1>1, <2>2, <2>3 DEF RingStuck
  <2>5. i \in 1 .. n - 1 /\ g[i].kind = "visit" /\ g[n].t - g[i].t >= Threshold
    BY <1>1, <2>2, <2>3
  <2>6. n > 1 /\ g[n - 1] = h[n - 1] BY <2>2
  <2>7. QED BY <1>1, <2>1, <2>4, <2>5, <2>6 DEF Confirmed
<1>3. ASSUME g[n].event = "recovered" PROVE \E k \in 1 .. n - 1 : Cured(g, k, n)
  <2>1. PICK k \in 1 .. n - 1 : Cured(h, k, n) BY <1>1, <1>3 DEF Justified
  <2>2. g[k] = h[k] /\ \A j \in k + 1 .. n : g[j] = h[j] OBVIOUS
  <2>3. Cured(g, k, n) BY <1>1, <2>1, <2>2 DEF Cured
  <2>4. QED BY <2>3
<1>4. ASSUME NEW i \in 1 .. n - 1, g[i].report, g[n].report
      PROVE  \E j \in i + 1 .. n : ~Persists(g[i], g[j])
  <2>1. g[i] = h[i] /\ \A j \in i + 1 .. n : g[j] = h[j] OBVIOUS
  <2>2. PICK j \in i + 1 .. n : ~Persists(h[i], h[j]) BY <1>1, <1>4, <2>1 DEF Justified
  <2>3. QED BY <2>1, <2>2
<1>5. QED BY <1>2, <1>3, <1>4 DEF Justified

\* Only the new entry of a history has to be justified.
LEMMA SoundAppend ==
  ASSUME NEW h \in Seq(Entries), NEW e \in Entries, Sound(h),
         Justified(Append(h, e), Len(h) + 1)
  PROVE  Sound(Append(h, e))
<1> DEFINE g == Append(h, e)
<1>1. Len(h) \in Nat /\ Len(g) = Len(h) + 1 /\ \A j \in 1 .. Len(h) : g[j] = h[j]
  BY AppendFacts
<1>2. Justified(g, Len(h) + 1) OBVIOUS
<1> HIDE DEF g
<1>3. ASSUME NEW n \in 1 .. Len(h) PROVE Justified(g, n)
  <2>1. Justified(h, n) BY DEF Sound
  <2>2. n \in Nat \ {0} /\ \A j \in 1 .. n : g[j] = h[j] BY <1>1
  <2>3. QED BY <2>1, <2>2, JustifiedPrefix
<1>4. Sound(g)
  <2>1. \A n \in 1 .. Len(g) : n \in 1 .. Len(h) \/ n = Len(h) + 1 BY <1>1
  <2>2. QED BY <1>2, <1>3, <2>1 DEF Sound
<1>5. QED BY <1>4 DEF g

\* An entry that claims nothing owes nothing.
LEMMA PlainJustified ==
  ASSUME NEW h \in Seq(Entries), NEW e \in Entries,
         e.kind = "visit" => ~e.stalled, e.event # "recovered", ~e.report
  PROVE  Justified(Append(h, e), Len(h) + 1)
<1>1. Append(h, e)[Len(h) + 1] = e BY AppendFacts
<1>2. QED BY <1>1 DEF Justified

\* A failure or a replacement, after which the queue knows nothing.
LEMMA BrokenKnows ==
  ASSUME NEW h \in Seq(Entries), NEW e \in Entries, NEW q,
         e.kind \in {"error", "replaced"}, ~e.report,
         q # None => ~q.eligible /\ q.candidate = None /\ q.verification = None
  PROVE  Knows(Append(h, e), q)
<1> DEFINE g == Append(h, e)
           n == Len(h) + 1
<1>1. Len(h) \in Nat /\ Len(g) = n /\ g[n] = e /\ \A j \in 1 .. Len(h) : g[j] = h[j]
  BY AppendFacts
<1> HIDE DEF g
<1>2. q # None => RingAge(g, q) /\ Shown(g, q) /\ Opened(g, q)
  BY DEF RingAge, Shown, Opened
<1>3. ASSUME NEW i \in 1 .. Len(g), g[i].report PROVE ~Lasts(g, i)
  <2>1. i # n BY <1>1, <1>3
  <2>2. n \in i + 1 .. Len(g) BY <1>1, <2>1
  <2>3. ~Persists(g[i], g[n]) BY <1>1 DEF Persists
  <2>4. QED BY <2>2, <2>3 DEF Lasts
<1>4. Told(g, q) BY <1>3 DEF Told
<1>5. QED BY <1>2, <1>4 DEF Knows, g

\* A queue that discovery found again knows what it knew.
LEMMA RefreshedKnows ==
  ASSUME NEW h, NEW q \in Queues, NEW s \in Snapshots, Knows(h, q),
         q.snapshot.identity = s.identity
  PROVE  Knows(h, [q EXCEPT !.snapshot = s])
<1> DEFINE o == [q EXCEPT !.snapshot = s]
<1>1. /\ o \in Queues /\ o.snapshot = s /\ o.since = q.since /\ o.used = q.used
      /\ o.eligible = q.eligible /\ o.reported = q.reported
      /\ o.candidate = q.candidate /\ o.verification = q.verification
  BY RefreshedFields
<1> HIDE DEF o
<1>2. q # None /\ o # None BY <1>1, BatchedAssumption
<1>3. q.snapshot.num = s.num
  <2>1. q.snapshot \in Snapshots BY DEF Queues
  <2>2. QED BY <2>1, SameSize
<1>4. RingAge(h, o) BY <1>1, <1>2, <1>3 DEF Knows, RingAge
<1>5. Shown(h, o) BY <1>1, <1>2 DEF Knows, Shown
<1>6. Opened(h, o) BY <1>1, <1>2 DEF Knows, Opened
<1>7. Told(h, o) BY <1>1, <1>2 DEF Knows, Told
<1>8. QED BY <1>4, <1>5, <1>6, <1>7 DEF Knows, o

\* The age of a ring after one more visit.
LEMMA RingAgePolled ==
  ASSUME NEW h \in Seq(Entries), NEW e \in Entries, NEW q \in Queues, NEW r \in Rings,
         e.kind = "visit", e.ring = r, e.t = now, RingAge(h, q)
  PROVE  RingAge(Append(h, e), Polled(q, r))
<1> DEFINE g == Append(h, e)
           n == Len(h) + 1
           p == Polled(q, r)
<1>1. Len(h) \in Nat /\ Len(g) = n /\ g[n] = e /\ \A j \in 1 .. Len(h) : g[j] = h[j]
  BY AppendFacts
<1>2. /\ p.snapshot = q.snapshot /\ p.used = r.used
      /\ p.eligible = Eligible(r, q.snapshot.num)
      /\ p.since = IF q.eligible /\ p.eligible /\ q.used = r.used THEN q.since ELSE now
  BY PolledFields
<1> HIDE DEF g, p
<1>3. SUFFICES ASSUME p.eligible PROVE RingAge(g, p) BY DEF RingAge, g, p
<1>4. CASE q.eligible /\ q.used = r.used
  <2>1. PICK i \in 1 .. Len(h) :
          /\ h[i].kind = "visit" /\ h[i].t = q.since
          /\ \A j \in i .. Len(h) :
               /\ h[j].kind \in {"visit", "kick"}
               /\ h[j].kind = "visit" => h[j].ring.used = q.used
                                         /\ Eligible(h[j].ring, q.snapshot.num)
    BY <1>4 DEF RingAge
  <2>2. i \in 1 .. Len(g) /\ g[i].kind = "visit" /\ g[i].t = p.since
    BY <1>1, <1>2, <1>3, <1>4, <2>1
  <2>3. ASSUME NEW j \in i .. Len(g)
        PROVE  /\ g[j].kind \in {"visit", "kick"}
               /\ g[j].kind = "visit" => g[j].ring.used = p.used
                                         /\ Eligible(g[j].ring, p.snapshot.num)
    <3>1. CASE j = n BY <1>1, <1>2, <1>3, <3>1
    <3>2. CASE j \in i .. Len(h) BY <1>1, <1>2, <1>4, <2>1, <3>2
    <3>3. QED BY <1>1, <3>1, <3>2
  <2>4. QED BY <2>2, <2>3 DEF RingAge
<1>5. CASE ~(q.eligible /\ q.used = r.used)
  <2>1. p.since = now BY <1>2, <1>5
  <2>2. n \in 1 .. Len(g) /\ g[n].kind = "visit" /\ g[n].t = p.since BY <1>1, <2>1
  <2>3. \A j \in n .. Len(g) : /\ g[j].kind \in {"visit", "kick"}
                               /\ g[j].ring.used = p.used
                               /\ Eligible(g[j].ring, p.snapshot.num)
    <3>1. \A j \in n .. Len(g) : g[j] = e BY <1>1
    <3>2. e.ring.used = p.used /\ Eligible(e.ring, p.snapshot.num) BY <1>2, <1>3
    <3>3. QED BY <3>1, <3>2
  <2>4. QED BY <2>2, <2>3 DEF RingAge
<1>6. QED BY <1>4, <1>5

\* A verification survives a visit.
LEMMA OpenedVisit ==
  ASSUME NEW h \in Seq(Entries), NEW e \in Entries, NEW q, NEW o, e.kind = "visit",
         Opened(h, q), o.snapshot = q.snapshot,
         o.verification # None => o.verification = q.verification
  PROVE  Opened(Append(h, e), o)
<1> DEFINE g == Append(h, e)
<1>1. Len(h) \in Nat /\ Len(g) = Len(h) + 1 /\ g[Len(h) + 1] = e
      /\ \A j \in 1 .. Len(h) : g[j] = h[j]
  BY AppendFacts
<1> HIDE DEF g
<1>2. SUFFICES ASSUME o.verification # None PROVE Opened(g, o) BY DEF Opened, g
<1>3. PICK k \in 1 .. Len(h) :
        /\ h[k].kind = "kick" /\ h[k].live.identity = q.snapshot.identity
        /\ h[k].live.used = q.verification.used
        /\ h[k].live.consumed = q.verification.consumed
        /\ \A j \in k + 1 .. Len(h) : h[j].kind = "visit"
  BY <1>2 DEF Opened
<1>4. \A j \in k + 1 .. Len(g) : g[j].kind = "visit"
  <2>1. \A j \in k + 1 .. Len(g) : j = Len(h) + 1 \/ (j \in k + 1 .. Len(h) /\ j \in 1 .. Len(h))
    BY <1>1
  <2>2. QED BY <1>1, <1>3, <2>1
<1>5. k \in 1 .. Len(g) /\ g[k] = h[k] BY <1>1
<1>6. QED BY <1>2, <1>3, <1>4, <1>5 DEF Opened

\* A stall that lasts with the new entry lasted before.
LEMMA LastsAppend ==
  ASSUME NEW h \in Seq(Entries), NEW e \in Entries, NEW i \in 1 .. Len(h),
         Lasts(Append(h, e), i)
  PROVE  Lasts(h, i) /\ Persists(h[i], e)
<1> DEFINE g == Append(h, e)
<1>1. Len(h) \in Nat /\ Len(g) = Len(h) + 1 /\ g[Len(h) + 1] = e
      /\ \A j \in 1 .. Len(h) : g[j] = h[j]
  BY AppendFacts
<1>2. \A j \in i + 1 .. Len(g) : Persists(g[i], g[j]) BY DEF Lasts
<1> HIDE DEF g
<1>3. g[i] = h[i] /\ \A j \in i + 1 .. Len(h) : g[j] = h[j] BY <1>1
<1>4. Len(h) + 1 \in i + 1 .. Len(g) /\ \A j \in i + 1 .. Len(h) : j \in i + 1 .. Len(g)
  BY <1>1
<1>5. QED BY <1>1, <1>2, <1>3, <1>4 DEF Lasts

\* A visit that stops after the ring.
LEMMA SkipKnows ==
  ASSUME NEW h \in Seq(Entries), NEW e \in Entries, NEW q \in Queues, NEW r \in Rings,
         now \in Nat, e.kind = "visit", e.ring = r, e.t = now, e.live = None, ~e.report,
         Knows(h, q), ~Watched(Polled(q, r))
  PROVE  Knows(Append(h, e), Polled(q, r))
<1> DEFINE g == Append(h, e)
           n == Len(h) + 1
           p == Polled(q, r)
<1>1. Len(h) \in Nat /\ Len(g) = n /\ g[n] = e BY AppendFacts
<1>2. RingAge(g, p) BY RingAgePolled, BatchedAssumption DEF Knows
<1>3. p.verification = None /\ p.candidate = None
  BY PolledFields DEF Watched
<1> HIDE DEF p
<1>4. Shown(g, p) /\ Opened(g, p) BY <1>3 DEF Shown, Opened
<1>5. Told(g, p)
  <2>1. ASSUME NEW i \in 1 .. Len(g), g[i].report, Lasts(g, i) PROVE FALSE
    <3>1. i \in 1 .. Len(h) BY <1>1, <2>1
    <3>2. Persists(h[i], e) BY <2>1, <3>1, LastsAppend
    <3>3. QED BY <3>2 DEF Persists
  <2>2. QED BY <2>1 DEF Told
<1>6. QED BY <1>2, <1>4, <1>5 DEF Knows, p

\* A kick.
LEMMA KickKnows ==
  ASSUME NEW h \in Seq(Entries), NEW e \in Entries, NEW q \in Queues, NEW s \in Samples,
         now \in Nat, e.kind = "kick", e.live = s, ~e.report,
         Knows(h, q), s.identity = q.snapshot.identity
  PROVE  Knows(Append(h, e), Verify(q, s))
<1> DEFINE g == Append(h, e)
           n == Len(h) + 1
           o == Verify(q, s)
<1>1. Len(h) \in Nat /\ Len(g) = n /\ g[n] = e /\ \A j \in 1 .. Len(h) : g[j] = h[j]
  BY AppendFacts
<1>2. /\ o \in Queues /\ o.snapshot = q.snapshot /\ o.since = q.since
      /\ o.used = q.used /\ o.eligible = q.eligible /\ o.reported = q.reported
      /\ o.candidate = None
      /\ o.verification = [at |-> now, used |-> s.used, consumed |-> s.consumed]
  BY VerifyFields
<1>3. q # None /\ o # None BY <1>2, BatchedAssumption
<1>4. ASSUME NEW i \in 1 .. Len(g), g[i].report, Lasts(g, i)
      PROVE  i \in 1 .. Len(h) /\ h[i].report /\ g[i] = h[i] /\ Lasts(h, i)
  <2>1. i \in 1 .. Len(h) BY <1>1, <1>4
  <2>2. Lasts(h, i) BY <1>4, <2>1, LastsAppend
  <2>3. QED BY <1>1, <1>4, <2>1, <2>2
<1> HIDE DEF g, o
<1>5. RingAge(g, o)
  <2>1. SUFFICES ASSUME o.eligible PROVE RingAge(g, o) BY DEF RingAge
  <2>2. PICK i \in 1 .. Len(h) :
          /\ h[i].kind = "visit" /\ h[i].t = q.since
          /\ \A j \in i .. Len(h) :
               /\ h[j].kind \in {"visit", "kick"}
               /\ h[j].kind = "visit" => h[j].ring.used = q.used
                                         /\ Eligible(h[j].ring, q.snapshot.num)
    BY <1>2, <1>3, <2>1 DEF Knows, RingAge
  <2>3. i \in 1 .. Len(g) /\ g[i].kind = "visit" /\ g[i].t = o.since BY <1>1, <1>2, <2>2
  <2>4. ASSUME NEW j \in i .. Len(g)
        PROVE  /\ g[j].kind \in {"visit", "kick"}
               /\ g[j].kind = "visit" => g[j].ring.used = o.used
                                         /\ Eligible(g[j].ring, o.snapshot.num)
    <3>1. CASE j = n BY <1>1, <3>1
    <3>2. CASE j \in i .. Len(h) BY <1>1, <1>2, <2>2, <3>2
    <3>3. QED BY <1>1, <3>1, <3>2
  <2>5. QED BY <2>3, <2>4 DEF RingAge
<1>6. Shown(g, o) BY <1>2 DEF Shown
<1>7. Opened(g, o)
  <2>1. n \in 1 .. Len(g) /\ n + 1 .. Len(g) = {} BY <1>1
  <2>2. o.verification.used = s.used /\ o.verification.consumed = s.consumed BY <1>2
  <2>3. QED BY <1>1, <1>2, <2>1, <2>2 DEF Opened
<1>8. Told(g, o) BY <1>2, <1>3, <1>4 DEF Knows, Told
<1>9. QED BY <1>5, <1>6, <1>7, <1>8 DEF Knows, g, o

\* A live reading: a reported stall that it still shows stays reported.
LEMMA LiveTold ==
  ASSUME NEW h \in Seq(Entries), NEW q \in Queues, NEW r \in Rings, NEW s \in Samples,
         now \in Nat, Knows(h, q), Aged(q, now), s.identity = q.snapshot.identity,
         NEW i \in 1 .. Len(h), h[i].report, Lasts(h, i),
         Eligible(r, s.num), Agrees(r, s), Unmoved(s, h[i].live)
  PROVE  LET o == Judged(Polled(q, r), r, s) IN
         o.reported /\ o.eligible /\ o.used = h[i].live.used
<1> DEFINE p == Polled(q, r)
           o == Judged(p, r, s)
<1>1. q # None BY BatchedAssumption
<1>2. q.reported /\ q.eligible /\ q.used = h[i].live.used
  BY <1>1 DEF Knows, Told
<1>3. r.used = s.used /\ s.used = h[i].live.used BY DEF Agrees, Unmoved
<1>4. s.num = q.snapshot.num
  <2>1. q.snapshot \in Snapshots BY DEF Queues
  <2>2. QED BY <2>1, SameSize
<1>5. p \in Queues BY PolledType
<1>6. /\ p.used = r.used /\ p.eligible = Eligible(r, q.snapshot.num)
      /\ p.since = IF q.eligible /\ p.eligible /\ q.used = r.used THEN q.since ELSE now
      /\ Ready(p, now) => p.candidate = q.candidate /\ p.reported = q.reported
  <2>1. p.used = r.used /\ p.eligible = Eligible(r, q.snapshot.num) BY PolledRing
  <2>2. p.since = IF q.eligible /\ p.eligible /\ q.used = r.used THEN q.since ELSE now
    BY PolledFields
  <2>3. Ready(p, now) => p.candidate = q.candidate /\ p.reported = q.reported
    BY PolledFields
  <2>4. QED BY <2>1, <2>2, <2>3
<1> HIDE DEF p
<1>7. p.eligible /\ p.since = q.since BY <1>2, <1>3, <1>4, <1>6
<1>8. Ready(p, now) BY <1>2, <1>7 DEF Ready, Aged
<1>9. p.candidate # None => Confirms(p.candidate, s)
  <2>1. SUFFICES ASSUME q.candidate # None PROVE Unmoved(q.candidate, s)
    BY <1>6, <1>8 DEF Confirms
  <2>2. h[Len(h)].kind = "visit" /\ Unmoved(h[Len(h)].live, q.candidate)
    BY <1>1, <2>1 DEF Knows, Shown
  <2>3. CASE Len(h) = i BY <2>2, <2>3 DEF Unmoved
  <2>4. CASE Len(h) # i
    <3>1. Len(h) \in i + 1 .. Len(h) BY <2>4
    <3>2. Persists(h[i], h[Len(h)]) BY <3>1 DEF Lasts
    <3>3. Unmoved(h[Len(h)].live, h[i].live) BY <2>2, <3>2 DEF Persists
    <3>4. QED BY <2>2, <3>3 DEF Unmoved
  <2>5. QED BY <2>3, <2>4
<1>10. o.eligible = p.eligible /\ o.used = p.used /\ (o.reported \/ o.reported = p.reported)
  <2>1. \/ Agrees(r, s) => p.candidate # None /\ ~Confirms(p.candidate, s)
        \/ /\ o.eligible = p.eligible /\ o.used = p.used
           /\ \/ ~Ready(p, now)
              \/ o.reported = p.reported
              \/ o.reported
    BY <1>5, JudgedFields
  <2> HIDE DEF o
  <2>2. QED BY <1>8, <1>9, <2>1
<1> HIDE DEF o
<1>11. o.reported /\ o.eligible /\ o.used = h[i].live.used
  BY <1>2, <1>3, <1>6, <1>7, <1>8, <1>10
<1>12. QED BY <1>11 DEF o, p

\* A stalled verdict comes from a queue at rest that two live readings show.
LEMMA LiveStalled ==
  ASSUME NEW q \in Queues, NEW r \in Rings, NEW s \in Samples, now \in Nat,
         SeenStalled(Polled(q, r), r, s)
  PROVE  LET o == Judged(Polled(q, r), r, s) IN
         /\ o.reported /\ o.eligible /\ o.used = s.used /\ Quiet(s)
         /\ Polled(q, r).reported = q.reported /\ q.candidate # None
         /\ Unmoved(q.candidate, s)
<1> DEFINE p == Polled(q, r)
           o == Judged(p, r, s)
<1>1. /\ Ready(p, now) /\ Agrees(r, s) /\ p.candidate # None /\ Confirms(p.candidate, s)
      /\ s.used = r.used /\ Quiet(s)
  BY DEF SeenStalled, Agrees
<1>2. p \in Queues BY PolledType
<1>3. p.candidate = q.candidate /\ p.reported = q.reported BY <1>1, PolledFields
<1>4. p.used = r.used BY PolledRing
<1> HIDE DEF p
<1>5. o.reported /\ o.eligible = p.eligible /\ o.used = p.used
  <2>1. \/ Agrees(r, s) => p.candidate # None /\ ~Confirms(p.candidate, s)
        \/ /\ o.eligible = p.eligible /\ o.used = p.used
           /\ \/ ~Ready(p, now)
              \/ p.candidate = None
              \/ o.reported
    BY <1>2, JudgedFields
  <2> HIDE DEF o
  <2>2. QED BY <1>1, <2>1
<1>6. p.eligible BY <1>1 DEF Ready
<1> HIDE DEF o
<1>7. /\ o.reported /\ o.eligible /\ o.used = s.used /\ Quiet(s)
      /\ p.reported = q.reported /\ q.candidate # None /\ Unmoved(q.candidate, s)
  BY <1>1, <1>3, <1>4, <1>5, <1>6 DEF Confirms
<1>8. QED BY <1>7 DEF o, p

\* The candidate after a live reading is what it shows.
LEMMA LiveCandidate ==
  ASSUME NEW q \in Queues, NEW r \in Rings, NEW s \in Samples, now \in Nat,
         Judged(Polled(q, r), r, s).candidate # None
  PROVE  Quiet(s) /\ Unmoved(s, Judged(Polled(q, r), r, s).candidate)
<1> DEFINE p == Polled(q, r)
           o == Judged(p, r, s)
<1>1. p \in Queues BY PolledType
<1>2. ~Ready(p, now) => p.candidate = None BY PolledFields
<1> HIDE DEF p
<1>3. \/ o.candidate = None
      \/ ~Ready(p, now) /\ o.candidate = p.candidate
      \/ Agrees(r, s) /\ o.candidate = Candidate(s)
      \/ Agrees(r, s) /\ Confirms(p.candidate, s) /\ o.candidate = p.candidate
  BY <1>1, JudgedFields
<1>4. o.candidate # None BY DEF p
<1> HIDE DEF o
<1>5. Quiet(s) /\ Unmoved(s, o.candidate)
  BY <1>2, <1>3, <1>4 DEF Agrees, Candidate, Confirms, Unmoved
<1>6. QED BY <1>5 DEF o, p

\* What the queue knows after a live reading.
LEMMA LiveKnows ==
  ASSUME NEW h \in Seq(Entries), NEW e \in Entries, NEW q \in Queues, NEW r \in Rings,
         NEW s \in Samples, now \in Nat, Knows(h, q), Aged(q, now),
         s.identity = q.snapshot.identity,
         e.kind = "visit", e.ring = r, e.live = s, e.t = now,
         e.report => SeenStalled(Polled(q, r), r, s)
  PROVE  Knows(Append(h, e), AfterLive(Polled(q, r), r, s))
<1> DEFINE p == Polled(q, r)
           j == Judged(p, r, s)
           o == AfterLive(p, r, s)
           g == Append(h, e)
           n == Len(h) + 1
<1>1. Len(h) \in Nat /\ Len(g) = n /\ g[n] = e /\ \A k \in 1 .. Len(h) : g[k] = h[k]
  BY AppendFacts
<1>2. q # None /\ s # None BY BatchedAssumption
<1>3. p \in Queues BY PolledType
<1>4. p.snapshot = q.snapshot /\ p.verification = q.verification BY PolledFields
<1>5. /\ o \in Queues /\ o.snapshot = j.snapshot /\ o.since = j.since
      /\ o.used = j.used /\ o.eligible = j.eligible /\ o.reported = j.reported
      /\ o.candidate = j.candidate
      /\ o.verification # None => o.verification = p.verification
  BY <1>3, AfterLiveFields
<1>6. o # None BY <1>5, BatchedAssumption
<1>7. j.snapshot = p.snapshot /\ (j.eligible => j.since = p.since /\ j.used = p.used /\ p.eligible)
  BY <1>3, JudgedFields
<1>8. RingAge(g, p) BY <1>2, RingAgePolled DEF Knows
<1>9. j.candidate # None => Quiet(s) /\ Unmoved(s, j.candidate) BY LiveCandidate
<1>10. SeenStalled(p, r, s) => j.reported /\ j.eligible /\ j.used = s.used
  BY LiveStalled
<1>11. ASSUME NEW i \in 1 .. Len(h), h[i].report, Lasts(g, i)
       PROVE  j.reported /\ j.eligible /\ j.used = h[i].live.used
  <2>1. Lasts(h, i) /\ Persists(h[i], e) BY <1>11, LastsAppend
  <2>2. Eligible(r, s.num) /\ Agrees(r, s) /\ Unmoved(s, h[i].live) BY <2>1 DEF Persists
  <2>3. QED BY <1>11, <2>1, <2>2, LiveTold
<1>12. Opened(g, o) BY <1>2, <1>4, <1>5, <1>7, OpenedVisit DEF Knows
<1> HIDE DEF p, j, o, g
<1>13. RingAge(g, o) BY <1>5, <1>7, <1>8 DEF RingAge
<1>14. Shown(g, o) BY <1>1, <1>2, <1>5, <1>9 DEF Shown
<1>15. Told(g, o)
  <2>1. ASSUME NEW i \in 1 .. Len(g), g[i].report, Lasts(g, i)
        PROVE  o.reported /\ o.eligible /\ o.used = g[i].live.used
    <3>1. CASE i = n BY <1>1, <1>5, <1>10, <2>1, <3>1 DEF p
    <3>2. CASE i \in 1 .. Len(h) BY <1>1, <1>5, <1>11, <2>1, <3>2
    <3>3. QED BY <1>1, <3>1, <3>2
  <2>2. QED BY <1>6, <2>1 DEF Told
<1>16. QED BY <1>12, <1>13, <1>14, <1>15 DEF Knows, g, o, p

\* The verdict, the event and the report of a live reading are justified.
LEMMA LiveJustified ==
  ASSUME NEW h \in Seq(Entries), NEW e \in Entries, NEW q \in Queues, NEW r \in Rings,
         NEW s \in Samples, now \in Nat, Knows(h, q), s.identity = q.snapshot.identity,
         e.kind = "visit", e.ring = r, e.live = s, e.t = now,
         e.stalled => SeenStalled(Polled(q, r), r, s),
         e.event = Verification(q.verification, s),
         e.report => SeenStalled(Polled(q, r), r, s) /\ ~Polled(q, r).reported
  PROVE  Justified(Append(h, e), Len(h) + 1)
<1> DEFINE p == Polled(q, r)
           g == Append(h, e)
           n == Len(h) + 1
<1>1. Len(h) \in Nat /\ Len(g) = n /\ g[n] = e /\ \A k \in 1 .. Len(h) : g[k] = h[k]
  BY AppendFacts
<1>2. q # None /\ g \in Seq(Entries) BY AppendFacts, BatchedAssumption
<1>3. p.snapshot = q.snapshot BY PolledFields
<1>4. p \in Queues BY PolledType
<1>5. RingAge(g, p) BY <1>2, RingAgePolled DEF Knows
<1>6. SeenStalled(p, r, s) => /\ Quiet(s) /\ p.reported = q.reported
                              /\ q.candidate # None /\ Unmoved(q.candidate, s)
  BY LiveStalled
<1>7. p.used = r.used BY PolledRing
<1> HIDE DEF p, g
<1>8. ASSUME e.stalled PROVE Confirmed(g, n)
  <2>1. SeenStalled(p, r, s) BY <1>8 DEF p
  <2>2. p.eligible /\ now - p.since >= Threshold BY <2>1 DEF SeenStalled, Ready
  <2>3. PICK i \in 1 .. Len(g) :
          /\ g[i].kind = "visit" /\ g[i].t = p.since
          /\ \A j \in i .. Len(g) :
               /\ g[j].kind \in {"visit", "kick"}
               /\ g[j].kind = "visit" => g[j].ring.used = p.used
                                         /\ Eligible(g[j].ring, p.snapshot.num)
    BY <1>5, <2>2 DEF RingAge
  <2>4. i # n BY <1>1, <2>2, <2>3, DetectorAssumption
  <2>5. p.snapshot.num = s.num
    <3>1. p.snapshot \in Snapshots BY <1>4 DEF Queues
    <3>2. QED BY <1>3, <3>1, SameSize
  <2>6. RingStuck(g, i, n, g[n].live.num) BY <1>1, <1>7, <2>3, <2>5 DEF RingStuck
  <2>7. i \in 1 .. n - 1 /\ g[n].t - g[i].t >= Threshold BY <1>1, <2>2, <2>3, <2>4
  <2>8. /\ Len(h) > 0 /\ h[Len(h)].kind = "visit" /\ h[Len(h)].live # None
        /\ Quiet(h[Len(h)].live) /\ Unmoved(h[Len(h)].live, q.candidate)
    BY <1>2, <1>6, <2>1 DEF Knows, Shown
  <2>9. n > 1 /\ n - 1 = Len(h) /\ g[n - 1] = h[Len(h)] BY <1>1, <2>8
  <2>10. Unmoved(g[n - 1].live, g[n].live) /\ Quiet(g[n].live)
    BY <1>1, <1>6, <2>1, <2>8, <2>9 DEF Unmoved
  <2>11. QED BY <2>3, <2>6, <2>7, <2>8, <2>9, <2>10 DEF Confirmed
<1>9. ASSUME e.event = "recovered" PROVE \E k \in 1 .. n - 1 : Cured(g, k, n)
  <2>1. /\ q.verification # None
        /\ s.used # q.verification.used /\ s.consumed # q.verification.consumed
    BY <1>9 DEF Verification
  <2>2. PICK k \in 1 .. Len(h) :
          /\ h[k].kind = "kick" /\ h[k].live.identity = q.snapshot.identity
          /\ h[k].live.used = q.verification.used
          /\ h[k].live.consumed = q.verification.consumed
          /\ \A j \in k + 1 .. Len(h) : h[j].kind = "visit"
    BY <1>2, <2>1 DEF Knows, Opened
  <2>3. ASSUME NEW j \in k + 1 .. n PROVE g[j].kind = "visit"
    <3>1. CASE j = n BY <1>1, <3>1
    <3>2. CASE j \in k + 1 .. Len(h) BY <1>1, <2>2, <3>2
    <3>3. QED BY <1>1, <3>1, <3>2
  <2>4. g[k] = h[k] /\ k \in 1 .. n - 1 BY <1>1
  <2>5. Cured(g, k, n) BY <1>1, <2>1, <2>2, <2>3, <2>4 DEF Cured
  <2>6. QED BY <2>4, <2>5
<1>10. ASSUME NEW i \in 1 .. n - 1, g[i].report, e.report
       PROVE  \E j \in i + 1 .. n : ~Persists(g[i], g[j])
  <2>1. i \in 1 .. Len(h) /\ g[i] = h[i] BY <1>1
  <2>2. ~q.reported BY <1>6, <1>10 DEF p
  <2>3. ~Lasts(h, i) BY <1>10, <2>1, <2>2 DEF Knows, Told
  <2>4. PICK j \in i + 1 .. Len(h) : ~Persists(h[i], h[j]) BY <2>3 DEF Lasts
  <2>5. j \in i + 1 .. n /\ g[j] = h[j] BY <1>1, <2>1
  <2>6. QED BY <2>1, <2>4, <2>5
<1>11. Justified(g, n) BY <1>1, <1>8, <1>9, <1>10 DEF Justified
<1>12. QED BY <1>11 DEF g

\* The invariant in the next state, FD by FD.
LEMMA HistoryNext ==
  ASSUME \A x \in FD : Knows(hist'[x], queues'[x]) /\ Sound(hist'[x]),
         pc' = "recover" => row'.s.identity = queues'[row'.fd].snapshot.identity
  PROVE  HistoryInv'
  BY DEF HistoryInv, Knows, RingAge, Shown, Opened, Told, Lasts, Persists, Sound,
     Justified, Confirmed, Cured, RingStuck, Eligible, Agrees, Quiet, Unmoved, Outstanding,
     Pending, Invalid, Distance

\* A step that records entry e of one FD and leaves queue q on it.
LEMMA HistoryStep ==
  ASSUME TypeOK, HistoryInv, NEW fd \in FD, NEW e \in Entries, NEW q,
         queues' = [queues EXCEPT ![fd] = q], Record(fd, e),
         Knows(Append(hist[fd], e), q),
         Justified(Append(hist[fd], e), Len(hist[fd]) + 1),
         pc' = "recover" => row'.fd = fd /\ row'.s.identity = q.snapshot.identity
  PROVE  HistoryInv'
<1>1. /\ hist \in [FD -> Seq(Entries)] /\ queues \in [FD -> Queues \cup {None}]
      /\ hist[fd] \in Seq(Entries)
  BY DEF TypeOK
<1>2. Sound(Append(hist[fd], e)) BY <1>1, SoundAppend DEF HistoryInv
<1>3. hist' = [hist EXCEPT ![fd] = Append(hist[fd], e)] BY DEF Record
<1>4. ASSUME NEW x \in FD PROVE Knows(hist'[x], queues'[x]) /\ Sound(hist'[x])
  BY <1>1, <1>2, <1>3 DEF HistoryInv
<1>5. pc' = "recover" => row'.s.identity = queues'[row'.fd].snapshot.identity
  BY <1>1
<1>6. QED BY <1>4, <1>5, HistoryNext

\* The error path of a visit.
LEMMA UnavailableHistory ==
  ASSUME TypeOK, HistoryInv, NEW fd \in FD, NEW q \in Queues, Unavailable(fd, q)
  PROVE  HistoryInv'
<1> DEFINE e == Note("error")
<1>1. now \in Nat /\ hist[fd] \in Seq(Entries) BY BatchedAssumption DEF TypeOK
<1>2. e \in Entries BY <1>1, EntryType DEF Note
<1>3. e.kind = "error" /\ e.event = "none" /\ ~e.report BY DEF Note, Entry
<1>4. /\ queues' = [queues EXCEPT ![fd] = Abandon(q, now)] /\ Record(fd, e)
      /\ pc' # "recover"
  BY DEF Unavailable
<1>5. /\ ~Abandon(q, now).eligible /\ Abandon(q, now).candidate = None
      /\ Abandon(q, now).verification = None
  BY <1>1, ResetFields
<1> HIDE DEF e
<1>6. Knows(Append(hist[fd], e), Abandon(q, now)) BY <1>1, <1>2, <1>3, <1>5, BrokenKnows
<1>7. Justified(Append(hist[fd], e), Len(hist[fd]) + 1)
  BY <1>1, <1>2, <1>3, PlainJustified
<1>8. QED BY <1>2, <1>4, <1>6, <1>7, HistoryStep

\* A visit that stops after the ring.
LEMMA SkipHistory ==
  ASSUME TypeOK, HistoryInv, NEW fd \in FD, NEW r \in Rings, Skip(fd, r)
  PROVE  HistoryInv'
<1> DEFINE q == queues[fd]
           p == Polled(q, r)
           e == Entry("visit", r, None, FALSE, "none", FALSE)
<1>1. fd \in todo /\ pc = "queue" BY DEF Skip, Turn
<1>2. q \in Queues /\ now \in Nat BY <1>1, VisitedQueue
<1>3. e \in Entries BY <1>2, NoteType
<1>4. /\ e.kind = "visit" /\ e.ring = r /\ e.live = None /\ e.t = now
      /\ ~e.stalled /\ e.event = "none" /\ ~e.report
  BY DEF Entry
<1>5. /\ queues' = [queues EXCEPT ![fd] = p] /\ Record(fd, e) /\ ~Watched(p)
      /\ pc' # "recover"
  BY <1>1 DEF Skip
<1>6. hist[fd] \in Seq(Entries) /\ Knows(hist[fd], q) BY DEF TypeOK, HistoryInv
<1> HIDE DEF q, e
<1>7. Knows(Append(hist[fd], e), p) BY <1>2, <1>3, <1>4, <1>5, <1>6, SkipKnows
<1>8. Justified(Append(hist[fd], e), Len(hist[fd]) + 1)
  BY <1>3, <1>4, <1>6, PlainJustified
<1>9. QED BY <1>3, <1>5, <1>7, <1>8, HistoryStep

\* A visit with a live reading.
LEMMA LiveHistory ==
  ASSUME TypeOK, HistoryInv, NEW fd \in FD, NEW r \in Rings, NEW s \in Samples,
         Live(fd, r, s)
  PROVE  HistoryInv'
<1> DEFINE q == queues[fd]
           p == Polled(q, r)
           o == AfterLive(p, r, s)
           e == LiveEntry(p, r, s)
<1>1. /\ pc = "queue" /\ fd \in todo /\ s.identity = p.snapshot.identity
      /\ queues' = [queues EXCEPT ![fd] = o] /\ Record(fd, e)
      /\ pc' = "recover" => row' = [fd |-> fd, s |-> s]
  BY LiveEffect
<1>2. q \in Queues /\ now \in Nat /\ Aged(q, now) /\ p \in Queues BY <1>1, VisitedQueue
<1>3. e \in Entries BY <1>2, LiveEntryType
<1>4. /\ e.kind = "visit" /\ e.ring = r /\ e.live = s /\ e.t = now
      /\ e.stalled = SeenStalled(p, r, s) /\ e.event = Verification(p.verification, s)
      /\ e.report = (SeenStalled(p, r, s) /\ ~p.reported)
  BY DEF LiveEntry, Entry
<1>5. p.snapshot = q.snapshot /\ p.verification = q.verification BY <1>2, PolledFields
<1>6. hist[fd] \in Seq(Entries) /\ Knows(hist[fd], q) BY DEF TypeOK, HistoryInv
<1>7. o.snapshot = q.snapshot
  <2>1. Judged(p, r, s).snapshot = p.snapshot BY <1>2, JudgedFields
  <2>2. QED BY <1>2, <1>5, <2>1, AfterLiveFields
<1> HIDE DEF q, e
<1>8. Knows(Append(hist[fd], e), o)
  BY <1>1, <1>2, <1>3, <1>4, <1>5, <1>6, LiveKnows
<1>9. Justified(Append(hist[fd], e), Len(hist[fd]) + 1)
  BY <1>1, <1>2, <1>3, <1>4, <1>5, <1>6, LiveJustified
<1> HIDE DEF o, p
<1>10. pc' = "recover" => row'.fd = fd /\ row'.s.identity = o.snapshot.identity
  BY <1>1, <1>5, <1>7
<1>11. QED BY <1>1, <1>3, <1>8, <1>9, <1>10, HistoryStep

\* A written kick.
LEMMA RekickWritesHistory == ASSUME TypeOK, HistoryInv, RekickWrites PROVE HistoryInv'
<1> DEFINE fd == row.fd
           q == queues[fd]
           s == row.s
           e == Entry("kick", None, s, TRUE, "none", FALSE)
<1>1. pc = "recover" /\ pc' # "recover" BY DEF RekickWrites
<1>2. fd \in FD /\ s \in Samples /\ now \in Nat /\ q \in Queues BY <1>1, RowType
<1>3. e \in Entries BY <1>2, EntryType
<1>4. e.kind = "kick" /\ e.live = s /\ e.event = "none" /\ ~e.report BY DEF Entry
<1>5. queues' = [queues EXCEPT ![fd] = Verify(q, s)] /\ Record(fd, e) BY DEF RekickWrites
<1>6. /\ hist[fd] \in Seq(Entries) /\ Knows(hist[fd], q)
      /\ s.identity = q.snapshot.identity
  BY <1>1, <1>2 DEF TypeOK, HistoryInv
<1> HIDE DEF fd, q, s, e
<1>7. Knows(Append(hist[fd], e), Verify(q, s)) BY <1>2, <1>3, <1>4, <1>6, KickKnows
<1>8. Justified(Append(hist[fd], e), Len(hist[fd]) + 1)
  BY <1>3, <1>4, <1>6, PlainJustified
<1>9. QED BY <1>1, <1>2, <1>3, <1>5, <1>7, <1>8, HistoryStep

\* Discovery: a queue that was replaced knows nothing, the others what they knew.
LEMMA InventoryHistory ==
  ASSUME TypeOK, HistoryInv, Inventory PROVE HistoryInv'
<1> DEFINE e == [Note("replaced") EXCEPT !.t = clock]
           kept(x, f) == \/ f[x] = None /\ queues[x] = None
                         \/ f[x] # None /\ queues[x] # None
                            /\ queues[x].snapshot.identity = f[x].identity
<1>1. now \in Nat /\ clock \in Nat BY BatchedAssumption DEF TypeOK
<1>2. e \in Entries /\ e.kind = "replaced" /\ e.event = "none" /\ ~e.report
  <2>1. Note("replaced") \in Entries BY <1>1, EntryType DEF Note
  <2>2. e \in Entries BY <1>1, <2>1 DEF Entries
  <2>3. QED BY <2>2 DEF Note, Entry
<1> HIDE DEF e
<1>3. PICK found \in [FD -> Snapshots \cup {None}] :
        /\ queues' = [fd \in FD |-> Refreshed(queues[fd], found[fd])]
        /\ hist' = [fd \in FD |-> IF kept(fd, found) THEN hist[fd] ELSE Append(hist[fd], e)]
        /\ pc' # "recover"
  BY DEF Inventory, e
<1>4. ASSUME NEW x \in FD PROVE Knows(hist'[x], queues'[x]) /\ Sound(hist'[x])
  <2>1. /\ hist[x] \in Seq(Entries) /\ queues[x] \in Queues \cup {None}
        /\ found[x] \in Snapshots \cup {None}
        /\ Knows(hist[x], queues[x]) /\ Sound(hist[x])
    BY DEF TypeOK, HistoryInv
  <2>2. queues'[x] = Refreshed(queues[x], found[x]) BY <1>3
  <2>3. CASE kept(x, found)
    <3>1. hist'[x] = hist[x] BY <1>3, <2>3
    <3>2. CASE found[x] = None
      <4>1. queues'[x] = queues[x] BY <2>2, <2>3, <3>2 DEF Refreshed
      <4>2. QED BY <2>1, <3>1, <4>1
    <3>3. CASE found[x] # None
      <4>1. queues'[x] = [queues[x] EXCEPT !.snapshot = found[x]]
        BY <2>2, <2>3, <3>3 DEF Refreshed
      <4>2. Knows(hist[x], [queues[x] EXCEPT !.snapshot = found[x]])
        BY <2>1, <2>3, <3>3, RefreshedKnows
      <4>3. QED BY <2>1, <3>1, <4>1, <4>2
    <3>4. QED BY <3>2, <3>3
  <2>4. CASE ~kept(x, found)
    <3>1. hist'[x] = Append(hist[x], e) BY <1>3, <2>4
    <3>2. queues'[x] # None => /\ ~queues'[x].eligible /\ queues'[x].candidate = None
                               /\ queues'[x].verification = None
      <4>1. CASE found[x] = None BY <2>2, <4>1 DEF Refreshed
      <4>2. CASE found[x] # None
        <5>1. queues'[x] = NewQueue(found[x]) BY <2>2, <2>4, <4>2 DEF Refreshed
        <5>2. QED BY <2>1, <4>2, <5>1, NewQueueFields
      <4>3. QED BY <4>1, <4>2
    <3>3. Knows(Append(hist[x], e), queues'[x]) BY <1>2, <2>1, <3>2, BrokenKnows
    <3>4. Sound(Append(hist[x], e)) BY <1>2, <2>1, PlainJustified, SoundAppend
    <3>5. QED BY <3>1, <3>3, <3>4
  <2>5. QED BY <2>3, <2>4
<1>5. QED BY <1>3, <1>4, HistoryNext

\* A batch that could not be read: its queues know nothing.
LEMMA BatchFailsHistory == ASSUME TypeOK, HistoryInv, BatchFails PROVE HistoryInv'
<1> DEFINE e == Note("error")
<1>1. now \in Nat BY BatchedAssumption DEF TypeOK
<1>2. e \in Entries BY <1>1, EntryType DEF Note
<1>3. e.kind = "error" /\ e.event = "none" /\ ~e.report BY DEF Note, Entry
<1> HIDE DEF e
<1>4. /\ queues' = [fd \in FD |-> IF fd \in todo THEN Abandon(queues[fd],
                                                              now) ELSE queues[fd]]
      /\ hist' = [fd \in FD |-> IF fd \in todo THEN Append(hist[fd], e) ELSE hist[fd]]
      /\ pc' # "recover"
  BY DEF BatchFails, e
<1>5. ASSUME NEW x \in FD PROVE Knows(hist'[x], queues'[x]) /\ Sound(hist'[x])
  <2>1. hist[x] \in Seq(Entries) /\ Knows(hist[x], queues[x]) /\ Sound(hist[x])
    BY DEF TypeOK, HistoryInv
  <2>2. CASE x \notin todo BY <1>4, <2>1, <2>2
  <2>3. CASE x \in todo
    <3>1. queues[x] \in Queues BY <2>3 DEF TypeOK
    <3>2. hist'[x] = Append(hist[x], e) /\ queues'[x] = Abandon(queues[x], now)
      BY <1>4, <2>3
    <3>3. /\ ~Abandon(queues[x], now).eligible /\ Abandon(queues[x], now).candidate = None
          /\ Abandon(queues[x], now).verification = None
      BY <1>1, <3>1, ResetFields
    <3>4. Knows(Append(hist[x], e), Abandon(queues[x], now))
      BY <1>2, <1>3, <2>1, <3>3, BrokenKnows
    <3>5. Sound(Append(hist[x], e)) BY <1>2, <1>3, <2>1, PlainJustified, SoundAppend
    <3>6. QED BY <3>2, <3>4, <3>5
  <2>4. QED BY <2>2, <2>3
<1>6. QED BY <1>4, <1>5, HistoryNext

\* Every step keeps what the queues know and their histories sound.
LEMMA HistoryInductive == TypeOK /\ HistoryInv /\ [Next]_vars => HistoryInv'
<1> SUFFICES ASSUME TypeOK, HistoryInv, [Next]_vars PROVE HistoryInv' OBVIOUS
<1>1. ASSUME UNCHANGED <<queues, hist>>, pc' # "recover" \/ UNCHANGED <<pc, row>>
      PROVE  HistoryInv'
  <2>1. \A x \in FD : Knows(hist'[x], queues'[x]) /\ Sound(hist'[x])
    BY <1>1 DEF HistoryInv
  <2>2. pc' = "recover" => row'.s.identity = queues'[row'.fd].snapshot.identity
    BY <1>1 DEF HistoryInv
  <2>3. QED BY <2>1, <2>2, HistoryNext
<1>2. CASE Tick \/ Cancel \/ TopReturns
  BY <1>1, <1>2 DEF Tick, Cancel, TopReturns, Return, history
<1>3. CASE BeginIteration
  <2>1. CASE Inventory BY <2>1, InventoryHistory
  <2>2. CASE ~Inventory BY <1>1, <1>3, <2>2 DEF BeginIteration
  <2>3. QED BY <2>1, <2>2
<1>4. CASE BatchFails BY <1>4, BatchFailsHistory
<1>5. CASE BatchReads \/ EndQueues \/ Summary \/ Wait
  BY <1>1, <1>5 DEF BatchReads, EndQueues, Summary, Wait, history
<1>6. ASSUME NEW fd \in FD, NEW r \in Rings, Skip(fd, r) \/ LiveFails(fd, r)
      PROVE  HistoryInv'
  <2>1. CASE Skip(fd, r) BY <2>1, SkipHistory
  <2>2. CASE LiveFails(fd, r)
    <3>1. Polled(queues[fd], r) \in Queues BY <2>2, VisitedQueue DEF LiveFails, Turn
    <3>2. QED BY <2>2, <3>1, UnavailableHistory DEF LiveFails
  <2>3. QED BY <1>6, <2>1, <2>2
<1>7. ASSUME NEW fd \in FD, NEW r \in Rings, NEW s \in Samples, Live(fd, r, s)
      PROVE  HistoryInv'
  BY <1>7, LiveHistory
<1>8. CASE RekickFails BY <1>8, RowType, UnavailableHistory DEF RekickFails
<1>9. CASE RekickWrites BY <1>9, RekickWritesHistory
<1>10. CASE UNCHANGED vars BY <1>1, <1>10 DEF vars, history
<1>11. QED BY <1>2, <1>3, <1>4, <1>5, <1>6, <1>7, <1>8, <1>9, <1>10 DEF Next

\* At every step each queue of the batched loop knows no more of its past than
\* is true, and every verdict, event and report so far is justified.
THEOREM HistoryCorrect == Spec => []HistoryInv
<1>1. ASSUME Init PROVE HistoryInv
  <2>1. ASSUME NEW x \in FD PROVE hist[x] = <<>> /\ queues[x] = None BY <1>1 DEF Init
  <2>2. \A x \in FD : Len(hist[x]) = 0 BY <2>1
  <2>3. \A x \in FD : Knows(hist[x], queues[x]) BY <2>1, <2>2 DEF Knows, Told
  <2>4. \A x \in FD : Sound(hist[x]) BY <2>2 DEF Sound
  <2>5. QED BY <1>1, <2>3, <2>4 DEF HistoryInv, Init
<1>2. QED BY <1>1, TypeCorrect, HistoryInductive, PTL DEF Spec

\* The domain of a history.
LEMMA HistoryDomain == ASSUME TypeOK, NEW fd \in FD PROVE DOMAIN hist[fd] = 1 .. Len(hist[fd])
  BY DEF TypeOK

\* The batched loop never calls a queue stalled, and so never kicks it,
\* without a still ring for Threshold and two agreeing live readings.
THEOREM ConfirmedCorrect == Spec => []StallIsConfirmed
<1>1. TypeOK /\ HistoryInv => StallIsConfirmed
  BY HistoryDomain DEF HistoryInv, Sound, Justified, StallIsConfirmed
<1>2. QED BY <1>1, TypeCorrect, HistoryCorrect, PTL

\* "recovered" is logged only for the attachment that was kicked last, after
\* both of its indices moved, and never across an error or a replacement.
THEOREM RecoveryCorrect == Spec => []RecoveryIsReal
<1>1. TypeOK /\ HistoryInv => RecoveryIsReal
  BY HistoryDomain DEF HistoryInv, Sound, Justified, RecoveryIsReal
<1>2. QED BY <1>1, TypeCorrect, HistoryCorrect, PTL

\* A stall that goes on is logged once, however often it is kicked.
THEOREM ReportedOnce == Spec => []StallReportedOnce
<1>1. TypeOK /\ HistoryInv => StallReportedOnce
  BY HistoryDomain DEF HistoryInv, Sound, Justified, StallReportedOnce
<1>2. QED BY <1>1, TypeCorrect, HistoryCorrect, PTL
=============================================================================
