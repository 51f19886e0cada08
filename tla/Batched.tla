------------------------------- MODULE Batched -------------------------------
(***************************************************************************)
(* The batched loop of one VM (runBatched in internal/watch/               *)
(* batched_linux.go, RingProgress in progress.go): guarded recovery that   *)
(* reads all user rings with one system call per iteration, and takes a    *)
(* live snapshot only of queues that look stuck or are being verified.     *)
(*                                                                         *)
(* As in module Watch the environment is arbitrary: a ring reading returns *)
(* any pair of Rings, a live reading any member of Samples or an error.    *)
(* Values read from different queues are independent, so the one batch     *)
(* read is shown as one reading per queue when the loop comes to it.       *)
(*                                                                         *)
(* hist and kicks are history variables: no step reads them.               *)
(***************************************************************************)
EXTENDS Detector, Sequences

CONSTANTS
  FD,                \* vhost FD numbers QEMU may use
  Samples,           \* what a live reading of a queue may return
  Rings,             \* what a reading of its user ring may return
  InventoryInterval, \* Config.InventoryInterval
  VerifyTimeout,     \* Config.VerifyTimeout
  MaxQueues,         \* the 512 queues of a RingBatch
  None,              \* nil
  MaxClock           \* bound on the clock

Snapshots == {[identity |-> s.identity, num |-> s.num] : s \in Samples}
Identities == {s.identity : s \in Samples}
Indices == 0 .. IndexMod - 1
Candidates == [identity : Identities, used : Indices, consumed : Indices]
Verifications == [at : Nat, used : Indices, consumed : Indices]

Queues ==
  [snapshot : Snapshots, since : Nat, used : Indices, eligible : BOOLEAN,
   candidate : Candidates \cup {None}, verification : Verifications \cup {None},
   reported : BOOLEAN]

\* A Detector of which only the budget is used.
Budgets ==
  [since : {0}, lastKick : Nat \cup {NegInf}, reported : {FALSE}, have : {FALSE},
   identity : {NoIdentity}, used : {0}, consumed : {0}, attempts : SUBSET Nat]

Rows == [fd : FD, s : Samples]

Entries ==
  [kind : {"visit", "kick", "error", "replaced"}, t : Nat, ring : Rings \cup {None},
   live : Samples \cup {None}, stalled : BOOLEAN,
   event : {"none", "recovered", "recovery_unconfirmed"}, report : BOOLEAN]

\* The ring size is part of Snapshot.Identity().
ASSUME BatchedAssumption ==
  /\ FD \subseteq Nat /\ IsFiniteSet(FD)
  /\ \A s, u \in Samples : s.identity = u.identity => s.num = u.num
  /\ None \notin Snapshots \cup Candidates \cup Verifications \cup Queues
  /\ None \notin Budgets \cup Rows \cup Samples
  /\ \A s \in Samples : {s.avail, s.used, s.consumed} \subseteq 0 .. IndexMod - 1
                        /\ s.num \in 1 .. IndexMod - 1 /\ s.busy \in BOOLEAN
  /\ \A r \in Rings : {r.avail, r.used} \subseteq 0 .. IndexMod - 1
  /\ {InventoryInterval, VerifyTimeout, MaxQueues} \subseteq Nat \ {0}
  /\ MaxClock \in Nat

VARIABLES
  clock,         \* CLOCK_MONOTONIC
  cancelled,     \* ctx.Err() # nil
  pc,            \* the step the loop is at
  now,           \* the time read at the top of the iteration
  lastInventory, \* time of the last discovery
  queues,        \* FD -> batchedQueue, None if the FD is not polled
  budgets,       \* FD -> Detector of which only the budget is used
  todo,          \* queues this iteration has not come to
  row,           \* the queue a kick has been decided for
  hist,          \* FD -> everything the loop has learned and done
  kicks          \* FD -> times of the kicks

env     == <<clock, cancelled>>
loop    == <<now, lastInventory>>
history == <<hist, kicks>>
vars    == <<env, pc, loop, queues, budgets, todo, row, history>>

-----------------------------------------------------------------------------
(* RingProgress. *)

\* Something is outstanding, and no more than the ring holds.
Eligible(r, num) == Outstanding(r) > 0 /\ Outstanding(r) <= num

\* RingProgress.Observe: the age restarts unless this reading and the last
\* are both eligible and show the same used index.
Progress(q, r, t) ==
  LET eligible == Eligible(r, q.snapshot.num) IN
  [q EXCEPT !.since = IF q.eligible /\ eligible /\ q.used = r.used THEN @ ELSE t,
            !.used = r.used,
            !.eligible = eligible]

\* Its verdict, q being the queue it has just updated.
Ready(q, t) == q.eligible /\ t - q.since >= Threshold

\* Mutant of Reset: the stall stays reported.
ResetKeepsReport(q, t) == [q EXCEPT !.since = t, !.eligible = FALSE, !.candidate = None]

\* RingProgress.Reset, and the confirmation under way is given up.
Reset(q, t) ==
  [q EXCEPT !.since = t, !.eligible = FALSE, !.candidate = None, !.reported = FALSE]

\* Mutant of Abandon: the verification goes on.
AbandonAge(q, t) == Reset(q, t)

\* The error paths also give up the verification.
Abandon(q, t) == [Reset(q, t) EXCEPT !.verification = None]

NewQueue(s) ==
  [snapshot |-> s, since |-> 0, used |-> 0, eligible |-> FALSE,
   candidate |-> None, verification |-> None, reported |-> FALSE]

Entry(kind, ring, live, stalled, event, report) ==
  [kind |-> kind, t |-> now, ring |-> ring, live |-> live,
   stalled |-> stalled, event |-> event, report |-> report]

Note(kind) == Entry(kind, None, None, FALSE, "none", FALSE)

Record(fd, e) == hist' = [hist EXCEPT ![fd] = Append(@, e)]

Init ==
  /\ clock = 0 /\ cancelled = FALSE
  /\ pc = "top" /\ now = 0 /\ lastInventory = NegInf
  /\ queues = [fd \in FD |-> None] /\ budgets = [fd \in FD |-> None]
  /\ todo = {} /\ row = None
  /\ hist = [fd \in FD |-> <<>>] /\ kicks = [fd \in FD |-> {}]

Tick ==
  /\ clock < MaxClock
  /\ clock' = clock + 1
  /\ UNCHANGED <<cancelled, pc, loop, queues, budgets, todo, row, history>>

Cancel ==
  /\ ~cancelled
  /\ cancelled' = TRUE
  /\ UNCHANGED <<clock, pc, loop, queues, budgets, todo, row, history>>

Return(outcome) ==
  /\ pc' = outcome
  /\ UNCHANGED <<env, loop, queues, budgets, todo, row, history>>

TopReturns ==
  /\ pc = "top"
  /\ IF cancelled THEN Return("stopped") ELSE \E o \in {"stopped", "failed"} : Return(o)

\* What becomes of a queue when discovery finds snapshot s on its FD, or (None)
\* does not list it or cannot read it.
Refreshed(q, s) ==
  CASE s = None -> None
    [] s # None /\ q # None /\ q.snapshot.identity = s.identity -> [q EXCEPT !.snapshot = s]
    [] OTHER -> NewQueue(s)

\* Mutant of BudgetOf: the budget goes with the queue.
BudgetOfListed(b, s) == IF s = None THEN None ELSE IF b = None THEN NewDetector ELSE b

\* The budget of an FD is created when it is first listed and kept for good.
BudgetOf(b, s) == IF s # None /\ b = None THEN NewDetector ELSE b

\* Discovery replaces the queues; more than MaxQueues end the run.
Inventory ==
  \E found \in [FD -> Snapshots \cup {None}] :
    LET listed == {fd \in FD : found[fd] # None} IN
    /\ queues' = [fd \in FD |-> Refreshed(queues[fd], found[fd])]
    /\ budgets' = [fd \in FD |-> BudgetOf(budgets[fd], found[fd])]
    /\ hist' = [fd \in FD |->
         IF \/ found[fd] = None /\ queues[fd] = None
            \/ found[fd] # None /\ queues[fd] # None
               /\ queues[fd].snapshot.identity = found[fd].identity
         THEN hist[fd] ELSE Append(hist[fd], [Note("replaced") EXCEPT !.t = clock])]
    /\ lastInventory' = clock
    /\ IF Cardinality(listed) <= MaxQueues
         THEN pc' = "batch" /\ todo' = listed
         ELSE pc' = "failed" /\ todo' = {}

BeginIteration ==
  /\ pc = "top" /\ ~cancelled
  /\ now' = clock
  /\ IF Elapsed(lastInventory, InventoryInterval, clock)
       THEN Inventory
       ELSE /\ todo' = {fd \in FD : queues[fd] # None}
            /\ pc' = "batch"
            /\ UNCHANGED <<lastInventory, queues, budgets, hist>>
  /\ UNCHANGED <<env, row, kicks>>

\* A failed or short batch read invalidates the whole batch.
BatchFails ==
  /\ pc = "batch" /\ todo # {}
  /\ queues' = [fd \in FD |-> IF fd \in todo THEN Abandon(queues[fd], now) ELSE queues[fd]]
  /\ hist' = [fd \in FD |-> IF fd \in todo THEN Append(hist[fd], Note("error")) ELSE hist[fd]]
  /\ lastInventory' = NegInf
  /\ todo' = {} /\ pc' = "summary"
  /\ UNCHANGED <<env, now, budgets, row, kicks>>

BatchReads ==
  /\ pc = "batch"
  /\ pc' = "queue"
  /\ UNCHANGED <<env, loop, queues, budgets, todo, row, history>>

-----------------------------------------------------------------------------
(* One queue. *)

\* The FDs are visited in ascending order.
Turn(fd) == pc = "queue" /\ fd \in todo /\ \A x \in todo : fd <= x

\* The queue after its ring showed r.
Polled(q, r) ==
  LET p == Progress(q, r, now) IN
  IF Ready(p, now) THEN p ELSE [p EXCEPT !.candidate = None, !.reported = FALSE]

Watched(p) == Ready(p, now) \/ p.verification # None

\* Nothing to look at: no live snapshot is taken.
Skip(fd, r) ==
  LET p == Polled(queues[fd], r) IN
  /\ Turn(fd) /\ ~Watched(p)
  /\ queues' = [queues EXCEPT ![fd] = p]
  /\ Record(fd, Entry("visit", r, None, FALSE, "none", FALSE))
  /\ todo' = todo \ {fd}
  /\ UNCHANGED <<env, pc, loop, budgets, row, kicks>>

Unavailable(fd, q) ==
  /\ queues' = [queues EXCEPT ![fd] = Abandon(q, now)]
  /\ Record(fd, Note("error"))
  /\ lastInventory' = NegInf
  /\ todo' = todo \ {fd} /\ pc' = "queue" /\ row' = None
  /\ UNCHANGED <<env, now, kicks>>

\* The live reading fails or shows another attachment than discovery did.
LiveFails(fd, r) ==
  LET p == Polled(queues[fd], r) IN
  /\ Turn(fd) /\ Watched(p)
  /\ Unavailable(fd, p) /\ UNCHANGED budgets

\* The event a live reading means for an open verification v.
Verification(v, s) ==
  CASE v = None -> "none"
    [] v # None /\ s.used # v.used /\ s.consumed # v.consumed -> "recovered"
    [] v # None /\ (s.used = v.used \/ s.consumed = v.consumed) ->
         IF now - v.at >= VerifyTimeout THEN "recovery_unconfirmed" ELSE "none"

\* The live reading confirms what the ring showed.
Agrees(r, s) == s.used = r.used /\ Quiet(s)

\* Mutant of Confirms: the indices are not compared.
ConfirmsAttachment(c, s) == c.identity = s.identity

\* The live reading shows what the candidate showed.
Confirms(c, s) == Unmoved(c, s)

Candidate(s) == [identity |-> s.identity, used |-> s.used, consumed |-> s.consumed]

\* The queue after the live reading s, verification apart.
Judged(p, r, s) ==
  CASE ~Ready(p, now) -> p
    [] Ready(p, now) /\ ~Agrees(r, s) -> Reset(p, now)
    [] Ready(p, now) /\ Agrees(r, s) /\ p.candidate = None ->
         [p EXCEPT !.candidate = Candidate(s)]
    [] OTHER -> IF Confirms(p.candidate, s) THEN [p EXCEPT !.reported = TRUE]
                ELSE Reset(p, now)

Live(fd, r, s) ==
  LET p       == Polled(queues[fd], r)
      event   == Verification(p.verification, s)
      stalled == /\ Ready(p, now) /\ Agrees(r, s)
                 /\ p.candidate # None /\ Confirms(p.candidate, s)
      report  == stalled /\ ~p.reported
      budget  == IF stalled THEN Prune(budgets[fd], now) ELSE budgets[fd]
  IN
  /\ Turn(fd) /\ Watched(p)
  /\ s.identity = p.snapshot.identity
  /\ queues' = [queues EXCEPT ![fd] =
       [Judged(p, r, s) EXCEPT !.verification = IF event = "none" THEN @ ELSE None]]
  /\ budgets' = [budgets EXCEPT ![fd] = budget]
  /\ Record(fd, Entry("visit", r, s, stalled, event, report))
  /\ IF stalled /\ Allowed(budget, now) /\ ~cancelled
       THEN pc' = "recover" /\ row' = [fd |-> fd, s |-> s] /\ UNCHANGED todo
       ELSE todo' = todo \ {fd} /\ UNCHANGED <<pc, row>>
  /\ UNCHANGED <<env, loop, kicks>>

\* The refreshed inventory, the duplicate or Rekick refuses.
RekickFails ==
  /\ pc = "recover"
  /\ Unavailable(row.fd, queues[row.fd]) /\ UNCHANGED budgets

\* Mutant of Verify: the stall counts as new.
VerifyAnew(q, s) ==
  [q EXCEPT !.verification = [at |-> now, used |-> s.used, consumed |-> s.consumed],
            !.candidate = None, !.reported = FALSE]

\* The kick is to be verified, and a new confirmation is needed for another.
Verify(q, s) ==
  [q EXCEPT !.verification = [at |-> now, used |-> s.used, consumed |-> s.consumed],
            !.candidate = None]

RekickWrites ==
  LET fd == row.fd IN
  /\ pc = "recover"
  /\ queues' = [queues EXCEPT ![fd] = Verify(@, row.s)]
  /\ budgets' = [budgets EXCEPT ![fd] = Kicked(@, now)]
  /\ kicks' = [kicks EXCEPT ![fd] = @ \cup {now}]
  /\ Record(fd, Entry("kick", None, row.s, TRUE, "none", FALSE))
  /\ todo' = todo \ {fd} /\ pc' = "queue" /\ row' = None
  /\ UNCHANGED <<env, loop>>

EndQueues ==
  /\ pc = "queue" /\ todo = {}
  /\ pc' = "summary"
  /\ UNCHANGED <<env, loop, queues, budgets, todo, row, history>>

\* The summary, when due, takes live readings; one that fails or shows another
\* attachment asks for discovery.  A failed log ends the run here.
Summary ==
  /\ pc = "summary"
  /\ lastInventory' \in {lastInventory, NegInf}
  /\ pc' \in {"wait", "failed"}
  /\ UNCHANGED <<env, now, queues, budgets, todo, row, history>>

Wait ==
  /\ pc = "wait"
  /\ \/ cancelled /\ pc' = "stopped"
     \/ clock > now /\ pc' = "top"
  /\ UNCHANGED <<env, loop, queues, budgets, todo, row, history>>

Next ==
  \/ Tick
  \/ Cancel
  \/ TopReturns
  \/ BeginIteration
  \/ BatchFails
  \/ BatchReads
  \/ \E fd \in FD, r \in Rings : Skip(fd, r) \/ LiveFails(fd, r)
  \/ \E fd \in FD, r \in Rings, s \in Samples : Live(fd, r, s)
  \/ RekickFails
  \/ RekickWrites
  \/ EndQueues
  \/ Summary
  \/ Wait

Spec == Init /\ [][Next]_vars

-----------------------------------------------------------------------------
(* Properties. *)

\* Every variable has its type, every polled queue has a budget, and a stall
\* is marked as reported only while the ring is still without progress.
TypeOK ==
  /\ clock \in 0 .. MaxClock /\ now \in 0 .. clock /\ cancelled \in BOOLEAN
  /\ pc \in {"top", "batch", "queue", "recover", "summary", "wait", "stopped", "failed"}
  /\ lastInventory \in Nat \cup {NegInf}
  /\ queues \in [FD -> Queues \cup {None}]
  /\ todo \subseteq {fd \in FD : queues[fd] # None}
  /\ budgets \in [FD -> Budgets \cup {None}] /\ row \in Rows \cup {None}
  /\ hist \in [FD -> Seq(Entries)] /\ kicks \in [FD -> SUBSET Nat]
  /\ \A fd \in FD : queues[fd] # None => budgets[fd] # None
  /\ pc = "recover" <=> row # None
  /\ row # None => row.fd \in todo
  /\ \A fd \in FD : queues[fd] # None /\ queues[fd].reported =>
       queues[fd].eligible /\ now - queues[fd].since >= Threshold

\* From entry i to entry n of h the ring was seen at every visit, with the
\* same used index and something outstanding that fits a ring of num entries.
RingStuck(h, i, n, num) ==
  \A j \in i .. n :
    /\ h[j].kind \in {"visit", "kick"}
    /\ h[j].kind = "visit" => h[j].ring.used = h[n].ring.used /\ Eligible(h[j].ring, num)

\* The readings up to entry n of h justify its verdict.
Confirmed(h, n) ==
  /\ \E i \in 1 .. n - 1 :
       /\ h[i].kind = "visit" /\ h[n].t - h[i].t >= Threshold
       /\ RingStuck(h, i, n, h[n].live.num)
  /\ n > 1 /\ h[n - 1].kind = "visit" /\ h[n - 1].live # None
  /\ Unmoved(h[n - 1].live, h[n].live)
  /\ Quiet(h[n - 1].live) /\ Quiet(h[n].live)

\* The batched loop calls a queue stalled only when its ring stood still, with
\* work outstanding, at every visit of the last Threshold, and the live
\* readings of this visit and of the one before, with no kick in between,
\* agree on the attachment, on both indices and on an unserved backlog
\* ("two_live_snapshots").
StallIsConfirmed ==
  \A fd \in FD : \A n \in DOMAIN hist[fd] :
    hist[fd][n].kind = "visit" /\ hist[fd][n].stalled => Confirmed(hist[fd], n)

\* Kick k of h is the last before entry n, nothing failed or was replaced in
\* between, and both indices have moved.
Cured(h, k, n) ==
  /\ h[k].kind = "kick"
  /\ h[k].live.identity = h[n].live.identity
  /\ h[k].live.used # h[n].live.used /\ h[k].live.consumed # h[n].live.consumed
  /\ \A j \in k + 1 .. n : h[j].kind = "visit"

\* "recovered" follows a kick of the same attachment, the last one, by live
\* readings in which both indices have moved, with no failed reading and no
\* replacement of the queue in between.
RecoveryIsReal ==
  \A fd \in FD : \A n \in DOMAIN hist[fd] :
    hist[fd][n].event = "recovered" => \E k \in 1 .. n - 1 : Cured(hist[fd], k, n)

\* Entry f leaves the stall reported at visit e as it was: a kick, or a visit
\* that shows the same stall.
Persists(e, f) ==
  \/ f.kind = "kick"
  \/ /\ f.kind = "visit" /\ f.live # None /\ Eligible(f.ring, f.live.num)
     /\ Agrees(f.ring, f.live) /\ Unmoved(f.live, e.live)

\* A stall is logged once: between two reports the ring moved or was empty,
\* a live reading disagreed, or something failed or was replaced.
StallReportedOnce ==
  \A fd \in FD : \A n \in DOMAIN hist[fd] : \A i \in 1 .. n - 1 :
    hist[fd][i].report /\ hist[fd][n].report =>
      \E j \in i + 1 .. n : ~Persists(hist[fd][i], hist[fd][j])

\* The budget of a queue holds over every replacement of the queue on its FD:
\* at most Maximum kicks in any Hour, any two of them Cooldown apart.
BudgetHolds == \A fd \in FD : WithinBudget(kicks[fd])
=============================================================================
