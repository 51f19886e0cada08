----------------------------- MODULE MCBatched -----------------------------
(***************************************************************************)
(* Instances of Batched for TLC.  Rings have 2 entries, indices wrap at 8. *)
(***************************************************************************)
EXTENDS Batched

Sample(i, avail, used, consumed, busy) ==
  [identity |-> i, num |-> 2, avail |-> avail, used |-> used,
   consumed |-> consumed, busy |-> busy]

\* Attachment "a" with a backlog across the wrap, part of it consumed, being
\* served, and served; another attachment "b".
Backlog  == Sample("a", 1, 7, 7, FALSE)
Taken    == Sample("a", 1, 7, 0, FALSE)
Busy     == Sample("a", 1, 7, 7, TRUE)
Served   == Sample("a", 2, 1, 1, FALSE)
Replaced == Sample("b", 1, 7, 7, FALSE)

AllSamples == {Backlog, Taken, Busy, Served, Replaced}

Ring(avail, used) == [avail |-> avail, used |-> used]

\* Stuck, moved with more to do, and empty.
AllRings == {Ring(1, 7), Ring(2, 1), Ring(7, 7)}

\* A queue, attached now as "a" and now as "b", that never moves and whose
\* readings all succeed.
Stuck(h) ==
  \A n \in DOMAIN h : /\ h[n].kind # "error"
                      /\ h[n].live \in {None, Backlog, Replaced}
                      /\ h[n].ring \in {None, Ring(1, 7)}

\* Up to 4 ticks everything may happen.  Only runs without a late iteration
\* in which every queue is stuck go on, up to MaxClock: long enough for a
\* queue that was kicked to vanish, come back and be judged stalled again.
LongIfStuck ==
  clock <= 4 \/ (clock <= now + 1 /\ ~cancelled /\ \A fd \in FD : Stuck(hist[fd]))
=============================================================================
