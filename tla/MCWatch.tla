------------------------------ MODULE MCWatch ------------------------------
(***************************************************************************)
(* Instances of Watch for TLC.  Rings have 2 entries and indices wrap at 8.*)
(***************************************************************************)
EXTENDS Watch

Sample(i, avail, used, consumed, busy) ==
  [identity |-> i, num |-> 2, avail |-> avail, used |-> used,
   consumed |-> consumed, busy |-> busy]

\* Attachment "a" idle, with a backlog across the wrap of the indices, with
\* the same backlog while a handler runs, half consumed, all served, with an
\* impossible index; then another attachment "b" of the FD.
Idle     == Sample("a", 7, 7, 7, FALSE)
Backlog  == Sample("a", 1, 7, 7, FALSE)
Busy     == Sample("a", 1, 7, 7, TRUE)
Served   == Sample("a", 2, 1, 1, FALSE)
Taken    == Sample("a", 1, 7, 0, FALSE)
Broken   == Sample("a", 5, 7, 7, FALSE)
Replaced == Sample("b", 2, 1, 1, FALSE)

AllSamples  == {Idle, Backlog, Busy, Taken, Served, Broken, Replaced}
TwoSamples  == {Backlog, Served}
OneSample   == {Backlog}
=============================================================================
