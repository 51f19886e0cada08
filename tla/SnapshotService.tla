--------------------------- MODULE SnapshotService ---------------------------
(***************************************************************************)
(* What a snapshot promises to each of its concurrent callers: it fails,   *)
(* or shows the queue of the caller's own device as it was at an instant   *)
(* of the call.                                                            *)
(***************************************************************************)
EXTENDS Integers

CONSTANTS Caller, Device, None

VARIABLES
  state,  \* Device -> the state of its TX queue, counted by its changes
  call,   \* Caller -> the device it asked about and its state then, or None
  answer  \* Caller -> what its last call returned, None for a failure

vars == <<state, call, answer>>

Init ==
  /\ state = [d \in Device |-> 0]
  /\ call = [c \in Caller |-> None]
  /\ answer = [c \in Caller |-> None]

Change(d) == state' = [state EXCEPT ![d] = @ + 1] /\ UNCHANGED <<call, answer>>

Request(c, d) ==
  /\ call[c] = None
  /\ call' = [call EXCEPT ![c] = [dev |-> d, from |-> state[d]]]
  /\ UNCHANGED <<state, answer>>

\* What the call of c may return.
Honest(c) ==
  {None} \cup {[dev |-> call[c].dev, seen |-> v] : v \in call[c].from .. state[call[c].dev]}

Answer(c) ==
  /\ call[c] # None
  /\ \E a \in Honest(c) : answer' = [answer EXCEPT ![c] = a]
  /\ call' = [call EXCEPT ![c] = None]
  /\ UNCHANGED state

Next ==
  \/ \E d \in Device : Change(d)
  \/ \E c \in Caller : Answer(c) \/ \E d \in Device : Request(c, d)

Spec == Init /\ [][Next]_vars
==============================================================================
