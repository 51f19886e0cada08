---------------------------- MODULE KickAuthority ----------------------------
(***************************************************************************)
(* What a recovery promises, whoever asks for it: the only eventfd it ever *)
(* writes is one that the vhost worker of some TX queue was waiting on at  *)
(* an instant of that recovery.  QEMU may rewire its queues at any time,   *)
(* also between that instant and the write.                                *)
(***************************************************************************)
CONSTANTS Dev, Event, None

VARIABLES
  waiter,  \* Dev -> the eventfd its TX worker waits on
  grant,   \* the eventfd the recovery may write now
  sent     \* the eventfd written last

vars == <<waiter, grant, sent>>

Wiring == [Dev -> Event \cup {None}]

Init == waiter \in Wiring /\ grant = None /\ sent = None

Rewire == waiter' \in Wiring /\ UNCHANGED <<grant, sent>>

Grant(d) ==
  /\ grant = None /\ waiter[d] # None
  /\ grant' = waiter[d]
  /\ UNCHANGED <<waiter, sent>>

Write ==
  /\ grant # None
  /\ sent' = grant /\ grant' = None
  /\ UNCHANGED waiter

Drop == grant' = None /\ UNCHANGED <<waiter, sent>>

Next == Rewire \/ (\E d \in Dev : Grant(d)) \/ Write \/ Drop

Spec == Init /\ [][Next]_vars
=============================================================================
