--------------------------- MODULE SnapshotChannel ---------------------------
(***************************************************************************)
(* BPF.Snapshot (bpf_linux.go) and the probe snapshot_tx (watch.bpf.c).    *)
(* The workers of all VMs share one sample slot of a BPF map, which the    *)
(* probe fills during an ioctl of the agent's process: a mutex, the zeroed *)
(* slot and the owner filter keep their snapshots apart.                   *)
(***************************************************************************)
EXTENDS SnapshotService

CONSTANT MaxChanges  \* bound on the changes of a device

ASSUME ChannelAssumption ==
  /\ MaxChanges \in Nat
  /\ None \notin Caller \cup [dev : Device, from : Nat] \cup [dev : Device, seen : Nat]

VARIABLES
  pc,     \* Caller -> the statement of Snapshot it is at
  mutex,  \* snapshotMu: the caller that holds it, or None
  slot    \* the sample map: None while it is zero

channel == <<pc, mutex, slot>>
allVars == <<vars, channel>>

ChannelInit ==
  /\ Init
  /\ pc = [c \in Caller |-> "idle"]
  /\ mutex = None /\ slot = None

Goto(c, to) == pc' = [pc EXCEPT ![c] = to]

-----------------------------------------------------------------------------
\* The probe records only ioctls of the owner, the agent's own process.
Filtered(ours) == ours

\* snapshot_tx on device d; it may be missed, or the device have no TX queue.
Probe(d, ours) ==
  \/ Filtered(ours) /\ slot' = [dev |-> d, seen |-> state[d]]
  \/ UNCHANGED slot

\* QEMU sets up its device, with the same ioctl among others.
Setup(d) ==
  /\ state[d] < MaxChanges
  /\ Change(d)
  /\ Probe(d, FALSE)
  /\ UNCHANGED <<pc, mutex>>

Enter(c, d) ==
  /\ pc[c] = "idle"
  /\ Request(c, d)
  /\ Goto(c, "lock")
  /\ UNCHANGED <<mutex, slot>>

\* Mutant of Acquire: the mutex does not exclude.
AcquireAnyway(c) ==
  /\ pc[c] = "lock"
  /\ mutex' = c /\ Goto(c, "zero")
  /\ UNCHANGED <<vars, slot>>

Acquire(c) ==
  /\ pc[c] = "lock" /\ mutex = None
  /\ mutex' = c /\ Goto(c, "zero")
  /\ UNCHANGED <<vars, slot>>

\* Mutant of Zero: the sample of the call before stays in the slot.
KeepSample(c) ==
  /\ pc[c] = "zero"
  /\ Goto(c, "ioctl")
  /\ UNCHANGED <<vars, mutex, slot>>

Zero(c) ==
  /\ pc[c] = "zero"
  /\ slot' = None /\ Goto(c, "ioctl")
  /\ UNCHANGED <<vars, mutex>>

Ioctl(c) ==
  /\ pc[c] = "ioctl"
  /\ Probe(call[c].dev, TRUE)
  /\ Goto(c, "lookup")
  /\ UNCHANGED <<vars, mutex>>

\* Every return unlocks.
Return(c, a) ==
  /\ answer' = [answer EXCEPT ![c] = a]
  /\ call' = [call EXCEPT ![c] = None]
  /\ mutex' = None /\ Goto(c, "idle")
  /\ UNCHANGED <<state, slot>>

\* The FD is no vhost-net file any more, or a system call fails.
Fail(c) == pc[c] \in {"zero", "ioctl", "lookup"} /\ Return(c, None)

\* Mutant of Lookup: a missed probe is tried again under the mutex.
LookupRetries(c) ==
  /\ pc[c] = "lookup"
  /\ IF slot = None THEN Goto(c, "ioctl") /\ UNCHANGED <<vars, mutex, slot>>
     ELSE Return(c, slot)

\* A zero slot means that the probe was missed: an error.
Lookup(c) == pc[c] = "lookup" /\ Return(c, slot)

Steps(c) == Zero(c) \/ Ioctl(c) \/ Lookup(c) \/ Fail(c)

ChannelNext ==
  \/ \E d \in Device : Setup(d)
  \/ \E c \in Caller : Acquire(c) \/ Steps(c) \/ \E d \in Device : Enter(c, d)

ChannelSpec == ChannelInit /\ [][ChannelNext]_allVars

\* No call blocks, and sync.Mutex hands over to a waiter that starves.
FairChannelSpec ==
  ChannelSpec /\ \A c \in Caller : SF_allVars(Acquire(c)) /\ WF_allVars(Steps(c))

-----------------------------------------------------------------------------
\* Every variable has its type; a caller has a call exactly while it is in
\* Snapshot, and the mutex from the lock to the return.
TypeOK ==
  /\ state \in [Device -> 0 .. MaxChanges]
  /\ call \in [Caller -> [dev : Device, from : Nat] \cup {None}]
  /\ answer \in [Caller -> [dev : Device, seen : Nat] \cup {None}]
  /\ pc \in [Caller -> {"idle", "lock", "zero", "ioctl", "lookup"}]
  /\ mutex \in Caller \cup {None}
  /\ slot \in [dev : Device, seen : Nat] \cup {None}
  /\ \A c \in Caller : /\ pc[c] = "idle" <=> call[c] = None
                       /\ pc[c] \in {"zero", "ioctl", "lookup"} <=> mutex = c

\* Between the zeroing and the return the slot is the holder's: empty, or
\* filled by its own ioctl (the inductive part of SnapshotsAreHonest).
SlotIsHolders ==
  \A c \in Caller :
    /\ pc[c] = "ioctl" => slot = None
    /\ pc[c] = "lookup" => slot \in Honest(c)

\* Concurrent snapshots are honest: each call of BPF.Snapshot fails or
\* returns its own device's queue as it was during that call.
SnapshotsAreHonest == Spec

\* Every snapshot returns: no path leaves the mutex locked.
SnapshotReturns == \A c \in Caller : pc[c] = "lock" ~> pc[c] = "idle"
==============================================================================
