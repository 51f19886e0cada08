------------------------ MODULE SnapshotChannelProofs ------------------------
(***************************************************************************)
(* Proofs about module SnapshotChannel, for any number of callers, devices *)
(* and changes.  The slot is the holder's because at most one caller is    *)
(* between Acquire and Return (TypeOK), and nobody else's ioctl passes the *)
(* filter; a change of the device only widens what an answer may show.     *)
(***************************************************************************)
EXTENDS SnapshotChannel, TLAPS

\* No call began in the future of its device.
CallsArePast ==
  \A c \in Caller : call[c] # None => call[c].from <= state[call[c].dev]

IInv == TypeOK /\ SlotIsHolders /\ CallsArePast

\* At the start nobody calls.
LEMMA InitInv == ChannelInit => IInv
  BY ChannelAssumption
  DEF ChannelInit, Init, IInv, TypeOK, SlotIsHolders, CallsArePast

\* What a call may return stays allowed when a device changes.
LEMMA ChangeWidens ==
  ASSUME IInv, NEW d \in Device, Change(d), NEW c \in Caller, call[c] # None
  PROVE  /\ Honest(c) \subseteq Honest(c)'
         /\ state[call[c].dev] <= state[call[c].dev]'
  <1>1. call[c] \in [dev : Device, from : Nat] /\ call'[c] = call[c]
    BY DEF IInv, TypeOK, Change
  <1>2. state[call[c].dev] \in Nat /\ state'[call[c].dev] \in Nat
        /\ state[call[c].dev] <= state'[call[c].dev]
    BY <1>1, ChannelAssumption DEF IInv, TypeOK, Change
  <1> QED BY <1>1, <1>2 DEF Honest

\* QEMU's own ioctl changes a device and leaves the slot alone.
LEMMA SetupInv == ASSUME IInv, NEW d \in Device, Setup(d) PROVE IInv'
  <1> USE DEF Setup, Change, Probe, Filtered
  <1>1. TypeOK'
    BY ChannelAssumption DEF IInv, TypeOK
  <1>2. SlotIsHolders'
    <2> SUFFICES ASSUME NEW c \in Caller
                 PROVE  /\ pc[c] = "ioctl" => slot = None
                        /\ pc[c] = "lookup" => slot \in Honest(c)'
      BY DEF SlotIsHolders
    <2>1. pc[c] = "lookup" => call[c] # None
      BY DEF IInv, TypeOK
    <2>2. pc[c] = "lookup" => Honest(c) \subseteq Honest(c)'
      BY <2>1, ChangeWidens DEF Setup
    <2> QED BY <2>2 DEF IInv, SlotIsHolders
  <1>3. CallsArePast'
    <2> SUFFICES ASSUME NEW c \in Caller, call[c] # None
                 PROVE  call[c].from <= state'[call[c].dev]
      BY DEF CallsArePast
    <2>1. state[call[c].dev] <= state'[call[c].dev]
      BY ChangeWidens DEF Setup
    <2>2. call[c] \in [dev : Device, from : Nat] /\ state[call[c].dev] \in Nat
          /\ state'[call[c].dev] \in Nat
      BY <1>1, ChannelAssumption DEF IInv, TypeOK
    <2> QED BY <2>1, <2>2 DEF IInv, CallsArePast
  <1> QED BY <1>1, <1>2, <1>3 DEF IInv

\* A new call begins in the present of its device.
LEMMA EnterInv ==
  ASSUME IInv, NEW c \in Caller, NEW d \in Device, Enter(c, d) PROVE IInv'
  <1> USE DEF Enter, Request, Goto
  <1>1. state[d] \in Nat
    BY ChannelAssumption DEF IInv, TypeOK
  <1>2. TypeOK'
    BY <1>1, ChannelAssumption DEF IInv, TypeOK
  <1>3. SlotIsHolders'
    BY DEF IInv, SlotIsHolders, Honest, TypeOK
  <1>4. CallsArePast'
    BY <1>1 DEF IInv, CallsArePast, TypeOK
  <1> QED BY <1>2, <1>3, <1>4 DEF IInv

\* The mutex excludes.
LEMMA AcquireInv == ASSUME IInv, NEW c \in Caller, Acquire(c) PROVE IInv'
  <1> USE DEF Acquire, Goto, vars
  <1>1. TypeOK'
    BY ChannelAssumption DEF IInv, TypeOK
  <1>2. SlotIsHolders' /\ CallsArePast'
    BY DEF IInv, SlotIsHolders, CallsArePast, Honest, TypeOK
  <1> QED BY <1>1, <1>2 DEF IInv

\* The holder empties the slot.
LEMMA ZeroInv == ASSUME IInv, NEW c \in Caller, Zero(c) PROVE IInv'
  <1> USE DEF Zero, Goto, vars
  <1>1. TypeOK'
    BY ChannelAssumption DEF IInv, TypeOK
  <1>2. SlotIsHolders' /\ CallsArePast'
    BY ChannelAssumption DEF IInv, SlotIsHolders, CallsArePast, Honest, TypeOK
  <1> QED BY <1>1, <1>2 DEF IInv

\* The probe fills the slot with the present state of the holder's device.
LEMMA IoctlInv == ASSUME IInv, NEW c \in Caller, Ioctl(c) PROVE IInv'
  <1> USE DEF Ioctl, Goto, vars
  <1>1. call[c] \in [dev : Device, from : Nat] /\ call[c] # None
        /\ state[call[c].dev] \in Nat /\ call[c].from <= state[call[c].dev]
    BY ChannelAssumption DEF IInv, TypeOK, CallsArePast
  <1>2. slot' \in {None, [dev |-> call[c].dev, seen |-> state[call[c].dev]]}
    BY DEF Probe, Filtered, IInv, SlotIsHolders
  <1>3. TypeOK'
    BY <1>1, <1>2, ChannelAssumption DEF IInv, TypeOK
  <1>4. slot' \in Honest(c)
    BY <1>1, <1>2 DEF Honest
  <1>5. SlotIsHolders' /\ CallsArePast'
    BY <1>4, ChannelAssumption DEF IInv, SlotIsHolders, CallsArePast, Honest, TypeOK
  <1> QED BY <1>3, <1>5 DEF IInv

\* Every return gives the mutex back.
LEMMA ReturnInv ==
  ASSUME IInv, NEW c \in Caller, mutex = c,
         NEW a \in [dev : Device, seen : Nat] \cup {None}, Return(c, a)
  PROVE  IInv'
  <1> USE DEF Return, Goto
  <1>1. TypeOK'
    BY ChannelAssumption DEF IInv, TypeOK
  <1>2. SlotIsHolders' /\ CallsArePast'
    BY ChannelAssumption DEF IInv, SlotIsHolders, CallsArePast, Honest, TypeOK
  <1> QED BY <1>1, <1>2 DEF IInv

\* Nothing else happens.
LEMMA NextInv == IInv /\ [ChannelNext]_allVars => IInv'
  <1> SUFFICES ASSUME IInv, [ChannelNext]_allVars PROVE IInv'
    OBVIOUS
  <1>1. ASSUME NEW c \in Caller, Lookup(c) \/ Fail(c) PROVE IInv'
    <2>1. mutex = c
      BY <1>1 DEF Lookup, Fail, IInv, TypeOK
    <2>2. PICK a \in [dev : Device, seen : Nat] \cup {None} : Return(c, a)
      BY <1>1 DEF Lookup, Fail, IInv, TypeOK
    <2> QED BY <2>1, <2>2, ReturnInv
  <1>2. CASE UNCHANGED allVars
    BY <1>2 DEF allVars, vars, channel, IInv, TypeOK, SlotIsHolders, CallsArePast, Honest
  <1> QED
    BY <1>1, <1>2, SetupInv, EnterInv, AcquireInv, ZeroInv, IoctlInv
    DEF ChannelNext, Steps

\* Snapshots are well typed, and whoever is in the critical section of
\* BPF.Snapshot holds snapshotMu.
THEOREM TypeCorrect == ChannelSpec => []TypeOK
  <1>1. IInv => TypeOK
    BY DEF IInv
  <1> QED BY <1>1, InitInv, NextInv, PTL DEF ChannelSpec

\* The sample slot of the BPF map is the holder's from the zeroing to the
\* lookup.
THEOREM SlotCorrect == ChannelSpec => []SlotIsHolders
  <1>1. IInv => SlotIsHolders
    BY DEF IInv
  <1> QED BY <1>1, InitInv, NextInv, PTL DEF ChannelSpec

\* A return of Snapshot is an honest answer.
LEMMA ReturnAnswers ==
  ASSUME IInv, NEW c \in Caller, Lookup(c) \/ Fail(c) PROVE Answer(c)
  <1>1. call[c] # None
    BY DEF Lookup, Fail, IInv, TypeOK
  <1>2. PICK a \in Honest(c) : Return(c, a)
    BY DEF Lookup, Fail, IInv, SlotIsHolders, Honest
  <1> QED BY <1>1, <1>2 DEF Return, Answer

\* BPF.Snapshot implements SnapshotService: however the workers of all VMs
\* and QEMU's own ioctls interleave, each call fails or returns its own
\* device's queue as it was during that call.
THEOREM SnapshotsHonest == ChannelSpec => SnapshotsAreHonest
  <1>1. ChannelInit => Init
    BY DEF ChannelInit
  <1>2. IInv /\ [ChannelNext]_allVars => [Next]_vars
    <2> SUFFICES ASSUME IInv, [ChannelNext]_allVars PROVE [Next]_vars
      OBVIOUS
    <2>1. ASSUME NEW d \in Device, Setup(d) PROVE Next
      BY <2>1 DEF Setup, Next
    <2>2. ASSUME NEW c \in Caller, NEW d \in Device, Enter(c, d) PROVE Next
      BY <2>2 DEF Enter, Next
    <2>3. ASSUME NEW c \in Caller, Lookup(c) \/ Fail(c) PROVE Next
      BY <2>3, ReturnAnswers DEF Next
    <2>4. ASSUME NEW c \in Caller, Acquire(c) \/ Zero(c) \/ Ioctl(c)
          PROVE  UNCHANGED vars
      BY <2>4 DEF Acquire, Zero, Ioctl
    <2>5. CASE UNCHANGED allVars
      BY <2>5 DEF allVars
    <2> QED BY <2>1, <2>2, <2>3, <2>4, <2>5 DEF ChannelNext, Steps
  <1> QED BY <1>1, <1>2, InitInv, NextInv, PTL DEF ChannelSpec, SnapshotsAreHonest, Spec
==============================================================================
