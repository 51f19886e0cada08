----------------------------- MODULE OnceProofs -----------------------------
(***************************************************************************)
(* Proofs about the one-shot commands (module Once), for every finite set  *)
(* of VMs and slots: what exit status 0 means, and that every VM that was  *)
(* not served is counted.                                                  *)
(***************************************************************************)
EXTENDS Once, FiniteSetTheorems, TLAPS

Exits == {"none", "refused", "cancelled", "failed", "ok", "unlogged"}

\* Every variable has its type; a target is to do, at hand or behind.
TypeInv ==
  /\ flags \in [list : BOOLEAN, only : Slot \cup {None}]
  /\ targets \subseteq VM /\ failures \in Nat
  /\ todo \subseteq targets /\ vm \in (targets \ todo) \cup {None}
  /\ slots \in [VM -> SUBSET Slot] /\ done \in [VM -> SUBSET Slot]
  /\ left \subseteq Slot /\ ctxDone \in BOOLEAN /\ exit \in Exits

\* Of the VM at hand each slot is handled or left, nothing was done for a VM
\* the loop has not come to, and a command that has ended is at no VM.
VisitInv ==
  /\ vm = None => left = {}
  /\ vm # None => exit = "none" /\ slots[vm] = done[vm] \cup left
  /\ \A v \in todo : done[v] = {} /\ slots[v] = {}
  /\ exit \in {"ok", "failed"} => todo = {}
  /\ exit = "ok" => failures = 0

\* A VM of which a slot, or every slot, went without its kick.
Unserved(v) == done[v] # slots[v] \/ (~flags.list /\ done[v] = {})

\* The VMs behind the loop that were not served.
Missed == {v \in targets : v \notin todo /\ v # vm /\ Unserved(v)}

\* FailuresAreIsolated is not inductive: it says nothing before the command
\* ends.  At each step the unserved VMs behind the loop are counted.
CountInv == Cardinality(Missed) <= failures

\* The inductive invariant.
IInv == TypeInv /\ VisitInv /\ CountInv

-----------------------------------------------------------------------------
(* Counting. *)

\* One more member needs one more failure at most.
LEMMA OneMore ==
  ASSUME NEW B, NEW C, NEW x, NEW f \in Nat,
         IsFiniteSet(B), Cardinality(B) <= f, C \subseteq B \cup {x}
  PROVE  Cardinality(C) <= f + 1
<1>1. Cardinality(B) \in Nat BY FS_CardinalityType
<1>2. /\ IsFiniteSet(B \cup {x})
      /\ Cardinality(B \cup {x}) = IF x \in B THEN Cardinality(B) ELSE Cardinality(B) + 1
  BY FS_AddElement
<1>3. IsFiniteSet(C) /\ Cardinality(C) <= Cardinality(B \cup {x})
  BY <1>2, FS_Subset
<1>4. Cardinality(C) \in Nat BY <1>3, FS_CardinalityType
<1>5. QED BY <1>1, <1>2, <1>3, <1>4

\* The VMs missed are finitely many.
LEMMA MissedFinite == ASSUME TypeInv PROVE IsFiniteSet(Missed)
<1>1. IsFiniteSet(VM) BY OnceAssumption
<1>2. Missed \subseteq VM BY DEF Missed, TypeInv
<1>3. QED BY <1>1, <1>2, FS_Subset

\* A step that fails at most the VM x counts it.
LEMMA CountFailed ==
  ASSUME TypeInv, CountInv, NEW x, Missed' \subseteq Missed \cup {x},
         failures' = failures + 1
  PROVE  CountInv'
<1>1. IsFiniteSet(Missed) BY MissedFinite
<1>2. failures \in Nat /\ Cardinality(Missed) <= failures BY DEF TypeInv, CountInv
<1>3. Cardinality(Missed') <= failures + 1 BY <1>1, <1>2, OneMore
<1>4. QED BY <1>3 DEF CountInv

\* A step that misses no VM counts none.
LEMMA CountKept ==
  ASSUME TypeInv, CountInv, Missed' \subseteq Missed, failures' = failures
  PROVE  CountInv'
<1>1. IsFiniteSet(Missed) BY MissedFinite
<1>2. IsFiniteSet(Missed') /\ Cardinality(Missed') <= Cardinality(Missed)
  BY <1>1, FS_Subset
<1>3. Cardinality(Missed) \in Nat /\ Cardinality(Missed') \in Nat
  BY <1>1, <1>2, FS_CardinalityType
<1>4. QED BY <1>2, <1>3 DEF CountInv, TypeInv

-----------------------------------------------------------------------------
(* The steps. *)

\* Taking up a target.
LEMMA BeginTargetInv == ASSUME IInv, NEW v \in VM, BeginTarget(v) PROVE IInv'
<1> USE DEF IInv
<1>1. v # None BY OnceAssumption
<1>2. PICK s \in SUBSET Slot :
        /\ slots' = [slots EXCEPT ![v] = IF flags.list \/ flags.only = None THEN s
                                         ELSE s \cap {flags.only}]
        /\ left' = slots'[v]
  BY DEF BeginTarget
<1>3. slots' \in [VM -> SUBSET Slot] /\ \A x \in VM \ {v} : slots'[x] = slots[x]
  BY <1>2 DEF TypeInv
<1>4. left' \subseteq Slot BY <1>2, <1>3
<1>5. TypeInv' BY <1>1, <1>3, <1>4 DEF TypeInv, BeginTarget
<1>6. VisitInv' BY <1>1, <1>2, <1>3 DEF TypeInv, VisitInv, BeginTarget
<1>7. Missed' \subseteq Missed
  <2>1. /\ vm = None /\ vm' = v /\ todo' = todo \ {v} /\ None \notin targets
        /\ targets \subseteq VM /\ UNCHANGED <<flags, targets, done>>
    BY OnceAssumption DEF TypeInv, BeginTarget
  <2>2. QED BY <1>3, <2>1 DEF Missed, Unserved
<1>8. CountInv' BY <1>7, CountKept DEF BeginTarget
<1>9. QED BY <1>5, <1>6, <1>8

\* A target that cannot be opened.
LEMMA OpenFailsInv == ASSUME IInv, NEW v \in VM, OpenFails(v) PROVE IInv'
<1> USE DEF IInv
<1>1. TypeInv' BY DEF TypeInv, OpenFails
<1>2. VisitInv' BY DEF TypeInv, VisitInv, OpenFails, Exits
<1>3. Missed' \subseteq Missed \cup {v} BY DEF Missed, Unserved, OpenFails
<1>4. CountInv' BY <1>3, CountFailed DEF OpenFails
<1>5. QED BY <1>1, <1>2, <1>4

\* A slot that is kicked or listed.
LEMMA HandleSlotInv == ASSUME IInv, NEW s \in Slot, HandleSlot(s) PROVE IInv'
<1> USE DEF IInv
<1>1. vm # None /\ vm \in VM /\ vm \notin todo /\ s \in left BY DEF TypeInv, HandleSlot, Turn
<1>2. /\ done' \in [VM -> SUBSET Slot] /\ done'[vm] = done[vm] \cup {s}
      /\ \A x \in VM \ {vm} : done'[x] = done[x]
  BY <1>1 DEF TypeInv, HandleSlot
<1>3. TypeInv' BY <1>2 DEF TypeInv, HandleSlot
<1>4. VisitInv' BY <1>1, <1>2 DEF TypeInv, VisitInv, HandleSlot
<1>5. Missed' \subseteq Missed BY <1>2 DEF Missed, Unserved, TypeInv, HandleSlot
<1>6. CountInv' BY <1>5, CountKept DEF HandleSlot
<1>7. QED BY <1>3, <1>4, <1>6

\* A slot that fails ends its target, with or without the last kick.
LEMMA SlotFailsInv == ASSUME IInv, NEW s \in Slot, SlotFails(s) PROVE IInv'
<1> USE DEF IInv
<1>1. vm # None /\ vm \in VM /\ vm \notin todo BY DEF TypeInv, SlotFails, Turn
<1>2. done' \in [VM -> SUBSET Slot] /\ \A x \in VM \ {vm} : done'[x] = done[x]
  BY <1>1 DEF TypeInv, SlotFails
<1>3. TypeInv' BY <1>2 DEF TypeInv, SlotFails, Failed
<1>4. VisitInv' BY <1>1, <1>2 DEF TypeInv, VisitInv, SlotFails, Failed
<1>5. Missed' \subseteq Missed \cup {vm}
  BY <1>2 DEF Missed, Unserved, TypeInv, SlotFails, Failed
<1>6. CountInv' BY <1>5, CountFailed DEF SlotFails, Failed
<1>7. QED BY <1>3, <1>4, <1>6

\* The end of a target: a rescue that found nothing to kick has failed.
LEMMA EndTargetInv == ASSUME IInv, EndTarget PROVE IInv'
<1> USE DEF IInv
<1>1. vm # None /\ vm \in VM /\ vm \notin todo /\ slots[vm] = done[vm]
  BY DEF TypeInv, VisitInv, EndTarget
<1>2. TypeInv' BY DEF TypeInv, EndTarget, Failed
<1>3. VisitInv' BY <1>1 DEF VisitInv, EndTarget, Failed
<1>4. CountInv'
  <2>1. CASE Served
    <3>1. Missed' \subseteq Missed BY <1>1, <2>1 DEF Missed, Unserved, Served, EndTarget
    <3>2. QED BY <2>1, <3>1, CountKept DEF EndTarget
  <2>2. CASE ~Served
    <3>1. Missed' \subseteq Missed \cup {vm} BY <2>2 DEF Missed, Unserved, EndTarget, Failed
    <3>2. QED BY <2>2, <3>1, CountFailed DEF EndTarget, Failed
  <2>3. QED BY <2>1, <2>2
<1>5. QED BY <1>2, <1>3, <1>4

\* The end of the command.
LEMMA ExitInv == ASSUME IInv, Exit PROVE IInv'
<1> USE DEF IInv
<1>1. TypeInv' BY DEF TypeInv, Exit, Exits
<1>2. VisitInv' BY DEF VisitInv, Exit, TypeInv
<1>3. Missed' \subseteq Missed BY DEF Missed, Unserved, Exit
<1>4. CountInv' BY <1>3, CountKept DEF Exit
<1>5. QED BY <1>1, <1>2, <1>4

\* At each step of a one-shot command every VM behind it is served or counted
\* as a failure.
THEOREM Invariant == Spec => []IInv
<1>1. ASSUME Init PROVE IInv
  <2>1. TypeInv
    <3>1. exit \in Exits /\ failures \in Nat BY <1>1 DEF Init, Exits
    <3>2. QED BY <1>1, <3>1 DEF Init, TypeInv, Nothing
  <2>2. VisitInv BY <1>1 DEF Init, VisitInv, Nothing
  <2>3. Missed = {} BY <1>1 DEF Init, Missed
  <2>4. CountInv BY <2>1, <2>3, FS_EmptySet DEF CountInv, TypeInv
  <2>5. QED BY <2>1, <2>2, <2>4 DEF IInv
<1>2. ASSUME IInv, [Next]_vars PROVE IInv'
  <2>1. ASSUME UNCHANGED <<flags, targets, failures, todo, vm, slots, left, done, exit>>,
               ctxDone' \in BOOLEAN
        PROVE  IInv'
    BY <1>2, <2>1 DEF IInv, TypeInv, VisitInv, CountInv, Missed, Unserved
  <2>2. CASE Cancel BY <2>1, <2>2 DEF Cancel
  <2>3. ASSUME NEW v \in VM, BeginTarget(v) \/ OpenFails(v) PROVE IInv'
    BY <1>2, <2>3, BeginTargetInv, OpenFailsInv
  <2>4. ASSUME NEW s \in Slot, KickSlot(s) \/ ListSlot(s) \/ SlotFails(s) PROVE IInv'
    BY <1>2, <2>4, HandleSlotInv, SlotFailsInv DEF KickSlot, ListSlot
  <2>5. CASE EndTarget BY <1>2, <2>5, EndTargetInv
  <2>6. CASE Exit BY <1>2, <2>6, ExitInv
  <2>7. CASE UNCHANGED vars BY <1>2, <2>1, <2>7 DEF vars, IInv, TypeInv
  <2>8. QED BY <1>2, <2>2, <2>3, <2>4, <2>5, <2>6, <2>7 DEF Next
<1>3. QED BY <1>1, <1>2, PTL DEF Spec

\* When the command has ended no VM is to do or at hand, so the VMs missed
\* are all that were not served.
LEMMA AllBehind ==
  ASSUME IInv, exit \in {"ok", "failed"}
  PROVE  Missed = {v \in targets : Unserved(v)}
<1>1. vm = None /\ todo = {} BY DEF IInv, VisitInv
<1>2. None \notin targets BY OnceAssumption DEF IInv, TypeInv
<1>3. QED BY <1>1, <1>2 DEF Missed

\* Status 0 of --once or --list-queues means that every selected VM was there
\* and every selected slot of it was handled, at least one by a rescue.
THEOREM SuccessComplete == Spec => []SuccessIsComplete
<1>1. ASSUME IInv PROVE SuccessIsComplete
  <2>1. SUFFICES ASSUME exit = "ok" PROVE \A v \in targets : ~Unserved(v)
    BY DEF SuccessIsComplete, Unserved
  <2>2. failures = 0 BY <1>1, <2>1 DEF IInv, VisitInv
  <2>3. IsFiniteSet(Missed) BY <1>1, MissedFinite DEF IInv
  <2>4. Cardinality(Missed) \in Nat /\ Cardinality(Missed) <= 0
    BY <1>1, <2>2, <2>3, FS_CardinalityType DEF IInv, CountInv
  <2>5. Cardinality(Missed) = 0 BY <2>4
  <2>6. Missed = {} BY <2>3, <2>5, FS_EmptySet
  <2>7. QED BY <1>1, <2>1, <2>6, AllBehind
<1>2. QED BY <1>1, Invariant, PTL

\* A VM that fails keeps no other from its kicks: at the end of a command that
\* was not cancelled the unserved VMs are at most the failures it counted.
THEOREM FailuresIsolated == Spec => []FailuresAreIsolated
<1>1. ASSUME IInv PROVE FailuresAreIsolated
  BY <1>1, AllBehind DEF IInv, CountInv, FailuresAreIsolated, Unserved
<1>2. QED BY <1>1, Invariant, PTL
=============================================================================
