-------------------------------- MODULE Once --------------------------------
(***************************************************************************)
(* The one-shot commands of RunSelected (manager_linux.go): --once, which  *)
(* writes a kick to the TX slots of the selected VMs (rescue), and         *)
(* --list-queues, which reads them (ListQueues).  VMs come and go and any  *)
(* of their calls may fail; a kick itself is module Rekick.                *)
(***************************************************************************)
EXTENDS Integers, FiniteSets

CONSTANTS
  VM, Slot, \* VMs that may be selected, vhost FD numbers of a VM
  None

ASSUME OnceAssumption ==
  /\ IsFiniteSet(VM) /\ Slot \subseteq Nat /\ IsFiniteSet(Slot)
  /\ None \notin VM \cup Slot

VARIABLES
  flags,     \* list: --list-queues, not --once; only: --vhost-fd, or None
  targets,   \* the VMs that Resolve returned
  failures,  \* problems of Resolve and failed targets
  todo,      \* targets the loop has not come to
  vm,        \* the target it is at, None between two targets
  slots,     \* VM -> the slots its Inventory showed
  left,      \* those of vm not handled yet
  done,      \* VM -> slots kicked, or listed
  ctxDone,   \* the context is done
  exit       \* the result of the command, "none" while it runs

vars == <<flags, targets, failures, todo, vm, slots, left, done, ctxDone, exit>>

Nothing == [v \in VM |-> {}]

\* After the first Resolve: no target, or --vhost-fd and not exactly one VM,
\* is an error.
Init ==
  /\ flags \in [list : BOOLEAN, only : Slot \cup {None}]
  /\ targets \in SUBSET VM /\ failures \in {0, 1}
  /\ todo = targets /\ vm = None /\ left = {} /\ ctxDone = FALSE
  /\ slots = Nothing /\ done = Nothing
  /\ exit = IF targets = {} \/ (flags.only # None /\ Cardinality(targets) # 1)
              THEN "refused" ELSE "none"

Cancel ==
  /\ ~ctxDone /\ exit = "none"
  /\ ctxDone' = TRUE
  /\ UNCHANGED <<flags, targets, failures, todo, vm, slots, left, done, exit>>

\* Mutant of Failed: the command stops at the first VM that fails.
FailedStops ==
  /\ failures' = failures + 1 /\ vm' = None /\ left' = {} /\ todo' = {}

\* The target failed: it is counted and the next one is tried.
Failed == failures' = failures + 1 /\ vm' = None /\ left' = {} /\ UNCHANGED todo

\* OpenTarget, the check of the identity and the inventory.  The slots of a
\* listing are all, those of a rescue the selected one or all.
BeginTarget(v) ==
  /\ exit = "none" /\ vm = None /\ v \in todo /\ ~ctxDone
  /\ todo' = todo \ {v} /\ vm' = v
  /\ \E s \in SUBSET Slot :
       /\ slots' = [slots EXCEPT ![v] = IF flags.list \/ flags.only = None THEN s ELSE s \cap {flags.only}]
       /\ left' = slots'[v]
  /\ UNCHANGED <<flags, targets, failures, done, ctxDone, exit>>

OpenFails(v) ==
  /\ exit = "none" /\ vm = None /\ v \in todo /\ ~ctxDone
  /\ todo' = todo \ {v}
  /\ failures' = failures + 1
  /\ UNCHANGED <<flags, targets, vm, slots, left, done, ctxDone, exit>>

\* The slots are handled in ascending order.
Turn(s) == vm # None /\ s \in left /\ \A x \in left : s <= x

HandleSlot(s) ==
  /\ Turn(s)
  /\ left' = left \ {s}
  /\ done' = [done EXCEPT ![vm] = @ \cup {s}]
  /\ UNCHANGED <<flags, targets, failures, todo, vm, slots, ctxDone, exit>>

\* Duplicate, Snapshot and Rekick of a rescue.
KickSlot(s) == ~flags.list /\ HandleSlot(s)

\* liveRow of a listing.
ListSlot(s) == flags.list /\ HandleSlot(s)

\* The first failing slot ends its target; a kick may have been written
\* before its log failed.
SlotFails(s) ==
  /\ Turn(s)
  /\ done' \in {done} \cup (IF flags.list THEN {} ELSE {[done EXCEPT ![vm] = @ \cup {s}]})
  /\ Failed
  /\ UNCHANGED <<flags, targets, slots, ctxDone, exit>>

\* Mutant of Served: a rescue without a slot succeeds.
ServedAnyway == TRUE

\* A rescue must have written at least one kick.
Served == flags.list \/ done[vm] # {}

EndTarget ==
  /\ vm # None /\ left = {}
  /\ IF Served THEN vm' = None /\ UNCHANGED <<failures, left, todo>> ELSE Failed
  /\ UNCHANGED <<flags, targets, slots, done, ctxDone, exit>>

\* The context is looked at before each target.
Exit ==
  /\ exit = "none" /\ vm = None
  /\ \/ todo # {} /\ ctxDone /\ exit' = "cancelled"
     \/ todo = {} /\ failures > 0 /\ exit' = "failed"
     \/ todo = {} /\ failures = 0 /\ exit' \in {"ok", "unlogged"}
  /\ UNCHANGED <<flags, targets, failures, todo, vm, slots, left, done, ctxDone>>

Next ==
  \/ Cancel
  \/ \E v \in VM : BeginTarget(v) \/ OpenFails(v)
  \/ \E s \in Slot : KickSlot(s) \/ ListSlot(s) \/ SlotFails(s)
  \/ EndTarget \/ Exit

Spec == Init /\ [][Next]_vars

-----------------------------------------------------------------------------
\* Exit status 0 of --once means that every selected VM was there and every
\* selected TX slot of each was kicked, at least one.
SuccessIsComplete ==
  exit = "ok" => \A v \in targets : done[v] = slots[v] /\ (flags.list \/ done[v] # {})

\* A VM that fails does not keep the others from their kicks: unless the
\* command was cancelled, every slot of a VM was kicked or that VM failed.
FailuresAreIsolated ==
  exit \in {"ok", "failed"} =>
    Cardinality({v \in targets : done[v] # slots[v] \/ (~flags.list /\ done[v] = {})}) <= failures
==============================================================================
