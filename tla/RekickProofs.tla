----------------------------- MODULE RekickProofs -----------------------------
(***************************************************************************)
(* Proofs about recovery attempts (module Rekick), for any number of       *)
(* descriptors, devices and eventfds, and any behaviour of QEMU.           *)
(***************************************************************************)
EXTENDS Rekick, WellFoundedInduction, TLAPS

\* No caller goes to Rekick without a prologue.
LEMMA PrologueLength ==
  ASSUME NEW c \in Callers PROVE Len(Prologue[c]) \in Nat \ {0}
<1>1. CASE c = "guarded" BY <1>1 DEF Prologue, GuardedCall
<1>2. CASE c = "batched" BY <1>2 DEF Prologue, BatchedCall
<1>3. CASE c = "periodic" BY <1>3 DEF Prologue, PeriodicCall
<1>4. CASE c = "rescue" BY <1>4 DEF Prologue, RescueCall
<1>5. CASE c = "recover" BY <1>5 DEF Prologue, RecoverCall
<1>6. QED BY <1>1, <1>2, <1>3, <1>4, <1>5 DEF Callers, Prologue

-----------------------------------------------------------------------------
(* Types, and that an id belongs to one live eventfd. *)

\* Two eventfds that are alive have different ids.
UniqueIds ==
  \A x, y \in Event : LiveEvent(x) /\ LiveEvent(y) /\ id[x] = id[y] => x = y

\* What an attempt knows of the eventfd it holds: it is the one whose id was
\* observed, and it is the kick file of the device if the id read there now is
\* that id.  The second part is where the uniqueness of ids comes in: the code
\* compares ids, the promise is about objects.
PinInv ==
  /\ pc # "blocked"
  /\ pc \in {"recheck", "compare", "alive", "write"} =>
       pin \in Event /\ id[pin] = obs.id /\ nonblock[pin]
  /\ pc = "compare" => seen.dev \in Dev /\ (seen.id = obs.id => seen.kick = pin)

\* The inductive invariant.
IndInv == TypeOK /\ UniqueIds /\ PinInv

\* The next step of a prologue is one of it, or Rekick.
LEMMA AdvanceType ==
  ASSUME AttemptTypeOK, pc = "prologue", Advance, caller' = caller
  PROVE  /\ pc' \in {"prologue", "pin"}
         /\ pos' \in IF pc' = "prologue" THEN 1 .. Len(Prologue[caller']) ELSE {0}
  BY PrologueLength DEF AttemptTypeOK, Advance

\* A return leaves a well-typed idle attempt and leaves QEMU alone.
LEMMA ReturnType ==
  ASSUME AttemptTypeOK, NEW result \in {"written", "refused"}, Return(result),
         calm' \in BOOLEAN, sent' \in Event \cup {None}
  PROVE  AttemptTypeOK' /\ pc' = "idle" /\ pin' = None /\ UNCHANGED qemu
  BY DEF AttemptTypeOK, Return, Forgotten, Snapshot, NoSnapshot

\* So does a refusal, which writes nothing.
LEMMA RefuseType ==
  ASSUME AttemptTypeOK, Refuse
  PROVE  AttemptTypeOK' /\ pc' = "idle" /\ pin' = None /\ UNCHANGED <<qemu, sent>>
  BY ReturnType DEF Refuse, AttemptTypeOK

\* A step of QEMU leaves the attempt alone.
LEMMA EnvironmentType ==
  ASSUME TypeOK, Environment
  PROVE  TypeOK' /\ UNCHANGED <<agent, sent, outcome>>
<1> USE RekickAssumption
<1>1. UNCHANGED <<agent, sent, outcome>> /\ calm' = FALSE
  BY DEF Environment, OpenEvent, OpenVhost, Dup, Close, SetKick, Poll, Configure, Exit, Change
<1>2. AttemptTypeOK'
  <2>1. /\ pc' = pc /\ caller' = caller /\ pos' = pos
        /\ vfd' = vfd /\ cfd' = cfd /\ pin' = pin /\ seen' = seen /\ obs' = obs
        /\ listed' = listed /\ link' = link /\ vhosts' = vhosts /\ events' = events
    BY <1>1 DEF agent, pins, inventory
  <2>2. QED BY <1>1, <2>1 DEF TypeOK, AttemptTypeOK
<1>3. ASSUME Change PROVE changes' \in 0 .. MaxChanges
  BY <1>3 DEF Change, TypeOK, QemuTypeOK
<1>4. QemuTypeOK'
  <2>1. ASSUME NEW s \in Slot, NEW e \in Event, NEW i \in EventID, NEW flag \in BOOLEAN,
               OpenEvent(s, e, i, flag)
        PROVE  QemuTypeOK'
    BY <1>3, <2>1 DEF OpenEvent, TypeOK, QemuTypeOK
  <2>2. ASSUME NEW s \in Slot, NEW d \in Dev, OpenVhost(s, d) PROVE QemuTypeOK'
    BY <1>3, <2>2 DEF OpenVhost, TypeOK, QemuTypeOK
  <2>3. ASSUME NEW s \in Slot, NEW t \in Slot, Dup(s, t) PROVE QemuTypeOK'
    BY <1>3, <2>3 DEF Dup, TypeOK, QemuTypeOK
  <2>4. ASSUME NEW s \in Slot, Close(s) PROVE QemuTypeOK'
    BY <1>3, <2>4 DEF Close, TypeOK, QemuTypeOK
  <2>5. ASSUME NEW s \in Slot, NEW e \in Event \cup {None}, SetKick(s, e) PROVE QemuTypeOK'
    BY <1>3, <2>5 DEF SetKick, TypeOK, QemuTypeOK
  <2>6. ASSUME NEW d \in Dev, Poll(d) PROVE QemuTypeOK'
    BY <2>6 DEF Poll, TypeOK, QemuTypeOK
  <2>7. ASSUME NEW s \in Slot, NEW c \in Setting, Configure(s, c) PROVE QemuTypeOK'
    BY <1>3, <2>7 DEF Configure, TypeOK, QemuTypeOK
  <2>8. CASE Exit BY <1>3, <2>8 DEF Exit, TypeOK, QemuTypeOK
  <2>9. QED BY <2>1, <2>2, <2>3, <2>4, <2>5, <2>6, <2>7, <2>8 DEF Environment
<1>5. QED BY <1>1, <1>2, <1>4 DEF TypeOK

\* The snapshot that a probe begins has its type.
LEMMA SnapshotKickType ==
  ASSUME TypeOK, NEW device \in Dev, SnapshotKick(device)
  PROVE  Snapshot(seen')
  BY DEF TypeOK, QemuTypeOK, SnapshotKick, Snapshot

\* The snapshot that a probe ends has its type.
LEMMA CompleteType ==
  ASSUME TypeOK PROVE Snapshot(Complete(seen))
  BY DEF TypeOK, QemuTypeOK, AttemptTypeOK, Complete, Snapshot

\* A step of the attempt leaves QEMU alone.
LEMMA AttemptType ==
  ASSUME TypeOK, PinInv, Attempt PROVE TypeOK' /\ UNCHANGED qemu
<1> USE RekickAssumption
<1> SUFFICES AttemptTypeOK' /\ UNCHANGED qemu
  BY DEF TypeOK, QemuTypeOK, qemu
<1>a. AttemptTypeOK BY DEF TypeOK
<1>0. CASE Refuse BY <1>0, <1>a, RefuseType
<1>1. CASE Duplicate
  <2>1. CASE ~Refuse
    <3>1. /\ pc = "prologue" /\ Advance /\ table[VhostFD] \in Dev \cup Event
          /\ vfd' \in {vfd, table[VhostFD]} /\ cfd' \in {cfd, table[VhostFD]}
          /\ UNCHANGED <<qemu, caller, pin, seen, obs, inventory, history>>
      BY <1>1, <2>1 DEF Duplicate, At, TypeOK, QemuTypeOK
    <3>2. /\ pc' \in {"prologue", "pin"}
          /\ pos' \in IF pc' = "prologue" THEN 1 .. Len(Prologue[caller']) ELSE {0}
      BY <1>a, <3>1, AdvanceType
    <3>3. QED BY <1>a, <3>1, <3>2 DEF AttemptTypeOK, inventory, history
  <2>2. QED BY <1>0, <2>1
<1>2. CASE Release
  <2>1. /\ pc' \in {"prologue", "pin"}
        /\ pos' \in IF pc' = "prologue" THEN 1 .. Len(Prologue[caller']) ELSE {0}
    BY <1>2, <1>a, AdvanceType DEF Release, At
  <2>2. QED BY <1>2, <1>a, <2>1 DEF Release, At, AttemptTypeOK, inventory, history
<1>3. CASE Kick
  <2>1. CASE ~Refuse
    <3>1. /\ pc = "prologue" /\ Advance /\ Snapshot(seen')
          /\ UNCHANGED <<qemu, caller, pins, obs, inventory, history>>
      BY <1>3, <2>1, SnapshotKickType DEF Kick, At
    <3>2. /\ pc' \in {"prologue", "pin"}
          /\ pos' \in IF pc' = "prologue" THEN 1 .. Len(Prologue[caller']) ELSE {0}
      BY <1>a, <3>1, AdvanceType
    <3>3. QED BY <1>a, <3>1, <3>2 DEF AttemptTypeOK, pins, inventory, history
  <2>2. QED BY <1>0, <2>1
<1>4. CASE ObserveSnapshot
  <2>1. CASE ~Refuse
    <3>1. /\ pc = "prologue" /\ Advance /\ Snapshot(obs')
          /\ UNCHANGED <<qemu, caller, pins, seen, inventory, history>>
      BY <1>4, <2>1, CompleteType DEF ObserveSnapshot, At
    <3>2. /\ pc' \in {"prologue", "pin"}
          /\ pos' \in IF pc' = "prologue" THEN 1 .. Len(Prologue[caller']) ELSE {0}
      BY <1>a, <3>1, AdvanceType
    <3>3. QED BY <1>a, <3>1, <3>2 DEF AttemptTypeOK, pins, inventory, history
  <2>2. QED BY <1>0, <2>1
<1>5. CASE SameSnapshot \/ Member
  <2>1. CASE ~Refuse
    <3>1. /\ pc = "prologue" /\ Advance
          /\ UNCHANGED <<qemu, caller, pins, seen, obs, inventory, history>>
      BY <1>5, <2>1 DEF SameSnapshot, Member, At
    <3>2. /\ pc' \in {"prologue", "pin"}
          /\ pos' \in IF pc' = "prologue" THEN 1 .. Len(Prologue[caller']) ELSE {0}
      BY <1>a, <3>1, AdvanceType
    <3>3. QED BY <1>a, <3>1, <3>2 DEF AttemptTypeOK, pins, inventory, history
  <2>2. QED BY <1>0, <2>1
<1>6. CASE ReadDir
  <2>1. /\ pc' \in {"prologue", "pin"}
        /\ pos' \in IF pc' = "prologue" THEN 1 .. Len(Prologue[caller']) ELSE {0}
    BY <1>6, <1>a, AdvanceType DEF ReadDir, At
  <2>2. listed' \subseteq Slot BY <1>6 DEF ReadDir
  <2>3. QED BY <1>6, <1>a, <2>1, <2>2 DEF ReadDir, At, AttemptTypeOK, pins, history
<1>7. CASE ReadLink
  <2>1. PICK fd \in Lowest(listed) :
          /\ At("scan") /\ listed' = listed \ {fd}
          /\ vhosts' \in {vhosts, vhosts \cup {fd}}
          /\ link' \in {fd, None}
          /\ UNCHANGED <<qemu, pc, caller, pos, pins, seen, obs, events, history>>
    BY <1>7 DEF ReadLink
  <2>2. fd \in Slot BY <1>a DEF AttemptTypeOK, Lowest
  <2>3. QED BY <1>a, <2>1, <2>2 DEF AttemptTypeOK, pins, history
<1>8. CASE ReadEventID
  <2>1. CASE ~Refuse
    <3>1. /\ link \in Slot /\ link' = None
          /\ events' = events \/ \E i \in EventID : events' = events \cup {<<i, link>>}
          /\ UNCHANGED <<qemu, pc, caller, pos, pins, seen, obs, listed, vhosts, history>>
      BY <1>8, <1>a, <2>1 DEF ReadEventID, AttemptTypeOK, TypeOK, QemuTypeOK
    <3>2. events' \subseteq EventID \X Slot BY <1>a, <3>1 DEF AttemptTypeOK
    <3>3. QED BY <1>a, <3>1, <3>2 DEF AttemptTypeOK, pins, history
  <2>2. QED BY <1>0, <2>1
<1>9. CASE ScanDone
  <2>1. /\ pc' \in {"prologue", "pin"}
        /\ pos' \in IF pc' = "prologue" THEN 1 .. Len(Prologue[caller']) ELSE {0}
    BY <1>9, <1>a, AdvanceType DEF ScanDone, At
  <2>2. QED BY <1>9, <1>a, <2>1 DEF ScanDone, At, AttemptTypeOK, pins, inventory, history
<1>10. CASE PinEvent
  <2>1. CASE ~Refuse
    <3>1. PICK fd \in Lowest(Candidates) :
            /\ pc = "pin" /\ table[fd] # None /\ pin' = table[fd] /\ pc' = "identify"
            /\ UNCHANGED <<qemu, caller, pos, vfd, cfd, seen, obs, inventory, history>>
      BY <1>10, <2>1 DEF PinEvent
    <3>2. fd \in Slot BY <1>a, <3>1 DEF AttemptTypeOK, Lowest, Candidates
    <3>3. pin' \in Dev \cup Event /\ pin' # None
      BY <3>1, <3>2 DEF TypeOK, QemuTypeOK
    <3>4. QED BY <1>a, <3>1, <3>3 DEF AttemptTypeOK, inventory, history
  <2>2. QED BY <1>0, <2>1
<1>11. CASE Identify
  BY <1>0, <1>11, <1>a DEF Identify, AttemptTypeOK, pins, inventory, history
<1>12. CASE RecheckKick
  <2>1. CASE ~Refuse
    <3>1. /\ pc = "recheck" /\ pc' = "compare" /\ Snapshot(seen')
          /\ UNCHANGED <<qemu, caller, pos, pins, obs, inventory, history>>
      BY <1>12, <2>1, SnapshotKickType DEF RecheckKick
    <3>2. QED BY <1>a, <3>1 DEF AttemptTypeOK, pins, inventory, history
  <2>2. QED BY <1>0, <2>1
<1>13. CASE Compare
  BY <1>0, <1>13, <1>a DEF Compare, AttemptTypeOK, pins, inventory, history
<1>14. CASE CheckAlive
  BY <1>0, <1>14, <1>a DEF CheckAlive, AttemptTypeOK, pins, inventory, history
<1>15. CASE WriteEvent
  <2>1. pc = "write" /\ pin \in Event /\ nonblock[pin] = TRUE
    BY <1>15 DEF WriteEvent, PinInv
  <2>2. calm \in BOOLEAN /\ sent \in Event \cup {None} BY <1>a DEF AttemptTypeOK
  <2>3. CASE Return("written") /\ sent' = pin /\ UNCHANGED calm
    BY <1>a, <2>1, <2>2, <2>3, ReturnType
  <2>4. CASE Return("refused") /\ calm' = FALSE /\ UNCHANGED sent
    BY <1>a, <2>2, <2>4, ReturnType
  <2>5. QED BY <1>15, <2>1, <2>3, <2>4 DEF WriteEvent
<1>16. QED
  BY <1>1, <1>2, <1>3, <1>4, <1>5, <1>6, <1>7, <1>8, <1>9, <1>10, <1>11, <1>12,
     <1>13, <1>14, <1>15 DEF Attempt

-----------------------------------------------------------------------------
(* Ids stay unique. *)

\* If no eventfd comes to life, and none changes its id, nothing can clash.
LEMMA NoneComesToLife ==
  ASSUME UniqueIds, id' = id, \A x \in Event : LiveEvent(x)' => LiveEvent(x)
  PROVE  UniqueIds'
  BY DEF UniqueIds

\* The attempt only duplicates what is open.
LEMMA AttemptHolds ==
  ASSUME TypeOK, Attempt \/ SystemError, UNCHANGED qemu,
         NEW o \in Dev \cup Event, Held(o)'
  PROVE  Held(o)
<1> USE RekickAssumption
<1>1. CASE \E result : Return(result)
  BY <1>1 DEF Return, Held, qemu
<1>2. CASE UNCHANGED pins BY <1>2 DEF Held, pins, qemu
<1>3. CASE Duplicate
  BY <1>1, <1>3 DEF Duplicate, Refuse, Held, qemu
<1>4. CASE Release BY <1>4 DEF Release, Held, qemu
<1>5. CASE PinEvent
  <2>1. CASE Refuse BY <1>1, <2>1 DEF Refuse
  <2>2. CASE ~Refuse
    <3>1. PICK fd \in Lowest(Candidates) :
            alive /\ pin' = table[fd] /\ UNCHANGED <<vfd, cfd>>
      BY <1>5, <2>2 DEF PinEvent
    <3>2. fd \in Slot BY <3>1 DEF TypeOK, AttemptTypeOK, Lowest, Candidates
    <3>3. QED BY <3>1, <3>2 DEF Held, qemu
  <2>3. QED BY <2>1, <2>2
<1>6. QED
  <2>1. CASE SystemError BY <1>1, <2>1 DEF SystemError
  <2>2. CASE Kick \/ ObserveSnapshot \/ SameSnapshot \/ Member
    BY <1>1, <1>2, <2>2 DEF Kick, ObserveSnapshot, SameSnapshot, Member, Refuse
  <2>3. CASE ReadDir \/ ReadLink \/ ReadEventID \/ ScanDone
    BY <1>1, <1>2, <2>3 DEF ReadDir, ReadLink, ReadEventID, ScanDone, Refuse
  <2>4. CASE Identify \/ RecheckKick \/ Compare \/ CheckAlive \/ WriteEvent
    BY <1>1, <1>2, <2>4 DEF Identify, RecheckKick, Compare, CheckAlive, WriteEvent, Refuse
  <2>5. QED BY <1>3, <1>4, <1>5, <2>1, <2>2, <2>3, <2>4 DEF Attempt

\* A step of the attempt brings no eventfd to life.
LEMMA AttemptIds ==
  ASSUME TypeOK, UniqueIds, Attempt \/ SystemError, UNCHANGED qemu
  PROVE  UniqueIds'
<1>1. id' = id /\ kick' = kick /\ polled' = polled BY DEF qemu
<1>2. ASSUME NEW x \in Event, LiveEvent(x)' PROVE LiveEvent(x)
  BY <1>1, <1>2, AttemptHolds DEF LiveEvent
<1>3. QED BY <1>1, <1>2, NoneComesToLife

\* QEMU's steps: only eventfd2 brings an eventfd to life, with a free id.
LEMMA EnvironmentIds ==
  ASSUME TypeOK, UniqueIds, Environment, UNCHANGED agent
  PROVE  UniqueIds'
<1> USE RekickAssumption
<1>a. QemuTypeOK /\ vfd' = vfd /\ cfd' = cfd /\ pin' = pin BY DEF TypeOK, agent, pins
<1>1. ASSUME NEW s \in Slot, NEW e \in Event, NEW i \in EventID, NEW flag \in BOOLEAN,
             OpenEvent(s, e, i, flag)
      PROVE  UniqueIds'
  <2>1. ASSUME NEW o, o # e, Held(o)' PROVE Held(o)
    BY <1>1, <1>a, <2>1 DEF OpenEvent, Held, QemuTypeOK
  <2>2. ASSUME NEW x \in Event, x # e, LiveEvent(x)' PROVE LiveEvent(x)
    BY <1>1, <2>1, <2>2 DEF OpenEvent, LiveEvent
  <2>3. id'[e] = i /\ \A x \in Event \ {e} : id'[x] = id[x]
    BY <1>1, <1>a DEF OpenEvent, QemuTypeOK
  <2>4. \A x \in Event : LiveEvent(x) => id[x] # i BY <1>1 DEF OpenEvent
  <2>5. QED BY <2>2, <2>3, <2>4 DEF UniqueIds
<1>2. ASSUME NEW s \in Slot, NEW d \in Dev, OpenVhost(s, d) PROVE UniqueIds'
  <2>1. ASSUME NEW o, o # d, Held(o)' PROVE Held(o)
    BY <1>2, <1>a, <2>1 DEF OpenVhost, Held, QemuTypeOK
  <2>2. /\ kick'[d] = None /\ polled'[d] = None
        /\ \A y \in Dev \ {d} : kick'[y] = kick[y] /\ polled'[y] = polled[y]
    BY <1>2, <1>a DEF OpenVhost, QemuTypeOK
  <2>3. ASSUME NEW x \in Event, LiveEvent(x)' PROVE LiveEvent(x)
    BY <2>1, <2>2, <2>3 DEF LiveEvent
  <2>4. QED BY <1>2, <2>3, NoneComesToLife DEF OpenVhost
<1>3. ASSUME NEW s \in Slot, NEW t \in Slot, Dup(s, t) PROVE UniqueIds'
  <2>1. ASSUME NEW o, Held(o)' PROVE Held(o)
    BY <1>3, <1>a, <2>1 DEF Dup, Held, QemuTypeOK
  <2>2. QED BY <1>3, <2>1, NoneComesToLife DEF Dup, LiveEvent
<1>4. ASSUME NEW s \in Slot, Close(s) PROVE UniqueIds'
  <2>1. ASSUME NEW o \in Dev \cup Event, Held(o)' PROVE Held(o)
    BY <1>4, <1>a, <2>1 DEF Close, Held, QemuTypeOK
  <2>2. QED BY <1>4, <2>1, NoneComesToLife DEF Close, LiveEvent
<1>5. ASSUME NEW s \in Slot, NEW e \in Event \cup {None}, SetKick(s, e) PROVE UniqueIds'
  <2>1. ASSUME NEW o PROVE Held(o)' <=> Held(o)
    BY <1>5, <1>a DEF SetKick, Held
  <2>2. e # None => Held(e) BY <1>5 DEF SetKick, Change, Held
  <2>3. \A d \in Dev : kick'[d] \in {kick[d], e} /\ polled'[d] = polled[d]
    BY <1>5, <1>a DEF SetKick, QemuTypeOK
  <2>4. ASSUME NEW x \in Event, LiveEvent(x)' PROVE LiveEvent(x)
    BY <2>1, <2>2, <2>3, <2>4 DEF LiveEvent
  <2>5. QED BY <1>5, <2>4, NoneComesToLife DEF SetKick
<1>6. ASSUME NEW d \in Dev, Poll(d) PROVE UniqueIds'
  <2>1. ASSUME NEW o PROVE Held(o)' <=> Held(o)
    BY <1>6, <1>a DEF Poll, Held
  <2>2. \A y \in Dev : kick'[y] = kick[y] /\ polled'[y] \in {polled[y], kick[y], None}
    BY <1>6, <1>a DEF Poll, QemuTypeOK
  <2>3. ASSUME NEW x \in Event, LiveEvent(x)' PROVE LiveEvent(x)
    BY <2>1, <2>2, <2>3 DEF LiveEvent
  <2>4. QED BY <1>6, <2>3, NoneComesToLife DEF Poll
<1>7. ASSUME NEW s \in Slot, NEW c \in Setting, Configure(s, c) PROVE UniqueIds'
  <2>1. ASSUME NEW o PROVE Held(o)' <=> Held(o)
    BY <1>7, <1>a DEF Configure, Held
  <2>2. QED BY <1>7, <2>1, NoneComesToLife DEF Configure, LiveEvent
<1>8. CASE Exit
  <2>1. ASSUME NEW o, Held(o)' PROVE Held(o)
    BY <1>8, <1>a, <2>1 DEF Exit, Held
  <2>2. QED BY <1>8, <2>1, NoneComesToLife DEF Exit, LiveEvent
<1>9. QED BY <1>1, <1>2, <1>3, <1>4, <1>5, <1>6, <1>7, <1>8 DEF Environment
-----------------------------------------------------------------------------
(* The induction. *)

\* QEMU cannot change what an attempt holds, least of all its id.
LEMMA EnvironmentPin ==
  ASSUME TypeOK, PinInv, Environment, UNCHANGED agent
  PROVE  PinInv'
<1> USE RekickAssumption
<1>1. pc' = pc /\ pin' = pin /\ seen' = seen /\ obs' = obs BY DEF agent, pins
<1>2. ASSUME pin \in Event PROVE id'[pin] = id[pin] /\ nonblock'[pin] = nonblock[pin]
  <2>1. ASSUME NEW s \in Slot, NEW e \in Event, NEW i \in EventID, NEW flag \in BOOLEAN,
               OpenEvent(s, e, i, flag)
        PROVE  id'[pin] = id[pin] /\ nonblock'[pin] = nonblock[pin]
    <3>1. e # pin BY <2>1 DEF OpenEvent, LiveEvent, Held
    <3>2. QED BY <1>2, <2>1, <3>1 DEF OpenEvent, TypeOK, QemuTypeOK
  <2>2. CASE UNCHANGED <<id, nonblock>> BY <2>2
  <2>3. QED
    BY <2>1, <2>2 DEF Environment, OpenVhost, Dup, Close, SetKick, Poll, Configure, Exit
<1>3. QED BY <1>1, <1>2 DEF PinInv

\* After the recheck an equal id means the same eventfd: both are alive.
LEMMA RecheckedPin ==
  ASSUME IndInv, pc = "recheck", Current \in Dev, SnapshotKick(Current),
         UNCHANGED <<qemu, pins, obs>>
  PROVE  seen'.dev \in Dev /\ (seen'.id = obs'.id => seen'.kick = pin')
<1> USE RekickAssumption
<1>1. /\ seen'.dev = Current /\ seen'.kick = kick[Current]
      /\ seen'.id = IF kick[Current] = None THEN None ELSE id[kick[Current]]
  BY DEF SnapshotKick
<1>2. pin \in Event /\ id[pin] = obs.id /\ obs.id \in EventID
  BY DEF IndInv, PinInv, TypeOK, QemuTypeOK
<1>3. kick[Current] \in Event \cup {None} BY DEF IndInv, TypeOK, QemuTypeOK
<1>4. LiveEvent(pin) /\ LiveEvent(kick[Current])
  BY DEF LiveEvent, Held, Current
<1>5. ASSUME seen'.id = obs.id PROVE kick[Current] = pin
  <2>1. kick[Current] \in Event /\ id[kick[Current]] = id[pin]
    BY <1>1, <1>2, <1>3, <1>5
  <2>2. QED BY <1>2, <1>4, <2>1 DEF IndInv, UniqueIds
<1>6. QED BY <1>1, <1>5 DEF pins

\* A step of the attempt keeps what it knows of its eventfd.
LEMMA AttemptPin ==
  ASSUME IndInv, Attempt, TypeOK', UNCHANGED qemu
  PROVE  PinInv'
<1>a. id' = id /\ nonblock' = nonblock BY DEF qemu
<1>1. CASE pc' \in {"idle", "prologue", "pin", "identify"} BY <1>1 DEF PinInv
<1>2. CASE \E result : Return(result) BY <1>1, <1>2 DEF Return
<1>3. CASE Refuse BY <1>2, <1>3 DEF Refuse
<1>4. CASE Duplicate \/ Release \/ Kick \/ ObserveSnapshot \/ SameSnapshot
  BY <1>1, <1>3, <1>4
  DEF Duplicate, Release, Kick, ObserveSnapshot, SameSnapshot, At, Advance
<1>5. CASE ReadDir \/ ReadLink \/ ReadEventID \/ ScanDone \/ Member
  BY <1>1, <1>3, <1>5 DEF ReadDir, ReadLink, ReadEventID, ScanDone, Member, At, Advance
<1>6. CASE PinEvent BY <1>1, <1>3, <1>6 DEF PinEvent
<1>7. CASE Identify BY <1>a, <1>3, <1>7 DEF Identify, PinInv, pins
<1>8. CASE RecheckKick
  <2>1. CASE ~Refuse
    <3>1. /\ pc = "recheck" /\ pc' = "compare" /\ Current \in Dev /\ SnapshotKick(Current)
          /\ UNCHANGED <<qemu, pins, obs>>
      BY <1>8, <2>1 DEF RecheckKick
    <3>2. seen'.dev \in Dev /\ (seen'.id = obs'.id => seen'.kick = pin')
      BY <3>1, RecheckedPin
    <3>3. QED BY <1>a, <3>1, <3>2 DEF IndInv, PinInv, pins
  <2>2. QED BY <1>3, <2>1
<1>9. CASE Compare \/ CheckAlive
  BY <1>a, <1>3, <1>9 DEF Compare, CheckAlive, IndInv, PinInv, pins
<1>10. CASE WriteEvent BY <1>2, <1>10 DEF WriteEvent, IndInv, PinInv
<1>11. QED
  BY <1>4, <1>5, <1>6, <1>7, <1>8, <1>9, <1>10 DEF Attempt

\* The invariant holds at first.
LEMMA InitInv == Init => IndInv
<1> SUFFICES ASSUME Init PROVE IndInv OBVIOUS
<1> USE RekickAssumption
<1>1. PICK d \in Dev, e \in Event, s \in Slot \ {VhostFD} :
        /\ table = [x \in Slot |-> CASE x = VhostFD -> d [] x = s -> e [] OTHER -> None]
        /\ kick = [x \in Dev |-> IF x = d THEN e ELSE None]
        /\ polled = kick
  BY DEF Init
<1>2. table \in [Slot -> Dev \cup Event \cup {None}]
  BY <1>1
<1>3. QemuTypeOK BY <1>1, <1>2 DEF Init, QemuTypeOK
<1>4. AttemptTypeOK BY DEF Init, AttemptTypeOK, Snapshot, NoSnapshot, Callers, Prologue
<1>5. ASSUME NEW x \in Event, LiveEvent(x) PROVE x = e
  <2>1. \A t \in Slot : table[t] \in {d, e, None} BY <1>1
  <2>2. \A y \in Dev : kick[y] \in {e, None} /\ polled[y] \in {e, None} BY <1>1
  <2>3. vfd = None /\ cfd = None /\ pin = None BY DEF Init
  <2>4. x # None /\ x # d BY <1>1
  <2>5. QED BY <1>5, <2>1, <2>2, <2>3, <2>4 DEF LiveEvent, Held
<1>6. UniqueIds BY <1>5 DEF UniqueIds
<1>7. PinInv BY DEF Init, PinInv
<1>8. QED BY <1>3, <1>4, <1>6, <1>7 DEF IndInv, TypeOK

\* The start of an attempt keeps the invariant.
LEMMA BeginInv ==
  ASSUME IndInv, NEW c \in Callers, Begin(c) PROVE IndInv'
<1> USE RekickAssumption
<1>1. QemuTypeOK' BY DEF IndInv, TypeOK, QemuTypeOK, Begin, qemu
<1>2. AttemptTypeOK'
  BY PrologueLength DEF IndInv, TypeOK, AttemptTypeOK, Begin, pins, inventory
<1>3. \A o : Held(o)' <=> Held(o) BY DEF Held, Begin, qemu, pins
<1>4. UniqueIds' BY <1>3, NoneComesToLife DEF IndInv, LiveEvent, Begin, qemu
<1>5. PinInv' BY DEF PinInv, Begin
<1>6. QED BY <1>1, <1>2, <1>4, <1>5 DEF IndInv, TypeOK

\* So does a failing system call.
LEMMA SystemErrorInv ==
  ASSUME IndInv, SystemError PROVE IndInv'
<1>1. AttemptTypeOK' /\ pc' = "idle" /\ UNCHANGED qemu
  BY ReturnType DEF SystemError, IndInv, TypeOK, AttemptTypeOK
<1>2. QemuTypeOK' BY <1>1 DEF IndInv, TypeOK, QemuTypeOK, qemu
<1>3. UniqueIds' BY <1>1, AttemptIds DEF IndInv
<1>4. PinInv' BY <1>1 DEF PinInv
<1>5. QED BY <1>1, <1>2, <1>3, <1>4 DEF IndInv, TypeOK

\* Every step keeps the invariant.
LEMMA StepInv == IndInv /\ [Next]_vars => IndInv'
<1> SUFFICES ASSUME IndInv, [Next]_vars PROVE IndInv' OBVIOUS
<1>1. CASE Environment
  <2>1. TypeOK' /\ UNCHANGED agent BY <1>1, EnvironmentType DEF IndInv
  <2>2. QED BY <1>1, <2>1, EnvironmentIds, EnvironmentPin DEF IndInv
<1>2. ASSUME NEW c \in Callers, Begin(c) PROVE IndInv' BY <1>2, BeginInv
<1>3. CASE SystemError BY <1>3, SystemErrorInv
<1>4. CASE Attempt
  <2>1. TypeOK' /\ UNCHANGED qemu BY <1>4, AttemptType DEF IndInv
  <2>2. QED BY <1>4, <2>1, AttemptIds, AttemptPin DEF IndInv
<1>5. CASE UNCHANGED vars
  BY <1>5 DEF IndInv, TypeOK, QemuTypeOK, AttemptTypeOK, UniqueIds, LiveEvent, Held,
     PinInv, vars, qemu, agent, pins, inventory, history
<1>6. QED BY <1>1, <1>2, <1>3, <1>4, <1>5 DEF Next

\* The invariant holds always.
LEMMA Inductive == Spec => []IndInv
  BY InitInv, StepInv, PTL DEF Spec
-----------------------------------------------------------------------------
(* The theorems. *)

\* Every reachable state is well typed, and the duplicates an attempt takes
\* are closed when it ends, on every return path of Rekick and its callers.
THEOREM TypeCorrect == Spec => []TypeOK
<1>1. IndInv => TypeOK BY DEF IndInv
<1>2. QED BY <1>1, Inductive, PTL

\* The write of an attempt never waits: the flags that Rekick checked belong to
\* the file it writes, because it holds that file itself.
THEOREM NeverBlockedCorrect == Spec => []NeverBlocked
<1>1. IndInv => NeverBlocked BY DEF IndInv, PinInv, NeverBlocked
<1>2. QED BY <1>1, Inductive, PTL

\* The initial states are initial states of the abstract specification.
LEMMA AuthorityInit == Init => Authority!Init
<1> USE RekickAssumption
<1>1. ASSUME Init PROVE polled \in [Dev -> Event \cup {None}]
  BY <1>1, InitInv DEF IndInv, TypeOK, QemuTypeOK
<1>2. QED BY <1>1 DEF Init, Authority!Init, Authority!Wiring, Granted

\* Nothing but a revalidation that succeeds gives the right to write.
LEMMA AuthorityCompare ==
  ASSUME IndInv, Compare
  PROVE  (\E d \in Dev : Authority!Grant(d)) \/ UNCHANGED <<polled, Granted, sent>>
<1> USE RekickAssumption
<1>1. CASE ~Refuse
  <2>1. /\ pc = "compare" /\ pc' = "alive" /\ pin' = pin /\ sent' = sent /\ polled' = polled
        /\ polled[seen.dev] = seen.kick /\ Complete(seen) = obs
    BY <1>1 DEF Compare, Valid, qemu, pins, history
  <2>2. seen.id = obs.id
    BY <2>1 DEF Complete, IndInv, TypeOK, AttemptTypeOK, Snapshot
  <2>3. seen.dev \in Dev /\ polled[seen.dev] = pin /\ pin \in Event
    BY <2>1, <2>2 DEF IndInv, PinInv
  <2>4. Granted = None /\ Granted' = pin BY <2>1 DEF Granted
  <2>5. QED BY <2>1, <2>3, <2>4 DEF Authority!Grant
<1>2. CASE Refuse
  <2>1. polled' = polled /\ pc' = "idle" /\ sent' = sent
    BY <1>2 DEF Refuse, Return, qemu
  <2>2. QED BY <2>1 DEF Compare, Granted
<1>3. QED BY <1>1, <1>2

\* Every step is a step of the abstract specification, or none to it.
LEMMA AuthorityStep ==
  ASSUME IndInv, IndInv', [Next]_vars
  PROVE  [Authority!Next]_<<polled, Granted, sent>>
<1> USE RekickAssumption
<1>a. polled' \in Authority!Wiring BY DEF Authority!Wiring, IndInv, TypeOK, QemuTypeOK
<1>1. CASE Environment
  <2>1. UNCHANGED <<Granted, sent>>
    BY <1>1, EnvironmentType DEF IndInv, Granted, agent, pins
  <2>2. QED BY <1>a, <2>1 DEF Authority!Next, Authority!Rewire
<1>2. CASE \E result : Return(result) /\ UNCHANGED sent
  <2>1. polled' = polled /\ Granted' = None /\ sent' = sent
    BY <1>2 DEF Return, Granted, qemu
  <2>2. QED BY <2>1 DEF Authority!Next, Authority!Drop
<1>3. CASE Refuse BY <1>2, <1>3 DEF Refuse
<1>4. CASE UNCHANGED <<polled, Granted, sent>> BY <1>4
<1>5. CASE SystemError BY <1>2, <1>5 DEF SystemError
<1>6. CASE \E c \in Callers : Begin(c) BY <1>4, <1>6 DEF Begin, Granted, qemu
<1>7. CASE Duplicate \/ Release \/ Kick \/ ObserveSnapshot \/ SameSnapshot
  BY <1>3, <1>4, <1>7
  DEF Duplicate, Release, Kick, ObserveSnapshot, SameSnapshot, At, Advance, Granted,
      qemu, history
<1>8. CASE ReadDir \/ ReadLink \/ ReadEventID \/ ScanDone \/ Member
  BY <1>3, <1>4, <1>8
  DEF ReadDir, ReadLink, ReadEventID, ScanDone, Member, At, Advance, Granted, qemu, history
<1>9. CASE PinEvent \/ Identify \/ RecheckKick
  BY <1>3, <1>4, <1>9 DEF PinEvent, Identify, RecheckKick, Granted, qemu, history
<1>10. CASE Compare BY <1>4, <1>10, AuthorityCompare DEF Authority!Next
<1>11. CASE CheckAlive
  BY <1>3, <1>4, <1>11 DEF CheckAlive, Granted, qemu, history, pins
<1>12. CASE WriteEvent
  <2>1. pc = "write" /\ pin \in Event /\ nonblock[pin] = TRUE
    BY <1>12 DEF WriteEvent, IndInv, PinInv
  <2>2. CASE Return("written") /\ sent' = pin
    <3>1. Granted = pin /\ Granted' = None /\ polled' = polled
      BY <2>1, <2>2 DEF Granted, Return, qemu
    <3>2. QED BY <2>1, <2>2, <3>1 DEF Authority!Next, Authority!Write
  <2>3. QED BY <1>2, <1>12, <2>1, <2>2 DEF WriteEvent
<1>13. CASE UNCHANGED vars
  BY <1>4, <1>13 DEF vars, qemu, agent, pins, history, Granted
<1>14. QED
  BY <1>1, <1>5, <1>6, <1>7, <1>8, <1>9, <1>10, <1>11, <1>12, <1>13 DEF Next, Attempt

\* Every behaviour of an attempt, in any environment, is one of the abstract
\* specification: Rekick writes no eventfd but one that a TX worker was waiting
\* on when it revalidated the attachment.
THEOREM KickAuthorised == Spec => KickIsAuthorised
<1>1. IndInv /\ IndInv' /\ [Next]_vars => [Authority!Next]_(Authority!vars)
  BY AuthorityStep DEF Authority!vars
<1>2. QED BY <1>1, AuthorityInit, Inductive, PTL DEF Spec, KickIsAuthorised, Authority!Spec
-----------------------------------------------------------------------------
(* An undisturbed attempt succeeds. *)

\* The stages of the prologue that an attempt has behind it.
Passed ==
  {Prologue[caller][i] :
     i \in IF pc = "prologue" THEN 1 .. pos - 1 ELSE 1 .. Len(Prologue[caller])}

\* The device under recovery.
Device == table[VhostFD]

\* What a snapshot of it shows.
Attached == [dev |-> Device, kick |-> kick[Device], id |-> id[kick[Device]],
             setting |-> setting[Device]]

\* Every open slot that the scan does not have before it is in the inventory.
Scanned ==
  \A s \in Slot : table[s] # None /\ s \notin listed /\ s # link =>
    /\ table[s] \in Dev => s \in vhosts
    /\ table[s] \in Event => <<id[table[s]], s>> \in events

\* What an attempt has in hand after each stage: its duplicates are the device,
\* its snapshots the attachment, its inventory the descriptor table.
InHand ==
  /\ "dup" \in Passed /\ "release" \notin Passed => vfd = Device
  /\ cfd = IF "redup" \in Passed THEN Device ELSE None
  /\ "kick" \in Passed => seen.dev = Device /\ seen.kick = kick[Device]
                          /\ seen.id = id[kick[Device]]
  /\ "observe" \in Passed => obs = Attached
  /\ "readdir" \in Passed => Scanned
  /\ "scan" \in Passed => listed = {} /\ link = None
  /\ link # None => table[link] \in Event
  /\ \A p \in events : table[p[2]] \in Event /\ id[table[p[2]]] = p[1]
  /\ pc \notin {"prologue", "pin"} => pin = kick[Device]

\* RefusalHasReason is about the end of an attempt only: CalmInv says what an
\* undisturbed attempt on a recoverable queue has found out on its way.
CalmInv ==
  /\ pc = "idle" => link = None /\ events = {}
  /\ calm /\ Recoverable /\ pc # "idle" => InHand
  /\ RefusalHasReason

\* A non-empty set of slots has a lowest one.
LEMMA LowestExists ==
  ASSUME NEW S \in SUBSET Slot, S # {} PROVE Lowest(S) # {}
<1>1. S \subseteq Nat BY RekickAssumption
<1>2. PICK x \in S : \A y \in S : ~(<<y, x>> \in OpToRel(<, Nat))
  BY <1>1, WFMin, NatLessThanWellFounded
<1>3. \A y \in S : ~(y < x) BY <1>1, <1>2 DEF OpToRel
<1>4. x \in Lowest(S) BY <1>1, <1>3 DEF Lowest
<1>5. QED BY <1>4

\* The order of the stages in every prologue: P are those before position p.
LEMMA StageOrder ==
  ASSUME NEW c \in Callers, NEW p \in 1 .. Len(Prologue[c]) + 1
  PROVE  LET P == {Prologue[c][i] : i \in 1 .. p - 1}
             ready == "redup" \in P \/ ("dup" \in P /\ "release" \notin P)
         IN  /\ p = Len(Prologue[c]) + 1 =>
                  {"kick", "observe", "readdir", "scan"} \subseteq P /\ ready
             /\ p <= Len(Prologue[c]) =>
                  /\ Prologue[c][p] = "kick" => ready
                  /\ Prologue[c][p] = "observe" => "kick" \in P
                  /\ Prologue[c][p] = "same" => "kick" \in P /\ "observe" \in P
                  /\ Prologue[c][p] = "readdir" => "scan" \notin P
                  /\ Prologue[c][p] = "scan" => "readdir" \in P /\ "scan" \notin P
                  /\ Prologue[c][p] = "member" => "scan" \in P /\ "readdir" \in P
<1>1. CASE c = "guarded"
  <2>1. Prologue[c] = GuardedCall /\ Len(Prologue[c]) = 7
    BY <1>1 DEF Prologue, GuardedCall
  <2>2. p \in {1, 2, 3, 4, 5, 6, 7, 8} BY <2>1
  <2>3. QED BY <2>1, <2>2 DEF GuardedCall
<1>2. CASE c = "batched"
  <2>1. Prologue[c] = BatchedCall /\ Len(Prologue[c]) = 8
    BY <1>2 DEF Prologue, BatchedCall
  <2>2. p \in {1, 2, 3, 4, 5, 6, 7, 8, 9} BY <2>1
  <2>3. QED BY <2>1, <2>2 DEF BatchedCall
<1>3. CASE c = "periodic"
  <2>1. Prologue[c] = PeriodicCall /\ Len(Prologue[c]) = 7
    BY <1>3 DEF Prologue, PeriodicCall
  <2>2. p \in {1, 2, 3, 4, 5, 6, 7, 8} BY <2>1
  <2>3. QED BY <2>1, <2>2 DEF PeriodicCall
<1>4. CASE c = "rescue"
  <2>1. Prologue[c] = RescueCall /\ Len(Prologue[c]) = 6
    BY <1>4 DEF Prologue, RescueCall
  <2>2. p \in {1, 2, 3, 4, 5, 6, 7} BY <2>1
  <2>3. QED BY <2>1, <2>2 DEF RescueCall
<1>5. CASE c = "recover"
  <2>1. Prologue[c] = RecoverCall /\ Len(Prologue[c]) = 8
    BY <1>5 DEF Prologue, RecoverCall
  <2>2. p \in {1, 2, 3, 4, 5, 6, 7, 8, 9} BY <2>1
  <2>3. QED BY <2>1, <2>2 DEF RecoverCall
<1>6. QED BY <1>1, <1>2, <1>3, <1>4, <1>5 DEF Callers, Prologue

\* The attempt can take a snapshot: one of its duplicates is not closed.
Ready == "redup" \in Passed \/ ("dup" \in Passed /\ "release" \notin Passed)

\* What an attempt has behind it at each stage.
LEMMA StagesPassed ==
  ASSUME AttemptTypeOK
  PROVE  /\ pc # "prologue" =>
              {"kick", "observe", "readdir", "scan"} \subseteq Passed /\ Ready
         /\ At("kick") => Ready
         /\ At("observe") => "kick" \in Passed
         /\ At("same") => "kick" \in Passed /\ "observe" \in Passed
         /\ At("readdir") => "scan" \notin Passed
         /\ At("scan") => "readdir" \in Passed /\ "scan" \notin Passed
         /\ At("member") => "scan" \in Passed /\ "readdir" \in Passed
<1>1. caller \in Callers /\ Len(Prologue[caller]) \in Nat \ {0}
  BY PrologueLength DEF AttemptTypeOK
<1>2. CASE pc # "prologue"
  <2> DEFINE p == Len(Prologue[caller]) + 1
  <2>1. p \in 1 .. Len(Prologue[caller]) + 1 /\ p - 1 = Len(Prologue[caller]) BY <1>1
  <2>2. Passed = {Prologue[caller][i] : i \in 1 .. p - 1} BY <1>2, <2>1 DEF Passed
  <2> HIDE DEF p
  <2>3. {"kick", "observe", "readdir", "scan"} \subseteq Passed /\ Ready
    BY <1>1, <2>1, <2>2, StageOrder DEF p, Ready
  <2>4. QED BY <1>2, <2>3 DEF At
<1>3. CASE pc = "prologue"
  <2>1. pos \in 1 .. Len(Prologue[caller]) + 1 /\ pos <= Len(Prologue[caller])
    BY <1>1, <1>3 DEF AttemptTypeOK
  <2>2. Passed = {Prologue[caller][i] : i \in 1 .. pos - 1} BY <1>3 DEF Passed
  <2>3. QED BY <1>1, <1>3, <2>1, <2>2, StageOrder DEF At, Ready
<1>4. QED BY <1>2, <1>3

\* A stage that is done is behind.
LEMMA PassedNext ==
  ASSUME AttemptTypeOK, NEW stage, At(stage), Advance, caller' = caller
  PROVE  Passed' = Passed \cup {stage} /\ pc' \in {"prologue", "pin"}
<1>1. /\ Len(Prologue[caller]) \in Nat \ {0} /\ pc = "prologue"
      /\ pos \in 1 .. Len(Prologue[caller]) /\ Prologue[caller][pos] = stage
  BY PrologueLength DEF AttemptTypeOK, At
<1>2. 1 .. pos = (1 .. pos - 1) \cup {pos} BY <1>1
<1>3. Passed' = {Prologue[caller][i] : i \in 1 .. pos}
  <2>1. CASE pos < Len(Prologue[caller])
    <3>1. pos' - 1 = pos /\ pc' = "prologue" BY <1>1, <2>1 DEF Advance
    <3>2. QED BY <3>1 DEF Passed
  <2>2. CASE ~(pos < Len(Prologue[caller]))
    <3>1. pos = Len(Prologue[caller]) /\ pc' = "pin" BY <1>1, <2>2 DEF Advance
    <3>2. QED BY <3>1 DEF Passed
  <2>3. QED BY <2>1, <2>2
<1>4. Passed = {Prologue[caller][i] : i \in 1 .. pos - 1} BY <1>1 DEF Passed
<1>5. Passed' = Passed \cup {stage} BY <1>1, <1>2, <1>3, <1>4
<1>6. QED BY <1>1, <1>5 DEF Advance

\* InHand after a step that leaves QEMU alone, from what it does to the attempt.
LEMMA InHandNext ==
  ASSUME UNCHANGED qemu,
         "dup" \in Passed' /\ "release" \notin Passed' => vfd' = Device,
         cfd' = IF "redup" \in Passed' THEN Device ELSE None,
         "kick" \in Passed' => seen'.dev = Device /\ seen'.kick = kick[Device]
                               /\ seen'.id = id[kick[Device]],
         "observe" \in Passed' => obs' = Attached,
         "readdir" \in Passed' =>
           \A s \in Slot : table[s] # None /\ s \notin listed' /\ s # link' =>
             /\ table[s] \in Dev => s \in vhosts'
             /\ table[s] \in Event => <<id[table[s]], s>> \in events',
         "scan" \in Passed' => listed' = {} /\ link' = None,
         link' # None => table[link'] \in Event,
         \A p \in events' : table[p[2]] \in Event /\ id[table[p[2]]] = p[1],
         pc' \notin {"prologue", "pin"} => pin' = kick[Device]
  PROVE  InHand'
<1>1. Device' = Device /\ Attached' = Attached /\ table' = table /\ id' = id /\ kick' = kick
  BY DEF Device, Attached, qemu
<1>2. QED BY <1>1 DEF InHand, Scanned

\* The attachment of a recoverable queue.
LEMMA RecoverableDevice ==
  ASSUME TypeOK, Recoverable
  PROVE  /\ alive /\ Device \in Dev /\ Device # None /\ setting[Device] \in Usable
         /\ kick[Device] \in Event /\ polled[Device] = kick[Device] /\ nonblock[kick[Device]]
         /\ \E s \in Slot : table[s] = kick[Device]
  BY RekickAssumption DEF Recoverable, Device, TypeOK, QemuTypeOK

\* The duplicate in use is the device.
LEMMA CurrentIsDevice ==
  ASSUME TypeOK, Recoverable, InHand, Ready PROVE Current = Device
  BY RecoverableDevice DEF InHand, Ready, Current

\* A snapshot that a probe has begun is valid and shows the attachment.
LEMMA SeenIsAttached ==
  ASSUME TypeOK, Recoverable, InHand, "kick" \in Passed
  PROVE  Valid(seen) /\ Complete(seen) = Attached
<1>1. /\ seen.dev = Device /\ seen.kick = kick[Device] /\ seen.id = id[kick[Device]]
      /\ seen = [dev |-> seen.dev, kick |-> seen.kick, id |-> seen.id,
                 setting |-> seen.setting]
  BY DEF InHand, TypeOK, AttemptTypeOK, Snapshot
<1>2. /\ Device \in Dev /\ setting[Device] \in Usable /\ kick[Device] \in Event
      /\ polled[Device] = kick[Device]
  BY RecoverableDevice
<1>3. Valid(seen) BY <1>1, <1>2, RekickAssumption DEF Valid
<1>4. Complete(seen) = [dev |-> Device, kick |-> kick[Device], id |-> id[kick[Device]],
                        setting |-> setting[Device]]
  BY <1>1 DEF Complete
<1>5. QED BY <1>3, <1>4 DEF Attached

\* A probe that begins now.
LEMMA ProbeBegins ==
  ASSUME TypeOK, Recoverable, SnapshotKick(Device)
  PROVE  seen'.dev = Device /\ seen'.kick = kick[Device] /\ seen'.id = id[kick[Device]]
  BY RecoverableDevice, RekickAssumption DEF SnapshotKick

\* The attempt goes on undisturbed.
GoesOn == pc' # "idle" /\ UNCHANGED <<calm, outcome>> /\ InHand'

\* Duplicating the slot, or closing the duplicate.
LEMMA DuplicateGoesOn ==
  ASSUME IndInv, Recoverable, InHand, Duplicate \/ Release, UNCHANGED qemu
  PROVE  GoesOn
<1>1. AttemptTypeOK /\ TypeOK BY DEF IndInv, TypeOK
<1>2. alive /\ table[VhostFD] # None BY <1>1, RecoverableDevice DEF Device
<1>3. PICK stage \in {"dup", "redup", "release"} :
        /\ At(stage) /\ Advance
        /\ vfd' = CASE stage = "dup" -> Device [] stage = "redup" -> vfd
                    [] stage = "release" -> None
        /\ cfd' = IF stage = "redup" THEN Device ELSE cfd
        /\ UNCHANGED <<qemu, caller, pin, seen, obs, inventory, history>>
  <2>1. CASE Release
    <3>1. At("release") /\ Advance /\ vfd' = None /\ cfd' = cfd
          /\ UNCHANGED <<qemu, caller, pin, seen, obs, inventory, history>>
      BY <2>1 DEF Release
    <3>2. QED BY <3>1
  <2>2. CASE Duplicate /\ At("dup")
    <3>1. Advance /\ vfd' = Device /\ cfd' = cfd
          /\ UNCHANGED <<qemu, caller, pin, seen, obs, inventory, history>>
      BY <1>2, <2>2 DEF Duplicate, Device
    <3>2. QED BY <2>2, <3>1
  <2>3. CASE Duplicate /\ ~At("dup")
    <3>1. At("redup") /\ Advance /\ cfd' = Device /\ vfd' = vfd
          /\ UNCHANGED <<qemu, caller, pin, seen, obs, inventory, history>>
      BY <1>2, <2>3 DEF Duplicate, Device
    <3>2. QED BY <3>1
  <2>4. QED BY <2>1, <2>2, <2>3
<1>4. Passed' = Passed \cup {stage} /\ pc' \in {"prologue", "pin"}
  BY <1>1, <1>3, PassedNext
<1>5. InHand'
  BY <1>3, <1>4, InHandNext DEF InHand, Scanned, inventory
<1>6. QED BY <1>3, <1>4, <1>5 DEF GoesOn, history

\* The snapshots of the prologue.
LEMMA SnapshotGoesOn ==
  ASSUME IndInv, Recoverable, InHand, Kick \/ ObserveSnapshot \/ SameSnapshot, UNCHANGED qemu
  PROVE  GoesOn
<1>1. AttemptTypeOK /\ TypeOK BY DEF IndInv, TypeOK
<1>2. Device \in Dev BY <1>1, RecoverableDevice
<1>3. CASE Kick
  <2>1. At("kick") /\ Current = Device BY <1>1, <1>3, StagesPassed, CurrentIsDevice DEF Kick
  <2>2. /\ SnapshotKick(Device) /\ Advance
        /\ UNCHANGED <<qemu, caller, pins, obs, inventory, history>>
    BY <1>2, <1>3, <2>1 DEF Kick
  <2>3. Passed' = Passed \cup {"kick"} /\ pc' \in {"prologue", "pin"}
    BY <1>1, <2>1, <2>2, PassedNext
  <2>4. seen'.dev = Device /\ seen'.kick = kick[Device] /\ seen'.id = id[kick[Device]]
    BY <1>1, <2>2, ProbeBegins
  <2>5. InHand' BY <2>2, <2>3, <2>4, InHandNext DEF InHand, Scanned, inventory, pins
  <2>6. QED BY <2>2, <2>3, <2>5 DEF GoesOn, history
<1>4. CASE ObserveSnapshot
  <2>1. At("observe") /\ Valid(seen) /\ Complete(seen) = Attached
    BY <1>1, <1>4, StagesPassed, SeenIsAttached DEF ObserveSnapshot
  <2>2. /\ obs' = Attached /\ Advance
        /\ UNCHANGED <<qemu, caller, pins, seen, inventory, history>>
    BY <1>4, <2>1 DEF ObserveSnapshot
  <2>3. Passed' = Passed \cup {"observe"} /\ pc' \in {"prologue", "pin"}
    BY <1>1, <2>1, <2>2, PassedNext
  <2>4. InHand' BY <2>2, <2>3, InHandNext DEF InHand, Scanned, inventory, pins
  <2>5. QED BY <2>2, <2>3, <2>4 DEF GoesOn, history
<1>5. CASE SameSnapshot
  <2>1. At("same") /\ Valid(seen) /\ Complete(seen) = obs
    BY <1>1, <1>5, StagesPassed, SeenIsAttached DEF SameSnapshot, InHand
  <2>2. Advance /\ UNCHANGED <<qemu, caller, pins, seen, obs, inventory, history>>
    BY <1>5, <2>1 DEF SameSnapshot
  <2>3. Passed' = Passed \cup {"same"} /\ pc' \in {"prologue", "pin"}
    BY <1>1, <2>1, <2>2, PassedNext
  <2>4. InHand' BY <2>2, <2>3, InHandNext DEF InHand, Scanned, inventory, pins
  <2>5. QED BY <2>2, <2>3, <2>4 DEF GoesOn, history
<1>6. QED BY <1>3, <1>4, <1>5

\* The inventory: as QEMU leaves its table alone, the scan finds it all.
LEMMA ScanGoesOn ==
  ASSUME IndInv, Recoverable, InHand, UNCHANGED qemu,
         ReadDir \/ ReadLink \/ ReadEventID \/ ScanDone \/ Member
  PROVE  GoesOn
<1> USE RekickAssumption
<1>1. AttemptTypeOK /\ TypeOK BY DEF IndInv, TypeOK
<1>2. alive /\ Device \in Dev BY <1>1, RecoverableDevice
<1>3. CASE ReadDir
  <2>1. /\ At("readdir") /\ listed' = {s \in Slot : table[s] # None} /\ Advance
        /\ UNCHANGED <<qemu, caller, pins, seen, obs, link, vhosts, events, history>>
    BY <1>2, <1>3 DEF ReadDir
  <2>2. /\ Passed' = Passed \cup {"readdir"} /\ pc' \in {"prologue", "pin"}
        /\ "scan" \notin Passed
    BY <1>1, <2>1, PassedNext, StagesPassed
  <2>3. InHand' BY <2>1, <2>2, InHandNext DEF InHand, pins
  <2>4. QED BY <2>1, <2>2, <2>3 DEF GoesOn, history
<1>4. CASE ReadLink
  <2>1. PICK fd \in Lowest(listed) :
          /\ At("scan") /\ link = None /\ listed' = listed \ {fd}
          /\ vhosts' = IF table[fd] \in Dev THEN vhosts \cup {fd} ELSE vhosts
          /\ link' = IF table[fd] \in Event THEN fd ELSE None
          /\ UNCHANGED <<qemu, pc, caller, pos, pins, seen, obs, events, history>>
    BY <1>2, <1>4 DEF ReadLink
  <2>2. fd \in Slot /\ fd # None BY <1>1 DEF AttemptTypeOK, Lowest
  <2>3. Passed' = Passed /\ pc' = "prologue" BY <2>1 DEF Passed, At
  <2>4. "readdir" \in Passed /\ "scan" \notin Passed BY <1>1, <2>1, StagesPassed
  <2>5. ASSUME NEW s \in Slot, table[s] # None, s \notin listed', s # link'
        PROVE  /\ table[s] \in Dev => s \in vhosts'
               /\ table[s] \in Event => <<id[table[s]], s>> \in events'
    <3>1. CASE s = fd BY <2>1, <2>5, <3>1
    <3>2. CASE s # fd
      <4>1. s \notin listed /\ s # link BY <2>1, <2>5, <3>2
      <4>2. QED BY <2>1, <2>4, <2>5, <4>1 DEF InHand, Scanned
    <3>3. QED BY <3>1, <3>2
  <2>6. InHand' BY <2>1, <2>2, <2>3, <2>4, <2>5, InHandNext DEF InHand, pins
  <2>7. QED BY <2>1, <2>3, <2>6 DEF GoesOn, history
<1>5. CASE ReadEventID
  <2>1. At("scan") /\ link # None /\ table[link] \in Event /\ link \in Slot
    BY <1>1, <1>5 DEF ReadEventID, InHand, AttemptTypeOK
  <2>2. table[link] # None /\ table[link] \notin Dev BY <2>1
  <2>3. /\ events' = events \cup {<<id[table[link]], link>>} /\ link' = None
        /\ UNCHANGED <<qemu, pc, caller, pos, pins, seen, obs, listed, vhosts, history>>
    BY <1>2, <1>5, <2>1, <2>2 DEF ReadEventID
  <2>4. Passed' = Passed /\ pc' = "prologue" BY <2>1, <2>3 DEF Passed, At
  <2>5. "readdir" \in Passed /\ "scan" \notin Passed BY <1>1, <2>1, StagesPassed
  <2>6. ASSUME NEW s \in Slot, table[s] # None, s \notin listed'
        PROVE  /\ table[s] \in Dev => s \in vhosts'
               /\ table[s] \in Event => <<id[table[s]], s>> \in events'
    <3>1. CASE s = link BY <2>1, <2>2, <2>3, <3>1
    <3>2. CASE s # link BY <2>3, <2>5, <2>6, <3>2 DEF InHand, Scanned
    <3>3. QED BY <3>1, <3>2
  <2>7. \A p \in events' : table[p[2]] \in Event /\ id[table[p[2]]] = p[1]
    BY <2>1, <2>3 DEF InHand
  <2>8. InHand' BY <2>3, <2>4, <2>5, <2>6, <2>7, InHandNext DEF InHand, pins
  <2>9. QED BY <2>3, <2>4, <2>8 DEF GoesOn, history
<1>6. CASE ScanDone
  <2>1. /\ At("scan") /\ listed = {} /\ link = None /\ Advance
        /\ UNCHANGED <<qemu, caller, pins, seen, obs, inventory, history>>
    BY <1>6 DEF ScanDone
  <2>2. Passed' = Passed \cup {"scan"} /\ pc' \in {"prologue", "pin"}
    BY <1>1, <2>1, PassedNext
  <2>3. InHand' BY <2>1, <2>2, InHandNext DEF InHand, Scanned, inventory, pins
  <2>4. QED BY <2>1, <2>2, <2>3 DEF GoesOn, history
<1>7. CASE Member
  <2>1. At("member") /\ "scan" \in Passed /\ "readdir" \in Passed
    BY <1>1, <1>7, StagesPassed DEF Member
  <2>2. VhostFD \in vhosts BY <1>2, <2>1 DEF InHand, Scanned, Device
  <2>3. Advance /\ UNCHANGED <<qemu, caller, pins, seen, obs, inventory, history>>
    BY <1>7, <2>2 DEF Member
  <2>4. Passed' = Passed \cup {"member"} /\ pc' \in {"prologue", "pin"}
    BY <1>1, <2>1, <2>3, PassedNext
  <2>5. InHand' BY <2>3, <2>4, InHandNext DEF InHand, Scanned, inventory, pins
  <2>6. QED BY <2>3, <2>4, <2>5 DEF GoesOn, history
<1>8. QED BY <1>3, <1>4, <1>5, <1>6, <1>7

\* The lowest slot listed with the id is the kick file of the device: ids are
\* unique.
LEMMA PinGoesOn ==
  ASSUME IndInv, Recoverable, InHand, PinEvent, UNCHANGED qemu PROVE GoesOn
<1> USE RekickAssumption
<1>1. AttemptTypeOK /\ TypeOK /\ pc = "pin" BY DEF IndInv, TypeOK, PinEvent
<1>2. alive /\ Device \in Dev /\ kick[Device] \in Event BY <1>1, RecoverableDevice
<1>3. /\ "observe" \in Passed /\ "readdir" \in Passed /\ "scan" \in Passed
  BY <1>1, StagesPassed
<1>4. obs.id = id[kick[Device]] /\ listed = {} /\ link = None /\ Scanned
  BY <1>3 DEF InHand, Attached
<1>5. PICK s \in Slot : table[s] = kick[Device] BY <1>1, RecoverableDevice
<1>6. <<obs.id, s>> \in events BY <1>2, <1>4, <1>5 DEF Scanned
<1>7. Candidates \subseteq Slot /\ s \in Candidates
  BY <1>1, <1>6 DEF Candidates, AttemptTypeOK
<1>8. Lowest(Candidates) # {} BY <1>7, LowestExists
<1>9. ASSUME NEW fd \in Lowest(Candidates) PROVE table[fd] = kick[Device] /\ fd \in Slot
  <2>1. fd \in Slot /\ fd \in Candidates BY <1>7 DEF Lowest
  <2>2. table[fd] \in Event /\ id[table[fd]] = obs.id
    BY <1>1, <2>1 DEF Candidates, InHand, AttemptTypeOK
  <2>3. LiveEvent(table[fd]) /\ LiveEvent(kick[Device])
    BY <1>2, <1>5, <2>1 DEF LiveEvent, Held
  <2>4. QED BY <1>2, <1>4, <2>1, <2>2, <2>3 DEF IndInv, UniqueIds
<1>10. kick[Device] # None BY <1>2
<1>11. PICK fd \in Lowest(Candidates) :
         /\ pin' = table[fd] /\ pc' = "identify"
         /\ UNCHANGED <<qemu, caller, pos, vfd, cfd, seen, obs, inventory, history>>
  BY <1>2, <1>8, <1>9, <1>10 DEF PinEvent
<1>12. pin' = kick[Device] BY <1>9, <1>11
<1>13. Passed' = Passed BY <1>1, <1>11 DEF Passed
<1>14. InHand' BY <1>11, <1>12, <1>13, InHandNext DEF InHand, Scanned, inventory
<1>15. QED BY <1>11, <1>14 DEF GoesOn, history

\* The checks of Rekick pass.
LEMMA ChecksGoOn ==
  ASSUME IndInv, Recoverable, InHand, UNCHANGED qemu,
         Identify \/ RecheckKick \/ Compare \/ CheckAlive
  PROVE  GoesOn
<1> USE RekickAssumption
<1>1. /\ AttemptTypeOK /\ TypeOK /\ pc \in {"identify", "recheck", "compare", "alive"}
  BY DEF IndInv, TypeOK, Identify, RecheckKick, Compare, CheckAlive
<1>2. alive /\ Device \in Dev /\ kick[Device] \in Event /\ nonblock[kick[Device]]
  BY <1>1, RecoverableDevice
<1>3. "kick" \in Passed /\ "observe" \in Passed /\ Ready BY <1>1, StagesPassed
<1>4. pin = kick[Device] /\ obs = Attached BY <1>1, <1>3 DEF InHand
<1>5. CASE Identify \/ Compare \/ CheckAlive
  <2>1. Valid(seen) /\ Complete(seen) = obs BY <1>1, <1>3, <1>4, SeenIsAttached
  <2>2. obs.id = id[pin] BY <1>4 DEF Attached
  <2>3. /\ pc' \in {"recheck", "alive", "write"}
        /\ UNCHANGED <<qemu, caller, pos, pins, seen, obs, inventory, history>>
    BY <1>2, <1>4, <1>5, <2>1, <2>2 DEF Identify, Compare, CheckAlive
  <2>4. Passed' = Passed BY <1>1, <2>3 DEF Passed
  <2>5. InHand' BY <1>4, <2>3, <2>4, InHandNext DEF InHand, Scanned, inventory, pins
  <2>6. QED BY <2>3, <2>5 DEF GoesOn, history
<1>6. CASE RecheckKick
  <2>1. Current = Device BY <1>1, <1>3, CurrentIsDevice
  <2>2. /\ SnapshotKick(Device) /\ pc' = "compare"
        /\ UNCHANGED <<qemu, caller, pos, pins, obs, inventory, history>>
    BY <1>2, <1>6, <2>1 DEF RecheckKick
  <2>3. seen'.dev = Device /\ seen'.kick = kick[Device] /\ seen'.id = id[kick[Device]]
    BY <1>1, <2>2, ProbeBegins
  <2>4. Passed' = Passed BY <1>1, <2>2 DEF Passed
  <2>5. InHand' BY <1>4, <2>2, <2>3, <2>4, InHandNext DEF InHand, Scanned, inventory, pins
  <2>6. QED BY <2>2, <2>5 DEF GoesOn, history
<1>7. QED BY <1>5, <1>6

\* A new attempt has nothing in hand, and nothing wrong.
LEMMA BeginInHand ==
  ASSUME IndInv, CalmInv, NEW c \in Callers, Begin(c) PROVE InHand'
<1>1. /\ pc = "idle" /\ pc' = "prologue" /\ pos' = 1
      /\ UNCHANGED <<qemu, pins, seen, obs, inventory, sent>>
  BY DEF Begin
<1>2. Passed' = {} BY <1>1 DEF Passed
<1>3. link = None /\ events = {} /\ cfd = None
  BY <1>1 DEF CalmInv, IndInv, TypeOK, AttemptTypeOK
<1>4. link' = None /\ events' = {} /\ cfd' = None BY <1>1, <1>3 DEF pins, inventory
<1>5. QED BY <1>1, <1>2, <1>4, InHandNext

\* Every step keeps CalmInv.
LEMMA CalmStep == IndInv /\ CalmInv /\ [Next]_vars => CalmInv'
<1> SUFFICES ASSUME IndInv, CalmInv, [Next]_vars PROVE CalmInv' OBVIOUS
<1>0. TypeOK /\ AttemptTypeOK BY DEF IndInv, TypeOK
<1>1. ASSUME UNCHANGED qemu PROVE Recoverable' <=> Recoverable
  BY <1>1 DEF Recoverable, qemu
<1>2. ASSUME calm' = FALSE, pc' = "idle" => link' = None /\ events' = {} PROVE CalmInv'
  BY <1>2 DEF CalmInv, RefusalHasReason
<1>3. CASE Environment
  <2>1. UNCHANGED agent /\ calm' = FALSE
    BY <1>3 DEF Environment, OpenEvent, OpenVhost, Dup, Close, SetKick, Poll, Configure,
                Exit, Change
  <2>2. QED BY <1>2, <2>1 DEF CalmInv, agent, inventory
<1>4. ASSUME NEW c \in Callers, Begin(c) PROVE CalmInv'
  <2>1. InHand' BY <1>4, BeginInHand
  <2>2. pc' = "prologue" /\ outcome' = "none" BY <1>4 DEF Begin
  <2>3. QED BY <2>1, <2>2 DEF CalmInv, RefusalHasReason
<1>5. CASE SystemError
  BY <1>2, <1>5 DEF SystemError, Return, Forgotten
<1>6. CASE Attempt
  <2>1. UNCHANGED qemu BY <1>6, AttemptType DEF IndInv
  <2>2. Recoverable' <=> Recoverable BY <1>1, <2>1
  <2>3. pc # "idle"
    BY <1>6 DEF Attempt, Duplicate, Release, Kick, ObserveSnapshot, SameSnapshot, ReadDir,
                ReadLink, ReadEventID, ScanDone, Member, PinEvent, Identify, RecheckKick,
                Compare, CheckAlive, WriteEvent, At
  <2>4. pc' = "idle" => link' = None /\ events' = {} /\ \E r : Return(r)
    BY <1>6, <2>3 DEF Attempt, Duplicate, Release, Kick, ObserveSnapshot, SameSnapshot,
         ReadDir, ReadLink, ReadEventID, ScanDone, Member, PinEvent, Identify, RecheckKick,
         Compare, CheckAlive, WriteEvent, At, Advance, Refuse, Return, Forgotten
  <2>5. CASE calm /\ Recoverable
    <3>1. InHand BY <2>3, <2>5 DEF CalmInv
    <3>2. CASE WriteEvent
      <4>1. pin \in Event /\ nonblock[pin] /\ pc = "write"
        BY <3>2 DEF WriteEvent, IndInv, PinInv
      <4>2. Return("written") \/ calm' = FALSE BY <3>2, <4>1 DEF WriteEvent
      <4>3. pc' = "idle" BY <3>2, <4>1 DEF WriteEvent, Return
      <4>4. CASE calm' = FALSE BY <1>2, <2>4, <4>4
      <4>5. CASE Return("written")
        <5>1. outcome' = "written" BY <4>5 DEF Return
        <5>2. QED BY <2>4, <4>3, <5>1 DEF CalmInv, RefusalHasReason
      <4>6. QED BY <4>2, <4>4, <4>5
    <3>3. CASE ~WriteEvent
      <4>1. GoesOn
        BY <1>6, <2>1, <2>5, <3>1, <3>3, DuplicateGoesOn, SnapshotGoesOn, ScanGoesOn,
           PinGoesOn, ChecksGoOn DEF Attempt
      <4>2. QED BY <2>2, <4>1 DEF GoesOn, CalmInv, RefusalHasReason
    <3>4. QED BY <3>2, <3>3
  <2>6. CASE ~(calm /\ Recoverable)
    <3>1. calm' = calm \/ calm' = FALSE
      BY <1>6 DEF Attempt, Duplicate, Release, Kick, ObserveSnapshot, SameSnapshot, ReadDir,
                  ReadLink, ReadEventID, ScanDone, Member, PinEvent, Identify, RecheckKick,
                  Compare, CheckAlive, WriteEvent, Refuse, history
    <3>2. ~(calm' /\ Recoverable') BY <2>2, <2>6, <3>1
    <3>3. QED BY <2>4, <3>2 DEF CalmInv, RefusalHasReason
  <2>7. QED BY <2>5, <2>6
<1>7. CASE UNCHANGED vars
  <2>1. UNCHANGED qemu /\ UNCHANGED agent /\ UNCHANGED history BY <1>7 DEF vars
  <2>2. Passed' = Passed /\ (Recoverable' <=> Recoverable)
    BY <1>1, <2>1 DEF Passed, agent
  <2>3. InHand => InHand'
    <3>1. SUFFICES ASSUME InHand PROVE InHand' OBVIOUS
    <3>2. QED BY <2>1, <2>2, <3>1, InHandNext DEF InHand, Scanned, agent, pins, inventory
  <2>4. QED BY <2>1, <2>2, <2>3 DEF CalmInv, RefusalHasReason, agent, inventory, history
<1>8. QED BY <1>3, <1>4, <1>5, <1>6, <1>7 DEF Next

\* No attempt is refused without a reason: if QEMU leaves the queue alone, no
\* system call fails and the queue can be recovered at all, then every caller
\* gets its kick written, whatever else is in the descriptor table.
THEOREM RefusalCorrect == Spec => []RefusalHasReason
<1>1. Init => CalmInv BY DEF Init, CalmInv, RefusalHasReason
<1>2. CalmInv => RefusalHasReason BY DEF CalmInv
<1>3. QED BY <1>1, <1>2, CalmStep, Inductive, PTL DEF Spec
=============================================================================
