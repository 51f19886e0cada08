-------------------------------- MODULE Rekick --------------------------------
(***************************************************************************)
(* One recovery attempt, from the duplication of the vhost FD to the write *)
(* of the kick eventfd (Rekick, Inventory, Duplicate and eventID in        *)
(* internal/watch/target_linux.go, Snapshot in bpf_linux.go), while QEMU   *)
(* opens, closes and reuses descriptors, rewires the queue and exits.      *)
(*                                                                         *)
(* The attempt is made by one of five callers, which differ in the order   *)
(* of what comes before Rekick: see Prologue.  Every system call is a step *)
(* of its own and may fail.                                                *)
(*                                                                         *)
(* QEMU and the kernel are external.  An eventfd has an id that is unique  *)
(* among the eventfds alive and free again afterwards; an object lives as  *)
(* long as somebody refers to it, and O_NONBLOCK of its file is chosen     *)
(* when it is made: QEMU does not change it afterwards.  /proc/PID is read *)
(* by number: once QEMU has exited it may show anything.                   *)
(*                                                                         *)
(* calm, sent and outcome are history variables: no step reads them.       *)
(***************************************************************************)
EXTENDS Naturals, Sequences, FiniteSets

CONSTANTS
  Slot,       \* FD numbers of QEMU
  VhostFD,    \* the one under recovery
  Dev,        \* vhost-net devices, that is addresses of TX virtqueues
  Event,      \* eventfds, that is addresses of eventfd contexts
  EventID,    \* ids of eventfds
  Setting,    \* rings, backend and features of a queue, as one token
  Usable,     \* the settings Snapshot.Validate accepts
  None,       \* no object
  MaxChanges  \* bound on what QEMU does

ASSUME RekickAssumption ==
  /\ Slot \subseteq Nat /\ IsFiniteSet(Slot) /\ VhostFD \in Slot
  /\ Usable \subseteq Setting
  /\ None \notin Dev \cup Event \cup EventID \cup Slot /\ Dev \cap Event = {}
  /\ Dev # {} /\ Event # {} /\ EventID # {} /\ Setting # {}
  /\ MaxChanges \in Nat

VARIABLES
  alive,    \* QEMU has not exited
  table,    \* its descriptor table
  id,       \* Event -> its id
  nonblock, \* Event -> O_NONBLOCK of its file
  kick,     \* Dev -> vq->kick
  polled,   \* Dev -> vq->poll.wqh, the eventfd the worker waits on
  setting,  \* Dev -> its Setting
  changes,  \* number of steps of QEMU so far
  pc,       \* the step of the attempt
  caller,   \* who makes it
  pos,      \* position in the caller's prologue
  vfd,      \* the first duplicate of VhostFD
  cfd,      \* the second one
  pin,      \* the duplicate of the eventfd
  seen,     \* the snapshot under way
  obs,      \* the snapshot the attempt was decided on
  listed,   \* Inventory: slots not looked at yet
  link,     \* Inventory: the slot whose link read anon_inode:[eventfd]
  vhosts,   \* Inventory: slots that are vhost-net devices
  events,   \* Inventory: pairs <<eventfd id, slot>>
  calm,     \* nothing changed or failed since the attempt began
  sent,     \* the eventfd written last
  outcome   \* of the last attempt

qemu      == <<alive, table, id, nonblock, kick, polled, setting, changes>>
pins      == <<vfd, cfd, pin>>
inventory == <<listed, link, vhosts, events>>
history   == <<calm, sent, outcome>>
agent     == <<pc, caller, pos, pins, seen, obs, inventory>>
vars      == <<qemu, agent, history>>

-----------------------------------------------------------------------------
(* QEMU and the kernel. *)

\* Referred to by QEMU's table or by a descriptor of the agent.
Held(o) ==
  \/ alive /\ \E s \in Slot : table[s] = o
  \/ o \in {vfd, cfd, pin}

\* A device refers to its kick file and to the one it still waits on.
LiveEvent(e) == Held(e) \/ \E d \in Dev : Held(d) /\ e \in {kick[d], polled[d]}

Change ==
  /\ alive /\ changes < MaxChanges
  /\ changes' = changes + 1
  /\ calm' = FALSE
  /\ UNCHANGED <<agent, sent, outcome>>

\* eventfd2(2): a fresh object with an id nobody alive has.
OpenEvent(s, e, i, flag) ==
  /\ Change
  /\ table[s] = None /\ ~LiveEvent(e)
  /\ \A x \in Event : LiveEvent(x) => id[x] # i
  /\ table' = [table EXCEPT ![s] = e]
  /\ id' = [id EXCEPT ![e] = i]
  /\ nonblock' = [nonblock EXCEPT ![e] = flag]
  /\ UNCHANGED <<alive, kick, polled, setting>>

\* open("/dev/vhost-net").
OpenVhost(s, d) ==
  /\ Change
  /\ table[s] = None /\ ~Held(d)
  /\ table' = [table EXCEPT ![s] = d]
  /\ kick' = [kick EXCEPT ![d] = None]
  /\ polled' = [polled EXCEPT ![d] = None]
  /\ UNCHANGED <<alive, id, nonblock, setting>>

Dup(s, t) ==
  /\ Change
  /\ table[s] # None /\ table[t] = None
  /\ table' = [table EXCEPT ![t] = table[s]]
  /\ UNCHANGED <<alive, id, nonblock, kick, polled, setting>>

Close(s) ==
  /\ Change
  /\ table[s] # None
  /\ table' = [table EXCEPT ![s] = None]
  /\ UNCHANGED <<alive, id, nonblock, kick, polled, setting>>

\* VHOST_SET_VRING_KICK replaces the file, then stops and starts the wait.
SetKick(s, e) ==
  /\ Change
  /\ table[s] \in Dev /\ (e # None => \E t \in Slot : table[t] = e)
  /\ kick[table[s]] = polled[table[s]] /\ kick[table[s]] # e
  /\ kick' = [kick EXCEPT ![table[s]] = e]
  /\ UNCHANGED <<alive, table, id, nonblock, polled, setting>>

\* The rest of that ioctl: it is under way already, so it is not counted.
Poll(d) ==
  /\ alive /\ Held(d) /\ polled[d] # kick[d]
  /\ polled' = [polled EXCEPT ![d] = IF @ # None THEN None ELSE kick[d]]
  /\ calm' = FALSE
  /\ UNCHANGED <<alive, table, id, nonblock, kick, setting, changes, agent, sent, outcome>>

\* VHOST_SET_VRING_ADDR, VHOST_NET_SET_BACKEND, VHOST_SET_FEATURES...
Configure(s, c) ==
  /\ Change
  /\ table[s] \in Dev /\ setting[table[s]] # c
  /\ setting' = [setting EXCEPT ![table[s]] = c]
  /\ UNCHANGED <<alive, table, id, nonblock, kick, polled>>

Exit ==
  /\ Change
  /\ alive' = FALSE
  /\ UNCHANGED <<table, id, nonblock, kick, polled, setting>>

Environment ==
  \/ \E s \in Slot, e \in Event, i \in EventID, flag \in BOOLEAN : OpenEvent(s, e, i, flag)
  \/ \E s \in Slot, d \in Dev : OpenVhost(s, d)
  \/ \E s, t \in Slot : Dup(s, t)
  \/ \E s \in Slot : Close(s)
  \/ \E s \in Slot, e \in Event \cup {None} : SetKick(s, e)
  \/ \E d \in Dev : Poll(d)
  \/ \E s \in Slot, c \in Setting : Configure(s, c)
  \/ Exit

-----------------------------------------------------------------------------
(* The attempt. *)

\* What each caller does before Rekick.  "observe" ends the snapshot that
\* the attempt is about, "same" one that must agree with it.
GuardedCall  == <<"dup", "kick", "observe", "readdir", "scan", "member", "redup">>
BatchedCall  == <<"dup", "kick", "observe", "release", "readdir", "scan", "member", "redup">>
PeriodicCall == <<"readdir", "scan", "member", "dup", "kick", "observe", "redup">>
RescueCall   == <<"readdir", "scan", "member", "dup", "kick", "observe">>
RecoverCall  == <<"dup", "kick", "observe", "redup", "kick", "same", "readdir", "scan">>

Prologue ==
  [guarded |-> GuardedCall, batched |-> BatchedCall, periodic |-> PeriodicCall,
   rescue |-> RescueCall, recover |-> RecoverCall]

Callers == DOMAIN Prologue

NoSnapshot == [dev |-> None, kick |-> None, id |-> None, setting |-> None]

At(stage) == pc = "prologue" /\ Prologue[caller][pos] = stage

Advance ==
  IF pos < Len(Prologue[caller])
    THEN pos' = pos + 1 /\ UNCHANGED pc
    ELSE pos' = 0 /\ pc' = "pin"

\* The duplicate that Snapshot is called with.
Current == IF cfd # None THEN cfd ELSE vfd

Begin(c) ==
  /\ pc = "idle"
  /\ pc' = "prologue" /\ caller' = c /\ pos' = 1
  /\ calm' = TRUE /\ outcome' = "none"
  /\ UNCHANGED <<qemu, pins, seen, obs, inventory, sent>>

Forgotten ==
  /\ seen' = NoSnapshot /\ obs' = NoSnapshot
  /\ listed' = {} /\ link' = None /\ vhosts' = {} /\ events' = {}

\* Mutant of Return: the duplicate of the eventfd is not closed.
ReturnKeepsPin(result) ==
  /\ pc' = "idle" /\ pos' = 0 /\ outcome' = result
  /\ vfd' = None /\ cfd' = None
  /\ Forgotten
  /\ UNCHANGED <<qemu, caller, pin>>

\* Every return runs the deferred closes; its locals are gone.
Return(result) ==
  /\ pc' = "idle" /\ pos' = 0 /\ outcome' = result
  /\ vfd' = None /\ cfd' = None /\ pin' = None
  /\ Forgotten
  /\ UNCHANGED <<qemu, caller>>

Refuse == Return("refused") /\ UNCHANGED <<calm, sent>>

\* A system call fails for a reason of its own (EMFILE, EPERM, ...).
SystemError ==
  /\ pc \notin {"idle", "blocked"}
  /\ Return("refused") /\ calm' = FALSE /\ UNCHANGED sent

\* pidfd_getfd on the vhost slot: any open file, only of QEMU itself.
Duplicate ==
  /\ At("dup") \/ At("redup")
  /\ IF alive /\ table[VhostFD] # None
       THEN /\ IF At("dup") THEN vfd' = table[VhostFD] /\ UNCHANGED cfd
                            ELSE cfd' = table[VhostFD] /\ UNCHANGED vfd
            /\ Advance
            /\ UNCHANGED <<qemu, caller, pin, seen, obs, inventory, history>>
       ELSE Refuse

\* liveRow closes its duplicate when it returns.
Release ==
  /\ At("release")
  /\ vfd' = None
  /\ Advance
  /\ UNCHANGED <<qemu, caller, cfd, pin, seen, obs, inventory, history>>

\* Snapshot: the duplicate must be /dev/vhost-net; the probe then reads the
\* kick file with its context and id ...
SnapshotKick(device) ==
  seen' = [dev |-> device, kick |-> kick[device],
           id |-> IF kick[device] = None THEN None ELSE id[kick[device]],
           setting |-> None]

\* ... and later the remaining fields, which are all that decides whether the
\* snapshot is valid: the worker waits on that very context.
Complete(s) == [s EXCEPT !.setting = setting[s.dev]]
Valid(s) == s.kick # None /\ polled[s.dev] = s.kick /\ setting[s.dev] \in Usable

Kick ==
  /\ At("kick")
  /\ IF Current \in Dev
       THEN /\ SnapshotKick(Current)
            /\ Advance
            /\ UNCHANGED <<qemu, caller, pins, obs, inventory, history>>
       ELSE Refuse

ObserveSnapshot ==
  /\ At("observe")
  /\ IF Valid(seen)
       THEN /\ obs' = Complete(seen)
            /\ Advance
            /\ UNCHANGED <<qemu, caller, pins, seen, inventory, history>>
       ELSE Refuse

\* The controller's recovery refuses another attachment than the injected.
SameSnapshot ==
  /\ At("same")
  /\ IF Valid(seen) /\ Complete(seen) = obs
       THEN Advance /\ UNCHANGED <<qemu, caller, pins, seen, obs, inventory, history>>
       ELSE Refuse

\* Inventory: the names under /proc/PID/fd ...
ReadDir ==
  /\ At("readdir")
  /\ listed' \in (IF alive THEN {{s \in Slot : table[s] # None}} ELSE SUBSET Slot)
  /\ Advance
  /\ UNCHANGED <<qemu, caller, pins, seen, obs, link, vhosts, events, history>>

\* The least element, as a set: empty for an empty set.
Lowest(S) == {x \in S : \A y \in S : x <= y}

\* Mutant of ReadLink: a slot beyond the first device is not looked at.
ReadLinkToDevice ==
  \E fd \in Lowest(listed) :
  /\ At("scan") /\ link = None
  /\ \E o \in IF alive THEN {table[fd]} ELSE Dev \cup Event \cup {None} :
       /\ vhosts' = IF o \in Dev THEN vhosts \cup {fd} ELSE vhosts
       /\ link' = IF o \in Event THEN fd ELSE None
       /\ listed' = IF o \in Dev THEN {} ELSE listed \ {fd}
  /\ UNCHANGED <<qemu, pc, caller, pos, pins, seen, obs, events, history>>

\* ... then the link of each, which may be gone or lead elsewhere by now ...
ReadLink ==
  \E fd \in Lowest(listed) :
  /\ At("scan") /\ link = None
  /\ listed' = listed \ {fd}
  /\ \E o \in IF alive THEN {table[fd]} ELSE Dev \cup Event \cup {None} :
       /\ vhosts' = IF o \in Dev THEN vhosts \cup {fd} ELSE vhosts
       /\ link' = IF o \in Event THEN fd ELSE None
  /\ UNCHANGED <<qemu, pc, caller, pos, pins, seen, obs, events, history>>

\* ... then the id of what was an eventfd.  A slot closed since is skipped,
\* one reused for something else is an error.
ReadEventID ==
  /\ At("scan") /\ link # None
  /\ \/ /\ alive => table[link] \in Event
        /\ \E i \in IF alive THEN {id[table[link]]} ELSE EventID :
             events' = events \cup {<<i, link>>}
        /\ link' = None
        /\ UNCHANGED <<qemu, pc, caller, pos, pins, seen, obs, listed, vhosts, history>>
     \/ /\ alive => table[link] = None
        /\ link' = None
        /\ UNCHANGED <<qemu, pc, caller, pos, pins, seen, obs, listed, vhosts, events, history>>
     \/ /\ alive => table[link] \in Dev
        /\ Refuse

ScanDone ==
  /\ At("scan") /\ listed = {} /\ link = None
  /\ Advance
  /\ UNCHANGED <<qemu, caller, pins, seen, obs, inventory, history>>

\* The slot must be among the devices of the inventory.
Member ==
  /\ At("member")
  /\ IF VhostFD \in vhosts
       THEN Advance /\ UNCHANGED <<qemu, caller, pins, seen, obs, inventory, history>>
       ELSE Refuse

-----------------------------------------------------------------------------
(* Rekick itself. *)

Candidates == {p[2] : p \in {p \in events : p[1] = obs.id}}

\* The lowest slot listed with the id is duplicated, whatever it is by now.
PinEvent ==
  /\ pc = "pin"
  /\ \/ \E fd \in Lowest(Candidates) :
          /\ alive /\ table[fd] # None
          /\ pin' = table[fd]
          /\ pc' = "identify"
          /\ UNCHANGED <<qemu, caller, pos, vfd, cfd, seen, obs, inventory, history>>
     \/ /\ \A fd \in Lowest(Candidates) : ~alive \/ table[fd] = None
        /\ Refuse

\* Mutants of Identify: the id of the duplicate is not read again; its flags
\* are not looked at.
IdentifyByTable ==
  /\ pc = "identify"
  /\ IF pin \in Event /\ nonblock[pin]
       THEN /\ pc' = "recheck"
            /\ UNCHANGED <<qemu, caller, pos, pins, seen, obs, inventory, history>>
       ELSE Refuse

IdentifyAnyFlags ==
  /\ pc = "identify"
  /\ IF pin \in Event /\ id[pin] = obs.id
       THEN /\ pc' = "recheck"
            /\ UNCHANGED <<qemu, caller, pos, pins, seen, obs, inventory, history>>
       ELSE Refuse

\* The duplicate must be an eventfd with the id, and must not block.
Identify ==
  /\ pc = "identify"
  /\ IF pin \in Event /\ id[pin] = obs.id /\ nonblock[pin]
       THEN /\ pc' = "recheck"
            /\ UNCHANGED <<qemu, caller, pos, pins, seen, obs, inventory, history>>
       ELSE Refuse

RecheckKick ==
  /\ pc = "recheck"
  /\ IF Current \in Dev
       THEN /\ SnapshotKick(Current)
            /\ pc' = "compare"
            /\ UNCHANGED <<qemu, caller, pos, pins, obs, inventory, history>>
       ELSE Refuse

\* The fresh snapshot must be valid and show the attachment decided on.
Compare ==
  /\ pc = "compare"
  /\ IF Valid(seen) /\ Complete(seen) = obs
       THEN /\ pc' = "alive"
            /\ UNCHANGED <<qemu, caller, pos, pins, seen, obs, inventory, history>>
       ELSE Refuse

CheckAlive ==
  /\ pc = "alive"
  /\ IF alive
       THEN /\ pc' = "write"
            /\ UNCHANGED <<qemu, caller, pos, pins, seen, obs, inventory, history>>
       ELSE Refuse

\* The write of 1 succeeds, or the counter is at its maximum: EAGAIN, or a
\* wait without end if the file is in blocking mode.
WriteEvent ==
  /\ pc = "write"
  /\ \/ Return("written") /\ sent' = pin /\ UNCHANGED calm
     \/ nonblock[pin] /\ Return("refused") /\ calm' = FALSE /\ UNCHANGED sent
     \/ /\ ~nonblock[pin] /\ pc' = "blocked"
        /\ UNCHANGED <<qemu, caller, pos, pins, seen, obs, inventory, history>>

Attempt ==
  \/ Duplicate \/ Release \/ Kick \/ ObserveSnapshot \/ SameSnapshot
  \/ ReadDir \/ ReadLink \/ ReadEventID \/ ScanDone \/ Member
  \/ PinEvent \/ Identify \/ RecheckKick \/ Compare \/ CheckAlive \/ WriteEvent

Init ==
  /\ alive = TRUE
  /\ \E d \in Dev, e \in Event, s \in Slot \ {VhostFD} :
       /\ table = [x \in Slot |-> CASE x = VhostFD -> d [] x = s -> e [] OTHER -> None]
       /\ kick = [x \in Dev |-> IF x = d THEN e ELSE None]
       /\ polled = kick
  /\ id \in [Event -> EventID]
  /\ nonblock \in [Event -> BOOLEAN]
  /\ setting \in [Dev -> Usable]
  /\ changes = 0
  /\ pc = "idle" /\ caller = "guarded" /\ pos = 0
  /\ vfd = None /\ cfd = None /\ pin = None
  /\ seen = NoSnapshot /\ obs = NoSnapshot
  /\ listed = {} /\ link = None /\ vhosts = {} /\ events = {}
  /\ calm = TRUE /\ sent = None /\ outcome = "none"

Next ==
  \/ Environment
  \/ \E c \in Callers : Begin(c)
  \/ SystemError
  \/ Attempt

Spec == Init /\ [][Next]_vars

-----------------------------------------------------------------------------
(* Properties. *)

Snapshot(s) ==
  /\ s = [dev |-> s.dev, kick |-> s.kick, id |-> s.id, setting |-> s.setting]
  /\ s.dev \in Dev \cup {None} /\ s.kick \in Event \cup {None}
  /\ s.id \in EventID \cup {None}
  /\ s.dev \in Dev => s.setting \in Setting \cup {None}

QemuTypeOK ==
  /\ alive \in BOOLEAN /\ changes \in 0 .. MaxChanges
  /\ table \in [Slot -> Dev \cup Event \cup {None}]
  /\ id \in [Event -> EventID] /\ nonblock \in [Event -> BOOLEAN]
  /\ kick \in [Dev -> Event \cup {None}] /\ polled \in [Dev -> Event \cup {None}]
  /\ setting \in [Dev -> Setting]

AttemptTypeOK ==
  /\ pc \in {"idle", "prologue", "pin", "identify", "recheck", "compare",
             "alive", "write", "blocked"}
  /\ caller \in Callers
  /\ pos \in IF pc = "prologue" THEN 1 .. Len(Prologue[caller]) ELSE {0}
  /\ {vfd, cfd, pin} \subseteq Dev \cup Event \cup {None}
  /\ Snapshot(seen) /\ Snapshot(obs)
  /\ listed \subseteq Slot /\ vhosts \subseteq Slot
  /\ link \in Slot \cup {None} /\ events \subseteq EventID \X Slot
  /\ calm \in BOOLEAN /\ sent \in Event \cup {None}
  /\ outcome \in {"none", "written", "refused"}
  /\ pc = "idle" => vfd = None /\ cfd = None
  /\ pc \in {"idle", "prologue", "pin"} <=> pin = None

\* Every variable has its type, an attempt holds no descriptor after its end,
\* and none of the eventfd before Rekick duplicates it.
TypeOK == QemuTypeOK /\ AttemptTypeOK

\* The eventfd an attempt has earned the right to write.
Granted == IF pc \in {"alive", "write", "blocked"} THEN pin ELSE None

Authority == INSTANCE KickAuthority WITH waiter <- polled, grant <- Granted

\* Whatever QEMU closes, reuses and rewires meanwhile, and whoever is the
\* caller, the eventfd that Rekick writes is one that a TX worker waited on
\* when its snapshot was revalidated ("Rekick pins the exact eventfd and
\* revalidates its current vhost attachment").
KickIsAuthorised == Authority!Spec

\* No attempt ever blocks in the write: the flags of the duplicate are
\* checked before ("refusing a potentially blocking eventfd write").
NeverBlocked == pc # "blocked"

\* A queue that QEMU leaves alone and could be recovered.
Recoverable ==
  /\ alive /\ table[VhostFD] \in Dev
  /\ LET d == table[VhostFD] IN
       /\ setting[d] \in Usable
       /\ kick[d] # None /\ polled[d] = kick[d]
       /\ nonblock[kick[d]]
       /\ \E s \in Slot : table[s] = kick[d]

\* An attempt during which nothing changed and no system call failed is
\* refused only if the queue cannot be recovered at all.
RefusalHasReason == outcome = "refused" /\ calm => ~Recoverable
=============================================================================
