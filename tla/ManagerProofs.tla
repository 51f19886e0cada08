---------------------------- MODULE ManagerProofs ----------------------------
(***************************************************************************)
(* Proofs about the manager and the attachment of its workers: for any     *)
(* PIDs, domains, flags and number of disturbances from outside.           *)
(***************************************************************************)
EXTENDS Manager, TLAPS

\* Start times are the places in births: what is recorded lies in the past,
\* and the process at a PID has that PID.
PastInv ==
  /\ \A p \in PID : proc[p] # 0 => births[proc[p]].pid = p
  /\ \A k \in begun : k[2] <= Len(births)
  /\ \A p \in PID : mgr.targets[p] # None => mgr.targets[p].start <= Len(births)

\* Where the manager is.
PhaseInv ==
  /\ mgr.pc = "pids" => mgr.todo \subseteq PID
  /\ mgr.pc = "domains" => mgr.todo \subseteq Domain /\ mgr.flags.regex
  /\ mgr.pc = "reconcile" => mgr.todo \subseteq managed
  /\ mgr.item # None => /\ mgr.pc \in {"pids", "domains"} /\ mgr.pid \in PID
                        /\ mgr.start \in 1 .. Len(births)
  /\ mgr.wait # None => mgr.pc = "reconcile" /\ mgr.wait \in mgr.todo
  /\ mgr.first => mgr.pc \in {"pids", "domains", "returned"} /\ managed = {}

\* What was read of a process is true of it as long as it is there.
IdentityInv ==
  /\ \A p \in PID : mgr.targets[p] # None /\ proc[p] = mgr.targets[p].start =>
       births[proc[p]].uuid = mgr.targets[p].uuid
  /\ \A k \in managed :
       /\ work[k].uuid \in Domain
       /\ proc[k[1]] = k[2] => births[k[2]].uuid = work[k].uuid
       /\ work[k].pc = "stat" /\ proc[k[1]] = k[2] => work[k].pidfd = k[2]
       /\ work[k].pc \in {"cmdline", "running"} =>
            work[k].pidfd = k[2] /\ births[k[2]] = [pid |-> k[1], uuid |-> work[k].uuid]

\* There is one worker per PID: what is kept by the reconciliation is wanted,
\* and in an outage everything is.
UniqueInv ==
  /\ \A j, k \in managed : j[1] = k[1] => j = k
  /\ mgr.pc = "reconcile" => \A k \in managed \ mgr.todo : Wanted(k)
  /\ mgr.pc = "reconcile" /\ mgr.outage => mgr.wait = None /\ \A k \in managed : Wanted(k)

\* Why a worker is cancelled, returns nil, is retired, or is over.
CauseInv ==
  /\ \A k \in managed : work[k].cancel => k = mgr.wait \/ mgr.pc \in {"shutdown", "returned"}
  /\ \A k \in managed : work[k].pc = "nil" => ctxDone \/ work[k].cancel \/ proc[k[1]] # k[2]
  /\ \A k \in retired : ctxDone \/ proc[k[1]] # k[2]
  /\ mgr.pc = "returned" => \A k \in managed : Finished(k)

\* Without --domain-regex every target and every worker is for the process
\* its PID was anchored to.
AnchorInv ==
  ~mgr.flags.regex =>
    /\ \A p \in PID : mgr.targets[p] # None => anchored[p] = mgr.targets[p].start
    /\ \A k \in begun : anchored[k[1]] = k[2]

\* The inductive invariant.
IInv == TypeOK /\ PastInv /\ PhaseInv /\ IdentityInv /\ UniqueInv /\ CauseInv /\ AnchorInv

\* The parts of TypeOK: the outside, and the maps of the manager.
OutType ==
  /\ births \in Seq([pid : PID, uuid : Domain]) /\ Len(births) <= events
  /\ proc \in [PID -> 0 .. Len(births)]
  /\ file \in [Domain -> PID \cup {None}]
  /\ other \subseteq PID /\ ctxDone \in BOOLEAN /\ events \in 0 .. MaxEvents

\* The maps of the manager and the goroutines.
WorkType ==
  /\ managed \subseteq begun /\ retired \subseteq begun /\ begun \subseteq Key
  /\ work \in [Key -> Workers]
  /\ managed = {k \in Key : work[k].pc # "none"}

\* The parts make up TypeOK.
LEMMA TypeParts ==
  TypeOK <=> /\ OutType /\ anchored \in [PID -> 0 .. Len(births)]
             /\ mgr \in Managers /\ WorkType
  BY DEF TypeOK, OutType, WorkType

\* So they do after a step.
LEMMA TypeNext ==
  ASSUME OutType', anchored' \in [PID -> 0 .. Len(births')], mgr' \in Managers, WorkType'
  PROVE  TypeOK'
  BY DEF TypeOK, OutType, WorkType

\* A key is a PID and a start time.
LEMMA KeyParts ==
  /\ \A k \in Key : k[1] \in PID /\ k[2] \in Start /\ k # None
  /\ \A j, k \in Key : j[1] = k[1] /\ j[2] = k[2] => j = k
  <1>1. None \notin Key BY ManagerAssumption
  <1>2. \A k \in Key : k[1] \in PID /\ k[2] \in Start BY DEF Key
  <1>3. \A j, k \in Key : j[1] = k[1] /\ j[2] = k[2] => j = k BY DEF Key
  <1> QED BY <1>1, <1>2, <1>3

\* The elements of a sequence are of its type.
LEMMA ElementType ==
  ASSUME NEW R, NEW s \in Seq(R), NEW i \in 1 .. Len(s) PROVE s[i] \in R
  OBVIOUS

\* The processes so far are no more than the bound.
LEMMA BirthTypes ==
  ASSUME TypeOK
  PROVE  /\ Len(births) \in Nat /\ MaxEvents \in Nat /\ Len(births) <= MaxEvents
         /\ \A i \in 1 .. Len(births) : births[i] \in [pid : PID, uuid : Domain]
         /\ \A i \in 1 .. Len(births) : births[i].uuid \in Domain
  <1>1. births \in Seq([pid : PID, uuid : Domain]) BY DEF TypeOK
  <1>2. Len(births) <= events /\ events \in 0 .. MaxEvents BY DEF TypeOK
  <1>3. Len(births) \in Nat BY <1>1
  <1>4. Len(births) <= MaxEvents BY <1>2, <1>3, ManagerAssumption
  <1>5. \A i \in 1 .. Len(births) : births[i] \in [pid : PID, uuid : Domain]
    BY <1>1, ElementType
  <1> QED BY <1>3, <1>4, <1>5, ManagerAssumption

\* What one step does to the outside: births grows, a process that is gone
\* does not come back, a done context stays done.
History ==
  /\ Len(births) <= Len(births')
  /\ \A i \in 1 .. Len(births) : births'[i] = births[i]
  /\ \A p \in PID, s \in 1 .. Len(births) : proc'[p] = s => proc[p] = s
  /\ ctxDone => ctxDone'
  /\ \A p \in PID : proc'[p] # 0 => births'[proc'[p]].pid = p

\* A new process gets a start time that nothing recorded so far has.
LEMMA BornStep ==
  ASSUME OutType, PastInv, NEW p \in PID, NEW d \in Domain, Born(p, d)
  PROVE  History /\ OutType'
  <1>1. births' = Append(births, [pid |-> p,
                                  uuid |-> d]) /\ events' = events + 1 /\ events < MaxEvents
    BY DEF Born, Event
  <1>2. births' \in Seq([pid : PID, uuid : Domain]) /\ Len(births') = Len(births) + 1
    BY <1>1 DEF OutType
  <1>3. \A i \in 1 .. Len(births) : births'[i] = births[i] BY <1>1 DEF OutType
  <1>4. births'[Len(births')] = [pid |-> p, uuid |-> d] BY <1>1, <1>2 DEF OutType
  <1>5. Len(births) \in Nat BY DEF OutType
  <1>6. \A q \in PID : proc[q] \in 0 .. Len(births) BY DEF OutType
  <1>7. \A q \in PID : proc'[q] = IF q = p THEN Len(births) + 1 ELSE proc[q]
    BY <1>2 DEF Born, OutType
  <1>8. proc' \in [PID -> 0 .. Len(births')]
    <2>1. proc' = [proc EXCEPT ![p] = Len(births')] BY DEF Born
    <2>2. proc \in [PID -> 0 .. Len(births')] BY <1>2, <1>5 DEF OutType
    <2> QED BY <1>2, <1>5, <2>1, <2>2
  <1>9. OutType' 
    <2>1. Len(births') <= events' /\ events' \in 0 .. MaxEvents
      BY <1>1, <1>2, <1>5, ManagerAssumption DEF OutType
    <2> QED BY <1>2, <1>8, <2>1 DEF OutType, Born
  <1>10. \A q \in PID : proc'[q] # 0 => births'[proc'[q]].pid = q
    <2> SUFFICES ASSUME NEW q \in PID, proc'[q] # 0 PROVE births'[proc'[q]].pid = q OBVIOUS
    <2>1. CASE q = p BY <1>2, <1>4, <1>7, <2>1
    <2>2. CASE q # p
      <3>1. proc'[q] = proc[q] /\ proc[q] \in 1 .. Len(births) BY <1>5, <1>6, <1>7, <2>2
      <3> QED BY <1>3, <3>1 DEF PastInv
    <2> QED BY <2>1, <2>2
  <1>11. \A q \in PID, t \in 1 .. Len(births) : proc'[q] = t => proc[q] = t
    BY <1>5, <1>7
  <1>12. ctxDone' = ctxDone BY DEF Born
  <1> QED BY <1>2, <1>3, <1>5, <1>9, <1>10, <1>11, <1>12 DEF History

\* A step that leaves the processes alone keeps the history.
LEMMA SameHistory ==
  ASSUME OutType, PastInv, UNCHANGED <<births, proc>>, ctxDone => ctxDone'
  PROVE  History
  <1>1. Len(births) \in Nat BY DEF OutType
  <1> QED BY <1>1 DEF History, PastInv

\* The outside keeps its history and its types.
LEMMA OutsideStep ==
  ASSUME OutType, PastInv, Outside
  PROVE  History /\ OutType'
  <1>0. OutType => Len(births) \in Nat BY DEF OutType
  <1>1. ASSUME NEW p \in PID, NEW d \in Domain, Born(p, d) PROVE History /\ OutType'
    BY <1>1, BornStep
  <1>2. ASSUME NEW p \in PID, Dies(p) PROVE History /\ OutType'
    <2>1. \A q \in PID : proc'[q] = IF q = p THEN 0 ELSE proc[q] BY <1>2 DEF Dies, OutType
    <2>2. UNCHANGED <<births, file, other, ctxDone, events>> BY <1>2 DEF Dies
    <2>3. proc' \in [PID -> 0 .. Len(births)] BY <1>0, <1>2 DEF Dies, OutType
    <2>4. History BY <1>0, <2>1, <2>2 DEF History, PastInv
    <2> QED BY <2>2, <2>3, <2>4 DEF OutType
  <1>3. ASSUME NEW p \in PID, NEW d \in Domain, WriteStatus(d, p) PROVE History /\ OutType'
    BY <1>3, SameHistory DEF WriteStatus, OutType
  <1>4. ASSUME NEW d \in Domain, RemoveStatus(d) PROVE History /\ OutType'
    <2>1. History BY <1>4, SameHistory DEF RemoveStatus
    <2>2. Len(births') <= events' /\ events' \in 0 .. MaxEvents
      BY <1>0, <1>4, ManagerAssumption DEF RemoveStatus, Event, OutType
    <2> QED BY <1>4, <2>1, <2>2 DEF RemoveStatus, OutType
  <1>5. ASSUME NEW p \in PID, OtherAgent(p) PROVE History /\ OutType'
    <2>1. History BY <1>5, SameHistory DEF OtherAgent
    <2>2. Len(births') <= events' /\ events' \in 0 .. MaxEvents
      BY <1>0, <1>5, ManagerAssumption DEF OtherAgent, Event, OutType
    <2> QED BY <1>5, <2>1, <2>2 DEF OtherAgent, OutType
  <1>6. CASE Stop BY <1>6, SameHistory DEF Stop, OutType
  <1> QED BY <1>1, <1>2, <1>3, <1>4, <1>5, <1>6 DEF Outside

\* m is the state of the manager, field by field, with the flags it has.
Is(m, pc, first, outage, todo, item, pid, start, wait, targets) ==
  /\ m \in Managers /\ m.flags = mgr.flags
  /\ m.pc = pc /\ m.first = first /\ m.outage = outage /\ m.todo = todo /\ m.item = item
  /\ m.pid = pid /\ m.start = start /\ m.wait = wait /\ m.targets = targets

\* The maps, the goroutines and the history stay.
WorkersAside == UNCHANGED <<managed, retired, work, begun>>

\* ReadStat, field by field: the PID has no process, or its start time is read.
LEMMA ReadStatStep ==
  ASSUME TypeOK, PhaseInv, NEW x, ReadStat(x)
  PROVE  /\ mgr.pc \in {"pids", "domains"} /\ mgr.item = None
         /\ \/ Is(mgr', mgr.pc, mgr.first, mgr.outage, mgr.todo \ {x}, None, mgr.pid,
                  mgr.start, mgr.wait, mgr.targets)
            \/ \E p \in PID :
                 /\ proc[p] # 0
                 /\ Is(mgr', mgr.pc, mgr.first, mgr.outage, mgr.todo, x, p, proc[p],
                       mgr.wait, mgr.targets)
  <1> DEFINE p == IF mgr.pc = "pids" THEN x ELSE file[x]
  <1>1. mgr.pc \in {"pids", "domains"} /\ mgr.item = None /\ x \in mgr.todo BY DEF ReadStat
  <1>2. mgr \in Managers BY DEF TypeOK
  <1>3. p \in PID \cup {None} /\ x \in PID \cup Domain BY <1>1 DEF PhaseInv, TypeOK
  <1> HIDE DEF p
  <1>4. CASE p = None \/ proc[p] = 0
    <2>1. mgr' = [mgr EXCEPT !.todo = @ \ {x}] BY <1>4 DEF ReadStat, ManagerStep, p
    <2>2. mgr.todo \ {x} \in SUBSET (PID \cup Domain \cup Key) BY <1>2 DEF Managers
    <2> QED BY <1>1, <1>2, <2>1, <2>2 DEF Managers, Is
  <1>5. CASE p # None /\ proc[p] # 0
    <2>1. mgr' = [mgr EXCEPT !.item = x, !.pid = p, !.start = proc[p]]
      BY <1>5 DEF ReadStat, ManagerStep, p
    <2>2. p \in PID BY <1>3, <1>5
    <2>3. proc[p] \in Nat BY <2>2 DEF TypeOK
    <2>4. Is(mgr', mgr.pc, mgr.first, mgr.outage, mgr.todo, x, p, proc[p], mgr.wait,
             mgr.targets)
      BY <1>2, <1>3, <2>1, <2>2, <2>3 DEF Managers, Is
    <2> QED BY <1>1, <1>5, <2>2, <2>4
  <1> QED BY <1>4, <1>5

\* The target a process is accepted as.
New == [start |-> mgr.start, uuid |-> births[proc[mgr.pid]].uuid]

\* ReadCmdline, field by field: the process is refused, or accepted as a target.
LEMMA ReadCmdlineStep ==
  ASSUME TypeOK, PhaseInv, ReadCmdline
  PROVE  /\ mgr.item # None /\ mgr.pc \in {"pids", "domains"} /\ mgr.pid \in PID
         /\ \/ /\ UNCHANGED anchored
               /\ Is(mgr', mgr.pc, mgr.first, mgr.outage, mgr.todo \ {mgr.item}, None, None,
                     0,
                     mgr.wait, mgr.targets)
            \/ /\ proc[mgr.pid] # 0 /\ New \in Target
               /\ mgr.pc = "pids" => /\ anchored[mgr.pid] \in {0, mgr.start}
                                     /\ anchored' = [anchored EXCEPT ![mgr.pid] = mgr.start]
               /\ mgr.pc = "domains" => UNCHANGED anchored
               /\ Is(mgr', mgr.pc, mgr.first, mgr.outage, mgr.todo \ {mgr.item}, None, None,
                     0,
                     mgr.wait, [mgr.targets EXCEPT ![mgr.pid] = New])
  <1> DEFINE p == mgr.pid
             accept == /\ proc[p] # 0
                       /\ IF mgr.pc = "pids" THEN IsAnchored(p, mgr.start)
                          ELSE births[proc[p]].uuid = mgr.item
             t == [mgr.targets EXCEPT ![p] = IF accept THEN New ELSE @]
             todo == mgr.todo \ {mgr.item}
  <1>1. mgr.item # None /\ mgr.pc \in {"pids",
                                       "domains"} /\ p \in PID /\ mgr.start \in 1 .. Len(births)
    BY DEF ReadCmdline, PhaseInv
  <1>2. mgr \in Managers BY DEF TypeOK
  <1>3. mgr.targets \in [PID -> Target \cup {None}] /\ todo \in SUBSET (PID \cup Domain \cup Key)
    BY <1>2 DEF Managers
  <1>4. accept => New \in Target
    <2> SUFFICES ASSUME accept PROVE New \in Target OBVIOUS
    <2>1. proc[p] \in 1 .. Len(births) BY <1>1 DEF TypeOK
    <2>2. births[proc[p]].uuid \in Domain BY <2>1, BirthTypes
    <2>3. mgr.start \in Start BY <1>1, BirthTypes DEF Start
    <2> QED BY <2>2, <2>3 DEF New, Target
  <1>5. mgr' = [mgr EXCEPT !.todo = todo, !.item = None, !.pid = None, !.start = 0,
                           !.targets = t]
    BY <1>1, <1>2, <1>3 DEF ReadCmdline, New, Managers
  <1>6. anchored' = IF accept /\ mgr.pc = "pids" THEN [anchored EXCEPT ![p] = mgr.start]
                    ELSE anchored
    BY DEF ReadCmdline
  <1>7. t \in [PID -> Target \cup {None}] BY <1>1, <1>3, <1>4
  <1>8. (accept => t = [mgr.targets EXCEPT ![p] = New]) /\ (~accept => t = mgr.targets)
    BY <1>1, <1>3
  <1> HIDE DEF t, todo, accept
  <1>9. Is(mgr', mgr.pc, mgr.first, mgr.outage, todo, None, None, 0, mgr.wait, t)
    BY <1>2, <1>3, <1>5, <1>7 DEF Managers, Is
  <1>10. CASE accept
    <2>1. proc[p] # 0 /\ (mgr.pc = "pids" => anchored[p] \in {0, mgr.start})
      BY <1>10 DEF accept, IsAnchored
    <2>2. t = [mgr.targets EXCEPT ![p] = New] /\ New \in Target BY <1>4, <1>8, <1>10
    <2>3. /\ mgr.pc = "pids" => anchored' = [anchored EXCEPT ![p] = mgr.start]
          /\ mgr.pc = "domains" => UNCHANGED anchored
      BY <1>6, <1>10
    <2> QED BY <1>1, <1>9, <2>1, <2>2, <2>3 DEF todo
  <1>11. CASE ~accept
    <2>1. t = mgr.targets /\ UNCHANGED anchored BY <1>6, <1>8, <1>11
    <2> QED BY <1>1, <1>9, <2>1 DEF todo
  <1> QED BY <1>10, <1>11

\* The end of a resolution, field by field.
LEMMA ResolvedIs ==
  ASSUME TypeOK, NEW t \in [PID -> Target \cup {None}], NEW o \in BOOLEAN
  PROVE  Is(Resolved(t, o), "reconcile", FALSE, o, managed, mgr.item, mgr.pid, mgr.start,
            mgr.wait, t)
  <1>1. managed \in SUBSET (PID \cup Domain \cup Key) BY DEF TypeOK
  <1> QED BY <1>1 DEF TypeOK, Resolved, Managers, Is

\* ReadDir and EndResolve, field by field.
LEMMA ReadDirStep ==
  ASSUME TypeOK, ReadDir \/ EndResolve
  PROVE  /\ mgr.pc \in {"pids", "domains"} /\ mgr.item = None
         /\ \/ /\ mgr.flags.regex
               /\ \E todo \in SUBSET Domain :
                    Is(mgr', "domains", mgr.first, mgr.outage, todo, None, mgr.pid, mgr.start,
                       mgr.wait, mgr.targets)
            \/ Is(mgr', "reconcile", FALSE, FALSE, managed, None, mgr.pid, mgr.start,
                  mgr.wait, mgr.targets)
  <1>1. mgr \in Managers /\ mgr.targets \in [PID -> Target \cup {None}]
    BY DEF TypeOK, Managers
  <1>2. mgr.pc \in {"pids", "domains"} /\ mgr.item = None BY DEF ReadDir, EndResolve
  <1>3. CASE mgr' = Resolved(mgr.targets, FALSE) BY <1>1, <1>2, <1>3, ResolvedIs
  <1>4. CASE /\ mgr.flags.regex
             /\ mgr' = [mgr EXCEPT !.pc = "domains", !.todo = {d \in Domain : file[d] # None}]
    <2> DEFINE todo == {d \in Domain : file[d] # None}
    <2>1. todo \in SUBSET Domain OBVIOUS
    <2> HIDE DEF todo
    <2>2. mgr' = [mgr EXCEPT !.pc = "domains", !.todo = todo] BY <1>4 DEF todo
    <2>3. Is(mgr', "domains", mgr.first, mgr.outage, todo, None, mgr.pid, mgr.start,
                       mgr.wait, mgr.targets)
      BY <1>1, <1>2, <2>1, <2>2 DEF Managers, Is
    <2> QED BY <1>2, <1>4, <2>1, <2>3
  <1> QED BY <1>3, <1>4 DEF ReadDir, EndResolve, ManagerStep

\* A jump of the manager.
LEMMA JumpIs ==
  ASSUME TypeOK, NEW pc \in {"select", "shutdown", "returned"}
  PROVE  Is([mgr EXCEPT !.pc = pc], pc, mgr.first, mgr.outage, mgr.todo, mgr.item, mgr.pid,
            mgr.start, mgr.wait, mgr.targets)
  BY DEF TypeOK, Managers, Is

\* The next round of the manager begins.
LEMMA SelectTickStep ==
  ASSUME TypeOK, SelectTick
  PROVE  Is(mgr', "pids", mgr.first, mgr.outage, mgr.flags.pids, mgr.item, mgr.pid, mgr.start,
            mgr.wait, NoTargets)
  <1>1. mgr \in Managers BY DEF TypeOK
  <1>2. mgr.flags.pids \in SUBSET (PID \cup Domain \cup Key)
    BY <1>1, ManagerAssumption DEF Managers
  <1>3. NoTargets \in [PID -> Target \cup {None}] BY DEF NoTargets
  <1> QED BY <1>1, <1>2, <1>3 DEF SelectTick, ManagerStep, Managers, Is

\* During an outage each worker's target is rebuilt from its key.
LEMMA KeptIs ==
  ASSUME TypeOK, IdentityInv, UniqueInv
  PROVE  /\ Kept \in [PID -> Target \cup {None}]
         /\ \A p \in PID : Kept[p] # None =>
              \E k \in managed : k[1] = p /\ Kept[p].start = k[2] /\ Kept[p].uuid = work[k].uuid
         /\ \A k \in managed : Kept[k[1]] # None /\ Kept[k[1]].start = k[2]
  <1>1. managed \subseteq Key BY DEF TypeOK
  <1>2. ASSUME NEW k \in managed PROVE [start |-> k[2], uuid |-> work[k].uuid] \in Target
    <2>1. k[2] \in Start /\ work[k].uuid \in Domain BY <1>1, KeyParts DEF IdentityInv
    <2> QED BY <2>1 DEF Target
  <1>3. None \notin Target BY ManagerAssumption
  <1>4. ASSUME NEW p \in PID, \E k \in managed : k[1] = p
        PROVE  \E k \in managed : k[1] = p /\ Kept[p] = [start |-> k[2],
                                                         uuid |-> work[k].uuid]
    <2> DEFINE k == CHOOSE k \in managed : k[1] = p
    <2>1. k \in managed /\ k[1] = p BY <1>4
    <2>2. Kept[p] = [start |-> k[2], uuid |-> work[k].uuid] BY <1>4 DEF Kept
    <2> QED BY <2>1, <2>2
  <1>5. ASSUME NEW p \in PID, ~\E k \in managed : k[1] = p PROVE Kept[p] = None
    BY <1>5 DEF Kept
  <1>6. ASSUME NEW p \in PID PROVE Kept[p] \in Target \cup {None} BY <1>2, <1>4, <1>5
  <1>7. Kept \in [PID -> Target \cup {None}] BY <1>6 DEF Kept
  <1>8. ASSUME NEW p \in PID, Kept[p] # None
        PROVE  \E k \in managed : k[1] = p /\ Kept[p].start = k[2] /\ Kept[p].uuid = work[k].uuid
    <2>1. PICK k \in managed : k[1] = p /\ Kept[p] = [start |-> k[2], uuid |-> work[k].uuid]
      BY <1>4, <1>5, <1>8
    <2>2. Kept[p].start = k[2] /\ Kept[p].uuid = work[k].uuid BY <2>1
    <2> QED BY <2>1, <2>2
  <1>9. ASSUME NEW k \in managed PROVE Kept[k[1]] # None /\ Kept[k[1]].start = k[2]
    <2>1. k[1] \in PID BY <1>1, KeyParts
    <2>2. PICK j \in managed :
            j[1] = k[1] /\ Kept[k[1]] = [start |-> j[2], uuid |-> work[j].uuid]
      BY <1>4, <2>1
    <2>3. j = k BY <2>2 DEF UniqueInv
    <2> QED BY <1>2, <1>3, <2>2, <2>3
  <1> QED BY <1>7, <1>8, <1>9

\* ReadDirFails, field by field.
LEMMA ReadDirFailsStep ==
  ASSUME TypeOK, IdentityInv, UniqueInv, ReadDirFails
  PROVE  /\ mgr.pc = "pids" /\ mgr.item = None /\ mgr.flags.regex
         /\ \/ /\ mgr.first
               /\ Is(mgr', "returned", mgr.first, mgr.outage, mgr.todo, mgr.item, mgr.pid,
                     mgr.start, mgr.wait, mgr.targets)
            \/ Is(mgr', "reconcile", FALSE, TRUE, managed, mgr.item, mgr.pid, mgr.start,
                  mgr.wait, Kept)
  <1>1. mgr.pc = "pids" /\ mgr.item = None /\ mgr.flags.regex BY DEF ReadDirFails
  <1>2. CASE mgr.first
    <2>1. mgr' = [mgr EXCEPT !.pc = "returned"] BY <1>2 DEF ReadDirFails
    <2> QED BY <1>1, <1>2, <2>1, JumpIs
  <1>3. CASE ~mgr.first
    <2>1. mgr' = Resolved(Kept, TRUE) BY <1>3 DEF ReadDirFails
    <2> QED BY <1>1, <2>1, ResolvedIs, KeptIs
  <1> QED BY <1>2, <1>3

\* w is the state of a goroutine, field by field.
At(w, pc, uuid, cancel, pidfd) ==
  w \in Workers /\ w.pc = pc /\ w.uuid = uuid /\ w.cancel = cancel /\ w.pidfd = pidfd

\* Only the goroutine of k moves.
Only(k) == work' \in [Key -> Workers] /\ \A j \in Key : j # k => work'[j] = work[j]

\* How a goroutine that is not over moves on.
Moves(k) ==
  \E q \in {"lock", "open", "stat", "cmdline", "running", "nil", "error"}, fd \in Nat :
    /\ At(work'[k], q, work[k].uuid, work[k].cancel, fd)
    /\ q = "nil" => Cancelled(k) \/ (work[k].pc = "running" /\ proc[k[1]] # work[k].pidfd)
    /\ q = "stat" => fd = proc[k[1]]
    /\ q = "cmdline" => work[k].pc = "stat" /\ proc[k[1]] = k[2] /\ fd = work[k].pidfd
    /\ q = "running" => work[k].pc = "cmdline" /\ fd = work[k].pidfd

\* Goto changes the pc of one goroutine.
LEMMA GotoStep ==
  ASSUME TypeOK, NEW k \in Key, NEW q \in {"lock", "open", "stat", "cmdline", "running",
                                           "nil", "error"},
         Goto(k, q)
  PROVE  Only(k) /\ At(work'[k], q, work[k].uuid, work[k].cancel, work[k].pidfd)
  <1>1. work \in [Key -> Workers] /\ work[k] \in Workers BY DEF TypeOK
  <1>2. work' = [work EXCEPT ![k] = [work[k] EXCEPT !.pc = q]] BY <1>1 DEF Goto
  <1>3. At([work[k] EXCEPT !.pc = q], q, work[k].uuid, work[k].cancel, work[k].pidfd)
    BY <1>1 DEF Workers, At
  <1>4. [work[k] EXCEPT !.pc = q] \in Workers BY <1>3 DEF At
  <1>5. work'[k] = [work[k] EXCEPT !.pc = q] BY <1>1, <1>2
  <1>6. Only(k) BY <1>1, <1>2, <1>4 DEF Only
  <1> QED BY <1>3, <1>5, <1>6

\* A goroutine moves alone.
LEMMA WorkerStep ==
  ASSUME TypeOK, NEW k \in Key, Worker(k)
  PROVE  /\ Only(k) /\ Moves(k) /\ work[k].pc \notin {"none", "nil", "error"}
         /\ UNCHANGED <<anchored, mgr, managed, retired, begun>>
  <1>0. UNCHANGED <<anchored, mgr, managed, retired, begun>> BY DEF Worker
  <1>1. work \in [Key -> Workers] /\ work[k] \in Workers /\ work[k].pidfd \in Nat
    BY DEF TypeOK, Workers
  <1>2. ASSUME NEW q \in {"lock", "open", "error"}, Goto(k, q) PROVE Only(k) /\ Moves(k)
    BY <1>1, <1>2, GotoStep DEF Moves
  <1>3. CASE Delay(k)
    <2>1. CASE Goto(k, "lock") BY <1>0, <1>2, <1>3, <2>1 DEF Delay
    <2>2. CASE Cancelled(k) /\ Goto(k, "nil")
      BY <1>0, <1>1, <1>3, <2>2, GotoStep DEF Delay, Moves
    <2> QED BY <1>3, <2>1, <2>2 DEF Delay
  <1>4. CASE Lock(k)
    <2>1. Goto(k, "open") \/ Goto(k, "error") BY <1>4 DEF Lock
    <2>2. work[k].pc = "lock" BY <1>4 DEF Lock
    <2> QED BY <1>0, <1>2, <2>1, <2>2
  <1>5. CASE OpenTarget(k)
    <2> DEFINE q == IF proc[k[1]] = 0 THEN "error" ELSE "stat"
               w == [work[k] EXCEPT !.pidfd = proc[k[1]], !.pc = q]
    <2>1. proc[k[1]] \in Nat BY KeyParts DEF TypeOK
    <2>2. At(w, q, work[k].uuid, work[k].cancel, proc[k[1]]) BY <1>1, <2>1 DEF Workers, At
    <2>3. work' = [work EXCEPT ![k] = w] BY <1>1, <1>5 DEF OpenTarget
    <2>4. w \in Workers BY <2>2 DEF At
    <2> HIDE DEF w
    <2>5. Only(k) /\ work'[k] = w BY <1>1, <2>3, <2>4 DEF Only
    <2>6. Moves(k) BY <2>1, <2>2, <2>5 DEF Moves
    <2> QED BY <1>0, <1>5, <2>5, <2>6 DEF OpenTarget
  <1>6. CASE CheckStat(k)
    <2>1. work[k].pc = "stat" BY <1>6 DEF CheckStat
    <2>2. CASE proc[k[1]] = k[2]
      <3>1. Goto(k, "cmdline") BY <1>6, <2>2 DEF CheckStat
      <3> QED BY <1>0, <1>1, <2>1, <2>2, <3>1, GotoStep DEF Moves
    <2>3. CASE proc[k[1]] # k[2] BY <1>0, <1>2, <1>6, <2>1, <2>3 DEF CheckStat
    <2> QED BY <2>2, <2>3
  <1>7. CASE CheckCmdline(k)
    <2>1. work[k].pc = "cmdline" /\ (Goto(k, "running") \/ Goto(k, "error"))
      BY <1>7 DEF CheckCmdline
    <2>2. CASE Goto(k, "running") BY <1>0, <1>1, <2>1, <2>2, GotoStep DEF Moves
    <2> QED BY <1>0, <1>2, <2>1, <2>2
  <1>8. CASE EndRun(k)
    <2>1. work[k].pc = "running" BY <1>8 DEF EndRun
    <2>2. Goto(k, "error") \/ (Goto(k, "nil") /\ (Cancelled(k) \/ proc[k[1]] # work[k].pidfd))
      BY <1>8 DEF EndRun
    <2>3. CASE Goto(k, "nil") /\ (Cancelled(k) \/ proc[k[1]] # work[k].pidfd)
      BY <1>0, <1>1, <2>1, <2>3, GotoStep DEF Moves
    <2> QED BY <1>0, <1>2, <2>1, <2>2, <2>3
  <1> QED BY <1>3, <1>4, <1>5, <1>6, <1>7, <1>8 DEF Worker

\* Forget takes k and nothing else out of the map.
LEMMA ForgetStep ==
  ASSUME TypeOK, NEW k \in Key, Forget(k)
  PROVE  Only(k) /\ work'[k] = NoWorker /\ managed' = managed \ {k}
  <1>1. NoWorker \in Workers BY DEF NoWorker, Workers
  <1> QED BY <1>1 DEF Forget, Only, TypeOK

\* Visit, field by field: k is cancelled, kept, or its result received.
LEMMA VisitStep ==
  ASSUME TypeOK, NEW k \in managed, Visit(k)
  PROVE  /\ mgr.pc = "reconcile" /\ mgr.wait = None /\ k \in mgr.todo
         /\ UNCHANGED <<outside, anchored, begun>>
         /\ \/ /\ ~Wanted(k) /\ UNCHANGED <<managed, retired>> /\ Only(k)
               /\ At(work'[k], work[k].pc, work[k].uuid, TRUE, work[k].pidfd)
               /\ Is(mgr', mgr.pc, mgr.first, mgr.outage, mgr.todo, mgr.item, mgr.pid,
                     mgr.start,
                     k, mgr.targets)
            \/ /\ Wanted(k)
               /\ Is(mgr', mgr.pc, mgr.first, mgr.outage, mgr.todo \ {k}, mgr.item, mgr.pid,
                     mgr.start, mgr.wait, mgr.targets)
               /\ \/ UNCHANGED <<managed, retired, work>>
                  \/ /\ Only(k) /\ work'[k] = NoWorker /\ managed' = managed \ {k}
                     /\ retired' = IF work[k].pc = "nil" THEN retired \cup {k} ELSE retired
  <1>1. /\ mgr.pc = "reconcile" /\ mgr.wait = None /\ k \in mgr.todo
        /\ UNCHANGED <<outside, anchored, begun>>
    BY DEF Visit
  <1>2. k \in Key /\ work \in [Key -> Workers] /\ work[k] \in Workers /\ mgr \in Managers
    BY DEF TypeOK
  <1>3. CASE ~Wanted(k)
    <2> DEFINE w == [work[k] EXCEPT !.cancel = TRUE]
    <2>1. At(w, work[k].pc, work[k].uuid, TRUE, work[k].pidfd) BY <1>2 DEF Workers, At
    <2>2. work' = [work EXCEPT ![k] = w] BY <1>2, <1>3 DEF Visit
    <2>3. w \in Workers BY <2>1 DEF At
    <2> HIDE DEF w
    <2>4. Only(k) /\ work'[k] = w BY <1>2, <2>2, <2>3 DEF Only
    <2>5. mgr' = [mgr EXCEPT !.wait = k] /\ UNCHANGED <<managed, retired>> BY <1>3 DEF Visit
    <2>6. Is(mgr', mgr.pc, mgr.first, mgr.outage, mgr.todo, mgr.item, mgr.pid, mgr.start,
             k, mgr.targets)
      BY <1>2, <2>5 DEF Managers, Is
    <2> QED BY <1>1, <1>3, <2>1, <2>4, <2>5, <2>6
  <1>4. CASE Wanted(k)
    <2>1. mgr' = [mgr EXCEPT !.todo = @ \ {k}] BY <1>4 DEF Visit
    <2>2. mgr.todo \ {k} \in SUBSET (PID \cup Domain \cup Key) BY <1>2 DEF Managers
    <2>3. Is(mgr', mgr.pc, mgr.first, mgr.outage, mgr.todo \ {k}, mgr.item, mgr.pid,
             mgr.start,
             mgr.wait, mgr.targets)
      BY <1>2, <2>1, <2>2 DEF Managers, Is
    <2>4. Drain(k) \/ UNCHANGED <<managed, retired, work>> BY <1>4 DEF Visit
    <2>5. CASE Drain(k)
      <3>1. Only(k) /\ work'[k] = NoWorker /\ managed' = managed \ {k}
        BY <1>2, <2>5, ForgetStep DEF Drain
      <3>2. retired' = IF work[k].pc = "nil" THEN retired \cup {k} ELSE retired
        BY <2>5 DEF Drain
      <3> QED BY <1>1, <1>4, <2>3, <3>1, <3>2
    <2> QED BY <1>1, <1>4, <2>3, <2>4, <2>5
  <1> QED BY <1>3, <1>4

\* Removed, field by field.
LEMMA RemovedStep ==
  ASSUME TypeOK, PhaseInv, Removed
  PROVE  /\ mgr.wait # None /\ mgr.wait \in managed /\ mgr.pc = "reconcile"
         /\ UNCHANGED <<outside, anchored, retired, begun>>
         /\ Only(mgr.wait) /\ work'[mgr.wait] = NoWorker /\ managed' = managed \ {mgr.wait}
         /\ Is(mgr', mgr.pc, mgr.first, mgr.outage, mgr.todo \ {mgr.wait}, mgr.item, mgr.pid,
               mgr.start, None, mgr.targets)
  <1>1. mgr.wait # None /\ mgr.wait \in managed /\ mgr.pc = "reconcile"
    BY DEF Removed, PhaseInv
  <1>2. mgr.wait \in Key /\ mgr \in Managers BY <1>1 DEF TypeOK
  <1>3. Only(mgr.wait) /\ work'[mgr.wait] = NoWorker /\ managed' = managed \ {mgr.wait}
    BY <1>2, ForgetStep DEF Removed
  <1>4. mgr' = [mgr EXCEPT !.todo = mgr.todo \ {mgr.wait}, !.wait = None]
    BY <1>2 DEF Removed, Managers
  <1>5. mgr.todo \ {mgr.wait} \in SUBSET (PID \cup Domain \cup Key) BY <1>2 DEF Managers
  <1>6. Is(mgr', mgr.pc, mgr.first, mgr.outage, mgr.todo \ {mgr.wait}, mgr.item, mgr.pid,
           mgr.start, None, mgr.targets)
    BY <1>2, <1>4, <1>5 DEF Managers, Is
  <1> QED BY <1>1, <1>3, <1>6 DEF Removed

\* The keys a worker is started for.
Started == {k \in Key : Wanted(k)} \ (managed \cup retired)

\* StartWorkers, field by field.
LEMMA StartStep ==
  ASSUME TypeOK, PhaseInv, StartWorkers
  PROVE  /\ mgr.pc = "reconcile" /\ mgr.wait = None /\ mgr.todo = {}
         /\ UNCHANGED <<outside, anchored, retired>>
         /\ managed' = managed \cup Started /\ begun' = begun \cup Started
         /\ work' \in [Key -> Workers]
         /\ \A k \in Key \ Started : work'[k] = work[k]
         /\ \A k \in Started : /\ mgr.targets[k[1]].uuid \in Domain
                               /\ At(work'[k], "delay", mgr.targets[k[1]].uuid, FALSE, 0)
         /\ \E pc \in {"select", "shutdown"} :
              Is(mgr', pc, mgr.first, mgr.outage, mgr.todo, mgr.item, mgr.pid, mgr.start,
                 mgr.wait, mgr.targets)
  <1>1. /\ mgr.pc = "reconcile" /\ mgr.wait = None /\ mgr.todo = {}
        /\ UNCHANGED <<outside, anchored, retired>>
        /\ managed' = managed \cup Started /\ begun' = begun \cup Started
    BY DEF StartWorkers, Started
  <1>2. work \in [Key -> Workers] /\ mgr.targets \in [PID -> Target \cup {None}]
    BY DEF TypeOK, Managers
  <1>3. ASSUME NEW k \in Started PROVE k \in Key /\ mgr.targets[k[1]].uuid \in Domain
    <2>1. k \in Key /\ mgr.targets[k[1]] # None BY <1>3 DEF Started, Wanted
    <2>2. mgr.targets[k[1]] \in Target BY <1>2, <2>1, KeyParts
    <2> QED BY <2>1, <2>2 DEF Target
  <1>4. ASSUME NEW u \in Domain
        PROVE  At([NoWorker EXCEPT !.pc = "delay", !.uuid = u], "delay", u, FALSE, 0)
    BY DEF NoWorker, Workers, At
  <1>5. work' = [k \in Key |->
          IF k \in Started THEN [NoWorker EXCEPT !.pc = "delay",
                                 !.uuid = mgr.targets[k[1]].uuid]
          ELSE work[k]]
    BY DEF StartWorkers, Started
  <1>6. \A k \in Key \ Started : work'[k] = work[k] BY <1>5
  <1>7. ASSUME NEW k \in Started
        PROVE  /\ mgr.targets[k[1]].uuid \in Domain
               /\ At(work'[k], "delay", mgr.targets[k[1]].uuid, FALSE, 0)
    <2>1. k \in Key /\ mgr.targets[k[1]].uuid \in Domain BY <1>3
    <2>2. work'[k] = [NoWorker EXCEPT !.pc = "delay", !.uuid = mgr.targets[k[1]].uuid]
      BY <1>5, <2>1
    <2> QED BY <1>4, <2>1, <2>2
  <1>8. work' \in [Key -> Workers]
    <2>1. \A k \in Key : work'[k] \in Workers BY <1>2, <1>6, <1>7 DEF At
    <2> QED BY <1>5, <2>1
  <1>9. \E pc \in {"select", "shutdown"} : mgr' = [mgr EXCEPT !.pc = pc] BY DEF StartWorkers
  <1> QED BY <1>1, <1>6, <1>7, <1>8, <1>9, JumpIs

\* CancelAll, field by field.
LEMMA CancelAllStep ==
  ASSUME TypeOK, CancelAll
  PROVE  /\ mgr.pc = "shutdown" /\ UNCHANGED <<outside, anchored, mgr, managed, retired, begun>>
         /\ work' \in [Key -> Workers]
         /\ \A k \in managed : At(work'[k], work[k].pc, work[k].uuid, TRUE, work[k].pidfd)
         /\ \A k \in Key \ managed : work'[k] = work[k]
  <1>1. mgr.pc = "shutdown" /\ UNCHANGED <<outside, anchored, mgr, managed, retired, begun>>
    BY DEF CancelAll
  <1>2. work \in [Key -> Workers] /\ managed \subseteq Key BY DEF TypeOK
  <1>3. work' = [k \in Key |->
                  IF k \in managed THEN [work[k] EXCEPT !.cancel = TRUE] ELSE work[k]]
    BY DEF CancelAll
  <1>4. ASSUME NEW k \in managed
        PROVE  At(work'[k], work[k].pc, work[k].uuid, TRUE, work[k].pidfd)
    <2>1. k \in Key /\ work[k] \in Workers BY <1>2
    <2>2. At([work[k] EXCEPT !.cancel = TRUE], work[k].pc, work[k].uuid, TRUE, work[k].pidfd)
      BY <2>1 DEF Workers, At
    <2>3. work'[k] = [work[k] EXCEPT !.cancel = TRUE] BY <1>3, <2>1
    <2> QED BY <2>2, <2>3
  <1>5. \A k \in Key \ managed : work'[k] = work[k] BY <1>3
  <1>6. work' \in [Key -> Workers]
    <2>1. \A k \in Key : work'[k] \in Workers BY <1>2, <1>4, <1>5 DEF At
    <2> QED BY <1>3, <2>1
  <1> QED BY <1>1, <1>4, <1>5, <1>6

\* Steps of the manager that leave the maps and the goroutines alone.
Resolves ==
  \/ \E x \in mgr.todo : ReadStat(x)
  \/ ReadCmdline \/ ReadDir \/ EndResolve \/ ReadDirFails \/ SelectTick \/ SelectDone \/ Return

\* They leave them alone indeed.
LEMMA ResolvesStep == Resolves => UNCHANGED <<births, proc, file, other, ctxDone>> /\ WorkersAside
  BY DEF Resolves, ReadStat, ReadCmdline, ReadDir, EndResolve, ReadDirFails, SelectTick,
     SelectDone,
         Return, ManagerStep, outside, WorkersAside

\* SelectDone and Return, field by field.
LEMMA JumpStep ==
  ASSUME TypeOK, SelectDone \/ Return
  PROVE  /\ UNCHANGED anchored
         /\ \/ /\ mgr.pc = "select"
               /\ Is(mgr', "shutdown", mgr.first, mgr.outage, mgr.todo, mgr.item, mgr.pid,
                     mgr.start, mgr.wait, mgr.targets)
            \/ /\ mgr.pc = "shutdown" /\ AllDone
               /\ Is(mgr', "returned", mgr.first, mgr.outage, mgr.todo, mgr.item, mgr.pid,
                     mgr.start, mgr.wait, mgr.targets)
  BY JumpIs DEF SelectDone, Return, ManagerStep

\* Every step keeps the history and the types of the outside.
LEMMA HistoryStep ==
  ASSUME TypeOK, PastInv, [Next]_vars PROVE History /\ OutType'
  <1>0. OutType BY TypeParts
  <1>1. CASE Outside BY <1>0, <1>1, OutsideStep
  <1>2. CASE UNCHANGED outside BY <1>0, <1>2, SameHistory DEF outside, OutType
  <1>3. CASE Event /\ UNCHANGED <<births, proc, file, other, ctxDone>>
    <2>1. Len(births) \in Nat BY <1>0 DEF OutType
    <2>2. Len(births') <= events' /\ events' \in 0 .. MaxEvents
      BY <1>0, <1>3, <2>1, ManagerAssumption DEF Event, OutType
    <2> QED BY <1>0, <1>3, <2>2, SameHistory DEF OutType
  <1>4. CASE Manage
    BY <1>2, <1>4 DEF Manage, ReadStat, ReadCmdline, ReadDir, EndResolve, Visit, Removed,
       StartWorkers,
              SelectTick, SelectDone, CancelAll, Return, ManagerStep
  <1>5. CASE ReadDirFails BY <1>3, <1>5 DEF ReadDirFails
  <1>6. ASSUME NEW k \in Key, Worker(k) PROVE History /\ OutType'
    BY <1>2, <1>3, <1>6 DEF Worker, Delay, Lock, OpenTarget, CheckStat, CheckCmdline, EndRun
  <1>7. CASE UNCHANGED vars BY <1>2, <1>7 DEF vars
  <1> QED BY <1>1, <1>4, <1>5, <1>6, <1>7 DEF Next

\* The maps stay well typed when one goroutine moves on or is forgotten.
LEMMA WorkTypes ==
  ASSUME TypeOK, NEW k \in managed, Only(k), UNCHANGED begun,
         retired' \subseteq begun,
         \/ managed' = managed /\ work'[k].pc # "none"
         \/ managed' = managed \ {k} /\ work'[k].pc = "none"
  PROVE  WorkType'
  <1>1. k \in Key /\ managed \subseteq begun /\ begun \subseteq Key BY DEF TypeOK
  <1>2. managed = {j \in Key : work[j].pc # "none"} BY DEF TypeOK
  <1>3. \A j \in Key : j # k => work'[j] = work[j] BY DEF Only
  <1>4. \A j \in Key : j \in managed' <=> work'[j].pc # "none"
    <2>1. ASSUME NEW j \in Key, j # k PROVE j \in managed' <=> work'[j].pc # "none"
      <3>1. j \in managed' <=> j \in managed BY <2>1
      <3> QED BY <1>2, <1>3, <2>1, <3>1
    <2>2. k \in managed' <=> work'[k].pc # "none" OBVIOUS
    <2> QED BY <2>1, <2>2
  <1>5. managed' \subseteq managed OBVIOUS
  <1>6. managed' = {j \in Key : work'[j].pc # "none"} BY <1>1, <1>4, <1>5
  <1>7. work' \in [Key -> Workers] BY DEF Only
  <1> QED BY <1>1, <1>5, <1>6, <1>7 DEF WorkType

\* Every step keeps the types.
LEMMA TypeStep ==
  ASSUME TypeOK, PastInv, PhaseInv, IdentityInv, UniqueInv, [Next]_vars PROVE TypeOK'
  <1>0. /\ OutType' /\ Len(births) <= Len(births') /\ Len(births) \in Nat /\ Len(births') \in Nat
        /\ anchored \in [PID -> 0 .. Len(births)]
    BY HistoryStep, TypeParts, BirthTypes DEF History, OutType
  <1>1. UNCHANGED anchored => anchored' \in [PID -> 0 .. Len(births')] BY <1>0
  <1>2. WorkersAside => WorkType'
    BY TypeParts DEF WorkersAside, WorkType
  <1>3. CASE Outside
    <2>1. UNCHANGED <<anchored, mgr>> /\ WorkersAside BY <1>3 DEF Outside, WorkersAside
    <2> QED BY <1>0, <1>1, <1>2, <2>1, TypeParts, TypeNext
  <1>4. ASSUME NEW k \in Key, Worker(k) PROVE TypeOK'
    <2>1. Only(k) /\ UNCHANGED <<anchored, mgr, managed, retired, begun>> BY <1>4, WorkerStep
    <2>2. k \in managed BY <1>4, WorkerStep DEF TypeOK
    <2>3. work'[k].pc # "none" BY <1>4, WorkerStep DEF Moves, At
    <2>4. retired' \subseteq begun BY <2>1 DEF TypeOK
    <2>5. WorkType' BY <2>1, <2>2, <2>3, <2>4, WorkTypes
    <2> QED BY <1>0, <1>1, <2>1, <2>5, TypeParts, TypeNext
  <1>5. CASE Resolves
    <2>1. WorkType' BY <1>2, <1>5, ResolvesStep
    <2>2. mgr' \in Managers
      BY <1>5, ReadStatStep, ReadCmdlineStep, ReadDirStep, ReadDirFailsStep, SelectTickStep,
         JumpStep
      DEF Resolves, Is
    <2>3. CASE ReadCmdline
      <3>1. mgr.start \in 0 .. Len(births) /\ mgr.pid \in PID
        BY <2>3 DEF ReadCmdline, PhaseInv
      <3>2. UNCHANGED anchored \/ anchored' = [anchored EXCEPT ![mgr.pid] = mgr.start]
        BY <2>3, ReadCmdlineStep
      <3>3. births' = births BY <2>3 DEF ReadCmdline, outside
      <3>4. anchored' \in [PID -> 0 .. Len(births')] BY <1>0, <3>1, <3>2, <3>3
      <3> QED BY <1>0, <2>1, <2>2, <3>4, TypeNext
    <2>4. CASE ~ReadCmdline
      <3>1. UNCHANGED anchored
        BY <1>5, <2>4, JumpStep DEF Resolves, ReadStat, ReadDir, EndResolve, ReadDirFails,
           SelectTick, ManagerStep
      <3> QED BY <1>0, <1>1, <2>1, <2>2, <3>1, TypeNext
    <2> QED BY <2>3, <2>4
  <1>6. ASSUME NEW k \in managed, Visit(k) PROVE TypeOK'
    <2>1. mgr' \in Managers /\ UNCHANGED <<outside, anchored, begun>>
      BY <1>6, VisitStep DEF Is
    <2>2. CASE UNCHANGED <<managed, retired, work>>
      BY <1>0, <1>1, <1>2, <2>1, <2>2, TypeNext DEF WorkersAside
    <2>3. k \in Key /\ k \in begun /\ retired \subseteq begun /\ work[k].pc # "none"
      BY DEF TypeOK
    <2>4. CASE UNCHANGED <<managed, retired>> /\ Only(k) /\ work'[k].pc = work[k].pc
      <3>1. WorkType' BY <2>1, <2>3, <2>4, WorkTypes
      <3> QED BY <1>0, <1>1, <2>1, <3>1, TypeNext
    <2>5. CASE /\ Only(k) /\ work'[k] = NoWorker /\ managed' = managed \ {k}
               /\ retired' = IF work[k].pc = "nil" THEN retired \cup {k} ELSE retired
      <3>1. work'[k].pc = "none" /\ retired' \subseteq begun BY <2>3, <2>5 DEF NoWorker
      <3>2. WorkType' BY <2>1, <2>5, <3>1, WorkTypes
      <3> QED BY <1>0, <1>1, <2>1, <3>2, TypeNext
    <2> QED BY <1>6, <2>2, <2>4, <2>5, VisitStep DEF At
  <1>7. CASE Removed
    <2>1. /\ mgr' \in Managers /\ UNCHANGED <<anchored, retired, begun>> /\ mgr.wait \in managed
          /\ Only(mgr.wait) /\ work'[mgr.wait] = NoWorker /\ managed' = managed \ {mgr.wait}
      BY <1>7, RemovedStep DEF Is
    <2>2. work'[mgr.wait].pc = "none" /\ retired' \subseteq begun BY <2>1 DEF NoWorker, TypeOK
    <2>3. WorkType' BY <2>1, <2>2, WorkTypes
    <2> QED BY <1>0, <1>1, <2>1, <2>3, TypeNext
  <1>8. CASE StartWorkers
    <2>1. /\ UNCHANGED <<anchored, retired>> /\ mgr' \in Managers
          /\ managed' = managed \cup Started /\ begun' = begun \cup Started
          /\ work' \in [Key -> Workers]
          /\ \A k \in Key \ Started : work'[k] = work[k]
          /\ \A k \in Started : work'[k].pc = "delay"
      BY <1>8, StartStep DEF Is, At
    <2>2. Started \subseteq Key BY DEF Started
    <2>3. managed = {k \in Key : work[k].pc # "none"} BY DEF TypeOK
    <2>4. managed' = {k \in Key : work'[k].pc # "none"} BY <2>1, <2>2, <2>3
    <2>5. managed' \subseteq begun' /\ retired' \subseteq begun' /\ begun' \subseteq Key
      BY <2>1, <2>2 DEF TypeOK
    <2>6. WorkType' BY <2>1, <2>4, <2>5 DEF WorkType
    <2> QED BY <1>0, <1>1, <2>1, <2>6, TypeNext
  <1>9. CASE CancelAll
    <2>1. /\ UNCHANGED <<anchored, mgr, managed, retired, begun>> /\ work' \in [Key -> Workers]
          /\ \A k \in Key : work'[k].pc = work[k].pc
      BY <1>9, CancelAllStep DEF At
    <2>2. managed' = {k \in Key : work'[k].pc # "none"} BY <2>1 DEF TypeOK
    <2>3. WorkType' BY <2>1, <2>2 DEF WorkType, TypeOK
    <2> QED BY <1>0, <1>1, <2>1, <2>3, TypeParts, TypeNext
  <1>10. CASE UNCHANGED vars BY <1>10 DEF vars, outside, TypeOK
  <1> QED BY <1>3, <1>4, <1>5, <1>6, <1>7, <1>8, <1>9, <1>10 DEF Next, Manage, Resolves

\* Where a target comes from: it was there, a process was accepted, or the
\* targets are rebuilt from the workers.
LEMMA TargetStep ==
  ASSUME TypeOK, PhaseInv, IdentityInv, UniqueInv, [Next]_vars,
         NEW p \in PID, mgr'.targets[p] # None
  PROVE  \/ mgr'.targets[p] = mgr.targets[p]
         \/ /\ UNCHANGED <<births, proc>> /\ p = mgr.pid /\ mgr.item # None
            /\ proc[p] # 0 /\ mgr.start \in 1 .. Len(births)
            /\ mgr'.targets[p].start = mgr.start /\ mgr'.targets[p].uuid = births[proc[p]].uuid
            /\ mgr.pc = "pids" => anchored[p] \in {0, mgr.start} /\ anchored'[p] = mgr.start
         \/ /\ UNCHANGED <<births, proc>> /\ mgr.flags.regex
            /\ \E k \in managed : /\ k[1] = p /\ mgr'.targets[p].start = k[2]
                                  /\ mgr'.targets[p].uuid = work[k].uuid
  <1>0. mgr.targets \in [PID -> Target \cup {None}] /\ anchored \in [PID -> 0 .. Len(births)]
    BY DEF TypeOK, Managers
  <1>1. CASE UNCHANGED mgr BY <1>1
  <1>2. CASE ReadCmdline
    <2>1. UNCHANGED <<births, proc>> BY <1>2 DEF ReadCmdline, outside
    <2>2. mgr.pid \in PID /\ mgr.item # None /\ mgr.start \in 1 .. Len(births)
      BY <1>2 DEF ReadCmdline, PhaseInv
    <2>3. CASE mgr'.targets = mgr.targets BY <2>3
    <2>4. CASE /\ proc[mgr.pid] # 0
               /\ mgr.pc = "pids" => /\ anchored[mgr.pid] \in {0, mgr.start}
                                     /\ anchored' = [anchored EXCEPT ![mgr.pid] = mgr.start]
               /\ mgr'.targets = [mgr.targets EXCEPT ![mgr.pid] = New]
      <3>1. CASE p # mgr.pid BY <1>0, <2>4, <3>1
      <3>2. CASE p = mgr.pid
        <4>1. mgr'.targets[p] = New BY <1>0, <2>4, <3>2
        <4>2. New.start = mgr.start /\ New.uuid = births[proc[p]].uuid BY <3>2 DEF New
        <4>3. mgr.pc = "pids" => anchored[p] \in {0, mgr.start} /\ anchored'[p] = mgr.start
          BY <1>0, <2>4, <3>2
        <4> QED BY <2>1, <2>2, <2>4, <3>2, <4>1, <4>2, <4>3
      <3> QED BY <3>1, <3>2
    <2> QED BY <1>2, <2>3, <2>4, ReadCmdlineStep DEF Is
  <1>3. CASE ReadDirFails
    <2>1. UNCHANGED <<births, proc>> BY <1>3 DEF ReadDirFails
    <2>2. CASE mgr'.targets = mgr.targets BY <2>2
    <2>3. CASE mgr'.targets = Kept /\ mgr.flags.regex
      <3>1. PICK k \in managed : k[1] = p /\ Kept[p].start = k[2] /\ Kept[p].uuid = work[k].uuid
        BY <2>3, KeptIs
      <3> QED BY <2>1, <2>3, <3>1
    <2> QED BY <1>3, <2>2, <2>3, ReadDirFailsStep DEF Is
  <1>4. CASE SelectTick
    <2>1. mgr'.targets = NoTargets BY <1>4, SelectTickStep DEF Is
    <2> QED BY <2>1 DEF NoTargets
  <1>5. ASSUME \/ \E x \in mgr.todo : ReadStat(x)
               \/ ReadDir \/ EndResolve \/ SelectDone \/ Return
               \/ (\E k \in managed : Visit(k)) \/ Removed \/ StartWorkers
        PROVE  mgr'.targets = mgr.targets
    BY <1>5, ReadStatStep, ReadDirStep, JumpStep, VisitStep, RemovedStep, StartStep DEF Is
  <1>6. CASE Outside \/ CancelAll \/ (\E k \in Key : Worker(k)) \/ UNCHANGED vars
    BY <1>1, <1>6 DEF Outside, CancelAll, Worker, vars
  <1> QED BY <1>2, <1>3, <1>4, <1>5, <1>6 DEF Next, Manage

\* What is left of a worker's state: everything but whether it is cancelled.
Same(k) ==
  /\ k \in managed
  /\ work'[k].pc = work[k].pc /\ work'[k].uuid = work[k].uuid /\ work'[k].pidfd = work[k].pidfd

\* A worker of the map was there, and stayed or moved, or was just started.
LEMMA ManagedStep ==
  ASSUME TypeOK, PhaseInv, IdentityInv, UniqueInv, [Next]_vars, NEW k \in managed'
  PROVE  \/ Same(k)
         \/ k \in managed /\ Worker(k)
         \/ StartWorkers /\ k \in Started
  <1>0. managed \subseteq Key BY DEF TypeOK
  <1>1. ASSUME WorkersAside PROVE Same(k) BY <1>1 DEF WorkersAside, Same
  <1>2. CASE Outside \/ Resolves \/ UNCHANGED vars
    BY <1>1, <1>2, ResolvesStep DEF Outside, WorkersAside, vars
  <1>3. ASSUME NEW j \in Key, Worker(j) PROVE Same(k) \/ (k \in managed /\ Worker(k))
    <2>1. managed' = managed /\ \A i \in Key : i # j => work'[i] = work[i]
      BY <1>3, WorkerStep DEF Only
    <2> QED BY <1>0, <1>3, <2>1 DEF Same
  <1>4. ASSUME NEW j \in managed, Visit(j) PROVE Same(k)
    <2>1. CASE UNCHANGED <<managed, retired, work>> BY <2>1 DEF Same
    <2>2. CASE UNCHANGED <<managed, retired>> /\ Only(j)
               /\ At(work'[j], work[j].pc, work[j].uuid, TRUE, work[j].pidfd)
      BY <1>0, <2>2 DEF Only, At, Same
    <2>3. CASE Only(j) /\ managed' = managed \ {j} BY <1>0, <2>3 DEF Only, Same
    <2> QED BY <1>4, <2>1, <2>2, <2>3, VisitStep
  <1>5. CASE Removed
    <2>1. managed' = managed \ {mgr.wait} /\ Only(mgr.wait) BY <1>5, RemovedStep
    <2> QED BY <1>0, <2>1 DEF Only, Same
  <1>6. CASE StartWorkers
    <2>1. managed' = managed \cup Started /\ \A i \in Key \ Started : work'[i] = work[i]
      BY <1>6, StartStep
    <2>2. CASE k \in Started BY <1>6, <2>2
    <2>3. CASE k \notin Started BY <1>0, <2>1, <2>3 DEF Same
    <2> QED BY <2>2, <2>3
  <1>7. CASE CancelAll
    <2>1. managed' = managed BY <1>7, CancelAllStep
    <2> QED BY <1>7, <2>1, CancelAllStep DEF At, Same
  <1> QED BY <1>2, <1>3, <1>4, <1>5, <1>6, <1>7 DEF Next, Manage, Resolves

\* Only StartWorkers adds to the history of workers.
LEMMA BegunStep ==
  ASSUME TypeOK, PhaseInv, [Next]_vars, NEW k \in begun'
  PROVE  k \in begun \/ (StartWorkers /\ k \in Started)
  <1>1. CASE StartWorkers BY <1>1, StartStep
  <1>2. CASE UNCHANGED begun BY <1>2
  <1> QED BY <1>1, <1>2, ResolvesStep
          DEF Next, Outside, Manage, Resolves, WorkersAside, Worker, Visit, Removed,
              CancelAll, vars

\* What is recorded stays in the past.
LEMMA PastStep ==
  ASSUME TypeOK, PastInv, PhaseInv, IdentityInv, UniqueInv, [Next]_vars PROVE PastInv'
  <1>0. History /\ Len(births) \in Nat /\ Len(births') \in Nat
    BY HistoryStep, BirthTypes DEF OutType
  <1>1. \A p \in PID : proc'[p] # 0 => births'[proc'[p]].pid = p BY <1>0 DEF History
  <1>2. begun \subseteq Key /\ \A k \in Key : k[2] \in Nat /\ k[1] \in PID
    BY KeyParts DEF TypeOK, Start
  <1>3. ASSUME NEW k \in begun' PROVE k[2] <= Len(births')
    <2>1. CASE k \in begun BY <1>0, <1>2, <2>1 DEF PastInv, History
    <2>2. CASE StartWorkers /\ k \in Started
      <3>1. k \in Key /\ mgr.targets[k[1]] # None /\ mgr.targets[k[1]].start = k[2]
        BY <2>2 DEF Started, Wanted
      <3>2. k[2] <= Len(births) BY <1>2, <3>1 DEF PastInv
      <3> QED BY <1>0, <1>2, <3>1, <3>2 DEF History
    <2> QED BY <2>1, <2>2, BegunStep
  <1>4. ASSUME NEW p \in PID, mgr'.targets[p] # None PROVE mgr'.targets[p].start <= Len(births')
    <2>1. CASE mgr'.targets[p] = mgr.targets[p]
      <3>1. mgr.targets[p] \in Target BY <1>4, <2>1 DEF TypeOK, Managers
      <3>2. mgr.targets[p].start \in Nat BY <3>1 DEF Target, Start
      <3> QED BY <1>0, <1>4, <2>1, <3>2 DEF PastInv, History
    <2>2. CASE mgr'.targets[p].start = mgr.start /\ mgr.start \in 1 .. Len(births)
      BY <1>0, <2>2 DEF History
    <2>3. ASSUME NEW k \in managed, mgr'.targets[p].start = k[2]
          PROVE  mgr'.targets[p].start <= Len(births')
      <3>1. k \in begun BY DEF TypeOK
      <3> QED BY <1>0, <1>2, <2>3, <3>1 DEF PastInv, History
    <2> QED BY <1>4, <2>1, <2>2, <2>3, TargetStep
  <1> QED BY <1>1, <1>3, <1>4 DEF PastInv

\* The manager goes through its phases.
LEMMA PhaseStep ==
  ASSUME TypeOK, PastInv, PhaseInv, IdentityInv, UniqueInv, [Next]_vars PROVE PhaseInv'
  <1>0. /\ Len(births) \in Nat /\ Len(births') \in Nat /\ Len(births) <= Len(births')
        /\ mgr.start \in Nat
    BY HistoryStep, BirthTypes DEF OutType, History, TypeOK, Managers
  <1>1. ASSUME UNCHANGED <<mgr, managed>> PROVE PhaseInv' BY <1>0, <1>1 DEF PhaseInv
  <1>2. CASE Outside \/ CancelAll \/ (\E k \in Key : Worker(k)) \/ UNCHANGED vars
    BY <1>1, <1>2 DEF Outside, CancelAll, Worker, vars
  <1>3. CASE Resolves
    <2>0. UNCHANGED <<births, managed>> BY <1>3, ResolvesStep DEF WorkersAside
    <2>1. ASSUME NEW x \in mgr.todo, ReadStat(x) PROVE PhaseInv'
      <3>1. CASE Is(mgr', mgr.pc, mgr.first, mgr.outage, mgr.todo \ {x}, None, mgr.pid,
                    mgr.start, mgr.wait, mgr.targets)
        BY <2>0, <2>1, <3>1, ReadStatStep DEF PhaseInv, Is
      <3>2. ASSUME NEW p \in PID, proc[p] # 0,
                   Is(mgr', mgr.pc, mgr.first, mgr.outage, mgr.todo, x, p, proc[p],
                      mgr.wait, mgr.targets)
            PROVE  PhaseInv'
        <4>1. proc[p] \in 1 .. Len(births) BY <1>0, <3>2 DEF TypeOK
        <4>2. mgr.pc \in {"pids", "domains"} BY <2>1 DEF ReadStat
        <4> QED BY <2>0, <3>2, <4>1, <4>2 DEF PhaseInv, Is
      <3> QED BY <2>1, <3>1, <3>2, ReadStatStep
    <2>2. CASE ReadCmdline
      <3>1. \E t : Is(mgr', mgr.pc, mgr.first, mgr.outage, mgr.todo \ {mgr.item}, None, None,
                      0,
                     mgr.wait, t)
        BY <2>2, ReadCmdlineStep
      <3>2. mgr.pc \in {"pids", "domains"} BY <2>2, ReadCmdlineStep
      <3> QED BY <2>0, <3>1, <3>2 DEF PhaseInv, Is
    <2>3. CASE ReadDir \/ EndResolve BY <2>0, <2>3, ReadDirStep DEF PhaseInv, Is
    <2>4. CASE ReadDirFails BY <2>0, <2>4, ReadDirFailsStep DEF PhaseInv, Is
    <2>5. CASE SelectTick
      <3>1. mgr.flags.pids \subseteq PID BY ManagerAssumption DEF TypeOK, Managers
      <3>2. mgr.pc = "select" BY <2>5 DEF SelectTick
      <3> QED BY <2>0, <2>5, <3>1, <3>2, SelectTickStep DEF PhaseInv, Is
    <2>6. CASE SelectDone \/ Return BY <2>0, <2>6, JumpStep DEF PhaseInv, Is
    <2> QED BY <1>3, <2>1, <2>2, <2>3, <2>4, <2>5, <2>6 DEF Resolves
  <1>4. ASSUME NEW k \in managed, Visit(k) PROVE PhaseInv'
    <2>0. /\ mgr.pc = "reconcile" /\ mgr.wait = None /\ k \in mgr.todo /\ mgr.item = None
          /\ ~mgr.first
      BY <1>4, VisitStep DEF PhaseInv
    <2>1. managed' = managed \/ managed' = managed \ {k} BY <1>4, VisitStep
    <2>2. CASE /\ managed' = managed
               /\ Is(mgr', mgr.pc, mgr.first, mgr.outage, mgr.todo, mgr.item, mgr.pid,
                     mgr.start,
                     k, mgr.targets)
      BY <2>0, <2>2 DEF PhaseInv, Is
    <2>3. CASE Is(mgr', mgr.pc, mgr.first, mgr.outage, mgr.todo \ {k}, mgr.item, mgr.pid,
                  mgr.start, mgr.wait, mgr.targets)
      <3>1. /\ mgr'.pc = "reconcile" /\ mgr'.todo = mgr.todo \ {k} /\ mgr'.item = None
            /\ mgr'.wait = None /\ mgr'.first = mgr.first
        BY <2>0, <2>3 DEF Is
      <3>2. mgr.todo \ {k} \subseteq managed' BY <2>0, <2>1 DEF PhaseInv
      <3> QED BY <2>0, <3>1, <3>2 DEF PhaseInv
    <2> QED BY <1>4, <2>2, <2>3, VisitStep
  <1>5. CASE Removed BY <1>5, RemovedStep DEF PhaseInv, Is
  <1>6. CASE StartWorkers
    <2>1. PICK pc \in {"select", "shutdown"} :
            Is(mgr', pc, mgr.first, mgr.outage, mgr.todo, mgr.item, mgr.pid, mgr.start,
               mgr.wait, mgr.targets)
      BY <1>6, StartStep
    <2>2. mgr.pc = "reconcile" /\ mgr.wait = None /\ mgr.item = None /\ ~mgr.first
      BY <1>6, StartStep DEF PhaseInv
    <2> QED BY <2>1, <2>2 DEF PhaseInv, Is
  <1> QED BY <1>2, <1>3, <1>4, <1>5, <1>6 DEF Next, Manage, Resolves

\* What was read of a process stays true of it.
LEMMA IdentityStep ==
  ASSUME TypeOK, PastInv, PhaseInv, IdentityInv, UniqueInv, [Next]_vars PROVE IdentityInv'
  <1>0. History /\ Len(births) \in Nat BY HistoryStep, BirthTypes
  <1>1. ASSUME NEW p \in PID, mgr'.targets[p] # None, proc'[p] = mgr'.targets[p].start
        PROVE  births'[proc'[p]].uuid = mgr'.targets[p].uuid
    <2>1. CASE mgr'.targets[p] = mgr.targets[p]
      <3>1. mgr.targets[p] \in Target BY <1>1, <2>1 DEF TypeOK, Managers
      <3>2. mgr.targets[p].start \in 1 .. Len(births)
        BY <1>0, <1>1, <2>1, <3>1, BirthTypes DEF Target, Start, PastInv
      <3>3. proc[p] = mgr.targets[p].start BY <1>0, <1>1, <2>1, <3>2 DEF History
      <3>4. births'[proc'[p]] = births[proc[p]] BY <1>0, <1>1, <2>1, <3>2, <3>3 DEF History
      <3> QED BY <1>1, <2>1, <3>3, <3>4 DEF IdentityInv
    <2>2. CASE UNCHANGED <<births, proc>> /\ mgr'.targets[p].uuid = births[proc[p]].uuid
      BY <2>2
    <2>3. ASSUME UNCHANGED <<births, proc>>, NEW k \in managed, k[1] = p,
                 mgr'.targets[p].start = k[2], mgr'.targets[p].uuid = work[k].uuid
          PROVE  births'[proc'[p]].uuid = mgr'.targets[p].uuid
      <3>1. proc[k[1]] = k[2] BY <1>1, <2>3
      <3>2. births[k[2]].uuid = work[k].uuid BY <3>1 DEF IdentityInv
      <3> QED BY <1>1, <2>3, <3>2
    <2> QED BY <1>1, <2>1, <2>2, <2>3, TargetStep
  <1>2. ASSUME NEW k \in managed'
        PROVE  /\ work'[k].uuid \in Domain
               /\ proc'[k[1]] = k[2] => births'[k[2]].uuid = work'[k].uuid
               /\ work'[k].pc = "stat" /\ proc'[k[1]] = k[2] => work'[k].pidfd = k[2]
               /\ work'[k].pc \in {"cmdline", "running"} =>
                    /\ work'[k].pidfd = k[2]
                    /\ births'[k[2]] = [pid |-> k[1], uuid |-> work'[k].uuid]
    <2>0. ASSUME k \in managed
          PROVE  /\ k \in Key /\ k[1] \in PID /\ k[2] \in 1 .. Len(births)
                 /\ births'[k[2]] = births[k[2]]
                 /\ proc'[k[1]] = k[2] => proc[k[1]] = k[2]
      <3>1. k \in Key /\ k \in begun BY <2>0 DEF TypeOK
      <3>2. k[1] \in PID /\ k[2] \in 1 .. Len(births)
        BY <1>0, <3>1, KeyParts DEF PastInv, Start
      <3> QED BY <1>0, <3>1, <3>2 DEF History
    <2>1. CASE Same(k) BY <2>0, <2>1 DEF IdentityInv, Same
    <2>2. CASE k \in managed /\ Worker(k)
      <3>1. PICK q \in {"lock", "open", "stat", "cmdline", "running", "nil", "error"},
                 fd \in Nat :
              /\ At(work'[k], q, work[k].uuid, work[k].cancel, fd)
              /\ q = "stat" => fd = proc[k[1]]
              /\ q = "cmdline" => work[k].pc = "stat" /\ proc[k[1]] = k[2] /\ fd = work[k].pidfd
              /\ q = "running" => work[k].pc = "cmdline" /\ fd = work[k].pidfd
        BY <2>0, <2>2, WorkerStep DEF Moves
      <3>2. work'[k].pc = q /\ work'[k].uuid = work[k].uuid /\ work'[k].pidfd = fd
        BY <3>1 DEF At
      <3>3. work[k].uuid \in Domain BY <2>2 DEF IdentityInv
      <3>4. CASE q = "cmdline"
        <4>1. proc[k[1]] = k[2] /\ fd = k[2] /\ births[k[2]].uuid = work[k].uuid
          BY <2>2, <3>1, <3>4 DEF IdentityInv
        <4>2. births[k[2]].pid = k[1] BY <2>0, <2>2, <4>1 DEF PastInv
        <4>3. births[k[2]] \in [pid : PID, uuid : Domain] BY <2>0, <2>2, BirthTypes
        <4>4. births[k[2]] = [pid |-> k[1], uuid |-> work[k].uuid] BY <4>1, <4>2, <4>3
        <4> QED BY <2>0, <2>2, <3>2, <3>3, <3>4, <4>1, <4>4
      <3>5. CASE q = "running"
        BY <2>0, <2>2, <3>1, <3>2, <3>3, <3>5 DEF IdentityInv
      <3>6. CASE q = "stat" BY <2>0, <2>2, <3>1, <3>2, <3>3, <3>6 DEF IdentityInv
      <3>7. CASE q \notin {"stat", "cmdline", "running"}
        BY <2>0, <2>2, <3>2, <3>3, <3>7 DEF IdentityInv
      <3> QED BY <3>4, <3>5, <3>6, <3>7
    <2>3. CASE StartWorkers /\ k \in Started
      <3>1. /\ work'[k].pc = "delay" /\ work'[k].uuid = mgr.targets[k[1]].uuid
            /\ mgr.targets[k[1]].uuid \in Domain /\ UNCHANGED <<births, proc>>
        BY <2>3, StartStep DEF At, outside
      <3>2. /\ k \in Key /\ k[1] \in PID
            /\ mgr.targets[k[1]] # None /\ mgr.targets[k[1]].start = k[2]
        BY <2>3, KeyParts DEF Started, Wanted
      <3> QED BY <3>1, <3>2 DEF IdentityInv
    <2> QED BY <2>1, <2>2, <2>3, ManagedStep
  <1> QED BY <1>1, <1>2 DEF IdentityInv

\* The targets a key is judged by stay through the reconciliation.
LEMMA UniqueStep ==
  ASSUME TypeOK, PastInv, PhaseInv, IdentityInv, UniqueInv, [Next]_vars PROVE UniqueInv'
  <1>0. managed \subseteq Key BY DEF TypeOK
  <1>1. ASSUME UNCHANGED <<mgr, managed>> PROVE UniqueInv' BY <1>1 DEF UniqueInv, Wanted
  <1>2. CASE Outside \/ CancelAll \/ (\E k \in Key : Worker(k)) \/ UNCHANGED vars
    BY <1>1, <1>2 DEF Outside, CancelAll, Worker, vars
  <1>3. CASE Resolves
    <2>0. UNCHANGED managed BY <1>3, ResolvesStep DEF WorkersAside
    <2>1. ASSUME mgr'.pc # "reconcile" PROVE UniqueInv' BY <2>0, <2>1 DEF UniqueInv
    <2>2. ASSUME NEW x \in mgr.todo, ReadStat(x) PROVE mgr'.pc # "reconcile"
      BY <2>2, ReadStatStep DEF Is
    <2>3. CASE ReadCmdline BY <2>1, <2>3, ReadCmdlineStep DEF Is
    <2>4. CASE ReadDir \/ EndResolve
      <3>1. CASE mgr'.pc = "reconcile"
        <4>1. mgr'.todo = managed /\ mgr'.outage = FALSE BY <2>4, <3>1, ReadDirStep DEF Is
        <4> QED BY <2>0, <4>1 DEF UniqueInv
      <3> QED BY <2>1, <3>1
    <2>5. CASE ReadDirFails
      <3>1. CASE mgr'.pc = "reconcile"
        <4>1. mgr'.todo = managed /\ mgr'.targets = Kept /\ mgr'.wait = mgr.wait
          BY <2>5, <3>1, ReadDirFailsStep DEF Is
        <4>2. mgr.wait = None BY <2>5, ReadDirFailsStep DEF PhaseInv
        <4>3. \A k \in managed : Kept[k[1]] # None /\ Kept[k[1]].start = k[2] BY KeptIs
        <4> QED BY <2>0, <4>1, <4>2, <4>3 DEF UniqueInv, Wanted
      <3> QED BY <2>1, <3>1
    <2>6. CASE SelectTick BY <2>1, <2>6, SelectTickStep DEF Is
    <2>7. CASE SelectDone \/ Return BY <2>1, <2>7, JumpStep DEF Is
    <2> QED BY <1>3, <2>1, <2>2, <2>3, <2>4, <2>5, <2>6, <2>7 DEF Resolves
  <1>4. ASSUME NEW k \in managed, Visit(k) PROVE UniqueInv'
    <2>0. /\ mgr.pc = "reconcile" /\ mgr.wait = None
          /\ mgr'.targets = mgr.targets /\ mgr'.outage = mgr.outage
          /\ managed' \subseteq managed
      BY <1>4, VisitStep DEF Is
    <2>1. \A j \in Key : Wanted(j)' <=> Wanted(j) BY <2>0 DEF Wanted
    <2>2. CASE ~Wanted(k) /\ managed' = managed /\ mgr'.todo = mgr.todo
      BY <1>0, <2>0, <2>1, <2>2 DEF UniqueInv
    <2>3. CASE Wanted(k) /\ mgr'.todo = mgr.todo \ {k} /\ mgr'.wait = mgr.wait
      BY <1>0, <2>0, <2>1, <2>3 DEF UniqueInv
    <2> QED BY <1>4, <2>2, <2>3, VisitStep DEF Is
  <1>5. CASE Removed
    <2>0. /\ mgr.pc = "reconcile" /\ mgr.wait \in managed /\ managed' = managed \ {mgr.wait}
          /\ mgr'.todo = mgr.todo \ {mgr.wait} /\ mgr'.wait = None
          /\ mgr'.targets = mgr.targets /\ mgr'.outage = mgr.outage
      BY <1>5, RemovedStep DEF Is
    <2>1. \A j \in Key : Wanted(j)' <=> Wanted(j) BY <2>0 DEF Wanted
    <2> QED BY <1>0, <2>0, <2>1 DEF UniqueInv
  <1>6. CASE StartWorkers
    <2>0. mgr.pc = "reconcile" /\ mgr.todo = {} /\ managed' = managed \cup Started
      BY <1>6, StartStep
    <2>1. mgr'.pc # "reconcile" BY <1>6, StartStep DEF Is
    <2>2. \A k \in managed' : k \in Key /\ Wanted(k) BY <1>0, <2>0 DEF UniqueInv, Started
    <2>3. \A j, k \in managed' : j[1] = k[1] => j = k BY <2>2, KeyParts DEF Wanted
    <2> QED BY <2>1, <2>3 DEF UniqueInv
  <1> QED BY <1>2, <1>3, <1>4, <1>5, <1>6 DEF Next, Manage, Resolves

\* Who is cancelled: the worker the manager removes, or all at the end.
LEMMA CancelStep ==
  ASSUME TypeOK, PhaseInv, IdentityInv, UniqueInv, CauseInv, [Next]_vars,
         NEW k \in managed', work'[k].cancel
  PROVE  k = mgr'.wait \/ mgr'.pc \in {"shutdown", "returned"}
  <1>0. managed \subseteq Key BY DEF TypeOK
  <1>1. ASSUME k \in managed, work[k].cancel PROVE k = mgr.wait \/ mgr.pc \in {"shutdown",
                                                                               "returned"}
    BY <1>1 DEF CauseInv
  <1>2. ASSUME k \in managed, work[k].cancel, mgr.wait = None
        PROVE  mgr.pc \in {"shutdown", "returned"}
    BY <1>0, <1>1, <1>2, KeyParts
  <1>3. CASE Outside \/ UNCHANGED vars BY <1>1, <1>3 DEF Outside, vars
  <1>4. ASSUME NEW j \in Key, Worker(j) PROVE k = mgr'.wait \/ mgr'.pc \in {"shutdown",
                                                                            "returned"}
    <2>1. UNCHANGED <<mgr, managed>> /\ \A i \in Key : i # j => work'[i] = work[i]
      BY <1>4, WorkerStep DEF Only
    <2>2. work'[j].cancel = work[j].cancel BY <1>4, WorkerStep DEF Moves, At
    <2>3. k \in managed /\ work[k].cancel BY <1>0, <2>1, <2>2
    <2> QED BY <1>1, <2>1, <2>3
  <1>5. CASE Resolves
    <2>0. k \in managed /\ work[k].cancel BY <1>5, ResolvesStep DEF WorkersAside
    <2>1. mgr.wait # None => mgr.pc = "reconcile" BY DEF PhaseInv
    <2>2. mgr.pc # "reconcile"
      BY <1>5, ReadStatStep, ReadCmdlineStep, ReadDirStep, ReadDirFailsStep, JumpStep
      DEF Resolves, SelectTick
    <2>3. mgr.pc \in {"shutdown", "returned"} BY <1>2, <2>0, <2>1, <2>2
    <2>4. SelectDone \/ Return
      BY <1>5, <2>3, ReadStatStep, ReadCmdlineStep, ReadDirStep, ReadDirFailsStep
      DEF Resolves, SelectTick
    <2> QED BY <2>4, JumpStep DEF Is
  <1>6. ASSUME NEW j \in managed, Visit(j) PROVE k = mgr'.wait
    <2>1. mgr.pc = "reconcile" /\ mgr.wait = None /\ managed' \subseteq managed
      BY <1>6, VisitStep
    <2>2. ~work[k].cancel BY <1>2, <2>1
    <2>3. CASE UNCHANGED <<managed, retired, work>> BY <2>2, <2>3
    <2>4. CASE mgr'.wait = j /\ Only(j) BY <1>0, <2>1, <2>2, <2>4 DEF Only
    <2>5. CASE Only(j) /\ managed' = managed \ {j} BY <1>0, <2>2, <2>5 DEF Only
    <2> QED BY <1>6, <2>3, <2>4, <2>5, VisitStep DEF Is
  <1>7. CASE Removed
    <2>1. managed' = managed \ {mgr.wait} /\ Only(mgr.wait) /\ mgr.pc = "reconcile"
      BY <1>7, RemovedStep
    <2>2. k \in managed /\ work[k].cancel BY <1>0, <2>1 DEF Only
    <2> QED BY <1>1, <2>1, <2>2
  <1>8. CASE StartWorkers
    <2>1. /\ mgr.pc = "reconcile" /\ mgr.wait = None /\ managed' = managed \cup Started
          /\ \A i \in Key \ Started : work'[i] = work[i]
          /\ \A i \in Started : work'[i].cancel = FALSE
      BY <1>8, StartStep DEF At
    <2>2. k \in managed /\ work[k].cancel BY <1>0, <2>1
    <2> QED BY <1>2, <2>1, <2>2
  <1>9. CASE CancelAll BY <1>9, CancelAllStep
  <1> QED BY <1>3, <1>4, <1>5, <1>6, <1>7, <1>8, <1>9 DEF Next, Manage, Resolves

\* A worker that returned nil had a reason to.
LEMMA NilStep ==
  ASSUME TypeOK, PastInv, PhaseInv, IdentityInv, UniqueInv, CauseInv, [Next]_vars,
         NEW k \in managed', work'[k].pc = "nil"
  PROVE  ctxDone' \/ work'[k].cancel \/ proc'[k[1]] # k[2]
  <1>1. ASSUME k \in managed
        PROVE  /\ k \in Key
               /\ proc'[k[1]] = k[2] => proc[k[1]] = k[2]
               /\ ctxDone => ctxDone'
    <2>1. k \in Key /\ k \in begun BY <1>1 DEF TypeOK
    <2>2. k[1] \in PID /\ k[2] \in 1 .. Len(births)
      BY <2>1, KeyParts, BirthTypes DEF PastInv, Start
    <2> QED BY <2>1, <2>2, HistoryStep DEF History
  <1>2. CASE Same(k)
    <2>1. k \in managed /\ work[k].pc = "nil" BY <1>2 DEF Same
    <2>2. ctxDone \/ work[k].cancel \/ proc[k[1]] # k[2] BY <2>1 DEF CauseInv
    <2>3. work[k].cancel => work'[k].cancel
      <3>0. k \in Key BY <1>1, <2>1
      <3>1. ASSUME NEW j \in Key, Worker(j) PROVE work'[k].cancel = work[k].cancel
        BY <3>0, <3>1, WorkerStep DEF Moves, At, Only
      <3>2. ASSUME NEW j \in managed, Visit(j), work[k].cancel PROVE work'[k].cancel
        <4>1. UNCHANGED work \/ (Only(j) /\ (work'[j].cancel \/ j \notin managed'))
          BY <3>2, VisitStep DEF At
        <4> QED BY <3>0, <3>2, <4>1 DEF Only
      <3>3. CASE Removed
        <4>1. k # mgr.wait /\ Only(mgr.wait) BY <3>3, RemovedStep
        <4> QED BY <3>0, <4>1 DEF Only
      <3>4. CASE StartWorkers
        <4>1. k \notin Started BY <2>1 DEF Started
        <4> QED BY <3>0, <3>4, <4>1, StartStep
      <3>5. CASE CancelAll BY <2>1, <3>5, CancelAllStep DEF At
      <3>6. CASE Outside \/ Resolves \/ UNCHANGED vars
        BY <3>6, ResolvesStep DEF Outside, WorkersAside, vars
      <3> QED BY <3>1, <3>2, <3>3, <3>4, <3>5, <3>6 DEF Next, Manage, Resolves
    <2> QED BY <1>1, <2>1, <2>2, <2>3
  <1>3. CASE k \in managed /\ Worker(k)
    <2>1. /\ work'[k].cancel = work[k].cancel
          /\ Cancelled(k) \/ (work[k].pc = "running" /\ proc[k[1]] # work[k].pidfd)
      BY <1>1, <1>3, WorkerStep DEF Moves, At
    <2>2. work[k].pc = "running" => work[k].pidfd = k[2] BY <1>3 DEF IdentityInv
    <2> QED BY <1>1, <1>3, <2>1, <2>2 DEF Cancelled
  <1>4. CASE StartWorkers /\ k \in Started BY <1>4, StartStep DEF At
  <1> QED BY <1>2, <1>3, <1>4, ManagedStep

\* A process is retired only when it is gone, or all ends.
LEMMA RetiredStep ==
  ASSUME TypeOK, PastInv, PhaseInv, CauseInv, [Next]_vars, NEW k \in retired'
  PROVE  ctxDone' \/ proc'[k[1]] # k[2]
  <1>0. managed \subseteq Key BY DEF TypeOK
  <1>1. ASSUME k \in begun
        PROVE  (proc'[k[1]] = k[2] => proc[k[1]] = k[2]) /\ (ctxDone => ctxDone')
    <2>1. k \in Key BY <1>1 DEF TypeOK
    <2>2. k[1] \in PID /\ k[2] \in 1 .. Len(births)
      BY <1>1, <2>1, KeyParts, BirthTypes DEF PastInv, Start
    <2> QED BY <2>2, HistoryStep DEF History
  <1>2. CASE k \in retired BY <1>1, <1>2 DEF CauseInv, TypeOK
  <1>3. ASSUME NEW j \in managed, Visit(j), k \notin retired PROVE ctxDone' \/ proc'[k[1]] # k[2]
    <2>1. k = j /\ work[j].pc = "nil" BY <1>3, VisitStep
    <2>2. mgr.pc = "reconcile" /\ mgr.wait = None BY <1>3, VisitStep
    <2>3. ~work[j].cancel BY <1>0, <2>2, KeyParts DEF CauseInv
    <2>4. ctxDone \/ proc[j[1]] # j[2] BY <2>1, <2>3 DEF CauseInv
    <2>5. j \in begun BY DEF TypeOK
    <2> QED BY <1>1, <2>1, <2>4, <2>5
  <1>4. CASE UNCHANGED retired BY <1>2, <1>4
  <1> QED BY <1>2, <1>3, <1>4, ResolvesStep
          DEF Next, Outside, Manage, Resolves, WorkersAside, Worker, Removed, StartWorkers,
              CancelAll, vars

\* After the manager returned no worker moves.
LEMMA ReturnedStep ==
  ASSUME TypeOK, PhaseInv, IdentityInv, UniqueInv, CauseInv, [Next]_vars, mgr'.pc = "returned",
         NEW k \in managed'
  PROVE  Finished(k)'
  <1>1. CASE mgr.pc = "returned"
    <2>1. \A j \in managed : Finished(j) BY <1>1 DEF CauseInv
    <2>2. CASE Same(k) BY <2>1, <2>2 DEF Same, Finished
    <2>3. CASE k \in managed /\ Worker(k)
      <3>1. k \in Key BY <2>3 DEF TypeOK
      <3> QED BY <2>1, <2>3, <3>1, WorkerStep DEF Finished
    <2>4. CASE StartWorkers BY <1>1, <2>4, StartStep
    <2> QED BY <2>2, <2>3, <2>4, ManagedStep
  <1>2. CASE mgr.pc # "returned"
    <2>1. CASE ReadDirFails
      <3>1. mgr.first BY <2>1, ReadDirFailsStep DEF Is
      <3> QED BY <2>1, <3>1 DEF PhaseInv, ReadDirFails
    <2>2. CASE SelectDone \/ Return
      <3>1. AllDone /\ WorkersAside BY <2>2, JumpStep, ResolvesStep DEF Is, Resolves
      <3> QED BY <3>1 DEF AllDone, Finished, WorkersAside
    <2>3. CASE UNCHANGED mgr BY <1>2, <2>3
    <2>4. ASSUME NEW x \in mgr.todo, ReadStat(x) PROVE FALSE
      BY <1>2, <2>4, ReadStatStep DEF Is
    <2>5. CASE ReadCmdline BY <1>2, <2>5, ReadCmdlineStep DEF Is
    <2>6. CASE ReadDir \/ EndResolve BY <1>2, <2>6, ReadDirStep DEF Is
    <2>7. CASE SelectTick BY <1>2, <2>7, SelectTickStep DEF Is
    <2>8. ASSUME NEW j \in managed, Visit(j) PROVE FALSE BY <1>2, <2>8, VisitStep DEF Is
    <2>9. CASE Removed BY <1>2, <2>9, RemovedStep DEF Is
    <2>10. CASE StartWorkers BY <1>2, <2>10, StartStep DEF Is
    <2> QED BY <2>1, <2>2, <2>3, <2>4, <2>5, <2>6, <2>7, <2>8, <2>9, <2>10
            DEF Next, Outside, Manage, Worker, CancelAll, vars
  <1> QED BY <1>1, <1>2

\* Nothing ends without cause.
LEMMA CauseStep ==
  ASSUME TypeOK, PastInv, PhaseInv, IdentityInv, UniqueInv, CauseInv, [Next]_vars PROVE CauseInv'
  BY CancelStep, NilStep, RetiredStep, ReturnedStep DEF CauseInv

\* The flags are given once; an anchor that is set stays.
LEMMA AnchorStep ==
  ASSUME TypeOK, PastInv, PhaseInv, IdentityInv, UniqueInv, AnchorInv, [Next]_vars
  PROVE  AnchorInv'
  <1>1. mgr'.flags = mgr.flags
    <2>1. ASSUME NEW x \in mgr.todo, ReadStat(x) PROVE mgr'.flags = mgr.flags
      BY <2>1, ReadStatStep DEF Is
    <2>2. CASE ReadCmdline BY <2>2, ReadCmdlineStep DEF Is
    <2>3. CASE ReadDir \/ EndResolve BY <2>3, ReadDirStep DEF Is
    <2>4. CASE ReadDirFails BY <2>4, ReadDirFailsStep DEF Is
    <2>5. CASE SelectTick BY <2>5, SelectTickStep DEF Is
    <2>6. CASE SelectDone \/ Return BY <2>6, JumpStep DEF Is
    <2>7. ASSUME NEW j \in managed, Visit(j) PROVE mgr'.flags = mgr.flags
      BY <2>7, VisitStep DEF Is
    <2>8. CASE Removed BY <2>8, RemovedStep DEF Is
    <2>9. CASE StartWorkers BY <2>9, StartStep DEF Is
    <2>10. CASE UNCHANGED mgr BY <2>10
    <2> QED BY <2>1, <2>2, <2>3, <2>4, <2>5, <2>6, <2>7, <2>8, <2>9, <2>10
            DEF Next, Outside, Manage, Worker, CancelAll, vars
  <1> SUFFICES ASSUME ~mgr.flags.regex PROVE AnchorInv' BY <1>1 DEF AnchorInv
  <1>2. ASSUME NEW p \in PID PROVE anchored[p] # 0 => anchored'[p] = anchored[p]
    <2>1. CASE UNCHANGED anchored BY <2>1
    <2>2. CASE ReadCmdline
      <3>1. anchored \in [PID -> 0 .. Len(births)] BY DEF TypeOK
      <3>2. mgr.pc = "pids" /\ mgr.pid \in PID BY <2>2, ReadCmdlineStep DEF PhaseInv
      <3>3. \/ UNCHANGED anchored
            \/ /\ anchored[mgr.pid] \in {0, mgr.start}
               /\ anchored' = [anchored EXCEPT ![mgr.pid] = mgr.start]
        BY <2>2, <3>2, ReadCmdlineStep
      <3> QED BY <3>1, <3>2, <3>3
    <2> QED BY <2>1, <2>2
        DEF Next, Outside, Manage, Worker, CancelAll, vars, ReadStat, ReadDir, EndResolve,
            ReadDirFails,
            SelectDone, SelectTick, Return, Visit, Removed, StartWorkers, ManagerStep
  <1>3. ASSUME NEW k \in begun' PROVE anchored'[k[1]] = k[2]
    <2>1. CASE k \in begun
      <3>1. k \in Key BY <2>1 DEF TypeOK
      <3>2. k[1] \in PID /\ k[2] # 0 BY <3>1, KeyParts DEF Start
      <3>3. anchored[k[1]] = k[2] BY <2>1 DEF AnchorInv
      <3> QED BY <1>2, <3>2, <3>3
    <2>2. CASE StartWorkers /\ k \in Started
      <3>1. UNCHANGED anchored BY <2>2, StartStep
      <3>2. k \in Key /\ mgr.targets[k[1]] # None /\ mgr.targets[k[1]].start = k[2]
        BY <2>2 DEF Started, Wanted
      <3> QED BY <3>1, <3>2, KeyParts DEF AnchorInv
    <2> QED BY <2>1, <2>2, BegunStep
  <1>4. ASSUME NEW p \in PID, mgr'.targets[p] # None PROVE anchored'[p] = mgr'.targets[p].start
    <2>1. CASE mgr'.targets[p] = mgr.targets[p]
      <3>1. mgr.targets[p] \in Target BY <1>4, <2>1 DEF TypeOK, Managers
      <3>2. mgr.targets[p].start # 0 BY <3>1 DEF Target, Start
      <3> QED BY <1>2, <1>4, <2>1, <3>2 DEF AnchorInv
    <2>2. CASE mgr.item # None /\ mgr'.targets[p].start = mgr.start
               /\ (mgr.pc = "pids" => anchored'[p] = mgr.start)
      BY <2>2 DEF PhaseInv
    <2> QED BY <1>4, <2>1, <2>2, TargetStep
  <1> QED BY <1>1, <1>3, <1>4 DEF AnchorInv

\* The inductive invariant holds at the start.
LEMMA InitInv == Init => IInv
  <1> SUFFICES ASSUME Init PROVE IInv OBVIOUS
  <1>1. PICK f \in Flags :
          mgr = [flags |-> f, pc |-> "pids", first |-> TRUE, outage |-> FALSE,
                 todo |-> f.pids,
                 item |-> None, pid |-> None, start |-> 0, wait |-> None, targets |-> NoTargets]
    BY DEF Init
  <1>2. f.pids \subseteq PID BY ManagerAssumption
  <1>3. NoTargets \in [PID -> Target \cup {None}] /\ \A p \in PID : NoTargets[p] = None
    BY DEF NoTargets
  <1>4. mgr \in Managers BY <1>1, <1>2, <1>3 DEF Managers
  <1>5. births = <<>> /\ Len(births) = 0 BY DEF Init
  <1>6. OutType /\ anchored \in [PID -> 0 .. Len(births)]
    <2>1. births \in Seq([pid : PID, uuid : Domain]) BY <1>5
    <2>2. proc \in [PID -> 0 .. Len(births)] /\ anchored \in [PID -> 0 .. Len(births)]
      BY <1>5 DEF Init
    <2>3. file \in [Domain -> PID \cup {None}] /\ other \subseteq PID /\ ctxDone \in BOOLEAN
      BY DEF Init
    <2>4. Len(births) <= events /\ events \in 0 .. MaxEvents
      BY <1>5, ManagerAssumption DEF Init
    <2> QED BY <2>1, <2>2, <2>3, <2>4 DEF OutType
  <1>7. WorkType
    <2>1. NoWorker \in Workers /\ NoWorker.pc = "none" BY DEF NoWorker, Workers
    <2>2. work = [k \in Key |-> NoWorker] /\ managed = {} /\ retired = {} /\ begun = {}
      BY DEF Init
    <2>3. managed = {k \in Key : work[k].pc # "none"} BY <2>1, <2>2
    <2> QED BY <2>1, <2>2, <2>3 DEF WorkType
  <1>8. TypeOK BY <1>4, <1>6, <1>7, TypeParts
  <1>9. managed = {} /\ retired = {} /\ begun = {} /\ \A p \in PID : proc[p] = 0 BY DEF Init
  <1>10. PastInv BY <1>1, <1>3, <1>9 DEF PastInv
  <1>11. PhaseInv BY <1>1, <1>2, <1>9 DEF PhaseInv
  <1>12. IdentityInv BY <1>1, <1>3, <1>9 DEF IdentityInv
  <1>13. UniqueInv BY <1>1, <1>9 DEF UniqueInv
  <1>14. CauseInv BY <1>1, <1>9 DEF CauseInv
  <1>15. AnchorInv BY <1>1, <1>3, <1>9 DEF AnchorInv
  <1> QED BY <1>8, <1>10, <1>11, <1>12, <1>13, <1>14, <1>15 DEF IInv

\* Every step keeps the inductive invariant.
LEMMA NextInv == IInv /\ [Next]_vars => IInv'
  BY TypeStep, PastStep, PhaseStep, IdentityStep, UniqueStep, CauseStep, AnchorStep DEF IInv

\* The inductive invariant holds in every reachable state.
THEOREM Invariant == Spec => []IInv
  BY InitInv, NextInv, PTL DEF Spec

\* Every variable of the manager keeps its type, and the map holds exactly
\* the workers whose result has not been received.
THEOREM TypeCorrect == Spec => []TypeOK
  <1>1. IInv => TypeOK BY DEF IInv
  <1> QED BY <1>1, Invariant, PTL

\* Wherever PIDs are reused between the reads of Resolve, OpenTarget and
\* Check, a worker that samples holds the pidfd of the selected process.
THEOREM TargetCorrect == Spec => []WatchesItsTarget
  <1>1. IInv => WatchesItsTarget
    <2> SUFFICES ASSUME IInv, NEW k \in Key, work[k].pc = "running"
                 PROVE  work[k].pidfd = k[2] /\ births[k[2]] = [pid |-> k[1],
                                                                uuid |-> work[k].uuid]
      BY DEF WatchesItsTarget
    <2>1. k \in managed BY DEF IInv, TypeOK
    <2> QED BY <2>1 DEF IInv, IdentityInv
  <1> QED BY <1>1, Invariant, PTL

\* Explicit PIDs never follow a reused PID.
THEOREM ExplicitStays == Spec => []ExplicitNeverFollows
  <1>1. IInv => ExplicitNeverFollows
    BY DEF IInv, AnchorInv, ExplicitNeverFollows
  <1> QED BY <1>1, Invariant, PTL

\* At most one worker per PID is active.
THEOREM OneWorker == Spec => []OneWorkerPerPID
  <1>1. IInv => OneWorkerPerPID
    <2> SUFFICES ASSUME IInv, NEW j \in Key, NEW k \in Key, j # k, j[1] = k[1]
                 PROVE  work[j].pc = "none" \/ work[k].pc = "none"
      BY DEF OneWorkerPerPID
    <2>1. j \notin managed \/ k \notin managed BY DEF IInv, UniqueInv
    <2> QED BY <2>1 DEF IInv, TypeOK
  <1> QED BY <1>1, Invariant, PTL

\* RunSelected returns, and closes the shared BPF objects, after its workers.
THEOREM BPFLast == Spec => []BPFOutlivesWorkers
  <1>1. IInv => BPFOutlivesWorkers
    <2> SUFFICES ASSUME IInv, mgr.pc = "returned", NEW k \in Key
                 PROVE  work[k].pc \in {"none", "nil", "error"}
      BY DEF BPFOutlivesWorkers
    <2>1. k \in managed => Finished(k) BY DEF IInv, CauseInv
    <2>2. k \notin managed => work[k].pc = "none" BY DEF IInv, TypeOK
    <2> QED BY <2>1, <2>2 DEF Finished
  <1> QED BY <1>1, Invariant, PTL

\* No process is given up while it is there, and no outage costs a worker.
THEOREM CauseCorrect == Spec => []GivenUpForCause
  <1>1. IInv => GivenUpForCause
    <2> SUFFICES ASSUME IInv PROVE GivenUpForCause OBVIOUS
    <2>1. \A k \in retired : ctxDone \/ proc[k[1]] # k[2] BY DEF IInv, CauseInv
    <2>2. ASSUME mgr.pc \in {"reconcile", "select"}, mgr.outage, NEW k \in managed
          PROVE  ~work[k].cancel
      <3>1. mgr.wait = None BY <2>2 DEF IInv, PhaseInv, UniqueInv
      <3>2. k # None BY KeyParts DEF IInv, TypeOK
      <3> QED BY <2>2, <3>1, <3>2 DEF IInv, CauseInv
    <2> QED BY <2>1, <2>2 DEF GivenUpForCause
  <1> QED BY <1>1, Invariant, PTL

=============================================================================
