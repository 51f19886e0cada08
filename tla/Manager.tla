------------------------------- MODULE Manager -------------------------------
(***************************************************************************)
(* The selection of QEMU processes (internal/selection) and the manager    *)
(* that keeps one worker per selected process (RunSelected), with the part *)
(* of a worker that attaches it: the per-PID lock, the pidfd and the check *)
(* of the identity (run in run_linux.go).  The sampling itself is module   *)
(* Watch; here a running worker just ends sometime.                        *)
(*                                                                         *)
(* A process is known by its start time, its place in births; the kernel   *)
(* never gives two processes the same PID and start time.  Every process   *)
(* is a QEMU: another program at a PID fails the reads like an empty PID.  *)
(* A domain is its UUID.  libvirt's status files may be stale.             *)
(***************************************************************************)
EXTENDS Integers, Sequences, FiniteSets

CONSTANTS
  PID, Domain,  \* PIDs the kernel may use, domains libvirt may run
  Flags,        \* what may be given with --pid and --domain-regex (which
                \* matches every domain)
  None,
  MaxEvents     \* bound on the disturbances from outside

VARIABLES
  births,   \* the processes so far, each with its PID and UUID
  proc,     \* PID -> its process, 0 for none
  file,     \* Domain -> the PID in its status file, None if not running
  other,    \* PIDs locked by another agent
  ctxDone,  \* the context of the manager is done
  events,   \* disturbances so far
  anchored, \* PID -> start time the selector keeps, 0 for none
  mgr,      \* the manager
  managed,  \* keys of the map workers
  retired,  \* keys of the map retired
  work,     \* key -> the goroutine of its worker
  begun     \* every key a worker was started for (history)

outside == <<births, proc, file, other, ctxDone, events>>
vars == <<outside, anchored, mgr, managed, retired, work, begun>>

Start == 1 .. MaxEvents
Key == PID \X Start
Target == [start : Start, uuid : Domain]

ASSUME ManagerAssumption ==
  /\ IsFiniteSet(PID) /\ IsFiniteSet(Domain) /\ MaxEvents \in Nat
  /\ Flags \subseteq [pids : SUBSET PID, regex : BOOLEAN]
  /\ None \notin PID \cup Domain \cup Key \cup Target

Managers ==
  [flags : Flags,
   pc : {"pids", "domains", "reconcile", "select", "shutdown", "returned"},
   first : BOOLEAN, outage : BOOLEAN, todo : SUBSET (PID \cup Domain \cup Key),
   item : PID \cup Domain \cup {None}, pid : PID \cup {None}, start : Nat,
   wait : Key \cup {None}, targets : [PID -> Target \cup {None}]]

Workers ==
  [pc : {"none", "delay", "lock", "open", "stat", "cmdline", "running", "nil", "error"},
   uuid : Domain \cup {None}, cancel : BOOLEAN, pidfd : Nat]

NoWorker == [pc |-> "none", uuid |-> None, cancel |-> FALSE, pidfd |-> 0]
NoTargets == [p \in PID |-> None]

Init ==
  /\ births = <<>> /\ proc = [p \in PID |-> 0]
  /\ file = [d \in Domain |-> None] /\ other = {} /\ ctxDone = FALSE /\ events = 0
  /\ anchored = [p \in PID |-> 0]
  /\ \E f \in Flags :
       mgr = [flags |-> f, pc |-> "pids", first |-> TRUE, outage |-> FALSE, todo |-> f.pids,
              item |-> None, pid |-> None, start |-> 0, wait |-> None, targets |-> NoTargets]
  /\ managed = {} /\ retired = {} /\ begun = {}
  /\ work = [k \in Key |-> NoWorker]

-----------------------------------------------------------------------------
(* Outside: processes, libvirt, other agents, the signal to stop. *)

Event == events < MaxEvents /\ events' = events + 1

\* libvirt runs one process of a domain at a time.
Born(p, d) ==
  /\ proc[p] = 0 /\ Event
  /\ \A q \in PID : proc[q] # 0 => births[proc[q]].uuid # d
  /\ births' = Append(births, [pid |-> p, uuid |-> d])
  /\ proc' = [proc EXCEPT ![p] = Len(births')]
  /\ UNCHANGED <<file, other, ctxDone>>

Dies(p) ==
  /\ proc[p] # 0
  /\ proc' = [proc EXCEPT ![p] = 0]
  /\ UNCHANGED <<births, file, other, ctxDone, events>>

\* libvirt writes the status of a domain it has just started, or removes it.
WriteStatus(d, p) ==
  /\ proc[p] # 0 /\ births[proc[p]].uuid = d /\ file[d] # p
  /\ file' = [file EXCEPT ![d] = p]
  /\ UNCHANGED <<births, proc, other, ctxDone, events>>

RemoveStatus(d) ==
  /\ file[d] # None /\ Event
  /\ file' = [file EXCEPT ![d] = None]
  /\ UNCHANGED <<births, proc, other, ctxDone>>

OtherAgent(p) ==
  /\ \/ /\ p \notin other /\ Event
        /\ \A k \in Key : k[1] = p => work[k].pc \notin {"open", "stat", "cmdline", "running"}
        /\ other' = other \cup {p}
     \/ /\ p \in other
        /\ other' = other \ {p}
        /\ UNCHANGED events
  /\ UNCHANGED <<births, proc, file, ctxDone>>

Stop ==
  /\ ~ctxDone
  /\ ctxDone' = TRUE
  /\ UNCHANGED <<births, proc, file, other, events>>

Outside ==
  /\ \/ \E p \in PID : Dies(p) \/ OtherAgent(p) \/ \E d \in Domain : Born(p, d) \/ WriteStatus(d, p)
     \/ \E d \in Domain : RemoveStatus(d)
     \/ Stop
  /\ UNCHANGED <<anchored, mgr, managed, retired, work, begun>>

-----------------------------------------------------------------------------
(* Resolve.  process reads the start time and then the UUID of a PID: in
   between the process may have been replaced. *)

ManagerStep(m) ==
  /\ mgr' = m
  /\ UNCHANGED <<outside, anchored, managed, retired, work, begun>>

ReadStat(x) ==
  /\ mgr.pc \in {"pids", "domains"} /\ mgr.item = None /\ x \in mgr.todo
  /\ LET p == IF mgr.pc = "pids" THEN x ELSE file[x] IN
     ManagerStep(
       IF p = None \/ proc[p] = 0 THEN [mgr EXCEPT !.todo = @ \ {x}]
       ELSE [mgr EXCEPT !.item = x, !.pid = p, !.start = proc[p]])

\* Mutant of IsAnchored: an explicit PID follows whatever process has it.
AnyProcess(p, start) == TRUE

\* An explicit PID stands for the process it named first.
IsAnchored(p, start) == anchored[p] \in {0, start}

ReadCmdline ==
  /\ mgr.item # None
  /\ LET p      == mgr.pid
         uuid   == births[proc[p]].uuid
         accept == /\ proc[p] # 0
                   /\ IF mgr.pc = "pids" THEN IsAnchored(p, mgr.start) ELSE uuid = mgr.item
     IN
     /\ mgr' = [mgr EXCEPT !.todo = @ \ {mgr.item}, !.item = None, !.pid = None, !.start = 0,
                           !.targets[p] = IF accept THEN [start |-> mgr.start, uuid |-> uuid] ELSE @]
     /\ anchored' = IF accept /\ mgr.pc = "pids" THEN [anchored EXCEPT ![p] = mgr.start]
                    ELSE anchored
  /\ UNCHANGED <<outside, managed, retired, work, begun>>

Resolved(targets, outage) ==
  [mgr EXCEPT !.pc = "reconcile", !.todo = managed, !.targets = targets,
              !.outage = outage, !.first = FALSE]

ReadDir ==
  /\ mgr.pc = "pids" /\ mgr.item = None /\ mgr.todo = {}
  /\ ManagerStep(
       IF mgr.flags.regex THEN [mgr EXCEPT !.pc = "domains", !.todo = {d \in Domain : file[d] # None}]
       ELSE Resolved(mgr.targets, FALSE))

EndResolve ==
  /\ mgr.pc = "domains" /\ mgr.item = None /\ mgr.todo = {}
  /\ ManagerStep(Resolved(mgr.targets, FALSE))

\* The targets of the workers there are.
Kept ==
  [p \in PID |-> IF \E k \in managed : k[1] = p
                   THEN LET k == CHOOSE k \in managed : k[1] = p
                        IN [start |-> k[2], uuid |-> work[k].uuid]
                   ELSE None]

\* The directory cannot be read: fatal at first, later the workers are kept.
ReadDirFails ==
  /\ mgr.flags.regex /\ mgr.pc = "pids" /\ mgr.item = None /\ mgr.todo = {} /\ Event
  /\ mgr' = IF mgr.first THEN [mgr EXCEPT !.pc = "returned"] ELSE Resolved(Kept, TRUE)
  /\ UNCHANGED <<births, proc, file, other, ctxDone, anchored, managed, retired, work, begun>>

-----------------------------------------------------------------------------
(* One round of the manager. *)

Wanted(k) == mgr.targets[k[1]] # None /\ mgr.targets[k[1]].start = k[2]

Finished(k) == work[k].pc \in {"nil", "error"}

\* The channel of k is received from and k deleted from the map.
Forget(k) ==
  /\ managed' = managed \ {k}
  /\ work' = [work EXCEPT ![k] = NoWorker]

\* Mutants of Drain: the worker stays in the map; a failed one is retired.
DrainKeeps(k) ==
  /\ Finished(k)
  /\ work' = [work EXCEPT ![k] = NoWorker]
  /\ retired' = IF work[k].pc = "nil" THEN retired \cup {k} ELSE retired
  /\ UNCHANGED managed

DrainRetires(k) == Finished(k) /\ Forget(k) /\ retired' = retired \cup {k}

\* A wanted worker has stopped: for good if it returned nil.
Drain(k) ==
  /\ Finished(k)
  /\ Forget(k)
  /\ retired' = IF work[k].pc = "nil" THEN retired \cup {k} ELSE retired

Visit(k) ==
  /\ mgr.pc = "reconcile" /\ mgr.wait = None /\ k \in mgr.todo
  /\ \/ /\ ~Wanted(k)
        /\ work' = [work EXCEPT ![k].cancel = TRUE]
        /\ mgr' = [mgr EXCEPT !.wait = k]
        /\ UNCHANGED <<managed, retired>>
     \/ /\ Wanted(k)
        /\ IF Finished(k) THEN Drain(k) ELSE UNCHANGED <<managed, work, retired>>
        /\ mgr' = [mgr EXCEPT !.todo = @ \ {k}]
  /\ UNCHANGED <<outside, anchored, begun>>

\* Mutant of Removed: the manager does not wait for the worker it removes.
RemovedAtOnce ==
  /\ mgr.wait # None
  /\ managed' = managed \ {mgr.wait}
  /\ mgr' = [mgr EXCEPT !.todo = @ \ {mgr.wait}, !.wait = None]
  /\ UNCHANGED <<outside, anchored, retired, work, begun>>

Removed ==
  /\ mgr.wait # None /\ Finished(mgr.wait)
  /\ Forget(mgr.wait)
  /\ mgr' = [mgr EXCEPT !.todo = @ \ {mgr.wait}, !.wait = None]
  /\ UNCHANGED <<outside, anchored, retired, begun>>

StartWorkers ==
  /\ mgr.pc = "reconcile" /\ mgr.wait = None /\ mgr.todo = {}
  /\ LET new == {k \in Key : Wanted(k)} \ (managed \cup retired) IN
     /\ managed' = managed \cup new
     /\ begun' = begun \cup new
     /\ work' = [k \in Key |->
          IF k \in new THEN [NoWorker EXCEPT !.pc = "delay", !.uuid = mgr.targets[k[1]].uuid]
          ELSE work[k]]
  /\ mgr' \in {[mgr EXCEPT !.pc = p] : p \in {"select", "shutdown"}} \* the log may have failed
  /\ UNCHANGED <<outside, anchored, retired>>

SelectDone ==
  /\ mgr.pc = "select" /\ ctxDone
  /\ ManagerStep([mgr EXCEPT !.pc = "shutdown"])

SelectTick ==
  /\ mgr.pc = "select"
  /\ ManagerStep([mgr EXCEPT !.pc = "pids", !.todo = mgr.flags.pids, !.targets = NoTargets])

\* The deferred function cancels every worker and waits for all of them.
CancelAll ==
  /\ mgr.pc = "shutdown"
  /\ \E k \in managed : ~work[k].cancel
  /\ work' = [k \in Key |-> IF k \in managed THEN [work[k] EXCEPT !.cancel = TRUE] ELSE work[k]]
  /\ UNCHANGED <<outside, anchored, mgr, managed, retired, begun>>

\* Mutant of AllDone: the workers are cancelled and not waited for.
NoneDone == TRUE

AllDone == \A k \in managed : Finished(k)

Return ==
  /\ mgr.pc = "shutdown" /\ \A k \in managed : work[k].cancel
  /\ AllDone
  /\ ManagerStep([mgr EXCEPT !.pc = "returned"])

-----------------------------------------------------------------------------
(* The worker of key k. *)

Cancelled(k) == work[k].cancel \/ ctxDone

Goto(k, pc) == work' = [work EXCEPT ![k].pc = pc]

Delay(k) ==
  /\ work[k].pc = "delay"
  /\ (Cancelled(k) /\ Goto(k, "nil")) \/ Goto(k, "lock")
  /\ UNCHANGED outside

\* The lock of the PID is held from here to the end of the worker.
Lock(k) ==
  /\ work[k].pc = "lock"
  /\ Goto(k, IF /\ k[1] \notin other
                /\ \A j \in Key : j[1] = k[1] =>
                     work[j].pc \notin {"open", "stat", "cmdline", "running"}
             THEN "open" ELSE "error")
  /\ UNCHANGED outside

OpenTarget(k) ==
  /\ work[k].pc = "open"
  /\ work' = [work EXCEPT ![k].pidfd = proc[k[1]],
                          ![k].pc = IF proc[k[1]] = 0 THEN "error" ELSE "stat"]
  /\ UNCHANGED outside

\* Mutant of CheckStat: the start time is not compared.
CheckNothing(k) ==
  /\ work[k].pc = "stat"
  /\ Goto(k, IF proc[k[1]] # 0 THEN "cmdline" ELSE "error")
  /\ UNCHANGED outside

\* Selector.Check reads the start time and then the UUID again.
CheckStat(k) ==
  /\ work[k].pc = "stat"
  /\ Goto(k, IF proc[k[1]] = k[2] THEN "cmdline" ELSE "error")
  /\ UNCHANGED outside

CheckCmdline(k) ==
  /\ work[k].pc = "cmdline"
  /\ Goto(k, IF proc[k[1]] # 0 /\ births[proc[k[1]]].uuid = work[k].uuid THEN "running" ELSE "error")
  /\ UNCHANGED outside

\* The run of module Watch or Batched is over.
EndRun(k) ==
  /\ work[k].pc = "running"
  /\ \/ /\ Cancelled(k) \/ proc[k[1]] # work[k].pidfd
        /\ \E o \in {"nil", "error"} : Goto(k, o)
        /\ UNCHANGED outside
     \/ /\ Event /\ Goto(k, "error")
        /\ UNCHANGED <<births, proc, file, other, ctxDone>>

Worker(k) ==
  /\ \/ Delay(k) \/ Lock(k) \/ OpenTarget(k) \/ CheckStat(k) \/ CheckCmdline(k)
     \/ EndRun(k)
  /\ UNCHANGED <<anchored, mgr, managed, retired, begun>>

-----------------------------------------------------------------------------

Manage ==
  \/ \E x \in mgr.todo : ReadStat(x)
  \/ ReadCmdline \/ ReadDir \/ EndResolve
  \/ \E k \in managed : Visit(k)
  \/ Removed \/ StartWorkers \/ SelectDone \/ SelectTick \/ CancelAll \/ Return

Next ==
  \/ Outside
  \/ Manage
  \/ ReadDirFails
  \/ \E k \in Key : Worker(k)

Spec == Init /\ [][Next]_vars

\* The manager and each worker run: the ticker fires, no call blocks, and
\* the loops of the workers look at their context and their pidfd.  When
\* the ticker and a done context are ready, select takes either one fairly.
FairSpec ==
  /\ Spec
  /\ WF_vars(Manage) /\ SF_vars(SelectDone)
  /\ \A k \in Key : WF_vars(Worker(k))

-----------------------------------------------------------------------------
\* Every variable has its type; the map holds exactly the workers whose
\* result has not been received.
TypeOK ==
  /\ births \in Seq([pid : PID, uuid : Domain]) /\ Len(births) <= events
  /\ proc \in [PID -> 0 .. Len(births)]
  /\ file \in [Domain -> PID \cup {None}]
  /\ other \subseteq PID /\ ctxDone \in BOOLEAN /\ events \in 0 .. MaxEvents
  /\ anchored \in [PID -> 0 .. Len(births)]
  /\ mgr \in Managers
  /\ managed \subseteq begun /\ retired \subseteq begun /\ begun \subseteq Key
  /\ work \in [Key -> Workers]
  /\ managed = {k \in Key : work[k].pc # "none"}

\* A worker that samples holds the pidfd of the very process that was
\* selected, and that process has the selected UUID, although PIDs are
\* reused between every two reads (Selector.Check after OpenTarget).
WatchesItsTarget ==
  \A k \in Key : work[k].pc = "running" =>
    /\ work[k].pidfd = k[2]
    /\ births[k[2]] = [pid |-> k[1], uuid |-> work[k].uuid]

\* Without --domain-regex the workers of a PID are all for one process:
\* "Explicit PIDs never follow a reused PID" (README).
ExplicitNeverFollows ==
  ~mgr.flags.regex => \A j, k \in begun : j[1] = k[1] => j[2] = k[2]

\* No two workers of one manager are ever active for one PID, so a worker
\* is refused its lock only by another agent.
OneWorkerPerPID ==
  \A j, k \in Key : j # k /\ j[1] = k[1] =>
    work[j].pc \in {"none", "nil", "error"} \/ work[k].pc \in {"none", "nil", "error"}

\* Once RunSelected has returned, and closed the shared BPF objects, no
\* worker is left that could use them.
BPFOutlivesWorkers ==
  mgr.pc = "returned" => \A k \in Key : work[k].pc \in {"none", "nil", "error"}

\* No VM is given up without cause: a process is retired only when it has
\* exited (or all ends), whatever its worker failed of, and while discovery
\* is unavailable the targets rebuilt from the workers cost none its worker.
GivenUpForCause ==
  /\ \A k \in retired : ctxDone \/ proc[k[1]] # k[2]
  /\ mgr.pc \in {"reconcile", "select"} /\ mgr.outage => \A k \in managed : ~work[k].cancel

\* A done context ends the manager, whatever it is waiting for.
ShutdownEnds == ctxDone ~> mgr.pc = "returned"

\* Once the disturbances are over, every process that its domain's status
\* file names has a running worker, however often it was restarted before.
FollowsRestarts ==
  <>[](\/ ctxDone \/ mgr.pc \in {"shutdown", "returned"} \/ ~mgr.flags.regex
       \/ \A d \in Domain : \A p \in PID \ other :
            file[d] = p /\ proc[p] # 0 /\ births[proc[p]].uuid = d
              => work[<<p, proc[p]>>].pc = "running")

==============================================================================
