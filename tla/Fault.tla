-------------------------------- MODULE Fault --------------------------------
(***************************************************************************)
(* Fault injection: the kernel module vhost_fault.c, which drops wakeups   *)
(* of one vhost TX queue during a window, and the controller Run of        *)
(* internal/fault/run_linux.go, which loads it, watches the queue and      *)
(* recovers it.                                                            *)
(*                                                                         *)
(* Around them, external: the guest, which notifies only when the vhost    *)
(* worker asked for it, the worker, which drains the queue and looks again *)
(* before it sleeps, and a waiter address that another device may reuse    *)
(* once nothing holds the vhost file.  The code does not rely on wakeups   *)
(* of one waiter being serialised, so handlers of several CPUs overlap.    *)
(***************************************************************************)
EXTENDS Integers, FiniteSets

CONSTANTS
  CPU,               \* CPUs a wakeup may run on
  Delay, Window,     \* delay_ms and window_ms, in ticks of the clock
  Drops,             \* max_drops
  RecoverAfter,      \* Config.RecoverAfter, 0 for never
  LoadBy,            \* bound: a module is loaded and armed by this time
  MaxClock,          \* bound on the clock
  MaxRuns            \* bound on the runs of the controller

\* Config.validate and the checks of fault_init; the clock covers a whole run.
ASSUME FaultAssumption ==
  /\ {Delay, RecoverAfter, LoadBy, MaxRuns} \subseteq Nat
  /\ {Window, Drops} \subseteq Nat \ {0}
  /\ IsFiniteSet(CPU)
  /\ MaxClock \in Nat /\ MaxClock >= LoadBy + Delay + Window + RecoverAfter

VARIABLES
  clock,   \* CLOCK_MONOTONIC
  kern,    \* the kernel module
  gate,    \* CPU -> the wakeup it carries out
  dropped, \* the module's counter of dropped wakeups
  lost,    \* wakeups that were in fact suppressed since the load
  ctl,     \* the controller
  queue,   \* the TX queue and the vhost worker that serves it
  qemu,    \* QEMU is alive
  waiter,  \* the device that owns the waiter address the module matches
  runs     \* how many runs of the controller have begun

vars == <<clock, kern, gate, dropped, lost, ctl, queue, qemu, waiter, runs>>

Device == {"target", "other"}
Results == {"none", "ok", "error", "not_injected"}

Kernels ==
  [module : {"absent", "live", "exiting", "leaving"}, probe : BOOLEAN, active : BOOLEAN,
   work : {"idle", "scheduled", "running"}, pinned : BOOLEAN,
   starts : Nat, ends : Nat]

Wakeups == [at : {"idle", "wakeup", "gate"}, dev : Device, count : Nat]

Controllers ==
  [pc : {"start", "load", "arm", "loop", "stats", "unload", "deleting", "check", "defer",
         "recover", "ended", "killed"},
   cleanup : BOOLEAN, loaded : BOOLEAN, recovered : BOOLEAN, baseline : BOOLEAN,
   seen : Nat, raced : BOOLEAN, windowEnd : Nat, now : Nat, dup : BOOLEAN, result : Results]

Queues ==
  [backlog : BOOLEAN, notify : BOOLEAN, worker : {"asleep", "running", "recheck"},
   work : BOOLEAN, moved : BOOLEAN]

NoModule ==
  [module |-> "absent", probe |-> FALSE, active |-> FALSE, work |-> "idle",
   pinned |-> FALSE, starts |-> 0, ends |-> 0]

IdleCPU == [at |-> "idle", dev |-> "target", count |-> 0]

FreshRun ==
  [pc |-> "start", cleanup |-> FALSE, loaded |-> FALSE, recovered |-> FALSE,
   baseline |-> FALSE, seen |-> 0, raced |-> FALSE, windowEnd |-> 0, now |-> 0,
   dup |-> FALSE, result |-> "none"]

Init ==
  /\ clock = 0 /\ dropped = 0 /\ lost = 0 /\ runs = 0
  /\ kern = NoModule
  /\ gate = [c \in CPU |-> IdleCPU]
  /\ ctl = [FreshRun EXCEPT !.pc = "ended"]
  /\ queue = [backlog |-> FALSE, notify |-> TRUE, worker |-> "asleep",
              work |-> FALSE, moved |-> FALSE]
  /\ qemu = TRUE /\ waiter = "target"

-----------------------------------------------------------------------------
(* Guest, vhost worker and time (external). *)

Tick ==
  /\ clock < MaxClock
  /\ ctl.pc \in {"load", "arm"} => clock < LoadBy
  /\ clock' = clock + 1
  /\ UNCHANGED <<kern, gate, dropped, lost, ctl, queue, qemu, waiter, runs>>

\* A write of the eventfd starts a wakeup of the waiter on CPU c.
Signal(c, dev) ==
  /\ gate[c].at = "idle"
  /\ gate' = [gate EXCEPT ![c] = [at |-> "wakeup", dev |-> dev, count |-> 0]]

\* The guest publishes buffers and notifies if asked to; with event indices
\* it will not notify again before the worker asks anew.
Publish ==
  /\ qemu
  /\ \/ /\ ~queue.notify
        /\ queue' = [queue EXCEPT !.backlog = TRUE]
        /\ UNCHANGED gate
     \/ /\ queue.notify
        /\ \E c \in CPU : Signal(c, "target")
        /\ \E again \in BOOLEAN :
             queue' = [queue EXCEPT !.backlog = TRUE, !.notify = again]
  /\ UNCHANGED <<clock, kern, dropped, lost, ctl, qemu, waiter, runs>>

\* The worker: starts without notifications, drains the queue, asks for
\* notifications and looks once more before it sleeps.
Work ==
  /\ qemu
  /\ \/ /\ queue.worker = "asleep" /\ queue.work
        /\ queue' = [queue EXCEPT !.worker = "running", !.work = FALSE, !.notify = FALSE]
     \/ /\ queue.worker = "running" /\ queue.backlog
        /\ queue' = [queue EXCEPT !.backlog = FALSE, !.moved = TRUE]
     \/ /\ queue.worker = "running" /\ ~queue.backlog
        /\ queue' = [queue EXCEPT !.worker = "recheck", !.notify = TRUE]
     \/ /\ queue.worker = "recheck"
        /\ queue' = IF queue.backlog
                      THEN [queue EXCEPT !.worker = "running", !.notify = FALSE]
                      ELSE [queue EXCEPT !.worker = "asleep"]
  /\ UNCHANGED <<clock, kern, gate, dropped, lost, ctl, qemu, waiter, runs>>

QemuExits ==
  /\ qemu
  /\ qemu' = FALSE
  /\ UNCHANGED <<clock, kern, gate, dropped, lost, ctl, queue, waiter, runs>>

\* Nothing holds the vhost file any more: it is released, which waits for
\* its wakeups, and another device gets the memory of the waiter.
Reuse ==
  /\ waiter = "target" /\ ~qemu /\ ~kern.pinned /\ ~ctl.dup
  /\ \A c \in CPU : gate[c].at = "idle"
  /\ waiter' = "other"
  /\ UNCHANGED <<clock, kern, gate, dropped, lost, ctl, queue, qemu, runs>>

OtherSignal ==
  /\ waiter = "other"
  /\ \E c \in CPU : Signal(c, "other")
  /\ UNCHANGED <<clock, kern, dropped, lost, ctl, queue, qemu, waiter, runs>>

-----------------------------------------------------------------------------
(* The kernel module. *)

InWindow == kern.starts <= clock /\ clock < kern.ends

\* The wakeup reaches the worker, or is suppressed by a zero poll key.
Finish(c, suppressed) ==
  /\ gate' = [gate EXCEPT ![c] = IdleCPU]
  /\ lost' = IF suppressed THEN lost + 1 ELSE lost
  /\ queue' = IF suppressed \/ gate[c].dev = "other" THEN queue
              ELSE [queue EXCEPT !.work = TRUE]

\* vhost_poll_wakeup is entered: the probe fires if it is registered.  A
\* wakeup of the window is counted and the drop counter read.
Wakeup(c) ==
  /\ gate[c].at = "wakeup"
  /\ IF kern.probe /\ InWindow
       THEN /\ gate' = [gate EXCEPT ![c].at = "gate", ![c].count = dropped]
            /\ UNCHANGED <<lost, queue>>
       ELSE Finish(c, FALSE)
  /\ UNCHANGED <<clock, kern, dropped, ctl, qemu, waiter, runs>>

\* Mutant of CompareAndSwap: the counter is written without comparing it.
WriteCounter(c) ==
  /\ gate[c].at = "gate"
  /\ IF gate[c].count >= Drops
       THEN Finish(c, FALSE) /\ UNCHANGED dropped
       ELSE dropped' = gate[c].count + 1 /\ Finish(c, TRUE)
  /\ UNCHANGED <<clock, kern, ctl, qemu, waiter, runs>>

\* One pass of the compare-and-exchange loop.
CompareAndSwap(c) ==
  /\ gate[c].at = "gate"
  /\ \/ /\ gate[c].count >= Drops
        /\ Finish(c, FALSE)
        /\ UNCHANGED dropped
     \/ /\ gate[c].count < Drops /\ dropped = gate[c].count
        /\ dropped' = dropped + 1
        /\ Finish(c, TRUE)
     \/ /\ gate[c].count < Drops /\ dropped # gate[c].count
        /\ gate' = [gate EXCEPT ![c].count = dropped]
        /\ UNCHANGED <<dropped, lost, queue>>
  /\ UNCHANGED <<clock, kern, ctl, qemu, waiter, runs>>

\* unregister_kprobe returns once every handler in flight is over.
HandlersOver == \A c \in CPU : gate[c].at # "gate"

KernelStep(k) ==
  /\ kern' = k
  /\ UNCHANGED <<clock, gate, dropped, lost, ctl, queue, qemu, waiter, runs>>

\* The delayed work fires delay_ms + window_ms after the load.
DisarmBegins ==
  /\ kern.work = "scheduled" /\ clock >= kern.ends
  /\ KernelStep([kern EXCEPT !.work = "running", !.probe = FALSE])

DisarmEnds ==
  /\ kern.work = "running" /\ HandlersOver
  /\ KernelStep([kern EXCEPT !.work = "idle", !.active = FALSE])

\* Mutant of ExitBegins: fault_exit does not cancel the delayed work.
ExitBeginsUncancelled ==
  /\ kern.module = "exiting"
  /\ KernelStep([kern EXCEPT !.module = "leaving", !.probe = @ /\ ~kern.active])

\* fault_exit dequeues the delayed work, or waits until it is over, and
\* unregisters the probe unless the work did.
ExitBegins ==
  /\ kern.module = "exiting" /\ kern.work # "running"
  /\ KernelStep([kern EXCEPT !.module = "leaving", !.work = "idle",
                             !.probe = @ /\ ~kern.active])

\* The unregistration is over, the file is put and the module is gone.
ExitEnds ==
  /\ kern.module = "leaving" /\ (kern.active => HandlersOver)
  /\ KernelStep([kern EXCEPT !.module = "absent", !.active = FALSE, !.pinned = FALSE])

Module(pinned, work) ==
  [module |-> "live", probe |-> TRUE, active |-> TRUE, work |-> work,
   pinned |-> pinned, starts |-> clock + Delay, ends |-> clock + Delay + Window]

\* Mutants of Loaded: the file is not pinned, the disarm is not scheduled.
LoadedUnpinned == Module(FALSE, "scheduled")

LoadedUnscheduled == Module(TRUE, "idle")

\* What fault_init leaves behind when it succeeds; otherwise it undoes all.
Loaded == Module(TRUE, "scheduled")

-----------------------------------------------------------------------------
(* The controller. *)

ControllerStep(c) ==
  /\ ctl' = c
  /\ UNCHANGED <<clock, kern, gate, dropped, lost, queue, qemu, waiter, runs>>

\* Return(r) of the function body: the deferred functions are still to run.
Return(c, r) == [c EXCEPT !.pc = "defer", !.result = r]

\* The run is over: the duplicate of the vhost FD and the lock are closed.
End(c, r) == [c EXCEPT !.pc = "ended", !.dup = FALSE, !.result = r]

\* The Host lock admits one controller at a time.
Begin ==
  /\ ctl.pc \in {"ended", "killed"} /\ runs < MaxRuns
  /\ runs' = runs + 1
  /\ \E cleanup \in BOOLEAN :
       ctl' = [FreshRun EXCEPT !.pc = IF cleanup THEN "unload" ELSE "start",
                               !.cleanup = cleanup]
  /\ UNCHANGED <<clock, kern, gate, dropped, lost, queue, qemu, waiter>>

\* From the check for a loaded module to the snapshot of the queue; any of
\* the steps may fail.
Prepare ==
  /\ ctl.pc = "start"
  /\ \/ ControllerStep(End(ctl, "error"))
     \/ /\ kern.module = "absent" /\ qemu /\ waiter = "target" /\ clock <= LoadBy
        /\ ControllerStep([ctl EXCEPT !.pc = "load", !.dup = TRUE])

\* FinitModule.
Load ==
  /\ ctl.pc = "load"
  /\ \/ /\ ctl' = End(ctl, "error")
        /\ UNCHANGED <<kern, dropped, lost>>
     \/ /\ kern.module = "absent"
        /\ kern' = Loaded /\ dropped' = 0 /\ lost' = 0
        /\ ctl' = [ctl EXCEPT !.pc = "arm", !.loaded = TRUE]
  /\ UNCHANGED <<clock, gate, queue, qemu, waiter, runs>>

\* Mutant of Arm: the end of the window does not count the delay.
ArmEarly ==
  /\ ctl.pc = "arm"
  /\ ControllerStep([ctl EXCEPT !.pc = "loop", !.windowEnd = clock + Window])

Arm ==
  /\ ctl.pc = "arm"
  /\ ControllerStep([ctl EXCEPT !.pc = "loop", !.windowEnd = clock + Delay + Window])

\* One round of the loop: ctx is done, or a tick arrived.
Loop ==
  /\ ctl.pc = "loop"
  /\ \/ ControllerStep(Return(ctl, "ok"))
     \/ ~qemu /\ ControllerStep(Return(ctl, "error"))
     \/ /\ qemu
        /\ ControllerStep([ctl EXCEPT !.now = clock,
             !.pc = IF ctl.loaded /\ clock >= ctl.windowEnd THEN "stats" ELSE "check"])

\* moduleStats.  raced is history: a handler that is in flight has been let
\* through in the window but may count its drop only after the counter is read.
ReadStats ==
  /\ ctl.pc = "stats"
  /\ \/ ControllerStep(Return(ctl, "error"))
     \/ ControllerStep([ctl EXCEPT !.pc = "unload", !.seen = dropped,
                                   !.raced = ~HandlersOver])

\* unload retries while the module is busy and gives up after 100 times.
DeleteModule ==
  /\ ctl.pc = "unload" /\ kern.module = "live"
  /\ kern' = [kern EXCEPT !.module = "exiting"]
  /\ ctl' = [ctl EXCEPT !.pc = "deleting"]
  /\ UNCHANGED <<clock, gate, dropped, lost, queue, qemu, waiter, runs>>

UnloadFails ==
  /\ ctl.pc = "unload" /\ kern.module = "live"
  /\ ControllerStep(IF ctl.cleanup \/ ctl.result # "none" THEN End(ctl, "error")
                    ELSE Return(ctl, "error"))

\* unload returned nil, also when there was no module.
IsUnloaded == ctl.pc \in {"unload", "deleting"} /\ kern.module = "absent"

\* At the end of the window: judge the experiment, or read the baseline.
Disarmed ==
  /\ IsUnloaded /\ ~ctl.cleanup /\ ctl.result = "none"
  /\ LET c == [ctl EXCEPT !.loaded = FALSE] IN
     \/ /\ ctl.seen = 0
        /\ ctl' = Return(c, "not_injected")
        /\ UNCHANGED queue
     \/ /\ ctl.seen > 0
        /\ ctl' = Return(c, "error")
        /\ UNCHANGED queue
     \/ /\ ctl.seen > 0
        /\ ctl' = [c EXCEPT !.pc = "check", !.baseline = TRUE]
        /\ queue' = [queue EXCEPT !.moved = FALSE]
  /\ UNCHANGED <<clock, kern, gate, dropped, lost, qemu, waiter, runs>>

\* used differs from the baseline.
Progress == queue.moved

\* Mutant of Deadline: the deadline is only kept while the module is loaded.
DeadlineWhileLoaded ==
  /\ ctl.loaded /\ RecoverAfter > 0
  /\ ctl.now >= ctl.windowEnd + RecoverAfter

Deadline ==
  /\ ~ctl.loaded /\ RecoverAfter > 0
  /\ ctl.now >= ctl.windowEnd + RecoverAfter

\* The rest of the round.
Check ==
  /\ ctl.pc = "check"
  /\ \/ ctl.baseline /\ ControllerStep(Return(ctl, "error"))
     \/ ctl.baseline /\ Progress /\ ControllerStep(Return([ctl EXCEPT !.recovered = TRUE], "ok"))
     \/ /\ ~(ctl.baseline /\ Progress)
        /\ ControllerStep(IF Deadline THEN Return(ctl, "ok") ELSE [ctl EXCEPT !.pc = "loop"])

\* Mutant of Defer: the kick is not written when the module is gone already.
DeferWithoutKick ==
  /\ ctl.pc = "defer"
  /\ ControllerStep(IF ctl.loaded THEN [ctl EXCEPT !.pc = "unload"] ELSE End(ctl, ctl.result))

\* The deferred cleanup: unload first, so that the kick cannot be dropped.
Defer ==
  /\ ctl.pc = "defer"
  /\ ControllerStep([ctl EXCEPT !.pc = IF ctl.loaded THEN "unload" ELSE "recover"])

DeferUnloaded ==
  /\ IsUnloaded /\ (ctl.cleanup \/ ctl.result # "none")
  /\ ControllerStep(IF ctl.cleanup THEN End(ctl, "ok")
                    ELSE [ctl EXCEPT !.pc = "recover", !.loaded = FALSE])

\* recover writes a verified kick, or refuses.
Recover ==
  /\ ctl.pc = "recover"
  /\ \/ /\ ctl.recovered \/ ~qemu
        /\ ctl' = End(ctl, ctl.result)
        /\ UNCHANGED gate
     \/ /\ ~ctl.recovered /\ qemu
        /\ ctl' = End(ctl, "error")
        /\ UNCHANGED gate
     \/ /\ ~ctl.recovered /\ qemu
        /\ \E c \in CPU : Signal(c, "target")
        /\ ctl' = End(ctl, ctl.result)
  /\ UNCHANGED <<clock, kern, dropped, lost, queue, qemu, waiter, runs>>

\* SIGKILL or a crash; delete_module finishes before it takes effect.
Kill ==
  /\ ctl.pc \notin {"ended", "killed"}
  /\ ctl.pc = "deleting" => kern.module = "absent"
  /\ ControllerStep([ctl EXCEPT !.pc = "killed", !.dup = FALSE])

-----------------------------------------------------------------------------

Environment == Tick \/ Publish \/ Work \/ QemuExits \/ Reuse \/ OtherSignal

Kernel ==
  \/ \E c \in CPU : Wakeup(c) \/ CompareAndSwap(c)
  \/ DisarmBegins \/ DisarmEnds \/ ExitBegins \/ ExitEnds

Run ==
  \/ Prepare \/ Load \/ Arm \/ Loop \/ ReadStats \/ DeleteModule \/ UnloadFails
  \/ Disarmed \/ Check \/ Defer \/ DeferUnloaded \/ Recover

Next == Environment \/ Kernel \/ Begin \/ Run \/ Kill

Spec == Init /\ [][Next]_vars

\* Time passes; every CPU, the workqueue, the worker and the controller run.
\* Nothing makes the guest publish or anybody cancel the run.
FairSpec ==
  /\ Spec
  /\ WF_vars(Tick) /\ WF_vars(Work) /\ WF_vars(Run)
  /\ WF_vars(DisarmBegins) /\ WF_vars(DisarmEnds)
  /\ WF_vars(ExitBegins) /\ WF_vars(ExitEnds)
  /\ \A c \in CPU : WF_vars(Wakeup(c) \/ CompareAndSwap(c))

-----------------------------------------------------------------------------
\* Every variable has its type; the file is pinned while there is a module,
\* and what the controller takes for loaded is.
TypeOK ==
  /\ clock \in 0 .. MaxClock /\ runs \in 0 .. MaxRuns
  /\ dropped \in Nat /\ lost \in Nat
  /\ kern \in Kernels
  /\ gate \in [CPU -> Wakeups]
  /\ ctl \in Controllers
  /\ queue \in Queues
  /\ qemu \in BOOLEAN /\ waiter \in Device
  /\ kern.pinned <=> kern.module # "absent"
  /\ ctl.loaded /\ ctl.pc \notin {"deleting", "ended", "killed"} => kern.module = "live"

\* The queue has work, its worker sleeps and nothing is about to wake it.
Stuck ==
  /\ qemu /\ queue.backlog /\ queue.worker = "asleep" /\ ~queue.work
  /\ \A c \in CPU : gate[c].at = "idle"

\* However the wakeups of several CPUs interleave, at most Drops of them are
\* suppressed per load (README: "suppresses at most `--drops` wakeups").
DropsBounded == lost <= Drops

\* A module that is gone has left no probe, no handler in flight and no
\* work that could still run its code (fault_exit against disarm).
ModuleGoneIsQuiet ==
  kern.module = "absent" =>
    ~kern.probe /\ kern.work = "idle" /\ \A c \in CPU : gate[c].at # "gate"

\* No wakeup of another device is ever in the gate, although the waiter's
\* address is all that is compared and QEMU and the controller may be gone
\* (vhost_fault.c pins the file against reuse of the address).
OnlyTargetGated == \A c \in CPU : gate[c].at = "gate" => gate[c].dev = "target"

\* A run that returns nil leaves no stuck queue behind: it saw progress
\* after the module was gone, or wrote the recovery kick.
SuccessLeavesNoStall == ctl.pc = "ended" /\ ctl.result = "ok" /\ ~ctl.cleanup => ~Stuck

\* The verdict "no matching wakeup was dropped; injection did not occur" is
\* true, although the counter is read before the module is unloaded: only a
\* handler that was in flight across the end of the window and the read of
\* the counter can make it false.
VerdictIsTrue == ctl.result = "not_injected" /\ ~ctl.raced => lost = 0

\* The probe goes away without the controller, killed or not.
ProbeExpires == kern.probe ~> ~kern.probe

\* With a recovery deadline a stall of a run ends, or the run fails or is killed.
StallEnds ==
  RecoverAfter > 0 =>
    (Stuck /\ ctl.loaded) ~> (~Stuck \/ ctl.result \in {"error", "not_injected"}
                              \/ ctl.pc = "killed")

==============================================================================
