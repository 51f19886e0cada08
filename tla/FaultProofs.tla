----------------------------- MODULE FaultProofs -----------------------------
(***************************************************************************)
(* Proofs about fault injection: for any CPUs, window, delay, limit of     *)
(* drops, recovery deadline and number of runs.                            *)
(***************************************************************************)
EXTENDS Fault, TLAPS

\* Every suppressed wakeup was counted, and no more than Drops of them.
DropInv == lost = dropped /\ dropped <= Drops

\* A registered probe is an active one; the delayed work and fault_exit
\* unregister it before they are over; a handler in flight keeps the module
\* active.
HandlerInv ==
  /\ kern.probe => kern.active
  /\ kern.work = "running" => ~kern.probe
  /\ kern.module \in {"leaving", "absent"} => ~kern.probe /\ kern.work = "idle"
  /\ kern.module = "absent" => ~kern.active
  /\ \A c \in CPU : gate[c].at = "gate" => kern.active

\* The waiter's address changes owner only when neither the module nor the
\* controller that is about to load it holds the vhost file.
WaiterInv ==
  /\ \A c \in CPU : gate[c].at # "idle" /\ gate[c].dev = "other" => waiter = "other"
  /\ kern.module # "absent" => waiter = "target"
  /\ ctl.pc = "load" => ctl.dup /\ waiter = "target"

\* A run has a result once it returns; "not_injected" is said after the module
\* is gone with no drop counted.
ResultInv ==
  /\ ctl.pc \in {"start", "load", "arm", "loop", "stats", "check"} =>
       ctl.result = "none" /\ ~ctl.cleanup
  /\ ctl.pc \in {"defer", "recover"} => ctl.result # "none" /\ ~ctl.cleanup
  /\ ctl.result = "not_injected" =>
       /\ kern.module = "absent" /\ (ctl.raced \/ dropped = 0) /\ ~ctl.loaded
       /\ ctl.pc \in {"defer", "recover", "ended", "killed"}

\* Only the controller that deletes the module sees it exit; the deferred
\* cleanup, the recovery and success all come after the module is gone.
LoadedInv ==
  /\ kern.module \in {"exiting", "leaving"} => ctl.pc = "deleting"
  /\ ctl.pc \in {"arm", "stats"} => ctl.loaded
  /\ ctl.pc \in {"loop", "check", "defer", "recover"} /\ ~ctl.loaded => kern.module = "absent"
  /\ ctl.pc = "recover" => ~ctl.loaded
  /\ ctl.pc \in {"unload", "deleting"} /\ ~ctl.cleanup => ctl.loaded
  /\ ctl.pc = "ended" /\ ctl.result = "ok" /\ ~ctl.cleanup => kern.module = "absent"
  /\ ctl.baseline => /\ kern.module = "absent" /\ ~ctl.loaded
                     /\ ctl.pc \in {"check", "loop", "defer", "recover", "ended", "killed"}

\* The window the controller computes ends no earlier than the module's, so
\* the counter it reads after it moves no more, but for the handlers that
\* were in flight.
WindowInv ==
  /\ ctl.pc = "arm" => kern.ends <= clock + Delay + Window
  /\ ctl.pc \in {"loop", "stats", "check"} /\ ctl.loaded => kern.ends <= ctl.windowEnd
  /\ ctl.pc = "stats" => ctl.windowEnd <= clock
  /\ ctl.pc \in {"unload", "deleting"} /\ ctl.result = "none" /\ ~ctl.cleanup =>
       /\ kern.ends <= clock
       /\ ctl.raced \/ (ctl.seen = dropped /\ HandlersOver)

\* A sleeping worker has work, is about to be woken, or the queue is empty and
\* the guest was asked to notify.
Served ==
  queue.worker = "asleep" =>
    \/ queue.work
    \/ \E c \in CPU : gate[c].at # "idle" /\ gate[c].dev = "target"
    \/ queue.notify /\ ~queue.backlog

\* The worker asked for notifications before it looks once more.
Rechecks == queue.worker = "recheck" /\ ~queue.backlog => queue.notify

\* What the controller takes for recovered is served, and stays so.
QueueInv ==
  /\ Rechecks
  /\ ctl.recovered => ctl.baseline /\ Served
  /\ ctl.baseline /\ queue.moved => Served
  /\ ctl.pc = "ended" /\ ctl.result = "ok" /\ ~ctl.cleanup => ~qemu \/ Served

\* What the controller knows.
ControlInv == ResultInv /\ LoadedInv /\ WindowInv

\* The inductive invariant.
IInv == TypeOK /\ DropInv /\ HandlerInv /\ WaiterInv /\ ControlInv /\ QueueInv

\* The idle CPU, a signal and a finished wakeup are well typed.
LEMMA WakeupTypes ==
  /\ IdleCPU \in Wakeups
  /\ \A d \in Device : [at |-> "wakeup", dev |-> d, count |-> 0] \in Wakeups
  BY DEF IdleCPU, Wakeups, Device

\* A signal keeps the type of the wakeups.
LEMMA SignalType ==
  ASSUME TypeOK, NEW c \in CPU, NEW d \in Device, Signal(c, d)
  PROVE  gate' \in [CPU -> Wakeups]
  BY WakeupTypes DEF TypeOK, Signal

\* The end of a wakeup keeps the types of what it changes.
LEMMA FinishType ==
  ASSUME TypeOK, NEW c \in CPU, NEW b \in BOOLEAN, Finish(c, b)
  PROVE  gate' \in [CPU -> Wakeups] /\ lost' \in Nat /\ queue' \in Queues
  <1>1. gate' \in [CPU -> Wakeups]
    BY WakeupTypes DEF TypeOK, Finish
  <1>2. [queue EXCEPT !.work = TRUE] \in Queues
    BY DEF TypeOK, Queues
  <1> QED BY <1>1, <1>2 DEF TypeOK, Finish

\* d is the state of a controller, field by field (now is not needed).
Is(d, pc, cleanup, loaded, recovered, baseline, seen, raced, windowEnd, dup, result) ==
  /\ d \in Controllers
  /\ d.pc = pc /\ d.cleanup = cleanup /\ d.loaded = loaded /\ d.recovered = recovered
  /\ d.baseline = baseline /\ d.seen = seen /\ d.raced = raced /\ d.windowEnd = windowEnd
  /\ d.dup = dup /\ d.result = result

\* d is c at another pc.
Goes(c, d, pc) ==
  Is(d, pc, c.cleanup, c.loaded, c.recovered, c.baseline, c.seen, c.raced, c.windowEnd, c.dup,
     c.result)

\* d is c after its function body returned r.
Returns(c, d, r) ==
  Is(d, "defer", c.cleanup, c.loaded, c.recovered, c.baseline, c.seen, c.raced, c.windowEnd,
     c.dup, r)

\* d is c after its run ended with r.
Ends(c, d, r) ==
  Is(d, "ended", c.cleanup, c.loaded, c.recovered, c.baseline, c.seen, c.raced, c.windowEnd,
     FALSE, r)

\* Return sets the pc and the result and nothing else.
LEMMA ReturnIs ==
  ASSUME NEW c \in Controllers, NEW r \in Results PROVE Returns(c, Return(c, r), r)
  BY DEF Controllers, Return, Returns, Is

\* End sets the pc and the result and closes the duplicate.
LEMMA EndIs ==
  ASSUME NEW c \in Controllers, NEW r \in Results PROVE Ends(c, End(c, r), r)
  BY DEF Controllers, End, Ends, Is

\* A jump sets the pc and nothing else.
LEMMA GotoIs ==
  ASSUME NEW c \in Controllers, NEW p \in {"loop", "unload", "deleting", "recover"}
  PROVE  Goes(c, [c EXCEPT !.pc = p], p)
  BY DEF Controllers, Goes, Is

\* A kill sets the pc and closes the duplicate.
LEMMA KillIs ==
  ASSUME NEW c \in Controllers
  PROVE  Is([c EXCEPT !.pc = "killed", !.dup = FALSE], "killed", c.cleanup, c.loaded,
            c.recovered, c.baseline, c.seen, c.raced, c.windowEnd, FALSE, c.result)
  BY DEF Controllers, Is

\* A new run of the controller.
LEMMA FreshRunIs ==
  ASSUME NEW b \in BOOLEAN, NEW p \in {"start", "unload", "ended"}
  PROVE  /\ Is([FreshRun EXCEPT !.pc = p], p, FALSE, FALSE, FALSE, FALSE, 0, FALSE, 0, FALSE,
               "none")
         /\ Is([FreshRun EXCEPT !.pc = p, !.cleanup = b], p, b, FALSE, FALSE, FALSE, 0,
               FALSE, 0,
               FALSE, "none")
  BY DEF FreshRun, Controllers, Results, Is

\* The initial state is well typed.
LEMMA InitType == Init => TypeOK
  <1> SUFFICES ASSUME Init PROVE TypeOK OBVIOUS
  <1>1. kern \in Kernels /\ (kern.pinned <=> kern.module # "absent")
    BY DEF Init, NoModule, Kernels
  <1>2. gate \in [CPU -> Wakeups] BY WakeupTypes DEF Init
  <1>3. ctl \in Controllers /\ ctl.pc = "ended" BY FreshRunIs DEF Init, Is
  <1>4. queue \in Queues BY DEF Init, Queues
  <1> QED BY <1>1, <1>2, <1>3, <1>4, FaultAssumption DEF Init, TypeOK, Device

\* Guest, worker and time keep the types.
LEMMA EnvType == TypeOK /\ Environment => TypeOK'
  <1> USE FaultAssumption DEF TypeOK
  <1>1. ASSUME TypeOK, Tick PROVE TypeOK' BY <1>1 DEF Tick
  <1>2. ASSUME TypeOK, Publish PROVE TypeOK'
    <2>1. \A b \in BOOLEAN : /\ [queue EXCEPT !.backlog = TRUE] \in Queues
                             /\ [queue EXCEPT !.backlog = TRUE, !.notify = b] \in Queues
      BY <1>2 DEF Queues
    <2>2. gate' \in [CPU -> Wakeups] BY <1>2, SignalType DEF Publish, Device
    <2> QED BY <1>2, <2>1, <2>2 DEF Publish
  <1>3. ASSUME TypeOK, Work PROVE TypeOK' BY <1>3 DEF Work, Queues
  <1>4. ASSUME TypeOK, QemuExits \/ Reuse PROVE TypeOK' BY <1>4 DEF QemuExits, Reuse, Device
  <1>5. ASSUME TypeOK, OtherSignal PROVE TypeOK' BY <1>5, SignalType DEF OtherSignal, Device
  <1> QED BY <1>1, <1>2, <1>3, <1>4, <1>5 DEF Environment

\* The kernel module keeps the types.
LEMMA KernelType == TypeOK /\ Kernel => TypeOK'
  <1> USE FaultAssumption DEF TypeOK
  <1>1. ASSUME TypeOK, NEW c \in CPU, Wakeup(c) PROVE TypeOK'
    <2>1. [gate EXCEPT ![c].at = "gate", ![c].count = dropped] \in [CPU -> Wakeups]
      BY <1>1 DEF Wakeups
    <2> QED BY <1>1, <2>1, FinishType DEF Wakeup
  <1>2. ASSUME TypeOK, NEW c \in CPU, CompareAndSwap(c) PROVE TypeOK'
    <2>1. [gate EXCEPT ![c].count = dropped] \in [CPU -> Wakeups]
      BY <1>2 DEF Wakeups
    <2>2. CASE dropped' = dropped /\ Finish(c, FALSE)
      BY <1>2, <2>2, FinishType DEF CompareAndSwap
    <2>3. CASE dropped' = dropped + 1 /\ Finish(c, TRUE)
      <3>1. gate' \in [CPU -> Wakeups] /\ lost' \in Nat /\ queue' \in Queues
        BY <1>2, <2>3, FinishType
      <3> QED BY <1>2, <2>3, <3>1 DEF CompareAndSwap
    <2>4. CASE gate' = [gate EXCEPT ![c].count = dropped] /\ UNCHANGED <<dropped, lost, queue>>
      BY <1>2, <2>1, <2>4 DEF CompareAndSwap
    <2> QED BY <1>2, <2>2, <2>3, <2>4 DEF CompareAndSwap
  <1>3. ASSUME TypeOK, DisarmBegins \/ DisarmEnds PROVE TypeOK'
    BY <1>3 DEF DisarmBegins, DisarmEnds, KernelStep, Kernels
  <1>4. ASSUME TypeOK, ExitBegins \/ ExitEnds PROVE TypeOK'
    BY <1>4 DEF ExitBegins, ExitEnds, KernelStep, Kernels
  <1> QED BY <1>1, <1>2, <1>3, <1>4 DEF Kernel

\* Begin, field by field.
LEMMA BeginStep ==
  ASSUME TypeOK, Begin
  PROVE  \E b \in BOOLEAN : Is(ctl', IF b THEN "unload" ELSE "start", b, FALSE, FALSE, FALSE,
                               0, FALSE, 0, FALSE, "none")
  BY FreshRunIs DEF Begin

\* Prepare, field by field.
LEMMA PrepareStep ==
  ASSUME TypeOK, Prepare
  PROVE  \/ Ends(ctl, ctl', "error")
         \/ /\ kern.module = "absent" /\ qemu /\ waiter = "target" /\ clock <= LoadBy
            /\ Is(ctl', "load", ctl.cleanup, ctl.loaded, ctl.recovered, ctl.baseline,
                  ctl.seen, ctl.raced, ctl.windowEnd, TRUE, ctl.result)
  <1>1. ctl \in Controllers BY DEF TypeOK
  <1>2. Is([ctl EXCEPT !.pc = "load", !.dup = TRUE], "load", ctl.cleanup, ctl.loaded,
           ctl.recovered, ctl.baseline, ctl.seen, ctl.raced, ctl.windowEnd, TRUE, ctl.result)
    BY <1>1 DEF Controllers, Is
  <1> QED BY <1>1, <1>2, EndIs DEF Prepare, ControllerStep, Results

\* Load, field by field.
LEMMA LoadStep ==
  ASSUME TypeOK, Load
  PROVE  \/ Ends(ctl, ctl', "error") /\ UNCHANGED <<kern, dropped, lost>>
         \/ /\ kern.module = "absent" /\ kern' = Loaded /\ dropped' = 0 /\ lost' = 0
            /\ Is(ctl', "arm", ctl.cleanup, TRUE, ctl.recovered, ctl.baseline, ctl.seen,
                  ctl.raced,
                  ctl.windowEnd, ctl.dup, ctl.result)
  <1>1. ctl \in Controllers BY DEF TypeOK
  <1>2. Is([ctl EXCEPT !.pc = "arm", !.loaded = TRUE], "arm", ctl.cleanup, TRUE,
           ctl.recovered, ctl.baseline, ctl.seen, ctl.raced, ctl.windowEnd, ctl.dup, ctl.result)
    BY <1>1 DEF Controllers, Is
  <1> QED BY <1>1, <1>2, EndIs DEF Load, Results

\* Arm, field by field.
LEMMA ArmStep ==
  ASSUME TypeOK, Arm
  PROVE  Is(ctl', "loop", ctl.cleanup, ctl.loaded, ctl.recovered, ctl.baseline, ctl.seen,
            ctl.raced,
            clock + Delay + Window, ctl.dup, ctl.result)
  <1>1. ctl \in Controllers /\ clock + Delay + Window \in Nat BY FaultAssumption DEF TypeOK
  <1> QED BY <1>1 DEF Arm, ControllerStep, Controllers, Is

\* Loop, field by field.
LEMMA LoopStep ==
  ASSUME TypeOK, Loop
  PROVE  \/ Returns(ctl, ctl', "ok") \/ Returns(ctl, ctl', "error")
         \/ Goes(ctl, ctl', IF ctl.loaded /\ clock >= ctl.windowEnd THEN "stats" ELSE "check")
  <1>1. ctl \in Controllers /\ clock \in Nat BY FaultAssumption DEF TypeOK
  <1>2. \A p \in {"stats", "check"} : Goes(ctl, [ctl EXCEPT !.now = clock, !.pc = p], p)
    BY <1>1 DEF Controllers, Goes, Is
  <1> QED BY <1>1, <1>2, ReturnIs DEF Loop, ControllerStep, Results

\* ReadStats, field by field.
LEMMA ReadStatsStep ==
  ASSUME TypeOK, ReadStats
  PROVE  \/ Returns(ctl, ctl', "error")
         \/ Is(ctl', "unload", ctl.cleanup, ctl.loaded, ctl.recovered, ctl.baseline, dropped,
               ~HandlersOver, ctl.windowEnd, ctl.dup, ctl.result)
  <1>1. ctl \in Controllers /\ dropped \in Nat BY DEF TypeOK
  <1>2. (~HandlersOver) \in BOOLEAN OBVIOUS
  <1>3. Is([ctl EXCEPT !.pc = "unload", !.seen = dropped, !.raced = ~HandlersOver],
           "unload", ctl.cleanup, ctl.loaded, ctl.recovered, ctl.baseline, dropped,
           ~HandlersOver, ctl.windowEnd, ctl.dup, ctl.result)
    BY <1>1, <1>2 DEF Controllers, Is
  <1> QED BY <1>1, <1>3, ReturnIs DEF ReadStats, ControllerStep, Results

\* UnloadFails, field by field.
LEMMA UnloadFailsStep ==
  ASSUME TypeOK, UnloadFails
  PROVE  IF ctl.cleanup \/ ctl.result # "none" THEN Ends(ctl, ctl',
                                                         "error") ELSE Returns(ctl, ctl',
                                                                               "error")
  BY ReturnIs, EndIs DEF TypeOK, UnloadFails, ControllerStep, Results

\* Disarmed, field by field.
LEMMA DisarmedStep ==
  ASSUME TypeOK, Disarmed
  PROVE  \/ /\ \E r \in {"not_injected", "error"} :
                 /\ r = "not_injected" => ctl.seen = 0
                 /\ Is(ctl', "defer", ctl.cleanup, FALSE, ctl.recovered, ctl.baseline,
                       ctl.seen, ctl.raced, ctl.windowEnd, ctl.dup, r)
            /\ UNCHANGED queue
         \/ /\ Is(ctl', "check", ctl.cleanup, FALSE, ctl.recovered, TRUE, ctl.seen, ctl.raced,
                  ctl.windowEnd, ctl.dup, ctl.result)
            /\ queue' = [queue EXCEPT !.moved = FALSE]
  <1> DEFINE c == [ctl EXCEPT !.loaded = FALSE]
  <1>1. Is(c, ctl.pc, ctl.cleanup, FALSE, ctl.recovered, ctl.baseline, ctl.seen, ctl.raced,
           ctl.windowEnd, ctl.dup, ctl.result)
    BY DEF TypeOK, Controllers, Is
  <1>2. Is([c EXCEPT !.pc = "check", !.baseline = TRUE], "check", ctl.cleanup, FALSE,
           ctl.recovered, TRUE, ctl.seen, ctl.raced, ctl.windowEnd, ctl.dup, ctl.result)
    BY DEF TypeOK, Controllers, Is
  <1>3. \A r \in Results : Is(Return(c, r), "defer", ctl.cleanup, FALSE, ctl.recovered,
                              ctl.baseline, ctl.seen, ctl.raced, ctl.windowEnd, ctl.dup, r)
    BY <1>1, ReturnIs DEF Returns, Is
  <1> HIDE DEF c
  <1>4. CASE ctl' = Return(c, "not_injected") /\ ctl.seen = 0 /\ UNCHANGED queue
    BY <1>3, <1>4 DEF Results
  <1>5. CASE ctl' = Return(c, "error") /\ UNCHANGED queue BY <1>3, <1>5 DEF Results
  <1>6. CASE ctl' = [c EXCEPT !.pc = "check",
                     !.baseline = TRUE] /\ queue' = [queue EXCEPT !.moved = FALSE]
    BY <1>2, <1>6
  <1> QED BY <1>4, <1>5, <1>6 DEF Disarmed, c

\* Check, field by field.
LEMMA CheckStep ==
  ASSUME TypeOK, Check
  PROVE  \/ Returns(ctl, ctl', "error") \/ Returns(ctl, ctl', "ok") \/ Goes(ctl, ctl', "loop")
         \/ /\ ctl.baseline /\ queue.moved
            /\ Is(ctl', "defer", ctl.cleanup, ctl.loaded, TRUE, ctl.baseline, ctl.seen,
                  ctl.raced,
                  ctl.windowEnd, ctl.dup, "ok")
  <1> DEFINE c == [ctl EXCEPT !.recovered = TRUE]
  <1>1. ctl \in Controllers BY DEF TypeOK
  <1>2. Is(c, ctl.pc, ctl.cleanup, ctl.loaded, TRUE, ctl.baseline, ctl.seen, ctl.raced,
           ctl.windowEnd,
           ctl.dup, ctl.result)
    BY <1>1 DEF Controllers, Is
  <1> HIDE DEF c
  <1>3. Is(Return(c, "ok"), "defer", ctl.cleanup, ctl.loaded, TRUE, ctl.baseline, ctl.seen,
           ctl.raced,
           ctl.windowEnd, ctl.dup, "ok")
    BY <1>2, ReturnIs DEF Returns, Is, Results
  <1>4. \/ ctl' = Return(ctl, "error") \/ ctl' = Return(ctl,
                                                        "ok") \/ ctl' = [ctl EXCEPT !.pc = "loop"]
        \/ ctl.baseline /\ queue.moved /\ ctl' = Return(c, "ok")
    BY DEF Check, ControllerStep, Progress, c
  <1> QED BY <1>1, <1>3, <1>4, ReturnIs, GotoIs DEF Results

\* Defer, field by field.
LEMMA DeferStep ==
  ASSUME TypeOK, Defer
  PROVE  Goes(ctl, ctl', IF ctl.loaded THEN "unload" ELSE "recover")
  <1>1. ctl \in Controllers BY DEF TypeOK
  <1>2. CASE ctl.loaded BY <1>1, <1>2, GotoIs DEF Defer, ControllerStep
  <1>3. CASE ~ctl.loaded BY <1>1, <1>3, GotoIs DEF Defer, ControllerStep
  <1> QED BY <1>2, <1>3

\* DeferUnloaded, field by field.
LEMMA DeferUnloadedStep ==
  ASSUME TypeOK, DeferUnloaded
  PROVE  \/ ctl.cleanup /\ Ends(ctl, ctl', "ok")
         \/ /\ ~ctl.cleanup /\ ctl.result # "none"
            /\ Is(ctl', "recover", ctl.cleanup, FALSE, ctl.recovered, ctl.baseline, ctl.seen,
                  ctl.raced,
                  ctl.windowEnd, ctl.dup, ctl.result)
  <1>1. ctl \in Controllers BY DEF TypeOK
  <1>2. Is([ctl EXCEPT !.pc = "recover", !.loaded = FALSE], "recover", ctl.cleanup, FALSE,
           ctl.recovered, ctl.baseline, ctl.seen, ctl.raced, ctl.windowEnd, ctl.dup, ctl.result)
    BY <1>1 DEF Controllers, Is
  <1> QED BY <1>1, <1>2, EndIs DEF DeferUnloaded, ControllerStep, Results

\* Recover, field by field.
LEMMA RecoverStep ==
  ASSUME TypeOK, Recover
  PROVE  \/ (ctl.recovered \/ ~qemu) /\ Ends(ctl, ctl', ctl.result) /\ UNCHANGED gate
         \/ Ends(ctl, ctl', "error") /\ UNCHANGED gate
         \/ (\E c \in CPU : Signal(c, "target")) /\ Ends(ctl, ctl', ctl.result)
  <1>1. ctl \in Controllers /\ ctl.result \in Results BY DEF TypeOK, Controllers
  <1> QED BY <1>1, EndIs DEF Recover, Results

\* The controller keeps the types.
LEMMA RunType == TypeOK /\ (Begin \/ Run \/ Kill) => TypeOK'
  <1> USE FaultAssumption DEF TypeOK
  <1>1. ASSUME TypeOK, Begin PROVE TypeOK'
    <2>1. ctl' \in Controllers /\ ctl'.loaded = FALSE BY <1>1, BeginStep DEF Is
    <2> QED BY <1>1, <2>1 DEF Begin
  <1>2. ASSUME TypeOK, Prepare PROVE TypeOK'
    <2>1. ctl' \in Controllers /\ ctl'.loaded = ctl.loaded BY <1>2, PrepareStep DEF Ends, Is
    <2> QED BY <1>2, <2>1 DEF Prepare, ControllerStep
  <1>3. ASSUME TypeOK, Load PROVE TypeOK'
    <2>1. Loaded \in Kernels /\ Loaded.pinned /\ Loaded.module = "live"
      BY <1>3 DEF Loaded, Module, Kernels
    <2>2. \/ ctl' \in Controllers /\ ctl'.pc = "ended" /\ UNCHANGED <<kern, dropped, lost>>
          \/ ctl' \in Controllers /\ kern' = Loaded /\ dropped' = 0 /\ lost' = 0
      BY <1>3, LoadStep DEF Ends, Is
    <2> QED BY <1>3, <2>1, <2>2 DEF Load
  <1>4. ASSUME TypeOK, Arm PROVE TypeOK' BY <1>4, ArmStep DEF Arm, ControllerStep, Is
  <1>5. ASSUME TypeOK, Loop PROVE TypeOK'
    BY <1>5, LoopStep DEF Loop, ControllerStep, Returns, Goes, Is
  <1>6. ASSUME TypeOK, ReadStats PROVE TypeOK'
    BY <1>6, ReadStatsStep DEF ReadStats, ControllerStep, Returns, Is
  <1>7. ASSUME TypeOK, DeleteModule PROVE TypeOK'
    BY <1>7, GotoIs DEF DeleteModule, Kernels, Goes, Is
  <1>8. ASSUME TypeOK, UnloadFails PROVE TypeOK'
    BY <1>8, UnloadFailsStep DEF UnloadFails, ControllerStep, Returns, Ends, Is
  <1>9. ASSUME TypeOK, Disarmed PROVE TypeOK'
    <2>1. [queue EXCEPT !.moved = FALSE] \in Queues BY <1>9 DEF Queues
    <2> QED BY <1>9, <2>1, DisarmedStep DEF Disarmed, Is
  <1>10. ASSUME TypeOK, Check PROVE TypeOK'
    <2>1. ctl' \in Controllers /\ ctl'.loaded = ctl.loaded
      BY <1>10, CheckStep DEF Returns, Goes, Is
    <2> QED BY <1>10, <2>1 DEF Check, ControllerStep
  <1>11. ASSUME TypeOK, Defer PROVE TypeOK'
    <2>1. ctl' \in Controllers /\ ctl'.loaded = ctl.loaded
      BY <1>11, DeferStep DEF Goes, Is
    <2> QED BY <1>11, <2>1 DEF Defer, ControllerStep
  <1>12. ASSUME TypeOK, DeferUnloaded PROVE TypeOK'
    BY <1>12, DeferUnloadedStep DEF DeferUnloaded, ControllerStep, Ends, Is
  <1>13. ASSUME TypeOK, Recover PROVE TypeOK'
    <2>1. gate' \in [CPU -> Wakeups] BY <1>13, SignalType DEF Recover, Device
    <2> QED BY <1>13, <2>1, RecoverStep DEF Recover, Ends, Is
  <1>14. ASSUME TypeOK, Kill PROVE TypeOK' BY <1>14, KillIs DEF Kill, ControllerStep, Is
  <1> QED
    BY <1>1, <1>2, <1>3, <1>4, <1>5, <1>6, <1>7, <1>8, <1>9, <1>10, <1>11, <1>12, <1>13,
       <1>14 DEF Run

\* The steps of the kernel module, field by field.
Kern(k, module, probe, active, work) ==
  /\ k \in Kernels /\ k.module = module /\ k.probe = probe /\ k.active = active
  /\ k.work = work /\ k.ends = kern.ends

\* What each step of the module's life does to its fields.
LEMMA KernelSteps ==
  ASSUME TypeOK
  PROVE  /\ DisarmBegins => Kern(kern', kern.module, FALSE, kern.active, "running")
         /\ DisarmEnds => Kern(kern', kern.module, kern.probe, FALSE, "idle")
         /\ ExitBegins => Kern(kern', "leaving", kern.probe /\ ~kern.active, kern.active,
                               "idle")
         /\ ExitEnds => Kern(kern', "absent", kern.probe, FALSE, kern.work)
         /\ DeleteModule => Kern(kern', "exiting", kern.probe, kern.active, kern.work)
  BY DEF TypeOK, Kernels, DisarmBegins, DisarmEnds, ExitBegins, ExitEnds, DeleteModule,
     KernelStep, Kern

\* A signal adds one wakeup of its device.
LEMMA SignalSteps ==
  ASSUME TypeOK, NEW c \in CPU, NEW d \in Device, Signal(c, d)
  PROVE  \A x \in CPU : gate'[x] = gate[x] \/ (gate'[x].at = "wakeup" /\ gate'[x].dev = d)
  BY DEF TypeOK, Signal

\* The end of a wakeup frees its CPU and no other.
LEMMA FinishSteps ==
  ASSUME TypeOK, NEW c \in CPU, Finish(c, TRUE) \/ Finish(c, FALSE)
  PROVE  \A x \in CPU : gate'[x] = IF x = c THEN IdleCPU ELSE gate[x]
  BY DEF TypeOK, Finish

\* A CPU enters the gate only through the probe, inside the window.
LEMMA WakeupGate ==
  ASSUME TypeOK, NEW c \in CPU, Wakeup(c), NEW x \in CPU
  PROVE  /\ gate'[x].at = "gate" => gate[x].at = "gate" \/ (kern.probe /\ InWindow)
         /\ gate'[x].at # "idle" => gate[x].at # "idle" /\ gate'[x].dev = gate[x].dev
  <1>1. gate[c].at = "wakeup" BY DEF Wakeup
  <1>2. CASE kern.probe /\ InWindow
    <2>1. gate' = [gate EXCEPT ![c].at = "gate", ![c].count = dropped] BY <1>2 DEF Wakeup
    <2> QED BY <1>1, <1>2, <2>1 DEF TypeOK, Wakeups
  <1>3. CASE ~(kern.probe /\ InWindow)
    <2>1. Finish(c, FALSE) BY <1>3 DEF Wakeup
    <2>2. gate'[x] = IF x = c THEN IdleCPU ELSE gate[x] BY <2>1, FinishSteps
    <2>3. IdleCPU.at = "idle" BY DEF IdleCPU
    <2> QED BY <2>2, <2>3
  <1> QED BY <1>2, <1>3

\* A pass of the loop leaves the gate or stays in it.
LEMMA SwapGate ==
  ASSUME TypeOK, NEW c \in CPU, CompareAndSwap(c), NEW x \in CPU
  PROVE  /\ gate'[x].at = "gate" => gate[x].at = "gate"
         /\ gate'[x].at # "idle" => gate[x].at # "idle" /\ gate'[x].dev = gate[x].dev
  <1>1. CASE Finish(c, TRUE) \/ Finish(c, FALSE)
    <2>1. gate'[x] = IF x = c THEN IdleCPU ELSE gate[x] BY <1>1, FinishSteps
    <2>2. IdleCPU.at = "idle" BY DEF IdleCPU
    <2> QED BY <2>1, <2>2
  <1>2. CASE gate' = [gate EXCEPT ![c].count = dropped]
    BY <1>2 DEF TypeOK, Wakeups
  <1> QED BY <1>1, <1>2 DEF CompareAndSwap

\* Each wakeup that is suppressed is counted, up to the limit.
LEMMA DropStep == ASSUME TypeOK, DropInv, [Next]_vars PROVE DropInv'
  <1> USE DEF DropInv
  <1>1. ASSUME NEW c \in CPU, Wakeup(c) PROVE DropInv'
    BY <1>1 DEF Wakeup, Finish
  <1>2. ASSUME NEW c \in CPU, CompareAndSwap(c) PROVE DropInv'
    <2>1. gate[c].count \in Nat BY DEF TypeOK, Wakeups
    <2> QED BY <1>2, <2>1, FaultAssumption DEF CompareAndSwap, Finish, TypeOK
  <1>3. CASE Load BY <1>3, FaultAssumption DEF Load
  <1>4. CASE Environment
    BY <1>4 DEF Environment, Tick, Publish, Work, QemuExits, Reuse, OtherSignal
  <1>5. CASE DisarmBegins \/ DisarmEnds \/ ExitBegins \/ ExitEnds
    BY <1>5 DEF DisarmBegins, DisarmEnds, ExitBegins, ExitEnds, KernelStep
  <1>6. CASE Begin \/ Kill \/ (Run /\ ~Load)
    BY <1>6 DEF Begin, Kill, Run, Prepare, Arm, Loop, ReadStats, DeleteModule, UnloadFails,
                Disarmed, Check, Defer, DeferUnloaded, Recover, ControllerStep
  <1>7. CASE UNCHANGED vars BY <1>7 DEF vars
  <1> QED BY <1>1, <1>2, <1>3, <1>4, <1>5, <1>6, <1>7 DEF Next, Kernel, Run

\* Steps that leave the kernel module, the clock and the handlers alone.
Elsewhere == \/ Publish \/ Work \/ QemuExits \/ Reuse \/ OtherSignal \/ Begin \/ Kill
             \/ Prepare \/ Arm \/ Loop \/ ReadStats \/ UnloadFails \/ Disarmed \/ Check
             \/ Defer \/ DeferUnloaded \/ Recover

\* They leave them alone indeed, but for new wakeups.
LEMMA ElsewhereStep ==
  ASSUME TypeOK, Elsewhere
  PROVE  /\ UNCHANGED <<clock, kern, dropped, lost>>
         /\ \A c \in CPU : gate'[c] = gate[c] \/ gate'[c].at = "wakeup"
  <1>1. UNCHANGED <<clock, kern, dropped, lost>>
    BY DEF Elsewhere, Publish, Work, QemuExits, Reuse, OtherSignal, Begin, Kill, Prepare,
       Arm, Loop, ReadStats, UnloadFails,
                Disarmed, Check, Defer, DeferUnloaded, Recover, ControllerStep
  <1>2. UNCHANGED gate \/ \E c \in CPU, d \in Device : Signal(c, d)
    BY DEF Elsewhere, Publish, Work, QemuExits, Reuse, OtherSignal, Begin, Kill, Prepare,
       Arm, Loop, ReadStats, UnloadFails,
                Disarmed, Check, Defer, DeferUnloaded, Recover, ControllerStep, Device
  <1> QED BY <1>1, <1>2, SignalSteps

\* The module's probe, handlers and delayed work are gone before it is.
LEMMA HandlerStep == ASSUME TypeOK, HandlerInv, [Next]_vars PROVE HandlerInv'
  <1> USE DEF HandlerInv
  <1>1. CASE Tick BY <1>1, FaultAssumption DEF Tick, TypeOK
  <1>2. ASSUME NEW c \in CPU, Wakeup(c) PROVE HandlerInv'
    <2>1. UNCHANGED <<clock, kern>> BY <1>2 DEF Wakeup
    <2>2. kern.probe /\ InWindow => kern.active /\ clock < kern.ends BY DEF InWindow
    <2> QED BY <1>2, <2>1, <2>2, WakeupGate
  <1>3. ASSUME NEW c \in CPU, CompareAndSwap(c) PROVE HandlerInv'
    <2>1. UNCHANGED <<clock, kern>> BY <1>3 DEF CompareAndSwap
    <2> QED BY <1>3, <2>1, SwapGate
  <1>4. CASE DisarmBegins
    BY <1>4, KernelSteps DEF DisarmBegins, KernelStep, Kern
  <1>5. CASE DisarmEnds
    BY <1>5, KernelSteps DEF DisarmEnds, KernelStep, Kern, HandlersOver
  <1>6. CASE ExitBegins
    BY <1>6, KernelSteps DEF ExitBegins, KernelStep, Kern
  <1>7. CASE ExitEnds
    BY <1>7, KernelSteps DEF ExitEnds, KernelStep, Kern, HandlersOver
  <1>8. CASE DeleteModule
    BY <1>8, KernelSteps DEF DeleteModule, Kern
  <1>9. CASE Load
    BY <1>9 DEF Load, Loaded, Module
  <1>10. CASE Elsewhere
    BY <1>10, ElsewhereStep
  <1>11. CASE UNCHANGED vars BY <1>11 DEF vars
  <1> QED BY <1>1, <1>2, <1>3, <1>4, <1>5, <1>6, <1>7, <1>8, <1>9, <1>10, <1>11
          DEF Next, Kernel, Run, Environment, Elsewhere

\* The waiter's address belongs to the target while the module holds its file.
LEMMA WaiterStep == ASSUME TypeOK, HandlerInv, WaiterInv, [Next]_vars PROVE WaiterInv'
  <1> USE DEF WaiterInv
  <1>1. CASE Publish
    <2>1. UNCHANGED gate \/ \E c \in CPU : Signal(c, "target") BY <1>1 DEF Publish
    <2>2. \A x \in CPU : gate'[x] = gate[x] \/ gate'[x].dev = "target"
      BY <2>1, SignalSteps DEF Device
    <2> QED BY <1>1, <2>2 DEF Publish
  <1>2. CASE OtherSignal
    BY <1>2 DEF OtherSignal
  <1>3. CASE Reuse
    BY <1>3 DEF Reuse, TypeOK
  <1>4. CASE Tick \/ Work \/ QemuExits
    BY <1>4 DEF Tick, Work, QemuExits
  <1>5. ASSUME NEW c \in CPU, Wakeup(c) PROVE WaiterInv'
    <2>1. UNCHANGED <<kern, ctl, waiter>> BY <1>5 DEF Wakeup
    <2> QED BY <1>5, <2>1, WakeupGate
  <1>6. ASSUME NEW c \in CPU, CompareAndSwap(c) PROVE WaiterInv'
    <2>1. UNCHANGED <<kern, ctl, waiter>> BY <1>6 DEF CompareAndSwap
    <2> QED BY <1>6, <2>1, SwapGate
  <1>7. CASE DisarmBegins \/ DisarmEnds \/ ExitBegins \/ ExitEnds
    <2>1. kern'.module # "absent" => kern.module # "absent"
      BY <1>7, KernelSteps DEF Kern, DisarmBegins, DisarmEnds, ExitBegins, ExitEnds
    <2> QED BY <1>7, <2>1 DEF DisarmBegins, DisarmEnds, ExitBegins, ExitEnds, KernelStep
  <1>8. CASE DeleteModule
    BY <1>8, KernelSteps, GotoIs DEF DeleteModule, Kern, Goes, Is, TypeOK
  <1>9. CASE Load
    BY <1>9, LoadStep DEF Load, Ends, Is
  <1>10. CASE Prepare
    BY <1>10, PrepareStep DEF Prepare, ControllerStep, Ends, Is
  <1>11. CASE Recover
    <2>1. UNCHANGED gate \/ \E c \in CPU : Signal(c, "target") BY <1>11 DEF Recover
    <2>2. \A x \in CPU : gate'[x] = gate[x] \/ gate'[x].dev = "target"
      BY <2>1, SignalSteps DEF Device
    <2>3. ctl'.pc = "ended" BY <1>11, RecoverStep DEF Ends, Is
    <2> QED BY <1>11, <2>2, <2>3 DEF Recover
  <1>12. CASE Begin \/ Kill \/ Arm \/ Loop \/ ReadStats \/ UnloadFails \/ Disarmed \/ Check
              \/ Defer \/ DeferUnloaded
    <2>1. ctl'.pc # "load"
      BY <1>12, BeginStep, KillIs, ArmStep, LoopStep, ReadStatsStep, UnloadFailsStep,
         DisarmedStep,
         CheckStep, DeferStep, DeferUnloadedStep
         DEF Kill, ControllerStep, TypeOK, Goes, Returns, Ends, Is
    <2>2. UNCHANGED <<gate, waiter, kern>>
      BY <1>12 DEF Begin, Kill, Arm, Loop, ReadStats, UnloadFails, Disarmed, Check,
              Defer, DeferUnloaded, ControllerStep
    <2> QED BY <2>1, <2>2
  <1>13. CASE UNCHANGED vars BY <1>13 DEF vars
  <1> QED BY <1>1, <1>2, <1>3, <1>4, <1>5, <1>6, <1>7, <1>8, <1>9, <1>10, <1>11, <1>12, <1>13
          DEF Next, Kernel, Run, Environment

\* Steps of neither the controller nor the module's life cycle.
Quiet == Environment \/ \E c \in CPU : Wakeup(c) \/ CompareAndSwap(c)

\* Without a handler in flight nothing counts drops, and after the window no
\* wakeup becomes one.
LEMMA QuietStep ==
  ASSUME TypeOK, Quiet
  PROVE  /\ UNCHANGED <<ctl, kern>> /\ clock' \in Nat /\ clock <= clock'
         /\ HandlersOver => /\ dropped' = dropped
                            /\ kern.ends <= clock => HandlersOver'
  <1>0. clock \in Nat /\ kern.ends \in Nat BY FaultAssumption DEF TypeOK, Kernels
  <1>1. CASE Tick BY <1>0, <1>1 DEF Tick, HandlersOver
  <1>2. CASE Publish \/ OtherSignal
    <2>1. UNCHANGED <<ctl, kern, clock, dropped>> BY <1>2 DEF Publish, OtherSignal
    <2>2. UNCHANGED gate \/ \E c \in CPU, d \in Device : Signal(c, d)
      BY <1>2 DEF Publish, OtherSignal, Device
    <2>3. HandlersOver => HandlersOver' BY <2>2 DEF HandlersOver, Signal, TypeOK
    <2> QED BY <1>0, <2>1, <2>3
  <1>3. CASE Work \/ QemuExits \/ Reuse
    <2>1. UNCHANGED <<ctl, kern, clock, dropped, gate>> BY <1>3 DEF Work, QemuExits, Reuse
    <2> QED BY <1>0, <2>1 DEF HandlersOver
  <1>4. ASSUME NEW c \in CPU, Wakeup(c)
        PROVE  /\ UNCHANGED <<ctl, kern, clock, dropped>>
               /\ HandlersOver /\ kern.ends <= clock => HandlersOver'
    <2>1. UNCHANGED <<ctl, kern, clock, dropped>> BY <1>4 DEF Wakeup
    <2>2. kern.ends <= clock => gate' = [gate EXCEPT ![c] = IdleCPU]
      BY <1>0, <1>4 DEF Wakeup, InWindow, Finish
    <2>3. IdleCPU.at # "gate" BY DEF IdleCPU
    <2> HIDE DEF IdleCPU
    <2> QED BY <2>1, <2>2, <2>3 DEF HandlersOver, TypeOK
  <1>5. ASSUME NEW c \in CPU, CompareAndSwap(c)
        PROVE  UNCHANGED <<ctl, kern, clock>> /\ ~HandlersOver
    BY <1>5 DEF CompareAndSwap, HandlersOver
  <1> QED BY <1>0, <1>1, <1>2, <1>3, <1>4, <1>5 DEF Quiet, Environment

\* The life cycle of the module goes one way, without the controller.
LEMMA LifeStep ==
  ASSUME TypeOK, DisarmBegins \/ DisarmEnds \/ ExitBegins \/ ExitEnds
  PROVE  /\ UNCHANGED <<ctl, clock, dropped, gate, queue, qemu>> /\ kern'.ends = kern.ends
         /\ kern.module = "absent" => kern'.module = "absent"
         /\ kern'.module \in {"exiting", "leaving"} => kern.module \in {"exiting", "leaving"}
  <1>1. UNCHANGED <<ctl, clock, dropped, gate, queue, qemu>>
    BY DEF DisarmBegins, DisarmEnds, ExitBegins, ExitEnds, KernelStep
  <1>2. CASE DisarmBegins BY <1>1, <1>2, KernelSteps DEF Kern
  <1>3. CASE DisarmEnds BY <1>1, <1>3, KernelSteps DEF Kern
  <1>4. CASE ExitBegins BY <1>1, <1>4, KernelSteps DEF Kern, ExitBegins
  <1>5. CASE ExitEnds BY <1>1, <1>5, KernelSteps DEF Kern, ExitEnds
  <1> QED BY <1>2, <1>3, <1>4, <1>5

\* Steps of the controller that leave the kernel module alone.
Control ==
  \/ Begin \/ Kill \/ Prepare \/ Arm \/ Loop \/ ReadStats \/ UnloadFails \/ Disarmed
  \/ Check \/ Defer \/ DeferUnloaded \/ Recover

\* They leave it alone indeed.
LEMMA ControlStep == Control => UNCHANGED <<clock, kern, dropped, qemu>>
  BY DEF Control, Begin, Kill, Prepare, Arm, Loop, ReadStats, UnloadFails, Disarmed, Check,
         Defer, DeferUnloaded, Recover, ControllerStep

\* Kill, field by field.
LEMMA KillStep ==
  ASSUME TypeOK, Kill
  PROVE  /\ ctl.pc = "deleting" => kern.module = "absent"
         /\ Is(ctl', "killed", ctl.cleanup, ctl.loaded, ctl.recovered, ctl.baseline,
               ctl.seen, ctl.raced, ctl.windowEnd, FALSE, ctl.result)
  BY KillIs DEF Kill, ControllerStep, TypeOK

\* DeleteModule, field by field.
LEMMA DeleteStep ==
  ASSUME TypeOK, DeleteModule
  PROVE  /\ Goes(ctl, ctl', "deleting")
         /\ kern'.module = "exiting" /\ kern'.ends = kern.ends
         /\ UNCHANGED <<clock, dropped, gate, queue, qemu>>
  <1>1. Goes(ctl, ctl', "deleting") BY GotoIs DEF DeleteModule, TypeOK
  <1>2. kern'.module = "exiting" /\ kern'.ends = kern.ends BY KernelSteps DEF Kern
  <1> QED BY <1>1, <1>2 DEF DeleteModule

\* The result is set on the way out; "not injected" is only said of no drop.
LEMMA ResultStep ==
  ASSUME TypeOK, HandlerInv, ControlInv, [Next]_vars
  PROVE  ResultInv'
  <1> USE DEF ControlInv, ResultInv
  <1>1. CASE Quiet BY <1>1, QuietStep DEF HandlerInv, HandlersOver
  <1>2. CASE DisarmBegins \/ DisarmEnds \/ ExitBegins \/ ExitEnds BY <1>2, LifeStep
  <1>3. CASE DeleteModule BY <1>3, DeleteStep DEF Goes, Is, DeleteModule
  <1>4. CASE Load BY <1>4, LoadStep DEF Load, Ends, Is
  <1>5. CASE Control
    <2>0. UNCHANGED <<clock, kern, dropped, qemu>> BY <1>5, ControlStep
    <2>1. CASE Begin BY <2>0, <2>1, BeginStep DEF Is
    <2>2. CASE Kill BY <2>0, <2>2, KillStep DEF Is
    <2>3. CASE Prepare BY <2>0, <2>3, PrepareStep DEF Prepare, Ends, Is
    <2>4. CASE Arm BY <2>0, <2>4, ArmStep DEF Arm, Is
    <2>5. CASE Loop BY <2>0, <2>5, LoopStep DEF Loop, Returns, Goes, Is
    <2>6. CASE ReadStats BY <2>0, <2>6, ReadStatsStep DEF ReadStats, Returns, Is
    <2>7. CASE UnloadFails BY <2>0, <2>7, UnloadFailsStep DEF UnloadFails, Ends, Returns, Is
    <2>8. CASE Disarmed
      <3>1. /\ kern.module = "absent" /\ ~ctl.cleanup /\ ctl.result = "none"
            /\ ctl.raced \/ ctl.seen = dropped
        BY <2>8 DEF Disarmed, IsUnloaded, WindowInv
      <3>2. CASE Is(ctl', "check", ctl.cleanup, FALSE, ctl.recovered, TRUE, ctl.seen,
                    ctl.raced,
                    ctl.windowEnd, ctl.dup, ctl.result)
        BY <3>1, <3>2 DEF Is
      <3>3. ASSUME NEW r \in {"not_injected", "error"}, r = "not_injected" => ctl.seen = 0,
                   Is(ctl', "defer", ctl.cleanup, FALSE, ctl.recovered, ctl.baseline,
                      ctl.seen, ctl.raced,
                      ctl.windowEnd, ctl.dup, r)
            PROVE  ResultInv'
        BY <2>0, <3>1, <3>3 DEF Is
      <3> QED BY <2>8, <3>2, <3>3, DisarmedStep
    <2>9. CASE Check BY <2>0, <2>9, CheckStep DEF Check, Returns, Goes, Is
    <2>10. CASE Defer BY <2>0, <2>10, DeferStep DEF Defer, Goes, Is
    <2>11. CASE DeferUnloaded
      BY <2>0, <2>11, DeferUnloadedStep DEF DeferUnloaded, IsUnloaded, Ends, Is
    <2>12. CASE Recover BY <2>0, <2>12, RecoverStep DEF Recover, Ends, Is
    <2> QED BY <1>5, <2>1, <2>2, <2>3, <2>4, <2>5, <2>6, <2>7, <2>8, <2>9, <2>10, <2>11, <2>12
            DEF Control
  <1>6. CASE UNCHANGED vars BY <1>6 DEF vars
  <1> QED BY <1>1, <1>2, <1>3, <1>4, <1>5, <1>6 DEF Next, Kernel, Run, Quiet, Control

\* What the controller takes for loaded is loaded, and for gone is gone.
LEMMA LoadedStep ==
  ASSUME TypeOK, HandlerInv, ControlInv, [Next]_vars
  PROVE  LoadedInv'
  <1> USE DEF ControlInv, LoadedInv
  <1>1. CASE Quiet BY <1>1, QuietStep
  <1>2. CASE DisarmBegins \/ DisarmEnds \/ ExitBegins \/ ExitEnds BY <1>2, LifeStep
  <1>3. CASE DeleteModule BY <1>3, DeleteStep DEF Goes, Is, DeleteModule
  <1>4. CASE Load
    <2>1. Loaded.module = "live" BY DEF Loaded, Module
    <2> QED BY <1>4, <2>1, LoadStep DEF Load, Ends, Is
  <1>5. CASE Control
    <2>0. UNCHANGED <<clock, kern, dropped, qemu>> BY <1>5, ControlStep
    <2>1. CASE Begin BY <2>0, <2>1, BeginStep DEF Begin, Is
    <2>2. CASE Kill BY <2>0, <2>2, KillStep DEF Is
    <2>3. CASE Prepare BY <2>0, <2>3, PrepareStep DEF Prepare, Ends, Is
    <2>4. CASE Arm BY <2>0, <2>4, ArmStep DEF Arm, Is
    <2>5. CASE Loop BY <2>0, <2>5, LoopStep DEF Loop, Returns, Goes, Is
    <2>6. CASE ReadStats BY <2>0, <2>6, ReadStatsStep DEF ReadStats, Returns, Is
    <2>7. CASE UnloadFails BY <2>0, <2>7, UnloadFailsStep DEF UnloadFails, Ends, Returns, Is
    <2>8. CASE Disarmed
      BY <2>0, <2>8, DisarmedStep DEF Disarmed, IsUnloaded, Is
    <2>9. CASE Check BY <2>0, <2>9, CheckStep DEF Check, Returns, Goes, Is
    <2>10. CASE Defer BY <2>0, <2>10, DeferStep DEF Defer, Goes, Is
    <2>11. CASE DeferUnloaded
      BY <2>0, <2>11, DeferUnloadedStep DEF DeferUnloaded, IsUnloaded, Ends, Is
    <2>12. CASE Recover BY <2>0, <2>12, RecoverStep DEF Recover, Ends, Is
    <2> QED BY <1>5, <2>1, <2>2, <2>3, <2>4, <2>5, <2>6, <2>7, <2>8, <2>9, <2>10, <2>11, <2>12
            DEF Control
  <1>6. CASE UNCHANGED vars BY <1>6 DEF vars
  <1> QED BY <1>1, <1>2, <1>3, <1>4, <1>5, <1>6 DEF Next, Kernel, Run, Quiet, Control

\* The controller's idea of the end of the window is never before the module's.
LEMMA WindowStep ==
  ASSUME TypeOK, HandlerInv, ControlInv, [Next]_vars
  PROVE  WindowInv'
  <1> USE DEF ControlInv, WindowInv
  <1>0. /\ clock \in Nat /\ kern.ends \in Nat /\ ctl.windowEnd \in Nat
        /\ Delay \in Nat /\ Window \in Nat
    BY FaultAssumption DEF TypeOK, Kernels, Controllers
  <1>1. CASE Quiet BY <1>0, <1>1, QuietStep
  <1>2. CASE DisarmBegins \/ DisarmEnds \/ ExitBegins \/ ExitEnds
    BY <1>2, LifeStep DEF HandlersOver
  <1>3. CASE DeleteModule BY <1>3, DeleteStep DEF Goes, Is, DeleteModule, HandlersOver
  <1>4. CASE Load
    <2>1. Loaded.ends = clock + Delay + Window BY DEF Loaded, Module
    <2>2. clock' = clock BY <1>4 DEF Load
    <2>3. CASE Ends(ctl, ctl', "error") BY <2>3 DEF Ends, Is
    <2>4. CASE kern' = Loaded /\ ctl'.pc = "arm" BY <1>0, <2>1, <2>2, <2>4
    <2> QED BY <1>4, <2>3, <2>4, LoadStep DEF Is
  <1>5. CASE Control
    <2>0. UNCHANGED <<clock, kern, dropped, qemu>> BY <1>5, ControlStep
    <2>1. CASE Begin BY <2>0, <2>1, BeginStep DEF Is
    <2>2. CASE Kill BY <2>0, <2>2, KillStep DEF Is
    <2>3. CASE Prepare BY <2>0, <2>3, PrepareStep DEF Ends, Is
    <2>4. CASE Arm BY <2>0, <2>4, ArmStep DEF Arm, Is
    <2>5. CASE Loop BY <1>0, <2>0, <2>5, LoopStep DEF Loop, Returns, Goes, Is
    <2>6. CASE ReadStats
      <3>1. gate' = gate BY <2>6 DEF ReadStats, ControllerStep
      <3>2. ~HandlersOver \/ HandlersOver' BY <3>1 DEF HandlersOver
      <3>3. kern'.ends <= clock' BY <1>0, <2>0, <2>6 DEF ReadStats, LoadedInv
      <3>4. CASE Returns(ctl, ctl', "error") BY <3>4 DEF Returns, Is
      <3>5. CASE ctl'.pc = "unload" /\ ctl'.seen = dropped /\ ctl'.raced = ~HandlersOver
        <4>1. ctl'.raced \/ (ctl'.seen = dropped' /\ HandlersOver') BY <2>0, <3>2, <3>5
        <4> QED BY <3>3, <3>5, <4>1
      <3> QED BY <2>6, <3>4, <3>5, ReadStatsStep DEF Is
    <2>7. CASE UnloadFails BY <2>0, <2>7, UnloadFailsStep DEF Ends, Returns, Is
    <2>8. CASE Disarmed BY <2>0, <2>8, DisarmedStep DEF Is
    <2>9. CASE Check BY <2>0, <2>9, CheckStep DEF Check, Returns, Goes, Is
    <2>10. CASE Defer BY <2>0, <2>10, DeferStep DEF Defer, Goes, Is, ResultInv
    <2>11. CASE DeferUnloaded BY <2>0, <2>11, DeferUnloadedStep DEF Ends, Is
    <2>12. CASE Recover BY <2>0, <2>12, RecoverStep DEF Ends, Is
    <2> QED BY <1>5, <2>1, <2>2, <2>3, <2>4, <2>5, <2>6, <2>7, <2>8, <2>9, <2>10, <2>11, <2>12
            DEF Control
  <1>6. CASE UNCHANGED vars BY <1>6 DEF vars, HandlersOver
  <1> QED BY <1>1, <1>2, <1>3, <1>4, <1>5, <1>6 DEF Next, Kernel, Run, Quiet, Control

\* Steps that leave the queue, the guest and the wakeups alone.
Aside ==
  \/ Tick \/ Reuse \/ DisarmBegins \/ DisarmEnds \/ ExitBegins \/ ExitEnds \/ DeleteModule \/ Load
  \/ Begin \/ Kill \/ Prepare \/ Arm \/ Loop \/ ReadStats \/ UnloadFails \/ Check
  \/ Defer \/ DeferUnloaded

\* They leave them alone indeed.
LEMMA AsideStep == Aside => UNCHANGED <<queue, gate, qemu>>
  BY DEF Aside, Tick, Reuse, DisarmBegins, DisarmEnds, ExitBegins, ExitEnds, DeleteModule,
     Load,
         KernelStep, Begin, Kill, Prepare, Arm, Loop, ReadStats, UnloadFails, Check,
         Defer, DeferUnloaded, ControllerStep

\* A new wakeup takes an idle CPU: those under way stay.
LEMMA SignalKeeps ==
  ASSUME TypeOK, NEW c \in CPU, NEW d \in Device, Signal(c, d), NEW x \in CPU
  PROVE  /\ gate[x].at # "idle" => gate'[x] = gate[x]
         /\ gate'[c].at = "wakeup" /\ gate'[c].dev = d
  BY DEF TypeOK, Signal

\* Publishing adds buffers, and a wakeup of the target unless none was asked.
LEMMA PublishStep ==
  ASSUME TypeOK, Publish
  PROVE  /\ queue'.worker = queue.worker /\ queue'.work = queue.work
         /\ queue'.moved = queue.moved /\ queue'.backlog
         /\ \/ ~queue.notify /\ UNCHANGED gate
            \/ \E c \in CPU : Signal(c, "target")
  <1>1. CASE ~queue.notify BY <1>1 DEF Publish, TypeOK, Queues
  <1>2. CASE queue.notify
    <2>1. PICK b \in BOOLEAN : queue' = [queue EXCEPT !.backlog = TRUE, !.notify = b]
      BY <1>2 DEF Publish
    <2>2. \E c \in CPU : Signal(c, "target") BY <1>2 DEF Publish
    <2> QED BY <2>1, <2>2 DEF TypeOK, Queues
  <1> QED BY <1>1, <1>2

\* The worker falls asleep only after a second look at an empty queue.
LEMMA WorkStep ==
  ASSUME TypeOK, Work
  PROVE  \/ queue'.worker = "running"
         \/ queue'.worker = "recheck" /\ queue'.notify /\ queue'.moved = queue.moved
         \/ /\ queue.worker = "recheck" /\ ~queue.backlog /\ queue'.worker = "asleep"
            /\ queue'.moved = queue.moved /\ queue'.notify = queue.notify /\ ~queue'.backlog
  BY DEF Work, TypeOK, Queues

\* Without a probe a wakeup reaches the worker of its queue.
LEMMA WakeupReaches ==
  ASSUME TypeOK, ~kern.probe, NEW c \in CPU, Wakeup(c)
  PROVE  /\ \A x \in CPU : x # c => gate'[x] = gate[x]
         /\ queue'.worker = queue.worker /\ queue'.notify = queue.notify
         /\ queue'.backlog = queue.backlog /\ queue'.moved = queue.moved
         /\ queue.work => queue'.work
         /\ gate[c].dev = "target" => queue'.work
  <1>1. Finish(c, FALSE) BY DEF Wakeup
  <1>2. \A x \in CPU : x # c => gate'[x] = gate[x] BY <1>1, FinishSteps
  <1>3. \/ queue' = queue /\ gate[c].dev = "other"
        \/ queue' = [queue EXCEPT !.work = TRUE]
    BY <1>1 DEF Finish
  <1> QED BY <1>2, <1>3 DEF TypeOK, Queues

\* A handler touches nothing of the queue but the worker's work.
LEMMA HandlerQueue ==
  ASSUME TypeOK, NEW c \in CPU, Wakeup(c) \/ CompareAndSwap(c)
  PROVE  /\ queue'.worker = queue.worker /\ queue'.notify = queue.notify
         /\ queue'.backlog = queue.backlog /\ queue'.moved = queue.moved
  <1>1. queue' = queue \/ queue' = [queue EXCEPT !.work = TRUE]
    BY DEF Wakeup, CompareAndSwap, Finish
  <1> QED BY <1>1 DEF TypeOK, Queues

\* The baseline resets the progress and nothing else of the queue.
LEMMA DisarmedQueue ==
  ASSUME TypeOK, Disarmed
  PROVE  /\ UNCHANGED <<gate, qemu>>
         /\ queue'.worker = queue.worker /\ queue'.notify = queue.notify
         /\ queue'.backlog = queue.backlog /\ queue'.work = queue.work
         /\ queue' = queue \/ ~queue'.moved
  <1>1. queue' = queue \/ queue' = [queue EXCEPT !.moved = FALSE] BY DEF Disarmed
  <1> QED BY <1>1 DEF Disarmed, TypeOK, Queues

\* Once the module is gone a queue that is served stays served.
LEMMA ServedStable ==
  ASSUME TypeOK, HandlerInv, Rechecks, Served, kern.module = "absent", [Next]_vars
  PROVE  Served'
  <1>0. ~kern.probe /\ \A c \in CPU : gate[c].at # "gate" BY DEF HandlerInv
  <1>1. CASE Aside \/ UNCHANGED vars
    <2>1. UNCHANGED <<queue, gate>> BY <1>1, AsideStep DEF vars
    <2> QED BY <2>1 DEF Served
  <1>2. CASE Publish
    <2>1. CASE ~queue.notify /\ UNCHANGED gate BY <1>2, <2>1, PublishStep DEF Served
    <2>2. ASSUME NEW c \in CPU, Signal(c, "target") PROVE Served'
      <3>1. gate'[c].at = "wakeup" /\ gate'[c].dev = "target"
        BY <2>2, SignalKeeps DEF Device
      <3> QED BY <3>1 DEF Served
    <2> QED BY <1>2, <2>1, <2>2, PublishStep
  <1>3. CASE Work BY <1>3, WorkStep DEF Served, Rechecks
  <1>4. CASE QemuExits BY <1>4 DEF QemuExits, Served
  <1>5. ASSUME NEW c \in CPU, NEW d \in Device, Signal(c, d), UNCHANGED queue PROVE Served'
    <2>1. \A x \in CPU : gate[x].at # "idle" => gate'[x] = gate[x] BY <1>5, SignalKeeps
    <2> QED BY <1>5, <2>1 DEF Served
  <1>6. CASE OtherSignal BY <1>5, <1>6 DEF OtherSignal, Device
  <1>7. CASE Recover
    <2>1. UNCHANGED queue BY <1>7 DEF Recover
    <2>2. UNCHANGED gate \/ \E c \in CPU : Signal(c, "target") BY <1>7 DEF Recover
    <2>3. CASE UNCHANGED gate BY <2>1, <2>3 DEF Served
    <2> QED BY <1>5, <2>1, <2>2, <2>3 DEF Device
  <1>8. ASSUME NEW c \in CPU, Wakeup(c) PROVE Served'
    BY <1>0, <1>8, WakeupReaches DEF Served
  <1>9. ASSUME NEW c \in CPU, CompareAndSwap(c) PROVE Served'
    BY <1>0, <1>9 DEF CompareAndSwap
  <1>10. CASE Disarmed BY <1>10, DisarmedQueue DEF Served
  <1> QED BY <1>1, <1>2, <1>3, <1>4, <1>6, <1>7, <1>8, <1>9, <1>10
          DEF Next, Environment, Kernel, Run, Aside

\* The worker's second look is kept by every step.
LEMMA RecheckStep ==
  ASSUME TypeOK, Rechecks, [Next]_vars PROVE Rechecks'
  <1> USE DEF Rechecks
  <1>1. CASE Aside \/ UNCHANGED vars BY <1>1, AsideStep DEF vars
  <1>2. CASE Publish BY <1>2, PublishStep
  <1>3. CASE Work BY <1>3, WorkStep
  <1>4. CASE QemuExits \/ OtherSignal \/ Recover BY <1>4 DEF QemuExits, OtherSignal, Recover
  <1>5. ASSUME NEW c \in CPU, Wakeup(c) \/ CompareAndSwap(c) PROVE Rechecks'
    BY <1>5, HandlerQueue
  <1>6. CASE Disarmed BY <1>6, DisarmedQueue
  <1> QED BY <1>1, <1>2, <1>3, <1>4, <1>5, <1>6 DEF Next, Environment, Kernel, Run, Aside

\* The used index moves only while the worker runs.
LEMMA MovedStep ==
  ASSUME TypeOK, [Next]_vars, queue'.moved PROVE queue.moved \/ Served'
  <1>1. CASE Aside \/ UNCHANGED vars BY <1>1, AsideStep DEF vars
  <1>2. CASE Publish BY <1>2, PublishStep
  <1>3. CASE Work BY <1>3, WorkStep DEF Served
  <1>4. CASE QemuExits \/ OtherSignal \/ Recover BY <1>4 DEF QemuExits, OtherSignal, Recover
  <1>5. ASSUME NEW c \in CPU, Wakeup(c) \/ CompareAndSwap(c) PROVE queue.moved \/ Served'
    BY <1>5, HandlerQueue
  <1>6. CASE Disarmed BY <1>6, DisarmedQueue
  <1> QED BY <1>1, <1>2, <1>3, <1>4, <1>5, <1>6 DEF Next, Environment, Kernel, Run, Aside

\* Where the controller's conclusions come from: the baseline from the
\* disarmed module, progress from the baseline, success from the recovery.
Concludes ==
  /\ ctl'.baseline => ctl.baseline \/ ~queue'.moved
  /\ ctl'.recovered => ctl'.baseline /\ (ctl.recovered \/ (ctl.baseline /\ queue.moved))
  /\ ctl'.pc = "ended" /\ ctl'.result = "ok" /\ ~ctl'.cleanup =>
       \/ ctl.pc = "ended" /\ ctl.result = "ok" /\ ~ctl.cleanup
       \/ ctl.recovered \/ ~qemu' \/ \E c \in CPU : Signal(c, "target")

\* Every step of the system draws its conclusions so.
LEMMA ConcludesStep ==
  ASSUME TypeOK, HandlerInv, ControlInv, QueueInv, [Next]_vars PROVE Concludes
  <1> USE DEF Concludes, QueueInv
  <1>1. CASE Quiet BY <1>1, QuietStep
  <1>2. CASE DisarmBegins \/ DisarmEnds \/ ExitBegins \/ ExitEnds BY <1>2, LifeStep
  <1>3. CASE DeleteModule BY <1>3, DeleteStep DEF Goes, Is
  <1>4. CASE Load BY <1>4, LoadStep DEF Load, Ends, Is
  <1>5. CASE Control
    <2>0. UNCHANGED <<clock, kern, dropped, qemu>> BY <1>5, ControlStep
    <2>1. CASE Begin BY <2>0, <2>1, BeginStep DEF Begin, Is
    <2>2. CASE Kill BY <2>0, <2>2, KillStep DEF Is
    <2>3. CASE Prepare BY <2>0, <2>3, PrepareStep DEF Ends, Is
    <2>4. CASE Arm BY <2>0, <2>4, ArmStep DEF Is
    <2>5. CASE Loop BY <2>0, <2>5, LoopStep DEF Returns, Goes, Is
    <2>6. CASE ReadStats BY <2>0, <2>6, ReadStatsStep DEF Returns, Is
    <2>7. CASE UnloadFails BY <2>0, <2>7, UnloadFailsStep DEF Ends, Returns, Is
    <2>8. CASE Disarmed
      <3>1. ~queue'.moved \/ queue' = queue BY <2>8, DisarmedQueue
      <3>2. queue' = [queue EXCEPT !.moved = FALSE] => ~queue'.moved BY DEF TypeOK, Queues
      <3> QED BY <2>8, <3>2, DisarmedStep DEF Is
    <2>9. CASE Check BY <2>0, <2>9, CheckStep DEF Returns, Goes, Is
    <2>10. CASE Defer BY <2>0, <2>10, DeferStep DEF Goes, Is
    <2>11. CASE DeferUnloaded BY <2>0, <2>11, DeferUnloadedStep DEF Ends, Is
    <2>12. CASE Recover BY <2>0, <2>12, RecoverStep DEF Ends, Is
    <2> QED BY <1>5, <2>1, <2>2, <2>3, <2>4, <2>5, <2>6, <2>7, <2>8, <2>9, <2>10, <2>11, <2>12
            DEF Control
  <1>6. CASE UNCHANGED vars BY <1>6 DEF vars
  <1> QED BY <1>1, <1>2, <1>3, <1>4, <1>5, <1>6 DEF Next, Kernel, Run, Quiet, Control

\* QEMU does not come back.
LEMMA QemuStep == [Next]_vars /\ qemu' => qemu
  <1>1. Quiet /\ qemu' => qemu
    BY DEF Quiet, Environment, Tick, Publish, Work, QemuExits, Reuse, OtherSignal,
           Wakeup, CompareAndSwap
  <1>2. DisarmBegins \/ DisarmEnds \/ ExitBegins \/ ExitEnds \/ DeleteModule \/ Load =>
          qemu' = qemu
    BY DEF DisarmBegins, DisarmEnds, ExitBegins, ExitEnds, KernelStep, DeleteModule, Load
  <1> QED BY <1>1, <1>2, ControlStep DEF Next, Kernel, Run, Quiet, Control, vars

\* Progress, or the kick of the recovery, leaves a queue that is served.
LEMMA QueueStep ==
  ASSUME TypeOK, HandlerInv, ControlInv, QueueInv, [Next]_vars
  PROVE  QueueInv'
  <1>1. Concludes BY ConcludesStep
  <1>2. Rechecks' BY RecheckStep DEF QueueInv
  <1>3. kern.module = "absent" /\ Served => Served' BY ServedStable DEF QueueInv
  <1>4. ctl.baseline => kern.module = "absent" BY DEF ControlInv, LoadedInv
  <1>5. ctl'.recovered => ctl'.baseline /\ Served' BY <1>1, <1>3, <1>4 DEF Concludes, QueueInv
  <1>6. ctl'.baseline /\ queue'.moved => Served'
    <2>1. queue'.moved => queue.moved \/ Served' BY MovedStep
    <2> QED BY <1>1, <1>3, <1>4, <2>1 DEF Concludes, QueueInv
  <1>7. ASSUME ctl'.pc = "ended", ctl'.result = "ok", ~ctl'.cleanup, qemu' PROVE Served'
    <2>1. qemu BY <1>7, QemuStep
    <2>2. CASE ctl.pc = "ended" /\ ctl.result = "ok" /\ ~ctl.cleanup
      BY <1>3, <2>1, <2>2 DEF QueueInv, ControlInv, LoadedInv
    <2>3. CASE ctl.recovered BY <1>3, <1>4, <2>3 DEF QueueInv
    <2>4. ASSUME NEW c \in CPU, Signal(c, "target") PROVE Served'
      <3>1. gate'[c].at = "wakeup" /\ gate'[c].dev = "target"
        BY <2>4, SignalKeeps DEF Device
      <3> QED BY <3>1 DEF Served
    <2> QED BY <1>1, <1>7, <2>2, <2>3, <2>4 DEF Concludes
  <1> QED BY <1>2, <1>5, <1>6, <1>7 DEF QueueInv

\* The inductive invariant holds at the start.
LEMMA InitInv == Init => IInv
  <1> SUFFICES ASSUME Init PROVE IInv OBVIOUS
  <1>1. TypeOK BY InitType
  <1>2. /\ ctl \in Controllers /\ ctl.pc = "ended" /\ ctl.result = "none"
        /\ ~ctl.baseline /\ ~ctl.recovered
    BY FreshRunIs DEF Init, Is
  <1>3. DropInv BY FaultAssumption DEF Init, DropInv
  <1>4. \A c \in CPU : gate[c].at = "idle" BY DEF Init, IdleCPU
  <1>5. HandlerInv BY <1>4 DEF Init, NoModule, HandlerInv
  <1>6. WaiterInv BY <1>2, <1>4 DEF Init, NoModule, WaiterInv
  <1>7. ControlInv BY <1>2 DEF Init, NoModule, ControlInv, ResultInv, LoadedInv, WindowInv
  <1>8. QueueInv BY <1>2 DEF Init, QueueInv, Rechecks
  <1> QED BY <1>1, <1>3, <1>5, <1>6, <1>7, <1>8 DEF IInv

\* Every step keeps the types.
LEMMA TypeStep == ASSUME TypeOK, [Next]_vars PROVE TypeOK'
  <1>1. CASE UNCHANGED vars BY <1>1 DEF vars, TypeOK
  <1> QED BY <1>1, EnvType, KernelType, RunType DEF Next

\* Every step keeps the inductive invariant.
LEMMA NextInv == IInv /\ [Next]_vars => IInv'
  <1> SUFFICES ASSUME IInv, [Next]_vars PROVE IInv' OBVIOUS
  <1>1. TypeOK' /\ DropInv' BY TypeStep, DropStep DEF IInv
  <1>2. HandlerInv' /\ WaiterInv' BY HandlerStep, WaiterStep DEF IInv
  <1>3. ControlInv' BY ResultStep, LoadedStep, WindowStep DEF IInv, ControlInv
  <1>4. QueueInv' BY QueueStep DEF IInv
  <1> QED BY <1>1, <1>2, <1>3, <1>4 DEF IInv

\* The inductive invariant holds in every reachable state.
THEOREM Invariant == Spec => []IInv
  BY InitInv, NextInv, PTL DEF Spec

\* Every variable keeps its type, the vhost file is pinned exactly while there
\* is a module, and what the controller takes for loaded is loaded.
THEOREM TypeCorrect == Spec => []TypeOK
  <1>1. IInv => TypeOK BY DEF IInv
  <1> QED BY <1>1, Invariant, PTL

\* The compare-and-exchange loop of the handler suppresses at most Drops
\* wakeups per load, on any number of CPUs.
THEOREM DropsCorrect == Spec => []DropsBounded
  <1>1. IInv => DropsBounded BY DEF IInv, DropInv, DropsBounded
  <1> QED BY <1>1, Invariant, PTL

\* fault_exit and the delayed disarm, in any order, leave no probe, no handler
\* in flight and no work of a module that is gone.
THEOREM GoneIsQuiet == Spec => []ModuleGoneIsQuiet
  <1>1. IInv => ModuleGoneIsQuiet BY DEF IInv, HandlerInv, ModuleGoneIsQuiet
  <1> QED BY <1>1, Invariant, PTL

\* The pinned file keeps the waiter's address: no wakeup of another device
\* enters the gate.
THEOREM TargetGated == Spec => []OnlyTargetGated
  <1>1. IInv => OnlyTargetGated
    <2> SUFFICES ASSUME IInv, NEW c \in CPU, gate[c].at = "gate" PROVE gate[c].dev = "target"
      BY DEF OnlyTargetGated
    <2>1. kern.active BY DEF IInv, HandlerInv
    <2>2. kern.module # "absent" BY <2>1 DEF IInv, HandlerInv
    <2>3. waiter = "target" BY <2>2 DEF IInv, WaiterInv
    <2>4. gate[c].dev # "other" BY <2>3 DEF IInv, WaiterInv
    <2>5. gate[c].dev \in Device BY DEF IInv, TypeOK, Wakeups
    <2> QED BY <2>4, <2>5 DEF Device
  <1> QED BY <1>1, Invariant, PTL

\* A run that returns nil leaves no queue stuck.
THEOREM NoStallLeft == Spec => []SuccessLeavesNoStall
  <1>1. IInv => SuccessLeavesNoStall
    BY DEF IInv, QueueInv, Served, SuccessLeavesNoStall, Stuck
  <1> QED BY <1>1, Invariant, PTL

\* "injection did not occur" is said only when no wakeup was suppressed, unless
\* a handler was in flight when the counter was read.
THEOREM VerdictCorrect == Spec => []VerdictIsTrue
  <1>1. IInv => VerdictIsTrue
    BY DEF IInv, ControlInv, ResultInv, DropInv, VerdictIsTrue
  <1> QED BY <1>1, Invariant, PTL

=============================================================================
