# A TLA+ model of virtio-net-recovery

vhost-watch observes the TX queues of QEMU's vhost-net devices from the host.
When a guest has published descriptors, and the vhost worker has missed the
wakeup and does nothing, it writes the queue's kick eventfd once more.  The
risk of such a tool is that it acts wrongly: on a queue that is fine, on a
file that is not the queue's eventfd any more, too often, or not at all.  The
modules here describe the program as far as that risk goes; TLC checks them on
small instances, and TLAPS proves every safety property of the passing runs for
all instances.

Line numbers refer to `src/`; `PROJECT.json` maps every definition to its lines.

## Inventory

| Component | State | Operations | Interacts with |
|---|---|---|---|
| Detector (`internal/watch/model.go`) | per FD slot: age, last identity and indices, reported, last kick, attempts | Observe, Allowed, Kicked | owned by a loop |
| Sampling loop (`run_linux.go`, run) | `states`, `snapshots`, `pending`, `lastInventory`, `vhosts` | discovery, one visit per queue, verification of kicks, error path, wait | Target, BPF, Rekick, logger |
| Batched loop (`batched_linux.go`, `progress.go`) | per queue: RingProgress, candidate, verification, reported; `budgets` | discovery, batch read, live confirmation, kick | the same |
| Target and Rekick (`target_linux.go`) | pidfd, short-lived duplicates | Inventory, Duplicate, Ring, Rekick | QEMU through /proc and pidfd_getfd |
| BPF snapshot (`bpf_linux.go`, `agent/watch.bpf.c`) | sample slot, mutex | Snapshot | the kernel's vhost structures, all workers |
| BPF stage tracing (the same files) | maps stats, contexts, works, waits, inflight | five probes, Counters, Forget | kernel threads, concurrently |
| Manager (`manager_linux.go`) | workers, retired | start, drain, retire, remove, discovery failure | one goroutine per VM, Selector |
| Selector (`internal/selection`) | anchored start times of explicit PIDs | Resolve, Check | /proc, libvirt's status files |
| Fault module (`vhost_fault.c`) | armed, drop count, window | gate on the wakeup, disarm, init, exit | the kernel's wakeup path |
| Fault controller (`internal/fault`) | loaded, recovered, baseline | load, window, unload, deferred recovery | the module, Rekick |
| One-shot commands (`manager_linux.go`, `rescue`, `list_linux.go`) | failures, written | `--once`, `--list-queues` over all targets | Selector, Rekick |
| Logger, command lines, deployment | a sticky error; none | | |

What is hard: QEMU runs concurrently with every system call of a recovery, and
may close, reuse and rewire descriptors at any point; readings fail at any
point of a visit; verdicts depend on long runs of samples; time passes between
the time that is read and its use; budgets and verifications have to survive
the replacement of a queue, and not to be confused by it.  `hazards` in
`PROJECT.json` lists these at their lines.

What makes each part correct: the detector judges a queue stalled exactly when
it earned it; the loops answer a stall within the budget and report it once;
an event "recovered" is about the queue that was kicked; a recovery writes the
right eventfd or none, does not block and leaks nothing; the manager runs one
worker per live target and always comes to its end; the tracing counters do
not go wrong under races; the fault controller leaves no module loaded and no
queue without its kick.

## Modules

**Detector** holds the operators of `model.go` on a record: the uint16
arithmetic (`Distance`, modulo `IndexMod`), the conditions of `Observe`
(`Quiet`, `Unmoved`), the budget, and `WithinBudget`, the budget as advertised.
No state of its own; the loops keep one record per FD.  Times are integers, and
`math.Inf(-1)` is the constant `NegInf`.

**Watch** is the loop of `run` in its three modes, with the maps of the code as
functions on `FD` (`None`, `NoIdentity`: no entry).  One action per stretch of
the loop between two points at which something else can happen:
`BeginIteration` (checks, time, discovery), `ReadQueue` (a visit up to the
decision), `RekickWrites` and `RekickFails`, `ReadFails` (with both places
where a reading may fail), `EndIteration`, `Wait`, `TopReturns`.  A failed log
is a choice of the action that logs.  `Restart` is what the manager's restart
does to the state.  QEMU, guest and vhost are an arbitrary environment: a
reading returns any member of `Samples`.  `Tick` may happen between any two
steps, while the loop goes on using the time `now`, as the code does.
`hist`, `kicks` and `lifetime` are histories for the properties; `kicks` has of
each kick the time it is booked with and the time it was written.

**Rekick** is one recovery attempt, system call by system call, from the first
duplicate of the vhost FD to the write.  The five callers differ in what
precedes `Rekick` (`GuardedCall`, `BatchedCall`, `PeriodicCall`, `RescueCall`,
`RecoverCall`).  QEMU and the kernel are actions of their own: open, close,
dup, `VHOST_SET_VRING_KICK` in its three parts, reconfiguration, exit.  A
snapshot is two steps, since the probe holds no lock of the queue: the kick
file with its context and id, then the rest.  After QEMU's exit
/proc/PID may show anything, because the number may be reused.

**KickAuthority** is the promise of a recovery in the abstract: a right to
write is only granted for an eventfd that a TX worker waits on at that
instant, only a granted eventfd is written, and a right is used or dropped.
Rekick implements it under the mapping `waiter <- polled, grant <- Granted`,
the pinned eventfd after a successful comparison.

**Batched** is the loop of `runBatched`: `Progress` and `Ready` are
RingProgress, `Live` a visit with a live reading, `Judged` its verdict.  Two
samples of one identity have the same ring size, since Identity() contains it.

**LostWakeup** composes a guest, the vhost worker of its queue and the guarded
loop, with the operators of Detector.  The guest publishes whenever there is
room and notifies only when it was asked to; the worker drains, asks for
notifications and looks again; any wakeup, that of a kick too, may get lost.
The loop's snapshot and its ring reading are two steps, so samples are torn.
Tracing is off (the default), so `busy` is the queued flag.  Readings succeed
here; Watch has the error paths.

**SnapshotService** is the promise of a snapshot to concurrent callers: it
fails, or shows the caller's own device as it was during the call.
**SnapshotChannel** is `BPF.Snapshot` and the probe `snapshot_tx`: one slot
shared by the workers of all VMs, `snapshotMu`, the zeroing, the ioctl that
makes the probe fill the slot, the lookup.  QEMU issues the same ioctl, and the
probe filters it by its owner.  It implements SnapshotService under the
identity mapping (it extends it).

**TraceStages** is the accounting of active handlers under `--trace-stages`:
`handler_enter`, `handler_exit`, the entries that `snapshot_tx` creates and
`BPF.Forget` deletes, one map operation per step.  The kernel has one thread
at a time in the handler of a queue, and so has the run.  An FD vanishes
(`Vanish`) only without a handler: closing the device waits for it.  An
attachment may be replaced while a handler runs.

**Manager** is `RunSelected` with the selector and the prologue of each worker.
A process is its start time; `/proc/PID/stat` and `/proc/PID/cmdline` are two
steps of `Resolve` and of `Check`, and processes exit, are born and reuse PIDs in
between.  Status files lag behind.  A worker goes through its start delay, the
PID lock, the pidfd, the two reads of `Check` and its run, whose end is a
step (`EndRun`: after a cancellation, after the exit of the process, or with
an error).  `Visit`, `Removed`, `Drain`, `StartWorkers` and the two arms of the
select are the manager's round; `ReadDirFails` the outage of discovery;
`CancelAll` and `Return` its deferred function.

**Once** is the other half of `RunSelected`: `--once` and `--list-queues`, a
loop over VMs and in it a loop over slots, any call of which may fail.

**Fault** is `vhost_fault.c` and `fault.Run` together with a guest and a vhost
worker.  A wakeup on a CPU passes `Wakeup` (probe, window, first read of
the counter) and then the compare-and-exchange, pass by pass; `unregister_kprobe`
takes two steps, the removal and the wait for handlers.  The controller may
fail or be killed at every step, and be run again, with `--cleanup` too.  When
nobody holds the vhost file its waiter's address goes to another device.

The **MC** modules instantiate the others for TLC.
**WatchProofs, RekickProofs, SnapshotChannelProofs, BatchedProofs, ManagerProofs,
FaultProofs, OnceProofs, LostWakeupProofs** hold the proofs about the module in
their name.  Operators with a comment
"Mutant of ..." are wrong variants of their neighbours; they are there to show
that the properties notice them, and nothing uses them otherwise.

## Runs

| Run | Question | Bounds |
|---|---|---|
| watch_guarded | Do verdicts, reports and recoveries mean what they say, for every kind of sample and error?  Is the budget kept? | 1 FD, 7 samples, clock to 4, Threshold 2: a stall, its kick, its verification, and a replacement in between fit; an hour of 2 slides |
| watch_periodic | Cadence and events of periodic mode.  Does cancellation end it? | 1 FD, 2 samples, clock to 5 with a kick every 2 ticks, so that visits are due or not, one restart |
| lost_wakeup | Does a lost wakeup get its kick in time, and only a stuck queue one? | ring of 2, indices modulo 4, 3 lost wakeups, clock to 8 with an hour of 6: the budget fills and slides |
| rekick | Right eventfd, no blocking, no leak, refusals with a reason | 3 slots, 2 devices, 2 eventfds, 2 ids, 3 steps of QEMU: enough to close, reuse and rewire |
| batched | Are the two live confirmations real?  Do budgets outlive queues? | 1 FD that comes and goes, 5 samples, 3 ring readings, clock to 4, and to 8 for a stuck queue, with an hour of 7 |
| manager | Does each worker watch the process that was selected, are none lost, doubled or left behind, does shutdown end, is a restarted VM watched again? | 1 PID, 2 domains, by expression and by `--pid`, 3 disturbances (births, removed status files, outages, other agents, failed runs): enough for a VM, another one at its PID, and one failure |
| snapshot | Do concurrent snapshots keep apart?  Does every one return? | 2 callers, 2 devices, a change of each |
| once | Does success mean that all was done, and does a failure stay with its VM? | 3 VMs, 2 slots |
| fault | Drops, disarm against exit, address reuse, verdicts, with handlers that take any time | 2 CPUs, one drop, clock to 4, 2 runs of the controller |
| fault_live | Does the probe go away, does the stall end? | 1 CPU, 1 run, clock to 3 |
| trace_forget | (violated) Is a queue without a handler not busy? | 1 thread |
| watch_restart | (violated) Is the budget per queue, as documented? | one restart, a cooldown of 3 and one kick in an hour of 5 |

Why these bounds are enough.  Rings have two entries and indices wrap at 8, so
the sample `Backlog` spans the wrap; the impossible index of `Broken` exceeds the ring.  Larger rings and
the modulus 65536 differ in no comparison of the code.  Clocks, QEMU's steps
and restarts are bounded by `MaxClock`, `MaxChanges`, `MaxRuns`, `MaxEvents`,
`MaxLosses` and `LoadBy`.  The runs of SnapshotChannel and TraceStages check for
deadlock; the others turn it off: a run returns for good, and the bounded clock
stops the others.  The manager's run has one PID, since it
treats PIDs one by one and what is hard happens between two processes of one
number; the workers of several PIDs meet only in the lock of the snapshot
channel and in shutdown.  A VM that is restarted under another PID is, to the
manager, one target less and one more.  In the same way the loops treat
their FDs one by one, and their runs have one; the theorems are about any number.
In `batched` a kicked queue has to vanish, come back and be judged again before a
forgotten budget shows: kicked at 2, gone at 4, back at 6, judged at 8.  For
every sample and error that is too long, so the constraint `LongIfStuck` lets
only runs go beyond 4 ticks in which the queue, replaced or not, never moves,
nothing fails and no iteration is late.  The batch limit is not exceeded with one FD.  The
symmetries are over CPUs (fault), VMs (once), and devices, eventfds and ids
(rekick), none of which a step tells apart; no run with a liveness
property has one.

Fairness.  `FairSpec` of Watch is weak fairness of the loop's steps: the calls
of an iteration do not wait for anybody, the context is looked at on top of
each iteration and in the wait.  Time is not fair: cancellation has to end the
run even if the ticker never fires.

`FairSpec` of Manager is weak fairness of the manager and of each worker: the
ticker fires, and the loops look at their context and pidfd.  Go's select
chooses fairly when both the ticker and a done context are ready, hence strong
fairness of `SelectDone`.  `FairChannelSpec` adds strong fairness of `Acquire`:
sync.Mutex hands over to a waiter that starves.  `FairSpec` of Fault has weak
fairness of time and of every CPU, the workqueue, the vhost worker and the
controller.  A handler ends after at most `Drops` more
passes of its loop, and none begins once the probe is removed, so
`unregister_kprobe` returns.  `fault_live` has one CPU to be short; with two its
properties hold as well.  The guest and the signal to stop have no fairness.

Findings.

1. The budget is kept per call of `run`; the manager's restart of a failed
   worker empties it (`watch_restart`): as soon as a queue has been stuck for
   `Threshold` once more it is kicked again, within the cooldown of the kick
   before the restart and beyond the maximum of the hour.  The README promises
   the budget per queue.
2. With `--trace-stages`, a queue whose attachment is replaced while its handler
   runs is forgotten and counted anew; the exit of the handler takes `active`
   below zero, and the queue is busy until it is forgotten again
   (`trace_forget`).  Its stalls are not noticed.

Observations without a run of their own.  `Detector.Observe` begins the age
of a stall at an idle sample and not at the first sample with a backlog, so a
kick may come one gap between samples early; `KickIsDue` states the bound that
does hold, `Threshold` less one interval.  The test of the batched loop's
counterpart (`progress_test.go:8`) excludes this.  A kick is booked with the time of its iteration and may be
written later, so an hour of real time may see one kick more than the maximum, and
two writes may be closer than the cooldown; `BudgetHolds` of Watch says by how
much.  (That of Batched is in the time of the loop.)  The fault controller's
"injection did not occur" may be false when a handler was let through within the
window and drops its wakeup only after the counter was read; `VerdictIsTrue` is
about all other runs (`raced`).  And `--once` leaves a VM at its
first failing slot, without a kick for the later ones, where `README.md:61` has
"every selected TX slot"; `FailuresAreIsolated` states what holds: other VMs are
not affected, and the command reports the failure.

## Proofs

None of the properties below but the type invariants is inductive.  Most speak
of a history (what was sampled, reported, kicked), while the code decides on a
few fields that summarise it, often a step or more before it acts.  Each proof
therefore has an invariant that says what every field stands for, a lemma per
action that the action keeps it, and the properties as consequences.  Every such
invariant was checked by TLC, with the bounds of the run of its module, before it
was proved.

*WatchProofs*, for all sets of FDs and samples, all intervals and modes:

- `TypeCorrect`: `TypeOK` is inductive as it is.
- `BudgetCorrect`: `BudgetHolds` speaks of the history of kicks, the code
  decides on the detector's pruned list, one step before the write.
  `BudgetInv` relates the two (`Account`: what the detector forgot is an hour
  old, nothing is later than its last kick) and remembers that a decided kick
  was affordable.  `OneMoreKick` is the counting argument.  That is about the
  times kicks are booked with (`TimesHold`).  A write may be later than that, but
  not later than the kick that follows is booked (`Timely`, kept in `DelayInv`), so
  that in an hour of writes at most one is booked before it (`OneLateWrite`).
- `EarnedCorrect`: `AgeInv` says what a detector's age means: the history has an
  entry, at least as old as the age says, after which nothing broke the
  stretch.
- `RecoveryCorrect`: `RecoveryInv` ties a pending verification to the kick in
  the history that opened it, and says that nothing after that kick failed,
  vanished or was replaced while the verification stands.
- `NoticedCorrect` and `ReportedOnce` share `TrailInv`: the detector remembers
  the last sample, its age is no younger than the stretch that ends there, and
  its mark is set exactly when that stretch holds a report, which is then the
  only one.
- `CadenceCorrect`: `CadenceInv` says that the time periodic mode keeps is that
  of the last kick in the history, and that a sample at which a kick was due is
  followed by the kick or its failure.

*RekickProofs*, for any number of descriptors and devices and any
behaviour of QEMU:

- `IndInv`: types, uniqueness of the ids of live eventfds, and what the
  attempt knows of its pinned eventfd.  The code compares ids; the promise is
  about objects.  The step from one to the other needs that both eventfds are
  alive at the recheck: one through the attempt's own duplicate, the other
  through the pinned device.  A pinned eventfd cannot be recycled.
- `TypeCorrect`, `NeverBlockedCorrect` and `KickAuthorised`, the refinement of
  KickAuthority, follow.
- `RefusalCorrect`: `CalmInv` says of an attempt that nothing disturbed and whose
  queue is recoverable what each stage has found: the stages passed (`Passed`),
  the device duplicated (`Attached`), the slots scanned (`Scanned`), the eventfd
  in hand.  Hence each check on the way succeeds (`GoesOn`).  That the scan picks
  the lowest slot takes a least element, from `WFMin`.

*SnapshotChannelProofs*, for any number of callers, devices and changes:

- `IInv` is `TypeOK` (whoever is between `Acquire` and `Return` is the mutex's
  holder, so there is one), `SlotIsHolders`, and that a call began no later
  than the present of its device, without which the probe's sample could not
  be placed within the call.
- `TypeCorrect`, `SlotCorrect` and `SnapshotsHonest`, the refinement of
  SnapshotService, follow.

*BatchedProofs*, for all sets of FDs, samples and ring readings:

- `TypeCorrect`: `TypeOK` is inductive; its last conjunct, on the mark of a
  reported stall, is what `ReportedOnce` needs of the ring.
- `BudgetCorrect`: as in Watch, but the budget belongs to the FD and outlives its
  queues (`Books`), which is where a fresh budget would go wrong.
- `HistoryCorrect`: age, candidate, verification and mark of a queue each stand
  for an entry of the history of its FD.  `ConfirmedCorrect`,
  `RecoveryCorrect` and `ReportedOnce` follow.  The proof showed the earlier form
  of `StallReportedOnce` to be false beyond the bound of the run: a ring that is
  seen empty with an unmoved used index, between live readings that agree, clears
  the mark, and the stall is reported again.  That is a new stall, and the
  property now says so (`Persists`).

*ManagerProofs*, for any PIDs, domains and number of disturbances:

- `IInv` has start times in the past (`PastInv`), what was read of a process
  while it was alive (`IdentityInv`: a process keeps its UUID, and a pidfd its
  process), which workers a reconciliation has kept (`UniqueInv`), why a worker
  ended (`CauseInv`), and the anchors of explicit PIDs (`AnchorInv`).
- `TargetCorrect`: the two reads of `Check` are a moment apart, and only because
  the start time is read after the pidfd was opened do they speak of one process.
- `TypeCorrect`, `ExplicitStays`, `OneWorker`, `BPFLast` and `CauseCorrect` are the
  other properties of the run.

*FaultProofs*, for any number of CPUs, drops and runs of the controller:

- `DropInv` (every lost wakeup was counted by a successful exchange),
  `HandlerInv` (a handler in flight keeps the module)
  and `WaiterInv` (the address changes owner only when nobody holds the file) are
  about the kernel alone and give `DropsCorrect`, `GoneIsQuiet` and
  `TargetGated`, whatever the controller does.
- `ControlInv` and `QueueInv` add what the controller knows: its window ends no
  earlier than the module's, so the counter it reads is final unless a handler is
  in flight (`WindowInv`, `VerdictCorrect`),
  and what it takes for recovered is served and stays so (`NoStallLeft`).

*OnceProofs*, for any number of VMs and slots: `SuccessComplete` and
`FailuresIsolated`.  The second is a counting argument: `CountInv` bounds the VMs
behind the loop that were not served by the failures so far, at every step and
not only at the end.

*LostWakeupProofs*, for every size of ring and index, every threshold and budget
and any number of lost wakeups:

- `ReadInv` says how far the worker has got since the detector's sample.
  Indices only tell positions modulo `IndexMod`; that fewer than
  `IndexMod` descriptors are consumed between two snapshots (`TypeInv`) makes equal
  indices mean that nothing moved (`AheadIs`), although samples are torn.
- `KickDue` follows from `EmptyInv`: while the age of a stall grows and nothing
  moved, the queue was last empty at most one interval after the age began.
- `StallCured` follows from `StuckInv`, the converse (the age begins at most one
  interval after the queue got stuck), and from `BudgetInv`, by which a refusal
  of the detector is one of the advertised budget.

Assumptions are the named `ASSUME`s of the modules: positive intervals and
budgets (`Config.Validate`), indices below `IndexMod`, rings of at least one
entry, equal ring sizes of equal identities (Batched), and tokens such as `None`
that are not values.  Beyond those the
model itself assumes of the kernel and of QEMU: eventfd ids are unique among live
eventfds; the probe reads the kick file, its context and its id without a
rewiring in between; `O_NONBLOCK` of an eventfd is not changed after its
creation (the code cannot exclude it, and `NeverBlocked` rests on it); no two
processes have the same PID and start time, and libvirt runs one process of a
domain at a time; fewer than `IndexMod` descriptors are consumed between two
snapshots (LostWakeup: a queue that completes exactly 65536 looks unmoved);
closing a vhost device waits for its handler (TraceStages).  Wakeups of one waiter are serialised by
the kernel; Fault does not assume it.

The type invariants of Watch and SnapshotChannel are proved and no run repeats them;
those of Rekick, Batched, Manager and Fault are part of their runs.

Only model-checked, being liveness under fairness and out of the prover's reach:
`CancelStops`, `ShutdownEnds`, `FollowsRestarts`, `SnapshotReturns`,
`ProbeExpires`, `StallEnds`.

## Not modelled

The summary and its rows, the contents of log records; floating-point rounding
of times; the stage counters that are only logged (signals, writes, wakeups) with
the maps contexts and waits, which only lead to them; in Watch the values of the
handler counters (a sample's `busy` is arbitrary there); loading and attaching
the BPF programs and building the kernel module, which happen once and fail as a
whole; the choice of the address the fault probe goes to; the parsing of
arguments, `/proc` files, status XML and regular expressions, which is string
handling without state; `--list`, which prints what Resolve returned; build and
deployment.

## Plan

Done: *Detector, Watch, Rekick* with *KickAuthority, Batched*; *Manager* with the
selector; *SnapshotChannel* with *SnapshotService*; *TraceStages*; *Fault*;
*Once*; the composition *LostWakeup*; proofs of all safety properties of the
passing runs.

Left, in this order:

1. Safety facts that the liveness properties rest on: the manager in shutdown
   has cancelled every worker, so that each of them comes to its end; a probe
   that is registered has its delayed work pending.
2. An abstract specification of what a loop promises per FD (sampled, stalled,
   kicked, verified), implemented by both Watch and Batched.
