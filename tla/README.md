# TLA+ models of entangled

`entangled` is a desktop virtual machine monitor: one process runs one VM, one
host thread per vCPU, device workers, a window and a supervisor. These modules
model the parts of it that are hardest to test: how all these threads are
stopped, held, reset, saved and released together, how a device's kicks and
interrupts find their way between the guest and the threads while both sides
rewire them, and what a suspended VM comes back to after crashes.

## The system and its parts

| Part | Source | State | Operations | Models |
|---|---|---|---|---|
| pause gate | `virtio-core/src/quiesce.rs` | `paused`, `in_flight`, a mutex | pause, wait_until_idle, resume, wait_while_paused, try_enter, Pass::drop | `QuiesceGate`, `Quiesce` |
| lifecycle seam | `vmm-core/src/lifecycle.rs` | phase, arrivals, acknowledgements, saved states, reset latch, storm counter, attention flag | pause, resume, reset, save, shutdown, checkpoint, request/take_guest_reset, vcpu_finished | `Lifecycle` |
| vCPU run loop | `vmm-core/src/vcpu.rs` | where each thread is, why it is parked | the loop, park, triple fault, stop, join | `Lifecycle` |
| VM state machine | `vmm-core/src/state.rs` | `VmState` | transition | `Supervisor` |
| supervisor, teardown | `apps/entangled/src/run_vm.rs` | requests, SHUTDOWN_REQUESTED, the thread | serve, suspend, should_stop, teardown | `Supervisor` |
| host-wake service | `virtio-core/src/host_wake.rs` | pending bits, signal, thread | raise, service_loop, reset, shutdown | `HostWake` |
| queue-notify offload | `machine-x86/src/notify.rs`, `kick_worker.rs`, `virtio_pci.rs` | ioeventfds, the notifier's registration, the transport's offload mask | attach, rebase, release, kick, worker_loop, reset, load_state | `Kicks` |
| interrupts, MSI-X | `virtio-core/src/{msix,interrupt}.rs` | control word, vectors, mask bits, PBA, ISR | signal, deliver, flush_pending, write_table, clear, power_on_reset | `Msix` |
| virtio transport, queue | `virtio-core/src/{state,status,queue}.rs` | status, features, queue geometry, device position | write_status, write_driver_features, edit_selected_queue, activate_at, reset, save, load | `Transport` |
| virtio-block | `virtio-block/src/device.rs` | the queue, the image | drain, do_in, do_out, do_flush, reset | `Transport` |
| snapshot and restore | `vm-snapshot/src/{vm,format,meta}.rs`, `run_vm.rs` | the files, the fingerprint | save_partial, open, check, restore_machine | `Suspend` |
| x86 machine | `machine-x86/src` | latches, interrupt controllers, timers, flash | port and MMIO handlers | the reset and power-off latches, in `Lifecycle` |
| other devices | `virtio-{net,gpu,9p,sound,input,console,balloon}`, `ahci`, `hda` | per device | requests | not modelled |
| display, control API, disk images, media, boot loaders, arm64 machine, manager | `display`, `control-api`, `disk-image`, `debian-media`, `linux-boot`, `uefi-boot`, `machine-arm64`, `apps/manager` | | | not modelled |

How they interact. The supervisor thread is the only caller of the seam's
pause, resume, reset and save. Each of these raises `attention`, kicks the vCPU
threads out of the hypervisor and waits at a timed barrier until all of them
are parked in `checkpoint()`; then it closes the pause gate, which every worker
passes before each unit of work, and goes on. Another thread
(`VcpuThreads::join_or_stop`) stops the VM at any moment, in the middle of any
of these. The guest interferes by resetting itself, powering off,
triple-faulting or ending. Device threads wake synchronous devices through the
host-wake service, whose own thread is a user of the gate and is stopped and
started again in a machine reset. A guest's kick becomes an eventfd signal at
an address the guest itself may move; a worker takes it through the gate to the
device, which answers by an interrupt through the vectors the guest itself
masks. A suspend parks all of this, writes it to a file and ends the process.

What makes it hard: the gate is an atomic flag and a counter read in different
orders by different threads; barriers time out and vCPUs arrive late, in the
next operation; the stopper writes the same phase as the requester; latches of
the guest outlive the boot they belong to; each operation can fail half-way;
the kernel, the notifier and the transport each have their own record of who
serves a kick; a mask is read before the lock and a message sent after it; and a
process can die between any two writes.

## Modules

| Module | Contents |
|---|---|
| `QuiesceGate` | The gate as it is promised: open, closing, closed, and who is at work. |
| `Quiesce` | The gate as it is written: one action per atomic access and critical section. Implements `QuiesceGate`. |
| `QuiesceProof` | Proofs about `Quiesce`. |
| `Lifecycle`, `LifecycleProof`, `LifecycleCalls` | The seam, the vCPU threads and the stopper; proofs about who runs in which phase; proofs about what a call leaves behind. |
| `Supervisor`, `SupervisorProof` | Extends `Lifecycle` by the supervisor thread, the requests, `VmState` and the teardown; its proofs, on top of the seam's. |
| `HostWake`, `HostWakeProof` | The host-wake service and its proofs. |
| `Msix`, `MsixProof` | The interrupts of one virtio function and their proofs. |
| `Kicks`, `KicksProof` | Kicks on the virtio-pci bus and their proofs. |
| `Transport` | One virtio-blk slot: registers, ring, image, and its half of save and load. |
| `Suspend`, `SuspendProof` | Extends `Transport` by the VM process, the snapshot file and the failing host; their proofs. |
| `MCQuiesce`, `MCLifecycle`, `MCSupervisor`, `MCHostWake`, `MCMsix`, `MCKicks`, `MCSuspend` | What TLC runs, with one `.cfg` per question. |

Definitions that begin with the comment *Mistake* are altered forms of the
action that follows them. No specification uses them; each makes some property
fail when it takes the action's place, which shows that the property depends
on the code it is about.

### Quiesce

`pc` places each user of the gate in `wait_while_paused()`, `try_enter()` or
its work. The fast path claims first and checks second (`Claim`, `Check`,
`DropRefused`); the slow path checks and then claims under the mutex
(`TakeLock`, `SlowStop`, `SlowCheck`, `SlowClaim`). The supervisor pauses,
settles (`Idle`, `GiveUp` at the deadline), tears a worker down on a paused VM
(`StopWorker`, `StopWake`, `Join`, from `kick_worker.rs`) and resumes; the
stopper opens the gate from another thread. Two abstractions:

* loads and stores interleave one at a time, so the model is sequentially
  consistent. The code uses acquire/release on the two atomics, which permits
  more; what the hardware adds is not covered;
* every wait on the condition variable is timed (`WAKE_POLL`), so a waiter may
  look again at any time, `notify_all` changes no state, and `wake()` is the
  acquisition and release of the mutex.

The history variable `settled` says that `wait_until_idle()` returned true and
the gate was not opened since. The refinement maps `paused` and `settled` to
the abstract gate's open, closing and closed, and the threads at `"working"` to
the abstract `busy`.

### Lifecycle

An action is one critical section of `Lifecycle::inner`, one access to
`attention` or `running` outside it, or one call into the machine. `pc[v]` is a
vCPU thread (`top`, `attn`, `flush`, `hold`, `saving`, `resetting`, `guest`,
`poll`, `parked`, `ended`, `done`), `rq` the requester inside its call, and
`stopper` the thread in `join_or_stop()`. `release()` is two actions because it
clears `attention` after it has let go of the lock; so is `shutdown()`. The
gate is the abstract one of `QuiesceGate`: `quiesce()` leaves it `closing` or
`closed`, since the code ignores whether it settled, and `prepare_save()` asks
again.

Left out or reduced:

* time. ACK_TIMEOUT may expire at any look at the barrier that is not met
  (`"timeout" \in Failures`), RESET_WAIT at any look that finds no attention,
  and the storm window passes by `WindowPasses`;
* CPU states, registers and pages: a vCPU is `fresh` (reset since the machine
  was) and `faulted` or not;
* `can_reset()` is true, as it is for the machine `run_vm` builds;
* the KVM back end is the one modelled;
* device handlers that run inside `flush_pending_exit()` do not latch a new
  reset: what they complete was started before.

The constants `Ops`, `GuestActs` and `Failures` choose what is asked for, what
the guest does and what fails, so that a question is asked with the
interference that matters to it and the rest off.

### Supervisor

The user's requests are a set of flags; the supervisor takes a save, a guest's
reset, a user's reset, then a pause (which swallows a resume) or a resume, in
this order, calls the seam and corrects `vmState` when the call returns.
`SeamStep` is every other step of `Lifecycle`, with the stopper allowed to begin
only when `should_stop` or the end of a vCPU lets it. Taking a request and
entering the seam are one step: nothing else reads the flags in between, and
what `suspend()` remembers of the phase is read together with the call, which
differs only when a stop falls between, where the resume it decides on is
refused anyway. `burst` counts the guest's resets since the window last passed.

### HostWake

`Raise` is the swap on the pending bit, `WakerSignal` the signal after it.
The service thread clears the signal, then scans the slots; `Notify` and
`Notified` are the beginning and end of `queue_notify(0)`. `reset()` and
`shutdown()` stop and join the thread; `reset()` also clears the bits one by
one, then the signal, and starts the thread again. `owed` records what was asked
for and not served since; `raced` that a wake was raised during a `clear()`.

### Msix

A signaller goes through `IsEnabled`, then `RaiseIsr` and `Trigger` on the line,
or `ReadVector`, `ReadMask`, `Deliver` and `Send`: the function mask is read
before the state lock is taken and the message sent after it is released. One
signaller (`Handler`) runs inside the transport lock, the `Threads` (a receive
worker) do not. A configuration write stores the control word first
(`WriteControl`) and has the transport flush after (`FlushPending`,
`SendClaimed`). `owed` is what was published and not told to the guest. The
message sink (KVM_SIGNAL_MSI) may refuse a message: `deliver()` hands the error
to the device, `send()` logs it, and neither sends it again. `refused` records
the sources whose event had no other carrier than such a message, and `Refusals`
bounds how many there are.
Assumed of the driver: it assigns vectors and moves between INTx and MSI-X
before DRIVER_OK. `LiveControl` lets it also flip the function mask of a live
device that has threads of its own; the run leaves it FALSE, and of the proofs
only that of `PendingIsDeferred` needs it FALSE.
Message addresses and data, and save and load, are not modelled.

### Kicks

`window` is what each BAR decodes, `kvm` what the kernel matches, `base` and
`held` the notifier's registration, `offloaded` the transport's. `Kick` is a
guest store: KVM looks its address up at once, and completes it into an eventfd
or leaves the guest. The exit reaches the transport later (`RegisterPath`), which
drops it if the queue is offloaded by then and runs the device if not.
`MoveBar` is the configuration write; the sweep after it, `reconcile_notify`,
visits slots one by one, releases every queue in two halves (`Deassign`,
`RestoreNotify`) and claims in two (`Register` or `Refused`, `MarkOffloaded`),
with kicks, exits, workers and other functions' drivers in between. `overtaken`
records a queue that is marked offloaded with an exit on its way. `Suspend` is
the save, the end of the process and the restore up to its sweep; `forgotten`
records the work it left behind. `Used` says which queues have a driver that
kicks them. Assumed of the guest: its configuration accesses are serialised, no
two functions are given the same window, and no kick of a function is on its way
while it writes that function's own BAR or command register - so the gap
between the two halves of a release, which `rebase()`'s comment is about, is met
by nobody. Writes to other functions are not held back.
The portable worker (`kick_worker.rs`) serves hosts without ioeventfd
and appears only as a user of the gate, in `Quiesce`.

### Transport and Suspend

`tp` is the transport with its device (`next` is the device's queue position),
`ram` what the guest remembers (ring indices, the version of the image in its
page cache), `disk` and `safe` the image and the part of it that is durable.
`Save` and `Load` are the transport's `save()` and `load()`: features are told
to the device again and the queue activated at the saved position. `Suspend`
adds the process: `Begin`, `Measure`, `Create`, `Finish`, `SyncAll`, `Rename`,
`Report`, each of which may fail (`FailedSave`) or be the last thing the process
does (`End`), and `Open`, `CheckFiles`, `LoadMemory`, `LoadDevices`, `Start`.
A file is `whole` or torn: the header, index and section digests are abstracted
to that, and `File` is what `SnapshotWriter` leaves. `Run` is one step of the
guest's driver or of the device. Assumed:

* of the host's file system: synced contents survive a power failure and others
  may be torn; a rename is atomic and may be lost until the journal commits; an
  image keeps what was flushed and any part of the rest;
* of the user: one VM process at a time per image, and nobody else writes the
  image while it lives; every write gives the image a new modification time
  (`FileFingerprint::check` skips a time of 0);
* of the driver: it starts a new ring after a reset, posts no more than the
  ring holds and only heads of its descriptor table, and writes no
  DEVICE_NEEDS_RESET. `add_used()` then cannot fail, since `build()` accepts
  only rings in guest memory, and the queue's `next_avail` and `next_used` are
  one number. The signal at the end of a drain can fail: `Notified` is the
  DEVICE_NEEDS_RESET that `queue_notify()` then sets.

A device has one queue; a discard is a write. The FAILED bit, which the
transport only logs, is left out, and so is a device's veto in
`negotiate_features()` of anything but a missing VERSION_1: virtio-blk has no
other. Saving parks the VM from the first step to the last: that is what
`Lifecycle` and `Supervisor` show. After `Report` the process lives on for a
while (`TearDown`): `shutdown()` opens the gate, and a worker with a kick in hand
serves it. `late` records that this wrote the image.

## Runs

| Run | Config | Shows |
|---|---|---|
| gate | `MCQuiesce.cfg` | `SettledMeansIdle`: after a settled pause nobody works until the gate opens. `InFlightCounts`: no path leaks or double-drops a pass. `ImplementsGate`: refinement of `QuiesceGate`. `TeardownOnPausedVmEnds`, `PauseIsBounded`, `ResumeReleases`: joining a parked worker, pausing with a stuck one, and resuming all end. |
| seam | `MCLifecycle.cfg` | `HeldMeansFrozen`, `SnapshotIsFrozen`, `ResetMachineExclusive`, with operations that time out or fail in the machine's reset, a guest that resets itself or triple-faults, and a stop at any moment. `RunsFresh`: every vCPU enters a new boot from its reset state. `NoSpuriousReboot`: a reset asked for in the old boot does not restart the new one. |
| supervisor | `MCSupervisor.cfg` | `HonestState`: between requests the state shown is the state the VM is in. `SuspendedNeverRuns`: after a suspend no vCPU enters the guest again. `StormBounded`: a guest that reboots at once is given up on. |
| supervisor_live | `MCSupervisorLive.cfg` | `OpsReturn`: every operation returns although no vCPU thread ever moves. `UserStopCompletes`: if the threads run, closing the window ends the process from the middle of any request. |
| wake | `MCHostWake.cfg` | `PendingIsCovered`, `WakeServed`: no wake is lost. `StopEnds`: the thread can be joined anywhere. |
| msix | `MCMsix.cfg` | `PendingIsDeferred`: what can be sent is not left in the PBA. `NoEventLost`: what the guest was not told is on its way, unless the sink refused its message. `EventIsTold`: it arrives. |
| kicks | `MCKicks.cfg` | `KicksReachTheirDevice`: at every point of a sweep the only eventfd a store can signal is its own device's, and a queue the register path leaves to its worker is one whose stores KVM completes. `KickIsCarried`, `KickIsServed`: a kick is carried until it is served, and is lost to a suspend or to a registration that overtakes its exit, and to nothing else. |
| suspend | `MCSuspend.cfg` | `WholeOrNothing`: a snapshot is whole or absent after any failure. `SavedIsResumable`: what was reported as saved is there, as it was, and its image is the one measured unless its own process served a request still in the ring. `RunsOnItsImage`: no guest runs on an image that moved on. `RingAgrees`: a device, restored or not, serves its ring from where the guest last saw it. `ActiveMeansNegotiated`: a device that runs was told what was negotiated. |
| refault | `MCLifecycleRefault.cfg` | **violated**: a faulted application processor "must not be re-entered". |
| held_stop | `MCSupervisorHeld.cfg` | **violated**: "a paused VM can still be torn down". |
| wake_clear | `MCHostWakeClear.cfg` | **violated**: a set bit means the thread "will serve it after this wake". |
| lost_kick | `MCKicksSuspend.cfg` | **violated**: "a quiesced device holds nothing — there is nowhere for a request to be in flight". |

### Bounds

* *gate*: a worker and a pump, the supervisor and the stopper. The worker is the
  user that waits, the pump the one that does not; they race each other on the
  counter and the lock. The proofs remove this bound for the safety properties.
* *seam*: two vCPUs, so that one can arrive while the other is late, and boot
  and application processors differ. What fails is the barrier, by its timeout,
  and the machine's reset; a failing save is in *supervisor*, a failing vCPU
  reset and a failing flush in *supervisor_live*. The proofs remove these
  bounds. Operations are unbounded in number.
* the supervisor's runs: one vCPU, which is the one that is late. `MaxRequests`
  bounds how often the user or the guest asks for something:
  3 in *supervisor*, so that a guest can reboot in a storm or between two
  requests of the user, and 2, enough for one to follow or be coalesced with
  another, in *supervisor_live* and *held_stop*. *held_stop* uses two vCPUs
  because one has to end while the other is held. The proofs remove these
  bounds for the safety properties.
* *seam*, *supervisor* and *suspend* give TLC a view (`LiveVars`) without the
  variables that are dead where it drops them: the next assignment to them
  comes before the next read, and no property looks at them.
* `MaxResetStorm` is 0 where the storm is counted (the code has 5): the guest is
  given up on at its first reset within the window after one. The counter
  itself ends the run, so it needs no bound of its own.
* *wake*: two slots, so that a scan can be before, at and past a bit, and two
  wakers, so that one can skip the signal the other owes.
* *msix*: a thread, the handler, two sources and two vectors, which may share a
  vector or have one each. The sink refuses one message (`Refusals`), at any
  point; the proofs remove this bound.
* *kicks*: two functions of two queues that trade two windows, any registration
  refused, so that a device may be offloaded in part, and suspends unbounded in
  number. One queue of one function has a driver that kicks it (`Used`): the
  other queue and the other function have registrations, and the other function
  is moved, which is all that the first one can meet of them. *lost_kick* needs
  one function and one queue.
* *suspend*: a queue of one entry whose indices wrap at 2 (`Span`), so that
  every second request wraps, and three writes of the image (`MaxClock`), one
  more than it takes for the image, a snapshot and an older snapshot to differ.
  Suspends, boots, kills and power failures are unbounded in number, except
  that a suspend in the middle of a driver's bring-up, or of a device that needs
  a reset, is explored only while there is no snapshot yet (`FirstIsOdd`). The
  proofs remove these bounds.

### Fairness

* Gate: threads run, and a mutex that is free again and again is taken by a
  waiter (strong fairness on its acquisition): it is never held across anything
  that blocks and waiters sleep `WAKE_POLL` between tries. Nothing is assumed
  of a unit of work, which may never end.
* Seam: the requester runs and its barrier wait ends by count, by Stop or by
  its deadline. A vCPU thread outside the hypervisor runs. One inside comes
  back only while it is kicked, and only a barrier wait and `stop()`'s join
  repeat their kicks (`Kicking`). `OpsReturn` needs only the requester:
  *supervisor_live* assumes no fairness of any other thread (`WedgedSystem`),
  and `UserStopCompletes` states what it needs of them (`ThreadsRun`).
* Host wake: threads run and device code returns. Nobody has to wake, reset,
  pause or resume; `WakeServed` is about a VM that is not paused for ever.
* Interrupts: a thread that signals runs on. A configuration write gets the
  transport lock, and the handler of the line gets to read the ISR, although
  both compete for that lock with notifications (strong fairness: nobody holds
  it across anything that blocks). `EventIsTold` is about a vector the driver
  leaves deliverable again and again, as a mask that is never lifted would
  rightly keep an event for ever, and about a sink that refuses no more than
  `Refusals` messages.
* Kicks: workers run; epoll is level-triggered and a worker visits its ready
  queues in turn, so that a counter is read again and again (strong fairness).
  A vCPU thread finishes the exit it is in. `KickIsServed` is about a VM that is in the end left running.

Deadlock is checked everywhere but in *held_stop*, whose subject is a VM that
stops moving.

## Where the code and its comments disagree

Four disagreements have a run of their own.

* *refault*. A parked processor takes `Checkpoint::Continue` for "the machine
  was reset" (`vcpu.rs:650`); after a plain pause and resume it enters KVM_RUN
  on a shut-down vCPU and the VM ends with an internal error.
* *held_stop*. A guest powers off while a reset is under way:
  `set_phase()` (`lifecycle.rs:902`) overwrites the Stop of `shutdown()`, the
  release clears `attention`, and a pause served next holds a vCPU that has
  not looked at `running` since. `stop()` waits for it for ever.
* *wake_clear*. `clear()` (`host_wake.rs:145`) clears the bits and then the
  signal. A waker that sets a swept bit and signals before the signal is cleared
  leaves a bit that makes every later wake of the slot return early.
* *lost_kick*. A kick that sits in an eventfd, or in the hand of a worker at the
  closed gate, when the VM is suspended is in no section of the snapshot, and
  `activate_at()` (`state.rs:681`) does not drain the queue it restores. The
  chain waits until the guest kicks that queue again. ADR-0006 (524-525) says
  that "a quiesced device holds nothing — there is nowhere for a request to be
  in flight", and saves the queue's position because "the guest may have posted
  requests the device has not been kicked for". A request the device has been
  kicked for, and has not served, has no place to go.

Others were met while modelling and have no run:

* `shutdown()` opens the gate whatever the requester does
  (`lifecycle.rs:685`), also while `save_machine()` writes, which is
  "called with every vCPU parked and the host workers quiesced" (234). This is
  why `SnapshotIsFrozen` speaks of a VM nobody is stopping.
* It also opens the gate after a suspend has succeeded (`run_vm.rs:1369`, 2218).
  A worker that took a kick before the pause (`notify.rs:858`) then serves it and
  may write the image, although the fingerprints were taken because "nothing is
  writing the disks any more, so their size and mtime will still be what this
  records when the process exits" (`run_vm.rs:2271-2273`). The resume is then
  refused (`meta.rs:170`), and what was written is in no snapshot.
  `SavedIsResumable` excepts exactly this (`late`), and says that it takes a
  request that was in the ring, unserved, when the VM was saved.
* A kick that left KVM for the register path can find its queue offloaded when it
  gets there: KVM refused the queue at an earlier sweep, and a sweep of another
  vCPU, for another function's BAR, has registered it since. The exit is then
  dropped (`state.rs:520`) and the eventfd was not signalled, while the comment
  says that reaching user space "means the registration did not apply to this
  access (a bogus queue index, or a width/address KVM does not match on)"
  (514-516). The chain waits for the next kick. `KickIsCarried` and
  `KickIsServed` except exactly this (`overtaken`).
* A vCPU that fails its half of a reset is reported after the machine has been
  released (`lifecycle.rs:638`), while "a failed reset does not resume"
  (655-656). `RunsFresh` excludes it by `botched`.
* A vCPU still in `reset_one()` when its reset was given up stores
  `reset_done` into the next reset (`lifecycle.rs:816`, against 293); also
  excluded by `botched`.
* After an abandoned second barrier the latch is cleared with the vCPUs running
  (`lifecycle.rs:634`, against 632-633).
* A suspend that fails because of a stop moves `VmState` to Stopping, and the
  teardown's own transition is then refused (`run_vm.rs:1455`, against
  1915-1916): `Teardown` ends in `"failed"`.
* A reset of a paused VM that times out leaves `VmState` at Resetting while the
  VM runs (`run_vm.rs:1498`, against 1469); `HonestState` is therefore about
  Paused and Running.
* `deliver()` says that "the state lock is held across the send"
  (`msix.rs:609`), and sends after it has released it (629). A message may
  reach the guest just after the guest masked its vector; no event is lost by
  it.
* With the function mask of a live device flipped while a thread signals
  (`LiveControl`), a mask read at `msix.rs:608` can be stale by the time the lock
  is taken: the vector is left pending after the flush that should have sent
  it, until the next signal. This is why `DeferredOnly` assumes `~LiveControl`;
  no event is lost by it.
* A message that the sink refuses is not sent again, and its pending bit is
  already cleared (`msix.rs:625`, 276): the event is told with the next one. A
  device that signals from a notification needs a reset after it
  (`Transport`'s `Notified`); a receive thread or an unmask goes on.
  `NoEventLost` excepts exactly this (`refused`).
* `save_partial()` does not sync the directory after the rename, and nothing
  flushes the image at a suspend: after a power failure the older snapshot may
  be back, or the image may lack writes the snapshot remembers.
  `SavedIsResumable` ends at a power failure, and `RunsOnItsImage` excepts one
  that took unflushed writes (`lost`).
* The storm counter counts once per vCPU that notices the reset register, not
  once per reset (`lifecycle.rs:716`, against 86).

## What is proved

TLAPS checks the following for every value of the constants. Each proof module
opens with `USE ZenonT(60)`: a leaf goes to Zenon, and one that needs arithmetic,
records or function updates beyond it names `SMTT(60)`.

`QuiesceProof`, for any finite set of workers and pumps (`GateAssumption`: the
threads are distinct and finitely many):

* `GateType`, `GateCounts`, `GateSettles`: `TypeOK`, `InFlightCounts` and
  `SettledMeansIdle`;
* `GateRefines`: `Quiesce` implements `QuiesceGate`.

They rest on one inductive invariant. `SettledMeansIdle` is not inductive: a
thread between its check and its work would break it in one step. `SettledOK`
adds that, once settled, nobody is past a successful check either, and
`LockOK` that a thread between the slow path's check and its claim owns the
lock, which is what keeps a settling pause out. `InFlightCounts` makes the
zero that `wait_until_idle()` reads mean that nobody holds a pass; its steps are
cardinality facts from `FiniteSetTheorems`.

`HostWakeProof`, for any number of slots and any set of wakers:

* `HostWakeType`: `TypeOK`;
* `NoWakeForgotten`: `PendingIsCovered`. The strengthening `Restarting` follows
  a machine reset: `stopping` is set until the thread is started again, the bits
  `clear()` has swept stay unset, and a bit set after it has its waker or its
  signal by the time the new thread starts.

`LifecycleProof`, for any set of vCPUs, storm limit, guest acts and failures:

* `SeamType`: `TypeOK`;
* `ResetIsExclusive`, `PauseIsFrozen`, `SnapshotFrozen`:
  `ResetMachineExclusive`, `HeldMeansFrozen` and `SnapshotIsFrozen`.

None of the three is inductive: each says what vCPUs do in a phase, and a vCPU
enters the guest in a step that does not change the phase. `ArrivalsOK` says
that who has arrived cannot leave `checkpoint()` before `release()` forgets the
arrivals, and `BarrierOK` that past the barrier, and in a hold, everybody has
arrived or finished. These two need no assumption about the stopper, so
`ResetIsExclusive` holds during a stop as well. `CallOK` (the phase at each
point of a call), `GateOK` (the gate at that point) and `CaptureOK` (who has
reported stays parked until the snapshot is written) hold until somebody stops
the VM, since `shutdown()` overwrites the phase at any moment. `CpuEffect`
reduces the nineteen vCPU actions to the one step the invariant sees: no vCPU
step changes the phase, the requester's place or the gate.

`LifecycleCalls`, with the same generality:

* `RestartsFresh`, `RebootsOnce`: `RunsFresh` and `NoSpuriousReboot`.

Both are about a reset that a stop, a timeout or a failure may cut short
anywhere, so nothing in their invariant may be conditional on nobody stopping.
`OpOK` ties the requester's place to the operation it serves and to what it
will return; `PhaseOK` restates `CallOK` for every phase but Stop, since a reset
under way can overwrite a stop's phase and then owns it again. `FreshOK`
follows a vCPU without its half of the reset: it is parked until the second
barrier has seen it, it has ended, or the seam is stopped around it for good.
`StaleOK` names the few steps of a reset in which a request of the old boot can
still be latched.

`SupervisorProof`, for any set of vCPUs, storm limit and number of requests
(`SupervisorAssumption`: `MaxRequests` is a natural number), whatever fails:

* `SupervisorType`: `SupTypeOK`;
* `StateIsHonest`: `HonestState`. `StateOK` says at each point of `serve()` what
  the state shown, the state to fall back to and the outcome of the call have to
  do with the phase. It covers the detours: a pause that finds the VM paused, a
  request refused because a failed reset left Resetting behind;
* `FileIsTheVm`: `SuspendedNeverRuns`. `SuspendOK` says that everybody is parked
  when a save returns with success, and stays so because the supervisor is gone
  and a stop only lets parked vCPUs end;
* `StormIsBounded`: `StormBounded`. `StormOK` adds up the reboots granted, the
  one the supervisor has taken and the one still latched: each after the first
  two was counted by `request_guest_reset()`;
* `SeamInSystem`: what `LifecycleProof` and `LifecycleCalls` show of the seam
  holds under the supervisor. Every step of the system is one of the seam, or
  leaves it alone, or takes the guest's latch outside any call (`SeamSees`,
  `TakenLatch`), so the seam's invariant is part of the system's.

The steps of the seam are not enumerated again: `Move` is all that the
supervisor can tell of a step that begins no call, and `Outcome` what it can
tell of one that returns.

`MsixProof`, for any threads, sources and vectors:

* `MsixType`: `TypeOK`, in which no signaller holds a vector outside the table;
* `NothingLost`: `NoEventLost`, whatever the driver does to the function mask and
  however many messages the sink refuses;
* `DeferredOnly`: `PendingIsDeferred`, with `~LiveControl`.

The strengthening says what each place in a signal means for the control word:
a vector that was read is still the one assigned (`Locals`), what is pending
belongs to a live function with MSI-X enabled (`Kept`), and, with `~LiveControl`,
a mask seen set is still set or its flush is still to come (`Deferral`).

`KicksProof`, for any functions, queues and windows, whichever queues are used
and whatever KVM refuses:

* `KicksType`: `TypeOK`;
* `OwnDevice`, `NoKickDropped`: `KicksReachTheirDevice` and `KickIsCarried`. The
  first is about what a guest can observe between two steps of a sweep, so the
  invariant says how far each sweep has come: `KernelInv` (what KVM has, some
  notifier knows of), `AgreeInv` (what the transport believes offloaded the
  notifier holds, and the kernel has unless it is being released at this
  moment), `PassInv` (what each pass leaves behind) and `ClearInv` (nobody
  else's registration sits where a running guest may kick). `ExitsInv` says of an
  exit that will find its queue offloaded that its kick is in the eventfd or the
  worker's hand as well, or was overtaken: this is what leaves `NoKickDropped`
  no exception but the two it names.

`SuspendProof`, for any queue size, point of wrapping and number of suspends
and failures:

* `SuspendType`: `TypeOK`, in which no ring index leaves its span;
* `ActiveIsNegotiated`: `ActiveMeansNegotiated`;
* `RestoredRing`, `NeverTorn`, `ImageUnchanged`, `ReportedIsThere`:
  `RingAgrees`, `WholeOrNothing`, `RunsOnItsImage` and `SavedIsResumable`. None is
  inductive, nor is `ActiveMeansNegotiated`: what a restored VM satisfies was
  true of a VM in another process.
  The invariant follows it: the slot of a live VM is sound (`LiveInv`), every
  file that the path can come to name after a failure holds a sound slot and
  the fingerprint of the image that slot was using (`FileInv`, of `path` and of
  `kept`), and a save or restore in progress agrees with the file it works on
  (`SaveInv`, `RestoreInv`). `LeavingInv` and `SavedInv` follow the process that
  has reported: until it writes the image, the file has the fingerprint of the
  image, and it can only write it if the ring it saved had a request left.

Every invariant that a passing run checks is proved. Only model-checked are the
liveness properties (`TeardownOnPausedVmEnds`, `PauseIsBounded`,
`ResumeReleases`, `OpsReturn`, `UserStopCompletes`, `WakeServed`, `StopEnds`,
`EventIsTold`, `KickIsServed`): they rest on fairness, and ENABLED is beyond the
prover. The four violated properties are refuted by the runs named above.

## Not modelled

The repository has about 390,000 lines of source; the models are about the few
thousand of them where several threads, or several processes over time, meet in
shared state. The rest is left out for these reasons.

* Sequential data translation, where a model would be a transliteration: the
  register layouts of PCI, ACPI, AHCI, HDA and the interrupt controllers and
  timers (one lock, one access at a time), descriptor chains, request parsing,
  snapshot section encodings and compression, disk image formats, boot loaders,
  the control API's commands.
* Generated code and code whose other half is outside the repository: the Venus
  protocol and its renderer, window systems, audio and network back ends.
* A specification of its own would be needed for the TCP implementation of the
  user-mode network and for the fence ordering of virtio-gpu.
* `DeferredWaker` (`virtio-core/src/device.rs`), the portable kick worker and the
  arm64 machine repeat, on other hosts, protocols that are modelled here.
* Memory ordering weaker than sequential consistency, and the bodies of guest
  memory pages.
* Two VM processes on one image: nothing in the code prevents it, and what the
  guest's file system makes of it is not a question about this code.
