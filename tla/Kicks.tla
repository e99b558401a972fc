------------------------------- MODULE Kicks --------------------------------
(***************************************************************************)
(* Queue kicks on the virtio-pci bus of a KVM host: the ioeventfds that    *)
(* KVM matches against a guest address, the notifier that registers them   *)
(* where the guest put the BAR (crates/machine-x86/src/notify.rs), the     *)
(* sweep that moves them after a configuration write (virtio_pci.rs), the  *)
(* transport's record of which queues are offloaded (virtio-core           *)
(* state.rs), the worker that turns a signalled eventfd into a             *)
(* queue_notify, and what a pause, a machine reset and a suspend followed  *)
(* by a restore do to all of them.                                         *)
(*                                                                         *)
(* A kick is one guest store.  KVM looks its address up at the store; an   *)
(* exit reaches the transport later, and another vCPU's sweep may change   *)
(* the registrations in between.  Publishing the chain and storing to the  *)
(* notify address are one step here: a drain between the two finds the     *)
(* chain early and leaves a kick with nothing to do, a state the model     *)
(* also reaches with two kicks.  A drain takes every published chain (its  *)
(* budget is four times the queue size), so a queue owes work or does not, *)
(* and two exits of one queue on their way are as good as one.             *)
(*                                                                         *)
(* The guest serialises its configuration accesses (one CONFIG_ADDRESS     *)
(* latch), gives no two functions the same window, and never has a kick of *)
(* a function and its own write to that function's BAR or command register *)
(* on their way together.  Writes to the other functions it does not hold  *)
(* back.                                                                   *)
(***************************************************************************)
EXTENDS Naturals, FiniteSets

CONSTANTS
    Devices, Queues, Addrs,
    None,
    Home,        \* [Devices -> Addrs], the window each device is attached at
    Used,        \* [Devices -> SUBSET Queues], the queues with a driver behind them
    MayRefuse    \* KVM may refuse a registration

ASSUME KicksAssumption ==
    /\ None \notin Devices \cup Queues \cup Addrs
    /\ Home \in [Devices -> Addrs]
    /\ \A d, e \in Devices : Home[d] = Home[e] => d = e
    /\ Used \in [Devices -> SUBSET Queues]
    /\ MayRefuse \in BOOLEAN

VARIABLES
    vm,         \* "running", or "parked": vCPUs held and the pause gate closed
    window,     \* what each function's register BAR decodes, or None
    live,       \* the activated transports
    kvm,        \* the registered ioeventfds: <<address, queue, device>>
    base,       \* registration.addressing
    held,       \* registration.mask
    offloaded,  \* notify_offloaded
    efd,        \* the queues whose eventfd counter is not zero
    exits,      \* the queues with a store that left KVM for the register path
    worker,     \* per device: the queue whose kick its worker took, or None
    serving,    \* the devices whose worker is past the gate
    pass,       \* reconcile_notify: "idle", "release" or "claim"
    todo,       \* the slots this pass has still to visit
    claim,      \* the slots that get a target for the second pass
    dev, left,  \* the slot being moved, and its queues still to be handled
    mid,        \* its queue between the two halves of a move, or None
    mover,      \* the function the guest is writing to, None in a reset or restore
    owed,       \* history: queues kicked and not drained since
    forgotten,  \* history: queues owed work when a suspend ended the process
    overtaken   \* history: queues marked offloaded with an exit on its way

bus == <<kvm, base, held, offloaded>>
sweep == <<pass, todo, claim, dev, left, mid, mover>>
history == <<owed, forgotten, overtaken>>
vars == <<vm, window, live, bus, efd, exits, worker, serving, sweep, history>>

PerDevice == [Devices -> SUBSET Queues]

TypeOK ==
    /\ vm \in {"running", "parked"}
    /\ window \in [Devices -> Addrs \cup {None}]
    /\ live \subseteq Devices
    /\ kvm \subseteq Addrs \X Queues \X Devices
    /\ base \in [Devices -> Addrs \cup {None}]
    /\ held \in PerDevice
    /\ offloaded \in PerDevice
    /\ efd \in PerDevice
    /\ exits \in PerDevice
    /\ worker \in [Devices -> Queues \cup {None}]
    /\ serving \subseteq Devices
    /\ pass \in {"idle", "release", "claim"}
    /\ todo \subseteq Devices /\ claim \subseteq Devices
    /\ dev \in Devices \cup {None}
    /\ left \subseteq Queues
    /\ mid \in Queues \cup {None}
    /\ mover \in Devices \cup {None}
    /\ owed \in PerDevice
    /\ forgotten \in PerDevice
    /\ overtaken \in PerDevice

Nothing == [d \in Devices |-> {}]

(* attach(): a worker per device, its eventfds registered at the address    *)
(* the BAR was given; a refused queue keeps the synchronous path.           *)
Attached(b, h, k, o) ==
    /\ h \in IF MayRefuse THEN PerDevice ELSE [Devices -> {Queues}]
    /\ b = [d \in Devices |-> IF h[d] = {} THEN None ELSE Home[d]]
    /\ k = {e \in Addrs \X Queues \X Devices : e[1] = Home[e[3]] /\ e[2] \in h[e[3]]}
    /\ o = h

(* A function decodes nothing until the guest enables it. *)
Init ==
    /\ vm = "running"
    /\ window = [d \in Devices |-> None]
    /\ live = {}
    /\ \E h \in PerDevice : held = h /\ Attached(base, h, kvm, offloaded)
    /\ efd = Nothing /\ exits = Nothing
    /\ worker = [d \in Devices |-> None]
    /\ serving = {}
    /\ pass = "idle" /\ todo = {} /\ claim = {}
    /\ dev = None /\ left = {} /\ mid = None /\ mover = None
    /\ owed = Nothing /\ forgotten = Nothing /\ overtaken = Nothing

------------------------------------------------------------------------------
(* The driver runs and its stores reach the function. *)
Reachable(d) ==
    vm = "running" /\ window[d] # None /\ mover # d

(* KVM completes the store when an eventfd is registered at its address,    *)
(* and leaves the guest for the register path when not.  Either way the     *)
(* kick stands for all the work the queue is owed.                          *)
Kick(d, q) ==
    /\ Reachable(d) /\ d \in live /\ q \in Used[d]
    /\ \/ \E e \in Devices :
            /\ <<window[d], q, e>> \in kvm
            /\ efd' = [efd EXCEPT ![e] = @ \cup {q}]
            /\ UNCHANGED exits
       \/ /\ \A e \in Devices : <<window[d], q, e>> \notin kvm
          /\ exits' = [exits EXCEPT ![d] = @ \cup {q}]
          /\ UNCHANGED efd
    /\ owed' = [owed EXCEPT ![d] = @ \cup {q}]
    /\ forgotten' = [forgotten EXCEPT ![d] = @ \ {q}]
    /\ overtaken' = [overtaken EXCEPT ![d] = @ \ {q}]
    /\ UNCHANGED <<vm, window, live, bus, worker, serving, sweep>>

(* queue_notify, under the transport lock: ignored unless activated, else   *)
(* the device drains the queue, or fails and tells the driver it needs a    *)
(* reset.  Either way the kick has been answered.                           *)
QueueNotify(d, q) ==
    IF d \in live
    THEN /\ owed' = [owed EXCEPT ![d] = @ \ {q}]
         /\ forgotten' = [forgotten EXCEPT ![d] = @ \ {q}]
         /\ overtaken' = [overtaken EXCEPT ![d] = @ \ {q}]
    ELSE UNCHANGED history

(* The exit reaches queue_notify_from_register: dropped when the queue is   *)
(* offloaded by now, run on the vCPU thread when not.                       *)
RegisterPath(d, q) ==
    /\ q \in exits[d]
    /\ exits' = [exits EXCEPT ![d] = @ \ {q}]
    /\ IF q \in offloaded[d] THEN UNCHANGED history ELSE QueueNotify(d, q)
    /\ UNCHANGED <<vm, window, live, bus, efd, worker, serving, sweep>>

------------------------------------------------------------------------------
(* worker_loop: read the counter, take the pause gate, run the device. *)

(* Mistake: a kick taken on a paused VM is dropped. *)
TakeUnlessPaused(d, q) ==
    /\ worker[d] = None /\ q \in efd[d]
    /\ efd' = [efd EXCEPT ![d] = @ \ {q}]
    /\ worker' = [worker EXCEPT ![d] = IF vm = "running" THEN q ELSE None]
    /\ UNCHANGED <<vm, window, live, bus, serving, sweep, exits, history>>

Take(d, q) ==
    /\ worker[d] = None /\ q \in efd[d]
    /\ efd' = [efd EXCEPT ![d] = @ \ {q}]
    /\ worker' = [worker EXCEPT ![d] = q]
    /\ UNCHANGED <<vm, window, live, bus, serving, sweep, exits, history>>

(* Mistake: the worker collects every kick before it works. *)
PassGateAlone(d) ==
    /\ worker[d] # None /\ d \notin serving
    /\ vm = "running" /\ efd[d] = {}
    /\ serving' = serving \cup {d}
    /\ UNCHANGED <<vm, window, live, bus, efd, worker, sweep, exits, history>>

PassGate(d) ==
    /\ worker[d] # None /\ d \notin serving
    /\ vm = "running"
    /\ serving' = serving \cup {d}
    /\ UNCHANGED <<vm, window, live, bus, efd, worker, sweep, exits, history>>

Serve(d) ==
    /\ d \in serving
    /\ serving' = serving \ {d}
    /\ worker' = [worker EXCEPT ![d] = None]
    /\ QueueNotify(d, worker[d])
    /\ UNCHANGED <<vm, window, live, bus, efd, exits, sweep>>

------------------------------------------------------------------------------
(* The driver brings a device up (DRIVER_OK) and resets it (status 0).      *)
(* Neither touches the host's wiring.                                       *)

DriverOk(d) ==
    /\ Reachable(d) /\ d \notin live /\ Used[d] # {}
    /\ live' = live \cup {d}
    /\ UNCHANGED <<vm, window, bus, efd, worker, serving, sweep, exits, history>>

DeviceReset(d) ==
    /\ Reachable(d) /\ d \in live
    /\ live' = live \ {d}
    /\ owed' = [owed EXCEPT ![d] = {}]
    /\ forgotten' = [forgotten EXCEPT ![d] = {}]
    /\ overtaken' = [overtaken EXCEPT ![d] = {}]
    /\ UNCHANGED <<vm, window, bus, efd, exits, worker, serving, sweep>>

------------------------------------------------------------------------------
(* reconcile_notify: release every address that is no longer its            *)
(* function's, then claim the new ones.                                     *)

StartSweep(m) ==
    /\ pass' = "release" /\ todo' = Devices /\ claim' = {}
    /\ mover' = m
    /\ UNCHANGED <<dev, left, mid>>

(* io_write: the guest moves a BAR, or switches its decoding on or off. *)
MoveBar(d, a) ==
    /\ vm = "running" /\ pass = "idle"
    /\ a # window[d] /\ exits[d] = {}
    /\ a # None => \A e \in Devices \ {d} : window[e] # a
    /\ window' = [window EXCEPT ![d] = a]
    /\ StartSweep(d)
    /\ UNCHANGED <<vm, live, bus, efd, worker, serving, exits, history>>

(* Mistake: a function that decodes nothing keeps its old address. *)
ReleaseEnabledOnly(d) ==
    /\ pass = "release" /\ dev = None /\ d \in todo
    /\ todo' = todo \ {d}
    /\ IF base[d] = window[d] \/ window[d] = None
       THEN UNCHANGED <<claim, dev, left>>
       ELSE /\ claim' = claim \cup {d}
            /\ dev' = IF held[d] = {} THEN None ELSE d
            /\ left' = held[d]
    /\ UNCHANGED <<vm, window, live, bus, efd, worker, serving, pass, mid, mover,
                   exits, history>>

(* The first pass at one slot: where does its BAR decode now? *)
Release(d) ==
    /\ pass = "release" /\ dev = None /\ d \in todo
    /\ todo' = todo \ {d}
    /\ IF base[d] = window[d]
       THEN UNCHANGED <<claim, dev, left>>
       ELSE /\ claim' = IF window[d] = None THEN claim ELSE claim \cup {d}
            /\ dev' = IF held[d] = {} THEN None ELSE d
            /\ left' = held[d]
    /\ UNCHANGED <<vm, window, live, bus, efd, worker, serving, pass, mid, mover,
                   exits, history>>

(* unregister_locked, per queue: deassign_one, then restore_queue_notify. *)
Deassign(q) ==
    /\ pass = "release" /\ dev # None /\ mid = None /\ q \in left
    /\ kvm' = kvm \ {<<base[dev], q, dev>>}
    /\ mid' = q
    /\ UNCHANGED <<vm, window, live, base, held, offloaded, efd, worker, serving,
                   pass, todo, claim, dev, left, mover, exits, history>>

Unregistered ==
    /\ left' = left \ {mid}
    /\ mid' = None
    /\ IF left = {mid}
       THEN /\ base' = [base EXCEPT ![dev] = None]
            /\ held' = [held EXCEPT ![dev] = {}]
            /\ dev' = None
       ELSE UNCHANGED <<base, held, dev>>
    /\ UNCHANGED <<vm, window, live, kvm, efd, worker, serving, pass, todo, claim,
                   mover, exits, history>>

RestoreNotify ==
    /\ pass = "release" /\ mid # None
    /\ offloaded' = [offloaded EXCEPT ![dev] = @ \ {mid}]
    /\ Unregistered

(* Mistake: the second pass visits every slot. *)
SecondPassAll ==
    /\ pass = "release" /\ dev = None /\ todo = {}
    /\ pass' = "claim" /\ todo' = Devices
    /\ UNCHANGED <<vm, window, live, bus, efd, worker, serving, claim, dev, left, mid,
                   mover, exits, history>>

SecondPass ==
    /\ pass = "release" /\ dev = None /\ todo = {}
    /\ pass' = "claim" /\ todo' = claim
    /\ UNCHANGED <<vm, window, live, bus, efd, worker, serving, claim, dev, left, mid,
                   mover, exits, history>>

(* rebase() of a slot that has just been released. *)
Rebase(d) ==
    /\ pass = "claim" /\ dev = None /\ d \in todo
    /\ todo' = todo \ {d}
    /\ dev' = d /\ left' = Queues
    /\ UNCHANGED <<vm, window, live, bus, efd, worker, serving, pass, claim, mid, mover,
                   exits, history>>

(* One queue of rebase() is done, with this mask so far. *)
QueueDone(q, mask) ==
    /\ left' = left \ {q}
    /\ mid' = None
    /\ held' = [held EXCEPT ![dev] = mask]
    /\ IF left = {q}
       THEN /\ base' = [base EXCEPT ![dev] = IF mask = {} THEN None ELSE window[dev]]
            /\ dev' = None
       ELSE UNCHANGED <<base, dev>>
    /\ UNCHANGED <<vm, window, live, efd, worker, serving, pass, todo, claim, mover,
                   exits, owed, forgotten>>

Taken(q) == \E e \in Devices : <<window[dev], q, e>> \in kvm

Register(q) ==
    /\ pass = "claim" /\ dev # None /\ mid = None /\ q \in left
    /\ ~Taken(q)
    /\ kvm' = kvm \cup {<<window[dev], q, dev>>}
    /\ mid' = q
    /\ UNCHANGED <<vm, window, live, base, held, offloaded, efd, worker, serving,
                   pass, todo, claim, dev, left, mover, exits, history>>

Refused(q) ==
    /\ pass = "claim" /\ dev # None /\ mid = None /\ q \in left
    /\ Taken(q) \/ MayRefuse
    /\ QueueDone(q, held[dev])
    /\ UNCHANGED <<kvm, offloaded, overtaken>>

(* offload_queue_notify, under the transport lock: an exit that has not got *)
(* there yet will find the queue offloaded.                                 *)
MarkOffloaded ==
    /\ pass = "claim" /\ mid # None
    /\ offloaded' = [offloaded EXCEPT ![dev] = @ \cup {mid}]
    /\ overtaken' = [overtaken EXCEPT ![dev] = @ \cup (exits[dev] \cap {mid})]
    /\ QueueDone(mid, held[dev] \cup {mid})
    /\ UNCHANGED kvm

EndSweep ==
    /\ pass = "claim" /\ dev = None /\ todo = {}
    /\ pass' = "idle" /\ claim' = {} /\ mover' = None
    /\ UNCHANGED <<vm, window, live, bus, efd, worker, serving, todo, dev, left, mid,
                   exits, history>>

------------------------------------------------------------------------------
(* Pausing parks the vCPUs outside their exits and closes the gate; a       *)
(* worker past it finishes what it has in hand.                             *)
Pause ==
    /\ vm = "running" /\ pass = "idle" /\ exits = Nothing
    /\ vm' = "parked"
    /\ UNCHANGED <<window, live, bus, efd, worker, serving, sweep, exits, history>>

Resume ==
    /\ vm = "parked" /\ pass = "idle"
    /\ vm' = "running"
    /\ UNCHANGED <<window, live, bus, efd, worker, serving, sweep, exits, history>>

(* VirtioPciBus::reset: the transports, then the configuration space, whose *)
(* command registers decode nothing, then the registrations.  An eventfd    *)
(* that was signalled stays signalled.                                      *)
MachineReset ==
    /\ vm = "parked" /\ pass = "idle"
    /\ live' = {}
    /\ owed' = Nothing /\ forgotten' = Nothing /\ overtaken' = Nothing
    /\ window' = [d \in Devices |-> None]
    /\ StartSweep(None)
    /\ UNCHANGED <<vm, bus, efd, exits, worker, serving>>

(* save_machine and the end of the process, then a new process: attach(),   *)
(* load_state() with the registers of the snapshot (a transport that was    *)
(* activated is activated), and the sweep.  The gate is closed throughout.  *)
(* Neither an eventfd's counter nor a kick in a worker's hand is saved.     *)
Suspend ==
    /\ vm = "parked" /\ pass = "idle" /\ serving = {}
    /\ efd' = Nothing
    /\ worker' = [d \in Devices |-> None]
    /\ forgotten' = owed
    /\ \E h \in PerDevice : held' = h /\ Attached(base', h, kvm', offloaded')
    /\ StartSweep(None)
    /\ UNCHANGED <<vm, window, live, exits, serving, owed, overtaken>>

Guest ==
    \E d \in Devices :
        \/ \E q \in Queues : Kick(d, q) \/ RegisterPath(d, q)
        \/ DriverOk(d)
        \/ DeviceReset(d)
        \/ \E a \in Addrs \cup {None} : MoveBar(d, a)

Work(d) == PassGate(d) \/ Serve(d) \/ \E q \in Queues : Take(d, q)

Sweep ==
    \/ \E d \in Devices : Release(d) \/ Rebase(d)
    \/ \E q \in Queues : Deassign(q) \/ Register(q) \/ Refused(q)
    \/ RestoreNotify \/ SecondPass \/ MarkOffloaded \/ EndSweep

Next ==
    \/ Guest
    \/ \E d \in Devices : Work(d)
    \/ Sweep
    \/ Pause \/ Resume \/ MachineReset \/ Suspend

Spec == Init /\ [][Next]_vars

(* The worker threads are scheduled; epoll is level-triggered and each      *)
(* worker visits its ready queues in turn, so a counter that stays set is   *)
(* read.  A vCPU thread finishes the exit it is in.                         *)
FairSpec ==
    /\ Spec
    /\ \A d \in Devices :
        /\ WF_vars(PassGate(d)) /\ WF_vars(Serve(d))
        /\ \A q \in Queues : SF_vars(Take(d, q)) /\ WF_vars(RegisterPath(d, q))

------------------------------------------------------------------------------
(* A kick finds its own device, whatever the guest did to the BARs of the   *)
(* other functions and however far a sweep has come: the only eventfd KVM   *)
(* can signal for a store is the device's own, and a queue the register     *)
(* path would leave to its worker is one whose stores KVM completes         *)
(* (reconcile_notify, rebase, queue_notify_from_register).  What becomes of *)
(* a store that left KVM before is KickIsCarried's.                         *)
KicksReachTheirDevice ==
    \A d \in Devices : Reachable(d) => \A q \in Queues :
        /\ \A e \in Devices : <<window[d], q, e>> \in kvm => e = d
        /\ q \in offloaded[d] => <<window[d], q, d>> \in kvm

(* The kick is still with somebody who will answer it. *)
Carried(d, q) == q \in efd[d] \cup exits[d] \/ worker[d] = q

(* Work a queue is owed is with somebody who will see to it: the counter is *)
(* set, the worker has the kick in hand, or an exit is on its way to the    *)
(* register path.  Two things lose it, and nothing else does: a suspend     *)
(* with the kick unanswered, and another vCPU's sweep that marks the queue  *)
(* offloaded before the exit gets to the transport, so that both paths      *)
(* leave the kick to the other (worker_loop, reconcile_notify,              *)
(* queue_notify_from_register, VirtioPciBus::reset).                        *)
KickIsCarried ==
    \A d \in Devices : \A q \in owed[d] :
        Carried(d, q) \/ q \in forgotten[d] \cup overtaken[d]

(* Once the VM is left running, a kicked queue is drained (or its driver    *)
(* resets it), unless a suspend or a registration lost the kick as above;   *)
(* and a queue that lost one is drained at its next kick.                   *)
KickIsServed ==
    <>[](vm = "running") =>
        \A d \in Devices : \A q \in Used[d] :
            (q \in owed[d]) ~> (q \notin owed[d] \/ q \in forgotten[d] \cup overtaken[d])

(* The same with no exception for a suspend: "a quiesced device holds       *)
(* nothing - there is nowhere for a request to be in flight" (ADR-0006,     *)
(* of virtio-blk).                                                          *)
KickSurvivesSuspend ==
    <>[](vm = "running") =>
        \A d \in Devices : \A q \in Used[d] :
            (q \in owed[d]) ~> (q \notin owed[d])
==============================================================================
