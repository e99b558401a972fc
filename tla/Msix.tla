-------------------------------- MODULE Msix --------------------------------
(***************************************************************************)
(* The interrupts of one virtio function: MsixInterrupt                    *)
(* (crates/virtio-core/src/msix.rs) over the INTx line with its ISR byte   *)
(* (interrupt.rs), as the device's threads signal them and as the driver   *)
(* programs them through the transport (pci.rs) and through configuration  *)
(* space (crates/machine-x86/src/virtio_pci.rs).                           *)
(*                                                                         *)
(* An action is one access to the control word, one critical section of    *)
(* MsixState, or one call of the line or of the message sink.  The locked  *)
(* signaller runs inside the transport's lock (a queue notification); the  *)
(* other threads (a receive worker) signal without it.                     *)
(***************************************************************************)
EXTENDS Naturals, FiniteSets

CONSTANTS
    Threads,      \* device threads that signal outside the transport lock
    Handler,      \* the thread that signals inside it
    Sources,      \* what raises an interrupt: each queue, the configuration
    Vectors,      \* the entries of the MSI-X table
    None,         \* VIRTIO_MSI_NO_VECTOR, and a signaller's idle fields
    Beyond,       \* a vector number outside the table
    LiveControl,  \* the driver also flips the function mask of a live device
                  \* that signals outside the lock
    Refusals      \* how many messages the sink refuses (a bound)

ASSUME MsixAssumption ==
    /\ Handler \notin Threads
    /\ None \notin Vectors \cup Sources
    /\ Beyond \notin Vectors \cup {None}
    /\ LiveControl \in BOOLEAN
    /\ Refusals \in Nat

VARIABLES
    enabled, fmask,  \* the two guest-writable bits of the control word
    assigned,        \* config_vector and queue_vectors
    masked, pending, \* the table's mask bits and the PBA
    isr,             \* LineInterrupt: the ISR byte, one bit per source
    line,            \* the line was triggered and the guest has not looked
    threads,         \* the threads this device has: none (block), some (net)
    live,            \* DRIVER_OK: the device is activated, its threads run
    pc, src, vec,    \* each signaller: where it is, for whom, to which vector
    sawMask,         \* deliver()'s copy of the function mask
    driver, burst,   \* the driver's vCPU, and the messages it has claimed
    refusals,        \* how many messages the sink has refused
    owed,            \* history: sources whose last event the guest was not told of
    refused          \* history: those of them whose message the sink refused

control == <<enabled, fmask>>
device == <<threads, live>>
table == <<masked, pending>>
signaller == <<pc, src, vec, sawMask>>
guest == <<driver, burst>>
history == <<refusals, owed, refused>>
vars == <<control, assigned, table, isr, line, device, signaller, guest, history>>

Signallers == Threads \cup {Handler}
SignalPc == {"idle", "enabled", "line", "trigger", "vector", "mask", "deliver", "send"}

TypeOK ==
    /\ enabled \in BOOLEAN /\ fmask \in BOOLEAN
    /\ assigned \in [Sources -> Vectors \cup {None}]
    /\ masked \subseteq Vectors /\ pending \subseteq Vectors
    /\ isr \subseteq Sources /\ line \in BOOLEAN
    /\ threads \subseteq Threads /\ live \in BOOLEAN
    /\ pc \in [Signallers -> SignalPc]
    /\ src \in [Signallers -> Sources \cup {None}]
    /\ vec \in [Signallers -> Vectors \cup {None}]
    /\ sawMask \in [Signallers -> BOOLEAN]
    /\ driver \in {"idle", "changed", "sending"} /\ burst \subseteq Vectors
    /\ refusals \in 0..Refusals
    /\ owed \subseteq Sources /\ refused \subseteq Sources

Init ==
    /\ enabled = FALSE /\ fmask = FALSE
    /\ assigned = [s \in Sources |-> None]
    /\ masked = Vectors /\ pending = {}
    /\ isr = {} /\ line = FALSE
    /\ threads \in SUBSET Threads /\ live = FALSE
    /\ pc = [t \in Signallers |-> "idle"]
    /\ src = [t \in Signallers |-> None]
    /\ vec = [t \in Signallers |-> None]
    /\ sawMask = [t \in Signallers |-> FALSE]
    /\ driver = "idle" /\ burst = {}
    /\ refusals = 0 /\ owed = {} /\ refused = {}

Goto(t, to) == pc' = [pc EXCEPT ![t] = to]

(* The call returns: its locals are gone. *)
Return(t) ==
    /\ Goto(t, "idle")
    /\ src' = [src EXCEPT ![t] = None]
    /\ vec' = [vec EXCEPT ![t] = None]
    /\ sawMask' = [sawMask EXCEPT ![t] = FALSE]

(* The handler holds the transport lock while it signals, the driver while *)
(* it sends what it claimed.                                               *)
LockFree == pc[Handler] = "idle" /\ driver # "sending"

InFlight(t) == pc[t] \in {"enabled", "line", "vector", "mask", "deliver", "send"}

(* Something still carries the event of s to the guest: a signaller, the   *)
(* ISR with the line raised or about to be, a claim, or the PBA.           *)
OnItsWay(s) ==
    \/ \E t \in Signallers : src[t] = s /\ InFlight(t)
    \/ \E t \in Signallers : pc[t] = "send" /\ vec[t] = assigned[s]
    \/ s \in isr /\ (line \/ \E t \in Signallers : pc[t] = "trigger")
    \/ assigned[s] \in burst \cup pending

(* The sink is given the message of v.  It reaches the guest, which looks  *)
(* at every source on that vector; or the sink fails.  The signaller gets  *)
(* the error back and a claim only logs it: nobody sends it again, and the *)
(* events that had no other carrier are gone.                              *)
Told(v) == {s \in Sources : assigned[s] = v}

SinkSend(v) ==
    \/ /\ owed' = owed \ Told(v) /\ refused' = refused \ Told(v)
       /\ UNCHANGED refusals
    \/ /\ refusals < Refusals /\ refusals' = refusals + 1
       /\ refused' = refused \cup {s \in owed \cap Told(v) : ~OnItsWay(s)'}
       /\ UNCHANGED owed

------------------------------------------------------------------------------
(* signal_used_queue() and signal_config_change() *)

(* The device published something: a used buffer, a new configuration. *)
Publish(t, s) ==
    /\ live /\ pc[t] = "idle"
    /\ t \in threads \/ (t = Handler /\ LockFree)
    /\ src' = [src EXCEPT ![t] = s]
    /\ owed' = owed \cup {s} /\ refused' = refused \ {s}
    /\ Goto(t, "enabled")
    /\ UNCHANGED <<control, assigned, table, isr, line, device, vec, sawMask, guest, refusals>>

IsEnabled(t) ==
    /\ pc[t] = "enabled"
    /\ Goto(t, IF enabled THEN "vector" ELSE "line")
    /\ UNCHANGED <<control, assigned, table, isr, line, device, src, vec, sawMask, guest, history>>

(* LineInterrupt::raise(): the ISR bit, then the line. *)
RaiseIsr(t) ==
    /\ pc[t] = "line"
    /\ isr' = isr \cup {src[t]}
    /\ Goto(t, "trigger")
    /\ UNCHANGED <<control, assigned, table, line, device, src, vec, sawMask, guest, history>>

Trigger(t) ==
    /\ pc[t] = "trigger"
    /\ line' = TRUE
    /\ Return(t)
    /\ UNCHANGED <<control, assigned, table, isr, device, guest, history>>

(* queue_vector(), config_vector(): a critical section of their own. *)
ReadVector(t) ==
    /\ pc[t] = "vector"
    /\ IF assigned[src[t]] = None THEN Return(t)
       ELSE /\ vec' = [vec EXCEPT ![t] = assigned[src[t]]]
            /\ Goto(t, "mask") /\ UNCHANGED <<src, sawMask>>
    /\ UNCHANGED <<control, assigned, table, isr, line, device, guest, history>>

(* deliver(): the function mask is read before the lock is taken, and the  *)
(* message is sent after it is released.                                   *)
ReadMask(t) ==
    /\ pc[t] = "mask"
    /\ sawMask' = [sawMask EXCEPT ![t] = fmask]
    /\ Goto(t, "deliver")
    /\ UNCHANGED <<control, assigned, table, isr, line, device, src, vec, guest, history>>

(* Mistake: a vector found masked is dropped. *)
DeliverDrops(t) ==
    /\ pc[t] = "deliver"
    /\ IF sawMask[t] \/ vec[t] \in masked THEN Return(t)
       ELSE Goto(t, "send") /\ UNCHANGED <<src, vec, sawMask>>
    /\ UNCHANGED <<control, assigned, table, isr, line, device, guest, history>>

Deliver(t) ==
    /\ pc[t] = "deliver"
    /\ IF sawMask[t] \/ vec[t] \in masked
       THEN pending' = pending \cup {vec[t]} /\ Return(t)
       ELSE /\ pending' = pending \ {vec[t]}
            /\ Goto(t, "send") /\ UNCHANGED <<src, vec, sawMask>>
    /\ UNCHANGED <<control, assigned, masked, isr, line, device, guest, history>>

Send(t) ==
    /\ pc[t] = "send"
    /\ Return(t)
    /\ UNCHANGED <<control, assigned, table, isr, line, device, guest>>
    /\ SinkSend(vec[t])

Signal(t) ==
    \/ IsEnabled(t) \/ RaiseIsr(t) \/ Trigger(t)
    \/ ReadVector(t) \/ ReadMask(t) \/ Deliver(t) \/ Send(t)

------------------------------------------------------------------------------
(* The driver.  Everything but the control word goes through the BAR, that *)
(* is, through the transport lock.                                         *)

(* A configuration write swaps the mirrored control word under the PCI     *)
(* root's lock; the transport is told after that lock is released.  A      *)
(* driver moves between INTx and MSI-X only while the device is not live.  *)
WriteControl ==
    /\ driver = "idle"
    /\ live => threads = {} \/ LiveControl
    /\ enabled' \in (IF live THEN {enabled} ELSE BOOLEAN)
    /\ fmask' \in BOOLEAN
    /\ control' # control
    /\ driver' = "changed"
    /\ UNCHANGED <<assigned, table, isr, line, device, signaller, burst, history>>

(* What take_pending() gives for every vector of a set. *)
Claim(vs) == (pending \cap vs) \ masked

(* Mistake: the control word is only stored. *)
FlushNothing ==
    /\ driver = "changed" /\ LockFree
    /\ driver' = "idle"
    /\ UNCHANGED <<control, assigned, table, isr, line, device, signaller, burst, history>>

(* flush_pending() *)
FlushPending ==
    /\ driver = "changed" /\ LockFree
    /\ burst' = IF enabled /\ ~fmask THEN Claim(Vectors) ELSE {}
    /\ pending' = pending \ burst'
    /\ driver' = IF burst' = {} THEN "idle" ELSE "sending"
    /\ UNCHANGED <<control, assigned, masked, isr, line, device, signaller, history>>

SendClaimed(v) ==
    /\ driver = "sending" /\ v \in burst
    /\ burst' = burst \ {v}
    /\ driver' = IF burst' = {} THEN "idle" ELSE "sending"
    /\ UNCHANGED <<control, assigned, table, isr, line, device, signaller>>
    /\ SinkSend(v)

(* write_table(), on the mask bit of an entry. *)
Mask(v) ==
    /\ driver = "idle" /\ LockFree /\ v \notin masked
    /\ masked' = masked \cup {v}
    /\ UNCHANGED <<control, assigned, pending, isr, line, device, signaller, guest, history>>

(* Mistake: the PBA is left for the next signal to look at. *)
UnmaskOnly(v) ==
    /\ driver = "idle" /\ LockFree /\ v \in masked
    /\ masked' = masked \ {v}
    /\ UNCHANGED <<control, assigned, pending, isr, line, device, signaller, guest, history>>

Unmask(v) ==
    /\ driver = "idle" /\ LockFree /\ v \in masked
    /\ masked' = masked \ {v}
    /\ burst' = IF fmask THEN {} ELSE pending \cap {v}
    /\ pending' = pending \ burst'
    /\ driver' = IF burst' = {} THEN "idle" ELSE "sending"
    /\ UNCHANGED <<control, assigned, isr, line, device, signaller, history>>

(* Mistake: any number is stored. *)
AcceptAny(v) == v

(* accept(): a number outside the table reads back as None. *)
Accept(v) == IF v \in Vectors THEN v ELSE None

(* queue_msix_vector and config_msix_vector, which a driver writes before  *)
(* DRIVER_OK.                                                              *)
AssignVector(s, v) ==
    /\ driver = "idle" /\ LockFree /\ ~live
    /\ assigned' = [assigned EXCEPT ![s] = Accept(v)]
    /\ UNCHANGED <<control, table, isr, line, device, signaller, guest, history>>

DriverOk ==
    /\ driver = "idle" /\ LockFree /\ ~live
    /\ live' = TRUE
    /\ UNCHANGED <<control, assigned, table, isr, line, threads, signaller, guest, history>>

(* take_status(): the handler of the line reads the ISR, which clears it. *)
ReadIsr ==
    /\ line /\ driver = "idle" /\ LockFree
    /\ line' = FALSE
    /\ isr' = {}
    /\ owed' = owed \ isr /\ refused' = refused \ isr
    /\ UNCHANGED <<control, assigned, table, device, signaller, guest, refusals>>

Quiet == driver = "idle" /\ LockFree /\ \A t \in Threads : pc[t] = "idle"

(* A write of 0 to device_status: the device joins its threads, then       *)
(* clear() drops the assignments and the PBA; the control word and the     *)
(* table stay.                                                             *)
DeviceReset ==
    /\ live /\ Quiet
    /\ live' = FALSE
    /\ isr' = {} /\ pending' = {}
    /\ assigned' = [s \in Sources |-> None]
    /\ owed' = {} /\ refused' = {}
    /\ UNCHANGED <<control, masked, line, threads, signaller, guest, refusals>>

(* power_on_reset() of the transport, with every vCPU parked. *)
PowerOnReset ==
    /\ Quiet
    /\ enabled' = FALSE /\ fmask' = FALSE
    /\ assigned' = [s \in Sources |-> None]
    /\ masked' = Vectors /\ pending' = {}
    /\ isr' = {} /\ line' = FALSE /\ live' = FALSE
    /\ owed' = {} /\ refused' = {}
    /\ UNCHANGED <<threads, signaller, guest, refusals>>

Driver ==
    \/ WriteControl \/ FlushPending \/ DriverOk \/ ReadIsr
    \/ \E v \in Vectors : SendClaimed(v) \/ Mask(v) \/ Unmask(v)
    \/ \E s \in Sources, v \in Vectors \cup {None, Beyond} : AssignVector(s, v)

Next ==
    \/ \E t \in Signallers : Signal(t) \/ \E s \in Sources : Publish(t, s)
    \/ Driver
    \/ DeviceReset \/ PowerOnReset

Spec == Init /\ [][Next]_vars

(***************************************************************************)
(* Fairness: a thread that signals runs on, a configuration write gets the *)
(* transport lock and finishes on its vCPU, and the driver serves the line.*)
(***************************************************************************)
FairSpec ==
    /\ Spec
    /\ \A t \in Signallers : WF_vars(Signal(t))
    /\ SF_vars(FlushPending) /\ SF_vars(ReadIsr)
    /\ \A v \in Vectors : WF_vars(SendClaimed(v))

------------------------------------------------------------------------------
(* Properties.                                                             *)

(* The PBA only remembers what cannot be sent yet: a vector both pending   *)
(* and deliverable would wait for a signal that may never come (deliver(), *)
(* write_table() and flush_pending() against each other).                  *)
PendingIsDeferred == pending \subseteq masked \/ fmask \/ driver = "changed"

(* The guest listens for s: by the line, or by the vector it assigned. *)
Listens(s) == enabled => assigned[s] # None

(* No event of a live device is lost between the threads that signal it    *)
(* and the driver that masks, unmasks and flushes: whatever the guest was  *)
(* not told of is on its way, in the ISR with the line raised or about to  *)
(* be, claimed, or remembered for the vector's unmasking - unless the sink *)
(* itself refused the message, which deliver() and send() never repeat.    *)
NoEventLost == \A s \in owed \ refused : Listens(s) => OnItsWay(s)

(* ... and so the guest is told (or resets the device, or the sink refuses *)
(* the message), if it listens, its vector is deliverable again and again, *)
(* however briefly, and the sink does not go on refusing messages.         *)
EventIsTold ==
    \A s \in Sources :
        []<>(driver = "idle" /\ ~fmask /\ assigned[s] \notin masked)
            => ((s \in owed \ refused /\ Listens(s)) ~> (s \notin owed \ refused))
==============================================================================
