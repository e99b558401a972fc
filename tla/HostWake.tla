------------------------------- MODULE HostWake -------------------------------
(***************************************************************************)
(* The host-wake worker of a bus whose kicks are synchronous:              *)
(* crates/virtio-core/src/host_wake.rs.  Device threads (Wakers) ask for   *)
(* a slot to be served, the service thread serves the pending slots in     *)
(* order, and a controller resets the machine and shuts the service down.  *)
(*                                                                         *)
(* An action is one access to an atomic or one critical section of the     *)
(* signal mutex.  The pause gate is reduced to whether it is shut; a       *)
(* device's queue_notify(0) is the pair Notify, Notified.                  *)
(***************************************************************************)
EXTENDS Naturals

CONSTANTS
    NSlots,    \* devices on the bus
    Wakers     \* host threads with work for them

ASSUME HostWakeAssumption == NSlots \in Nat \ {0}

Slots == 0..(NSlots - 1)
Idle == NSlots   \* a waker that is not in raise()

VARIABLES
    pending, signal, stopping, tornDown,
    svc,      \* the service thread
    cursor,   \* the slot its loop is at
    wk,       \* the slot each waker has still to signal for
    ctl,      \* the controller
    sweep,    \* the slot clear() is at
    paused,
    owed,     \* history: asked for, and not notified since
    raced     \* history: a wake was raised while clear() was at work

vars == <<pending, signal, stopping, tornDown, svc, cursor, wk, ctl, sweep, paused, owed, raced>>

TypeOK ==
    /\ pending \in [Slots -> BOOLEAN] /\ owed \in [Slots -> BOOLEAN]
    /\ signal \in BOOLEAN /\ stopping \in BOOLEAN /\ tornDown \in BOOLEAN
    /\ paused \in BOOLEAN /\ raced \in BOOLEAN
    /\ svc \in {"wait", "asleep", "scan", "gate", "serve", "notify", "gone"}
    /\ cursor \in 0..NSlots /\ sweep \in 0..NSlots
    /\ wk \in [Wakers -> 0..NSlots]
    /\ ctl \in {"idle", "signal", "join", "clear", "spawn"}
    /\ svc \in {"gate", "serve", "notify"} => cursor < NSlots

Init ==
    /\ pending = [s \in Slots |-> FALSE] /\ owed = [s \in Slots |-> FALSE]
    /\ signal = FALSE /\ stopping = FALSE /\ tornDown = FALSE
    /\ svc = "wait" /\ cursor = 0
    /\ wk = [w \in Wakers |-> Idle]
    /\ ctl = "idle" /\ sweep = 0
    /\ paused = FALSE /\ raced = FALSE

------------------------------------------------------------------------------
(* Wakers: raise().                                                        *)

(* Mistake: a set signal is taken for a set bit. *)
RaiseOnSignal(w, s) ==
    /\ wk[w] = Idle
    /\ wk' = [wk EXCEPT ![w] = IF signal THEN Idle ELSE s]
    /\ pending' = [pending EXCEPT ![s] = pending[s] \/ ~signal]
    /\ owed' = [owed EXCEPT ![s] = TRUE]
    /\ raced' = (raced \/ ctl = "clear")
    /\ UNCHANGED <<signal, stopping, tornDown, svc, cursor, ctl, sweep, paused>>

(* The swap: only the wake that sets the bit goes on to signal. *)
Raise(w, s) ==
    /\ wk[w] = Idle
    /\ wk' = [wk EXCEPT ![w] = IF pending[s] THEN Idle ELSE s]
    /\ pending' = [pending EXCEPT ![s] = TRUE]
    /\ owed' = [owed EXCEPT ![s] = TRUE]
    /\ raced' = (raced \/ ctl = "clear")
    /\ UNCHANGED <<signal, stopping, tornDown, svc, cursor, ctl, sweep, paused>>

(* signal_thread(): the flag and, if the thread sleeps, the notification. *)
SignalThread ==
    /\ signal' = TRUE
    /\ svc' = IF svc = "asleep" THEN "wait" ELSE svc

WakerSignal(w) ==
    /\ wk[w] # Idle
    /\ wk' = [wk EXCEPT ![w] = Idle]
    /\ SignalThread
    /\ UNCHANGED <<pending, stopping, tornDown, cursor, ctl, sweep, paused, owed, raced>>

------------------------------------------------------------------------------
(* The service thread: service_loop().                                     *)

SvcOnly == UNCHANGED <<stopping, tornDown, wk, ctl, sweep, paused, raced>>

Sleep ==
    /\ svc = "wait" /\ ~signal /\ ~stopping
    /\ svc' = "asleep"
    /\ UNCHANGED <<pending, signal, cursor, owed>> /\ SvcOnly

WaitStop ==
    /\ svc = "wait" /\ stopping
    /\ svc' = "gone"
    /\ UNCHANGED <<pending, signal, cursor, owed>> /\ SvcOnly

WakeUp ==
    /\ svc = "wait" /\ signal /\ ~stopping
    /\ svc' = "scan" /\ signal' = FALSE /\ cursor' = 0
    /\ UNCHANGED <<pending, owed>> /\ SvcOnly

(* Mistake: the loop runs past the last slot. *)
ScanSkipPast ==
    /\ svc = "scan"
    /\ cursor = NSlots \/ (cursor < NSlots /\ ~pending[cursor])
    /\ cursor' = cursor + 1
    /\ UNCHANGED <<pending, signal, svc, owed>> /\ SvcOnly

ScanSkip ==
    /\ svc = "scan" /\ cursor < NSlots /\ ~pending[cursor]
    /\ cursor' = cursor + 1
    /\ UNCHANGED <<pending, signal, svc, owed>> /\ SvcOnly

(* "Cleared before the notify, so a wake during it is served by the next   *)
(* pass rather than lost."                                                 *)
ScanTake ==
    /\ svc = "scan" /\ cursor < NSlots /\ pending[cursor]
    /\ pending' = [pending EXCEPT ![cursor] = FALSE]
    /\ svc' = "gate"
    /\ UNCHANGED <<signal, cursor, owed>> /\ SvcOnly

(* Mistake: the signal is cleared after the pass, not before it. *)
ScanEndClears ==
    /\ svc = "scan" /\ cursor = NSlots
    /\ svc' = "wait" /\ signal' = FALSE
    /\ UNCHANGED <<pending, cursor, owed>> /\ SvcOnly

ScanEnd ==
    /\ svc = "scan" /\ cursor = NSlots
    /\ svc' = "wait"
    /\ UNCHANGED <<pending, signal, cursor, owed>> /\ SvcOnly

(* wait_while_paused(keep_going) *)
GateStop ==
    /\ svc = "gate" /\ stopping
    /\ svc' = "gone"
    /\ UNCHANGED <<pending, signal, cursor, owed>> /\ SvcOnly

GatePass ==
    /\ svc = "gate" /\ ~paused
    /\ svc' = "serve"
    /\ UNCHANGED <<pending, signal, cursor, owed>> /\ SvcOnly

(* queue_notify(0) sees whatever was asked for before it began. *)
Notify ==
    /\ svc = "serve"
    /\ svc' = "notify"
    /\ owed' = [owed EXCEPT ![cursor] = FALSE]
    /\ UNCHANGED <<pending, signal, cursor>> /\ SvcOnly

Notified ==
    /\ svc = "notify"
    /\ svc' = "scan" /\ cursor' = cursor + 1
    /\ UNCHANGED <<pending, signal, owed>> /\ SvcOnly

Service ==
    \/ Sleep \/ WaitStop \/ WakeUp \/ ScanSkip \/ ScanTake \/ ScanEnd
    \/ GateStop \/ GatePass \/ Notify \/ Notified

------------------------------------------------------------------------------
(* The controller: stop() in reset() or in shutdown().                     *)

CtlOnly == UNCHANGED <<cursor, wk, paused, raced>>

(* The machine is reset while it is quiesced. *)
Reset ==
    /\ paused /\ ctl = "idle" /\ ~tornDown
    /\ ctl' = "signal" /\ stopping' = TRUE
    /\ UNCHANGED <<pending, signal, tornDown, svc, sweep, owed>> /\ CtlOnly

Shutdown ==
    /\ ctl = "idle" /\ ~tornDown
    /\ ctl' = "signal" /\ stopping' = TRUE /\ tornDown' = TRUE
    /\ UNCHANGED <<pending, signal, svc, sweep, owed>> /\ CtlOnly

(* Mistake: stop() wakes the gate only. *)
StopUnsignalled ==
    /\ ctl = "signal"
    /\ ctl' = "join"
    /\ UNCHANGED <<signal, svc, pending, stopping, tornDown, sweep, owed>> /\ CtlOnly

StopSignal ==
    /\ ctl = "signal"
    /\ ctl' = "join"
    /\ SignalThread
    /\ UNCHANGED <<pending, stopping, tornDown, sweep, owed>> /\ CtlOnly

Join ==
    /\ ctl = "join" /\ svc = "gone"
    /\ ctl' = IF tornDown THEN "idle" ELSE "clear"
    /\ sweep' = 0
    /\ UNCHANGED <<pending, signal, stopping, tornDown, svc, owed>> /\ CtlOnly

(* clear(): the bits one by one - what they asked for belongs to the boot  *)
(* being reset - and then the signal.                                      *)
ClearBit ==
    /\ ctl = "clear" /\ sweep < NSlots
    /\ pending' = [pending EXCEPT ![sweep] = FALSE]
    /\ owed' = [owed EXCEPT ![sweep] = FALSE]
    /\ sweep' = sweep + 1
    /\ UNCHANGED <<ctl, signal, stopping, tornDown, svc>> /\ CtlOnly

ClearSignal ==
    /\ ctl = "clear" /\ sweep = NSlots
    /\ ctl' = "spawn" /\ signal' = FALSE
    /\ UNCHANGED <<pending, stopping, tornDown, svc, sweep, owed>> /\ CtlOnly

Spawn ==
    /\ ctl = "spawn"
    /\ ctl' = "idle" /\ stopping' = FALSE /\ svc' = "wait"
    /\ UNCHANGED <<pending, signal, tornDown, sweep, owed>> /\ CtlOnly

(* The VM is paused and resumed around all this. *)
Pause ==
    /\ paused' = ~paused
    /\ UNCHANGED <<pending, signal, stopping, tornDown, svc, cursor, wk, ctl, sweep, owed, raced>>

Control == Reset \/ Shutdown \/ StopSignal \/ Join \/ ClearBit \/ ClearSignal \/ Spawn

Next ==
    \/ \E w \in Wakers : (\E s \in Slots : Raise(w, s)) \/ WakerSignal(w)
    \/ Service
    \/ Control
    \/ Pause

Spec == Init /\ [][Next]_vars

(* Threads run; device code returns; nobody has to wake, reset or pause. *)
FairSpec ==
    /\ Spec
    /\ \A w \in Wakers : WF_vars(WakerSignal(w))
    /\ WF_vars(Service)
    /\ WF_vars(StopSignal \/ Join \/ ClearBit \/ ClearSignal \/ Spawn)

------------------------------------------------------------------------------
(* Properties.                                                             *)

(* Somebody will still look at slot s. *)
Covered(s) ==
    \/ signal
    \/ \E w \in Wakers : wk[w] = s
    \/ svc = "scan" /\ cursor <= s
    \/ svc \in {"gate", "serve", "notify"} /\ cursor < s

(* A set bit means that "the thread has not taken it yet and will serve    *)
(* it": no interleaving of raise() with the loop, which clears the signal  *)
(* first and the bits later, or with the restart of the thread leaves a    *)
(* bit that nothing leads to - unless the wake fell into a clear().        *)
PendingIsCovered ==
    ~stopping /\ ~raced => \A s \in Slots : pending[s] => Covered(s)

(* Every wake is followed by a notify of its slot that began after it, or  *)
(* the boot it belongs to is reset, unless the service is shut down, the   *)
(* VM stays paused or a wake fell into a clear().                          *)
WakeServed ==
    <>[](~paused) => \A s \in Slots : owed[s] ~> (~owed[s] \/ tornDown \/ raced)

(* stop() can join the thread wherever it is: asleep on the condvar, at    *)
(* the gate of a paused VM, or in device code.                             *)
StopEnds == (ctl = "join") ~> (ctl # "join")

------------------------------------------------------------------------------
(* What a comment in the code says and the code does not do.               *)

(* raise(): "if it was already set, the thread has not taken it yet and    *)
(* will serve it after this wake" - also after a machine reset.            *)
WakeAlwaysServed ==
    <>[](~paused) => \A s \in Slots : owed[s] ~> (~owed[s] \/ tornDown)
===============================================================================
