------------------------------- MODULE Quiesce -------------------------------
(***************************************************************************)
(* The pause gate of crates/virtio-core/src/quiesce.rs at the granularity  *)
(* of its atomic operations and its mutex.                                 *)
(*                                                                         *)
(* Threads: Workers call wait_while_paused() before every unit of work     *)
(* (queue workers, the virtio-net receive thread, ring workers), Pumps     *)
(* call try_enter() (the window's input pump, the typist), the Supervisor  *)
(* closes the gate, waits for it to settle, tears workers down on a        *)
(* paused VM and opens it again, and the Stopper opens it from another     *)
(* thread (Lifecycle::shutdown).  Loads and stores are interleaved one at  *)
(* a time, i.e. the model is sequentially consistent.                      *)
(*                                                                         *)
(* All waits on the condition variable are timed (WAKE_POLL), so a waiter  *)
(* may go on at any time; notify_all() therefore changes no state, and     *)
(* wake() is the acquisition and release of the mutex.                     *)
(***************************************************************************)
EXTENDS Naturals, FiniteSets

CONSTANTS Workers, Pumps, Supervisor, Stopper, NoOne

Users == Workers \cup Pumps
Threads == Users \cup {Supervisor, Stopper}

ASSUME GateAssumption ==
    /\ IsFiniteSet(Users)
    /\ Workers \cap Pumps = {}
    /\ Supervisor \notin Users
    /\ Stopper \notin Users
    /\ Supervisor # Stopper
    /\ NoOne \notin Threads

VARIABLES
    paused,     \* Quiesce::paused
    in_flight,  \* Quiesce::in_flight, the number of live Passes
    lock,       \* owner of Quiesce::lock
    pc,         \* where each user of the gate is
    stopping,   \* each worker's own stop flag, read by its keep_going
    sup,        \* where the supervisor is
    target,     \* the worker the supervisor is joining
    stop,       \* where the stopper is
    settled     \* history: wait_until_idle() returned true, not resumed since

vars == <<paused, in_flight, lock, pc, stopping, sup, target, stop, settled>>

UserPc == {"idle", "entering", "claimed", "refused", "dropped",
           "blocked", "locked", "admitted", "working", "finished", "gone"}
SupPc == {"run", "settle", "probe", "held", "stopwake", "join", "resumewake"}

TypeOK ==
    /\ paused \in BOOLEAN
    /\ in_flight \in Nat
    /\ lock \in Threads \cup {NoOne}
    /\ pc \in [Users -> UserPc]
    /\ stopping \in [Users -> BOOLEAN]
    /\ sup \in SupPc
    /\ target \in Workers \cup {NoOne}
    /\ stop \in {"idle", "wake", "done"}
    /\ settled \in BOOLEAN

Init ==
    /\ paused = FALSE
    /\ in_flight = 0
    /\ lock = NoOne
    /\ pc = [u \in Users |-> "idle"]
    /\ stopping = [u \in Users |-> FALSE]
    /\ sup = "run"
    /\ target = NoOne
    /\ stop = "idle"
    /\ settled = FALSE

------------------------------------------------------------------------------
(* Users of the gate.                                                      *)

Goto(u, from, to) == pc[u] = from /\ pc' = [pc EXCEPT ![u] = to]

Others == <<stopping, sup, target, stop, settled>>

(* Mistakes the gate guards against, one definition each; only the         *)
(* mutation runs substitute them.                                          *)

(* The refused pass is forgotten instead of dropped. *)
DropRefusedLeaks(u) ==
    /\ Goto(u, "refused", "dropped")
    /\ UNCHANGED <<paused, in_flight, lock, Others>>

(* The slow path lets go of the lock before it claims. *)
SlowCheckUnlocks(w) ==
    /\ ~stopping[w]
    /\ Goto(w, "locked", IF paused THEN "blocked" ELSE "admitted")
    /\ lock' = NoOne
    /\ UNCHANGED <<paused, in_flight, Others>>

(* The slow path looks at the gate before, or instead of, keep_going. *)
SlowCheckFirst(w) ==
    /\ Goto(w, "locked", IF paused THEN "blocked" ELSE "admitted")
    /\ lock' = IF paused THEN NoOne ELSE lock
    /\ UNCHANGED <<paused, in_flight, Others>>

(* The slow path never reads the gate again. *)
SlowCheckStale(w) ==
    /\ ~stopping[w]
    /\ Goto(w, "locked", "blocked")
    /\ lock' = NoOne
    /\ UNCHANGED <<paused, in_flight, Others>>

(* An explicit release on top of the one in Drop. *)
FinishTwice(u) ==
    /\ Goto(u, "working", "finished")
    /\ in_flight' = in_flight - 2
    /\ UNCHANGED <<paused, lock, Others>>

(* A worker asks keep_going before anything else; a pump has no such flag. *)
KeepGoing(u) ==
    /\ ~stopping[u]
    /\ Goto(u, "idle", "entering")
    /\ UNCHANGED <<paused, in_flight, lock, Others>>

(* Quiesce::pass(): claim first ... *)
Claim(u) ==
    /\ Goto(u, "entering", "claimed")
    /\ in_flight' = in_flight + 1
    /\ UNCHANGED <<paused, lock, Others>>

(* ... check second. *)
Check(u) ==
    /\ Goto(u, "claimed", IF paused THEN "refused" ELSE "working")
    /\ UNCHANGED <<paused, in_flight, lock, Others>>

(* Drop for Pass: give the claim back, then wake(). *)
DropRefused(u) ==
    /\ Goto(u, "refused", "dropped")
    /\ in_flight' = in_flight - 1
    /\ UNCHANGED <<paused, lock, Others>>

(* After that wake a worker goes on to take the lock itself; a pump has    *)
(* its None and drops its input.                                           *)
WakeRefused(u) ==
    /\ lock = NoOne
    /\ Goto(u, "dropped", IF u \in Workers THEN "blocked" ELSE "idle")
    /\ UNCHANGED <<paused, in_flight, lock, Others>>

TakeLock(w) ==
    /\ lock = NoOne
    /\ Goto(w, "blocked", "locked")
    /\ lock' = w
    /\ UNCHANGED <<paused, in_flight, Others>>

(* The loop of the slow path, under the lock: stop, be admitted, or sleep  *)
(* (the wait releases the lock; a timeout or a notification ends it).      *)
SlowStop(w) ==
    /\ stopping[w]
    /\ Goto(w, "locked", "gone")
    /\ lock' = NoOne
    /\ UNCHANGED <<paused, in_flight, Others>>

SlowCheck(w) ==
    /\ ~stopping[w]
    /\ Goto(w, "locked", IF paused THEN "blocked" ELSE "admitted")
    /\ lock' = IF paused THEN NoOne ELSE lock
    /\ UNCHANGED <<paused, in_flight, Others>>

(* Some(self.pass()) and the guard goes out of scope. *)
SlowClaim(w) ==
    /\ Goto(w, "admitted", "working")
    /\ in_flight' = in_flight + 1
    /\ lock' = NoOne
    /\ UNCHANGED <<paused, Others>>

(* The unit of work is over: Drop for Pass again. *)
Finish(u) ==
    /\ Goto(u, "working", "finished")
    /\ in_flight' = in_flight - 1
    /\ UNCHANGED <<paused, lock, Others>>

WakeFinished(u) ==
    /\ lock = NoOne
    /\ Goto(u, "finished", "idle")
    /\ UNCHANGED <<paused, in_flight, lock, Others>>

(* keep_going says no at the top of wait_while_paused. *)
FastStop(w) ==
    /\ stopping[w]
    /\ Goto(w, "idle", "gone")
    /\ UNCHANGED <<paused, in_flight, lock, Others>>

UserStep(u) ==
    \/ KeepGoing(u) \/ Claim(u) \/ Check(u)
    \/ DropRefused(u) \/ WakeRefused(u) \/ Finish(u) \/ WakeFinished(u)
WorkerStep(w) ==
    TakeLock(w) \/ SlowStop(w) \/ SlowCheck(w) \/ SlowClaim(w) \/ FastStop(w)

------------------------------------------------------------------------------
(* The supervisor: quiesce(), prepare_save(), a device reset, unquiesce(). *)

SupGoto(from, to) == sup = from /\ sup' = to

(* Quiesce::pause() *)
Pause ==
    /\ SupGoto("run", "settle")
    /\ paused' = TRUE
    /\ settled' = (settled /\ paused)
    /\ UNCHANGED <<in_flight, lock, pc, stopping, target, stop>>

(* prepare_save() and the renderer's checkpoints ask again before they     *)
(* read anything: is_paused() && wait_until_idle().                        *)
PrepareSave ==
    /\ paused
    /\ SupGoto("held", "settle")
    /\ UNCHANGED <<paused, in_flight, lock, pc, stopping, target, stop, settled>>

SettleLock ==
    /\ lock = NoOne
    /\ SupGoto("settle", "probe")
    /\ lock' = Supervisor
    /\ UNCHANGED <<paused, in_flight, pc, stopping, target, stop, settled>>

(* Mistakes: the last worker is not waited for; the deadline is never met. *)
IdleButOne ==
    /\ SupGoto("probe", "held")
    /\ in_flight <= 1
    /\ lock' = NoOne
    /\ settled' = paused
    /\ UNCHANGED <<paused, in_flight, pc, stopping, target, stop>>

NoDeadline ==
    /\ SupGoto("probe", "settle")
    /\ in_flight # 0
    /\ lock' = NoOne
    /\ UNCHANGED <<paused, in_flight, pc, stopping, target, stop, settled>>

(* wait_until_idle() returns true. *)
Idle ==
    /\ SupGoto("probe", "held")
    /\ in_flight = 0
    /\ lock' = NoOne
    /\ settled' = paused
    /\ UNCHANGED <<paused, in_flight, pc, stopping, target, stop>>

(* The deadline passed: wait_until_idle() returns false, the pause goes on. *)
GiveUp ==
    /\ SupGoto("probe", "held")
    /\ in_flight # 0
    /\ lock' = NoOne
    /\ UNCHANGED <<paused, in_flight, pc, stopping, target, stop, settled>>

WaitIdle ==
    /\ SupGoto("probe", "settle")
    /\ in_flight # 0
    /\ lock' = NoOne
    /\ UNCHANGED <<paused, in_flight, pc, stopping, target, stop, settled>>

(* A device reset on a quiesced VM stops the device's worker: the flag,    *)
(* then wake(), then join, then a fresh thread.                            *)
StopWorker(w) ==
    /\ SupGoto("held", "stopwake")
    /\ target' = w
    /\ stopping' = [stopping EXCEPT ![w] = TRUE]
    /\ UNCHANGED <<paused, in_flight, lock, pc, stop, settled>>

StopWake ==
    /\ lock = NoOne
    /\ SupGoto("stopwake", "join")
    /\ UNCHANGED <<paused, in_flight, lock, pc, stopping, target, stop, settled>>

Join ==
    /\ SupGoto("join", "held")
    /\ pc[target] = "gone"
    /\ pc' = [pc EXCEPT ![target] = "idle"]
    /\ stopping' = [stopping EXCEPT ![target] = FALSE]
    /\ target' = NoOne
    /\ UNCHANGED <<paused, in_flight, lock, stop, settled>>

(* Quiesce::resume(): the store, then wake(). *)
Resume ==
    /\ SupGoto("held", "resumewake")
    /\ paused' = FALSE
    /\ settled' = FALSE
    /\ UNCHANGED <<in_flight, lock, pc, stopping, target, stop>>

ResumeWake ==
    /\ lock = NoOne
    /\ SupGoto("resumewake", "run")
    /\ UNCHANGED <<paused, in_flight, lock, pc, stopping, target, stop, settled>>

SupStep ==
    \/ Pause \/ PrepareSave \/ SettleLock \/ Idle \/ GiveUp \/ WaitIdle
    \/ \E w \in Workers : StopWorker(w)
    \/ StopWake \/ Join \/ Resume \/ ResumeWake

------------------------------------------------------------------------------
(* Lifecycle::shutdown() opens the gate from the thread that stops the VM. *)

StopResume ==
    /\ stop = "idle"
    /\ stop' = "wake"
    /\ paused' = FALSE
    /\ settled' = FALSE
    /\ UNCHANGED <<in_flight, lock, pc, stopping, sup, target>>

StopResumeWake ==
    /\ stop = "wake"
    /\ lock = NoOne
    /\ stop' = "done"
    /\ UNCHANGED <<paused, in_flight, lock, pc, stopping, sup, target, settled>>

Next ==
    \/ \E u \in Users : UserStep(u)
    \/ \E w \in Workers : WorkerStep(w)
    \/ SupStep
    \/ StopResume
    \/ StopResumeWake

Spec == Init /\ [][Next]_vars

(***************************************************************************)
(* Threads keep running, and a mutex that is free again and again is       *)
(* eventually taken by whoever waits for it: nobody holds it across        *)
(* anything that blocks, and a waiter sleeps WAKE_POLL between two tries.  *)
(* A deadline that is looked at again and again eventually passes.  A unit *)
(* of work need not end: Finish has no fairness.                           *)
(***************************************************************************)
Fairness ==
    /\ \A u \in Users :
        /\ WF_vars(Claim(u)) /\ WF_vars(Check(u)) /\ WF_vars(DropRefused(u))
        /\ SF_vars(WakeRefused(u)) /\ SF_vars(WakeFinished(u))
    /\ \A w \in Workers :
        /\ SF_vars(TakeLock(w))
        /\ WF_vars(SlowStop(w)) /\ WF_vars(SlowCheck(w))
        /\ WF_vars(SlowClaim(w)) /\ WF_vars(FastStop(w))
    /\ SF_vars(SettleLock) /\ WF_vars(Idle) /\ SF_vars(GiveUp)
    /\ WF_vars(Idle \/ GiveUp \/ WaitIdle)
    /\ SF_vars(StopWake) /\ WF_vars(Join) /\ SF_vars(ResumeWake)

FairSpec == Spec /\ Fairness

------------------------------------------------------------------------------
(* Properties.                                                             *)

(* A thread between a successful fetch_add and its fetch_sub. *)
Holding == {"claimed", "refused", "working"}

(* The pause contract ("paused has to mean nothing writes guest memory"):  *)
(* once wait_until_idle() has returned true on a closed gate, no worker    *)
(* and no pump is working, nor will one be until the gate is opened -      *)
(* although the slow path of wait_while_paused() checks first and claims   *)
(* second, and pause() does not take the lock.                             *)
SettledMeansIdle ==
    settled /\ paused => \A u \in Users : pc[u] # "working"

(* in_flight counts the live passes: RAII neither leaks nor double-drops   *)
(* one on any of the paths out of wait_while_paused() and try_enter().     *)
InFlightCounts ==
    in_flight = Cardinality({u \in Users : pc[u] \in Holding})

(* A device reset on a paused VM joins its worker: a worker parked on the  *)
(* closed gate leaves it when its stop flag is set, without a resume.      *)
TeardownOnPausedVmEnds ==
    (sup = "join" /\ paused)
        ~> (sup # "join" \/ ~paused \/ pc[target] = "working")

(* A worker that never finishes its work cannot wedge a pause:             *)
(* wait_until_idle() returns even if Finish never happens.                 *)
PauseIsBounded == (sup = "settle") ~> (sup = "held")

(* Opening the gate releases whoever is parked on it. *)
ResumeReleases ==
    \A w \in Workers :
        (pc[w] = "blocked") ~> (pc[w] \in {"working", "gone"} \/ paused)

(* The abstract gate this implements. *)
gate == IF ~paused THEN "open" ELSE IF settled THEN "closed" ELSE "closing"
busy == {u \in Users : pc[u] = "working"}

Gate == INSTANCE QuiesceGate WITH Users <- Users, gate <- gate, busy <- busy

(* Every step of the gate is a step of QuiesceGate or leaves it alone. *)
ImplementsGate == Gate!GateSpec
==============================================================================
