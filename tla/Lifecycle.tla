------------------------------ MODULE Lifecycle ------------------------------
(***************************************************************************)
(* The lifecycle seam of one VM: crates/vmm-core/src/lifecycle.rs, the     *)
(* vCPU run loop that checks in with it (vcpu.rs) and the thread that      *)
(* stops the VM (VcpuThreads::join_or_stop).                               *)
(*                                                                         *)
(* Threads: one per vCPU (pc), one requester that calls pause, resume,     *)
(* reset and save one at a time (rq), and the stopper.  An action is one   *)
(* critical section of Lifecycle::inner, one access to an atomic outside   *)
(* it, or one call into the machine.  Every wait on the condition variable *)
(* is timed (KICK_INTERVAL), so a waiter may look again at any time.       *)
(***************************************************************************)
EXTENDS Naturals, FiniteSets

CONSTANTS
    Vcpu,           \* the virtual CPUs
    Bsp,            \* vCPU 0, the boot processor
    MaxResetStorm,  \* MAX_RESET_STORM
    Ops,            \* the operations the requester is asked for
    GuestActs,      \* what the guest does besides running
    Failures        \* what may go wrong on the host

Operations == {"pause", "resume", "reset", "save"}
Acts == {"reset", "poweroff", "fault", "end"}
Faults == {"timeout", "flush", "vcpuReset", "machineReset", "save"}

ASSUME LifecycleAssumption ==
    /\ Bsp \in Vcpu
    /\ MaxResetStorm \in Nat
    /\ Ops \subseteq Operations
    /\ GuestActs \subseteq Acts
    /\ Failures \subseteq Faults

VARIABLES
    (* Inner, under the mutex *)
    phase, arrived, resetDone, saved, saveError, finished, resetError,
    guestReset, storm, stormedOut,
    recent,      \* last_reset.elapsed() < RESET_STORM_WINDOW
    (* atomics *)
    attention, running,
    (* the machine *)
    gate,        \* host workers: the abstract gate of QuiesceGate
    resetLatch,  \* a reset register was written (ResetControl)
    powerLatch,  \* ACPI S5 was written
    (* the threads *)
    pc,          \* each vCPU thread
    mode,        \* why it is parked: "run" (it is not), "reset", "fault"
    rq,          \* the requester
    op,          \* the operation it serves
    ok,          \* its outcome so far
    after,       \* where release() goes on to
    stopper,
    (* history *)
    faulted,     \* the vCPU is shut down (triple fault) until it is reset
    fresh,       \* the vCPU was reset since the machine last was
    botched,     \* a vCPU failed, or timed out in, its half of some reset
    stale        \* guestReset was latched before the machine was last reset

barrier == <<arrived, resetDone>>
saving == <<saved, saveError>>
request == <<guestReset, storm, stormedOut, recent, stale>>
machine == <<gate, resetLatch, powerLatch>>
cpu == <<pc, mode, faulted, fresh>>
requester == <<rq, op, ok, after>>
stopping == <<running, stopper>>
vars == <<phase, attention, barrier, saving, finished, resetError, botched,
          request, machine, cpu, requester, stopping>>

Phase == {"Run", "ParkPause", "HeldPause", "ParkReset", "ResetMachine",
          "ResetVcpus", "SaveVcpus", "Stop"}
CpuPc == {"top", "attn", "flush", "hold", "saving", "resetting", "guest",
          "poll", "parked", "ended", "done"}
RqPc == {"idle", "park", "quiesce", "held", "unquiesce", "release", "attn",
         "setMachine", "machine", "setVcpus", "vcpus", "clear", "count",
         "prepare", "capture", "report", "reported", "take", "write"}

TypeOK ==
    /\ phase \in Phase
    /\ arrived \in [Vcpu -> BOOLEAN] /\ resetDone \in [Vcpu -> BOOLEAN]
    /\ saved \in [Vcpu -> BOOLEAN] /\ finished \in [Vcpu -> BOOLEAN]
    /\ faulted \in [Vcpu -> BOOLEAN] /\ fresh \in [Vcpu -> BOOLEAN]
    /\ saveError \in BOOLEAN /\ resetError \in BOOLEAN /\ guestReset \in BOOLEAN
    /\ stormedOut \in BOOLEAN /\ recent \in BOOLEAN /\ attention \in BOOLEAN
    /\ running \in BOOLEAN /\ resetLatch \in BOOLEAN /\ powerLatch \in BOOLEAN
    /\ ok \in BOOLEAN /\ botched \in BOOLEAN /\ stale \in BOOLEAN
    /\ storm \in Nat
    /\ gate \in {"open", "closing", "closed"}
    /\ pc \in [Vcpu -> CpuPc]
    /\ mode \in [Vcpu -> {"run", "reset", "fault"}]
    /\ rq \in RqPc
    /\ op \in Operations \cup {"none"}
    /\ after \in {"idle", "clear", "count"}
    /\ stopper \in {"watch", "phase", "attn", "gate", "join", "over"}

No == [v \in Vcpu |-> FALSE]

Init ==
    /\ phase = "Run" /\ attention = FALSE
    /\ arrived = No /\ resetDone = No /\ saved = No /\ finished = No
    /\ saveError = FALSE /\ resetError = FALSE
    /\ guestReset = FALSE /\ storm = 0 /\ stormedOut = FALSE
    /\ recent = FALSE /\ stale = FALSE /\ botched = FALSE
    /\ gate = "open" /\ resetLatch = FALSE /\ powerLatch = FALSE
    /\ pc = [v \in Vcpu |-> "top"] /\ mode = [v \in Vcpu |-> "run"]
    /\ faulted = No /\ fresh = [v \in Vcpu |-> TRUE]
    /\ rq = "idle" /\ op = "none" /\ ok = TRUE /\ after = "idle"
    /\ running = TRUE /\ stopper = "watch"

------------------------------------------------------------------------------
(* vCPU threads: run_loop_with.                                            *)

Goto(v, to) == pc' = [pc EXCEPT ![v] = to]
SeamUnchanged == UNCHANGED <<phase, attention, barrier, saving, finished, resetError, botched>>
CpuOnly == SeamUnchanged /\ UNCHANGED <<request, machine, requester, stopping>>

(* while running.load() *)
LoopTop(v) ==
    /\ pc[v] = "top"
    /\ Goto(v, IF running THEN "attn" ELSE "ended")
    /\ UNCHANGED <<mode, faulted, fresh>> /\ CpuOnly

(* if lifecycle.attention(): flush_pending_exit, else KVM_RUN *)
LoopAttention(v) ==
    /\ pc[v] = "attn"
    /\ Goto(v, IF attention THEN "flush" ELSE "guest")
    /\ UNCHANGED <<mode, faulted, fresh>> /\ CpuOnly

(* checkpoint() returned Continue: a vCPU of the run loop enters the guest, *)
(* a parked one is told Parked::Reset and starts its loop again.            *)
Resumed(v) == IF mode[v] = "run" THEN "guest" ELSE "top"

(* flush_pending_exit() ends, in an error or in checkpoint(), which reads   *)
(* the flag once more before it takes the lock.                             *)
Flush(v) ==
    /\ pc[v] = "flush"
    /\ \/ "flush" \in Failures /\ Goto(v, "ended") /\ UNCHANGED mode
       \/ attention /\ Goto(v, "hold") /\ UNCHANGED mode
       \/ ~attention /\ Goto(v, Resumed(v)) /\ mode' = [mode EXCEPT ![v] = "run"]
    /\ UNCHANGED <<faulted, fresh>> /\ CpuOnly

(* The loop of checkpoint(), one action per phase it can find. *)
HoldRun(v) ==
    /\ pc[v] = "hold" /\ phase = "Run"
    /\ Goto(v, Resumed(v))
    /\ mode' = [mode EXCEPT ![v] = "run"]
    /\ UNCHANGED <<faulted, fresh>> /\ CpuOnly

(* Mistake: a stopping seam lets the vCPU go on. *)
HoldStopRuns(v) ==
    /\ pc[v] = "hold" /\ phase = "Stop"
    /\ Goto(v, Resumed(v))
    /\ UNCHANGED <<mode, faulted, fresh>> /\ CpuOnly

HoldStop(v) ==
    /\ pc[v] = "hold" /\ phase = "Stop"
    /\ Goto(v, "ended")
    /\ UNCHANGED <<mode, faulted, fresh>> /\ CpuOnly

HoldPark(v) ==
    /\ pc[v] = "hold" /\ phase \in {"ParkPause", "ParkReset"}
    /\ ~arrived[v]
    /\ arrived' = [arrived EXCEPT ![v] = TRUE]
    /\ UNCHANGED <<phase, attention, resetDone, saving, finished, resetError, botched,
                   request, machine, cpu, requester, stopping>>

HoldSave(v) ==
    /\ pc[v] = "hold" /\ phase = "SaveVcpus"
    /\ ~saved[v]
    /\ Goto(v, "saving")
    /\ UNCHANGED <<mode, faulted, fresh>> /\ CpuOnly

HoldReset(v) ==
    /\ pc[v] = "hold" /\ phase = "ResetVcpus"
    /\ ~resetDone[v]
    /\ Goto(v, "resetting")
    /\ UNCHANGED <<mode, faulted, fresh>> /\ CpuOnly

(* save_cpu_state() outside the lock, the report back under it. *)
SaveOne(v) ==
    /\ pc[v] = "saving"
    /\ Goto(v, "hold")
    /\ saved' = [saved EXCEPT ![v] = TRUE]
    /\ \/ UNCHANGED saveError
       \/ "save" \in Failures /\ saveError' = TRUE
    /\ UNCHANGED <<phase, attention, barrier, finished, resetError, botched, request,
                   machine, mode, faulted, fresh, requester, stopping>>

(* reset_one(): the architectural state, then the machine's reset_vcpu. *)
ResetOne(v) ==
    /\ pc[v] = "resetting"
    /\ Goto(v, "hold")
    /\ resetDone' = [resetDone EXCEPT ![v] = TRUE]
    /\ \/ /\ faulted' = [faulted EXCEPT ![v] = FALSE]
          /\ fresh' = [fresh EXCEPT ![v] = TRUE]
          /\ UNCHANGED <<resetError, botched>>
       \/ /\ "vcpuReset" \in Failures
          /\ resetError' = TRUE /\ botched' = TRUE /\ UNCHANGED <<faulted, fresh>>
    /\ UNCHANGED <<phase, attention, arrived, saving, finished, request, machine,
                   mode, requester, stopping>>

(* KVM_RUN returns because of a kick (or for no reason): continue. *)
Kick(v) ==
    /\ pc[v] = "guest"
    /\ Goto(v, "top")
    /\ UNCHANGED <<mode, faulted, fresh>> /\ CpuOnly

(* The guest exits to a device, which may latch a reset or a power-off.    *)
(* A vCPU that is shut down answers KVM_RUN with an internal error only.   *)
Exit(v) ==
    /\ pc[v] = "guest" /\ ~faulted[v]
    /\ Goto(v, "poll")
    /\ \/ UNCHANGED <<resetLatch, powerLatch>>
       \/ "reset" \in GuestActs /\ resetLatch' = TRUE /\ UNCHANGED powerLatch
       \/ "poweroff" \in GuestActs /\ powerLatch' = TRUE /\ UNCHANGED resetLatch
    /\ UNCHANGED <<gate, mode, faulted, fresh, request, requester, stopping>>
    /\ SeamUnchanged

(* Halted, an unrecoverable exit, or the internal error. *)
GuestEnds(v) ==
    /\ pc[v] = "guest" /\ ("end" \in GuestActs \/ faulted[v])
    /\ Goto(v, "ended")
    /\ UNCHANGED <<mode, faulted, fresh>> /\ CpuOnly

(* request_guest_reset(), with the storm guard, and what its caller does:  *)
(* park_for_reset() or the end of the VM.                                  *)
(* Mistake: counting down. *)
NextStormDown == IF recent THEN storm - 1 ELSE 0

(* Mistake: not counting. *)
NextStormStuck == IF recent THEN storm ELSE 0

NextStorm == IF recent THEN storm + 1 ELSE 0

RequestGuestReset(v) ==
    /\ storm' = NextStorm
    /\ IF NextStorm > MaxResetStorm
       THEN stormedOut' = TRUE /\ UNCHANGED <<guestReset, mode>> /\ Goto(v, "ended")
       ELSE /\ guestReset' = TRUE
            /\ mode' = [mode EXCEPT ![v] = "reset"]
            /\ Goto(v, "parked")
            /\ UNCHANGED stormedOut
    /\ UNCHANGED <<recent, stale>>

(* VcpuExit::Shutdown *)
TripleFault(v) ==
    /\ "fault" \in GuestActs
    /\ pc[v] = "guest" /\ ~faulted[v]
    /\ faulted' = [faulted EXCEPT ![v] = TRUE]
    /\ \/ powerLatch /\ Goto(v, "ended") /\ UNCHANGED <<mode, request>>
       \/ ~powerLatch /\ v = Bsp /\ RequestGuestReset(v)
       \/ /\ ~powerLatch /\ v # Bsp
          /\ Goto(v, "parked") /\ mode' = [mode EXCEPT ![v] = "fault"]
          /\ UNCHANGED request
    /\ UNCHANGED <<fresh, machine, requester, stopping>> /\ SeamUnchanged

(* After a device exit: shutdown_requested(), then reset_requested(). *)
Poll(v) ==
    /\ pc[v] = "poll"
    /\ \/ powerLatch /\ Goto(v, "ended") /\ UNCHANGED <<mode, request>>
       \/ ~powerLatch /\ resetLatch /\ RequestGuestReset(v)
       \/ ~powerLatch /\ ~resetLatch /\ Goto(v, "top") /\ UNCHANGED <<mode, request>>
    /\ UNCHANGED <<faulted, fresh, machine, requester, stopping>> /\ SeamUnchanged

(* park(): stop, check in, or give up after RESET_WAIT. *)
ParkStop(v) ==
    /\ pc[v] = "parked" /\ ~running
    /\ Goto(v, "ended")
    /\ UNCHANGED <<mode, faulted, fresh>> /\ CpuOnly

ParkAttention(v) ==
    /\ pc[v] = "parked" /\ attention
    /\ Goto(v, "flush")
    /\ UNCHANGED <<mode, faulted, fresh>> /\ CpuOnly

ParkGaveUp(v) ==
    /\ pc[v] = "parked" /\ mode[v] = "reset" /\ ~attention
    /\ Goto(v, "ended")
    /\ UNCHANGED <<mode, faulted, fresh>> /\ CpuOnly

(* The thread's last act: vcpu_finished(). *)
Finished(v) ==
    /\ pc[v] = "ended"
    /\ Goto(v, "done")
    /\ finished' = [finished EXCEPT ![v] = TRUE]
    /\ UNCHANGED <<phase, attention, barrier, saving, resetError, botched, request,
                   machine, mode, faulted, fresh, requester, stopping>>

CpuStep(v) ==
    \/ LoopTop(v) \/ LoopAttention(v) \/ Flush(v)
    \/ HoldRun(v) \/ HoldStop(v) \/ HoldPark(v) \/ HoldSave(v) \/ HoldReset(v)
    \/ SaveOne(v) \/ ResetOne(v)
    \/ Kick(v) \/ Exit(v) \/ GuestEnds(v) \/ TripleFault(v) \/ Poll(v)
    \/ ParkStop(v) \/ ParkAttention(v) \/ ParkGaveUp(v) \/ Finished(v)

------------------------------------------------------------------------------
(* The requester.  Its calls begin in one critical section that looks at   *)
(* the phase and refuses (ok = FALSE), or starts a barrier.                *)

RqGoto(to) == rq' = to
CpusUnchanged == UNCHANGED <<finished, cpu, stopping>>

(* A call returns. *)
Return(result) == RqGoto("idle") /\ op' = "none" /\ ok' = result /\ after' = "idle"

Refuse(result) ==
    /\ Return(result)
    /\ UNCHANGED <<phase, attention, barrier, saving, resetError, botched, request, machine>>
    /\ CpusUnchanged

(* pause(), on its own or as the first step of save(). *)
BeginPause(kind) ==
    /\ kind \in Ops /\ rq = "idle"
    /\ IF phase \in {"HeldPause", "ParkPause"} /\ kind = "save"
       THEN /\ RqGoto("prepare") /\ op' = kind /\ ok' = TRUE
            /\ UNCHANGED <<after, phase, attention, barrier, saving, resetError, botched,
                           request, machine>>
            /\ CpusUnchanged
       ELSE IF phase # "Run"
       THEN Refuse(phase \in {"HeldPause", "ParkPause"})
       ELSE /\ phase' = "ParkPause" /\ attention' = TRUE
            /\ arrived' = No /\ resetDone' = No
            /\ RqGoto("park") /\ op' = kind /\ ok' = TRUE
            /\ UNCHANGED <<after, saving, resetError, botched, request, machine>>
            /\ CpusUnchanged

BeginResume ==
    /\ "resume" \in Ops /\ rq = "idle"
    /\ IF phase \notin {"HeldPause", "ParkPause"}
       THEN Refuse(phase = "Run")
       ELSE /\ RqGoto("unquiesce") /\ op' = "resume" /\ ok' = TRUE /\ after' = "idle"
            /\ UNCHANGED <<phase, attention, barrier, saving, resetError, botched,
                           request, machine>>
            /\ CpusUnchanged

(* reset(), from Run or from a pause, whose arrivals stay valid. *)
BeginReset ==
    /\ "reset" \in Ops /\ rq = "idle"
    /\ IF phase \notin {"Run", "HeldPause", "ParkPause"}
       THEN Refuse(FALSE)
       ELSE /\ phase' = "ParkReset" /\ attention' = TRUE
            /\ arrived' = (IF phase = "Run" THEN No ELSE arrived)
            /\ resetDone' = No
            /\ resetError' = FALSE
            /\ guestReset' = FALSE /\ stale' = FALSE
            /\ RqGoto("park") /\ op' = "reset" /\ ok' = TRUE
            /\ UNCHANGED <<after, saving, botched, storm, stormedOut, recent, machine>>
            /\ CpusUnchanged

(* Mistake: one arrival is taken for all of them. *)
AnyOf(flags) == \E v \in Vcpu : flags[v] \/ finished[v]

AllOf(flags) == \A v \in Vcpu : flags[v] \/ finished[v]

(* Mistake: no deadline. *)
BarrierStopped(flags) == phase = "Stop"

(* await_barrier(): the count, Stopping, or ACK_TIMEOUT. *)
BarrierMet(flags) == phase # "Stop" /\ AllOf(flags)
BarrierFailed(flags) == phase = "Stop" \/ ("timeout" \in Failures /\ ~AllOf(flags))

RqStep(from, to) ==
    /\ rq = from /\ RqGoto(to)
    /\ UNCHANGED <<op, after, saving, resetError, request>> /\ CpusUnchanged

Parked ==
    /\ RqStep("park", "quiesce")
    /\ BarrierMet(arrived)
    /\ UNCHANGED <<ok, phase, attention, barrier, botched, machine>>

(* Mistake: a timeout is logged and the operation goes on. *)
AbandonIgnored ==
    /\ RqStep("park", "quiesce")
    /\ BarrierFailed(arrived)
    /\ UNCHANGED <<ok, phase, attention, barrier, botched, machine>>

(* The barrier failed: abandon() = unquiesce, release, and the error. *)
Abandon ==
    /\ RqStep("park", "unquiesce")
    /\ BarrierFailed(arrived)
    /\ ok' = FALSE
    /\ UNCHANGED <<phase, attention, barrier, botched, machine>>

(* machine.quiesce(): the gate closes; whether it settles in time is up to *)
(* the workers.                                                            *)
QuiesceMachine ==
    /\ RqStep("quiesce", IF op = "reset" THEN "setMachine" ELSE "held")
    /\ gate' \in {"closing", "closed"}
    /\ gate = "closed" => gate' = "closed"
    /\ UNCHANGED <<ok, phase, attention, barrier, botched, resetLatch, powerLatch>>

(* The end of pause(): hold, unless the VM was stopped meanwhile. *)
Hold ==
    /\ rq = "held"
    /\ phase' = IF phase = "ParkPause" THEN "HeldPause" ELSE phase
    /\ IF op = "save" THEN RqGoto("prepare") /\ UNCHANGED <<op, ok, after>>
                      ELSE Return(TRUE)
    /\ UNCHANGED <<attention, barrier, saving, resetError, botched, request, machine>>
    /\ CpusUnchanged

(* unquiesce(), then release(): the phase under the lock, attention after. *)
UnquiesceMachine ==
    /\ RqStep("unquiesce", "release")
    /\ gate' = "open"
    /\ UNCHANGED <<ok, phase, attention, barrier, botched, resetLatch, powerLatch>>

Release ==
    /\ RqStep("release", "attn")
    /\ phase' = IF phase = "Stop" THEN "Stop" ELSE "Run"
    /\ arrived' = No /\ resetDone' = No
    /\ UNCHANGED <<ok, attention, botched, machine>>

ReleaseAttention ==
    /\ rq = "attn"
    /\ attention' = FALSE
    /\ IF after = "idle" THEN Return(ok)
       ELSE /\ RqGoto(after) /\ after' = "idle" /\ UNCHANGED <<op, ok>>
    /\ UNCHANGED <<phase, barrier, saving, resetError, botched, request, machine>>
    /\ CpusUnchanged

(* reset() with every vCPU at the barrier. *)
SetResetMachine ==
    /\ RqStep("setMachine", "machine")
    /\ phase' = "ResetMachine"
    /\ UNCHANGED <<ok, attention, barrier, botched, machine>>

(* reset_machine() returns: the devices, their latches with them, are at   *)
(* power-on, or it failed and the seam stops.                              *)
MachineReset ==
    /\ rq = "machine"
    /\ resetLatch' = FALSE /\ powerLatch' = FALSE
    /\ fresh' = No
    /\ stale' = guestReset
    /\ RqGoto("setVcpus")
    /\ UNCHANGED <<phase, attention, barrier, saving, resetError, botched, finished,
                   guestReset, storm, stormedOut, recent, gate, pc, mode, faulted,
                   op, ok, after, stopping>>

MachineResetFails ==
    /\ "machineReset" \in Failures /\ rq = "machine"
    /\ resetLatch' = FALSE /\ powerLatch' = FALSE
    /\ fresh' = No
    /\ phase' = "Stop" /\ attention' = TRUE
    /\ Return(FALSE)
    /\ UNCHANGED <<barrier, saving, resetError, botched, finished, request, gate,
                   pc, mode, faulted, stopping>>

SetResetVcpus ==
    /\ RqStep("setVcpus", "vcpus")
    /\ phase' = "ResetVcpus"
    /\ UNCHANGED <<ok, attention, barrier, botched, machine>>

(* Mistake: the second barrier counts the arrivals at the first. *)
VcpusArrived ==
    /\ RqStep("vcpus", "clear")
    /\ BarrierMet(arrived)
    /\ UNCHANGED <<ok, phase, attention, barrier, botched, machine>>

VcpusReset ==
    /\ RqStep("vcpus", "clear")
    /\ BarrierMet(resetDone)
    /\ UNCHANGED <<ok, phase, attention, barrier, botched, machine>>

(* Abandoned in the second barrier: the VM is released here, and the rest  *)
(* of reset() runs after that.                                             *)
AbandonReset ==
    /\ rq = "vcpus" /\ RqGoto("unquiesce")
    /\ BarrierFailed(resetDone)
    /\ ok' = FALSE /\ after' = "clear" /\ botched' = TRUE
    /\ UNCHANGED <<op, phase, attention, barrier, saving, resetError, request, machine>>
    /\ CpusUnchanged

(* Mistake: the latch is consumed on the way in only. *)
ClearNothing ==
    /\ rq = "clear" /\ RqGoto("unquiesce")
    /\ ok' = (ok /\ ~resetError) /\ after' = "count"
    /\ UNCHANGED <<op, phase, attention, barrier, saving, resetError, botched, request,
                   machine>>
    /\ CpusUnchanged

(* "Consume the latch here, not only on the way in." *)
ClearLatch ==
    /\ rq = "clear" /\ RqGoto("unquiesce")
    /\ guestReset' = FALSE /\ stale' = FALSE
    /\ ok' = (ok /\ ~resetError) /\ after' = "count"
    /\ UNCHANGED <<op, phase, attention, barrier, saving, resetError, botched, storm,
                   stormedOut, recent, machine>>
    /\ CpusUnchanged

(* last_reset and the counter, on success only. *)
CountReset ==
    /\ rq = "count"
    /\ recent' = (recent \/ ok)
    /\ Return(ok)
    /\ UNCHANGED <<phase, attention, barrier, saving, resetError, botched, guestReset,
                   storm, stormedOut, stale, machine>>
    /\ CpusUnchanged

(* Mistake: the result of wait_until_idle() is not looked at. *)
PrepareUnsettled ==
    /\ rq = "prepare"
    /\ RqGoto("capture") /\ UNCHANGED <<op, ok, after>>
    /\ UNCHANGED <<phase, attention, barrier, saving, resetError, botched, request, machine>>
    /\ CpusUnchanged

(* save(): prepare_save(), capture_cpus(), save_machine().                 *)
PrepareSave ==
    /\ rq = "prepare"
    /\ \/ /\ gate # "open" /\ gate' = "closed"
          /\ RqGoto("capture") /\ UNCHANGED <<op, ok, after>>
       \/ (gate # "closed" \/ "save" \in Failures) /\ UNCHANGED gate /\ Return(FALSE)
    /\ UNCHANGED <<phase, attention, barrier, saving, resetError, botched, request,
                   resetLatch, powerLatch>>
    /\ CpusUnchanged

BeginCapture ==
    /\ rq = "capture"
    /\ IF phase # "HeldPause" THEN Refuse(FALSE)
       ELSE /\ phase' = "SaveVcpus" /\ attention' = TRUE
            /\ saved' = No /\ saveError' = FALSE
            /\ RqGoto("report")
            /\ UNCHANGED <<op, ok, after, barrier, resetError, botched, request, machine>>
            /\ CpusUnchanged

(* The capture barrier is met or not; back to a plain hold either way. *)
EndCapture ==
    /\ RqStep("report", "reported")
    /\ \/ BarrierMet(saved) /\ UNCHANGED ok
       \/ BarrierFailed(saved) /\ ok' = FALSE
    /\ UNCHANGED <<phase, attention, barrier, botched, machine>>

BackToHold ==
    /\ rq = "reported"
    /\ phase' = IF phase = "SaveVcpus" THEN "HeldPause" ELSE phase
    /\ IF ok THEN RqGoto("take") /\ UNCHANGED <<op, ok, after>> ELSE Return(FALSE)
    /\ UNCHANGED <<attention, barrier, saving, resetError, botched, request, machine>>
    /\ CpusUnchanged

(* The first error any vCPU reported, or the states - all of them. *)
TakeStates ==
    /\ rq = "take"
    /\ saveError' = FALSE
    /\ saved' = IF saveError THEN saved ELSE No
    /\ IF ~saveError /\ \A v \in Vcpu : saved[v]
       THEN RqGoto("write") /\ UNCHANGED <<op, ok, after>>
       ELSE Return(FALSE)
    /\ UNCHANGED <<phase, attention, barrier, resetError, botched, request, machine>>
    /\ CpusUnchanged

WriteSnapshot ==
    /\ rq = "write"
    /\ Return(TRUE) \/ ("save" \in Failures /\ Return(FALSE))
    /\ UNCHANGED <<phase, attention, barrier, saving, resetError, botched, request, machine>>
    /\ CpusUnchanged

Begin ==
    \/ BeginPause("pause") \/ BeginPause("save") \/ BeginResume \/ BeginReset
RqWork ==
    \/ Parked \/ Abandon \/ QuiesceMachine \/ Hold
    \/ UnquiesceMachine \/ Release \/ ReleaseAttention
    \/ SetResetMachine \/ MachineReset \/ MachineResetFails \/ SetResetVcpus
    \/ VcpusReset \/ AbandonReset \/ ClearLatch \/ CountReset
    \/ PrepareSave \/ BeginCapture \/ EndCapture \/ BackToHold \/ TakeStates
    \/ WriteSnapshot

(* RESET_STORM_WINDOW has passed since the last reset. *)
WindowPasses ==
    /\ recent
    /\ recent' = FALSE
    /\ UNCHANGED <<guestReset, storm, stormedOut, stale, machine, cpu, requester, stopping>>
    /\ SeamUnchanged

------------------------------------------------------------------------------
(* The stopper: join_or_stop() and, through stop(), shutdown().            *)

StopperOnly ==
    UNCHANGED <<barrier, saving, finished, resetError, botched, request, cpu,
                resetLatch, powerLatch, requester>>

(* Everyone ended by themselves: join(). *)
AllEnded ==
    /\ stopper = "watch" /\ \A v \in Vcpu : pc[v] = "done"
    /\ stopper' = "over"
    /\ UNCHANGED <<running, phase, attention, gate>> /\ StopperOnly

(* should_stop(), or some vCPU ended: stop() clears running ... *)
StopRunning ==
    /\ stopper = "watch"
    /\ stopper' = "phase" /\ running' = FALSE
    /\ UNCHANGED <<phase, attention, gate>> /\ StopperOnly

(* ... and shutdown() releases whoever is parked. *)
StopPhase ==
    /\ stopper = "phase"
    /\ stopper' = "attn" /\ phase' = "Stop"
    /\ UNCHANGED <<running, attention, gate>> /\ StopperOnly

StopAttention ==
    /\ stopper = "attn"
    /\ stopper' = "gate" /\ attention' = TRUE
    /\ UNCHANGED <<running, phase, gate>> /\ StopperOnly

StopGate ==
    /\ stopper = "gate"
    /\ stopper' = "join" /\ gate' = "open"
    /\ UNCHANGED <<running, phase, attention>> /\ StopperOnly

(* Kick and join every thread. *)
Joined ==
    /\ stopper = "join" /\ \A v \in Vcpu : pc[v] = "done"
    /\ stopper' = "over"
    /\ UNCHANGED <<running, phase, attention, gate>> /\ StopperOnly

Stopper ==
    AllEnded \/ StopRunning \/ StopPhase \/ StopAttention \/ StopGate \/ Joined

Next ==
    \/ \E v \in Vcpu : CpuStep(v)
    \/ Begin \/ RqWork
    \/ Stopper
    \/ WindowPasses

Spec == Init /\ [][Next]_vars

(***************************************************************************)
(* Fairness.  The requester's thread runs, and a barrier wait ends by its  *)
(* count, by Stop or by its deadline.  A vCPU thread outside KVM_RUN runs; *)
(* one inside it need not come back unless it is kicked, which only a      *)
(* barrier wait and the stopper's join do, again and again (FairSystem in  *)
(* Supervisor).                                                            *)
(***************************************************************************)
OutsideGuest(v) ==
    \/ LoopTop(v) \/ LoopAttention(v) \/ Flush(v)
    \/ HoldRun(v) \/ HoldStop(v) \/ HoldPark(v) \/ HoldSave(v) \/ HoldReset(v)
    \/ SaveOne(v) \/ ResetOne(v) \/ Poll(v)
    \/ ParkStop(v) \/ ParkAttention(v) \/ Finished(v)

Kicking == stopper = "join" \/ rq \in {"park", "vcpus", "report"}

------------------------------------------------------------------------------
(* Properties.                                                             *)

(* Where a vCPU thread runs guest code or device handlers. *)
Executing == {"guest", "poll", "flush"}

(* Nobody has begun to stop the VM. *)
NotStopping == stopper = "watch"

(* Paused means frozen: while the seam reports Paused (HeldPause, or the   *)
(* capture inside it) no vCPU executes the guest or a device handler and   *)
(* the workers' gate is not open until a resume opens it - whatever        *)
(* barriers timed out, were abandoned or were met late before this hold.   *)
HeldMeansFrozen ==
    NotStopping /\ phase \in {"HeldPause", "SaveVcpus"} =>
        /\ \A v \in Vcpu : pc[v] \notin Executing
        /\ gate = "open" => op = "resume"

(* reset_machine() rewrites guest memory and devices while no vCPU         *)
(* executes, even when the VM is being stopped at the same time.           *)
ResetMachineExclusive ==
    rq = "machine" => \A v \in Vcpu : pc[v] \notin Executing

(* What save_machine() writes is one frozen machine. *)
SnapshotIsFrozen ==
    NotStopping /\ rq = "write" =>
        /\ phase = "HeldPause" /\ gate = "closed"
        /\ \A v \in Vcpu : pc[v] \in {"hold", "saving"}

(* After a reset every vCPU enters the new boot from its reset state,      *)
(* unless its own half of the reset failed or timed out.                   *)
RunsFresh ==
    ~botched => \A v \in Vcpu : pc[v] = "guest" => fresh[v]

(* A request a vCPU latched for the boot that reset() ends is not served   *)
(* as a second reboot of the next one.                                     *)
NoSpuriousReboot == stale => op = "reset"

(* ACK_TIMEOUT bounds every operation: pause, resume, reset and save       *)
(* return although no vCPU thread ever moves again.                        *)
OpsReturn == (rq # "idle") ~> (rq = "idle")

------------------------------------------------------------------------------
(* What a comment in the code says and the code does not do.               *)

(* vcpu.rs: an application processor that triple-faulted is parked and     *)
(* "must not be re-entered" until the machine is reset.                    *)
FaultedNeverReenters ==
    NotStopping => \A v \in Vcpu \ {Bsp} : pc[v] = "guest" => ~faulted[v]
==============================================================================
