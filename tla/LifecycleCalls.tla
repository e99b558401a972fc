--------------------------- MODULE LifecycleCalls ---------------------------
(***************************************************************************)
(* What the calls into the seam leave behind, for any number of vCPUs and  *)
(* whatever fails: a reset reaches every vCPU and no request of the boot   *)
(* before it, and what a call says when it returns is so.                  *)
(***************************************************************************)
EXTENDS LifecycleProof

(* The prover of every leaf that names no other. *)
USE ZenonT(60)

(* Whoever stops the VM, a call knows which operation it serves: only a     *)
(* reset goes on after release(), and an operation that was abandoned says  *)
(* so when it returns.                                                      *)
Releasing == {"unquiesce", "release", "attn"}
Saving == {"prepare", "capture", "report", "reported", "take", "write"}
Resetting == {"setMachine", "machine", "setVcpus", "vcpus", "clear", "count"}

OpOK ==
    /\ rq = "idle" <=> op = "none"
    /\ op = "pause" => rq \in {"park", "quiesce", "held"} \/ (rq \in Releasing /\ ~ok)
    /\ op = "save" =>
        rq \in {"park", "quiesce", "held"} \cup Saving \/ (rq \in Releasing /\ ~ok)
    /\ op = "resume" => rq \in Releasing /\ ok
    /\ op = "reset" => rq \in {"park", "quiesce"} \cup Resetting \cup Releasing
    /\ op = "reset" /\ rq \in Releasing /\ after = "idle" => ~ok
    /\ after # "idle" => op = "reset" /\ rq \in Releasing

(* A stop overwrites the phase, and a reset may overwrite the stop: in any  *)
(* other phase the requester is where CallOK says.                          *)
PhaseOK == phase # "Stop" => CallOK

(* Everybody is parked from the first step of a save to its last. *)
SaveOK == rq \in Saving => \A v \in Vcpu : arrived[v] \/ finished[v]

(* A request latched before the machine's reset is gone before it returns. *)
StaleOK ==
    stale => rq \in {"setVcpus", "vcpus", "clear"} \/ (rq \in Releasing /\ after = "clear")

(* A vCPU's own half of a reset: it begins and ends within the second       *)
(* barrier, and a vCPU without it is parked, or never runs again.           *)
ResetOf(v) ==
    /\ pc[v] = "resetting" => rq = "vcpus" /\ ~resetDone[v]
    /\ rq \in {"park", "quiesce", "setMachine", "machine", "setVcpus"} => ~resetDone[v]
    /\ rq = "vcpus" /\ resetDone[v] => fresh[v]
    /\ \/ fresh[v] \/ pc[v] \in {"ended", "done"} \/ rq \in {"setVcpus", "vcpus"}
       \/ rq = "idle" /\ phase = "Stop" /\ pc[v] \in {"hold", "saving"}

FreshOK ==
    ~botched =>
        /\ phase = "ResetVcpus" => rq = "vcpus" \/ \A v \in Vcpu : resetDone[v] \/ finished[v]
        /\ \A v \in Vcpu : ResetOf(v)

OInv == IInv /\ OpOK /\ PhaseOK /\ SaveOK /\ StaleOK /\ FreshOK

------------------------------------------------------------------------------
(* The seam. *)

(* Which operation a call serves is up to the requester alone. *)
LEMMA OthersRq ==
    ASSUME NEW v \in Vcpu, CpuStep(v) PROVE UNCHANGED requester
BY DEF CpuStep, LoopTop, LoopAttention, Flush, HoldRun, HoldStop, HoldPark, HoldSave,
    HoldReset, SaveOne, ResetOne, Kick, Exit, GuestEnds, TripleFault, Poll, ParkStop,
    ParkAttention, ParkGaveUp, Finished, CpuOnly

LEMMA OpRq ==
    ASSUME OpOK, op \in Operations \cup {"none"}, after \in {"idle", "clear", "count"},
           Begin \/ RqWork
    PROVE  OpOK'
<1> USE DEF OpOK, Releasing, Saving, Resetting, Operations, RqGoto, RqStep, Return, Refuse
<1>1. CASE BeginPause("pause") \/ BeginPause("save")
    BY <1>1 DEF BeginPause
<1>2. CASE BeginResume \/ BeginReset
    BY <1>2 DEF BeginResume, BeginReset
<1>3. CASE Parked \/ Abandon \/ QuiesceMachine
    BY <1>3 DEF Parked, Abandon, QuiesceMachine
<1>4. CASE Hold \/ UnquiesceMachine \/ Release
    BY <1>4, SMTT(60) DEF Hold, UnquiesceMachine, Release
<1>5. CASE ReleaseAttention \/ SetResetMachine \/ MachineReset
    BY <1>5 DEF ReleaseAttention, SetResetMachine, MachineReset
<1>6. CASE MachineResetFails \/ SetResetVcpus \/ VcpusReset
    BY <1>6 DEF MachineResetFails, SetResetVcpus, VcpusReset
<1>7. CASE AbandonReset \/ ClearLatch \/ CountReset
    BY <1>7 DEF AbandonReset, ClearLatch, CountReset
<1>8. CASE PrepareSave \/ BeginCapture \/ EndCapture
    BY <1>8 DEF PrepareSave, BeginCapture, EndCapture
<1>9. CASE BackToHold \/ TakeStates \/ WriteSnapshot
    BY <1>9 DEF BackToHold, TakeStates, WriteSnapshot
<1> QED BY <1>1, <1>2, <1>3, <1>4, <1>5, <1>6, <1>7, <1>8, <1>9 DEF
    Begin, RqWork

LEMMA OpStep ==
    ASSUME Places, OpOK, [Next]_vars PROVE OpOK'
<1>1. ASSUME NEW v \in Vcpu, CpuStep(v) PROVE OpOK'
    BY <1>1, OthersRq DEF OpOK, requester
<1>2. CASE Begin \/ RqWork
    BY <1>2, OpRq DEF Places
<1>3. CASE Stopper
    BY <1>3, SMTT(60) DEF OpOK, Stopper, AllEnded, StopRunning, StopPhase, StopAttention,
        StopGate, Joined, StopperOnly, requester
<1>4. CASE WindowPasses \/ UNCHANGED vars
    BY <1>4, SMTT(60) DEF OpOK, WindowPasses, vars, requester
<1> QED BY <1>1, <1>2, <1>3, <1>4 DEF Next

(* In Stop the requester is left to itself; it overwrites Stop only with   *)
(* the phases of a reset's second half.                                    *)
LEMMA PhaseRq ==
    ASSUME phase = "Stop", after \in {"idle", "clear", "count"}, Begin \/ RqWork
    PROVE  PhaseOK'
<1> USE DEF PhaseOK, RqGoto, RqStep, Return, Refuse
<1>1. CASE BeginPause("pause") \/ BeginPause("save") \/ BeginResume \/ BeginReset
    BY <1>1 DEF BeginPause, BeginResume, BeginReset
<1>2. CASE SetResetMachine \/ SetResetVcpus
    BY <1>2 DEF SetResetMachine, SetResetVcpus, CallOK
<1>3. CASE Parked \/ Abandon \/ QuiesceMachine \/ Hold \/ UnquiesceMachine \/ Release
    BY <1>3 DEF Parked, Abandon, QuiesceMachine, Hold, UnquiesceMachine, Release
<1>4. CASE ReleaseAttention \/ MachineReset \/ MachineResetFails \/ VcpusReset \/
        AbandonReset
    BY <1>4 DEF ReleaseAttention, MachineReset, MachineResetFails, VcpusReset,
        AbandonReset
<1>5. CASE ClearLatch \/ CountReset \/ PrepareSave \/ BeginCapture \/ EndCapture
    BY <1>5 DEF ClearLatch, CountReset, PrepareSave, BeginCapture, EndCapture
<1>6. CASE BackToHold \/ TakeStates \/ WriteSnapshot
    BY <1>6 DEF BackToHold, TakeStates, WriteSnapshot
<1> QED BY <1>1, <1>2, <1>3, <1>4, <1>5, <1>6 DEF Begin, RqWork

LEMMA PhaseStep ==
    ASSUME Places, PerCpu, PhaseOK, [Next]_vars PROVE PhaseOK'
<1>1. ASSUME NEW v \in Vcpu, CpuStep(v) PROVE PhaseOK'
  <2>1. Effect(v)
      BY <1>1, CpuEffect
  <2> QED BY <2>1, SMTT(60) DEF Effect, PhaseOK, CallOK
<1>2. CASE Begin \/ RqWork
  <2>1. CASE phase = "Stop"
      BY <1>2, <2>1, PhaseRq DEF Places
  <2>2. CASE phase # "Stop"
      BY <1>2, <2>2, CallRq DEF Places, PhaseOK
  <2> QED BY <2>1, <2>2
<1>3. CASE Stopper
    BY <1>3, SMTT(60) DEF PhaseOK, CallOK, Stopper, AllEnded, StopRunning, StopPhase,
        StopAttention, StopGate, Joined, StopperOnly, requester
<1>4. CASE WindowPasses \/ UNCHANGED vars
    BY <1>4, SMTT(60) DEF PhaseOK, CallOK, WindowPasses, SeamUnchanged, vars, requester
<1> QED BY <1>1, <1>2, <1>3, <1>4 DEF Next

(* A save begins with everybody parked, and releases nobody. *)
LEMMA SaveRq ==
    ASSUME BarrierOK, PhaseOK, SaveOK, after \in {"idle", "clear", "count"}, Begin \/ RqWork
    PROVE  SaveOK'
<1> USE DEF SaveOK, Saving, RqGoto, RqStep, Return, Refuse, CpusUnchanged, barrier
<1>1. CASE BeginPause("save")
    BY <1>1 DEF BeginPause, BarrierOK, PhaseOK, CallOK
<1>2. CASE Hold
    BY <1>2 DEF Hold, BarrierOK
<1>3. CASE BeginPause("pause") \/ BeginResume \/ BeginReset
    BY <1>3 DEF BeginPause, BeginResume, BeginReset
<1>4. CASE Parked \/ Abandon \/ QuiesceMachine \/ UnquiesceMachine \/ Release
    BY <1>4 DEF Parked, Abandon, QuiesceMachine, UnquiesceMachine, Release
<1>5. CASE ReleaseAttention \/ SetResetMachine \/ MachineReset \/ MachineResetFails
    BY <1>5 DEF ReleaseAttention, SetResetMachine, MachineReset, MachineResetFails
<1>6. CASE SetResetVcpus \/ VcpusReset \/ AbandonReset \/ ClearLatch \/ CountReset
    BY <1>6 DEF SetResetVcpus, VcpusReset, AbandonReset, ClearLatch, CountReset
<1>7. CASE PrepareSave \/ BeginCapture \/ EndCapture
    BY <1>7 DEF PrepareSave, BeginCapture, EndCapture
<1>8. CASE BackToHold \/ TakeStates \/ WriteSnapshot
    BY <1>8 DEF BackToHold, TakeStates, WriteSnapshot
<1> QED BY <1>1, <1>2, <1>3, <1>4, <1>5, <1>6, <1>7, <1>8 DEF Begin, RqWork

LEMMA SaveStep ==
    ASSUME Places, PerCpu, BarrierOK, PhaseOK, SaveOK, [Next]_vars PROVE SaveOK'
<1>1. ASSUME NEW v \in Vcpu, CpuStep(v) PROVE SaveOK'
  <2>1. Effect(v)
      BY <1>1, CpuEffect
  <2> QED BY <2>1 DEF Effect, SaveOK
<1>2. CASE Begin \/ RqWork
    BY <1>2, SaveRq DEF Places
<1>3. CASE Stopper
    BY <1>3 DEF SaveOK, Stopper, AllEnded, StopRunning, StopPhase, StopAttention,
        StopGate, Joined, StopperOnly, barrier, requester
<1>4. CASE WindowPasses \/ UNCHANGED vars
    BY <1>4 DEF SaveOK, WindowPasses, SeamUnchanged, vars, barrier, requester
<1> QED BY <1>1, <1>2, <1>3, <1>4 DEF Next

(* A latch older than the machine's reset lives until ClearLatch. *)
LEMMA StaleRq ==
    ASSUME OpOK, StaleOK, after \in {"idle", "clear", "count"}, Begin \/ RqWork
    PROVE  StaleOK'
<1> USE DEF StaleOK, Releasing, RqGoto, RqStep, Return, Refuse, request
<1>1. CASE BeginPause("pause") \/ BeginPause("save") \/ BeginResume \/ BeginReset
    BY <1>1 DEF BeginPause, BeginResume, BeginReset
<1>2. CASE Parked \/ Abandon \/ QuiesceMachine \/ Hold \/ UnquiesceMachine \/ Release
    BY <1>2 DEF Parked, Abandon, QuiesceMachine, Hold, UnquiesceMachine, Release
<1>3. CASE ReleaseAttention \/ SetResetMachine \/ MachineReset \/ MachineResetFails
    BY <1>3 DEF ReleaseAttention, SetResetMachine, MachineReset, MachineResetFails
<1>4. CASE SetResetVcpus \/ VcpusReset \/ AbandonReset \/ ClearLatch \/ CountReset
    BY <1>4 DEF SetResetVcpus, VcpusReset, AbandonReset, ClearLatch, CountReset
<1>5. CASE PrepareSave \/ BeginCapture \/ EndCapture
    BY <1>5 DEF PrepareSave, BeginCapture, EndCapture
<1>6. CASE BackToHold \/ TakeStates \/ WriteSnapshot
    BY <1>6 DEF BackToHold, TakeStates, WriteSnapshot
<1> QED BY <1>1, <1>2, <1>3, <1>4, <1>5, <1>6 DEF Begin, RqWork

(* Neither the age of a latch nor the storm window is a vCPU's to change. *)
LEMMA CpuStale == ASSUME NEW v \in Vcpu, CpuStep(v) PROVE UNCHANGED <<stale, recent>>
BY DEF CpuStep, LoopTop, LoopAttention, Flush, HoldRun, HoldStop, HoldPark, HoldSave,
    HoldReset, SaveOne, ResetOne, Kick, Exit, GuestEnds, TripleFault, Poll, ParkStop,
    ParkAttention, ParkGaveUp, Finished, CpuOnly, RequestGuestReset, request

LEMMA StaleStep ==
    ASSUME Places, OpOK, StaleOK, [Next]_vars PROVE StaleOK'
<1>1. ASSUME NEW v \in Vcpu, CpuStep(v) PROVE StaleOK'
    BY <1>1, OthersRq, CpuStale DEF StaleOK, requester
<1>2. CASE Begin \/ RqWork
    BY <1>2, StaleRq DEF Places
<1>3. CASE Stopper
    BY <1>3 DEF StaleOK, Stopper, AllEnded, StopRunning, StopPhase, StopAttention,
        StopGate, Joined, StopperOnly, requester, request
<1>4. CASE WindowPasses \/ UNCHANGED vars
    BY <1>4 DEF StaleOK, WindowPasses, vars, requester, request
<1> QED BY <1>1, <1>2, <1>3, <1>4 DEF Next

(* What a step of vCPU v does to its own half of a reset. *)
ResetEffect(v) ==
    /\ botched => botched'
    /\ \A u \in Vcpu \ {v} : fresh'[u] = fresh[u] /\ resetDone'[u] = resetDone[u]
    /\ \/ fresh'[v] = fresh[v] /\ resetDone'[v] = resetDone[v]
       \/ /\ pc[v] = "resetting" /\ pc'[v] = "hold"
          /\ resetDone'[v] /\ (fresh'[v] \/ botched')
    /\ pc'[v] = "resetting" => pc[v] = "hold" /\ phase = "ResetVcpus" /\ ~resetDone[v]
    /\ pc[v] = "ended" => pc'[v] = "done"
    /\ pc[v] = "hold" => pc'[v] \in {"hold", "saving", "resetting", "ended"} \/ phase = "Run"
    /\ pc[v] = "saving" => pc'[v] = "hold"

LEMMA CpuResetEffect ==
    ASSUME Places, PerCpu, NEW v \in Vcpu, CpuStep(v) PROVE ResetEffect(v)
<1> USE DEF Places, PerCpu, ResetEffect, Goto, SeamUnchanged, CpuOnly, barrier, cpu
<1>1. CASE LoopTop(v) \/ LoopAttention(v) \/ Flush(v)
    BY <1>1, SMTT(60) DEF LoopTop, LoopAttention, Flush, Resumed
<1>2. CASE HoldRun(v) \/ HoldStop(v) \/ HoldPark(v)
    BY <1>2, SMTT(60) DEF HoldRun, Resumed, HoldStop, HoldPark
<1>3. CASE HoldSave(v) \/ HoldReset(v) \/ SaveOne(v)
    BY <1>3, SMTT(60) DEF HoldSave, HoldReset, SaveOne
<1>4. CASE ResetOne(v)
  <2>1. /\ pc[v] = "resetting" /\ pc' = [pc EXCEPT ![v] = "hold"]
        /\ resetDone' = [resetDone EXCEPT ![v] = TRUE]
      BY <1>4 DEF ResetOne
  <2>2. \/ fresh' = [fresh EXCEPT ![v] = TRUE] /\ botched' = botched
        \/ botched' = TRUE /\ fresh' = fresh
      BY <1>4 DEF ResetOne
  <2>3. pc'[v] = "hold" /\ resetDone'[v] /\ \A u \in Vcpu \ {v} : resetDone'[u] = resetDone[u]
      BY <2>1
  <2>4. CASE fresh' = [fresh EXCEPT ![v] = TRUE] /\ botched' = botched
    <3>1. fresh'[v] /\ \A u \in Vcpu \ {v} : fresh'[u] = fresh[u]
        BY <2>4
    <3> QED BY <2>1, <2>3, <2>4, <3>1
  <2>5. CASE botched' = TRUE /\ fresh' = fresh
      BY <2>1, <2>3, <2>5
  <2> QED BY <2>2, <2>4, <2>5
<1>5. CASE Kick(v) \/ Exit(v) \/ GuestEnds(v)
    BY <1>5, SMTT(60) DEF Kick, Exit, GuestEnds
<1>6. CASE TripleFault(v) \/ Poll(v)
    BY <1>6, SMTT(60) DEF TripleFault, RequestGuestReset, Poll
<1>7. CASE ParkStop(v) \/ ParkAttention(v) \/ ParkGaveUp(v) \/ Finished(v)
    BY <1>7, SMTT(60) DEF ParkStop, ParkAttention, ParkGaveUp, Finished
<1> QED BY <1>1, <1>2, <1>3, <1>4, <1>5, <1>6, <1>7 DEF CpuStep

(* A reset reaches every vCPU. *)
LEMMA FreshRq ==
    ASSUME ArrivalsOK, BarrierOK, OpOK, FreshOK, after \in {"idle", "clear", "count"},
           Begin \/ RqWork
    PROVE  FreshOK'
<1> USE DEF FreshOK, ResetOf, No, RqGoto, RqStep, Return, Refuse, CpusUnchanged, barrier, cpu
<1>1. CASE BeginPause("pause") \/ BeginPause("save")
    BY <1>1 DEF BeginPause
<1>2. CASE BeginResume \/ BeginReset
    BY <1>2 DEF BeginResume, BeginReset
<1>3. CASE Parked \/ Abandon \/ QuiesceMachine
    BY <1>3 DEF Parked, Abandon, QuiesceMachine
<1>4. CASE Hold \/ UnquiesceMachine \/ Release
    BY <1>4 DEF Hold, UnquiesceMachine, Release
<1>5. CASE ReleaseAttention \/ SetResetMachine
    BY <1>5 DEF ReleaseAttention, SetResetMachine
<1>6. CASE MachineReset
    BY <1>6 DEF MachineReset
<1>7. CASE MachineResetFails
    BY <1>7 DEF MachineResetFails, ArrivalsOK, BarrierOK
<1>8. CASE SetResetVcpus
    BY <1>8 DEF SetResetVcpus
<1>9. CASE VcpusReset
    BY <1>9 DEF VcpusReset, BarrierMet, AllOf, ArrivalsOK
<1>10. CASE AbandonReset
    BY <1>10 DEF AbandonReset
<1>11. CASE ClearLatch \/ CountReset
    BY <1>11 DEF ClearLatch, CountReset
<1>12. CASE PrepareSave \/ BeginCapture \/ EndCapture
    BY <1>12 DEF PrepareSave, BeginCapture, EndCapture
<1>13. CASE BackToHold \/ TakeStates \/ WriteSnapshot
    BY <1>13 DEF BackToHold, TakeStates, WriteSnapshot
<1> QED BY <1>1, <1>2, <1>3, <1>4, <1>5, <1>6, <1>7, <1>8, <1>9, <1>10, <1>11, <1>12,
    <1>13 DEF Begin, RqWork

LEMMA FreshStep ==
    ASSUME Places, PerCpu, ArrivalsOK, BarrierOK, OpOK, FreshOK, [Next]_vars
    PROVE  FreshOK'
<1>1. ASSUME NEW v \in Vcpu, CpuStep(v) PROVE FreshOK'
  <2>1. Effect(v) /\ ResetEffect(v)
      BY <1>1, CpuEffect, CpuResetEffect
  <2> SUFFICES ASSUME ~botched'
               PROVE  /\ (phase = "ResetVcpus" =>
                            rq = "vcpus" \/ \A u \in Vcpu : resetDone[u] \/ finished[u])'
                      /\ \A u \in Vcpu : ResetOf(u)'
      BY DEF FreshOK
  <2>2. ~botched
      BY <2>1 DEF ResetEffect
  <2>3. (phase = "ResetVcpus" => rq = "vcpus" \/ \A u \in Vcpu : resetDone[u] \/ finished[u])'
      BY <2>1, <2>2 DEF Effect, ResetEffect, FreshOK
  <2>4. ASSUME NEW u \in Vcpu, u # v PROVE ResetOf(u)'
      BY <2>1, <2>2, <2>4 DEF Effect, ResetEffect, FreshOK, ResetOf
  <2>5. ResetOf(v)'
      BY <2>1, <2>2 DEF Effect, ResetEffect, FreshOK, ResetOf, ArrivalsOK, BarrierOK
  <2> QED BY <2>3, <2>4, <2>5
<1>2. CASE Begin \/ RqWork
    BY <1>2, FreshRq DEF Places
<1>3. CASE Stopper
    BY <1>3 DEF FreshOK, ResetOf, Stopper, AllEnded, StopRunning, StopPhase,
        StopAttention, StopGate, Joined, StopperOnly, barrier, cpu, requester
<1>4. CASE WindowPasses \/ UNCHANGED vars
    BY <1>4 DEF FreshOK, ResetOf, WindowPasses, SeamUnchanged, vars, barrier, cpu,
        requester
<1> QED BY <1>1, <1>2, <1>3, <1>4 DEF Next

(* The invariant of the seam is inductive. *)
LEMMA OInvInit == Init => OInv
<1> SUFFICES ASSUME Init PROVE OInv
    OBVIOUS
<1>1. OpOK /\ PhaseOK /\ SaveOK /\ StaleOK
    BY DEF Init, OpOK, PhaseOK, CallOK, SaveOK, Saving, StaleOK
<1>2. FreshOK
    BY DEF Init, No, FreshOK, ResetOf
<1> QED BY <1>1, <1>2, IInvInit DEF OInv

LEMMA OInvStep == OInv /\ [Next]_vars => OInv'
<1> SUFFICES ASSUME OInv, [Next]_vars PROVE OInv'
    OBVIOUS
<1>1. Places /\ PerCpu /\ ArrivalsOK /\ BarrierOK
    BY TypeParts DEF OInv, IInv
<1>2. OpOK' /\ PhaseOK' /\ SaveOK' /\ StaleOK'
    BY <1>1, OpStep, PhaseStep, SaveStep, StaleStep DEF OInv
<1>3. FreshOK'
    BY <1>1, FreshStep DEF OInv
<1> QED BY <1>2, <1>3, IInvStep DEF OInv

LEMMA OperationsInvariant == Spec => []OInv
<1> QED BY OInvInit, OInvStep, PTL DEF Spec

(* What the invariant says of a vCPU in the guest and of a latched request. *)
LEMMA OInvSafe == OInv => RunsFresh /\ NoSpuriousReboot
<1> SUFFICES ASSUME OInv PROVE RunsFresh /\ NoSpuriousReboot
    OBVIOUS
<1>1. RunsFresh
    BY DEF OInv, IInv, FreshOK, ResetOf, RunsFresh, ArrivalsOK, BarrierOK
<1>2. NoSpuriousReboot
    BY DEF OInv, IInv, OpOK, StaleOK, Releasing, Resetting, TypeOK, Operations, Saving,
        NoSpuriousReboot
<1> QED BY <1>1, <1>2

(* Every vCPU that enters the guest after a reset was reset with it, unless *)
(* its own half failed or came too late (reset_one, await_barrier): no      *)
(* stop, timeout or end of another vCPU lets one slip past the second       *)
(* barrier.                                                                 *)
THEOREM RestartsFresh == Spec => []RunsFresh
<1> QED BY OInvSafe, OperationsInvariant, PTL

(* A request of the boot that a reset ended does not outlive that reset     *)
(* (reset() consumes the latch on the way in and again on the way out).     *)
THEOREM RebootsOnce == Spec => []NoSpuriousReboot
<1> QED BY OInvSafe, OperationsInvariant, PTL

------------------------------------------------------------------------------
(* A call, seen from its caller. *)

(* Nobody is in the guest, or can get there without being released. *)
Everyone == \A v \in Vcpu : arrived[v] \/ finished[v]

LEMMA RqIdle == RqWork => rq # "idle"
BY DEF RqWork, Parked, Abandon, QuiesceMachine, Hold, UnquiesceMachine, Release,
    ReleaseAttention, SetResetMachine, MachineReset, MachineResetFails, SetResetVcpus,
    VcpusReset, AbandonReset, ClearLatch, CountReset, PrepareSave, BeginCapture,
    EndCapture, BackToHold, TakeStates, WriteSnapshot, RqStep

(* When a call returns, a pause holds the VM or has let it go, a resume has *)
(* let it go, a reset has unless it stopped the seam, and a save that       *)
(* succeeds leaves everybody parked; only a reset that succeeds opens the   *)
(* storm window, and no call latches a request of the guest.                *)
Outcome ==
    /\ rq' # "idle" => op' = op
    /\ rq' = "idle" => op' = "none"
    /\ rq' = "idle" /\ phase' # "Stop" =>
        /\ op = "pause" => phase' = (IF ok' THEN "HeldPause" ELSE "Run")
        /\ op = "resume" => ok' /\ phase' = "Run"
        /\ op = "reset" => phase' = "Run"
    /\ rq' = "idle" /\ op = "save" /\ ok' => Everyone'
    /\ guestReset' => guestReset
    /\ storm' = storm
    /\ recent => recent'
    /\ op = "reset" /\ rq' = "idle" /\ ok' => recent'
    /\ recent' /\ ~recent => op = "reset" /\ rq' = "idle" /\ ok'

LEMMA RqOutcome ==
    ASSUME Flags, OpOK, PhaseOK, SaveOK, RqWork,
           op \in Operations \cup {"none"}, after \in {"idle", "clear", "count"}
    PROVE  Outcome
<1> USE DEF Outcome, OpOK, Releasing, Saving, Resetting, PhaseOK, CallOK, RqGoto, RqStep,
        Return, Refuse, request
<1>1. CASE Parked \/ Abandon \/ QuiesceMachine
    BY <1>1, SMTT(60) DEF Parked, Abandon, QuiesceMachine
<1>2. CASE Hold
    BY <1>2 DEF Hold
<1>3. CASE UnquiesceMachine \/ Release
    BY <1>3, SMTT(60) DEF UnquiesceMachine, Release
<1>4. CASE ReleaseAttention
    BY <1>4 DEF ReleaseAttention, Flags
<1>5. CASE SetResetMachine \/ MachineReset \/ MachineResetFails
    BY <1>5, SMTT(60) DEF SetResetMachine, MachineReset, MachineResetFails
<1>6. CASE SetResetVcpus \/ VcpusReset \/ AbandonReset
    BY <1>6, SMTT(60) DEF SetResetVcpus, VcpusReset, AbandonReset
<1>7. CASE ClearLatch
    BY <1>7 DEF ClearLatch
<1>11. CASE CountReset
  <2>1. (recent' <=> recent \/ ok) /\ (ok' <=> ok)
      BY <1>11, Zenon DEF CountReset
  <2>2. rq = "count" /\ rq' = "idle" /\ op' = "none" /\ UNCHANGED <<phase, guestReset, storm>>
      BY <1>11 DEF CountReset
  <2> QED BY <2>1, <2>2 DEF Operations
<1>8. CASE PrepareSave \/ BeginCapture \/ EndCapture
    BY <1>8, SMTT(60) DEF PrepareSave, BeginCapture, EndCapture
<1>9. CASE BackToHold \/ TakeStates
    BY <1>9, SMTT(60) DEF BackToHold, TakeStates
<1>10. CASE WriteSnapshot
    BY <1>10 DEF WriteSnapshot, SaveOK, Everyone, CpusUnchanged, barrier
<1> QED BY <1>1, <1>2, <1>3, <1>4, <1>5, <1>6, <1>7, <1>8, <1>9, <1>10, <1>11 DEF RqWork

(* What a vCPU does to the storm guard. *)
StormEffect ==
    /\ recent' = recent
    /\ \/ guestReset' = guestReset /\ storm' = storm
       \/ recent /\ storm' = storm + 1 /\ (guestReset' = guestReset \/ storm' <= MaxResetStorm)
       \/ ~recent

LEMMA CpuStorm == ASSUME storm \in Nat, NEW v \in Vcpu, CpuStep(v) PROVE StormEffect
<1> USE DEF StormEffect, CpuOnly, request
<1>1. CASE TripleFault(v)
    BY <1>1, LifecycleAssumption, SMTT(60) DEF TripleFault, RequestGuestReset, NextStorm
<1>2. CASE Poll(v)
    BY <1>2, LifecycleAssumption, SMTT(60) DEF Poll, RequestGuestReset, NextStorm
<1>3. CASE ~TripleFault(v) /\ ~Poll(v)
  <2>1. UNCHANGED request
      BY <1>3 DEF CpuStep, LoopTop, LoopAttention, Flush, HoldRun, HoldStop, HoldPark,
          HoldSave, HoldReset, SaveOne, ResetOne, Kick, Exit, GuestEnds, ParkStop,
          ParkAttention, ParkGaveUp, Finished
  <2> QED BY <2>1
<1> QED BY <1>1, <1>2, <1>3
=============================================================================
