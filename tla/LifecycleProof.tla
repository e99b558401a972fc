--------------------------- MODULE LifecycleProof ---------------------------
(* Proofs about Lifecycle, for any number of vCPUs, any storm limit and    *)
(* whatever is asked for, done by the guest and failing on the host.       *)
EXTENDS Lifecycle, TLAPS

(* The prover of every leaf that names no other. *)
USE ZenonT(60)

(* A vCPU that has arrived at the barrier stays in checkpoint(), or ends:  *)
(* the way back into the guest needs phase Run, which release() sets in    *)
(* the critical section that forgets the arrivals.                         *)
ArrivalsOK ==
    /\ \A v \in Vcpu : arrived[v] => pc[v] \in {"hold", "saving", "resetting", "ended", "done"}
    /\ \A v \in Vcpu : finished[v] => pc[v] = "done"
    /\ phase = "Run" => \A v \in Vcpu : ~arrived[v]

(* Past the first barrier, and in a hold, everybody has arrived. *)
BarrierOK ==
    rq \in {"quiesce", "held", "setMachine", "machine", "setVcpus", "vcpus"}
        \/ phase \in {"HeldPause", "SaveVcpus"}
    => \A v \in Vcpu : arrived[v] \/ finished[v]

(* Until somebody stops the VM the requester owns the phase and the gate:  *)
(* where it is in its call tells what both are.                            *)
CallOK ==
    \/ rq = "idle" /\ phase \in {"Run", "HeldPause", "Stop"}
    \/ rq \in {"park", "quiesce"} /\ phase = (IF op = "reset" THEN "ParkReset" ELSE "ParkPause")
    \/ rq = "held" /\ op # "reset" /\ phase = "ParkPause"
    \/ rq \in {"unquiesce", "release"} /\ phase = "HeldPause" /\ op = "resume"
    \/ rq \in {"unquiesce", "release"} /\ phase \in {"Run", "ParkPause", "ParkReset", "ResetVcpus"}
    \/ rq = "setMachine" /\ phase = "ParkReset"
    \/ rq \in {"machine", "setVcpus"} /\ phase = "ResetMachine"
    \/ rq = "vcpus" /\ phase = "ResetVcpus"
    \/ rq = "clear" /\ phase \in {"Run", "ResetVcpus"}
    \/ rq \in {"attn", "count"} /\ phase = "Run"
    \/ rq \in {"prepare", "capture", "take", "write"} /\ phase = "HeldPause" /\ op = "save"
    \/ rq \in {"report", "reported"} /\ phase = "SaveVcpus" /\ op = "save"

(* The gate is shut in a hold, and open again before the vCPUs run. *)
GateOK ==
    /\ rq = "held" => gate # "open"
    /\ phase = "Run" \/ rq = "release" => gate = "open"
    /\ phase \in {"HeldPause", "SaveVcpus"} /\ gate = "open" => rq = "release" /\ op = "resume"
    /\ rq \in {"capture", "report", "reported", "take", "write"} => gate = "closed"

(* In a capture, who has reported its state is still in checkpoint().      *)
CaptureOK ==
    /\ rq \in {"report", "reported", "take"} =>
        \A v \in Vcpu : saved[v] => pc[v] \in {"hold", "saving"}
    /\ rq = "write" => \A v \in Vcpu : pc[v] \in {"hold", "saving"}
    /\ \A v \in Vcpu : arrived[v] /\ pc[v] = "resetting" => phase = "ResetVcpus"

OwnedOK == NotStopping => CallOK /\ GateOK /\ CaptureOK

IInv == TypeOK /\ ArrivalsOK /\ BarrierOK /\ OwnedOK

------------------------------------------------------------------------------
(* Types, in three parts: the Boolean flags, the flags per vCPU, and where *)
(* the threads are.                                                        *)

Flags ==
    /\ saveError \in BOOLEAN /\ resetError \in BOOLEAN /\ guestReset \in BOOLEAN
    /\ stormedOut \in BOOLEAN /\ recent \in BOOLEAN /\ attention \in BOOLEAN
    /\ running \in BOOLEAN /\ resetLatch \in BOOLEAN /\ powerLatch \in BOOLEAN
    /\ ok \in BOOLEAN /\ botched \in BOOLEAN /\ stale \in BOOLEAN

PerCpu ==
    /\ arrived \in [Vcpu -> BOOLEAN] /\ resetDone \in [Vcpu -> BOOLEAN]
    /\ saved \in [Vcpu -> BOOLEAN] /\ finished \in [Vcpu -> BOOLEAN]
    /\ faulted \in [Vcpu -> BOOLEAN] /\ fresh \in [Vcpu -> BOOLEAN]

Places ==
    /\ phase \in Phase
    /\ storm \in Nat
    /\ gate \in {"open", "closing", "closed"}
    /\ pc \in [Vcpu -> CpuPc]
    /\ mode \in [Vcpu -> {"run", "reset", "fault"}]
    /\ rq \in RqPc
    /\ op \in Operations \cup {"none"}
    /\ after \in {"idle", "clear", "count"}
    /\ stopper \in {"watch", "phase", "attn", "gate", "join", "over"}

LEMMA TypeParts == TypeOK <=> Flags /\ PerCpu /\ Places
BY DEF TypeOK, Flags, PerCpu, Places

LEMMA NobodyType == No \in [Vcpu -> BOOLEAN]
BY DEF No

LEMMA TypeInit == Init => TypeOK
<1> SUFFICES ASSUME Init PROVE TypeOK
    OBVIOUS
<1>1. Flags
    BY Zenon DEF Init, Flags
<1>2. PerCpu
    BY NobodyType DEF Init, PerCpu, No
<1>3. Places
    BY DEF Init, Places, Phase, CpuPc, RqPc, Operations
<1> QED BY <1>1, <1>2, <1>3, TypeParts

(* The flags. *)
LEMMA FlagsCpu ==
    ASSUME Flags, NEW v \in Vcpu, CpuStep(v) PROVE Flags'
<1> USE DEF Flags, SeamUnchanged, CpuOnly, saving, request, machine, cpu, requester,
        stopping
<1>1. CASE LoopTop(v) \/ LoopAttention(v) \/ Flush(v) \/ HoldRun(v) \/ Finished(v)
    BY <1>1, SMTT(60) DEF LoopTop, LoopAttention, Flush, Resumed, HoldRun, Finished
<1>2. CASE HoldStop(v) \/ HoldPark(v) \/ HoldSave(v) \/ HoldReset(v) \/ Kick(v)
    BY <1>2, SMTT(60) DEF HoldStop, HoldPark, HoldSave, HoldReset, Kick
<1>3. CASE GuestEnds(v) \/ ParkStop(v) \/ ParkAttention(v) \/ ParkGaveUp(v)
    BY <1>3, SMTT(60) DEF GuestEnds, ParkStop, ParkAttention, ParkGaveUp
<1> HIDE DEF Flags, SeamUnchanged, CpuOnly, saving, request, machine, cpu, requester,
        stopping
<1>4. CASE SaveOne(v)
  <2>1. saveError' \in BOOLEAN
      BY <1>4 DEF Flags, SaveOne
  <2> QED BY <1>4, <2>1, SMTT(60) DEF Flags, SaveOne, SeamUnchanged, saving, request,
      machine, requester, stopping
<1>5. CASE ResetOne(v)
  <2>1. resetError' \in BOOLEAN /\ botched' \in BOOLEAN
      BY <1>5 DEF Flags, ResetOne
  <2> QED BY <1>5, <2>1 DEF Flags, ResetOne, SeamUnchanged, saving, request, machine,
      requester, stopping
<1>6. CASE Exit(v)
  <2>1. resetLatch' \in BOOLEAN /\ powerLatch' \in BOOLEAN
      BY <1>6 DEF Flags, Exit
  <2> QED BY <1>6, <2>1 DEF Flags, Exit, SeamUnchanged, saving, request, machine,
      requester, stopping
<1>7. CASE TripleFault(v)
  <2>1. guestReset' \in BOOLEAN /\ stormedOut' \in BOOLEAN /\ recent' \in BOOLEAN /\
        stale' \in BOOLEAN
      BY <1>7 DEF Flags, TripleFault, RequestGuestReset, NextStorm, request
  <2> QED BY <1>7, <2>1 DEF Flags, TripleFault, RequestGuestReset, NextStorm,
      SeamUnchanged, saving, request, machine, requester, stopping
<1>8. CASE Poll(v)
  <2>1. guestReset' \in BOOLEAN /\ stormedOut' \in BOOLEAN /\ recent' \in BOOLEAN /\
        stale' \in BOOLEAN
      BY <1>8 DEF Flags, Poll, RequestGuestReset, NextStorm, request
  <2> QED BY <1>8, <2>1 DEF Flags, Poll, RequestGuestReset, NextStorm, SeamUnchanged,
      saving, request, machine, requester, stopping
<1> QED BY <1>1, <1>2, <1>3, <1>4, <1>5, <1>6, <1>7, <1>8, Zenon DEF CpuStep

LEMMA RefuseFlags ==
    ASSUME Flags, NEW result \in BOOLEAN, Refuse(result) PROVE Flags'
<1>1. ok' \in BOOLEAN
    BY Zenon DEF Refuse, Return
<1> QED BY <1>1, SMTT(60) DEF Flags, Refuse, CpusUnchanged, saving, request, machine,
    stopping

LEMMA FlagsRq ==
    ASSUME Flags, Begin \/ RqWork PROVE Flags'
<1>1. ASSUME NEW kind, BeginPause(kind) PROVE Flags'
  <2>1. CASE phase # "Run" /\ ~(phase \in {"HeldPause", "ParkPause"} /\ kind = "save")
    <3>1. Refuse(phase \in {"HeldPause", "ParkPause"})
        BY <1>1, <2>1 DEF BeginPause
    <3>2. (phase \in {"HeldPause", "ParkPause"}) \in BOOLEAN
        BY SMTT(60)
    <3> QED BY <3>1, <3>2, RefuseFlags, Zenon
  <2>2. CASE phase = "Run" \/ (phase \in {"HeldPause", "ParkPause"} /\ kind = "save")
    <3>1. ok' = TRUE /\ (attention' = TRUE \/ attention' = attention)
        BY <1>1, <2>2 DEF BeginPause
    <3>2. ok' \in BOOLEAN /\ attention' \in BOOLEAN
        BY <3>1, Zenon DEF Flags
    <3> QED BY <1>1, <2>2, <3>2, SMTT(60) DEF Flags, BeginPause, CpusUnchanged, saving,
        request, machine, stopping
  <2> QED BY <2>1, <2>2
<1>2. CASE BeginResume
  <2>1. CASE phase \notin {"HeldPause", "ParkPause"}
    <3>1. Refuse(phase = "Run")
        BY <1>2, <2>1 DEF BeginResume
    <3> QED BY <3>1, RefuseFlags, Zenon
  <2>2. CASE phase \in {"HeldPause", "ParkPause"}
    <3>1. ok' \in BOOLEAN
        BY <1>2, <2>2, Zenon DEF BeginResume
    <3> QED BY <1>2, <2>2, <3>1, SMTT(60) DEF Flags, BeginResume, CpusUnchanged, saving,
        request, machine, stopping
  <2> QED BY <2>1, <2>2
<1>3. CASE Parked \/ QuiesceMachine \/ UnquiesceMachine \/ Release \/ SetResetMachine \/
        SetResetVcpus \/ VcpusReset
    BY <1>3, SMTT(60) DEF Flags, Parked, QuiesceMachine, UnquiesceMachine, Release,
        SetResetMachine, SetResetVcpus, VcpusReset, RqStep, CpusUnchanged, saving,
        request, machine, stopping
<1>4. CASE BeginReset
  <2>1. attention' \in BOOLEAN /\ resetError' \in BOOLEAN /\ guestReset' \in BOOLEAN /\
        stale' \in BOOLEAN /\ ok' \in BOOLEAN
      BY <1>4 DEF Flags, BeginReset, Refuse, Return, request, saving
  <2> QED BY <1>4, <2>1 DEF Flags, BeginReset, RqGoto, RqStep, Return, Refuse,
      CpusUnchanged, saving, request, machine, stopping
<1>5. CASE Abandon
  <2>1. ok' \in BOOLEAN
      BY <1>5 DEF Flags, Abandon
  <2> QED BY <1>5, <2>1, SMTT(60) DEF Flags, Abandon, RqGoto, RqStep, Return, Refuse,
      CpusUnchanged, saving, request, machine, stopping
<1>6. CASE Hold
  <2>1. ok' \in BOOLEAN
      BY <1>6 DEF Flags, Hold, Return
  <2> QED BY <1>6, <2>1, SMTT(60) DEF Flags, Hold, RqGoto, RqStep, Return, Refuse,
      CpusUnchanged, saving, request, machine, stopping
<1>7. CASE ReleaseAttention
  <2>1. attention' \in BOOLEAN /\ ok' \in BOOLEAN
      BY <1>7 DEF Flags, ReleaseAttention, Return
  <2> QED BY <1>7, <2>1 DEF Flags, ReleaseAttention, RqGoto, RqStep, Return, Refuse,
      CpusUnchanged, saving, request, machine, stopping
<1>8. CASE MachineReset
  <2>1. resetLatch' \in BOOLEAN /\ powerLatch' \in BOOLEAN /\ stale' \in BOOLEAN
      BY <1>8 DEF Flags, MachineReset
  <2> QED BY <1>8, <2>1 DEF Flags, MachineReset, RqGoto, RqStep, Return, Refuse,
      CpusUnchanged, saving, request, machine, stopping
<1>9. CASE MachineResetFails
  <2>1. resetLatch' \in BOOLEAN /\ powerLatch' \in BOOLEAN /\ attention' \in BOOLEAN /\
        ok' \in BOOLEAN
      BY <1>9 DEF Flags, MachineResetFails, Return
  <2> QED BY <1>9, <2>1 DEF Flags, MachineResetFails, RqGoto, RqStep, Return, Refuse,
      CpusUnchanged, saving, request, machine, stopping
<1>10. CASE AbandonReset
  <2>1. ok' \in BOOLEAN /\ botched' \in BOOLEAN
      BY <1>10 DEF Flags, AbandonReset
  <2> QED BY <1>10, <2>1 DEF Flags, AbandonReset, RqGoto, RqStep, Return, Refuse,
      CpusUnchanged, saving, request, machine, stopping
<1>11. CASE ClearLatch
  <2>1. guestReset' \in BOOLEAN /\ stale' \in BOOLEAN /\ ok' \in BOOLEAN
      BY <1>11 DEF Flags, ClearLatch
  <2> QED BY <1>11, <2>1 DEF Flags, ClearLatch, RqGoto, RqStep, Return, Refuse,
      CpusUnchanged, saving, request, machine, stopping
<1>12. CASE CountReset
  <2>1. recent' \in BOOLEAN /\ ok' \in BOOLEAN
      BY <1>12 DEF Flags, CountReset, Return
  <2> QED BY <1>12, <2>1 DEF Flags, CountReset, RqGoto, RqStep, Return, Refuse,
      CpusUnchanged, saving, request, machine, stopping
<1>13. CASE PrepareSave
  <2>1. ok' \in BOOLEAN
      BY <1>13 DEF Flags, PrepareSave, Return
  <2> QED BY <1>13, <2>1, SMTT(60) DEF Flags, PrepareSave, RqGoto, RqStep, Return,
      Refuse, CpusUnchanged, saving, request, machine, stopping
<1>14. CASE BeginCapture
  <2>1. attention' \in BOOLEAN /\ saveError' \in BOOLEAN /\ ok' \in BOOLEAN
      BY <1>14 DEF Flags, BeginCapture, Refuse, Return, saving
  <2> QED BY <1>14, <2>1, SMTT(60) DEF Flags, BeginCapture, RqGoto, RqStep, Return,
      Refuse, CpusUnchanged, saving, request, machine, stopping
<1>15. CASE EndCapture
  <2>1. ok' \in BOOLEAN
      BY <1>15 DEF Flags, EndCapture
  <2> QED BY <1>15, <2>1, SMTT(60) DEF Flags, EndCapture, RqGoto, RqStep, Return, Refuse,
      CpusUnchanged, saving, request, machine, stopping
<1>16. CASE BackToHold
  <2>1. ok' \in BOOLEAN
      BY <1>16 DEF Flags, BackToHold, Return
  <2> QED BY <1>16, <2>1, SMTT(60) DEF Flags, BackToHold, RqGoto, RqStep, Return, Refuse,
      CpusUnchanged, saving, request, machine, stopping
<1>17. CASE TakeStates
  <2>1. saveError' \in BOOLEAN /\ ok' \in BOOLEAN
      BY <1>17 DEF Flags, TakeStates, Return
  <2> QED BY <1>17, <2>1 DEF Flags, TakeStates, RqGoto, RqStep, Return, Refuse,
      CpusUnchanged, saving, request, machine, stopping
<1>18. CASE WriteSnapshot
  <2>1. ok' \in BOOLEAN
      BY <1>18 DEF Flags, WriteSnapshot, Return
  <2> QED BY <1>18, <2>1, SMTT(60) DEF Flags, WriteSnapshot, RqGoto, RqStep, Return,
      Refuse, CpusUnchanged, saving, request, machine, stopping
<1> QED BY <1>1, <1>2, <1>3, <1>4, <1>5, <1>6, <1>7, <1>8, <1>9, <1>10, <1>11, <1>12,
    <1>13, <1>14, <1>15, <1>16, <1>17, <1>18 DEF Begin, RqWork

LEMMA FlagsStop ==
    ASSUME Flags, Stopper \/ WindowPasses \/ UNCHANGED vars PROVE Flags'
<1>1. CASE AllEnded \/ StopPhase \/ StopGate \/ Joined
    BY <1>1, SMTT(60) DEF Flags, AllEnded, StopPhase, StopGate, Joined, StopperOnly,
        saving, request, requester
<1>2. CASE StopRunning
  <2>1. running' \in BOOLEAN
      BY <1>2 DEF Flags, StopRunning
  <2> QED BY <1>2, <2>1 DEF Flags, StopRunning, StopperOnly, SeamUnchanged, saving,
      request, machine, requester, stopping
<1>3. CASE StopAttention
  <2>1. attention' \in BOOLEAN
      BY <1>3 DEF Flags, StopAttention
  <2> QED BY <1>3, <2>1 DEF Flags, StopAttention, StopperOnly, SeamUnchanged, saving,
      request, machine, requester, stopping
<1>4. CASE WindowPasses
  <2>1. recent' \in BOOLEAN
      BY <1>4 DEF Flags, WindowPasses
  <2> QED BY <1>4, <2>1 DEF Flags, WindowPasses, StopperOnly, SeamUnchanged, saving,
      request, machine, requester, stopping
<1>5. CASE UNCHANGED vars
    BY <1>5, SMTT(60) DEF Flags, vars, saving, request, machine, requester, stopping
<1> QED BY <1>1, <1>2, <1>3, <1>4, <1>5 DEF Stopper

(* The flags per vCPU. *)
LEMMA PerCpuCpu ==
    ASSUME PerCpu, NEW v \in Vcpu, CpuStep(v) PROVE PerCpu'
<1> USE DEF PerCpu, Goto, SeamUnchanged, CpuOnly, barrier, saving, request, machine,
        cpu, requester, stopping
<1>1. CASE LoopTop(v) \/ LoopAttention(v) \/ Flush(v) \/ HoldRun(v) \/ HoldStop(v) \/
        HoldSave(v) \/ HoldReset(v) \/ Kick(v) \/ Exit(v) \/ GuestEnds(v) \/ Poll(v) \/
        ParkStop(v) \/ ParkAttention(v) \/ ParkGaveUp(v)
    BY <1>1 DEF LoopTop, LoopAttention, Flush, Resumed, HoldRun, HoldStop, HoldSave,
        HoldReset, Kick, Exit, GuestEnds, Poll, RequestGuestReset, NextStorm, ParkStop,
        ParkAttention, ParkGaveUp
<1>2. CASE HoldPark(v)
    BY <1>2 DEF HoldPark
<1>3. CASE SaveOne(v)
    BY <1>3 DEF SaveOne
<1>4. CASE ResetOne(v)
    BY <1>4 DEF ResetOne
<1>5. CASE TripleFault(v)
    BY <1>5 DEF TripleFault, RequestGuestReset, NextStorm
<1>6. CASE Finished(v)
    BY <1>6 DEF Finished
<1> QED BY <1>1, <1>2, <1>3, <1>4, <1>5, <1>6 DEF CpuStep

LEMMA PerCpuRq ==
    ASSUME PerCpu, Begin \/ RqWork PROVE PerCpu'
<1> USE DEF PerCpu, RqGoto, RqStep, Return, Refuse, CpusUnchanged, barrier, saving,
        request, machine, cpu, requester, stopping
<1>1. CASE BeginPause("pause")
    BY <1>1, NobodyType DEF BeginPause
<1>2. CASE BeginPause("save")
    BY <1>2, NobodyType DEF BeginPause
<1>3. CASE BeginReset
    BY <1>3, NobodyType DEF BeginReset
<1>4. CASE Release
    BY <1>4, NobodyType DEF Release
<1>5. CASE MachineReset
    BY <1>5, NobodyType DEF MachineReset
<1>6. CASE MachineResetFails
    BY <1>6, NobodyType DEF MachineResetFails
<1>7. CASE BeginCapture
    BY <1>7, NobodyType DEF BeginCapture
<1>8. CASE TakeStates
    BY <1>8, NobodyType DEF TakeStates
<1>9. CASE BeginResume \/ Parked \/ Abandon \/ QuiesceMachine \/ Hold \/
        UnquiesceMachine \/ ReleaseAttention \/ SetResetMachine \/ SetResetVcpus \/
        VcpusReset \/ AbandonReset \/ ClearLatch \/ CountReset \/ PrepareSave \/
        EndCapture \/ BackToHold \/ WriteSnapshot
    BY <1>9 DEF BeginResume, Parked, Abandon, QuiesceMachine, Hold, UnquiesceMachine,
        ReleaseAttention, SetResetMachine, SetResetVcpus, VcpusReset, AbandonReset,
        ClearLatch, CountReset, PrepareSave, EndCapture, BackToHold, WriteSnapshot
<1> QED BY <1>1, <1>2, <1>3, <1>4, <1>5, <1>6, <1>7, <1>8, <1>9 DEF Begin, RqWork

LEMMA PerCpuStop ==
    ASSUME PerCpu, Stopper \/ WindowPasses \/ UNCHANGED vars PROVE PerCpu'
<1> USE DEF PerCpu, StopperOnly, SeamUnchanged, barrier, saving, request, machine, cpu,
        requester, stopping
<1>1. CASE AllEnded \/ StopRunning \/ StopPhase \/ StopAttention \/ StopGate \/ Joined
    BY <1>1 DEF AllEnded, StopRunning, StopPhase, StopAttention, StopGate, Joined
<1>2. CASE WindowPasses
    BY <1>2 DEF WindowPasses
<1>3. CASE UNCHANGED vars
    BY <1>3 DEF vars
<1> QED BY <1>1, <1>2, <1>3 DEF Stopper

(* The places. *)
LEMMA PlacesCpu ==
    ASSUME Places, NEW v \in Vcpu, CpuStep(v) PROVE Places'
<1> USE DEF Places, Phase, CpuPc, RqPc, Operations, Goto, SeamUnchanged, CpuOnly,
        barrier, saving, request, machine, cpu, requester, stopping
<1>1. CASE LoopTop(v) \/ LoopAttention(v) \/ Flush(v) \/ HoldRun(v)
    BY <1>1, SMTT(60) DEF LoopTop, LoopAttention, Flush, Resumed, HoldRun
<1>2. CASE HoldStop(v) \/ HoldPark(v) \/ HoldSave(v) \/ HoldReset(v)
    BY <1>2, SMTT(60) DEF HoldStop, HoldPark, HoldSave, HoldReset
<1>3. CASE SaveOne(v) \/ ResetOne(v) \/ Kick(v) \/ Exit(v) \/ GuestEnds(v)
    BY <1>3, SMTT(60) DEF SaveOne, ResetOne, Kick, Exit, GuestEnds
<1>4. CASE TripleFault(v)
    BY <1>4, SMTT(60) DEF TripleFault, RequestGuestReset, NextStorm
<1>5. CASE Poll(v)
    BY <1>5, SMTT(60) DEF Poll, RequestGuestReset, NextStorm
<1>6. CASE ParkStop(v) \/ ParkAttention(v) \/ ParkGaveUp(v) \/ Finished(v)
    BY <1>6, SMTT(60) DEF ParkStop, ParkAttention, ParkGaveUp, Finished
<1> QED BY <1>1, <1>2, <1>3, <1>4, <1>5, <1>6 DEF CpuStep

LEMMA PlacesRq ==
    ASSUME Places, Begin \/ RqWork PROVE Places'
<1> USE DEF Places, Phase, CpuPc, RqPc, Operations, RqGoto, RqStep, Return, Refuse,
        CpusUnchanged, barrier, saving, request, machine, cpu, requester, stopping
<1>1. CASE BeginPause("pause") \/ BeginPause("save")
    BY <1>1, SMTT(60) DEF BeginPause
<1>2. CASE BeginResume \/ BeginReset
    BY <1>2, SMTT(60) DEF BeginResume, BeginReset
<1>3. CASE Parked \/ Abandon \/ QuiesceMachine \/ Hold
    BY <1>3, SMTT(60) DEF Parked, Abandon, QuiesceMachine, Hold
<1>4. CASE UnquiesceMachine \/ Release \/ ReleaseAttention \/ SetResetMachine
    BY <1>4, SMTT(60) DEF UnquiesceMachine, Release, ReleaseAttention, SetResetMachine
<1>5. CASE MachineReset \/ MachineResetFails \/ SetResetVcpus \/ VcpusReset
    BY <1>5, SMTT(60) DEF MachineReset, MachineResetFails, SetResetVcpus, VcpusReset
<1>6. CASE AbandonReset \/ ClearLatch \/ CountReset \/ PrepareSave
    BY <1>6 DEF AbandonReset, ClearLatch, CountReset, PrepareSave
<1>7. CASE BeginCapture \/ EndCapture \/ BackToHold \/ TakeStates
    BY <1>7, SMTT(60) DEF BeginCapture, EndCapture, BackToHold, TakeStates
<1>8. CASE WriteSnapshot
    BY <1>8 DEF WriteSnapshot
<1> QED BY <1>1, <1>2, <1>3, <1>4, <1>5, <1>6, <1>7, <1>8 DEF Begin, RqWork

LEMMA PlacesStop ==
    ASSUME Places, Stopper \/ WindowPasses \/ UNCHANGED vars PROVE Places'
<1> USE DEF Places, Phase, CpuPc, RqPc, Operations, StopperOnly, SeamUnchanged, barrier,
        saving, request, machine, cpu, requester, stopping
<1>1. CASE AllEnded \/ StopRunning \/ Joined
    BY <1>1, SMTT(60) DEF AllEnded, StopRunning, Joined
<1>2. CASE StopPhase \/ StopAttention \/ StopGate
    BY <1>2, SMTT(60) DEF StopPhase, StopAttention, StopGate
<1>3. CASE WindowPasses
    BY <1>3, SMTT(60) DEF WindowPasses
<1>4. CASE UNCHANGED vars
    BY <1>4, SMTT(60) DEF vars
<1> QED BY <1>1, <1>2, <1>3, <1>4 DEF Stopper

LEMMA TypeStep == TypeOK /\ [Next]_vars => TypeOK'
<1> SUFFICES ASSUME TypeOK, [Next]_vars PROVE Flags' /\ PerCpu' /\ Places'
    BY TypeParts DEF TypeOK, Flags, PerCpu, Places
<1>1. Flags /\ PerCpu /\ Places
    BY TypeParts
<1>2. ASSUME NEW v \in Vcpu, CpuStep(v) PROVE Flags' /\ PerCpu' /\ Places'
    BY <1>1, <1>2, FlagsCpu, PerCpuCpu, PlacesCpu
<1>3. CASE Begin \/ RqWork
    BY <1>1, <1>3, FlagsRq, PerCpuRq, PlacesRq
<1>4. CASE Stopper \/ WindowPasses \/ UNCHANGED vars
    BY <1>1, <1>4, FlagsStop, PerCpuStop, PlacesStop
<1> QED BY <1>2, <1>3, <1>4 DEF Next

(* The types of the seam's state, whoever does what: the storm counter     *)
(* never goes below zero, and nobody is where the code has no such place.  *)
THEOREM SeamType == Spec => []TypeOK
<1> QED BY TypeInit, TypeStep, PTL DEF Spec

------------------------------------------------------------------------------
(* Safety. *)

(* What a step of vCPU v does to what the invariant speaks of: nothing to  *)
(* the requester, the gate, the phase and the other vCPUs; it arrives only *)
(* in a phase that parks, and leaves checkpoint() only in Run or Stop.     *)
Effect(v) ==
    /\ UNCHANGED <<phase, gate, rq, op, stopper>>
    /\ \A u \in Vcpu \ {v} : /\ pc'[u] = pc[u] /\ arrived'[u] = arrived[u]
                            /\ finished'[u] = finished[u] /\ saved'[u] = saved[u]
    /\ arrived[v] => arrived'[v]
    /\ arrived'[v] => arrived[v] \/ (pc'[v] = "hold" /\ phase \in {"ParkPause", "ParkReset"})
    /\ finished[v] => finished'[v]
    /\ finished'[v] => finished[v] \/ pc'[v] = "done"
    /\ saved'[v] => saved[v] \/ pc'[v] = "hold"
    /\ pc[v] # "done"
    /\ pc'[v] = "resetting" => phase = "ResetVcpus"
    /\ pc[v] \in {"hold", "saving", "resetting", "ended"} =>
        \/ pc'[v] \in {"hold", "saving", "resetting"}
        \/ pc'[v] = "ended" /\ phase = "Stop"
        \/ pc'[v] = "done" /\ pc[v] = "ended"
        \/ phase = "Run"

LEMMA CpuEffect ==
    ASSUME Places, PerCpu, NEW v \in Vcpu, CpuStep(v) PROVE Effect(v)
<1> USE DEF Places, PerCpu, Effect, Goto, SeamUnchanged, CpuOnly, barrier, saving,
        request, machine, cpu, requester, stopping
<1>1. CASE LoopTop(v) \/ LoopAttention(v) \/ Flush(v)
    BY <1>1 DEF LoopTop, LoopAttention, Flush, Resumed
<1>2. CASE HoldRun(v) \/ HoldStop(v) \/ HoldPark(v)
    BY <1>2 DEF HoldRun, Resumed, HoldStop, HoldPark
<1>3. CASE HoldSave(v) \/ HoldReset(v) \/ SaveOne(v)
    BY <1>3 DEF HoldSave, HoldReset, SaveOne
<1>4. CASE ResetOne(v) \/ Kick(v) \/ Exit(v)
    BY <1>4 DEF ResetOne, Kick, Exit
<1>5. CASE GuestEnds(v) \/ TripleFault(v) \/ Poll(v)
    BY <1>5 DEF GuestEnds, TripleFault, RequestGuestReset, NextStorm, Poll
<1>6. CASE ParkStop(v) \/ ParkAttention(v) \/ ParkGaveUp(v)
    BY <1>6 DEF ParkStop, ParkAttention, ParkGaveUp
<1>7. CASE Finished(v)
    BY <1>7 DEF Finished
<1> QED BY <1>1, <1>2, <1>3, <1>4, <1>5, <1>6, <1>7 DEF CpuStep

(* Arrivals are not undone. *)
LEMMA ArrivalsRq ==
    ASSUME ArrivalsOK, BarrierOK, after \in {"idle", "clear", "count"}, Begin \/ RqWork
    PROVE  ArrivalsOK'
<1> USE DEF ArrivalsOK, BarrierOK, No, RqStep, Refuse, CpusUnchanged, AllOf, BarrierMet,
        barrier, cpu
<1>1. CASE BeginPause("pause") \/ BeginPause("save")
    BY <1>1 DEF BeginPause
<1>2. CASE BeginResume \/ BeginReset
    BY <1>2 DEF BeginResume, BeginReset
<1>3. CASE Parked \/ Abandon \/ QuiesceMachine
    BY <1>3 DEF Parked, Abandon, QuiesceMachine
<1>4. CASE Hold \/ UnquiesceMachine \/ Release
    BY <1>4 DEF Hold, UnquiesceMachine, Release
<1>5. CASE ReleaseAttention \/ SetResetMachine \/ MachineReset
    BY <1>5 DEF ReleaseAttention, SetResetMachine, MachineReset
<1>6. CASE MachineResetFails \/ SetResetVcpus \/ VcpusReset
    BY <1>6 DEF MachineResetFails, SetResetVcpus, VcpusReset
<1>7. CASE AbandonReset \/ ClearLatch \/ CountReset
    BY <1>7 DEF AbandonReset, ClearLatch, CountReset
<1>8. CASE PrepareSave \/ BeginCapture \/ EndCapture
    BY <1>8 DEF PrepareSave, BeginCapture, EndCapture
<1>9. CASE BackToHold \/ TakeStates \/ WriteSnapshot
    BY <1>9 DEF BackToHold, TakeStates, WriteSnapshot
<1> QED BY <1>1, <1>2, <1>3, <1>4, <1>5, <1>6, <1>7, <1>8, <1>9 DEF
    Begin, RqWork

LEMMA ArrivalsStep ==
    ASSUME Places, PerCpu, ArrivalsOK, BarrierOK, [Next]_vars
    PROVE  ArrivalsOK'
<1>1. ASSUME NEW v \in Vcpu, CpuStep(v) PROVE ArrivalsOK'
  <2>1. Effect(v)
      BY <1>1, CpuEffect
  <2> QED BY <2>1 DEF Effect, ArrivalsOK, BarrierOK
<1>2. CASE Begin \/ RqWork
    BY <1>2, ArrivalsRq DEF Places
<1>3. CASE Stopper
    BY <1>3 DEF ArrivalsOK, BarrierOK, Stopper, AllEnded, StopRunning, StopPhase,
        StopAttention, StopGate, Joined, StopperOnly, barrier, cpu
<1>4. CASE WindowPasses \/ UNCHANGED vars
    BY <1>4 DEF ArrivalsOK, BarrierOK, WindowPasses, SeamUnchanged, vars, barrier, cpu,
        requester, stopping
<1> QED BY <1>1, <1>2, <1>3, <1>4 DEF Next

(* Barriers stay met until release(). *)
LEMMA BarrierRq ==
    ASSUME BarrierOK, after \in {"idle", "clear", "count"}, Begin \/ RqWork
    PROVE  BarrierOK'
<1> USE DEF BarrierOK, No, RqGoto, RqStep, Return, Refuse, CpusUnchanged, AllOf,
        BarrierMet, barrier
<1>1. CASE BeginPause("pause") \/ BeginPause("save")
    BY <1>1 DEF BeginPause
<1>2. CASE BeginResume \/ BeginReset
    BY <1>2 DEF BeginResume, BeginReset
<1>3. CASE Parked \/ Abandon \/ QuiesceMachine
    BY <1>3 DEF Parked, Abandon, QuiesceMachine
<1>4. CASE Hold \/ UnquiesceMachine \/ Release
    BY <1>4 DEF Hold, UnquiesceMachine, Release
<1>5. CASE ReleaseAttention \/ SetResetMachine \/ MachineReset
    BY <1>5 DEF ReleaseAttention, SetResetMachine, MachineReset
<1>6. CASE MachineResetFails \/ SetResetVcpus \/ VcpusReset
    BY <1>6 DEF MachineResetFails, SetResetVcpus, VcpusReset
<1>7. CASE AbandonReset \/ ClearLatch \/ CountReset
    BY <1>7 DEF AbandonReset, ClearLatch, CountReset
<1>8. CASE PrepareSave \/ BeginCapture \/ EndCapture
    BY <1>8 DEF PrepareSave, BeginCapture, EndCapture
<1>9. CASE BackToHold \/ TakeStates \/ WriteSnapshot
    BY <1>9 DEF BackToHold, TakeStates, WriteSnapshot
<1> QED BY <1>1, <1>2, <1>3, <1>4, <1>5, <1>6, <1>7, <1>8, <1>9 DEF
    Begin, RqWork

LEMMA BarrierStep ==
    ASSUME Places, PerCpu, BarrierOK, [Next]_vars
    PROVE  BarrierOK'
<1>1. ASSUME NEW v \in Vcpu, CpuStep(v) PROVE BarrierOK'
  <2>1. Effect(v)
      BY <1>1, CpuEffect
  <2> QED BY <2>1 DEF Effect, BarrierOK
<1>2. CASE Begin \/ RqWork
    BY <1>2, BarrierRq DEF Places
<1>3. CASE Stopper
    BY <1>3 DEF BarrierOK, Stopper, AllEnded, StopRunning, StopPhase, StopAttention,
        StopGate, Joined, StopperOnly, barrier, requester
<1>4. CASE WindowPasses \/ UNCHANGED vars
    BY <1>4 DEF BarrierOK, WindowPasses, SeamUnchanged, vars, barrier, requester, stopping
<1> QED BY <1>1, <1>2, <1>3, <1>4 DEF Next

(* The requester's own steps keep its place and the phase together. *)
LEMMA CallRq ==
    ASSUME CallOK, after \in {"idle", "clear", "count"}, Begin \/ RqWork
    PROVE  CallOK'
<1> USE DEF CallOK, RqGoto, RqStep, Return, Refuse
<1>1. CASE BeginPause("pause") \/ BeginPause("save")
    BY <1>1 DEF BeginPause
<1>2. CASE BeginResume \/ BeginReset
    BY <1>2 DEF BeginResume, BeginReset
<1>3. CASE Parked \/ Abandon \/ QuiesceMachine
    BY <1>3 DEF Parked, Abandon, QuiesceMachine
<1>4. CASE Hold \/ UnquiesceMachine \/ Release
    BY <1>4 DEF Hold, UnquiesceMachine, Release
<1>5. CASE ReleaseAttention \/ SetResetMachine \/ MachineReset
    BY <1>5 DEF ReleaseAttention, SetResetMachine, MachineReset
<1>6. CASE MachineResetFails \/ SetResetVcpus \/ VcpusReset
    BY <1>6 DEF MachineResetFails, SetResetVcpus, VcpusReset
<1>7. CASE AbandonReset \/ ClearLatch \/ CountReset
    BY <1>7 DEF AbandonReset, ClearLatch, CountReset
<1>8. CASE PrepareSave \/ BeginCapture \/ EndCapture
    BY <1>8 DEF PrepareSave, BeginCapture, EndCapture
<1>9. CASE BackToHold \/ TakeStates \/ WriteSnapshot
    BY <1>9 DEF BackToHold, TakeStates, WriteSnapshot
<1> QED BY <1>1, <1>2, <1>3, <1>4, <1>5, <1>6, <1>7, <1>8, <1>9 DEF
    Begin, RqWork

LEMMA CallStep ==
    ASSUME Places, PerCpu, NotStopping, NotStopping', CallOK, [Next]_vars
    PROVE  CallOK'
<1>1. ASSUME NEW v \in Vcpu, CpuStep(v) PROVE CallOK'
  <2>1. Effect(v)
      BY <1>1, CpuEffect
  <2> QED BY <2>1, SMTT(60) DEF Effect, CallOK
<1>2. CASE Begin \/ RqWork
    BY <1>2, CallRq DEF Places
<1>3. ~Stopper
    BY DEF NotStopping, Stopper, AllEnded, StopRunning, StopPhase, StopAttention,
        StopGate, Joined
<1>4. CASE WindowPasses \/ UNCHANGED vars
    BY <1>4, SMTT(60) DEF CallOK, WindowPasses, SeamUnchanged, vars, requester, stopping
<1> QED BY <1>1, <1>2, <1>3, <1>4 DEF Next

(* ... and the gate. *)
LEMMA GateRq ==
    ASSUME CallOK, GateOK, after \in {"idle", "clear", "count"}, Begin \/ RqWork
    PROVE  GateOK'
<1> USE DEF CallOK, GateOK, RqGoto, RqStep, Return, Refuse, machine
<1>1. CASE BeginPause("pause") \/ BeginPause("save")
    BY <1>1 DEF BeginPause
<1>2. CASE BeginResume \/ BeginReset
    BY <1>2 DEF BeginResume, BeginReset
<1>3. CASE Parked \/ Abandon \/ QuiesceMachine
    BY <1>3 DEF Parked, Abandon, QuiesceMachine
<1>4. CASE Hold \/ UnquiesceMachine \/ Release
    BY <1>4 DEF Hold, UnquiesceMachine, Release
<1>5. CASE ReleaseAttention \/ SetResetMachine \/ MachineReset
    BY <1>5 DEF ReleaseAttention, SetResetMachine, MachineReset
<1>6. CASE MachineResetFails \/ SetResetVcpus \/ VcpusReset
    BY <1>6 DEF MachineResetFails, SetResetVcpus, VcpusReset
<1>7. CASE AbandonReset \/ ClearLatch \/ CountReset
    BY <1>7 DEF AbandonReset, ClearLatch, CountReset
<1>8. CASE PrepareSave \/ BeginCapture \/ EndCapture
    BY <1>8 DEF PrepareSave, BeginCapture, EndCapture
<1>9. CASE BackToHold \/ TakeStates \/ WriteSnapshot
    BY <1>9 DEF BackToHold, TakeStates, WriteSnapshot
<1> QED BY <1>1, <1>2, <1>3, <1>4, <1>5, <1>6, <1>7, <1>8, <1>9 DEF Begin, RqWork

LEMMA GateStep ==
    ASSUME Places, PerCpu, NotStopping, NotStopping', CallOK, GateOK, [Next]_vars
    PROVE  GateOK'
<1>1. ASSUME NEW v \in Vcpu, CpuStep(v) PROVE GateOK'
  <2>1. Effect(v)
      BY <1>1, CpuEffect
  <2> QED BY <2>1 DEF Effect, CallOK, GateOK
<1>2. CASE Begin \/ RqWork
    BY <1>2, GateRq DEF Places
<1>3. ~Stopper
    BY DEF NotStopping, Stopper, AllEnded, StopRunning, StopPhase, StopAttention,
        StopGate, Joined
<1>4. CASE WindowPasses \/ UNCHANGED vars
    BY <1>4 DEF CallOK, GateOK, WindowPasses, SeamUnchanged, vars, machine, requester,
        stopping
<1> QED BY <1>1, <1>2, <1>3, <1>4 DEF Next

(* Nobody leaves a capture. *)
LEMMA CaptureRq ==
    ASSUME ArrivalsOK, BarrierOK, CallOK, CaptureOK, after \in {"idle", "clear", "count"}, Begin \/ RqWork
    PROVE  CaptureOK'
<1> USE DEF ArrivalsOK, BarrierOK, CallOK, CaptureOK, No, RqGoto, RqStep, Return,
        Refuse, CpusUnchanged, AllOf, BarrierMet, barrier, saving, cpu
<1>1. CASE BeginPause("pause")
    BY <1>1 DEF BeginPause
<1>2. CASE BeginPause("save")
    BY <1>2 DEF BeginPause
<1>3. CASE BeginResume
    BY <1>3 DEF BeginResume
<1>4. CASE BeginReset
    BY <1>4 DEF BeginReset
<1>5. CASE Parked \/ Abandon \/ QuiesceMachine
    BY <1>5 DEF Parked, Abandon, QuiesceMachine
<1>6. CASE Hold \/ UnquiesceMachine \/ Release
    BY <1>6 DEF Hold, UnquiesceMachine, Release
<1>7. CASE ReleaseAttention \/ SetResetMachine \/ MachineReset
    BY <1>7 DEF ReleaseAttention, SetResetMachine, MachineReset
<1>8. CASE MachineResetFails \/ SetResetVcpus \/ VcpusReset
    BY <1>8 DEF MachineResetFails, SetResetVcpus, VcpusReset
<1>9. CASE AbandonReset \/ ClearLatch \/ CountReset
    BY <1>9 DEF AbandonReset, ClearLatch, CountReset
<1>10. CASE PrepareSave \/ BeginCapture \/ EndCapture
    BY <1>10 DEF PrepareSave, BeginCapture, EndCapture
<1>11. CASE BackToHold \/ TakeStates \/ WriteSnapshot
    BY <1>11 DEF BackToHold, TakeStates, WriteSnapshot
<1> QED BY <1>1, <1>2, <1>3, <1>4, <1>5, <1>6, <1>7, <1>8, <1>9, <1>10, <1>11 DEF Begin,
    RqWork

LEMMA CaptureStep ==
    ASSUME Places, PerCpu, NotStopping, NotStopping',
           ArrivalsOK, BarrierOK, CallOK, CaptureOK, [Next]_vars
    PROVE  CaptureOK'
<1>1. ASSUME NEW v \in Vcpu, CpuStep(v) PROVE CaptureOK'
  <2>1. Effect(v)
      BY <1>1, CpuEffect
  <2> QED BY <2>1 DEF Effect, ArrivalsOK, BarrierOK, CallOK, CaptureOK
<1>2. CASE Begin \/ RqWork
    BY <1>2, CaptureRq DEF Places
<1>3. ~Stopper
    BY DEF NotStopping, Stopper, AllEnded, StopRunning, StopPhase, StopAttention,
        StopGate, Joined
<1>4. CASE WindowPasses \/ UNCHANGED vars
    BY <1>4 DEF ArrivalsOK, BarrierOK, CallOK, CaptureOK, WindowPasses, SeamUnchanged,
        vars, barrier, saving, cpu, requester, stopping
<1> QED BY <1>1, <1>2, <1>3, <1>4 DEF Next

(* A stop that has begun is not taken back. *)
LEMMA StopsForGood ==
    ASSUME Places, PerCpu, [Next]_vars, NotStopping' PROVE NotStopping
<1>1. ASSUME NEW v \in Vcpu, CpuStep(v) PROVE NotStopping
    BY <1>1, CpuEffect DEF Effect, NotStopping
<1>2. CASE Begin \/ RqWork
    BY <1>2 DEF NotStopping, Begin, RqWork, BeginPause, BeginResume, BeginReset, Parked,
        Abandon, QuiesceMachine, Hold, UnquiesceMachine, Release, ReleaseAttention,
        SetResetMachine, MachineReset, MachineResetFails, SetResetVcpus, VcpusReset,
        AbandonReset, ClearLatch, CountReset, PrepareSave, BeginCapture, EndCapture,
        BackToHold, TakeStates, WriteSnapshot, RqStep, Refuse, CpusUnchanged, stopping
<1>3. CASE Stopper
    BY <1>3 DEF NotStopping, Stopper, AllEnded, StopRunning, StopPhase, StopAttention,
        StopGate, Joined
<1>4. CASE WindowPasses \/ UNCHANGED vars
    BY <1>4 DEF NotStopping, WindowPasses, vars, stopping
<1> QED BY <1>1, <1>2, <1>3, <1>4 DEF Next

(* The invariant is inductive. *)
LEMMA IInvInit == Init => IInv
<1> SUFFICES ASSUME Init PROVE IInv
    OBVIOUS
<1>1. TypeOK
    BY TypeInit
<1>2. ArrivalsOK /\ BarrierOK /\ OwnedOK
    BY DEF Init, No, ArrivalsOK, BarrierOK, OwnedOK, NotStopping, CallOK, GateOK,
        CaptureOK
<1> QED BY <1>1, <1>2 DEF IInv

LEMMA IInvStep == IInv /\ [Next]_vars => IInv'
<1> SUFFICES ASSUME IInv, [Next]_vars PROVE IInv'
    OBVIOUS
<1>1. TypeOK /\ Places /\ PerCpu /\ ArrivalsOK /\ BarrierOK
    BY TypeParts DEF IInv
<1>2. TypeOK'
    BY <1>1, TypeStep
<1>3. ArrivalsOK' /\ BarrierOK'
    BY <1>1, ArrivalsStep, BarrierStep
<1>4. OwnedOK'
  <2> SUFFICES ASSUME NotStopping' PROVE CallOK' /\ GateOK' /\ CaptureOK'
      BY DEF OwnedOK
  <2>1. NotStopping
      BY <1>1, StopsForGood
  <2>2. CallOK /\ GateOK /\ CaptureOK
      BY <2>1 DEF IInv, OwnedOK
  <2> QED BY <1>1, <2>1, <2>2, CallStep, GateStep, CaptureStep
<1> QED BY <1>2, <1>3, <1>4 DEF IInv

LEMMA SeamInvariant == Spec => []IInv
<1> QED BY IInvInit, IInvStep, PTL DEF Spec

(* What the invariant says of a held VM, a machine reset and a snapshot. *)
LEMMA IInvSafe == IInv => ResetMachineExclusive /\ HeldMeansFrozen /\ SnapshotIsFrozen
<1> SUFFICES ASSUME IInv PROVE ResetMachineExclusive /\ HeldMeansFrozen /\ SnapshotIsFrozen
    OBVIOUS
<1>1. ResetMachineExclusive
    BY DEF IInv, ArrivalsOK, BarrierOK, ResetMachineExclusive, Executing
<1>2. HeldMeansFrozen
    BY DEF IInv, ArrivalsOK, BarrierOK, OwnedOK, GateOK, HeldMeansFrozen, Executing
<1>3. SnapshotIsFrozen
    BY DEF IInv, OwnedOK, CallOK, GateOK, CaptureOK, SnapshotIsFrozen
<1> QED BY <1>1, <1>2, <1>3

(* reset_machine() has the machine to itself: whatever timed out before,   *)
(* whoever stops the VM meanwhile and however many vCPUs there are.        *)
THEOREM ResetIsExclusive == Spec => []ResetMachineExclusive
<1> QED BY IInvSafe, SeamInvariant, PTL

(* A VM that is held is frozen: no vCPU runs and no worker is let in.      *)
THEOREM PauseIsFrozen == Spec => []HeldMeansFrozen
<1> QED BY IInvSafe, SeamInvariant, PTL

(* save_machine() of a VM nobody is stopping writes one frozen machine.    *)
THEOREM SnapshotFrozen == Spec => []SnapshotIsFrozen
<1> QED BY IInvSafe, SeamInvariant, PTL
==============================================================================
