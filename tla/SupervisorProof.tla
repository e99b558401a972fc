--------------------------- MODULE SupervisorProof ---------------------------
(***************************************************************************)
(* The supervisor keeps its promises for any number of vCPUs and requests, *)
(* any storm limit and whatever fails: the VmState it shows, the snapshot  *)
(* it stops for, and the reboots it grants.                                *)
(***************************************************************************)
EXTENDS Supervisor, LifecycleCalls

(* The prover of every leaf that names no other. *)
USE ZenonT(60)

(* The supervisor is the only requester, and serves one call at a time. *)
SupOpOK ==
    /\ sup \in {"loop", "serve", "reboot", "exit"} => rq = "idle"
    /\ sup \in {"pause", "resume", "reset", "save"} => op \in {"none", sup}
    /\ sup = "rebooting" => op \in {"none", "reset"}
    /\ sup = "unsave" => op \in {"none", "resume"}

(* A save that succeeded has everybody parked, and so has a VM that is      *)
(* shown as Suspended, which the supervisor has left for good.              *)
SuspendOK ==
    /\ sup = "save" /\ rq = "idle" /\ ok => Everyone
    /\ vmState = "Suspended" => sup = "exit" /\ Everyone
    /\ before # "Suspended"

(* The state shown while nobody stops the VM and the seam is not stopped   *)
(* by a machine reset that failed.  A pause or a reset that VmState refuses *)
(* (from Resetting, after a failed reset of a paused VM) leaves Resetting.  *)
Shown == {"Running", "Paused", "Resetting"}

StateOK == NotStopping /\ phase # "Stop" =>
    /\ sup # "exit" => before \in Shown
    /\ sup \in {"loop", "serve", "reboot"} =>
        /\ vmState \in Shown
        /\ vmState = "Paused" => phase = "HeldPause"
        /\ vmState = "Running" => phase = "Run"
    /\ sup = "pause" =>
        /\ vmState = (IF before = "Resetting" THEN "Resetting" ELSE "Paused")
        /\ before = "Paused" => rq = "idle" /\ ok
        /\ rq = "idle" => phase = (IF ok THEN "HeldPause" ELSE "Run")
    /\ sup = "resume" => vmState = "Running" /\ (rq = "idle" => ok /\ phase = "Run")
    /\ sup \in {"reset", "rebooting"} => vmState = "Resetting" /\ (rq = "idle" => phase = "Run")
    /\ sup \in {"save", "unsave"} => vmState \in {"Suspending", "Resetting"}

(* The reboots asked for and not yet begun. *)
Waiting == (IF guestReset THEN 1 ELSE 0) + (IF sup = "reboot" THEN 1 ELSE 0)

(* Within the window every reboot after the first two was counted by       *)
(* request_guest_reset(); outside it there is at most the one under way.    *)
StormOK ==
    /\ recent => burst + Waiting <= storm + 2 /\ burst + Waiting <= MaxResetStorm + 2
    /\ ~recent /\ burst # 0 => burst = 1 /\ sup = "rebooting" /\ (rq = "idle" => ~ok)

SysInv == OInv /\ SupTypeOK /\ SupOpOK /\ SuspendOK /\ StateOK /\ StormOK

------------------------------------------------------------------------------
(* The seam under the supervisor. *)

(* The seam sees its own steps, and a latch that is taken. *)
LEMMA SeamSees == [SystemNext]_allVars => [Next]_vars \/ TakeGuestReset
<1> SUFFICES ASSUME [SystemNext]_allVars, ~TakeGuestReset PROVE [Next]_vars
    OBVIOUS
<1>1. CASE SeamStep \/ Quiet
    BY <1>1 DEF SeamStep, Quiet, Next, Stopper
<1>2. CASE TakeSave \/ Reboot \/ TakeReset \/ TakePause \/ TakeResume \/ SuspendFailed
    BY <1>2 DEF TakeSave, Reboot, TakeReset, ServeReset, TakePause, TakeResume,
        SuspendFailed, Next, Begin
<1>3. CASE Look \/ Sleep \/ Served \/ Suspended \/ Unsuspended
    BY <1>3 DEF Look, Sleep, SupOnly, Served, Suspended, Unsuspended
<1>4. CASE (\E r \in Ops : Ask(r)) \/ AskShutdown \/ DropSupervisor \/ Teardown \/
        Over \/ UNCHANGED allVars
    BY <1>4 DEF Ask, AskShutdown, DropSupervisor, Teardown, Over, allVars
<1> QED BY <1>1, <1>2, <1>3, <1>4 DEF SystemNext, SupNext

LEMMA TakenLatch == ASSUME OInv, TakeGuestReset PROVE OInv'
<1>1. /\ guestReset' = FALSE /\ stale' = FALSE
      /\ UNCHANGED <<storm, stormedOut, recent, machine, cpu, requester, stopping>>
      /\ SeamUnchanged
    BY DEF TakeGuestReset
<1>2. Flags'
  <2>1. guestReset' \in BOOLEAN /\ stale' \in BOOLEAN
      BY <1>1
  <2> QED BY <1>1, <2>1, TypeParts DEF OInv, IInv, Flags, SeamUnchanged, saving, machine,
      requester, stopping
<1>3. PerCpu' /\ Places'
    BY <1>1, TypeParts DEF OInv, IInv, PerCpu, Places, SeamUnchanged, barrier, saving,
        machine, cpu, requester, stopping
<1>4. TypeOK'
    BY <1>2, <1>3 DEF TypeOK, Flags, PerCpu, Places
<1>5. ArrivalsOK' /\ BarrierOK' /\ SaveOK'
    BY <1>1 DEF OInv, IInv, ArrivalsOK, BarrierOK, SaveOK, SeamUnchanged, barrier, cpu,
        requester
<1>6. OwnedOK'
    BY <1>1, SMTT(60) DEF OInv, IInv, OwnedOK, NotStopping, CallOK, GateOK, CaptureOK,
        SeamUnchanged, barrier, saving, machine, cpu, requester, stopping
<1>7. OpOK' /\ PhaseOK' /\ StaleOK'
    BY <1>1 DEF OInv, OpOK, PhaseOK, CallOK, StaleOK, SeamUnchanged, requester
<1>8. FreshOK'
    BY <1>1 DEF OInv, FreshOK, ResetOf, SeamUnchanged, barrier, cpu, requester
<1> QED BY <1>4, <1>5, <1>6, <1>7, <1>8 DEF OInv, IInv

(* A step of the seam that begins no call. *)
Move ==
    \/ /\ UNCHANGED <<rq, op, ok>> /\ (phase' = phase \/ phase' = "Stop")
       /\ Everyone => Everyone'
    \/ rq # "idle" /\ Outcome

LEMMA SeamMoves == ASSUME OInv, SeamStep \/ Quiet \/ UNCHANGED vars PROVE Move
<1>1. Flags /\ Places /\ PerCpu
    BY TypeParts DEF OInv, IInv
<1>2. ASSUME NEW v \in Vcpu, CpuStep(v) PROVE Move
  <2>1. Effect(v) /\ UNCHANGED requester
      BY <1>1, <1>2, CpuEffect, OthersRq
  <2> QED BY <2>1 DEF Move, Effect, Everyone, requester
<1>3. CASE RqWork
    BY <1>1, <1>3, RqIdle, RqOutcome DEF Move, Places, OInv
<1>4. CASE Stopper
    BY <1>4 DEF Move, Everyone, Stopper, AllEnded, StopRunning, StopPhase, StopAttention,
        StopGate, Joined, StopperOnly, requester, barrier
<1>5. CASE Quiet \/ UNCHANGED vars
    BY <1>5 DEF Move, Everyone, Quiet, WindowPasses, SeamUnchanged, vars, requester,
        barrier
<1> QED BY <1>2, <1>3, <1>4, <1>5 DEF SeamStep, Stopper

(* The steps that are not the supervisor's nor the end. *)
Aside ==
    \/ SeamStep \/ Quiet \/ (\E r \in Ops : Ask(r)) \/ AskShutdown
    \/ DropSupervisor \/ Over \/ UNCHANGED allVars

LEMMA AsideMoves == ASSUME OInv, Aside PROVE Move /\ UNCHANGED <<sup, before, vmState>>
<1>1. SeamStep \/ Quiet \/ UNCHANGED vars
    BY DEF Aside, Ask, AskShutdown, DropSupervisor, Over, allVars
<1>2. UNCHANGED <<sup, before, vmState>>
    BY DEF Aside, SeamStep, Quiet, Ask, AskShutdown, DropSupervisor, Over, allVars,
        supVars
<1> QED BY <1>1, <1>2, SeamMoves

LEMMA SupOpStep ==
    ASSUME SupTypeOK, OInv, SupOpOK, [SystemNext]_allVars PROVE SupOpOK'
<1> USE DEF SupOpOK
<1>1. CASE Aside
    BY <1>1, AsideMoves DEF Move, Outcome
<1>2. CASE TakeSave
    BY <1>2 DEF TakeSave, SupStart, BeginPause, Refuse, Return, RqGoto
<1>3. CASE TakePause
    BY <1>3 DEF TakePause, SupStart, BeginPause, Refuse, Return, RqGoto
<1>4. CASE TakeResume
    BY <1>4 DEF TakeResume, SupStart, BeginResume, Refuse, Return, RqGoto
<1>5. CASE Reboot \/ TakeReset
    BY <1>5 DEF Reboot, TakeReset, ServeReset, BeginReset, Refuse, Return, RqGoto
<1>6. CASE SuspendFailed
    BY <1>6 DEF SuspendFailed, BeginResume, Refuse, Return, RqGoto, vars, requester,
        OInv, OpOK
<1>7. CASE TakeGuestReset
    BY <1>7 DEF TakeGuestReset, requester
<1>8. CASE Look \/ Sleep \/ Served \/ Suspended \/ Unsuspended
    BY <1>8 DEF Look, Sleep, SupOnly, Served, Serving, Suspended, Unsuspended, vars,
        requester
<1>9. CASE Teardown
    BY <1>9 DEF Teardown, vars, requester
<1> QED BY <1>1, <1>2, <1>3, <1>4, <1>5, <1>6, <1>7, <1>8, <1>9 DEF SystemNext, SupNext,
    Aside

(* advance() takes the new state, or keeps the old one. *)
LEMMA AdvanceEither == \A from, to : Advance(from, to) \in {from, to}
BY DEF Advance

(* The snapshot was written with everybody parked, and nobody leaves. *)
LEMMA SuspendStep ==
    ASSUME OInv, SupOpOK, SuspendOK, [SystemNext]_allVars PROVE SuspendOK'
<1> USE DEF SuspendOK
<1>1. CASE Aside
    BY <1>1, AsideMoves, SMTT(60) DEF Move, Outcome, SupOpOK, OInv, OpOK
<1>2. CASE TakeSave
  <2>1. vmState' # "Suspended"
      BY <1>2, AdvanceEither, SMTT(60) DEF TakeSave, SupStart
  <2> QED BY <1>2, <2>1 DEF TakeSave, SupStart, BeginPause, Refuse, Return, RqGoto
<1>3. CASE TakePause
    BY <1>3, AdvanceEither, SMTT(60) DEF TakePause, SupStart
<1>4. CASE TakeResume
    BY <1>4, AdvanceEither, SMTT(60) DEF TakeResume, SupStart
<1>5. CASE Reboot \/ TakeReset
    BY <1>5, AdvanceEither, SMTT(60) DEF Reboot, TakeReset, ServeReset
<1>6. CASE SuspendFailed \/ TakeGuestReset
    BY <1>6 DEF SuspendFailed, TakeGuestReset
<1>7. CASE Served
    BY <1>7, AdvanceEither, SMTT(60) DEF Served, Serving
<1>8. CASE Suspended
    BY <1>8 DEF Suspended, Everyone, vars, barrier
<1>9. CASE Unsuspended
  <2>1. vmState' # "Suspended"
      BY <1>9, AdvanceEither, SMTT(60) DEF Unsuspended
  <2> QED BY <1>9, <2>1 DEF Unsuspended
<1>10. CASE Look \/ Sleep
    BY <1>10 DEF Look, Sleep, SupOnly, Everyone, vars, barrier
<1>11. CASE Teardown
    BY <1>11 DEF Teardown, Everyone, vars, requester, barrier
<1> QED BY <1>1, <1>2, <1>3, <1>4, <1>5, <1>6, <1>7, <1>8, <1>9, <1>10,
    <1>11 DEF SystemNext, SupNext, Aside

(* The transitions the supervisor asks for between requests. *)
LEMMA AdvanceTo ==
    /\ Advance("Running", "Paused") = "Paused" /\ Advance("Paused", "Paused") = "Paused"
    /\ Advance("Suspending", "Paused") = "Paused"
    /\ Advance("Resetting", "Paused") = "Resetting"
    /\ Advance("Paused", "Running") = "Running" /\ Advance("Resetting", "Running") = "Running"
    /\ Advance("Running", "Resetting") = "Resetting"
    /\ Advance("Paused", "Resetting") = "Resetting"
    /\ Advance("Running", "Suspending") = "Suspending"
    /\ Advance("Paused", "Suspending") = "Suspending"
    /\ Advance("Resetting", "Suspending") = "Resetting"
BY DEF Advance, Legal

LEMMA StateAside ==
    ASSUME OInv, SupOpOK, StateOK, Aside, NotStopping, NotStopping', phase' # "Stop"
    PROVE  StateOK'
<1>1. Move /\ UNCHANGED <<sup, before, vmState>>
    BY AsideMoves
<1>2. phase # "Stop"
    BY <1>1 DEF Move, OInv, IInv, OwnedOK, CallOK
<1>3. CASE UNCHANGED <<rq, op, ok>> /\ (phase' = phase \/ phase' = "Stop")
    BY <1>1, <1>2, <1>3 DEF StateOK
<1>4. CASE rq # "idle" /\ Outcome
  <2>1. sup \notin {"loop", "serve", "reboot", "exit"}
      BY <1>4 DEF SupOpOK
  <2>2. op # "none"
      BY <1>4 DEF OInv, OpOK
  <2> QED BY <1>1, <1>2, <1>4, <2>1, <2>2 DEF StateOK, SupOpOK, Outcome
<1> QED BY <1>1, <1>3, <1>4 DEF Move

LEMMA StateStep ==
    ASSUME OInv, SupOpOK, StateOK, [SystemNext]_allVars, [Next]_vars \/ TakeGuestReset
    PROVE  StateOK'
<1> SUFFICES ASSUME NotStopping', phase' # "Stop" PROVE StateOK'
    BY DEF StateOK
<1>1. NotStopping
  <2>1. CASE [Next]_vars
      BY <2>1, StopsForGood, TypeParts DEF OInv, IInv
  <2>2. CASE TakeGuestReset
      BY <2>2 DEF TakeGuestReset, stopping, NotStopping
  <2> QED BY <2>1, <2>2
<1>2. CASE Aside
    BY <1>1, <1>2, StateAside
<1>3. CallOK
    BY <1>1 DEF OInv, IInv, OwnedOK
<1>4. CASE TakeSave
  <2>1. phase # "Stop"
      BY <1>4 DEF TakeSave, BeginPause, Refuse
  <2> QED BY <1>1, <1>4, <2>1, AdvanceTo DEF StateOK, Shown, TakeSave, SupStart
<1>5. CASE TakePause
  <2>1. phase \in {"Run", "HeldPause"}
      BY <1>3, <1>5 DEF TakePause, BeginPause, Refuse, CallOK
  <2>2. /\ vmState' = (IF before' = "Resetting" THEN "Resetting" ELSE "Paused")
        /\ before' \in Shown /\ before' = vmState /\ sup' = "pause"
        /\ vmState = "Paused" => phase = "HeldPause"
      BY <1>1, <1>5, <2>1, AdvanceTo DEF StateOK, Shown, TakePause, SupStart
  <2>3. /\ phase = "HeldPause" => rq' = "idle" /\ ok' = TRUE /\ phase' = "HeldPause"
        /\ phase = "Run" => rq' = "park"
      BY <1>5 DEF TakePause, BeginPause, Refuse, Return, RqGoto
  <2> QED BY <2>1, <2>2, <2>3 DEF StateOK, Shown
<1>6. CASE TakeResume
  <2>1. phase \in {"Run", "HeldPause"}
      BY <1>3, <1>6 DEF TakeResume, BeginResume, Refuse, CallOK
  <2>2. vmState' = "Running" /\ before' \in Shown /\ sup' = "resume"
      BY <1>1, <1>6, <2>1, AdvanceTo, AdvanceEither, SMTT(60) DEF StateOK, Shown,
          TakeResume, SupStart
  <2>3. /\ phase = "Run" => ok' = TRUE /\ phase' = "Run"
        /\ phase = "HeldPause" => rq' = "unquiesce"
      BY <1>6 DEF TakeResume, BeginResume, Refuse, Return, RqGoto
  <2> QED BY <2>1, <2>2, <2>3 DEF StateOK, Shown
<1>7. CASE Reboot \/ TakeReset
  <2>1. phase \in {"Run", "HeldPause"} /\ rq' = "park"
      BY <1>3, <1>7 DEF Reboot, TakeReset, ServeReset, BeginReset, Refuse, CallOK, RqGoto
  <2>2. vmState' = "Resetting" /\ before' \in Shown /\ sup' \in {"reset", "rebooting"}
      BY <1>1, <1>7, <2>1, AdvanceTo, AdvanceEither, SMTT(60) DEF StateOK, Shown, Reboot,
          TakeReset, ServeReset
  <2> QED BY <2>1, <2>2 DEF StateOK, Shown
<1>8. CASE TakeGuestReset
    BY <1>1, <1>8 DEF StateOK, TakeGuestReset, SeamUnchanged
<1>9. CASE Served
  <2>1. /\ rq = "idle" /\ phase' = phase /\ phase # "Stop" /\ before' = before
        /\ sup \in Serving /\ sup' = "loop"
      BY <1>9 DEF Served, vars
  <2>2. CASE sup = "pause"
      BY <1>1, <1>9, <2>1, <2>2, AdvanceTo, AdvanceEither, SMTT(60) DEF StateOK, Shown,
          Served, Serving
  <2>3. CASE sup = "resume"
      BY <1>1, <1>9, <2>1, <2>3, AdvanceTo, AdvanceEither DEF StateOK, Shown, Served,
          Serving
  <2>4. CASE sup \in {"reset", "rebooting"}
      BY <1>1, <1>9, <2>1, <2>4, AdvanceTo, AdvanceEither, SMTT(60) DEF StateOK, Shown,
          Served, Serving
  <2> QED BY <2>1, <2>2, <2>3, <2>4 DEF Serving
<1>10. CASE Suspended
    BY <1>10 DEF StateOK, Suspended
<1>11. CASE SuspendFailed
  <2>1. phase # "Stop"
      BY <1>11 DEF SuspendFailed, BeginResume, Refuse, vars
  <2> QED BY <1>1, <1>11, <2>1 DEF StateOK, SuspendFailed
<1>12. CASE Unsuspended
  <2>1. /\ phase \in {"Run", "HeldPause"} /\ phase' = phase /\ before' = before
        /\ sup = "unsave" /\ sup' = "loop"
      BY <1>3, <1>12 DEF Unsuspended, vars, CallOK
  <2>2. vmState \in {"Suspending", "Resetting"}
      BY <1>1, <2>1 DEF StateOK
  <2>3. CASE phase = "Run"
      BY <1>1, <1>12, <2>1, <2>2, <2>3, AdvanceTo DEF StateOK, Shown, Unsuspended
  <2>4. CASE phase = "HeldPause"
      BY <1>1, <1>12, <2>1, <2>2, <2>4, AdvanceTo DEF StateOK, Shown, Unsuspended
  <2> QED BY <2>1, <2>3, <2>4
<1>13. CASE Look \/ Sleep
    BY <1>1, <1>13 DEF StateOK, Look, Sleep, SupOnly, vars
<1>14. CASE Teardown
    BY <1>14 DEF StateOK, Teardown
<1> QED BY <1>2, <1>4, <1>5, <1>6, <1>7, <1>8, <1>9, <1>10, <1>11, <1>12, <1>13,
    <1>14 DEF SystemNext, SupNext, Aside

(* Every reboot granted within the window was counted. *)
LEMMA StormStep ==
    ASSUME SupTypeOK, OInv, SupOpOK, StormOK, [SystemNext]_allVars PROVE StormOK'
<1>1. /\ burst \in Nat /\ storm \in Nat /\ MaxResetStorm \in Nat /\ Flags
      /\ sup \in {"loop", "serve", "reboot", "pause", "resume", "reset", "rebooting",
                  "save", "unsave", "exit"}
      /\ op \in Operations \cup {"none"}
    BY LifecycleAssumption, TypeParts DEF SupTypeOK, Places
<1>2. CASE SeamStep
  <2>1. UNCHANGED <<sup, burst>>
      BY <1>2 DEF SeamStep
  <2>2. ASSUME NEW v \in Vcpu, CpuStep(v) PROVE StormOK'
    <3>1. StormEffect /\ UNCHANGED requester
        BY <1>1, <2>2, CpuStorm, OthersRq
    <3> QED BY <1>1, <2>1, <3>1, SMTT(60) DEF StormEffect, StormOK, Waiting, requester
  <2>3. CASE RqWork
    <3>1. Outcome /\ rq # "idle" /\ op # "none"
        BY <1>1, <2>3, RqOutcome, RqIdle, TypeParts DEF OInv, IInv, Places, OpOK
    <3>2. /\ sup \notin {"loop", "serve", "reboot", "exit"}
          /\ op = "reset" => sup \in {"reset", "rebooting"}
          /\ sup = "rebooting" => op = "reset"
        BY <1>1, <3>1 DEF SupOpOK
    <3>3. /\ recent => recent'
          /\ guestReset' => guestReset
          /\ storm' = storm
          /\ op = "reset" /\ rq' = "idle" /\ ok' => recent'
          /\ recent' /\ ~recent => op = "reset"
        BY <3>1 DEF Outcome
    <3>4. CASE recent
        BY <1>1, <2>1, <3>2, <3>3, <3>4, SMTT(60) DEF StormOK, Waiting
    <3>5. CASE ~recent
      <4>1. burst \in {0, 1} /\ (burst = 1 => sup = "rebooting")
          BY <1>1, <3>5, SMTT(60) DEF StormOK
      <4> QED BY <1>1, <2>1, <3>2, <3>3, <3>5, <4>1, SMTT(60) DEF StormOK, Waiting
    <3> QED BY <3>4, <3>5
  <2>4. CASE Stopper
    <3>1. StopperOnly
        BY <2>4 DEF Stopper, AllEnded, StopRunning, StopPhase, StopAttention, StopGate,
            Joined
    <3>2. UNCHANGED <<storm, recent, guestReset, rq, ok>>
        BY <3>1 DEF StopperOnly, request, requester
    <3> QED BY <2>1, <3>2 DEF StormOK, Waiting
  <2> QED BY <1>2, <2>2, <2>3, <2>4 DEF SeamStep, Stopper
<1>3. CASE Quiet
  <2>1. burst' = 0 /\ ~recent'
      BY <1>3 DEF Quiet, WindowPasses
  <2> QED BY <2>1 DEF StormOK
<1>4. CASE Reboot
  <2>1. /\ burst' = burst + 1 /\ sup = "reboot" /\ sup' = "rebooting"
        /\ UNCHANGED <<storm, recent>>
        /\ guestReset' => guestReset
        /\ rq' = "idle" => ~ok'
      BY <1>4 DEF Reboot, ServeReset, BeginReset, Refuse, Return, RqGoto, request
  <2>2. CASE recent
      BY <1>1, <2>1, <2>2, SMTT(60) DEF StormOK, Waiting
  <2>3. CASE ~recent
      BY <1>1, <2>1, <2>3, SMTT(60) DEF StormOK
  <2> QED BY <2>2, <2>3
<1>5. CASE Served
  <2>1. /\ sup' # "reboot" /\ sup # "reboot" /\ UNCHANGED <<storm, recent, guestReset>>
        /\ rq = "idle"
        /\ burst' = IF sup = "rebooting" /\ ~ok /\ burst > 0 THEN burst - 1 ELSE burst
      BY <1>5 DEF Served, Serving, vars, request
  <2> QED BY <1>1, <2>1, SMTT(60) DEF StormOK, Waiting
<1>6. CASE TakeGuestReset
  <2>1. /\ burst' = burst /\ sup = "serve" /\ sup' = "reboot" /\ UNCHANGED <<storm, recent>>
        /\ guestReset /\ ~guestReset'
      BY <1>6 DEF TakeGuestReset
  <2> QED BY <1>1, <2>1, SMTT(60) DEF StormOK, Waiting
<1>7. CASE TakeReset \/ TakeSave \/ TakePause \/ TakeResume \/ SuspendFailed
  <2>1. /\ burst' = burst /\ sup \notin {"reboot", "rebooting"} /\ sup' # "reboot"
        /\ UNCHANGED <<storm, recent>>
        /\ guestReset' => guestReset
      BY <1>7 DEF TakeReset, ServeReset, BeginReset, TakeSave, TakePause, SupStart,
          BeginPause, TakeResume, BeginResume, SuspendFailed, Refuse, request, vars
  <2> QED BY <1>1, <2>1, SMTT(60) DEF StormOK, Waiting
<1>8. CASE Look \/ Sleep \/ Suspended \/ Unsuspended
  <2>1. /\ burst' = burst /\ sup \notin {"reboot", "rebooting"} /\ sup' # "reboot"
        /\ UNCHANGED <<storm, recent, guestReset>>
      BY <1>8 DEF Look, Sleep, SupOnly, Suspended, Unsuspended, request, vars
  <2> QED BY <1>1, <2>1 DEF StormOK, Waiting
<1>9. CASE (\E r \in Ops : Ask(r)) \/ AskShutdown \/ DropSupervisor \/ Teardown \/
        Over \/ UNCHANGED allVars
  <2>1. UNCHANGED <<burst, sup, storm, recent, guestReset, rq, ok>>
      BY <1>9 DEF Ask, AskShutdown, DropSupervisor, Teardown, Over, allVars, supVars,
          vars, request, requester
  <2> QED BY <2>1 DEF StormOK, Waiting
<1> QED BY <1>2, <1>3, <1>4, <1>5, <1>6, <1>7, <1>8, <1>9 DEF SystemNext, SupNext

(* The supervisor's own variables. *)
LEMMA SupTypeStep ==
    ASSUME SupTypeOK, TypeOK', [SystemNext]_allVars PROVE SupTypeOK'
<1>1. /\ burst' \in {0, burst, burst + 1} \/ (burst > 0 /\ burst' = burst - 1)
      /\ asked' = asked \/ (asked < MaxRequests /\ asked' = asked + 1)
      /\ before' \in {before, vmState}
      /\ shutdown' = shutdown \/ shutdown' = TRUE
      /\ \/ wasPaused' = wasPaused
         \/ wasPaused' = (phase \in {"ParkPause", "HeldPause", "SaveVcpus"})
      /\ req' \subseteq Operations
      /\ sup' \in {"loop", "serve", "reboot", "pause", "resume", "reset", "rebooting",
                  "save", "unsave", "exit"}
      /\ main' \in {"run", "joining", "stopped", "failed"}
  <2> USE DEF SystemNext, SupNext, Look, Sleep, SupOnly, TakeSave, TakeGuestReset, Reboot,
          TakeReset, ServeReset, TakePause, TakeResume, SupStart, Served, Suspended,
          SuspendFailed, Unsuspended, Ask, AskShutdown, SeamStep, Quiet, DropSupervisor,
          Teardown, Over, allVars, supVars
  <2>1. burst' \in {0, burst, burst + 1} \/ (burst > 0 /\ burst' = burst - 1)
      OBVIOUS
  <2>2. asked' = asked \/ (asked < MaxRequests /\ asked' = asked + 1)
      OBVIOUS
  <2>3. before' \in {before, vmState} /\ (shutdown' = shutdown \/ shutdown' = TRUE)
      OBVIOUS
  <2>4. \/ wasPaused' = wasPaused
        \/ wasPaused' = (phase \in {"ParkPause", "HeldPause", "SaveVcpus"})
      OBVIOUS
  <2>5. req' \subseteq Operations
      BY LifecycleAssumption DEF SupTypeOK
  <2>6. /\ sup' \in {"loop", "serve", "reboot", "pause", "resume", "reset", "rebooting",
                    "save", "unsave", "exit"}
        /\ main' \in {"run", "joining", "stopped", "failed"}
      BY DEF SupTypeOK
  <2> QED BY ONLY <2>1, <2>2, <2>3, <2>4, <2>5, <2>6, ZenonT(60)
<1>2. vmState' \in {vmState, before} \cup VmState
  <2>1. CASE Unsuspended
    <3>1. \A x : Advance(Advance(vmState, "Paused"), x) \in {vmState, "Paused", x}
        BY AdvanceEither
    <3>2. vmState' \in {vmState, "Paused", "Running", "Stopping"}
        BY <2>1, <3>1, AdvanceEither DEF Unsuspended
    <3> QED BY <3>2 DEF VmState
  <2>2. CASE SupNext /\ ~Unsuspended
      BY <2>2, AdvanceEither DEF VmState, SupNext, Look, Sleep, SupOnly, TakeSave,
          TakeGuestReset, Reboot, TakeReset, ServeReset, TakePause, TakeResume, SupStart,
          Served, Suspended, SuspendFailed
  <2>3. CASE ~SupNext
      BY <2>3 DEF VmState, SystemNext, Ask, AskShutdown, SeamStep, Quiet, DropSupervisor,
          Teardown, Over, allVars, supVars
  <2> QED BY <2>1, <2>2, <2>3
<1>3. burst' \in Nat /\ asked' \in 0..MaxRequests
    BY <1>1, SupervisorAssumption, SMTT(60) DEF SupTypeOK
<1>4. (phase \in {"ParkPause", "HeldPause", "SaveVcpus"}) \in BOOLEAN
    BY SMTT(60)
<1>5. shutdown' \in BOOLEAN /\ wasPaused' \in BOOLEAN
    BY <1>1, <1>4 DEF SupTypeOK
<1> QED BY <1>1, <1>2, <1>3, <1>5 DEF SupTypeOK

LEMMA SysInvInit == SupInit => SysInv
<1> SUFFICES ASSUME SupInit PROVE SysInv
    OBVIOUS
<1>1. OInv /\ TypeOK
    BY OInvInit DEF SupInit, OInv, IInv
<1>2. shutdown \in BOOLEAN /\ wasPaused \in BOOLEAN
    BY DEF SupInit
<1>3. SupTypeOK
    BY <1>1, <1>2, SupervisorAssumption, SMTT(60) DEF SupInit, SupTypeOK, VmState
<1>4. SupOpOK /\ SuspendOK /\ StateOK
    BY DEF SupInit, Init, SupOpOK, SuspendOK, StateOK, Shown
<1>5. StormOK
    BY DEF SupInit, Init, StormOK
<1> QED BY <1>1, <1>3, <1>4, <1>5 DEF SysInv

LEMMA SysInvStep == SysInv /\ [SystemNext]_allVars => SysInv'
<1> SUFFICES ASSUME SysInv, [SystemNext]_allVars PROVE SysInv'
    OBVIOUS
<1>1. OInv /\ SupTypeOK /\ SupOpOK /\ SuspendOK /\ StateOK /\ StormOK
    BY DEF SysInv
<1>2. OInv' /\ TypeOK'
    BY <1>1, SeamSees, OInvStep, TakenLatch DEF OInv, IInv
<1>3. SupTypeOK' /\ SupOpOK' /\ SuspendOK'
    BY <1>1, <1>2, SupTypeStep, SupOpStep, SuspendStep
<1>4. StateOK' /\ StormOK'
    BY <1>1, SeamSees, StateStep, StormStep
<1> QED BY <1>2, <1>3, <1>4 DEF SysInv

LEMMA SystemInvariant == System => []SysInv
<1> QED BY SysInvInit, SysInvStep, PTL DEF System

(* The types of the requests, the supervisor and the VmState it shows: a    *)
(* request is one of the four, and a transition that advance() refuses      *)
(* leaves a state that VmState has.                                         *)
THEOREM SupervisorType == System => []SupTypeOK
<1>1. SysInv => SupTypeOK
    BY DEF SysInv
<1> QED BY <1>1, SystemInvariant, PTL

(* serve() keeps VmState honest: between requests of a VM nobody stops,     *)
(* Paused is held and gated and Running runs, however pauses, resets and    *)
(* saves were refused, timed out, failed or coalesced before.               *)
THEOREM StateIsHonest == System => []HonestState
<1>1. SysInv => HonestState
    BY DEF SysInv, OInv, IInv, OwnedOK, GateOK, StateOK, SupOpOK, HonestState
<1> QED BY <1>1, SystemInvariant, PTL

(* After suspend() has written the snapshot no vCPU of this process enters  *)
(* the guest again, although shutdown() releases the vCPUs and opens the    *)
(* gate.                                                                    *)
THEOREM FileIsTheVm == System => []SuspendedNeverRuns
<1>1. SysInv => SuspendedNeverRuns
    BY DEF SysInv, OInv, IInv, ArrivalsOK, SuspendOK, Everyone, SuspendedNeverRuns,
        Executing
<1> QED BY <1>1, SystemInvariant, PTL

(* MAX_RESET_STORM bounds the guest's reboots within a window for every     *)
(* limit: the counter of request_guest_reset(), the latch, the one the      *)
(* supervisor has taken and the one under way never add up to more.         *)
THEOREM StormIsBounded == System => []StormBounded
<1>1. SysInv => StormBounded
    BY LifecycleAssumption, SMTT(60) DEF SysInv, SupTypeOK, TypeOK, StormOK, Waiting,
        StormBounded
<1> QED BY <1>1, SystemInvariant, PTL

(* What holds of the seam holds of it under the supervisor, which also      *)
(* takes the guest's latch outside any call (take_guest_reset).             *)
THEOREM SeamInSystem ==
    System => [](/\ ResetMachineExclusive /\ HeldMeansFrozen /\ SnapshotIsFrozen
                 /\ RunsFresh /\ NoSpuriousReboot)
<1>1. OInv => ResetMachineExclusive /\ HeldMeansFrozen /\ SnapshotIsFrozen
    BY IInvSafe DEF OInv
<1>2. OInv => RunsFresh /\ NoSpuriousReboot
    BY OInvSafe
<1>3. SysInv => OInv
    BY DEF SysInv
<1> QED BY <1>1, <1>2, <1>3, SystemInvariant, PTL
==============================================================================
