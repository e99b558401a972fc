----------------------------- MODULE Supervisor -----------------------------
(***************************************************************************)
(* `entangled run` around the lifecycle seam (apps/entangled/src/          *)
(* run_vm.rs): the requests the window and the control channel leave, the  *)
(* supervisor thread that serves them and is the only requester of         *)
(* Lifecycle, the VmState it keeps (crates/vmm-core/src/state.rs), the     *)
(* process-wide SHUTDOWN_REQUESTED flag and the teardown that follows the  *)
(* end of the vCPU threads.                                                *)
(*                                                                         *)
(* The supervisor's requests are Lifecycle's Begin actions and its waits   *)
(* are their return; every other step of Lifecycle happens as it does      *)
(* there, except that the stopper needs a reason to stop.                  *)
(***************************************************************************)
EXTENDS Lifecycle

CONSTANT MaxRequests   \* bound: how often the user or the guest asks for something

ASSUME SupervisorAssumption == MaxRequests \in Nat

VARIABLES
    req,        \* LifecycleRequests: the requests left and not yet taken
    asked,      \* how often anybody asked so far
    shutdown,   \* SHUTDOWN_REQUESTED
    sup,        \* the supervisor thread
    wasPaused,  \* suspend()'s memory of the state it found
    before,     \* serve()'s memory of the VmState it found
    vmState,
    main,       \* the thread that runs, stops and tears down the VM
    burst       \* history: the guest's reboots since the storm window last passed

supVars == <<req, asked, shutdown, sup, wasPaused, before, vmState, main, burst>>
allVars == <<vars, supVars>>

VmState == {"Running", "Paused", "Suspending", "Suspended", "Resetting",
            "Stopping", "Stopped", "Crashed"}

SupTypeOK ==
    /\ TypeOK
    /\ req \subseteq Operations
    /\ asked \in 0..MaxRequests
    /\ shutdown \in BOOLEAN
    /\ sup \in {"loop", "serve", "reboot", "pause", "resume", "reset", "rebooting",
               "save", "unsave", "exit"}
    /\ wasPaused \in BOOLEAN
    /\ {before, vmState} \subseteq VmState
    /\ main \in {"run", "joining", "stopped", "failed"}
    /\ burst \in Nat

SupInit ==
    /\ Init
    /\ req = {} /\ asked = 0 /\ shutdown = FALSE
    /\ sup = "loop" /\ wasPaused = FALSE
    /\ before = "Running" /\ vmState = "Running"
    /\ main = "run" /\ burst = 0

------------------------------------------------------------------------------
(* VmState::transition, and advance(), which refuses what it forbids. *)
Legal(from, to) ==
    \/ to = "Crashed"
    \/ <<from, to>> \in
        {"Running"} \X {"Stopping", "Paused", "Suspending", "Resetting"}
        \cup {"Paused"} \X {"Running", "Stopping", "Suspending", "Resetting"}
        \cup {"Suspending"} \X {"Suspended", "Paused"}
        \cup {"Resetting"} \X {"Running", "Stopping"}
        \cup {<<"Suspended", "Stopping">>, <<"Stopping", "Stopped">>}

Advance(from, to) == IF Legal(from, to) THEN to ELSE from

------------------------------------------------------------------------------
(* The window's keys and the control channel leave requests. *)
Ask(r) ==
    /\ asked < MaxRequests
    /\ asked' = asked + 1
    /\ req' = req \cup {r}
    /\ UNCHANGED <<vars, shutdown, sup, wasPaused, before, vmState, main, burst>>

(* Window closed, SIGINT. *)
AskShutdown ==
    /\ ~shutdown /\ shutdown' = TRUE
    /\ UNCHANGED <<vars, req, asked, sup, wasPaused, before, vmState, main, burst>>

------------------------------------------------------------------------------
(* The supervisor's loop: look at the flags that end it, then serve a save, *)
(* a reset, or a pause or resume, in this order.                            *)

SupOnly == UNCHANGED <<vars, req, asked, shutdown, wasPaused, before, vmState, main, burst>>

(* Mistake: a paused VM is not looked at. *)
LookUnlessPaused ==
    /\ sup = "loop"
    /\ sup' = IF (shutdown \/ main = "joining") /\ vmState # "Paused" THEN "exit" ELSE "serve"
    /\ SupOnly

Look ==
    /\ sup = "loop"
    /\ sup' = IF shutdown \/ main = "joining" THEN "exit" ELSE "serve"
    /\ SupOnly

Sleep ==
    /\ sup = "serve" /\ req = {} /\ ~guestReset
    /\ sup' = "loop"
    /\ SupOnly

SupStart(to) == sup = "serve" /\ sup' = to /\ UNCHANGED <<asked, shutdown, main, burst>>

(* suspend() *)
TakeSave ==
    /\ SupStart("save") /\ "save" \in req
    /\ req' = req \ {"save"}
    /\ wasPaused' = (phase \in {"ParkPause", "HeldPause", "SaveVcpus"})
    /\ vmState' = Advance(vmState, "Suspending")
    /\ BeginPause("save")
    /\ UNCHANGED before

(* take_guest_reset() consumes the latch, whatever becomes of the reset. *)
TakeGuestReset ==
    /\ sup = "serve" /\ "save" \notin req /\ guestReset
    /\ sup' = "reboot"
    /\ guestReset' = FALSE /\ stale' = FALSE
    /\ UNCHANGED <<storm, stormedOut, recent, machine, cpu, requester, stopping>>
    /\ SeamUnchanged
    /\ UNCHANGED <<req, asked, shutdown, wasPaused, before, vmState, main, burst>>

(* serve(Resetting, reset, Running), for the guest or for the user. *)
ServeReset(to) ==
    /\ sup' = to
    /\ before' = vmState
    /\ vmState' = Advance(vmState, "Resetting")
    /\ BeginReset
    /\ UNCHANGED <<asked, shutdown, wasPaused, main>>

Reboot ==
    /\ sup = "reboot" /\ ServeReset("rebooting")
    /\ burst' = burst + 1
    /\ UNCHANGED req

TakeReset ==
    /\ sup = "serve" /\ "save" \notin req /\ ~guestReset /\ "reset" \in req
    /\ req' = req \ {"reset"}
    /\ ServeReset("reset")
    /\ UNCHANGED burst

(* Both flags are taken; a pause wins over a resume. *)
TakePause ==
    /\ SupStart("pause") /\ req \cap {"save", "reset"} = {} /\ ~guestReset
    /\ "pause" \in req
    /\ req' = {}
    /\ before' = vmState
    /\ vmState' = Advance(vmState, "Paused")
    /\ BeginPause("pause")
    /\ UNCHANGED wasPaused

TakeResume ==
    /\ SupStart("resume") /\ req = {"resume"} /\ ~guestReset
    /\ req' = {}
    /\ before' = vmState
    /\ vmState' = Advance(vmState, "Running")
    /\ BeginResume
    /\ UNCHANGED wasPaused

Serving == {"pause", "resume", "reset", "rebooting"}

(* Mistake: a failed operation leaves the state it announced. *)
ServedBlind ==
    /\ sup \in Serving /\ rq = "idle"
    /\ vmState' = IF sup \in {"reset", "rebooting"} THEN Advance(vmState, "Running")
                  ELSE vmState
    /\ sup' = "loop"
    /\ UNCHANGED <<vars, req, asked, shutdown, wasPaused, before, main, burst>>

(* serve(): the operation returned. *)
Served ==
    /\ sup \in Serving /\ rq = "idle"
    /\ vmState' = IF ~ok THEN Advance(vmState, before)
                  ELSE IF sup \in {"reset", "rebooting"} THEN Advance(vmState, "Running")
                  ELSE vmState
    /\ sup' = "loop"
    /\ burst' = IF sup = "rebooting" /\ ~ok /\ burst > 0 THEN burst - 1 ELSE burst
    /\ UNCHANGED <<vars, req, asked, shutdown, wasPaused, before, main>>

(* suspend(): saved; the VM stops. *)
Suspended ==
    /\ sup = "save" /\ rq = "idle" /\ ok
    /\ vmState' = Advance(vmState, "Suspended")
    /\ shutdown' = TRUE
    /\ sup' = "exit"
    /\ UNCHANGED <<vars, req, asked, wasPaused, before, main, burst>>

(* suspend(): it failed; a VM that was not paused is resumed first. *)
SuspendFailed ==
    /\ sup = "save" /\ rq = "idle" /\ ~ok
    /\ sup' = "unsave"
    /\ IF wasPaused THEN UNCHANGED vars ELSE BeginResume
    /\ UNCHANGED <<req, asked, shutdown, wasPaused, before, vmState, main, burst>>

Unsuspended ==
    /\ sup = "unsave" /\ rq = "idle"
    /\ LET paused == Advance(vmState, "Paused")
       IN  vmState' = CASE phase = "Run"  -> Advance(paused, "Running")
                        [] phase = "Stop" -> Advance(paused, "Stopping")
                        [] OTHER          -> paused
    /\ sup' = "loop"
    /\ UNCHANGED <<vars, req, asked, shutdown, wasPaused, before, main, burst>>

SupNext ==
    \/ Look \/ Sleep
    \/ TakeSave \/ TakeGuestReset \/ Reboot \/ TakeReset \/ TakePause \/ TakeResume
    \/ Served \/ Suspended \/ SuspendFailed \/ Unsuspended

------------------------------------------------------------------------------
(* The rest of Lifecycle.  join_or_stop() stops the VM when it is asked to *)
(* (should_stop) or when some vCPU ended.                                  *)

ShouldStop == shutdown \/ powerLatch \/ \E v \in Vcpu : pc[v] = "done"

(* The guest writes a reset register, or triple-faults. *)
GuestAsks ==
    (resetLatch' /\ ~resetLatch) \/ (\E v \in Vcpu : faulted'[v] /\ ~faulted[v])

SeamStep ==
    /\ \/ \E v \in Vcpu : CpuStep(v)
       \/ RqWork
       \/ AllEnded \/ StopPhase \/ StopAttention \/ StopGate \/ Joined
       \/ ShouldStop /\ StopRunning
    /\ IF GuestAsks THEN asked < MaxRequests /\ asked' = asked + 1 ELSE UNCHANGED asked
    /\ UNCHANGED <<req, shutdown, sup, wasPaused, before, vmState, main, burst>>

(* The storm window passes: whatever resets next is not part of a burst. *)
Quiet ==
    /\ WindowPasses
    /\ burst' = 0
    /\ UNCHANGED <<req, asked, shutdown, sup, wasPaused, before, vmState, main>>

(* Teardown: drop(supervisor) joins it, then Stopping and the end. *)
DropSupervisor ==
    /\ main = "run" /\ stopper = "over"
    /\ main' = "joining"
    /\ shutdown' \in {shutdown, TRUE}   \* a VM with a window also sets the flag
    /\ UNCHANGED <<vars, req, asked, sup, wasPaused, before, vmState, burst>>

Teardown ==
    /\ main = "joining" /\ sup = "exit"
    /\ IF Legal(vmState, "Stopping")
       THEN main' = "stopped" /\ vmState' \in {"Stopped", "Crashed"}
       ELSE main' = "failed" /\ UNCHANGED vmState
    /\ UNCHANGED <<vars, req, asked, shutdown, sup, wasPaused, before, burst>>

Over == main \in {"stopped", "failed"} /\ UNCHANGED allVars

SystemNext ==
    \/ \E r \in Ops : Ask(r)
    \/ AskShutdown
    \/ SupNext
    \/ SeamStep
    \/ Quiet
    \/ DropSupervisor \/ Teardown \/ Over

System == SupInit /\ [][SystemNext]_allVars

(* As in Lifecycle: the requester runs; and the vCPU threads, the stopper, *)
(* the supervisor and main do, which a wedged host thread would not.       *)
WedgedSystem == System /\ WF_allVars(RqWork /\ UNCHANGED supVars)

ThreadsRun ==
    /\ \A v \in Vcpu :
        /\ WF_allVars(OutsideGuest(v) /\ UNCHANGED supVars)
        /\ WF_allVars(Kicking /\ Kick(v) /\ UNCHANGED supVars)
    /\ WF_allVars((AllEnded \/ StopPhase \/ StopAttention \/ StopGate \/ Joined
                    \/ (ShouldStop /\ StopRunning)) /\ UNCHANGED supVars)
    /\ WF_allVars(SupNext)
    /\ WF_allVars(DropSupervisor \/ Teardown)

FairSystem == WedgedSystem /\ ThreadsRun

------------------------------------------------------------------------------
(* Properties.                                                             *)

(* serve() "keeps VmState honest": between requests of a VM nobody is      *)
(* stopping, a VM shown as Paused is held with its gate shut, and one      *)
(* shown as Running runs - whatever was refused, timed out or coalesced.   *)
HonestState ==
    sup \in {"loop", "serve"} /\ NotStopping /\ phase # "Stop" =>
        /\ vmState = "Paused" => phase = "HeldPause" /\ gate # "open"
        /\ vmState = "Running" => phase = "Run" /\ gate = "open"

(* Once the snapshot is on disk the file is the VM: no vCPU of this        *)
(* process enters the guest again, although the teardown releases them.    *)
SuspendedNeverRuns ==
    vmState = "Suspended" => \A v \in Vcpu : pc[v] \notin Executing

(* MAX_RESET_STORM: a guest that reboots as soon as it is started gets     *)
(* that many restarts after its first within the window, and one more when *)
(* it asks between the release and the recording of that first reset -     *)
(* however the user's own resets and late latches interleave.              *)
StormBounded == burst <= MaxResetStorm + 2

(* Closing the window ends the process when that is what begins the stop:  *)
(* from any phase of any request the vCPU threads are joined, the          *)
(* supervisor is, and the teardown finishes.  (A guest that ends first is  *)
(* StopAlwaysCompletes below.)                                             *)
UserStopCompletes == ThreadsRun => (shutdown ~> (main \in {"stopped", "failed"}))

------------------------------------------------------------------------------
(* What a comment in the code says and the code does not do.               *)

(* Lifecycle::shutdown: "a paused VM can still be torn down" - also when   *)
(* the stop came first.                                                    *)
StopAlwaysCompletes == ~running ~> (stopper = "over")
==============================================================================
