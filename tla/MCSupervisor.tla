---------------------------- MODULE MCSupervisor ----------------------------
(* Small VMs under a supervisor; the .cfg files choose what may happen. *)
EXTENDS Supervisor

(* What the rest of a behaviour depends on: as in MCLifecycle, and the     *)
(* supervisor looks at an outcome, and at what it remembered, only while   *)
(* it serves a request.                                                    *)
LiveVars ==
    LET capturing == phase = "SaveVcpus" \/ rq \in {"report", "reported", "take"}
        serving == sup \in Serving \cup {"save", "unsave"}
    IN <<phase, attention, barrier, IF capturing THEN saving ELSE <<>>, finished,
         IF rq = "idle" THEN <<>> ELSE resetError, botched, request, machine, cpu,
         rq, op, after, stopping, req, asked, shutdown, sup,
         IF serving THEN <<ok, wasPaused, before>> ELSE <<>>,
         vmState, main, burst>>
==============================================================================
