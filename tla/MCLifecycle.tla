----------------------------- MODULE MCLifecycle -----------------------------
(* Lifecycle on two vCPUs: the boot processor and one other. *)
EXTENDS Lifecycle

(* What the rest of a behaviour depends on.  Nothing reads, in this module: *)
(* - which vCPUs did their reset, before the next reset forgets them;       *)
(* - who was saved, outside a capture (BeginCapture clears it);             *)
(* - the outcome and the reset errors of the last operation;                *)
(* - the latched request, outside a reset, which starts by clearing it;     *)
(* - the storm counter once the window has passed, or stormedOut;           *)
(* - what a thread that ended was doing, or that it arrived before it did.  *)
LiveVars ==
    LET capturing == phase = "SaveVcpus" \/ rq \in {"report", "reported", "take"}
        resetting == phase \in {"ParkReset", "ResetMachine", "ResetVcpus"}
        Thread(v) == CASE pc[v] = "done" -> <<"done">>
                       [] pc[v] = "ended" -> <<"ended", arrived[v]>>
                       [] OTHER -> <<pc[v], arrived[v], mode[v], faulted[v], fresh[v]>>
    IN <<phase, attention, [v \in Vcpu |-> Thread(v)],
         IF resetting THEN resetDone ELSE <<>>, IF capturing THEN saving ELSE <<>>,
         IF rq = "idle" THEN <<>> ELSE ok,
         IF op = "reset" THEN <<resetError, guestReset>> ELSE <<>>, stale,
         recent, IF recent THEN storm ELSE 0, botched, machine,
         rq, op, after, stopping>>
==============================================================================
