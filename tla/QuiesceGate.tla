----------------------------- MODULE QuiesceGate -----------------------------
(***************************************************************************)
(* What the pause gate of crates/virtio-core/src/quiesce.rs promises to    *)
(* the machine, with its atomics, its mutex and its timed waits left out:  *)
(* a set of workers that may be touching guest memory, and a gate that is  *)
(* "open", "closing" (pause() has returned, passes may still be held and   *)
(* may still be handed to a worker that had already looked) or "closed"    *)
(* (wait_until_idle() has returned true).  Nobody starts work while the    *)
(* gate is closed, and it only becomes closed when nobody is working.      *)
(***************************************************************************)
CONSTANT Users

VARIABLES gate, busy

gateVars == <<gate, busy>>

GateInit ==
    /\ gate = "open"
    /\ busy = {}

(* A user is handed a Pass and may touch guest memory until it drops it. *)
Enter(u) ==
    /\ gate # "closed"
    /\ u \notin busy
    /\ busy' = busy \cup {u}
    /\ UNCHANGED gate

Leave(u) ==
    /\ u \in busy
    /\ busy' = busy \ {u}
    /\ UNCHANGED gate

Close ==
    /\ gate = "open"
    /\ gate' = "closing"
    /\ UNCHANGED busy

Settle ==
    /\ gate = "closing"
    /\ busy = {}
    /\ gate' = "closed"
    /\ UNCHANGED busy

Open ==
    /\ gate' = "open"
    /\ UNCHANGED busy

GateNext ==
    \/ \E u \in Users : Enter(u) \/ Leave(u)
    \/ Close
    \/ Settle
    \/ Open

GateSpec == GateInit /\ [][GateNext]_gateVars
==============================================================================
