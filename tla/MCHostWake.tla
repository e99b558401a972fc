----------------------------- MODULE MCHostWake -----------------------------
(* Two devices and two host threads that wake either of them. *)
EXTENDS HostWake
==============================================================================
