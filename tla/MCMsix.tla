------------------------------- MODULE MCMsix -------------------------------
(* One receive thread and one handler over a queue and the configuration. *)
EXTENDS Msix
==============================================================================
