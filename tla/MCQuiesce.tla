------------------------------ MODULE MCQuiesce ------------------------------
(* Quiesce with every thread of the gate a model value. *)
EXTENDS Quiesce
==============================================================================
