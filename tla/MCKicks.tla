------------------------------ MODULE MCKicks -------------------------------
(* One or two virtio-pci functions and the windows they may be given. *)
EXTENDS Kicks, TLC

CONSTANTS d1, d2, a1, a2, q1, q2

HomeOne == d1 :> a1
HomeTwo == d1 :> a1 @@ d2 :> a2
UsedOne == d1 :> {q1}
UsedTwo == d1 :> {q1} @@ d2 :> {}
==============================================================================
