------------------------------ MODULE MCSuspend ------------------------------
(* One slot, its image and its snapshot file. *)
EXTENDS Suspend

(* What no later step reads and no property looks at is left out: a stopped *)
(* VM's memory, the fingerprint and the partial file except in a save       *)
(* (where they follow from the rest), and what the image held once some of  *)
(* it was lost.                                                             *)
Seen(m) == IF lost THEN [m EXCEPT !.sees = 0] ELSE m
SeenFile(f) == IF f = None THEN None ELSE [f EXCEPT !.ram = Seen(f.ram)]
SeenImage(i) == IF lost THEN i.mtime ELSE i

LiveVars ==
    <<IF vm = "off" THEN None ELSE <<tp, Seen(ram)>>,
      SeenImage(disk), SeenImage(safe), clock,
      vm, step, IF vm = "saving" THEN <<paused, stamp, SeenFile(part)>> ELSE None,
      SeenFile(path), SeenFile(kept), SavedIsResumable,
      IF saved = None THEN None ELSE <<late, Unserved(saved)>>, lost>>

(* Bound: a suspend in the middle of a bring-up, or of a device that needs  *)
(* a reset, is the first one.                                               *)
FirstIsOdd ==
    vm = "saving" /\ path # None => tp.activated /\ "needs_reset" \notin tp.status
==============================================================================
