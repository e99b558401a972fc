------------------------------ MODULE Transport ------------------------------
(***************************************************************************)
(* One virtio-blk slot as its driver sees it: the transport's registers    *)
(* (crates/virtio-core/src/state.rs, status.rs, queue.rs), the request     *)
(* queue the device holds once activated (crates/virtio-block), the ring   *)
(* and the page cache in guest memory, and the image file on the host.     *)
(*                                                                         *)
(* save() and load() are the transport's half of a snapshot; Suspend.tla   *)
(* uses them.                                                              *)
(*                                                                         *)
(* The driver gives up its ring when it resets the device, so that the     *)
(* next one starts at zero; it posts no more than the ring holds, only     *)
(* heads of its descriptor table, and leaves DEVICE_NEEDS_RESET to the     *)
(* device.  add_used then cannot fail, build() having placed the rings in  *)
(* guest memory, and the queue's next_avail and next_used are one number   *)
(* here.  Ring indices wrap, as the u16 ones do, at any multiple of the    *)
(* queue size.  The FAILED bit, which the transport only logs, is left     *)
(* out.                                                                    *)
(***************************************************************************)
EXTENDS Naturals

CONSTANTS
    Size,     \* queue size
    Span,     \* where ring indices wrap: 2^16 in the code
    MaxClock, \* bound: how often an image is written
    None

ASSUME TransportAssumption ==
    /\ Size \in Nat \ {0} /\ Span \in Nat /\ Span > Size
    /\ MaxClock \in Nat
    /\ None \notin Nat

Stages == {"acknowledge", "driver", "features_ok", "driver_ok"}
Bits == Stages \cup {"needs_reset"}

(* How the driver left the queue: not ready, ready with usable rings, or    *)
(* ready with a size or rings that build() rejects.                         *)
Geometry == {"off", "usable", "unusable"}

VARIABLES
    tp,     \* the transport and its device
    ram,    \* guest memory: the ring's indices, and the image it has cached
    disk,   \* the image file: contents and modification time
    safe,   \* the part of it that a power failure cannot take back
    clock   \* the last version of any image that was written

slot == <<tp, ram, disk, safe, clock>>

Image == [data : Nat, mtime : Nat]
Index == 0..(Span - 1)

SlotTypeOK ==
    /\ tp \in [status : SUBSET Bits, version1 : BOOLEAN, queue : Geometry,
               activated : BOOLEAN, acked : BOOLEAN, next : Index \cup {None}]
    /\ ram \in [avail : Index, used : Index, sees : Nat]
    /\ disk \in Image /\ safe \in Image
    /\ clock \in 0..MaxClock

(* A transport nobody has touched, which is also what reset() leaves. *)
Fresh ==
    [status |-> {}, version1 |-> FALSE, queue |-> "off",
     activated |-> FALSE, acked |-> FALSE, next |-> None]

------------------------------------------------------------------------------
(* status::write_is_valid: only a reset clears bits, and a stage is added   *)
(* on top of all the previous ones.                                         *)
Before(stage) ==
    CASE stage = "acknowledge" -> {}
      [] stage = "driver" -> {"acknowledge"}
      [] stage = "features_ok" -> {"acknowledge", "driver"}
      [] stage = "driver_ok" -> {"acknowledge", "driver", "features_ok"}

WriteIsValid(current, new) ==
    \/ new = {}
    \/ /\ current \subseteq new
       /\ \A s \in Stages \cap (new \ current) : Before(s) \subseteq current

(* Mistake: every activation starts its queues at zero. *)
ActivateAtZero(t, position) ==
    [t EXCEPT !.activated = TRUE, !.next = 0]

(* activate_at(): the device gets its queue at this position. *)
ActivateAt(t, position) ==
    [t EXCEPT !.activated = TRUE, !.next = position]

(* The driver's own DRIVER_OK: queues at zero, or DEVICE_NEEDS_RESET. *)
Activate(t) ==
    IF t.queue = "unusable"
    THEN [t EXCEPT !.status = @ \cup {"needs_reset"}]
    ELSE ActivateAt(t, 0)

(* Mistake: negotiation never ends. *)
WriteDriverFeaturesLate(v) ==
    /\ tp' = [tp EXCEPT !.version1 = v]
    /\ UNCHANGED <<ram, disk, safe, clock>>

WriteDriverFeatures(v) ==
    /\ "features_ok" \notin tp.status
    /\ tp' = [tp EXCEPT !.version1 = v]
    /\ UNCHANGED <<ram, disk, safe, clock>>

(* edit_selected_queue: geometry does not change under a live device. *)
EditQueue(q) ==
    /\ ~tp.activated
    /\ tp' = [tp EXCEPT !.queue = q]
    /\ UNCHANGED <<ram, disk, safe, clock>>

(* write_status with 0: reset(), whose device flushes the image and only    *)
(* logs it when that fails.                                                 *)
DeviceReset ==
    /\ tp' = Fresh
    /\ safe' \in {safe, disk}
    /\ ram' = [ram EXCEPT !.avail = 0, !.used = 0]
    /\ UNCHANGED <<disk, clock>>

(* write_status: FEATURES_OK hands the subset to the device, and stays      *)
(* unset when VERSION_1 is not in it, the one thing for which virtio-blk    *)
(* turns down a subset of what it offers; DRIVER_OK activates.              *)
WriteStatus(new) ==
    LET added == new \ tp.status
        agreed == "features_ok" \in added /\ tp.version1
        status == IF agreed THEN new ELSE new \ (added \cap {"features_ok"})
        t == [tp EXCEPT !.status = status, !.acked = @ \/ agreed]
    IN  /\ new # {} /\ WriteIsValid(tp.status, new)
        /\ tp' = IF "driver_ok" \in added /\ "features_ok" \in status /\ ~tp.activated
                 THEN Activate(t) ELSE t
        /\ UNCHANGED <<ram, disk, safe, clock>>

Following(i) == IF i + 1 = Span THEN 0 ELSE i + 1

(* How far a ring is ahead of a position, across the wrap. *)
Outstanding(avail, next) == IF next <= avail THEN avail - next ELSE avail + Span - next

(* The driver publishes a request. *)
Post ==
    /\ tp.activated /\ tp.queue = "usable"
    /\ Outstanding(ram.avail, ram.used) < Size
    /\ ram' = [ram EXCEPT !.avail = Following(@)]
    /\ UNCHANGED <<tp, disk, safe, clock>>

(* What a notify leaves in the status: signal_used_queue may fail at the    *)
(* end of a drain, and queue_notify then sets DEVICE_NEEDS_RESET.           *)
Notified(status) == {status, status \cup {"needs_reset"}}

(* Mistake: the position does not wrap. *)
ServedUnwrapped(sees) ==
    /\ tp.activated /\ tp.queue = "usable"
    /\ tp.next # ram.avail
    /\ tp' = [tp EXCEPT !.next = @ + 1]
    /\ ram' = [ram EXCEPT !.used = Following(tp.next), !.sees = sees]

(* drain(), one chain: pop, write or flush the file, add_used, and the      *)
(* signal after the last one.  The used index is the device's own count,    *)
(* not what the ring says.                                                  *)
Served(sees) ==
    /\ tp.activated /\ tp.queue = "usable"
    /\ tp.next # ram.avail
    /\ \E status \in Notified(tp.status) :
          tp' = [tp EXCEPT !.next = Following(@), !.status = status]
    /\ ram' = [ram EXCEPT !.used = Following(tp.next), !.sees = sees]

Write ==
    /\ clock < MaxClock
    /\ Served(clock + 1)
    /\ clock' = clock + 1
    /\ disk' = [data |-> clock + 1, mtime |-> clock + 1]
    /\ UNCHANGED safe

Flush ==
    /\ Served(ram.sees)
    /\ safe' = disk
    /\ UNCHANGED <<disk, clock>>

(* A read, or a request that fails with the image left alone. *)
Read ==
    /\ Served(ram.sees)
    /\ UNCHANGED <<disk, safe, clock>>

Driver ==
    \/ \E v \in BOOLEAN : WriteDriverFeatures(v)
    \/ \E q \in Geometry : EditQueue(q)
    \/ \E more \in SUBSET Stages : WriteStatus(tp.status \cup more)
    \/ DeviceReset
    \/ Post

Device == Write \/ Flush \/ Read

------------------------------------------------------------------------------
(* save(): the registers and the device's queue position.  What the device  *)
(* was told at FEATURES_OK is not among them.                               *)
Save(t) ==
    [status |-> t.status, version1 |-> t.version1, queue |-> t.queue,
     activated |-> t.activated,
     position |-> IF t.next = None THEN 0 ELSE t.next]

(* load(), into a transport that has just been built: registers, features   *)
(* to the device, then the activation at the saved position.                *)
Load(s) ==
    LET t == [status |-> s.status, version1 |-> s.version1, queue |-> s.queue,
              activated |-> FALSE, acked |-> "features_ok" \in s.status, next |-> None]
    IN  IF s.activated THEN ActivateAt(t, s.position) ELSE t

------------------------------------------------------------------------------
(* A live device serves the ring the guest has in memory from where the     *)
(* guest last saw it: no completed request is served again and none is      *)
(* skipped, in this process or a later one (activate_at, queue_positions).  *)
RingAgrees ==
    tp.activated /\ tp.queue = "usable" =>
        /\ tp.next = ram.used
        /\ Outstanding(ram.avail, tp.next) <= Size

(* A device that runs was told what was negotiated, and the registers still *)
(* say so (negotiate_features, load, write_driver_features).                *)
ActiveMeansNegotiated ==
    tp.activated =>
        /\ {"features_ok", "driver_ok"} \subseteq tp.status
        /\ tp.acked /\ tp.version1
==============================================================================
