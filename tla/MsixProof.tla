------------------------------ MODULE MsixProof ------------------------------
(***************************************************************************)
(* For any device, any number of threads, queues and vectors: no event is  *)
(* lost, unless the message sink refuses the message that carries it; and  *)
(* nothing that can be sent stays in the PBA, as long as the function mask *)
(* of a device that signals outside the transport lock is left alone while *)
(* the device is live.                                                     *)
(***************************************************************************)
EXTENDS Msix, TLAPS

(* The prover of every leaf that names no other. *)
USE ZenonT(60)

(* What a signaller's program counter says about its locals and about the  *)
(* function: the control word's enable bit and the vectors do not change   *)
(* under a signaller, because only a live device signals.                  *)
Locals(t) ==
    /\ pc[t] # "idle" => live /\ t \in threads \cup {Handler} /\ src[t] \in Sources
    /\ pc[t] \in {"line", "trigger"} => ~enabled
    /\ pc[t] \in {"vector", "mask", "deliver", "send"} => enabled
    /\ pc[t] \in {"mask", "deliver", "send"} =>
        vec[t] \in Vectors /\ vec[t] = assigned[src[t]]
    /\ sawMask[t] => pc[t] # "idle"

(* What is remembered belongs to a live device, on the path it signals by. *)
Kept ==
    /\ pending \cup burst # {} => live /\ enabled
    /\ isr # {} => live /\ ~enabled
    /\ owed # {} => live
    /\ driver # "sending" => burst = {}

(* If the control word is left alone while threads signal, a mask seen set *)
(* is still set, or its flush still to come.                               *)
Deferral ==
    ~LiveControl =>
        /\ PendingIsDeferred
        /\ driver = "changed" => ~live \/ threads = {}
        /\ \A t \in Signallers : sawMask[t] => fmask \/ driver = "changed"

IInv ==
    /\ TypeOK
    /\ \A t \in Signallers : Locals(t)
    /\ Kept
    /\ Deferral
    /\ NoEventLost

USE DEF Signallers, SignalPc

(* One disjunct of Next at a time. *)
LEMMA Cases ==
    ASSUME Next
    PROVE  \/ \E t \in Signallers, s \in Sources : Publish(t, s)
           \/ \E t \in Signallers : IsEnabled(t)
           \/ \E t \in Signallers : RaiseIsr(t)
           \/ \E t \in Signallers : Trigger(t)
           \/ \E t \in Signallers : ReadVector(t)
           \/ \E t \in Signallers : ReadMask(t)
           \/ \E t \in Signallers : Deliver(t)
           \/ \E t \in Signallers : Send(t)
           \/ WriteControl \/ FlushPending \/ DriverOk \/ ReadIsr
           \/ \E v \in Vectors : SendClaimed(v)
           \/ \E v \in Vectors : Mask(v)
           \/ \E v \in Vectors : Unmask(v)
           \/ \E s \in Sources, v \in Vectors \cup {None, Beyond} : AssignVector(s, v)
           \/ DeviceReset \/ PowerOnReset
  BY Zenon DEF Next, Signal, Driver

(* The sink's refusals are counted up to their bound. *)
LEMMA Count ==
    0 \in 0..Refusals /\ \A n \in 0..Refusals : n < Refusals => n + 1 \in 0..Refusals
  BY MsixAssumption, SMTT(60)

LEMMA InitIInv == ASSUME Init PROVE IInv
<1> USE MsixAssumption DEF Init
<1>1. TypeOK
  BY Count DEF TypeOK
<1>2. \A t \in Signallers : Locals(t)
  BY DEF Locals
<1>3. Kept /\ Deferral /\ NoEventLost
  BY DEF Kept, Deferral, PendingIsDeferred, NoEventLost
<1> QED BY <1>1, <1>2, <1>3 DEF IInv

LEMMA PublishStep ==
    ASSUME IInv, NEW t \in Signallers, NEW s \in Sources, Publish(t, s)
    PROVE  IInv'
<1> USE MsixAssumption DEF IInv, Publish, Goto, LockFree, control, device, table,
      signaller, guest, history
<1>1. TypeOK'
  BY DEF TypeOK, Locals
<1>2. \A u \in Signallers : Locals(u)'
  BY SMTT(60) DEF TypeOK, Locals, Kept
<1>3. Kept'
  BY DEF TypeOK, Locals, Kept
<1>4. Deferral'
  BY DEF TypeOK, Locals, Kept, Deferral, PendingIsDeferred
<1>5. NoEventLost'
  BY DEF TypeOK, Locals, Kept, NoEventLost, OnItsWay, InFlight, Listens
<1> QED BY <1>1, <1>2, <1>3, <1>4, <1>5

LEMMA IsEnabledStep ==
    ASSUME IInv, NEW t \in Signallers, IsEnabled(t)
    PROVE  IInv'
<1> USE MsixAssumption DEF IInv, IsEnabled, Goto, control, device, table, signaller,
      guest, history
<1>1. TypeOK'
  BY DEF TypeOK, Locals
<1>2. \A u \in Signallers : Locals(u)'
  BY DEF TypeOK, Locals, Kept
<1>3. Kept'
  BY DEF TypeOK, Locals, Kept
<1>4. Deferral'
  BY DEF TypeOK, Locals, Kept, Deferral, PendingIsDeferred
<1>5. NoEventLost'
  BY DEF TypeOK, Locals, Kept, NoEventLost, OnItsWay, InFlight, Listens
<1> QED BY <1>1, <1>2, <1>3, <1>4, <1>5

LEMMA RaiseIsrStep ==
    ASSUME IInv, NEW t \in Signallers, RaiseIsr(t)
    PROVE  IInv'
<1> USE MsixAssumption DEF IInv, RaiseIsr, Goto, control, device, table, signaller,
      guest, history
<1>1. TypeOK'
  BY SMTT(60) DEF TypeOK, Locals
<1>2. \A u \in Signallers : Locals(u)'
  BY DEF TypeOK, Locals, Kept
<1>3. Kept'
  BY DEF TypeOK, Locals, Kept
<1>4. Deferral'
  BY DEF TypeOK, Locals, Kept, Deferral, PendingIsDeferred
<1>5. NoEventLost'
  BY DEF TypeOK, Locals, Kept, NoEventLost, OnItsWay, InFlight, Listens
<1> QED BY <1>1, <1>2, <1>3, <1>4, <1>5

LEMMA TriggerStep ==
    ASSUME IInv, NEW t \in Signallers, Trigger(t)
    PROVE  IInv'
<1> USE MsixAssumption DEF IInv, Trigger, Goto, Return, control, device, table,
      signaller, guest, history
<1>1. TypeOK'
  BY DEF TypeOK, Locals
<1>2. \A u \in Signallers : Locals(u)'
  BY DEF TypeOK, Locals, Kept
<1>3. Kept'
  BY DEF TypeOK, Locals, Kept
<1>4. Deferral'
  BY DEF TypeOK, Locals, Kept, Deferral, PendingIsDeferred
<1>5. NoEventLost'
  BY DEF TypeOK, Locals, Kept, NoEventLost, OnItsWay, InFlight, Listens
<1> QED BY <1>1, <1>2, <1>3, <1>4, <1>5

LEMMA ReadVectorStep ==
    ASSUME IInv, NEW t \in Signallers, ReadVector(t)
    PROVE  IInv'
<1> USE MsixAssumption DEF IInv, ReadVector, Goto, Return, control, device, table,
      signaller, guest, history
<1>1. TypeOK'
  <2>1. /\ pc' \in [Signallers -> SignalPc]
        /\ vec' \in [Signallers -> Vectors \cup {None}]
        /\ src' \in [Signallers -> Sources \cup {None}]
    BY SMTT(60) DEF TypeOK, Locals
  <2>2. sawMask' \in [Signallers -> BOOLEAN]
    BY DEF TypeOK
  <2> QED BY <2>1, <2>2 DEF TypeOK
<1>2. \A u \in Signallers : Locals(u)'
  BY SMTT(60) DEF TypeOK, Locals, Kept
<1>3. Kept'
  BY DEF TypeOK, Locals, Kept
<1>4. Deferral'
  BY SMTT(60) DEF TypeOK, Locals, Kept, Deferral, PendingIsDeferred
<1>5. NoEventLost'
  BY SMTT(60) DEF TypeOK, Locals, Kept, NoEventLost, OnItsWay, InFlight, Listens
<1> QED BY <1>1, <1>2, <1>3, <1>4, <1>5

LEMMA ReadMaskStep ==
    ASSUME IInv, NEW t \in Signallers, ReadMask(t)
    PROVE  IInv'
<1> USE MsixAssumption DEF IInv, ReadMask, Goto, control, device, table, signaller,
      guest, history
<1>1. TypeOK'
  BY DEF TypeOK, Locals
<1>2. \A u \in Signallers : Locals(u)'
  BY DEF TypeOK, Locals, Kept
<1>3. Kept'
  BY DEF TypeOK, Locals, Kept
<1>4. Deferral'
  BY DEF TypeOK, Locals, Kept, Deferral, PendingIsDeferred
<1>5. NoEventLost'
  BY DEF TypeOK, Locals, Kept, NoEventLost, OnItsWay, InFlight, Listens
<1> QED BY <1>1, <1>2, <1>3, <1>4, <1>5

LEMMA DeliverStep ==
    ASSUME IInv, NEW t \in Signallers, Deliver(t)
    PROVE  IInv'
<1> USE MsixAssumption DEF IInv, Deliver, Goto, Return, control, device, table,
      signaller, guest, history
<1>1. TypeOK'
  <2>1. /\ pc' \in [Signallers -> SignalPc]
        /\ vec' \in [Signallers -> Vectors \cup {None}]
        /\ src' \in [Signallers -> Sources \cup {None}]
        /\ pending' \subseteq Vectors
    BY SMTT(60) DEF TypeOK, Locals
  <2>2. sawMask' \in [Signallers -> BOOLEAN]
    BY DEF TypeOK
  <2> QED BY <2>1, <2>2 DEF TypeOK
<1>2. \A u \in Signallers : Locals(u)'
  BY SMTT(60) DEF TypeOK, Locals, Kept
<1>3. Kept'
  BY DEF TypeOK, Locals, Kept
<1>4. Deferral'
  BY SMTT(60) DEF TypeOK, Locals, Kept, Deferral, PendingIsDeferred
<1>5. NoEventLost'
  BY SMTT(60) DEF TypeOK, Locals, Kept, NoEventLost, OnItsWay, InFlight, Listens
<1> QED BY <1>1, <1>2, <1>3, <1>4, <1>5

LEMMA SendStep ==
    ASSUME IInv, NEW t \in Signallers, Send(t)
    PROVE  IInv'
<1> USE MsixAssumption DEF IInv, Send, Goto, Return, control, device, table, signaller,
      guest, history
<1>1. SinkSend(vec[t])
  OBVIOUS
<1>2. TypeOK'
  <2>1. refusals' \in 0..Refusals /\ owed' \subseteq Sources /\ refused' \subseteq Sources
    BY <1>1, Count, SMTT(60) DEF SinkSend, TypeOK
  <2> QED BY <2>1 DEF TypeOK, Locals
<1>3. \A u \in Signallers : Locals(u)'
  BY DEF TypeOK, Locals, Kept
<1>4. Kept'
  BY <1>1 DEF SinkSend, TypeOK, Locals, Kept
<1>5. Deferral'
  BY DEF TypeOK, Locals, Kept, Deferral, PendingIsDeferred
<1>6. NoEventLost'
  BY <1>1, SMTT(60) DEF SinkSend, Told, TypeOK, Locals, Kept, NoEventLost, OnItsWay,
      InFlight, Listens
<1> QED BY <1>2, <1>3, <1>4, <1>5, <1>6

LEMMA WriteControlStep ==
    ASSUME IInv, WriteControl
    PROVE  IInv'
<1> USE MsixAssumption DEF IInv, WriteControl, control, device, table, signaller, guest,
      history
<1>1. TypeOK'
  BY DEF TypeOK, Locals
<1>2. \A u \in Signallers : Locals(u)'
  BY DEF TypeOK, Locals, Kept
<1>3. Kept'
  BY DEF TypeOK, Locals, Kept
<1>4. Deferral'
  BY DEF TypeOK, Locals, Kept, Deferral, PendingIsDeferred
<1>5. NoEventLost'
  BY DEF TypeOK, Locals, Kept, NoEventLost, OnItsWay, InFlight, Listens
<1> QED BY <1>1, <1>2, <1>3, <1>4, <1>5

LEMMA FlushPendingStep ==
    ASSUME IInv, FlushPending
    PROVE  IInv'
<1> USE MsixAssumption DEF IInv, FlushPending, LockFree, Claim, control, device, table,
      signaller, guest, history
<1>1. TypeOK'
  BY DEF TypeOK, Locals
<1>2. \A u \in Signallers : Locals(u)'
  BY DEF TypeOK, Locals, Kept
<1>3. Kept'
  BY DEF TypeOK, Locals, Kept
<1>4. Deferral'
  BY DEF TypeOK, Locals, Kept, Deferral, PendingIsDeferred
<1>5. NoEventLost'
  BY SMTT(60) DEF TypeOK, Locals, Kept, NoEventLost, OnItsWay, InFlight, Listens
<1> QED BY <1>1, <1>2, <1>3, <1>4, <1>5

LEMMA SendClaimedStep ==
    ASSUME IInv, NEW v \in Vectors, SendClaimed(v)
    PROVE  IInv'
<1> USE MsixAssumption DEF IInv, SendClaimed, control, device, table, signaller, guest,
      history
<1>1. SinkSend(v)
  OBVIOUS
<1>2. TypeOK'
  <2>1. refusals' \in 0..Refusals /\ owed' \subseteq Sources /\ refused' \subseteq Sources
    BY <1>1, Count, SMTT(60) DEF SinkSend, TypeOK
  <2> QED BY <2>1 DEF TypeOK, Locals
<1>3. \A u \in Signallers : Locals(u)'
  BY DEF TypeOK, Locals, Kept
<1>4. Kept'
  BY <1>1 DEF SinkSend, TypeOK, Locals, Kept
<1>5. Deferral'
  BY DEF TypeOK, Locals, Kept, Deferral, PendingIsDeferred
<1>6. NoEventLost'
  BY <1>1, SMTT(60) DEF SinkSend, Told, TypeOK, Locals, Kept, NoEventLost, OnItsWay,
      InFlight, Listens
<1> QED BY <1>2, <1>3, <1>4, <1>5, <1>6

LEMMA MaskStep ==
    ASSUME IInv, NEW v \in Vectors, Mask(v)
    PROVE  IInv'
<1> USE MsixAssumption DEF IInv, Mask, LockFree, control, device, table, signaller,
      guest, history
<1>1. TypeOK'
  BY DEF TypeOK, Locals
<1>2. \A u \in Signallers : Locals(u)'
  BY DEF TypeOK, Locals, Kept
<1>3. Kept'
  BY DEF TypeOK, Locals, Kept
<1>4. Deferral'
  BY DEF TypeOK, Locals, Kept, Deferral, PendingIsDeferred
<1>5. NoEventLost'
  BY SMTT(60) DEF TypeOK, Locals, Kept, NoEventLost, OnItsWay, InFlight, Listens
<1> QED BY <1>1, <1>2, <1>3, <1>4, <1>5

LEMMA UnmaskStep ==
    ASSUME IInv, NEW v \in Vectors, Unmask(v)
    PROVE  IInv'
<1> USE MsixAssumption DEF IInv, Unmask, LockFree, control, device, table, signaller,
      guest, history
<1>1. TypeOK'
  BY DEF TypeOK, Locals
<1>2. \A u \in Signallers : Locals(u)'
  BY DEF TypeOK, Locals, Kept
<1>3. Kept'
  BY DEF TypeOK, Locals, Kept
<1>4. Deferral'
  BY DEF TypeOK, Locals, Kept, Deferral, PendingIsDeferred
<1>5. NoEventLost'
  BY SMTT(60) DEF TypeOK, Locals, Kept, NoEventLost, OnItsWay, InFlight, Listens
<1> QED BY <1>1, <1>2, <1>3, <1>4, <1>5

LEMMA AssignVectorStep ==
    ASSUME IInv, NEW s \in Sources, NEW v \in Vectors \cup {None, Beyond}, AssignVector(s, v)
    PROVE  IInv'
<1> USE MsixAssumption DEF IInv, AssignVector, LockFree, Accept, control, device, table,
      signaller, guest, history
<1>1. TypeOK'
  BY DEF TypeOK, Locals
<1>2. \A u \in Signallers : Locals(u)'
  BY DEF TypeOK, Locals, Kept
<1>3. Kept'
  BY DEF TypeOK, Locals, Kept
<1>4. Deferral'
  BY DEF TypeOK, Locals, Kept, Deferral, PendingIsDeferred
<1>5. NoEventLost'
  BY DEF TypeOK, Locals, Kept, NoEventLost, OnItsWay, InFlight, Listens
<1> QED BY <1>1, <1>2, <1>3, <1>4, <1>5

LEMMA DriverOkStep ==
    ASSUME IInv, DriverOk
    PROVE  IInv'
<1> USE MsixAssumption DEF IInv, DriverOk, LockFree, control, device, table, signaller,
      guest, history
<1>1. TypeOK'
  BY DEF TypeOK, Locals
<1>2. \A u \in Signallers : Locals(u)'
  BY DEF TypeOK, Locals, Kept
<1>3. Kept'
  BY DEF TypeOK, Locals, Kept
<1>4. Deferral'
  BY DEF TypeOK, Locals, Kept, Deferral, PendingIsDeferred
<1>5. NoEventLost'
  BY DEF TypeOK, Locals, Kept, NoEventLost, OnItsWay, InFlight, Listens
<1> QED BY <1>1, <1>2, <1>3, <1>4, <1>5

LEMMA ReadIsrStep ==
    ASSUME IInv, ReadIsr
    PROVE  IInv'
<1> USE MsixAssumption DEF IInv, ReadIsr, LockFree, control, device, table, signaller,
      guest, history
<1>1. TypeOK'
  BY DEF TypeOK, Locals
<1>2. \A u \in Signallers : Locals(u)'
  BY DEF TypeOK, Locals, Kept
<1>3. Kept'
  BY DEF TypeOK, Locals, Kept
<1>4. Deferral'
  BY DEF TypeOK, Locals, Kept, Deferral, PendingIsDeferred
<1>5. NoEventLost'
  BY SMTT(60) DEF TypeOK, Locals, Kept, NoEventLost, OnItsWay, InFlight, Listens
<1> QED BY <1>1, <1>2, <1>3, <1>4, <1>5

LEMMA DeviceResetStep ==
    ASSUME IInv, DeviceReset
    PROVE  IInv'
<1> USE MsixAssumption DEF IInv, DeviceReset, Quiet, LockFree, control, device, table,
      signaller, guest, history
<1>1. TypeOK'
  BY DEF TypeOK, Locals
<1>2. \A u \in Signallers : Locals(u)'
  BY DEF TypeOK, Locals, Kept
<1>3. Kept'
  BY SMTT(60) DEF TypeOK, Locals, Kept
<1>4. Deferral'
  BY DEF TypeOK, Locals, Kept, Deferral, PendingIsDeferred
<1>5. NoEventLost'
  BY DEF TypeOK, Locals, Kept, NoEventLost, OnItsWay, InFlight, Listens
<1> QED BY <1>1, <1>2, <1>3, <1>4, <1>5

LEMMA PowerOnResetStep ==
    ASSUME IInv, PowerOnReset
    PROVE  IInv'
<1> USE MsixAssumption DEF IInv, PowerOnReset, Quiet, LockFree, control, device, table,
      signaller, guest, history
<1>1. TypeOK'
  BY DEF TypeOK, Locals
<1>2. \A u \in Signallers : Locals(u)'
  BY DEF TypeOK, Locals, Kept
<1>3. Kept'
  BY DEF TypeOK, Locals, Kept
<1>4. Deferral'
  BY DEF TypeOK, Locals, Kept, Deferral, PendingIsDeferred
<1>5. NoEventLost'
  BY DEF TypeOK, Locals, Kept, NoEventLost, OnItsWay, InFlight, Listens
<1> QED BY <1>1, <1>2, <1>3, <1>4, <1>5

LEMMA NextIInv == ASSUME IInv, [Next]_vars PROVE IInv'
<1>1. CASE Next
  BY <1>1, Cases, PublishStep, IsEnabledStep, RaiseIsrStep, TriggerStep, ReadVectorStep,
      ReadMaskStep, DeliverStep, SendStep, WriteControlStep, FlushPendingStep,
      SendClaimedStep, MaskStep, UnmaskStep, AssignVectorStep, DriverOkStep, ReadIsrStep,
      DeviceResetStep, PowerOnResetStep
<1>2. CASE UNCHANGED vars
  BY <1>2, SMTT(60) DEF vars, control, device, table, signaller, guest, history, IInv,
      TypeOK, Locals, Kept, Deferral, PendingIsDeferred, NoEventLost, OnItsWay, InFlight,
      Listens
<1> QED BY <1>1, <1>2

LEMMA Inductive == Spec => []IInv
<1>1. Init => IInv
  BY InitIInv
<1>2. IInv /\ [Next]_vars => IInv'
  BY NextIInv
<1> QED BY <1>1, <1>2, PTL DEF Spec

(* The types of the table, the PBA and every signaller's locals: accept()  *)
(* lets no number outside the table into an assignment, so that no         *)
(* signaller indexes the table with one.                                   *)
THEOREM MsixType == Spec => []TypeOK
<1>1. IInv => TypeOK
  BY DEF IInv
<1> QED BY <1>1, Inductive, PTL

(* deliver(), write_table() and flush_pending() together: a vector that is *)
(* pending cannot be sent yet, or the flush that sends it is on its way -  *)
(* if the driver leaves the function mask alone while threads signal.      *)
THEOREM DeferredOnly == ~LiveControl => (Spec => []PendingIsDeferred)
<1> SUFFICES ASSUME ~LiveControl PROVE Spec => []PendingIsDeferred
  OBVIOUS
<1>1. IInv => PendingIsDeferred
  BY DEF IInv, Deferral
<1> QED BY <1>1, Inductive, PTL

(* No interleaving of signallers, masking, unmasking, flushing and resets  *)
(* loses an event of a guest that listens for it - also when the function  *)
(* mask changes under a signaller that has read it; only a message that    *)
(* the sink refused is gone with the events it carried.                    *)
THEOREM NothingLost == Spec => []NoEventLost
<1>1. IInv => NoEventLost
  BY DEF IInv
<1> QED BY <1>1, Inductive, PTL
==============================================================================
