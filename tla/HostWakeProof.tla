---------------------------- MODULE HostWakeProof ----------------------------
(* Proofs about HostWake, for any number of devices and wakers. *)
EXTENDS HostWake, TLAPS

(* The prover of every leaf that names no other. *)
USE ZenonT(60)

(* stop() has set the flag until spawn() takes it back.  Unless a wake     *)
(* fell into clear(), the bits it has swept stay unset, and a bit that is  *)
(* set before the new thread starts has its signal or its waker.           *)
Restarting ==
    /\ ctl # "idle" => stopping
    /\ ctl = "clear" /\ ~raced => \A s \in Slots : s < sweep => ~pending[s]
    /\ ctl = "spawn" /\ ~raced =>
        \A s \in Slots : pending[s] => signal \/ \E w \in Wakers : wk[w] = s

IInv == TypeOK /\ Restarting /\ PendingIsCovered

LEMMA TypeInit == Init => TypeOK
<1> SUFFICES ASSUME Init PROVE TypeOK
    OBVIOUS
<1>1. pending \in [Slots -> BOOLEAN] /\ owed \in [Slots -> BOOLEAN]
    BY DEF Init
<1>2. wk \in [Wakers -> 0..NSlots] /\ 0 \in 0..NSlots
    BY HostWakeAssumption, SMTT(60) DEF Init, Idle
<1> QED BY <1>1, <1>2 DEF Init, TypeOK

(* The type invariant holds with resets too. *)
LEMMA TypeStep == TypeOK /\ [Next]_vars => TypeOK'
<1> SUFFICES ASSUME TypeOK, [Next]_vars PROVE TypeOK'
    OBVIOUS
<1> USE HostWakeAssumption DEF TypeOK, Slots, Idle
<1>1. ASSUME NEW w \in Wakers, NEW s \in Slots, Raise(w, s) PROVE TypeOK'
    BY <1>1, SMTT(60) DEF Raise
<1>2. ASSUME NEW w \in Wakers, WakerSignal(w) PROVE TypeOK'
    BY <1>2, SMTT(60) DEF WakerSignal, SignalThread
<1>3. CASE Service
  <2>1. CASE Sleep
      BY <2>1 DEF Sleep, SvcOnly
  <2>2. CASE WaitStop
      BY <2>2 DEF WaitStop, SvcOnly
  <2>3. CASE WakeUp
    <3>1. cursor' \in 0..NSlots
        BY <2>3, SMTT(60) DEF WakeUp
    <3>2. signal' \in BOOLEAN /\ svc' = "scan"
        BY <2>3 DEF WakeUp
    <3> QED BY <2>3, <3>1, <3>2 DEF WakeUp, SvcOnly
  <2>4. CASE ScanSkip
      BY <2>4, SMTT(60) DEF ScanSkip, SvcOnly
  <2>5. CASE ScanTake
      BY <2>5 DEF ScanTake, SvcOnly
  <2>6. CASE ScanEnd
      BY <2>6 DEF ScanEnd, SvcOnly
  <2>7. CASE GateStop
      BY <2>7 DEF GateStop, SvcOnly
  <2>8. CASE GatePass
      BY <2>8 DEF GatePass, SvcOnly
  <2>9. CASE Notify
      BY <2>9 DEF Notify, SvcOnly
  <2>10. CASE Notified
      BY <2>10, SMTT(60) DEF Notified, SvcOnly
  <2> QED BY <1>3, <2>1, <2>2, <2>3, <2>4, <2>5, <2>6, <2>7, <2>8, <2>9, <2>10 DEF Service
<1>4. CASE Control
  <2>1. CASE Reset
      BY <2>1 DEF Reset, CtlOnly
  <2>2. CASE Shutdown
      BY <2>2 DEF Shutdown, CtlOnly
  <2>3. CASE StopSignal
      BY <2>3 DEF StopSignal, CtlOnly, SignalThread
  <2>4. CASE Join
      BY <2>4, SMTT(60) DEF Join, CtlOnly
  <2>5. CASE ClearBit
      BY <2>5, SMTT(60) DEF ClearBit, CtlOnly
  <2>6. CASE ClearSignal
      BY <2>6 DEF ClearSignal, CtlOnly
  <2>7. CASE Spawn
      BY <2>7 DEF Spawn, CtlOnly
  <2> QED BY <1>4, <2>1, <2>2, <2>3, <2>4, <2>5, <2>6, <2>7 DEF Control
<1>5. CASE Pause
    BY <1>5, SMTT(60) DEF Pause
<1>6. CASE UNCHANGED vars
    BY <1>6, SMTT(60) DEF vars
<1> QED BY <1>1, <1>2, <1>3, <1>4, <1>5, <1>6 DEF Next

(* The types of host_wake.rs's shared state, whatever is reset or shut     *)
(* down: in particular the loop serves existing slots only.                *)
THEOREM HostWakeType == Spec => []TypeOK
<1> QED BY TypeInit, TypeStep, PTL DEF Spec

(* The restart of the service thread in a machine reset: what Restarting  *)
(* says of stop(), clear() and spawn() survives every step.                *)
LEMMA RestartStep == TypeOK /\ Restarting /\ [Next]_vars => Restarting'
<1> SUFFICES ASSUME TypeOK, Restarting, [Next]_vars PROVE Restarting'
    OBVIOUS
<1> USE HostWakeAssumption DEF TypeOK, Slots, Idle, Restarting
<1>1. ASSUME NEW w \in Wakers, NEW s \in Slots, Raise(w, s) PROVE Restarting'
  <2>1. /\ ctl' = ctl /\ stopping' = stopping /\ signal' = signal
        /\ ~raced' => ~raced /\ ctl # "clear"
      BY <1>1 DEF Raise
  <2>2. \A x \in Wakers : wk[x] # Idle => wk'[x] = wk[x]
      BY <1>1 DEF Raise
  <2>3. \A t \in Slots : pending'[t] => pending[t] \/ (t = s /\ wk'[w] = s)
      BY <1>1 DEF Raise
  <2>4. ctl' = "spawn" /\ ~raced' =>
          \A t \in Slots : pending'[t] => signal' \/ \E x \in Wakers : wk'[x] = t
    <3> SUFFICES ASSUME ctl = "spawn", ~raced, NEW t \in Slots, pending[t]
                 PROVE  signal \/ \E x \in Wakers : wk'[x] = t
        BY <2>1, <2>3
    <3>1. signal \/ \E x \in Wakers : wk[x] = t
        OBVIOUS
    <3>2. t # Idle
        BY SMTT(60)
    <3> QED BY <2>2, <3>1, <3>2
  <2> QED BY <2>1, <2>4
<1>2. ASSUME NEW w \in Wakers, WakerSignal(w) PROVE Restarting'
    BY <1>2 DEF WakerSignal, SignalThread
<1>3. CASE Service
  <2>1. /\ ctl' = ctl /\ stopping' = stopping /\ sweep' = sweep /\ raced' = raced /\ wk' = wk
        /\ \A s \in Slots : pending'[s] => pending[s]
      BY <1>3 DEF Service, SvcOnly, Sleep, WaitStop, WakeUp, ScanSkip, ScanTake, ScanEnd,
          GateStop, GatePass, Notify, Notified
  <2>2. stopping => signal' = signal
      BY <1>3 DEF Service, Sleep, WaitStop, WakeUp, ScanSkip, ScanTake, ScanEnd,
          GateStop, GatePass, Notify, Notified
  <2> QED BY <2>1, <2>2
<1>4. CASE Control
  <2>1. CASE Reset \/ Shutdown
      BY <2>1 DEF Reset, Shutdown, CtlOnly
  <2>2. CASE StopSignal
      BY <2>2 DEF StopSignal, CtlOnly
  <2>3. CASE Join
      BY <2>3, SMTT(60) DEF Join, CtlOnly
  <2>4. CASE ClearBit
      BY <2>4, SMTT(60) DEF ClearBit, CtlOnly
  <2>5. CASE ClearSignal
      BY <2>5, SMTT(60) DEF ClearSignal, CtlOnly
  <2>6. CASE Spawn
      BY <2>6 DEF Spawn, CtlOnly
  <2> QED BY <1>4, <2>1, <2>2, <2>3, <2>4, <2>5, <2>6 DEF Control
<1>5. CASE Pause
    BY <1>5 DEF Pause
<1>6. CASE UNCHANGED vars
    BY <1>6 DEF vars
<1> QED BY <1>1, <1>2, <1>3, <1>4, <1>5, <1>6 DEF Next

(* A set bit always leads to a visit of its slot, through pauses, machine  *)
(* resets and the shutdown, unless a wake fell into a clear(): raise() may *)
(* skip the signal when it finds the bit set.                              *)
THEOREM NoWakeForgotten == Spec => []PendingIsCovered
<1>1. Init => IInv
  <2> SUFFICES ASSUME Init PROVE Restarting /\ PendingIsCovered
      BY TypeInit DEF IInv
  <2>1. Restarting
      BY DEF Init, Restarting
  <2>2. PendingIsCovered
      BY DEF Init, PendingIsCovered
  <2> QED BY <2>1, <2>2
<1>2. IInv /\ [Next]_vars => IInv'
  <2> SUFFICES ASSUME IInv, [Next]_vars PROVE IInv'
      OBVIOUS
  <2>1. TypeOK /\ TypeOK'
      BY TypeStep DEF IInv
  <2>2. Restarting'
      BY RestartStep DEF IInv
  <2>3. PendingIsCovered'
    <3> SUFFICES ASSUME ~stopping', ~raced', NEW s \in Slots, pending'[s] PROVE Covered(s)'
        BY DEF PendingIsCovered
    <3> USE <2>1 DEF TypeOK, Slots, Idle
    <3>1. ASSUME NEW w \in Wakers, NEW t \in Slots, Raise(w, t) PROVE Covered(s)'
      <4>1. CASE pending[s]
        <5>1. Covered(s)
            BY <3>1, <4>1 DEF IInv, PendingIsCovered, Raise
        <5>2. \A x \in Wakers : wk[x] = s => wk'[x] = s
            BY <3>1, HostWakeAssumption, SMTT(60) DEF Raise
        <5> QED BY <3>1, <5>1, <5>2 DEF Covered, Raise
      <4>2. CASE ~pending[s]
        <5>1. t = s /\ wk'[w] = s
            BY <3>1, <4>2 DEF Raise
        <5> QED BY <5>1 DEF Covered
      <4> QED BY <4>1, <4>2
    <3>2. ASSUME NEW w \in Wakers, WakerSignal(w) PROVE Covered(s)'
        BY <3>2 DEF WakerSignal, SignalThread, Covered
    <3>3. CASE Service
      <4>1. pending[s] /\ ~stopping /\ ~raced
          BY <3>3 DEF Service, SvcOnly, Sleep, WaitStop, WakeUp, ScanSkip, ScanTake,
              ScanEnd, GateStop, GatePass, Notify, Notified
      <4>2. Covered(s)
          BY <4>1 DEF IInv, PendingIsCovered
      <4>3. wk' = wk
          BY <3>3 DEF Service, SvcOnly, Sleep, WaitStop, WakeUp, ScanSkip, ScanTake,
              ScanEnd, GateStop, GatePass, Notify, Notified
      <4> QED
          BY <3>3, <4>1, <4>2, <4>3, HostWakeAssumption, SMTT(60)
          DEF Covered, Service, Sleep, WaitStop, WakeUp, ScanSkip, ScanTake, ScanEnd,
              GateStop, GatePass, Notify, Notified
    <3>4. CASE Control
      <4>1. Spawn
          BY <3>4 DEF IInv, Restarting, Control, Reset, Shutdown, StopSignal, Join,
              ClearBit, ClearSignal, Spawn
      <4> QED BY <4>1 DEF Spawn, CtlOnly, IInv, Restarting, Covered
    <3>5. CASE Pause \/ UNCHANGED vars
        BY <3>5 DEF Pause, vars, IInv, PendingIsCovered, Covered
    <3> QED BY <3>1, <3>2, <3>3, <3>4, <3>5 DEF Next
  <2> QED BY <2>1, <2>2, <2>3 DEF IInv
<1>3. IInv => PendingIsCovered
    BY DEF IInv
<1> QED BY <1>1, <1>2, <1>3, PTL DEF Spec
==============================================================================
