----------------------------- MODULE KicksProof ------------------------------
(***************************************************************************)
(* For any number of functions, queues and windows, whatever KVM refuses:  *)
(* a kick finds its own device, and no kick is lost other than to a        *)
(* suspend or to a registration that overtakes its exit.                   *)
(***************************************************************************)
EXTENDS Kicks, TLAPS

(* The prover of every leaf that names no other. *)
USE ZenonT(60)

(* How far a sweep has come.  Outside a configuration write a sweep runs   *)
(* only while the vCPUs are parked, and windows do not overlap.            *)
SweepInv ==
    /\ pass = "idle" => todo = {} /\ dev = None /\ mover = None
    /\ dev = None => left = {} /\ mid = None
    /\ mid # None => mid \in left
    /\ dev # None => dev \notin todo
    /\ pass # "idle" /\ mover = None => vm = "parked"
    /\ \A d \in claim : window[d] # None
    /\ pass = "claim" => todo \subseteq claim /\ dev \in claim \cup {None}
    /\ \A d, e \in Devices : window[d] = window[e] /\ window[d] # None => d = e

(* A slot the first pass has dealt with is registered nowhere, or where    *)
(* its BAR decodes.                                                        *)
Settled(d) == base[d] \in {None, window[d]}

(* The kernel's, the notifier's and the transport's view of one queue.     *)
Agree(d, q) ==
    /\ q \in offloaded[d] => q \in held[d]
    /\ q \in held[d] =>
        \/ <<base[d], q, d>> \in kvm
        \/ pass = "claim" /\ dev = d /\ <<window[d], q, d>> \in kvm
        \/ pass = "release" /\ dev = d /\ (q \notin left \/ q = mid)
    /\ pass = "release" /\ dev = d => (q \in offloaded[d] => q \in left)
    /\ base[d] = None /\ (pass # "claim" \/ dev # d) => q \notin held[d]

(* What KVM has belongs to a notifier that knows of it. *)
KernelInv ==
    \A e \in kvm :
        \/ /\ e[1] = base[e[3]] /\ e[2] \in held[e[3]]
           /\ pass = "release" /\ dev = e[3] => e[2] \in left \ {mid}
        \/ /\ pass = "claim" /\ dev = e[3] /\ e[1] = window[e[3]]
           /\ e[2] \in held[e[3]] \cup {mid}

AgreeInv == \A d \in Devices : \A q \in Queues : Agree(d, q)

(* What each pass has done so far. *)
PassInv ==
    /\ \A d \in Devices : base[d] # None => held[d] # {}
    /\ pass = "release" /\ dev # None => base[dev] # None /\ ~Settled(dev)
    /\ pass = "release" => \A d \in Devices \ (todo \cup {dev}) : Settled(d)
    /\ pass = "release" => \A d \in claim \ {dev} : base[d] = None
    /\ pass = "claim" => \A d \in Devices : Settled(d)
    /\ pass = "claim" /\ mid # None => <<window[dev], mid, dev>> \in kvm
    /\ pass = "claim" => \A d \in todo \cup {dev} : d \in Devices => base[d] = None

(* Nobody else's registration sits where a running guest may kick. *)
ClearInv ==
    vm = "running" \/ pass = "idle" =>
        \A d \in Devices \ {mover} : window[d] # None =>
            Settled(d) /\ \A e \in Devices \ {d} : base[e] # window[d]

BusInv == KernelInv /\ AgreeInv /\ PassInv /\ ClearInv

(* Who still has a kick that has not been answered.  An exit whose queue   *)
(* has become offloaded carries nothing.                                   *)
ExitsInv ==
    \A d \in Devices : \A q \in exits[d] \cap offloaded[d] \cap owed[d] :
        q \in efd[d] \/ worker[d] = q \/ q \in forgotten[d] \cup overtaken[d]

CarryInv ==
    /\ \A d \in Devices \ live : owed[d] = {}
    /\ KickIsCarried
    /\ ExitsInv

IInv == TypeOK /\ SweepInv /\ BusInv /\ CarryInv

LEMMA NoneIsNew == None \notin Devices /\ None \notin Queues /\ None \notin Addrs
  BY KicksAssumption

USE NoneIsNew

(* The types of what a sweep reads and writes, and of what a kick does. *)
BusType ==
    /\ window \in [Devices -> Addrs \cup {None}]
    /\ kvm \subseteq Addrs \X Queues \X Devices
    /\ base \in [Devices -> Addrs \cup {None}]
    /\ held \in [Devices -> SUBSET Queues]
    /\ offloaded \in [Devices -> SUBSET Queues]

SweepType ==
    /\ pass \in {"idle", "release", "claim"}
    /\ todo \subseteq Devices /\ claim \subseteq Devices
    /\ dev \in Devices \cup {None}
    /\ left \subseteq Queues
    /\ mid \in Queues \cup {None}
    /\ mover \in Devices \cup {None}

CarryType ==
    /\ live \subseteq Devices
    /\ efd \in [Devices -> SUBSET Queues]
    /\ exits \in [Devices -> SUBSET Queues]
    /\ worker \in [Devices -> Queues \cup {None}]
    /\ owed \in [Devices -> SUBSET Queues]
    /\ forgotten \in [Devices -> SUBSET Queues]
    /\ overtaken \in [Devices -> SUBSET Queues]

LEMMA Types == TypeOK => BusType /\ SweepType /\ CarryType
  BY DEF TypeOK, PerDevice, BusType, SweepType, CarryType

LEMMA InitIInv == ASSUME Init PROVE IInv
<1> USE KicksAssumption DEF Init, Nothing, PerDevice
<1>0. PICK h \in PerDevice : held = h /\ Attached(base, h, kvm, offloaded)
  OBVIOUS
<1> USE DEF Attached
<1>1. TypeOK
  BY <1>0 DEF TypeOK
<1>2. SweepInv
  BY DEF SweepInv
<1>3. BusInv
  BY <1>0, SMTT(60) DEF BusInv, KernelInv, AgreeInv, PassInv, ClearInv, Agree, Settled
<1>4. CarryInv
  BY DEF CarryInv, KickIsCarried, Carried, ExitsInv
<1> QED BY <1>1, <1>2, <1>3, <1>4 DEF IInv

LEMMA BusUntouched ==
    ASSUME BusInv, UNCHANGED <<window, bus, sweep>>
    PROVE  KernelInv' /\ AgreeInv' /\ PassInv'
<1> USE DEF bus, sweep, history
<1>1. KernelInv'
  BY DEF BusInv, KernelInv
<1>2. AgreeInv'
  BY SMTT(60) DEF BusInv, AgreeInv, Agree
<1>3. PassInv'
  BY DEF BusInv, PassInv, Settled
<1> QED BY <1>1, <1>2, <1>3

LEMMA Untouched ==
    ASSUME SweepInv, BusInv, UNCHANGED <<vm, window, bus, sweep>>
    PROVE  SweepInv' /\ BusInv'
<1>1. SweepInv'
  BY DEF SweepInv, sweep
<1>2. ClearInv'
  BY DEF BusInv, ClearInv, Settled, bus, sweep
<1> QED BY <1>1, <1>2, BusUntouched DEF BusInv

LEMMA Undisturbed ==
    ASSUME CarryInv, UNCHANGED <<live, efd, exits, worker, history>>,
           \A d \in Devices : offloaded'[d] \subseteq offloaded[d]
    PROVE  CarryInv'
  BY DEF CarryInv, KickIsCarried, Carried, ExitsInv, history

LEMMA ReachDevice == ASSUME IInv PROVE KicksReachTheirDevice
<1> SUFFICES ASSUME NEW d \in Devices, Reachable(d), NEW q \in Queues
             PROVE  /\ \A e \in Devices : <<window[d], q, e>> \in kvm => e = d
                    /\ q \in offloaded[d] => <<window[d], q, d>> \in kvm
  BY DEF KicksReachTheirDevice
<1> USE DEF IInv, Reachable
<1>1. Settled(d) /\ \A e \in Devices \ {d} : base[e] # window[d]
  BY DEF BusInv, ClearInv
<1>2. ASSUME NEW e \in Devices, <<window[d], q, e>> \in kvm PROVE e = d
  BY <1>1, <1>2 DEF BusInv, KernelInv, SweepInv, TypeOK
<1>3. ASSUME q \in offloaded[d] PROVE <<window[d], q, d>> \in kvm
  <2>1. Agree(d, q)
    BY DEF BusInv, AgreeInv
  <2>2. ~(pass = "release" /\ dev = d)
    BY <1>1 DEF BusInv, PassInv
  <2> QED BY <1>1, <1>3, <2>1, <2>2, SMTT(60) DEF Agree, Settled, TypeOK
<1> QED BY <1>2, <1>3

LEMMA KickStep ==
    ASSUME IInv, NEW d \in Devices, NEW q \in Queues, Kick(d, q)
    PROVE  IInv'
<1>0. BusType /\ SweepType /\ CarryType /\ SweepInv /\ BusInv /\ CarryInv
  BY Types DEF IInv
<1> USE DEF bus, sweep, Kick, Reachable
<1>a. /\ \A e \in Devices : <<window[d], q, e>> \in kvm => e = d
      /\ q \in offloaded[d] => <<window[d], q, d>> \in kvm
  BY ReachDevice DEF KicksReachTheirDevice
<1>b. /\ owed' = [owed EXCEPT ![d] = @ \cup {q}]
      /\ forgotten' = [forgotten EXCEPT ![d] = @ \ {q}]
      /\ overtaken' = [overtaken EXCEPT ![d] = @ \ {q}]
      /\ UNCHANGED <<live, offloaded, worker>>
  OBVIOUS
<1>c. \/ efd' = [efd EXCEPT ![d] = @ \cup {q}] /\ UNCHANGED exits
      \/ exits' = [exits EXCEPT ![d] = @ \cup {q}] /\ UNCHANGED efd /\ q \notin offloaded[d]
  BY <1>a
<1>1. TypeOK'
  BY <1>b, <1>c, SMTT(60) DEF IInv, TypeOK, PerDevice
<1>2. SweepInv' /\ BusInv'
  BY <1>0, Untouched
<1>3. CarryInv'
  <2>1. CASE efd' = [efd EXCEPT ![d] = @ \cup {q}] /\ UNCHANGED exits
    BY <1>0, <1>b, <2>1, SMTT(60)
      DEF CarryType, CarryInv, KickIsCarried, Carried, ExitsInv
  <2>2. CASE exits' = [exits EXCEPT ![d] = @ \cup {q}] /\ UNCHANGED efd
             /\ q \notin offloaded[d]
    BY <1>0, <1>b, <2>2, SMTT(60)
      DEF CarryType, CarryInv, KickIsCarried, Carried, ExitsInv
  <2> QED BY <1>c, <2>1, <2>2
<1> QED BY ONLY <1>1, <1>2, <1>3, ZenonT(60) DEF IInv

LEMMA RegisterPathStep ==
    ASSUME IInv, NEW d \in Devices, NEW q \in Queues, RegisterPath(d, q)
    PROVE  IInv'
<1>0. BusType /\ SweepType /\ CarryType /\ SweepInv /\ BusInv /\ CarryInv
  BY Types DEF IInv
<1> USE DEF bus, sweep, history, RegisterPath, QueueNotify
<1>1. TypeOK'
  BY SMTT(60) DEF IInv, TypeOK, PerDevice
<1>2. SweepInv' /\ BusInv'
  BY <1>0, Untouched
<1>3. CarryInv'
  <2>1. CASE q \in offloaded[d] \/ d \notin live
    <3>1. /\ exits' = [exits EXCEPT ![d] = @ \ {q}]
          /\ UNCHANGED <<live, efd, worker, offloaded, history>>
      BY <2>1
    <3> QED BY <1>0, <2>1, <3>1, SMTT(60)
          DEF CarryType, CarryInv, KickIsCarried, Carried, ExitsInv
  <2>2. CASE q \notin offloaded[d] /\ d \in live
    <3>1. /\ exits' = [exits EXCEPT ![d] = @ \ {q}]
          /\ owed' = [owed EXCEPT ![d] = @ \ {q}]
          /\ forgotten' = [forgotten EXCEPT ![d] = @ \ {q}]
          /\ overtaken' = [overtaken EXCEPT ![d] = @ \ {q}]
          /\ UNCHANGED <<live, efd, worker, offloaded>>
      BY <2>2
    <3> QED BY <1>0, <3>1, SMTT(60)
          DEF CarryType, CarryInv, KickIsCarried, Carried, ExitsInv
  <2> QED BY <2>1, <2>2
<1> QED BY ONLY <1>1, <1>2, <1>3, ZenonT(60) DEF IInv

LEMMA TakeStep ==
    ASSUME IInv, NEW d \in Devices, NEW q \in Queues, Take(d, q)
    PROVE  IInv'
<1>0. BusType /\ SweepType /\ CarryType /\ SweepInv /\ BusInv /\ CarryInv
  BY Types DEF IInv
<1> USE DEF bus, sweep, history, Take
<1>1. TypeOK'
  BY SMTT(60) DEF IInv, TypeOK, PerDevice, SweepInv
<1>2. SweepInv' /\ BusInv'
  BY <1>0, Untouched
<1>3. CarryInv'
  BY <1>0, SMTT(60) DEF CarryType, CarryInv, KickIsCarried, Carried, ExitsInv
<1> QED BY ONLY <1>1, <1>2, <1>3, ZenonT(60) DEF IInv

LEMMA PassGateStep ==
    ASSUME IInv, NEW d \in Devices, PassGate(d)
    PROVE  IInv'
<1>0. BusType /\ SweepType /\ CarryType /\ SweepInv /\ BusInv /\ CarryInv
  BY Types DEF IInv
<1> USE DEF bus, sweep, history, PassGate
<1>1. TypeOK'
  BY SMTT(60) DEF IInv, TypeOK, PerDevice, SweepInv
<1>2. SweepInv' /\ BusInv'
  BY <1>0, Untouched
<1>3. CarryInv'
  BY <1>0 DEF CarryType, CarryInv, KickIsCarried, Carried, ExitsInv
<1> QED BY ONLY <1>1, <1>2, <1>3, ZenonT(60) DEF IInv

LEMMA ServeStep ==
    ASSUME IInv, NEW d \in Devices, Serve(d)
    PROVE  IInv'
<1>0. BusType /\ SweepType /\ CarryType /\ SweepInv /\ BusInv /\ CarryInv
  BY Types DEF IInv
<1> USE DEF bus, sweep, history, Serve, QueueNotify
<1>1. TypeOK'
  BY SMTT(60) DEF IInv, TypeOK, PerDevice
<1>2. SweepInv' /\ BusInv'
  BY <1>0, Untouched
<1>3. CarryInv'
  <2>1. worker' = [worker EXCEPT ![d] = None] /\ UNCHANGED <<live, efd, exits, offloaded>>
    OBVIOUS
  <2>2. CASE d \notin live
    <3>1. UNCHANGED history
      BY <2>2
    <3> QED BY <1>0, <2>1, <2>2, <3>1, SMTT(60)
          DEF CarryType, CarryInv, KickIsCarried, Carried, ExitsInv
  <2>3. CASE d \in live
    <3>1. /\ owed' = [owed EXCEPT ![d] = @ \ {worker[d]}]
          /\ forgotten' = [forgotten EXCEPT ![d] = @ \ {worker[d]}]
          /\ overtaken' = [overtaken EXCEPT ![d] = @ \ {worker[d]}]
      BY <2>3
    <3> QED BY <1>0, <2>1, <3>1, SMTT(60)
          DEF CarryType, CarryInv, KickIsCarried, Carried, ExitsInv
  <2> QED BY <2>2, <2>3
<1> QED BY ONLY <1>1, <1>2, <1>3, ZenonT(60) DEF IInv

LEMMA DriverOkStep ==
    ASSUME IInv, NEW d \in Devices, DriverOk(d)
    PROVE  IInv'
<1>0. BusType /\ SweepType /\ CarryType /\ SweepInv /\ BusInv /\ CarryInv
  BY Types DEF IInv
<1> USE DEF bus, sweep, history, DriverOk, Reachable
<1>1. TypeOK'
  BY SMTT(60) DEF IInv, TypeOK, PerDevice, SweepInv
<1>2. SweepInv' /\ BusInv'
  BY <1>0, Untouched
<1>3. CarryInv'
  BY <1>0 DEF CarryType, CarryInv, KickIsCarried, Carried, ExitsInv
<1> QED BY ONLY <1>1, <1>2, <1>3, ZenonT(60) DEF IInv

LEMMA DeviceResetStep ==
    ASSUME IInv, NEW d \in Devices, DeviceReset(d)
    PROVE  IInv'
<1>0. BusType /\ SweepType /\ CarryType /\ SweepInv /\ BusInv /\ CarryInv
  BY Types DEF IInv
<1> USE DEF bus, sweep, history, DeviceReset, Reachable
<1>1. TypeOK'
  BY DEF IInv, TypeOK, PerDevice, SweepInv
<1>2. SweepInv' /\ BusInv'
  BY <1>0, Untouched
<1>3. CarryInv'
  BY <1>0, SMTT(60) DEF CarryType, CarryInv, KickIsCarried, Carried, ExitsInv
<1> QED BY ONLY <1>1, <1>2, <1>3, ZenonT(60) DEF IInv

LEMMA MoveBarStep ==
    ASSUME IInv, NEW d \in Devices, NEW a \in Addrs \cup {None}, MoveBar(d, a)
    PROVE  IInv'
<1>0. BusType /\ SweepType /\ CarryType /\ SweepInv /\ BusInv /\ CarryInv
  BY Types DEF IInv
<1> USE DEF bus, sweep, history, MoveBar, StartSweep
<1>1. TypeOK'
  BY DEF IInv, TypeOK, PerDevice, SweepInv
<1>2. SweepInv'
  BY <1>0, SMTT(60) DEF SweepType, SweepInv
<1>3. BusInv'
  <2>1. KernelInv'
    BY <1>0, SMTT(60) DEF BusType, SweepType, SweepInv, BusInv, KernelInv, PassInv,
        Settled
  <2>2. AgreeInv'
    BY <1>0, SMTT(60) DEF BusType, SweepType, SweepInv, BusInv, KernelInv, AgreeInv,
        Agree, PassInv, Settled
  <2>3. PassInv'
    BY <1>0 DEF BusType, SweepType, SweepInv, BusInv, AgreeInv, Agree, PassInv, Settled
  <2>4. ClearInv'
    BY <1>0, SMTT(60) DEF BusType, SweepType, SweepInv, BusInv, PassInv, ClearInv, Settled
  <2> QED BY ONLY <2>1, <2>2, <2>3, <2>4, ZenonT(60) DEF BusInv
<1>4. CarryInv'
  BY <1>0, Undisturbed
<1> QED BY ONLY <1>1, <1>2, <1>3, <1>4, ZenonT(60) DEF IInv

LEMMA ReleaseStep ==
    ASSUME IInv, NEW d \in Devices, Release(d)
    PROVE  IInv'
<1>0. BusType /\ SweepType /\ CarryType /\ SweepInv /\ BusInv /\ CarryInv
  BY Types DEF IInv
<1> USE DEF bus, sweep, history, Release
<1>1. TypeOK'
  BY SMTT(60) DEF IInv, TypeOK, PerDevice, SweepInv
<1>2. SweepInv'
  BY <1>0 DEF SweepType, SweepInv
<1>3. BusInv'
  <2>1. KernelInv'
    BY <1>0, SMTT(60) DEF BusType, SweepType, SweepInv, BusInv, KernelInv, PassInv,
        Settled
  <2>2. AgreeInv'
    BY <1>0, SMTT(60) DEF BusType, SweepType, SweepInv, BusInv, KernelInv, AgreeInv,
        Agree, PassInv, Settled
  <2>3. PassInv'
    <3>1. base[d] = None => held[d] = {}
      <4>1. base[d] = None => \A r \in Queues : r \notin held[d]
        BY <1>0 DEF BusInv, AgreeInv, Agree
      <4> QED BY <1>0, <4>1 DEF BusType, SweepType
    <3>2. base[d] # None => held[d] # {}
      BY <1>0 DEF BusInv, PassInv
    <3> QED BY <1>0, <3>1, <3>2, SMTT(60) DEF BusType, SweepType, SweepInv, BusInv,
        PassInv, Settled
  <2>4. ClearInv'
    BY <1>0 DEF BusType, SweepType, SweepInv, BusInv, PassInv, ClearInv, Settled
  <2> QED BY ONLY <2>1, <2>2, <2>3, <2>4, ZenonT(60) DEF BusInv
<1>4. CarryInv'
  BY <1>0, Undisturbed
<1> QED BY ONLY <1>1, <1>2, <1>3, <1>4, ZenonT(60) DEF IInv

LEMMA RebaseStep ==
    ASSUME IInv, NEW d \in Devices, Rebase(d)
    PROVE  IInv'
<1>0. BusType /\ SweepType /\ CarryType /\ SweepInv /\ BusInv /\ CarryInv
  BY Types DEF IInv
<1> USE DEF bus, sweep, history, Rebase
<1>1. TypeOK'
  BY DEF IInv, TypeOK, PerDevice, SweepInv
<1>2. SweepInv'
  BY <1>0 DEF SweepType, SweepInv
<1>3. BusInv'
  <2>1. KernelInv'
    BY <1>0, SMTT(60) DEF BusType, SweepType, SweepInv, BusInv, KernelInv, PassInv,
        Settled
  <2>2. AgreeInv'
    BY <1>0, SMTT(60) DEF BusType, SweepType, SweepInv, BusInv, KernelInv, AgreeInv,
        Agree, PassInv, Settled
  <2>3. PassInv'
    BY <1>0, SMTT(60) DEF BusType, SweepType, SweepInv, BusInv, AgreeInv, Agree, PassInv,
        Settled
  <2>4. ClearInv'
    BY <1>0 DEF BusType, SweepType, SweepInv, BusInv, PassInv, ClearInv, Settled
  <2> QED BY ONLY <2>1, <2>2, <2>3, <2>4, ZenonT(60) DEF BusInv
<1>4. CarryInv'
  BY <1>0, Undisturbed
<1> QED BY ONLY <1>1, <1>2, <1>3, <1>4, ZenonT(60) DEF IInv

LEMMA DeassignStep ==
    ASSUME IInv, NEW q \in Queues, Deassign(q)
    PROVE  IInv'
<1>0. BusType /\ SweepType /\ CarryType /\ SweepInv /\ BusInv /\ CarryInv
  BY Types DEF IInv
<1> USE DEF bus, sweep, history, Deassign
<1>1. TypeOK'
  BY DEF IInv, TypeOK, PerDevice, SweepInv
<1>2. SweepInv'
  BY <1>0 DEF SweepType, SweepInv
<1>3. BusInv'
  <2>1. KernelInv'
    BY <1>0, SMTT(60) DEF BusType, SweepType, SweepInv, BusInv, KernelInv, PassInv,
        Settled
  <2>2. AgreeInv'
    BY <1>0, SMTT(60) DEF BusType, SweepType, SweepInv, BusInv, KernelInv, AgreeInv,
        Agree, PassInv, Settled
  <2>3. PassInv'
    BY <1>0 DEF BusType, SweepType, SweepInv, BusInv, AgreeInv, Agree, PassInv, Settled
  <2>4. ClearInv'
    BY <1>0 DEF BusType, SweepType, SweepInv, BusInv, PassInv, ClearInv, Settled
  <2> QED BY ONLY <2>1, <2>2, <2>3, <2>4, ZenonT(60) DEF BusInv
<1>4. CarryInv'
  BY <1>0, Undisturbed
<1> QED BY ONLY <1>1, <1>2, <1>3, <1>4, ZenonT(60) DEF IInv

LEMMA RegisterStep ==
    ASSUME IInv, NEW q \in Queues, Register(q)
    PROVE  IInv'
<1>0. BusType /\ SweepType /\ CarryType /\ SweepInv /\ BusInv /\ CarryInv
  BY Types DEF IInv
<1> USE DEF bus, sweep, history, Register, Taken
<1>1. TypeOK'
  BY SMTT(60) DEF IInv, TypeOK, PerDevice, SweepInv
<1>2. SweepInv'
  BY <1>0 DEF SweepType, SweepInv
<1>3. BusInv'
  <2>1. KernelInv'
    BY <1>0, SMTT(60) DEF BusType, SweepType, SweepInv, BusInv, KernelInv, PassInv,
        Settled
  <2>2. AgreeInv'
    BY <1>0 DEF BusType, SweepType, SweepInv, BusInv, KernelInv, AgreeInv, Agree,
        PassInv, Settled
  <2>3. PassInv'
    BY <1>0 DEF BusType, SweepType, SweepInv, BusInv, AgreeInv, Agree, PassInv, Settled
  <2>4. ClearInv'
    BY <1>0 DEF BusType, SweepType, SweepInv, BusInv, PassInv, ClearInv, Settled
  <2> QED BY ONLY <2>1, <2>2, <2>3, <2>4, ZenonT(60) DEF BusInv
<1>4. CarryInv'
  BY <1>0, Undisturbed
<1> QED BY ONLY <1>1, <1>2, <1>3, <1>4, ZenonT(60) DEF IInv

LEMMA RefusedStep ==
    ASSUME IInv, NEW q \in Queues, Refused(q)
    PROVE  IInv'
<1>0. BusType /\ SweepType /\ CarryType /\ SweepInv /\ BusInv /\ CarryInv
  BY Types DEF IInv
<1> USE DEF bus, sweep, history, Refused, Taken, QueueDone
<1>1. TypeOK'
  BY SMTT(60) DEF IInv, TypeOK, PerDevice, SweepInv
<1>2. SweepInv'
  BY <1>0 DEF SweepType, SweepInv
<1>3. BusInv'
  <2>1. KernelInv'
    BY <1>0, SMTT(60) DEF BusType, SweepType, SweepInv, BusInv, KernelInv, PassInv,
        Settled
  <2>2. AgreeInv'
    <3> SUFFICES ASSUME NEW x \in Devices, NEW r \in Queues PROVE Agree(x, r)'
      BY <1>0 DEF AgreeInv
    <3>1. Agree(x, r)
      BY <1>0 DEF BusInv, AgreeInv
    <3> QED BY <1>0, <3>1, SMTT(60) DEF BusType, SweepType, SweepInv, BusInv, KernelInv,
        Agree, PassInv, Settled
  <2>3. PassInv'
    BY <1>0, SMTT(60) DEF BusType, SweepType, SweepInv, BusInv, AgreeInv, Agree, PassInv,
        Settled
  <2>4. ClearInv'
    BY <1>0, SMTT(60) DEF BusType, SweepType, SweepInv, BusInv, PassInv, ClearInv, Settled
  <2> QED BY ONLY <2>1, <2>2, <2>3, <2>4, ZenonT(60) DEF BusInv
<1>4. CarryInv'
  BY <1>0, Undisturbed
<1> QED BY ONLY <1>1, <1>2, <1>3, <1>4, ZenonT(60) DEF IInv

LEMMA RestoreNotifyStep ==
    ASSUME IInv, RestoreNotify
    PROVE  IInv'
<1>0. BusType /\ SweepType /\ CarryType /\ SweepInv /\ BusInv /\ CarryInv
  BY Types DEF IInv
<1> USE DEF bus, sweep, history, RestoreNotify, Unregistered
<1>1. TypeOK'
  BY SMTT(60) DEF IInv, TypeOK, PerDevice, SweepInv
<1>2. SweepInv'
  BY <1>0 DEF SweepType, SweepInv
<1>3. BusInv'
  <2>1. KernelInv'
    BY <1>0, SMTT(60) DEF BusType, SweepType, SweepInv, BusInv, KernelInv, PassInv,
        Settled
  <2>2. AgreeInv'
    <3> SUFFICES ASSUME NEW x \in Devices, NEW r \in Queues PROVE Agree(x, r)'
      BY <1>0 DEF AgreeInv
    <3>1. Agree(x, r)
      BY <1>0 DEF BusInv, AgreeInv
    <3> QED BY <1>0, <3>1, SMTT(60) DEF BusType, SweepType, SweepInv, BusInv, KernelInv,
        Agree, PassInv, Settled
  <2>3. PassInv'
    BY <1>0, SMTT(60) DEF BusType, SweepType, SweepInv, BusInv, AgreeInv, Agree, PassInv,
        Settled
  <2>4. ClearInv'
    BY <1>0, SMTT(60) DEF BusType, SweepType, SweepInv, BusInv, PassInv, ClearInv, Settled
  <2> QED BY ONLY <2>1, <2>2, <2>3, <2>4, ZenonT(60) DEF BusInv
<1>4. CarryInv'
  <2>1. \A d \in Devices : offloaded'[d] \subseteq offloaded[d]
    BY <1>0, SMTT(60) DEF BusType, SweepType, SweepInv
  <2> QED BY <1>0, <2>1, Undisturbed
<1> QED BY ONLY <1>1, <1>2, <1>3, <1>4, ZenonT(60) DEF IInv

LEMMA MarkOffloadedStep ==
    ASSUME IInv, MarkOffloaded
    PROVE  IInv'
<1>0. BusType /\ SweepType /\ CarryType /\ SweepInv /\ BusInv /\ CarryInv
  BY Types DEF IInv
<1> USE DEF bus, sweep, history, MarkOffloaded, QueueDone
<1>1. TypeOK'
  BY SMTT(60) DEF IInv, TypeOK, PerDevice, SweepInv
<1>2. SweepInv'
  BY <1>0 DEF SweepType, SweepInv
<1>3. BusInv'
  <2>1. KernelInv'
    BY <1>0, SMTT(60) DEF BusType, SweepType, SweepInv, BusInv, KernelInv, PassInv,
        Settled
  <2>2. AgreeInv'
    <3> SUFFICES ASSUME NEW x \in Devices, NEW r \in Queues PROVE Agree(x, r)'
      BY <1>0 DEF AgreeInv
    <3>1. Agree(x, r) /\ <<window[dev], mid, dev>> \in kvm /\ dev \in Devices
      BY <1>0 DEF BusInv, AgreeInv, PassInv, SweepInv, BusType, SweepType
    <3>2. CASE x # dev
      BY <1>0, <3>1, <3>2, SMTT(60) DEF BusType, SweepType, SweepInv, Agree
    <3>3. CASE x = dev /\ left # {mid}
      <4>1. /\ held'[dev] = held[dev] \cup {mid} /\ offloaded'[dev] = offloaded[dev] \cup {mid}
            /\ UNCHANGED <<base, window, dev, pass, kvm>>
        BY <1>0, <3>1, <3>3 DEF BusType, SweepType
      <4>2. base[dev] = None /\ pass = "claim"
        BY <1>0, <3>1 DEF BusType, SweepType, SweepInv, BusInv, PassInv
      <4>3. r \in held[dev] => <<window[dev], r, dev>> \in kvm
        BY <1>0, <3>1, <3>3, <4>2 DEF BusType, SweepType, Agree
      <4> QED BY <3>1, <3>3, <4>1, <4>2, <4>3 DEF Agree
    <3>4. CASE x = dev /\ left = {mid}
      <4>1. base'[dev] = window[dev] /\ held'[dev] = held[dev] \cup {mid} /\ dev' = None
        BY <1>0, <3>1, <3>4 DEF BusType, SweepType
      <4>2. base[dev] = None /\ window[dev] # None
        BY <1>0, <3>1 DEF BusType, SweepType, SweepInv, BusInv, PassInv
      <4>3. r \in held[dev] => <<window[dev], r, dev>> \in kvm
        BY <1>0, <3>1, <3>4, <4>2 DEF BusType, SweepType, Agree
      <4> QED BY <1>0, <3>1, <3>4, <4>1, <4>2, <4>3 DEF BusType, SweepType, Agree
    <3> QED BY <3>2, <3>3, <3>4
  <2>3. PassInv'
    <3>1. held'[dev] # {} /\ dev \in Devices
      BY <1>0, SMTT(60) DEF BusType, SweepType, SweepInv
    <3>2. CASE left = {mid}
      <4>1. base' = [base EXCEPT ![dev] = window[dev]] /\ dev' = None /\ mid' = None
        BY <3>1, <3>2
      <4>2. \A d \in Devices : Settled(d)'
        BY <1>0, <3>1, <4>1 DEF BusType, SweepType, BusInv, PassInv, Settled
      <4>3. \A d \in Devices : base'[d] # None => held'[d] # {}
        BY <1>0, <3>1, <4>1 DEF BusType, SweepType, BusInv, PassInv
      <4>4. \A d \in todo : base'[d] = None
        BY <1>0, <3>1, <4>1 DEF BusType, SweepType, SweepInv, BusInv, PassInv
      <4> QED BY <4>1, <4>2, <4>3, <4>4 DEF PassInv
    <3>3. CASE left # {mid}
      BY <1>0, <3>1, <3>3 DEF BusType, SweepType, SweepInv, BusInv, PassInv, Settled
    <3> QED BY <3>2, <3>3
  <2>4. ClearInv'
    BY <1>0, SMTT(60) DEF BusType, SweepType, SweepInv, BusInv, PassInv, ClearInv, Settled
  <2> QED BY ONLY <2>1, <2>2, <2>3, <2>4, ZenonT(60) DEF BusInv
<1>4. CarryInv'
  <2>1. /\ offloaded' = [offloaded EXCEPT ![dev] = @ \cup {mid}]
        /\ overtaken' = [overtaken EXCEPT ![dev] = @ \cup (exits[dev] \cap {mid})]
        /\ UNCHANGED <<live, efd, exits, worker, owed, forgotten>> /\ dev \in Devices
    BY <1>0 DEF SweepType, SweepInv
  <2> QED BY <1>0, <2>1, SMTT(60)
        DEF BusType, CarryType, CarryInv, KickIsCarried, Carried, ExitsInv
<1> QED BY ONLY <1>1, <1>2, <1>3, <1>4, ZenonT(60) DEF IInv

LEMMA SecondPassStep ==
    ASSUME IInv, SecondPass
    PROVE  IInv'
<1>0. BusType /\ SweepType /\ CarryType /\ SweepInv /\ BusInv /\ CarryInv
  BY Types DEF IInv
<1> USE DEF bus, sweep, history, SecondPass
<1>1. TypeOK'
  BY DEF IInv, TypeOK, PerDevice, SweepInv
<1>2. SweepInv'
  BY <1>0 DEF SweepType, SweepInv
<1>3. BusInv'
  <2>1. KernelInv'
    BY <1>0 DEF BusType, SweepType, SweepInv, BusInv, KernelInv, PassInv, Settled
  <2>2. AgreeInv'
    BY <1>0, SMTT(60) DEF BusType, SweepType, SweepInv, BusInv, KernelInv, AgreeInv,
        Agree, PassInv, Settled
  <2>3. PassInv'
    BY <1>0, SMTT(60) DEF BusType, SweepType, SweepInv, BusInv, AgreeInv, Agree, PassInv,
        Settled
  <2>4. ClearInv'
    BY <1>0 DEF BusType, SweepType, SweepInv, BusInv, PassInv, ClearInv, Settled
  <2> QED BY ONLY <2>1, <2>2, <2>3, <2>4, ZenonT(60) DEF BusInv
<1>4. CarryInv'
  BY <1>0, Undisturbed
<1> QED BY ONLY <1>1, <1>2, <1>3, <1>4, ZenonT(60) DEF IInv

LEMMA EndSweepStep ==
    ASSUME IInv, EndSweep
    PROVE  IInv'
<1>0. BusType /\ SweepType /\ CarryType /\ SweepInv /\ BusInv /\ CarryInv
  BY Types DEF IInv
<1> USE DEF bus, sweep, history, EndSweep
<1>1. TypeOK'
  BY DEF IInv, TypeOK, PerDevice, SweepInv
<1>2. SweepInv'
  BY <1>0 DEF SweepType, SweepInv
<1>3. BusInv'
  <2>1. KernelInv'
    BY <1>0, SMTT(60) DEF BusType, SweepType, SweepInv, BusInv, KernelInv, PassInv,
        Settled
  <2>2. AgreeInv'
    <3> SUFFICES ASSUME NEW x \in Devices, NEW r \in Queues PROVE Agree(x, r)'
      BY <1>0 DEF AgreeInv
    <3>1. Agree(x, r)
      BY <1>0 DEF BusInv, AgreeInv
    <3> QED BY <1>0, <3>1 DEF BusType, SweepType, SweepInv, BusInv, KernelInv, Agree,
        PassInv, Settled
  <2>3. PassInv'
    BY <1>0 DEF BusType, SweepType, SweepInv, BusInv, AgreeInv, Agree, PassInv, Settled
  <2>4. ClearInv'
    BY <1>0, SMTT(60) DEF BusType, SweepType, SweepInv, BusInv, PassInv, ClearInv, Settled
  <2> QED BY ONLY <2>1, <2>2, <2>3, <2>4, ZenonT(60) DEF BusInv
<1>4. CarryInv'
  BY <1>0, Undisturbed
<1> QED BY ONLY <1>1, <1>2, <1>3, <1>4, ZenonT(60) DEF IInv

LEMMA PauseStep ==
    ASSUME IInv, Pause
    PROVE  IInv'
<1>0. BusType /\ SweepType /\ CarryType /\ SweepInv /\ BusInv /\ CarryInv
  BY Types DEF IInv
<1> USE DEF bus, sweep, history, Pause
<1>1. TypeOK'
  BY DEF IInv, TypeOK, PerDevice, SweepInv
<1>2. SweepInv'
  BY <1>0 DEF SweepType, SweepInv
<1>3. BusInv'
  <2>1. KernelInv' /\ AgreeInv' /\ PassInv'
    BY <1>0, BusUntouched
  <2>2. ClearInv'
    BY <1>0 DEF BusType, SweepType, SweepInv, BusInv, PassInv, ClearInv, Settled
  <2> QED BY ONLY <2>1, <2>2, ZenonT(60) DEF BusInv
<1>4. CarryInv'
  BY <1>0, Undisturbed
<1> QED BY ONLY <1>1, <1>2, <1>3, <1>4, ZenonT(60) DEF IInv

LEMMA ResumeStep ==
    ASSUME IInv, Resume
    PROVE  IInv'
<1>0. BusType /\ SweepType /\ CarryType /\ SweepInv /\ BusInv /\ CarryInv
  BY Types DEF IInv
<1> USE DEF bus, sweep, history, Resume
<1>1. TypeOK'
  BY DEF IInv, TypeOK, PerDevice, SweepInv
<1>2. SweepInv'
  BY <1>0 DEF SweepType, SweepInv
<1>3. BusInv'
  <2>1. KernelInv' /\ AgreeInv' /\ PassInv'
    BY <1>0, BusUntouched
  <2>2. ClearInv'
    BY <1>0 DEF BusType, SweepType, SweepInv, BusInv, PassInv, ClearInv, Settled
  <2> QED BY ONLY <2>1, <2>2, ZenonT(60) DEF BusInv
<1>4. CarryInv'
  BY <1>0, Undisturbed
<1> QED BY ONLY <1>1, <1>2, <1>3, <1>4, ZenonT(60) DEF IInv

LEMMA MachineResetStep ==
    ASSUME IInv, MachineReset
    PROVE  IInv'
<1>0. BusType /\ SweepType /\ CarryType /\ SweepInv /\ BusInv /\ CarryInv
  BY Types DEF IInv
<1> USE DEF bus, sweep, history, MachineReset, StartSweep, Nothing
<1>1. TypeOK'
  BY KicksAssumption DEF IInv, TypeOK, PerDevice, SweepInv
<1>2. SweepInv'
  BY <1>0 DEF SweepType, SweepInv
<1>3. BusInv'
  <2>1. KernelInv'
    <3>1. pass = "idle" /\ dev = None /\ UNCHANGED <<kvm, base, held, dev>>
      BY <1>0 DEF SweepInv
    <3> QED BY <1>0, <3>1, SMTT(60) DEF BusType, BusInv, KernelInv
  <2>2. AgreeInv'
    <3> SUFFICES ASSUME NEW x \in Devices, NEW r \in Queues PROVE Agree(x, r)'
      BY <1>0 DEF AgreeInv
    <3>1. Agree(x, r) /\ dev = None /\ dev' = None
      BY <1>0 DEF BusInv, AgreeInv, SweepInv
    <3> QED BY <3>1 DEF Agree
  <2>3. PassInv'
    BY <1>0 DEF BusType, SweepType, SweepInv, BusInv, AgreeInv, Agree, PassInv, Settled
  <2>4. ClearInv'
    BY <1>0 DEF BusType, SweepType, SweepInv, BusInv, PassInv, ClearInv, Settled
  <2> QED BY ONLY <2>1, <2>2, <2>3, <2>4, ZenonT(60) DEF BusInv
<1>4. CarryInv'
  BY <1>0 DEF CarryType, CarryInv, KickIsCarried, Carried, ExitsInv
<1> QED BY ONLY <1>1, <1>2, <1>3, <1>4, ZenonT(60) DEF IInv

LEMMA SuspendStep ==
    ASSUME IInv, Suspend
    PROVE  IInv'
<1>0. BusType /\ SweepType /\ CarryType /\ SweepInv /\ BusInv /\ CarryInv
  BY Types DEF IInv
<1> USE DEF bus, sweep, history, StartSweep, Nothing, Attached
<1>h. PICK h \in PerDevice : held' = h /\ Attached(base', h, kvm', offloaded')
  BY DEF Suspend
<1>a. dev = None /\ dev' = None /\ pass' = "release" /\ todo' = Devices /\ claim' = {}
  BY <1>0 DEF Suspend, SweepInv
<1>b. /\ held' = h /\ offloaded' = h /\ h \in [Devices -> SUBSET Queues]
      /\ base' = [d \in Devices |-> IF h[d] = {} THEN None ELSE Home[d]]
      /\ kvm' = {e \in Addrs \X Queues \X Devices : e[1] = Home[e[3]] /\ e[2] \in h[e[3]]}
  BY <1>h DEF PerDevice
<1>1. TypeOK'
  BY <1>b, KicksAssumption DEF IInv, TypeOK, PerDevice, Suspend
<1>2. SweepInv'
  BY <1>0 DEF SweepType, SweepInv, Suspend
<1>3. BusInv'
  <2>1. KernelInv'
    BY <1>a, <1>b DEF KernelInv
  <2>2. AgreeInv'
    <3> SUFFICES ASSUME NEW x \in Devices, NEW r \in Queues PROVE Agree(x, r)'
      BY DEF AgreeInv
    <3> QED BY <1>a, <1>b, KicksAssumption, SMTT(60) DEF Agree
  <2>3. PassInv'
    BY <1>a, <1>b DEF PassInv
  <2>4. ClearInv'
    BY <1>a DEF ClearInv, Suspend
  <2> QED BY ONLY <2>1, <2>2, <2>3, <2>4, ZenonT(60) DEF BusInv
<1>4. CarryInv'
  BY <1>0 DEF CarryType, CarryInv, KickIsCarried, Carried, ExitsInv, Suspend
<1> QED BY ONLY <1>1, <1>2, <1>3, <1>4, ZenonT(60) DEF IInv

LEMMA StutterStep == ASSUME IInv, UNCHANGED vars PROVE IInv'
<1>1. TypeOK'
  BY DEF IInv, TypeOK, vars, bus, sweep, history
<1> QED BY <1>1, Untouched, Undisturbed DEF IInv, vars, bus

LEMMA NextIInv == ASSUME IInv, [Next]_vars PROVE IInv'
<1>1. CASE Guest
  BY <1>1, KickStep, RegisterPathStep, DriverOkStep, DeviceResetStep,
      MoveBarStep DEF Guest
<1>2. CASE \E d \in Devices : Work(d)
  BY <1>2, PassGateStep, ServeStep, TakeStep DEF Work
<1>3. CASE Sweep
  BY <1>3, ReleaseStep, RebaseStep, DeassignStep, RegisterStep, RefusedStep,
      RestoreNotifyStep, SecondPassStep, MarkOffloadedStep, EndSweepStep DEF Sweep
<1>4. CASE Pause \/ Resume \/ MachineReset \/ Suspend
  BY <1>4, PauseStep, ResumeStep, MachineResetStep, SuspendStep
<1>5. CASE UNCHANGED vars
  BY <1>5, StutterStep
<1> QED BY <1>1, <1>2, <1>3, <1>4, <1>5 DEF Next

LEMMA Inductive == Spec => []IInv
<1>1. Init => IInv
  BY InitIInv
<1>2. IInv /\ [Next]_vars => IInv'
  BY NextIInv
<1> QED BY <1>1, <1>2, PTL DEF Spec

(* The types of what the kernel, the notifier and the transport each       *)
(* remember, of the kicks in every eventfd and of a sweep's progress       *)
(* (reconcile_notify).                                                     *)
THEOREM KicksType == Spec => []TypeOK
<1>1. IInv => TypeOK
  BY DEF IInv
<1> QED BY <1>1, Inductive, PTL

(* Whatever the guest does to the other functions, a store signals no      *)
(* eventfd but its own device's, and the transport leaves to the worker    *)
(* only the queues whose stores KVM completes: reconcile_notify, rebase    *)
(* and unregister keep the kernel's, the notifier's and the transport's    *)
(* records in step.                                                        *)
THEOREM OwnDevice == Spec => []KicksReachTheirDevice
<1>1. IInv => KicksReachTheirDevice
  BY ReachDevice
<1> QED BY <1>1, Inductive, PTL

(* Coalesced eventfds, a worker parked at the gate, a device reset, a      *)
(* machine reset and a sweep lose no kick, with two exceptions: a kick     *)
(* that is unanswered when a suspend ends the process, and one whose exit  *)
(* is on its way to queue_notify_from_register when another vCPU's sweep   *)
(* marks its queue offloaded.                                              *)
THEOREM NoKickDropped == Spec => []KickIsCarried
<1>1. IInv => KickIsCarried
  BY DEF IInv, CarryInv
<1> QED BY <1>1, Inductive, PTL
==============================================================================
