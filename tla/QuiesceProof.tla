----------------------------- MODULE QuiesceProof -----------------------------
(***************************************************************************)
(* The pause gate is correct for any finite number of workers and pumps:   *)
(* its type invariant, that in_flight counts the live passes, and that a   *)
(* settled gate means nobody is working.                                   *)
(***************************************************************************)
EXTENDS Quiesce, FiniteSetTheorems, TLAPS

(* The prover of every leaf that names no other. *)
USE ZenonT(60)

(* The users whose pass is live; in_flight is their number. *)
Holders == {u \in Users : pc[u] \in Holding}

(* Who holds the mutex is a matter of where the threads are. *)
LockOK ==
    /\ \A u \in Users : pc[u] \in {"locked", "admitted"} <=> lock = u
    /\ sup = "probe" <=> lock = Supervisor
    /\ sup \in {"stopwake", "join"} => target \in Workers

(* A settled gate is closed, and nobody is past it or, holding the lock,   *)
(* has already decided to go past it.                                      *)
SettledOK ==
    settled => paused /\ \A u \in Users : pc[u] \notin {"working", "admitted"}

IInv == TypeOK /\ LockOK /\ InFlightCounts /\ SettledOK

------------------------------------------------------------------------------
(* The set of live passes is finite, so its cardinality is a number, which *)
(* is 0 only when there is none.                                           *)
LEMMA HoldersFinite ==
    ASSUME TypeOK
    PROVE  /\ IsFiniteSet(Holders)
           /\ Cardinality(Holders) \in Nat
           /\ Cardinality(Holders) = 0 <=> Holders = {}
<1>1. Holders \subseteq Users
    BY DEF Holders
<1>2. IsFiniteSet(Holders)
    BY <1>1, FS_Subset, GateAssumption
<1> QED
    BY <1>2, FS_CardinalityType, FS_EmptySet

(* A fetch_add by a thread that holds no pass counts it in. *)
LEMMA ClaimCounts ==
    ASSUME TypeOK, InFlightCounts, NEW u \in Users, NEW to \in Holding,
           pc[u] \notin Holding, pc' = [pc EXCEPT ![u] = to],
           in_flight' = in_flight + 1
    PROVE  InFlightCounts'
<1>1. Holders' = Holders \cup {u}
    BY DEF Holders, TypeOK
<1>2. u \notin Holders
    BY DEF Holders
<1>3. Cardinality(Holders \cup {u}) = Cardinality(Holders) + 1
    BY <1>2, HoldersFinite, FS_AddElement
<1> QED
    BY <1>1, <1>3 DEF InFlightCounts, Holders

(* A fetch_sub by a thread that holds a pass counts it out. *)
LEMMA DropCounts ==
    ASSUME TypeOK, InFlightCounts, NEW u \in Users, NEW to \in UserPc \ Holding,
           pc[u] \in Holding, pc' = [pc EXCEPT ![u] = to],
           in_flight' = in_flight - 1
    PROVE  InFlightCounts' /\ in_flight' \in Nat
<1>1. Holders' = Holders \ {u}
    BY DEF Holders, TypeOK
<1>2. u \in Holders
    BY DEF Holders
<1>3. Cardinality(Holders \ {u}) = Cardinality(Holders) - 1
    BY <1>2, HoldersFinite, FS_RemoveElement
<1>4. IsFiniteSet(Holders \ {u})
    BY HoldersFinite, FS_RemoveElement
<1>5. Cardinality(Holders \ {u}) \in Nat
    BY <1>4, FS_CardinalityType
<1> QED
    BY <1>1, <1>3, <1>5 DEF InFlightCounts, Holders

(* A step that moves nobody in or out of Holding keeps the count. *)
LEMMA MoveCounts ==
    ASSUME TypeOK, InFlightCounts, NEW u \in Users, NEW to \in UserPc,
           pc[u] \in Holding <=> to \in Holding,
           pc' = [pc EXCEPT ![u] = to], in_flight' = in_flight
    PROVE  InFlightCounts'
<1>1. Holders' = Holders
    BY DEF Holders, TypeOK
<1> QED
    BY <1>1 DEF InFlightCounts, Holders

------------------------------------------------------------------------------
LEMMA InitIInv == Init => IInv
<1> SUFFICES ASSUME Init PROVE IInv
    OBVIOUS
<1>1. TypeOK
    BY DEF Init, TypeOK, UserPc, SupPc
<1>2. LockOK
    BY GateAssumption DEF Init, LockOK, Threads
<1>3. InFlightCounts
  <2>1. {u \in Users : pc[u] \in Holding} = {}
      BY DEF Init, Holding
  <2> QED
      BY <2>1, FS_EmptySet DEF Init, InFlightCounts
<1> QED
    BY <1>1, <1>2, <1>3 DEF Init, IInv, SettledOK

(* The steps of a user: the count by the lemmas above, the rest is control. *)
LEMMA UserIInv ==
    ASSUME IInv, NEW u \in Users, UserStep(u)
    PROVE  IInv'
<1> USE DEF Goto, Others
<1>1. CASE KeepGoing(u)
  <2>1. InFlightCounts'
      BY <1>1, MoveCounts DEF IInv, KeepGoing, Holding, UserPc
  <2> QED
      BY <1>1, <2>1, GateAssumption DEF IInv, KeepGoing, TypeOK, LockOK, SettledOK,
          UserPc, Threads
<1>2. CASE Claim(u)
  <2>1. InFlightCounts'
      BY <1>2, ClaimCounts DEF IInv, Claim, Holding
  <2> QED
      BY <1>2, <2>1, GateAssumption, SMTT(60) DEF IInv, Claim, TypeOK, LockOK, SettledOK,
          UserPc, Threads
<1>3. CASE Check(u)
  <2>1. InFlightCounts'
      BY <1>3, MoveCounts DEF IInv, Check, Holding, UserPc
  <2> QED
      BY <1>3, <2>1, GateAssumption DEF IInv, Check, TypeOK, LockOK, SettledOK, UserPc,
          Threads
<1>4. CASE DropRefused(u)
  <2>1. InFlightCounts' /\ in_flight' \in Nat
      BY <1>4, DropCounts DEF IInv, DropRefused, Holding, UserPc
  <2> QED
      BY <1>4, <2>1, GateAssumption DEF IInv, DropRefused, TypeOK, LockOK, SettledOK,
          UserPc, Threads
<1>5. CASE WakeRefused(u)
  <2>1. InFlightCounts'
      BY <1>5, MoveCounts DEF IInv, WakeRefused, Holding, UserPc
  <2> QED
      BY <1>5, <2>1, GateAssumption DEF IInv, WakeRefused, TypeOK, LockOK, SettledOK,
          UserPc, Threads
<1>6. CASE Finish(u)
  <2>1. InFlightCounts' /\ in_flight' \in Nat
      BY <1>6, DropCounts DEF IInv, Finish, Holding, UserPc
  <2> QED
      BY <1>6, <2>1, GateAssumption DEF IInv, Finish, TypeOK, LockOK, SettledOK, UserPc,
          Threads
<1>7. CASE WakeFinished(u)
  <2>1. InFlightCounts'
      BY <1>7, MoveCounts DEF IInv, WakeFinished, Holding, UserPc
  <2> QED
      BY <1>7, <2>1, GateAssumption DEF IInv, WakeFinished, TypeOK, LockOK, SettledOK,
          UserPc, Threads
<1> QED
    BY <1>1, <1>2, <1>3, <1>4, <1>5, <1>6, <1>7 DEF UserStep

(* The steps of a worker on the slow path, where the lock is held between  *)
(* reading the gate and claiming.                                          *)
LEMMA WorkerIInv ==
    ASSUME IInv, NEW w \in Workers, WorkerStep(w)
    PROVE  IInv'
<1> USE DEF Goto, Others
<1>0. w \in Users
    BY DEF Users
<1>1. CASE TakeLock(w)
  <2>1. InFlightCounts'
      BY <1>0, <1>1, MoveCounts DEF IInv, TakeLock, Holding, UserPc
  <2> QED
      BY <1>0, <1>1, <2>1, GateAssumption DEF IInv, TakeLock, TypeOK, LockOK, SettledOK,
          UserPc, Threads
<1>2. CASE SlowStop(w)
  <2>1. InFlightCounts'
      BY <1>0, <1>2, MoveCounts DEF IInv, SlowStop, Holding, UserPc
  <2> QED
      BY <1>0, <1>2, <2>1, GateAssumption DEF IInv, SlowStop, TypeOK, LockOK, SettledOK,
          UserPc, Threads
<1>3. CASE SlowCheck(w)
  <2>1. InFlightCounts'
      BY <1>0, <1>3, MoveCounts DEF IInv, SlowCheck, Holding, UserPc
  <2> QED
      BY <1>0, <1>3, <2>1, GateAssumption DEF IInv, SlowCheck, TypeOK, LockOK, SettledOK,
          UserPc, Threads
<1>4. CASE SlowClaim(w)
  <2>1. InFlightCounts'
      BY <1>0, <1>4, ClaimCounts DEF IInv, SlowClaim, Holding, UserPc
  <2> QED
      BY <1>0, <1>4, <2>1, GateAssumption, SMTT(60) DEF IInv, SlowClaim, TypeOK, LockOK,
          SettledOK, UserPc, Threads
<1>5. CASE FastStop(w)
  <2>1. InFlightCounts'
      BY <1>0, <1>5, MoveCounts DEF IInv, FastStop, Holding, UserPc
  <2> QED
      BY <1>0, <1>5, <2>1, GateAssumption DEF IInv, FastStop, TypeOK, LockOK, SettledOK,
          UserPc, Threads
<1> QED
    BY <1>1, <1>2, <1>3, <1>4, <1>5 DEF WorkerStep

(* wait_until_idle() read in_flight = 0 under the lock: nobody holds a     *)
(* pass, and nobody is on its way to one with the lock in hand.            *)
LEMMA IdleIInv ==
    ASSUME IInv, Idle
    PROVE  IInv'
<1>1. Holders = {}
    BY HoldersFinite DEF IInv, Idle, InFlightCounts, Holders
<1>2. \A u \in Users : pc[u] \notin {"working", "admitted"}
  <2>1. \A u \in Users : pc[u] # "working"
      BY <1>1 DEF Holders, Holding
  <2>2. \A u \in Users : pc[u] # "admitted"
      BY GateAssumption DEF IInv, LockOK, Idle, SupGoto
  <2> QED
      BY <2>1, <2>2
<1>3. SettledOK'
    BY <1>2 DEF Idle, SettledOK
<1>4. InFlightCounts'
    BY DEF IInv, Idle, InFlightCounts
<1> QED
    BY <1>3, <1>4, GateAssumption DEF IInv, Idle, SupGoto, TypeOK, LockOK, SupPc, Threads

(* The other steps of the supervisor touch neither in_flight nor, but for  *)
(* the respawn in Join, a user.                                            *)
LEMMA SupIInv ==
    ASSUME IInv, SupStep
    PROVE  IInv'
<1> USE DEF SupGoto
<1>1. CASE Idle
    BY <1>1, IdleIInv
<1>2. CASE Join
  <2>1. target \in Users /\ pc[target] = "gone"
      BY <1>2 DEF IInv, LockOK, Join, Users
  <2>2. InFlightCounts'
      BY <1>2, <2>1, MoveCounts DEF IInv, Join, Holding, UserPc
  <2> QED
      BY <1>2, <2>1, <2>2, GateAssumption DEF IInv, Join, TypeOK, LockOK, SettledOK,
          UserPc, SupPc, Threads
<1>3. ASSUME NEW w \in Workers, StopWorker(w)
      PROVE  IInv'
    BY <1>3, GateAssumption DEF IInv, StopWorker, TypeOK, LockOK, InFlightCounts,
        SettledOK, SupPc, Threads, Users
<1>4. CASE Pause
    BY <1>4, GateAssumption DEF IInv, Pause, TypeOK, LockOK, InFlightCounts, SettledOK,
        SupPc, Threads
<1>5. CASE PrepareSave
    BY <1>5, GateAssumption DEF IInv, PrepareSave, TypeOK, LockOK, InFlightCounts,
        SettledOK, SupPc, Threads
<1>6. CASE SettleLock
    BY <1>6, GateAssumption DEF IInv, SettleLock, TypeOK, LockOK, InFlightCounts,
        SettledOK, SupPc, Threads
<1>7. CASE GiveUp
    BY <1>7, GateAssumption DEF IInv, GiveUp, TypeOK, LockOK, InFlightCounts, SettledOK,
        SupPc, Threads
<1>8. CASE WaitIdle
    BY <1>8, GateAssumption DEF IInv, WaitIdle, TypeOK, LockOK, InFlightCounts,
        SettledOK, SupPc, Threads
<1>9. CASE StopWake
    BY <1>9, GateAssumption DEF IInv, StopWake, TypeOK, LockOK, InFlightCounts,
        SettledOK, SupPc, Threads
<1>10. CASE Resume
    BY <1>10, GateAssumption DEF IInv, Resume, TypeOK, LockOK, InFlightCounts, SettledOK,
        SupPc, Threads
<1>11. CASE ResumeWake
    BY <1>11, GateAssumption DEF IInv, ResumeWake, TypeOK, LockOK, InFlightCounts,
        SettledOK, SupPc, Threads
<1> QED
    BY <1>1, <1>2, <1>3, <1>4, <1>5, <1>6, <1>7, <1>8, <1>9, <1>10, <1>11 DEF SupStep

LEMMA NextIInv == IInv /\ [Next]_vars => IInv'
<1> SUFFICES ASSUME IInv, [Next]_vars PROVE IInv'
    OBVIOUS
<1>1. CASE \E u \in Users : UserStep(u)
    BY <1>1, UserIInv
<1>2. CASE \E w \in Workers : WorkerStep(w)
    BY <1>2, WorkerIInv
<1>3. CASE SupStep
    BY <1>3, SupIInv
<1>4. CASE StopResume
    BY <1>4 DEF IInv, StopResume, TypeOK, LockOK, InFlightCounts, SettledOK
<1>5. CASE StopResumeWake
    BY <1>5 DEF IInv, StopResumeWake, TypeOK, LockOK, InFlightCounts, SettledOK
<1>6. CASE UNCHANGED vars
    BY <1>6 DEF IInv, vars, TypeOK, LockOK, InFlightCounts, SettledOK
<1> QED
    BY <1>1, <1>2, <1>3, <1>4, <1>5, <1>6 DEF Next

(* The inductive invariant holds in every reachable state. *)
THEOREM GateInvariant == Spec => []IInv
<1> QED
    BY InitIInv, NextIInv, PTL DEF Spec

(* Every variable of the gate keeps its type; in particular in_flight, an  *)
(* unsigned counter, is never decremented below zero by a Drop for Pass.   *)
THEOREM GateType == Spec => []TypeOK
<1>1. IInv => TypeOK
    BY DEF IInv
<1> QED
    BY <1>1, GateInvariant, PTL

(* in_flight is the number of live passes, on every path through           *)
(* wait_while_paused() and try_enter().                                    *)
THEOREM GateCounts == Spec => []InFlightCounts
<1>1. IInv => InFlightCounts
    BY DEF IInv
<1> QED
    BY <1>1, GateInvariant, PTL

(* After wait_until_idle() returned true on a paused VM no worker and no   *)
(* pump touches guest memory until resume().                               *)
THEOREM GateSettles == Spec => []SettledMeansIdle
<1>1. IInv => SettledMeansIdle
    BY DEF IInv, SettledOK, SettledMeansIdle
<1> QED
    BY <1>1, GateInvariant, PTL

------------------------------------------------------------------------------
(* Refinement.  A step of a user enters, leaves or stutters.               *)

LEMMA UserRefines ==
    ASSUME IInv, NEW u \in Users, UserStep(u)
    PROVE  [Gate!GateNext]_<<gate, busy>>
<1> USE DEF Goto, Others
<1>1. CASE Check(u) /\ ~paused
  <2>1. Gate!Enter(u)
      BY <1>1 DEF IInv, TypeOK, Check, Gate!Enter, gate, busy
  <2> QED
      BY <2>1 DEF Gate!GateNext
<1>2. CASE Finish(u)
  <2>1. Gate!Leave(u)
      BY <1>2 DEF IInv, TypeOK, Finish, Gate!Leave, gate, busy
  <2> QED
      BY <2>1 DEF Gate!GateNext
<1>3. CASE KeepGoing(u)
    BY <1>3 DEF IInv, TypeOK, KeepGoing, gate, busy
<1>4. CASE Claim(u)
    BY <1>4 DEF IInv, TypeOK, Claim, gate, busy
<1>5. CASE Check(u) /\ paused
    BY <1>5 DEF IInv, TypeOK, Check, gate, busy
<1>6. CASE DropRefused(u)
    BY <1>6 DEF IInv, TypeOK, DropRefused, gate, busy
<1>7. CASE WakeRefused(u)
    BY <1>7 DEF IInv, TypeOK, WakeRefused, gate, busy
<1>8. CASE WakeFinished(u)
    BY <1>8 DEF IInv, TypeOK, WakeFinished, gate, busy
<1> QED
    BY <1>1, <1>2, <1>3, <1>4, <1>5, <1>6, <1>7, <1>8 DEF UserStep

(* On the slow path only SlowClaim is visible.  It may happen while the    *)
(* gate is "closing", never when it is closed: SettledOK.                  *)
LEMMA WorkerRefines ==
    ASSUME IInv, NEW w \in Workers, WorkerStep(w)
    PROVE  [Gate!GateNext]_<<gate, busy>>
<1> USE DEF Goto, Others
<1>0. w \in Users
    BY DEF Users
<1>1. CASE SlowClaim(w)
  <2>1. gate # "closed"
      BY <1>0, <1>1 DEF IInv, SettledOK, SlowClaim, gate
  <2>2. Gate!Enter(w)
      BY <1>0, <1>1, <2>1 DEF IInv, TypeOK, SlowClaim, Gate!Enter, gate, busy
  <2> QED
      BY <1>0, <2>2 DEF Gate!GateNext
<1>2. CASE TakeLock(w)
    BY <1>0, <1>2 DEF IInv, TypeOK, TakeLock, gate, busy
<1>3. CASE SlowStop(w)
    BY <1>0, <1>3 DEF IInv, TypeOK, SlowStop, gate, busy
<1>4. CASE SlowCheck(w)
    BY <1>0, <1>4 DEF IInv, TypeOK, SlowCheck, gate, busy
<1>5. CASE FastStop(w)
    BY <1>0, <1>5 DEF IInv, TypeOK, FastStop, gate, busy
<1> QED
    BY <1>1, <1>2, <1>3, <1>4, <1>5 DEF WorkerStep

LEMMA SupRefines ==
    ASSUME IInv, SupStep
    PROVE  [Gate!GateNext]_<<gate, busy>>
<1> USE DEF SupGoto
<1>1. CASE Idle
  <2>1. busy = {}
      BY <1>1, HoldersFinite DEF IInv, Idle, InFlightCounts, Holders, Holding, busy
  <2>2. Gate!Settle \/ UNCHANGED <<gate, busy>>
      BY <1>1, <2>1 DEF IInv, TypeOK, SettledOK, Idle, Gate!Settle, gate, busy
  <2> QED
      BY <2>2 DEF Gate!GateNext
<1>2. CASE Pause
  <2>1. Gate!Close \/ UNCHANGED <<gate, busy>>
      BY <1>2 DEF IInv, TypeOK, SettledOK, Pause, Gate!Close, gate, busy
  <2> QED
      BY <2>1 DEF Gate!GateNext
<1>3. CASE Resume
  <2>1. Gate!Open
      BY <1>3 DEF Resume, Gate!Open, gate, busy
  <2> QED
      BY <2>1 DEF Gate!GateNext
<1>4. CASE Join
  <2>1. target \in Users /\ pc[target] = "gone"
      BY <1>4 DEF IInv, LockOK, Join, Users
  <2> QED
      BY <1>4, <2>1 DEF IInv, TypeOK, Join, gate, busy
<1>5. ASSUME NEW w \in Workers, StopWorker(w)
      PROVE  UNCHANGED <<gate, busy>>
    BY <1>5 DEF StopWorker, gate, busy
<1>6. CASE PrepareSave \/ SettleLock \/ GiveUp \/ WaitIdle \/ StopWake \/ ResumeWake
    BY <1>6, SMTT(60) DEF PrepareSave, SettleLock, GiveUp, WaitIdle, StopWake,
        ResumeWake, gate, busy
<1> QED
    BY <1>1, <1>2, <1>3, <1>4, <1>5, <1>6 DEF SupStep

(* The atomics, the mutex and the timed waits of quiesce.rs implement the  *)
(* abstract gate: nobody is let in once wait_until_idle() has said idle.   *)
THEOREM GateRefines == Spec => ImplementsGate
<1>1. Init => Gate!GateInit
    BY DEF Init, Gate!GateInit, gate, busy
<1>2. IInv /\ [Next]_vars => [Gate!GateNext]_<<gate, busy>>
  <2> SUFFICES ASSUME IInv, [Next]_vars PROVE [Gate!GateNext]_<<gate, busy>>
      OBVIOUS
  <2>1. CASE \E u \in Users : UserStep(u)
      BY <2>1, UserRefines
  <2>2. CASE \E w \in Workers : WorkerStep(w)
      BY <2>2, WorkerRefines
  <2>3. CASE SupStep
      BY <2>3, SupRefines
  <2>4. CASE StopResume
    <3>1. Gate!Open
        BY <2>4 DEF StopResume, Gate!Open, gate, busy
    <3> QED
        BY <3>1 DEF Gate!GateNext
  <2>5. CASE StopResumeWake \/ UNCHANGED vars
      BY <2>5, SMTT(60) DEF StopResumeWake, vars, gate, busy
  <2> QED
      BY <2>1, <2>2, <2>3, <2>4, <2>5 DEF Next
<1>3. Spec => [][Gate!GateNext]_<<gate, busy>>
    BY <1>2, GateInvariant, PTL DEF Spec
<1>4. Spec => Gate!GateInit
    BY <1>1 DEF Spec
<1> QED
    BY <1>3, <1>4, PTL DEF ImplementsGate, Gate!GateSpec, Gate!gateVars
==============================================================================
