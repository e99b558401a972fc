----------------------------- MODULE SuspendProof -----------------------------
(***************************************************************************)
(* What a suspended VM comes back to, for every queue size and ring width, *)
(* any number of suspends and any number of failures.                      *)
(*                                                                         *)
(* The invariant follows one VM through memory, file and memory again: the *)
(* slot of a live VM is sound, every file that <path> can come to name     *)
(* holds a sound slot and the fingerprint of the image that slot was using,*)
(* and a save or a restore in progress agrees with the file it works on.   *)
(***************************************************************************)
EXTENDS Suspend, TLAPS

(* The prover of every leaf that names no other. *)
USE ZenonT(60)

(* A device's position and the guest's ring, live or in a file. *)
Ring(on, queue, next, m) ==
    /\ on => next \in Index
    /\ on /\ queue = "usable" => next = m.used /\ Outstanding(m.avail, next) <= Size
    /\ ~on => m.avail = 0 /\ m.used = 0

Told(on, status, version1) ==
    /\ "features_ok" \in status => version1
    /\ on => {"features_ok", "driver_ok"} \subseteq status

SlotOK ==
    /\ Ring(tp.activated, tp.queue, tp.next, ram)
    /\ Told(tp.activated, tp.status, tp.version1)
    /\ "features_ok" \in tp.status => tp.acked

FileOK(f) ==
    f # None =>
        /\ f \in SnapshotFile
        /\ f.whole /\ f.synced
        /\ Ring(f.tp.activated, f.tp.queue, f.tp.position, f.ram)
        /\ Told(f.tp.activated, f.tp.status, f.tp.version1)
        /\ ~lost => f.ram.sees = f.mtime

Live == {"running", "paused", "saving", "leaving"}
SaveSteps == {"measure", "create", "write", "sync", "rename", "report"}
RestoreSteps == {"check", "memory", "devices", "start"}

ImageInv == ~lost => disk.data = disk.mtime
LiveInv == vm \in Live => SlotOK /\ (~lost => ram.sees = disk.data)
IdleInv == RingAgrees /\ ActiveMeansNegotiated

(* This file holds the VM as it is now. *)
Holds(f) ==
    /\ f \in SnapshotFile
    /\ f.whole /\ f.tp = Save(tp) /\ f.ram = ram /\ f.mtime = disk.mtime

SaveInv ==
    /\ vm = "saving" <=> step \in SaveSteps
    /\ step \in SaveSteps \ {"measure"} => stamp = disk.mtime
    /\ step \in {"sync", "rename"} => Holds(part)
    /\ step = "rename" => part.synced
    /\ step = "report" => Holds(path)

RestoreInv ==
    /\ vm = "restoring" <=> step \in RestoreSteps
    /\ step \in RestoreSteps => path \in SnapshotFile
    /\ step \in RestoreSteps \ {"start"} => ~tp.activated
    /\ step \in RestoreSteps \ {"check"} => path.mtime = disk.mtime
    /\ step \in {"devices", "start"} => ram = path.ram
    /\ step = "start" => tp = Load(path.tp)

FileInv == FileOK(path) /\ FileOK(kept)

(* A device that comes down with its process serves only what the saved    *)
(* ring had left unserved.                                                 *)
Idle == ~(tp.activated /\ tp.queue = "usable" /\ tp.next # ram.avail)
LeavingInv == vm = "leaving" => Unserved(saved) \/ Idle

SavedInv ==
    /\ saved # None => vm \in {"off", "leaving", "restoring"} /\ SavedIsResumable
    /\ LeavingInv

IInv ==
    /\ TypeOK /\ ImageInv /\ LiveInv /\ IdleInv
    /\ SaveInv /\ RestoreInv /\ FileInv /\ SavedInv

------------------------------------------------------------------------------
(* The invariant holds when the first VM has not been started. *)
LEMMA InitIInv == Init => IInv
  <1> SUFFICES ASSUME Init PROVE IInv
    OBVIOUS
  <1>0. 0 \in Index
    BY TransportAssumption, SMTT(60) DEF Index
  <1>a. SlotTypeOK
    <2>1. tp \in [status : SUBSET Bits, version1 : BOOLEAN, queue : Geometry,
                  activated : BOOLEAN, acked : BOOLEAN, next : Index \cup {None}]
      BY DEF Init, Fresh, Geometry
    <2>2. QED
      BY <1>0, <2>1, TransportAssumption, SMTT(60) DEF Init, SlotTypeOK, Image
  <1>1. TypeOK
    BY <1>a DEF Init, TypeOK
  <1>2. ~tp.activated
    BY DEF Init, Fresh
  <1>3. QED
    BY <1>1, <1>2 DEF Init, IInv, ImageInv, LiveInv, IdleInv, RingAgrees,
        ActiveMeansNegotiated, SaveInv, RestoreInv, FileInv, FileOK, SavedInv,
        LeavingInv, Live, SaveSteps, RestoreSteps

(* A sound slot is what RingAgrees and ActiveMeansNegotiated ask for. *)
LEMMA Sound == SlotOK => IdleInv
  BY DEF SlotOK, IdleInv, Ring, Told, RingAgrees, ActiveMeansNegotiated

(* Whatever the driver does to the registers, the slot stays sound. *)
LEMMA RegisterStep ==
  ASSUME SlotTypeOK, SlotOK,
         \/ \E v \in BOOLEAN : WriteDriverFeatures(v)
         \/ \E q \in Geometry : EditQueue(q)
         \/ DeviceReset
  PROVE  SlotTypeOK' /\ SlotOK' /\ UNCHANGED <<disk, clock>> /\ ram'.sees = ram.sees
  <1>0. 0 \in Index
    BY TransportAssumption, SMTT(60) DEF Index
  <1>1. CASE \E v \in BOOLEAN : WriteDriverFeatures(v)
    BY <1>1 DEF WriteDriverFeatures, SlotTypeOK, SlotOK, Ring, Told
  <1>2. CASE \E q \in Geometry : EditQueue(q)
    BY <1>2 DEF EditQueue, SlotTypeOK, SlotOK, Ring, Told
  <1>3. CASE DeviceReset
    BY <1>0, <1>3 DEF DeviceReset, Fresh, SlotTypeOK, SlotOK, Ring, Told, Geometry
  <1>4. QED
    BY <1>1, <1>2, <1>3

(* So it does when the driver writes the status, which may activate it. *)
LEMMA StatusStep ==
  ASSUME SlotTypeOK, SlotOK, NEW new \in SUBSET Bits, WriteStatus(new)
  PROVE  SlotTypeOK' /\ SlotOK' /\ UNCHANGED <<ram, disk, clock>>
  <1> DEFINE added == new \ tp.status
             agreed == "features_ok" \in added /\ tp.version1
             status == IF agreed THEN new ELSE new \ (added \cap {"features_ok"})
             t == [tp EXCEPT !.status = status, !.acked = @ \/ agreed]
  <1>0. 0 \in Index /\ 0 <= Size
    BY TransportAssumption, SMTT(60) DEF Index
  <1>1. /\ tp.status \subseteq new
        /\ tp' = IF "driver_ok" \in added /\ "features_ok" \in status /\ ~tp.activated
                 THEN Activate(t) ELSE t
        /\ UNCHANGED <<ram, disk, safe, clock>>
    BY DEF WriteStatus, WriteIsValid
  <1>2. /\ status \in SUBSET Bits /\ tp.status \subseteq status
        /\ "features_ok" \in status => tp.version1
        /\ "features_ok" \in status => tp.acked \/ agreed
        /\ "driver_ok" \in added => "driver_ok" \in status
    BY <1>1 DEF SlotOK, Told
  <1>3. /\ t \in [status : SUBSET Bits, version1 : BOOLEAN, queue : Geometry,
                  activated : BOOLEAN, acked : BOOLEAN, next : Index \cup {None}]
        /\ t.status = status /\ t.acked = (tp.acked \/ agreed)
        /\ t.version1 = tp.version1 /\ t.queue = tp.queue
        /\ t.activated = tp.activated /\ t.next = tp.next
    BY <1>2 DEF SlotTypeOK
  <1> HIDE DEF added, agreed, status, t
  <1>4. CASE tp' = t
    BY <1>1, <1>2, <1>3, <1>4 DEF SlotTypeOK, SlotOK, Ring, Told
  <1>5. CASE tp' = Activate(t) /\ "driver_ok" \in added /\ "features_ok" \in status /\ ~tp.activated
    <2>1. CASE t.queue = "unusable"
      <3>1. tp' = [t EXCEPT !.status = @ \cup {"needs_reset"}]
        BY <1>5, <2>1 DEF Activate
      <3>2. QED
        BY <1>1, <1>2, <1>3, <1>5, <3>1 DEF SlotTypeOK, SlotOK, Ring, Told, Bits
    <2>2. CASE t.queue # "unusable"
      <3>1. tp' = [t EXCEPT !.activated = TRUE, !.next = 0]
        BY <1>5, <2>2 DEF Activate, ActivateAt
      <3>2. SlotTypeOK'
        BY <1>0, <1>1, <1>3, <3>1 DEF SlotTypeOK
      <3>3. Ring(tp'.activated, tp'.queue, tp'.next, ram')
        BY <1>0, <1>1, <1>3, <1>5, <3>1, SMTT(60) DEF SlotOK, Ring, Outstanding
      <3>4. QED
        BY <1>2, <1>3, <1>5, <3>1, <3>2, <3>3, <1>1 DEF SlotOK, Told
    <2>3. QED
      BY <2>1, <2>2
  <1>6. QED
    BY <1>1, <1>4, <1>5

(* Ring arithmetic, across the wrap: a request posted is one more ahead, a  *)
(* request served one less.                                                 *)
LEMMA Ahead ==
  ASSUME NEW a \in Index, NEW n \in Index
  PROVE  /\ Following(a) \in Index
         /\ Outstanding(a, n) < Size => Outstanding(Following(a), n) <= Size
         /\ a # n /\ Outstanding(a, n) <= Size => Outstanding(a, Following(n)) <= Size
  <1>1. /\ Span \in Nat /\ Size \in Nat /\ Span > Size
        /\ a \in Nat /\ n \in Nat /\ a < Span /\ n < Span
    BY TransportAssumption, SMTT(60) DEF Index
  <1>2. Following(a) \in Index
    BY <1>1, SMTT(60) DEF Following, Index
  <1>3. ASSUME Outstanding(a, n) < Size PROVE Outstanding(Following(a), n) <= Size
    <2>1. CASE a + 1 = Span
      BY <1>1, <1>3, <2>1, SMTT(60) DEF Outstanding, Following
    <2>2. CASE a + 1 # Span
      BY <1>1, <1>3, <2>2, SMTT(60) DEF Outstanding, Following
    <2>3. QED
      BY <2>1, <2>2
  <1>4. ASSUME a # n, Outstanding(a, n) <= Size PROVE Outstanding(a, Following(n)) <= Size
    <2>1. CASE n + 1 = Span
      BY <1>1, <1>4, <2>1, SMTT(60) DEF Outstanding, Following
    <2>2. CASE n + 1 # Span
      BY <1>1, <1>4, <2>2, SMTT(60) DEF Outstanding, Following
    <2>3. QED
      BY <2>1, <2>2
  <1>5. QED
    BY <1>2, <1>3, <1>4

(* The driver posts and the device serves within the ring. *)
LEMMA RingStep ==
  ASSUME SlotTypeOK, SlotOK, Post \/ (\E sees \in Nat : Served(sees))
  PROVE  /\ tp' \in [status : SUBSET Bits, version1 : BOOLEAN, queue : Geometry,
                     activated : BOOLEAN, acked : BOOLEAN, next : Index \cup {None}]
         /\ ram' \in [avail : Index, used : Index, sees : Nat]
         /\ SlotOK'
  <1>0. \A i \in Index : Following(i) \in Index
    BY Ahead
  <1>1. CASE Post
    <2>1. /\ tp' = tp /\ tp.activated /\ tp.queue = "usable"
          /\ tp.next = ram.used /\ ram.used \in Index /\ ram.avail \in Index
          /\ Outstanding(ram.avail, ram.used) < Size
          /\ ram' = [ram EXCEPT !.avail = Following(@)]
      BY <1>1 DEF Post, SlotTypeOK, SlotOK, Ring
    <2>2. Outstanding(Following(ram.avail), ram.used) <= Size
      BY <2>1, Ahead
    <2>3. /\ ram' \in [avail : Index, used : Index, sees : Nat]
          /\ ram'.avail = Following(ram.avail) /\ ram'.used = ram.used
      BY <1>0, <2>1 DEF SlotTypeOK
    <2>4. QED
      BY <2>1, <2>2, <2>3 DEF SlotTypeOK, SlotOK, Ring
  <1>2. ASSUME NEW sees \in Nat, Served(sees)
        PROVE  /\ tp' \in [status : SUBSET Bits, version1 : BOOLEAN, queue : Geometry,
                           activated : BOOLEAN, acked : BOOLEAN, next : Index \cup {None}]
               /\ ram' \in [avail : Index, used : Index, sees : Nat]
               /\ SlotOK'
    <2>1. /\ tp.activated /\ tp.queue = "usable" /\ tp.next # ram.avail
          /\ tp.next = ram.used /\ ram.used \in Index /\ ram.avail \in Index
          /\ Outstanding(ram.avail, tp.next) <= Size
      BY <1>2 DEF Served, SlotTypeOK, SlotOK, Ring
    <2>2. PICK status \in Notified(tp.status) :
             /\ tp' = [tp EXCEPT !.next = Following(@), !.status = status]
             /\ ram' = [ram EXCEPT !.used = Following(tp.next), !.sees = sees]
      BY <1>2 DEF Served
    <2>a. status \in SUBSET Bits /\ tp.status \subseteq status
          /\ ("features_ok" \in status => "features_ok" \in tp.status)
      BY DEF SlotTypeOK, Bits, Notified
    <2>3. Outstanding(ram.avail, Following(ram.used)) <= Size
      BY <2>1, Ahead
    <2>4. /\ tp' \in [status : SUBSET Bits, version1 : BOOLEAN, queue : Geometry,
                      activated : BOOLEAN, acked : BOOLEAN, next : Index \cup {None}]
          /\ tp'.next = Following(ram.used) /\ tp'.activated = tp.activated
          /\ tp'.queue = tp.queue /\ tp'.status = status
          /\ tp'.version1 = tp.version1 /\ tp'.acked = tp.acked
      BY <1>0, <2>1, <2>2, <2>a DEF SlotTypeOK
    <2>5. /\ ram' \in [avail : Index, used : Index, sees : Nat]
          /\ ram'.avail = ram.avail /\ ram'.used = Following(ram.used)
      BY <1>0, <2>1, <2>2 DEF SlotTypeOK
    <2>6. QED
      BY <1>0, <2>1, <2>a, <2>3, <2>4, <2>5 DEF SlotOK, Ring, Told
  <1>3. QED
    BY <1>1, <1>2

------------------------------------------------------------------------------
(* What a step that leaves the files alone need not look at again. *)
LEMMA FilesUntouched == ASSUME FileInv, UNCHANGED <<path, kept, lost>> PROVE FileInv'
  BY DEF FileInv, FileOK

(* Nor is there a save or a restore to look at where none goes on. *)
LEMMA AtRest ==
  ASSUME step' = "none", vm' \in {"off", "running", "paused", "leaving"}
  PROVE  SaveInv' /\ RestoreInv'
  BY DEF SaveInv, RestoreInv, SaveSteps, RestoreSteps

(* The guest and its device run, or the device alone once the VM has been   *)
(* saved: nothing but the slot and the image moves.                         *)
LEMMA RunStep == ASSUME IInv, Run \/ TearDown PROVE IInv'
  <1>1. /\ vm \in {"running", "leaving"} /\ step = "none"
        /\ SlotTypeOK /\ SlotOK
        /\ ~lost => ram.sees = disk.data /\ disk.data = disk.mtime
        /\ UNCHANGED <<vm, step, paused, stamp, part, path, kept, saved, lost>>
        /\ late' \in BOOLEAN
    BY DEF IInv, Run, TearDown, TypeOK, LiveInv, Live, ImageInv, process, files, history
  <1>2. /\ SlotTypeOK' /\ SlotOK'
        /\ ~lost => ram'.sees = disk'.data /\ disk'.data = disk'.mtime
    <2>1. CASE \/ \E v \in BOOLEAN : WriteDriverFeatures(v)
               \/ \E q \in Geometry : EditQueue(q)
               \/ DeviceReset
      BY <1>1, <2>1, RegisterStep
    <2>2. CASE \E more \in SUBSET Stages : WriteStatus(tp.status \cup more)
      <3>1. PICK more \in SUBSET Stages : WriteStatus(tp.status \cup more)
        BY <2>2
      <3>2. tp.status \cup more \in SUBSET Bits
        BY <1>1 DEF SlotTypeOK, Bits
      <3>3. QED
        BY <1>1, <3>1, <3>2, StatusStep
    <2>3. CASE Post
      <3>1. ram'.sees = ram.sees /\ UNCHANGED <<disk, safe, clock>>
        BY <1>1, <2>3 DEF Post, SlotTypeOK
      <3>2. QED
        BY <1>1, <2>3, <3>1, RingStep DEF SlotTypeOK
    <2>4. CASE Write
      <3>1. clock + 1 \in Nat /\ clock + 1 \in 0..MaxClock
        BY <1>1, <2>4, TransportAssumption, SMTT(60) DEF Write, SlotTypeOK
      <3>2. /\ Served(clock + 1) /\ clock' = clock + 1 /\ safe' = safe
            /\ disk' = [data |-> clock + 1, mtime |-> clock + 1]
        BY <2>4 DEF Write
      <3>3. ram'.sees = clock + 1
        BY <1>1, <3>2 DEF Served, SlotTypeOK
      <3>4. QED
        BY <1>1, <3>1, <3>2, <3>3, RingStep DEF SlotTypeOK, Image
    <2>5. CASE Flush \/ Read
      <3>1. /\ ram.sees \in Nat /\ Served(ram.sees) /\ safe' \in {safe, disk}
            /\ UNCHANGED <<disk, clock>>
        BY <1>1, <2>5 DEF Flush, Read, SlotTypeOK
      <3>2. ram'.sees = ram.sees
        BY <1>1, <3>1 DEF Served, SlotTypeOK
      <3>3. QED
        BY <1>1, <3>1, <3>2, RingStep DEF SlotTypeOK
    <2>6. QED
      BY <2>1, <2>2, <2>3, <2>4, <2>5 DEF Run, TearDown, Driver, Device
  <1>3. TypeOK' /\ ImageInv' /\ LiveInv'
    BY <1>1, <1>2 DEF IInv, TypeOK, ImageInv, LiveInv
  <1>4. IdleInv'
    BY <1>2, Sound, PTL
  <1>5. SaveInv' /\ RestoreInv' /\ FileInv'
    BY <1>1, AtRest, FilesUntouched DEF IInv
  <1>a. SavedInv'
    <2>1. CASE Run
      BY <1>1, <2>1 DEF IInv, Run, SavedInv, LeavingInv
    <2>2. CASE TearDown
      <3>1. vm = "leaving" /\ vm' = vm /\ SavedIsResumable
        BY <1>1, <2>2 DEF IInv, TearDown, SavedInv, SavedIsResumable
      <3>2. ~Idle
        BY <2>2 DEF TearDown, Device, Write, Flush, Read, Served, Idle
      <3>3. Unserved(saved) /\ Unserved(saved)'
        BY <1>1, <3>1, <3>2 DEF IInv, SavedInv, LeavingInv, Unserved
      <3>4. (disk' = disk /\ late' = late) \/ late'
        BY <2>2 DEF TearDown, IInv, TypeOK
      <3>5. SavedIsResumable'
        BY <1>1, <3>1, <3>3, <3>4 DEF SavedIsResumable, Unserved
      <3>6. QED
        BY <1>1, <3>1, <3>3, <3>5 DEF SavedInv, LeavingInv, Unserved
    <2>3. QED
      BY <2>1, <2>2
  <1>6. QED
    BY <1>3, <1>4, <1>5, <1>a DEF IInv

(* What a step that leaves the slot alone need not look at again. *)
LEMMA SlotUntouched ==
  ASSUME IInv, UNCHANGED <<slot, lost>>
  PROVE  /\ SlotTypeOK' /\ ImageInv' /\ IdleInv'
         /\ SlotOK => SlotOK'
         /\ UNCHANGED <<tp, ram, disk, safe, clock, lost>>
  BY DEF IInv, TypeOK, slot, SlotTypeOK, ImageInv, IdleInv, RingAgrees,
      ActiveMeansNegotiated, SlotOK

(* A VM starts from scratch. *)
LEMMA BootStep == ASSUME IInv, Boot PROVE IInv'
  <1>0. 0 \in Index
    BY TransportAssumption, SMTT(60) DEF Index
  <1>1. /\ vm = "off" /\ step = "none" /\ disk.data \in Nat
        /\ vm' = "running" /\ saved' = None /\ tp' = Fresh
        /\ ram' = [avail |-> 0, used |-> 0, sees |-> disk.data]
        /\ UNCHANGED <<disk, safe, clock, step, paused, stamp, part, path, kept, late,
                       lost>>
    BY DEF IInv, Boot, TypeOK, SlotTypeOK, Image, files, history
  <1>2. SlotTypeOK'
    BY <1>0, <1>1 DEF IInv, TypeOK, SlotTypeOK, Fresh, Geometry
  <1>3. SlotOK'
    BY <1>1 DEF SlotOK, Ring, Told, Fresh
  <1>4. TypeOK' /\ ImageInv' /\ LiveInv'
    BY <1>1, <1>2, <1>3 DEF IInv, TypeOK, ImageInv, LiveInv
  <1>5. IdleInv'
    BY <1>3, Sound, PTL
  <1>6. SaveInv' /\ RestoreInv' /\ FileInv' /\ SavedInv'
    BY <1>1, AtRest, FilesUntouched DEF IInv, SavedInv, LeavingInv
  <1>7. QED
    BY <1>4, <1>5, <1>6 DEF IInv

(* A VM stops, goes on, or begins to be saved. *)
LEMMA ParkStep == ASSUME IInv, PauseOrResume \/ Begin PROVE IInv'
  <1>1. /\ UNCHANGED <<slot, stamp, part, path, kept, saved, late, lost>>
        /\ vm \in {"running", "paused"} /\ saved = None /\ step = "none"
        /\ paused' \in BOOLEAN
        /\ \/ vm' \in {"running", "paused"} /\ step' = "none"
           \/ vm' = "saving" /\ step' = "measure"
    BY DEF IInv, PauseOrResume, Begin, TypeOK, SavedInv, files, history
  <1>2. SlotTypeOK' /\ ImageInv' /\ IdleInv' /\ SlotOK'
        /\ UNCHANGED <<tp, ram, disk, safe, clock, lost>>
    BY <1>1, SlotUntouched DEF IInv, LiveInv, Live
  <1>3. TypeOK'
    BY <1>1, <1>2 DEF IInv, TypeOK
  <1>4. LiveInv'
    BY <1>1, <1>2, SMTT(60) DEF IInv, LiveInv, Live
  <1>5. SaveInv' /\ RestoreInv'
    BY <1>1 DEF SaveInv, RestoreInv, SaveSteps, RestoreSteps
  <1>a. FileInv' /\ SavedInv'
    BY <1>1, FilesUntouched DEF IInv, SavedInv, LeavingInv
  <1>6. QED
    BY <1>2, <1>3, <1>4, <1>5, <1>a DEF IInv

(* A file made of the parked VM holds it. *)
LEMMA FileHolds ==
  ASSUME IInv, stamp = disk.mtime, NEW synced \in BOOLEAN, NEW whole \in BOOLEAN
  PROVE  /\ File(whole, synced) \in SnapshotFile
         /\ File(TRUE, synced) \in SnapshotFile
         /\ Holds(File(TRUE, synced))
         /\ File(TRUE, synced).synced = synced
  <1>1. Save(tp) \in SavedTransport
    <2>1. 0 \in Index
      BY TransportAssumption, SMTT(60) DEF Index
    <2>2. QED
      BY <2>1 DEF IInv, TypeOK, SlotTypeOK, Save, SavedTransport
  <1>2. ram \in Ram /\ disk.mtime \in Nat
    BY DEF IInv, TypeOK, SlotTypeOK, Ram, Image
  <1>3. QED
    BY <1>1, <1>2 DEF File, SnapshotFile, Holds

(* A file that holds a sound VM is a sound file. *)
LEMMA HeldIsSound ==
  ASSUME IInv, vm = "saving", NEW f, Holds(f), f.synced
  PROVE  FileOK(f)
  <1>1. /\ SlotOK /\ (~lost => ram.sees = disk.mtime)
    BY DEF IInv, LiveInv, Live, ImageInv
  <1>2. /\ f.tp.activated = tp.activated /\ f.tp.queue = tp.queue
        /\ f.tp.status = tp.status /\ f.tp.version1 = tp.version1
        /\ f.tp.position = IF tp.next = None THEN 0 ELSE tp.next
    BY SMTT(60) DEF Holds, Save
  <1>3. tp.activated => f.tp.position = tp.next
    BY <1>1, <1>2, TransportAssumption, SMTT(60) DEF SlotOK, Ring, Index
  <1>4. Ring(f.tp.activated, f.tp.queue, f.tp.position, f.ram)
    BY <1>1, <1>2, <1>3 DEF Holds, SlotOK, Ring
  <1>5. Told(f.tp.activated, f.tp.status, f.tp.version1)
    BY <1>1, <1>2 DEF SlotOK
  <1>6. QED
    BY <1>1, <1>4, <1>5 DEF FileOK, Holds

(* The steps of a save, up to the report. *)
LEMMA SaveStep ==
  ASSUME IInv, Measure \/ Create \/ Finish \/ SyncAll \/ Rename
  PROVE  IInv'
  <1>1. /\ UNCHANGED <<slot, vm, paused, kept, saved, late, lost>>
        /\ vm = "saving" /\ saved = None
        /\ step \in SaveSteps \ {"report"} /\ step' \in SaveSteps \ {"measure"}
    BY DEF IInv, Measure, Create, Finish, SyncAll, Rename, Step, SaveInv, SaveSteps,
        SavedInv
  <1>2. SlotTypeOK' /\ ImageInv' /\ IdleInv' /\ SlotOK'
        /\ UNCHANGED <<tp, ram, disk, safe, clock, lost>>
    BY <1>1, SlotUntouched DEF IInv, LiveInv, Live
  <1>3. LiveInv'
    BY <1>1, <1>2, SMTT(60) DEF IInv, LiveInv
  <1>4. stamp' = disk.mtime /\ stamp' \in Nat
    BY <1>1 DEF IInv, SaveInv, SaveSteps, TypeOK, SlotTypeOK, Image, Measure, Create,
        Finish, SyncAll, Rename, Step
  <1>6. RestoreInv' /\ SavedInv'
    BY <1>1 DEF IInv, RestoreInv, SaveSteps, RestoreSteps, SavedInv, LeavingInv
  <1>7. ASSUME part' \in SnapshotFile \cup {None}, path' \in SnapshotFile \cup {None}
        PROVE  TypeOK'
    BY <1>1, <1>2, <1>4, <1>7 DEF IInv, TypeOK, SaveSteps
  <1>8. FileOK(kept)'
    BY <1>1 DEF IInv, FileInv, FileOK
  <1>9. CASE UNCHANGED path /\ ~Rename
    <2>1. FileInv'
      BY <1>1, <1>8, <1>9 DEF IInv, FileInv, FileOK
    <2>2. CASE Measure
      BY <1>1, <1>2, <1>3, <1>4, <1>6, <1>7, <2>1, <2>2
         DEF IInv, TypeOK, SaveInv, SaveSteps, Measure, Step
    <2>3. CASE Create
      <3>1. part' \in SnapshotFile
        BY <2>3, FileHolds DEF IInv, SaveInv, SaveSteps, Create, Step
      <3>2. TypeOK'
        BY <1>7, <1>9, <3>1 DEF IInv, TypeOK
      <3>3. SaveInv'
        BY <1>1, <1>2, <1>4, <2>3 DEF SaveInv, SaveSteps, Create, Step
      <3>4. QED
        BY <1>2, <1>3, <1>6, <2>1, <3>2, <3>3 DEF IInv
    <2>4. CASE Finish
      <3>1. Holds(part')
        BY <2>4, FileHolds DEF IInv, SaveInv, SaveSteps, Finish, Step
      <3>2. TypeOK'
        BY <1>7, <1>9, <3>1 DEF IInv, TypeOK, Holds
      <3>3. SaveInv'
        BY <1>1, <1>2, <1>4, <2>4, <3>1 DEF SaveInv, SaveSteps, Finish, Step, Holds
      <3>4. QED
        BY <1>2, <1>3, <1>6, <2>1, <3>2, <3>3 DEF IInv
    <2>5. CASE SyncAll
      <3>1. Holds(part)
        BY <2>5 DEF IInv, SaveInv, SyncAll, Step
      <3>2. /\ part' \in SnapshotFile /\ part'.whole = part.whole /\ part'.tp = part.tp
            /\ part'.ram = part.ram /\ part'.mtime = part.mtime /\ part'.synced
        BY <2>5, <3>1 DEF SyncAll, Holds, SnapshotFile
      <3>3. Holds(part')
        BY <3>1, <3>2 DEF Holds
      <3>4. TypeOK'
        BY <1>7, <1>9, <3>2 DEF IInv, TypeOK
      <3>5. SaveInv'
        BY <1>1, <1>2, <1>4, <2>5, <3>2, <3>3 DEF SaveInv, SaveSteps, SyncAll, Step, Holds
      <3>6. QED
        BY <1>2, <1>3, <1>6, <2>1, <3>4, <3>5 DEF IInv
    <2>6. QED
      BY <1>9, <2>2, <2>3, <2>4, <2>5
  <1>10. CASE Rename
    <2>1. step' = "report" /\ Holds(part) /\ path' = part /\ part' = None /\ part.synced
      BY <1>10 DEF IInv, SaveInv, Rename, Step
    <2>2. FileOK(part)
      BY <1>1, <2>1, HeldIsSound
    <2>3. FileInv'
      BY <1>1, <1>8, <2>1, <2>2 DEF FileInv, FileOK
    <2>4. SaveInv'
      BY <1>1, <1>2, <1>4, <2>1 DEF SaveInv, SaveSteps, Holds
    <2>5. TypeOK'
      BY <1>7, <2>1 DEF Holds
    <2>6. QED
      BY <1>2, <1>3, <1>6, <2>3, <2>4, <2>5 DEF IInv
  <1>11. QED
    BY <1>9, <1>10 DEF Measure, Create, Finish, SyncAll

(* The save is reported: what <path> names is the VM as it stands. *)
LEMMA ReportStep == ASSUME IInv, Report PROVE IInv'
  <1>1. /\ UNCHANGED <<slot, paused, stamp, part, path, kept, lost>>
        /\ saved' = [tp |-> Save(tp), ram |-> ram] /\ late' = FALSE
        /\ vm' = "leaving" /\ step' = "none"
        /\ Holds(path) /\ stamp = disk.mtime /\ vm = "saving"
    BY DEF IInv, Report, SaveInv, SaveSteps, files, history
  <1>2. SlotTypeOK' /\ ImageInv' /\ IdleInv' /\ SlotOK'
        /\ UNCHANGED <<tp, ram, disk, safe, clock, lost>>
    BY <1>1, SlotUntouched DEF IInv, LiveInv, Live
  <1>3. saved' \in [tp : SavedTransport, ram : Ram]
    BY <1>1 DEF Holds, SnapshotFile
  <1>4. TypeOK'
    BY <1>1, <1>2, <1>3 DEF IInv, TypeOK
  <1>5. Unserved(saved)' \/ Idle'
    <2>1. SlotOK
      BY <1>1 DEF IInv, LiveInv, Live
    <2>2. /\ saved'.ram = ram /\ saved'.tp.activated = tp.activated
          /\ saved'.tp.queue = tp.queue
          /\ saved'.tp.position = IF tp.next = None THEN 0 ELSE tp.next
      BY <1>1 DEF Save
    <2>3. tp.activated => tp.next # None
      BY <2>1, TransportAssumption, SMTT(60) DEF SlotOK, Ring, Index
    <2>4. QED
      BY <1>2, <2>2, <2>3 DEF Unserved, Idle
  <1>6. SavedInv'
    <2>1. SavedIsResumable'
      BY <1>1, <1>2, NoFile DEF SavedIsResumable, Holds
    <2>2. QED
      BY <1>1, <1>5, <2>1 DEF SavedInv, LeavingInv
  <1>7. LiveInv'
    BY <1>1, <1>2, SMTT(60) DEF IInv, LiveInv, Live
  <1>8. SaveInv' /\ RestoreInv' /\ FileInv'
    BY <1>1, AtRest, FilesUntouched DEF IInv
  <1>9. QED
    BY <1>2, <1>4, <1>6, <1>7, <1>8 DEF IInv

(* A save that fails gives the VM back; a process that ends takes it away. *)
LEMMA GiveUpStep == ASSUME IInv, FailedSave \/ End PROVE IInv'
  <1>1. /\ UNCHANGED <<slot, paused, stamp, path, kept, saved, late, lost>>
        /\ step' = "none"
        /\ \/ vm' = "off"
           \/ vm = "saving" /\ saved = None /\ vm' \in {"running", "paused"}
        /\ part' \in {part, None}
    BY DEF IInv, FailedSave, End, SavedInv, files, history
  <1>2. SlotTypeOK' /\ ImageInv' /\ IdleInv' /\ (SlotOK => SlotOK')
        /\ UNCHANGED <<tp, ram, disk, safe, clock, lost>>
    BY <1>1, SlotUntouched
  <1>3. TypeOK'
    BY <1>1, <1>2 DEF IInv, TypeOK
  <1>4. LiveInv'
    BY <1>1, <1>2, SMTT(60) DEF IInv, LiveInv, Live
  <1>5. SaveInv' /\ RestoreInv' /\ FileInv'
    BY <1>1, AtRest, FilesUntouched DEF IInv
  <1>6. SavedInv'
    BY <1>1, <1>2 DEF IInv, SavedInv, LeavingInv, SavedIsResumable, Unserved
  <1>7. QED
    BY <1>2, <1>3, <1>4, <1>5, <1>6 DEF IInv

------------------------------------------------------------------------------
(* The restore, the failures of the host, and what follows.                *)

(* A new process opens the file and builds an untouched machine for it. *)
LEMMA OpenStep == ASSUME IInv, Open PROVE IInv'
  <1>0. 0 \in Index
    BY TransportAssumption, SMTT(60) DEF Index
  <1>1. /\ vm = "off" /\ path # None /\ path \in SnapshotFile
        /\ vm' = "restoring" /\ step' = "check" /\ tp' = Fresh
        /\ ram' = [avail |-> 0, used |-> 0, sees |-> 0]
        /\ UNCHANGED <<disk, safe, clock, paused, stamp, part, path, kept, saved, late,
                       lost>>
    BY DEF IInv, Open, TypeOK, files, history
  <1>2. SlotTypeOK' /\ ~tp'.activated
    BY <1>0, <1>1 DEF IInv, TypeOK, SlotTypeOK, Fresh, Geometry
  <1>3. TypeOK' /\ ImageInv' /\ LiveInv' /\ IdleInv'
    BY <1>1, <1>2 DEF IInv, TypeOK, ImageInv, LiveInv, Live, IdleInv, RingAgrees,
        ActiveMeansNegotiated
  <1>4. SaveInv' /\ RestoreInv' /\ FileInv'
    <2>1. SaveInv' /\ RestoreInv'
      BY <1>1, <1>2 DEF IInv, SaveInv, RestoreInv, SaveSteps, RestoreSteps
    <2>2. QED
      BY <1>1, <2>1, FilesUntouched DEF IInv
  <1>5. SavedInv'
    BY <1>1 DEF IInv, SavedInv, LeavingInv, SavedIsResumable, Unserved
  <1>6. QED
    BY <1>3, <1>4, <1>5 DEF IInv

(* The image is the one the file was taken with, or the restore is over. *)
LEMMA CheckStep == ASSUME IInv, CheckFiles PROVE IInv'
  <1>1. /\ step = "check" /\ vm = "restoring"
        /\ UNCHANGED <<slot, paused, stamp, part, path, kept, saved, late, lost>>
        /\ \/ path.mtime = disk.mtime /\ step' = "memory" /\ vm' = "restoring"
           \/ step' = "none" /\ vm' = "off"
    BY DEF IInv, CheckFiles, RestoreInv, RestoreSteps, files, history
  <1>2. SlotTypeOK' /\ ImageInv' /\ IdleInv' /\ UNCHANGED <<tp, ram, disk, safe, clock,
                                                            lost>>
    BY <1>1, SlotUntouched
  <1>3. TypeOK' /\ LiveInv'
    BY <1>1, <1>2 DEF IInv, TypeOK, LiveInv, Live
  <1>4. SaveInv' /\ RestoreInv' /\ FileInv'
    <2>1. SaveInv' /\ RestoreInv'
      BY <1>1, <1>2 DEF IInv, SaveInv, RestoreInv, SaveSteps, RestoreSteps
    <2>2. QED
      BY <1>1, <2>1, FilesUntouched DEF IInv
  <1>5. SavedInv'
    BY <1>1, <1>2 DEF IInv, SavedInv, LeavingInv, SavedIsResumable, Unserved
  <1>6. QED
    BY <1>2, <1>3, <1>4, <1>5 DEF IInv

(* The saved memory goes in while no device runs. *)
LEMMA MemoryStep == ASSUME IInv, LoadMemory PROVE IInv'
  <1>1. /\ step = "memory" /\ vm = "restoring" /\ step' = "devices"
        /\ ram' = path.ram /\ path \in SnapshotFile /\ ~tp.activated
        /\ UNCHANGED <<tp, disk, safe, clock, vm, paused, stamp, part, path, kept,
                       saved, late, lost>>
    BY DEF IInv, LoadMemory, RestoreInv, RestoreSteps, files, history
  <1>2. SlotTypeOK'
    BY <1>1 DEF IInv, TypeOK, SlotTypeOK, SnapshotFile, Ram
  <1>3. TypeOK' /\ ImageInv' /\ LiveInv' /\ IdleInv'
    BY <1>1, <1>2 DEF IInv, TypeOK, ImageInv, LiveInv, Live, IdleInv, RingAgrees,
        ActiveMeansNegotiated
  <1>4. SaveInv' /\ RestoreInv' /\ FileInv'
    <2>1. SaveInv' /\ RestoreInv'
      BY <1>1, <1>2 DEF IInv, SaveInv, RestoreInv, SaveSteps, RestoreSteps
    <2>2. QED
      BY <1>1, <2>1, FilesUntouched DEF IInv
  <1>5. SavedInv'
    BY <1>1 DEF IInv, SavedInv, LeavingInv, SavedIsResumable, Unserved
  <1>6. QED
    BY <1>3, <1>4, <1>5 DEF IInv

(* A slot loaded from a sound file is of its type and as sound as the file. *)
LEMMA Loaded ==
  ASSUME NEW f \in SnapshotFile, FileOK(f), f # None, NEW t, t = Load(f.tp)
  PROVE  /\ t \in [status : SUBSET Bits, version1 : BOOLEAN, queue : Geometry,
                   activated : BOOLEAN, acked : BOOLEAN, next : Index \cup {None}]
         /\ Ring(t.activated, t.queue, t.next, f.ram)
         /\ Told(t.activated, t.status, t.version1)
         /\ "features_ok" \in t.status => t.acked
  <1>1. f.tp \in SavedTransport
    BY DEF SnapshotFile
  <1>2. /\ t \in [status : SUBSET Bits, version1 : BOOLEAN, queue : Geometry,
                  activated : BOOLEAN, acked : BOOLEAN, next : Index \cup {None}]
        /\ t.status = f.tp.status /\ t.version1 = f.tp.version1 /\ t.queue = f.tp.queue
        /\ t.activated = f.tp.activated
        /\ t.acked = ("features_ok" \in f.tp.status)
        /\ t.activated => t.next = f.tp.position
    <2> DEFINE told == "features_ok" \in f.tp.status
               u == [status |-> f.tp.status, version1 |-> f.tp.version1, queue |-> f.tp.queue,
                     activated |-> FALSE, acked |-> told, next |-> None]
    <2>0. t = IF f.tp.activated THEN [u EXCEPT !.activated = TRUE, !.next = f.tp.position] ELSE u
      BY DEF Load, ActivateAt
    <2>a. /\ f.tp.status \in SUBSET Bits /\ f.tp.version1 \in BOOLEAN
          /\ f.tp.queue \in Geometry /\ f.tp.activated \in BOOLEAN
          /\ f.tp.position \in Index /\ told \in BOOLEAN
      BY <1>1, SMTT(60) DEF SavedTransport
    <2> HIDE DEF told
    <2>1. /\ t \in [status : SUBSET Bits, version1 : BOOLEAN, queue : Geometry,
                    activated : BOOLEAN, acked : BOOLEAN, next : Index \cup {None}]
          /\ t.status = f.tp.status /\ t.version1 = f.tp.version1 /\ t.queue = f.tp.queue
          /\ t.activated = f.tp.activated /\ t.acked = told
          /\ t.activated => t.next = f.tp.position
      <3>1. /\ u \in [status : SUBSET Bits, version1 : BOOLEAN, queue : Geometry,
                      activated : BOOLEAN, acked : BOOLEAN, next : Index \cup {None}]
            /\ u.status = f.tp.status /\ u.version1 = f.tp.version1 /\ u.queue = f.tp.queue
            /\ u.activated = FALSE /\ u.acked = told
        BY <2>a
      <3> HIDE DEF u
      <3>2. CASE f.tp.activated
        BY <2>0, <2>a, <3>1, <3>2
      <3>3. CASE ~f.tp.activated
        BY <2>0, <2>a, <3>1, <3>3
      <3>4. QED
        BY <3>2, <3>3
    <2>2. QED
      BY <2>1 DEF told
  <1>3. QED
    BY <1>2 DEF FileOK, Ring, Told

(* The devices are loaded at the positions the guest last saw. *)
LEMMA DevicesStep == ASSUME IInv, LoadDevices PROVE IInv'
  <1>1. /\ step = "devices" /\ vm = "restoring" /\ step' = "start"
        /\ tp' = Load(path.tp) /\ path \in SnapshotFile /\ path # None
        /\ FileOK(path) /\ ram = path.ram
        /\ UNCHANGED <<ram, disk, safe, clock, vm, paused, stamp, part, path, kept,
                       saved, late, lost>>
    BY NoFile DEF IInv, LoadDevices, RestoreInv, RestoreSteps, FileInv, files, history
  <1>2. SlotTypeOK' /\ SlotOK'
    BY <1>1, Loaded DEF IInv, TypeOK, SlotTypeOK, SlotOK
  <1>3. TypeOK' /\ ImageInv' /\ LiveInv'
    BY <1>1, <1>2 DEF IInv, TypeOK, ImageInv, LiveInv, Live
  <1>4. IdleInv'
    BY <1>2, Sound, PTL
  <1>5. SaveInv' /\ RestoreInv' /\ FileInv'
    <2>1. SaveInv' /\ RestoreInv'
      BY <1>1, <1>2 DEF IInv, SaveInv, RestoreInv, SaveSteps, RestoreSteps
    <2>2. QED
      BY <1>1, <2>1, FilesUntouched DEF IInv
  <1>6. SavedInv'
    BY <1>1 DEF IInv, SavedInv, LeavingInv, SavedIsResumable, Unserved
  <1>7. QED
    BY <1>3, <1>4, <1>5, <1>6 DEF IInv

(* The restored VM runs, on the image it was saved with. *)
LEMMA StartStep == ASSUME IInv, Start PROVE IInv'
  <1>1. /\ step' = "none" /\ vm' = "running" /\ saved' = None
        /\ tp = Load(path.tp) /\ path \in SnapshotFile /\ path # None
        /\ FileOK(path) /\ ram = path.ram /\ path.mtime = disk.mtime
        /\ UNCHANGED <<slot, paused, stamp, part, path, kept, late, lost>>
    BY NoFile DEF IInv, Start, RestoreInv, RestoreSteps, FileInv, files, history
  <1>2. SlotOK
    BY <1>1, Loaded DEF SlotOK
  <1>3. SlotTypeOK' /\ ImageInv' /\ IdleInv' /\ SlotOK'
        /\ UNCHANGED <<tp, ram, disk, safe, clock, lost>>
    BY <1>1, <1>2, SlotUntouched
  <1>4. ~lost => ram.sees = disk.data
    BY <1>1 DEF IInv, FileOK, ImageInv
  <1>5. TypeOK' /\ LiveInv'
    BY <1>1, <1>3, <1>4, SMTT(60) DEF IInv, TypeOK, LiveInv
  <1>6. SaveInv' /\ RestoreInv' /\ FileInv' /\ SavedInv'
    BY <1>1, AtRest, FilesUntouched DEF IInv, SavedInv, LeavingInv
  <1>7. QED
    BY <1>3, <1>5, <1>6 DEF IInv

------------------------------------------------------------------------------
(* The file system catches up with what it was told. *)
LEMMA CatchUpStep == ASSUME IInv, Commit \/ WriteBack PROVE IInv'
  <1>1. /\ UNCHANGED <<tp, ram, disk, clock, vm, step, paused, stamp, part, path,
                       saved, late, lost>>
        /\ safe' \in {safe, disk} /\ kept' \in {kept, path}
    BY DEF Commit, WriteBack, slot, process, files, history
  <1>2. TypeOK'
    BY <1>1, SMTT(60) DEF IInv, TypeOK, SlotTypeOK
  <1>3. ImageInv' /\ LiveInv' /\ IdleInv'
    BY <1>1 DEF IInv, ImageInv, LiveInv, IdleInv, SlotOK, RingAgrees,
        ActiveMeansNegotiated
  <1>4. SaveInv' /\ RestoreInv'
    BY <1>1 DEF IInv, SaveInv, RestoreInv, Holds
  <1>5. FileInv' /\ SavedInv'
    BY <1>1 DEF IInv, FileInv, FileOK, SavedInv, LeavingInv, SavedIsResumable, Unserved,
        Idle
  <1>6. QED
    BY <1>2, <1>3, <1>4, <1>5 DEF IInv

(* The power fails: a synced file keeps its contents, and an image that was *)
(* flushed keeps its own.                                                   *)
LEMMA PowerStep == ASSUME IInv, PowerFails PROVE IInv'
  <1>1. /\ vm' = "off" /\ step' = "none" /\ saved' = None
        /\ UNCHANGED <<tp, ram, clock, paused, stamp, late>>
        /\ safe' = disk' /\ kept' = path' /\ lost' = (lost \/ disk # safe)
        /\ path' \in After(path) \cup After(kept)
        /\ part' \in {None} \cup After(part)
    BY DEF PowerFails
  <1>2. path' \in {path, kept}
    BY <1>1 DEF IInv, FileInv, FileOK, After
  <1>3. part' \in SnapshotFile \cup {None}
    BY <1>1 DEF IInv, TypeOK, After, Torn, SnapshotFile
  <1>4. PICK d \in safe.data..disk.data, m \in safe.mtime..disk.mtime :
           disk' = [data |-> d, mtime |-> m]
    BY DEF PowerFails
  <1>5. /\ safe.data \in Nat /\ disk.data \in Nat /\ safe.mtime \in Nat /\ disk.mtime \in Nat
    BY DEF IInv, TypeOK, SlotTypeOK, Image
  <1>6. disk' \in Image
    BY <1>4, <1>5, SMTT(60) DEF Image
  <1>7. TypeOK'
    BY <1>1, <1>2, <1>3, <1>6 DEF IInv, TypeOK, SlotTypeOK
  <1>8. ImageInv'
    <2>1. CASE lost'
      BY <2>1 DEF ImageInv
    <2>2. CASE ~lost'
      <3>1. ~lost /\ disk = safe
        BY <1>1, <2>2
      <3>2. d = disk.data /\ m = disk.mtime
        BY <1>4, <1>5, <3>1, SMTT(60)
      <3>3. QED
        BY <1>4, <3>1, <3>2 DEF IInv, ImageInv
    <2>3. QED
      BY <2>1, <2>2
  <1>9. LiveInv' /\ IdleInv' /\ SaveInv' /\ RestoreInv' /\ SavedInv'
    BY <1>1, AtRest DEF IInv, LiveInv, Live, IdleInv, RingAgrees, ActiveMeansNegotiated,
        SavedInv, LeavingInv
  <1>10. FileInv'
    BY <1>1, <1>2 DEF IInv, FileInv, FileOK
  <1>11. QED
    BY <1>7, <1>8, <1>9, <1>10 DEF IInv

(* Somebody writes the image of a VM that is not running. *)
LEMMA OtherStep == ASSUME IInv, SomebodyWrites PROVE IInv'
  <1>1. /\ vm = "off" /\ step = "none" /\ clock + 1 \in Nat /\ clock + 1 \in 0..MaxClock
        /\ clock' = clock + 1 /\ disk' = [data |-> clock + 1, mtime |-> clock + 1]
        /\ saved' = None
        /\ UNCHANGED <<tp, ram, safe, vm, step, paused, stamp, part, path, kept, late,
                       lost>>
    BY TransportAssumption, SMTT(60) DEF IInv, SomebodyWrites, TypeOK, SlotTypeOK,
        process, files, history
  <1>2. TypeOK'
    BY <1>1 DEF IInv, TypeOK, SlotTypeOK, Image
  <1>3. ImageInv' /\ LiveInv' /\ IdleInv'
    BY <1>1 DEF IInv, ImageInv, LiveInv, Live, IdleInv, RingAgrees, ActiveMeansNegotiated
  <1>4. SaveInv' /\ RestoreInv' /\ FileInv' /\ SavedInv'
    BY <1>1, AtRest, FilesUntouched DEF IInv, SavedInv, LeavingInv
  <1>5. QED
    BY <1>2, <1>3, <1>4 DEF IInv

(* A step that changes nothing. *)
LEMMA StutterStep == ASSUME IInv, UNCHANGED vars PROVE IInv'
  <1>1. UNCHANGED <<tp, ram, disk, safe, clock, vm, step, paused, stamp, part, path,
                    kept, saved, late, lost>>
    BY DEF vars, slot, process, files, history
  <1>2. TypeOK' /\ ImageInv' /\ LiveInv' /\ IdleInv'
    BY <1>1, SMTT(60) DEF IInv, TypeOK, SlotTypeOK, ImageInv, LiveInv, SlotOK, IdleInv,
        RingAgrees, ActiveMeansNegotiated
  <1>3. SaveInv' /\ RestoreInv'
    BY <1>1 DEF IInv, SaveInv, RestoreInv, Holds
  <1>4. FileInv' /\ SavedInv'
    BY <1>1, FilesUntouched DEF IInv, SavedInv, LeavingInv, SavedIsResumable, Unserved,
        Idle
  <1>5. QED
    BY <1>2, <1>3, <1>4 DEF IInv

(* The invariant is inductive, one lemma for each group of actions. *)
LEMMA Inductive == Spec => []IInv
  <1>1. ASSUME IInv, [Next]_vars PROVE IInv'
    BY <1>1, BootStep, RunStep, ParkStep, SaveStep, ReportStep, GiveUpStep, OpenStep,
        CheckStep, MemoryStep, DevicesStep, StartStep, CatchUpStep, PowerStep, OtherStep,
        StutterStep
       DEF Next, Saving, Restoring, Host
  <1>2. QED
    BY <1>1, InitIInv, PTL DEF Spec

(* No restore serves a request twice or skips one: wherever a device runs,  *)
(* it continues at the position the guest's ring is at (activate_at).       *)
THEOREM RestoredRing == Spec => []RingAgrees
  <1>1. IInv => RingAgrees
    BY DEF IInv, IdleInv
  <1>2. QED
    BY <1>1, Inductive, PTL

(* Whenever a suspend is interrupted, by an error, a kill or a power        *)
(* failure, <path> names a whole snapshot or nothing (save_partial).        *)
THEOREM NeverTorn == Spec => []WholeOrNothing
  <1>1. IInv => WholeOrNothing
    BY DEF IInv, FileInv, FileOK, WholeOrNothing
  <1>2. QED
    BY <1>1, Inductive, PTL

(* No guest runs on an image other than the one its memory describes, as    *)
(* long as no power failure took unflushed writes (check_files).            *)
THEOREM ImageUnchanged == Spec => []RunsOnItsImage
  <1>1. IInv => RunsOnItsImage
    BY DEF IInv, LiveInv, Live, RunsOnItsImage
  <1>2. QED
    BY <1>1, Inductive, PTL

(* A suspend that reported success left a file that holds that very VM.     *)
(* The file resumes it unless the process that reported it has since served *)
(* a request that was in its ring and written the image (Supervisor's       *)
(* suspend, save_machine, Lifecycle::shutdown).                             *)
THEOREM ReportedIsThere == Spec => []SavedIsResumable
  <1>1. IInv => SavedIsResumable
    BY DEF IInv, SavedInv, LeavingInv, SavedIsResumable, Unserved
  <1>2. QED
    BY <1>1, Inductive, PTL

(* The types of all that a suspend and a resume write, whatever fails: no   *)
(* ring index leaves its span, no file holds half a record (Transport and   *)
(* the snapshot's sections).                                                *)
THEOREM SuspendType == Spec => []TypeOK
  <1>1. IInv => TypeOK
    BY DEF IInv
  <1>2. QED
    BY <1>1, Inductive, PTL

(* A device that runs was told the features that were negotiated, whether   *)
(* the driver or a restore started it (activate, activate_at).              *)
THEOREM ActiveIsNegotiated == Spec => []ActiveMeansNegotiated
  <1>1. IInv => ActiveMeansNegotiated
    BY DEF IInv, IdleInv
  <1>2. QED
    BY <1>1, Inductive, PTL
==============================================================================
