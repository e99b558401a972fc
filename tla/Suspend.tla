------------------------------- MODULE Suspend -------------------------------
(***************************************************************************)
(* Suspending a VM to a file and resuming it in another process: the       *)
(* writer (crates/vm-snapshot/src/vm.rs, format.rs), the fingerprints of   *)
(* the image (meta.rs), restore_machine and the supervisor's suspend       *)
(* (apps/entangled/src/run_vm.rs), over a host whose process may be killed *)
(* and whose power may fail between any two steps.                         *)
(*                                                                         *)
(* The host file system is external.  Its rules: a file's contents survive *)
(* a power failure once sync_all has returned, and may be torn before; a   *)
(* rename is atomic but may be lost until the journal commits; an image    *)
(* keeps what was flushed, and any part of what was written since.         *)
(*                                                                         *)
(* Nothing locks an image.  One VM process at a time uses it, and nothing  *)
(* else writes it while a VM process lives.  Every write of an image gives *)
(* it a modification time of its own.                                      *)
(***************************************************************************)
EXTENDS Transport

VARIABLES
    vm,       \* "off", "running", "paused", "saving", "leaving" or "restoring"
    step,     \* where save_partial or restore_machine is
    paused,   \* was_paused: what a failed suspend goes back to
    stamp,    \* the image's fingerprint, once metadata() has measured it
    part,     \* the file at <path>.part, or None
    path,     \* the file at <path>, or None
    kept,     \* the file <path> names if the power fails now
    saved,    \* history: the VM a suspend has reported as saved, or None
    late,     \* history: the image was written after that report, by its process
    lost      \* history: a power failure took writes that nobody flushed

files == <<part, path, kept>>
process == <<vm, step, paused, stamp>>
history == <<saved, late, lost>>
vars == <<slot, process, files, history>>

(* A snapshot file.  SnapshotReader and the section digests tell a whole    *)
(* one from a torn one.                                                     *)
File(whole, synced) ==
    [whole |-> whole, synced |-> synced, tp |-> Save(tp), ram |-> ram, mtime |-> stamp]

Torn(f) == [f EXCEPT !.whole = FALSE]

SavedTransport ==
    [status : SUBSET Bits, version1 : BOOLEAN, queue : Geometry,
     activated : BOOLEAN, position : Index]
Ram == [avail : Index, used : Index, sees : Nat]
SnapshotFile ==
    [whole : BOOLEAN, synced : BOOLEAN, tp : SavedTransport, ram : Ram, mtime : Nat]

ASSUME NoFile == None \notin SnapshotFile

TypeOK ==
    /\ SlotTypeOK
    /\ vm \in {"off", "running", "paused", "saving", "leaving", "restoring"}
    /\ step \in {"none", "measure", "create", "write", "sync", "rename", "report",
                 "check", "memory", "devices", "start"}
    /\ (step = "none") <=> (vm \in {"off", "running", "paused", "leaving"})
    /\ paused \in BOOLEAN
    /\ stamp \in Nat
    /\ {part, path, kept} \subseteq SnapshotFile \cup {None}
    /\ saved \in [tp : SavedTransport, ram : Ram] \cup {None}
    /\ late \in BOOLEAN /\ lost \in BOOLEAN

Init ==
    /\ tp = Fresh /\ ram = [avail |-> 0, used |-> 0, sees |-> 0]
    /\ disk = [data |-> 0, mtime |-> 0] /\ safe = disk /\ clock = 0
    /\ vm = "off" /\ step = "none" /\ paused = FALSE /\ stamp = 0
    /\ part = None /\ path = None /\ kept = None
    /\ saved = None /\ late = FALSE /\ lost = FALSE

------------------------------------------------------------------------------
(* A cold boot: the guest reads its image afresh. *)
Boot ==
    /\ vm = "off"
    /\ vm' = "running" /\ saved' = None
    /\ tp' = Fresh
    /\ ram' = [avail |-> 0, used |-> 0, sees |-> disk.data]
    /\ UNCHANGED <<disk, safe, clock, step, paused, stamp, files, late, lost>>

Run ==
    /\ vm = "running"
    /\ Driver \/ Device
    /\ UNCHANGED <<process, files, history>>

PauseOrResume ==
    /\ vm \in {"running", "paused"}
    /\ vm' = IF vm = "running" THEN "paused" ELSE "running"
    /\ UNCHANGED <<slot, step, paused, stamp, files, history>>

------------------------------------------------------------------------------
(* Supervisor::suspend, then save_machine and save_partial.  The VM is at a *)
(* lifecycle stop point from the first step to the last.                    *)

Step(at, to) ==
    /\ step = at /\ step' = to
    /\ UNCHANGED <<slot, vm, paused, kept, late, lost>>

Begin ==
    /\ vm \in {"running", "paused"}
    /\ vm' = "saving" /\ step' = "measure"
    /\ paused' = (vm = "paused")
    /\ UNCHANGED <<slot, stamp, files, history>>

(* Mistake: measured once for all suspends. *)
MeasureOnce ==
    /\ Step("measure", "create")
    /\ stamp' = IF stamp = 0 THEN disk.mtime ELSE stamp
    /\ UNCHANGED <<part, path, saved>>

(* metadata(): the fingerprint of the image as it is now. *)
Measure ==
    /\ Step("measure", "create")
    /\ stamp' = disk.mtime
    /\ UNCHANGED <<part, path, saved>>

Create ==
    /\ Step("create", "write")
    /\ part' = File(FALSE, FALSE)
    /\ UNCHANGED <<stamp, path, saved>>

(* Every section, the index, and last the header. *)
Finish ==
    /\ Step("write", "sync")
    /\ part' = File(TRUE, FALSE)
    /\ UNCHANGED <<stamp, path, saved>>

(* Mistake: left to the page cache. *)
SyncNothing ==
    /\ Step("sync", "rename")
    /\ UNCHANGED <<stamp, part, path, saved>>

SyncAll ==
    /\ Step("sync", "rename")
    /\ part' = [part EXCEPT !.synced = TRUE]
    /\ UNCHANGED <<stamp, path, saved>>

Rename ==
    /\ Step("rename", "report")
    /\ path' = part /\ part' = None
    /\ UNCHANGED <<stamp, saved>>

(* "saved <path>": the VM is Suspended, and its process is asked to end. *)
Report ==
    /\ step = "report"
    /\ saved' = [tp |-> Save(tp), ram |-> ram] /\ late' = FALSE
    /\ vm' = "leaving" /\ step' = "none"
    /\ UNCHANGED <<slot, paused, stamp, files, lost>>

(* Lifecycle::shutdown lets the parked vCPUs go, to end, and unquiesce()    *)
(* opens the gate: a worker with a kick in hand, or in its eventfd, serves  *)
(* it while the process comes down.  The guest runs no more.                *)
TearDown ==
    /\ vm = "leaving"
    /\ Device
    /\ late' = (late \/ disk' # disk)
    /\ UNCHANGED <<process, files, saved, lost>>

(* An error on the way: save_impl removes the partial file, and the VM goes *)
(* back to what it was.                                                     *)
FailedSave ==
    /\ vm = "saving" /\ step # "report"
    /\ vm' = IF paused THEN "paused" ELSE "running"
    /\ step' = "none"
    /\ part' = IF step = "measure" THEN part ELSE None
    /\ UNCHANGED <<slot, paused, stamp, path, kept, history>>

------------------------------------------------------------------------------
(* entangled resume: the file is opened, then restore_machine.  A torn file *)
(* is refused, by the digests of its header, index and sections.            *)

Open ==
    /\ vm = "off" /\ path # None /\ path.whole
    /\ vm' = "restoring" /\ step' = "check"
    /\ tp' = Fresh /\ ram' = [avail |-> 0, used |-> 0, sees |-> 0]
    /\ UNCHANGED <<disk, safe, clock, paused, stamp, files, history>>

(* Mistake: the fingerprints are only recorded. *)
CheckNothing ==
    /\ step = "check"
    /\ step' = "memory"
    /\ UNCHANGED <<slot, vm, paused, stamp, files, history>>

(* check_files: before the first page is written. *)
CheckFiles ==
    /\ step = "check"
    /\ IF path.mtime = disk.mtime
       THEN step' = "memory" /\ UNCHANGED vm
       ELSE step' = "none" /\ vm' = "off"
    /\ UNCHANGED <<slot, paused, stamp, files, history>>

LoadMemory ==
    /\ step = "memory" /\ step' = "devices"
    /\ ram' = path.ram
    /\ UNCHANGED <<tp, disk, safe, clock, vm, paused, stamp, files, history>>

LoadDevices ==
    /\ step = "devices" /\ step' = "start"
    /\ tp' = Load(path.tp)
    /\ UNCHANGED <<ram, disk, safe, clock, vm, paused, stamp, files, history>>

Start ==
    /\ step = "start" /\ step' = "none"
    /\ vm' = "running" /\ saved' = None
    /\ UNCHANGED <<slot, paused, stamp, files, late, lost>>

------------------------------------------------------------------------------
(* The process ends, at any point: the guest shut down, a panic, a kill. *)
End ==
    /\ vm # "off"
    /\ vm' = "off" /\ step' = "none"
    /\ UNCHANGED <<slot, paused, stamp, files, history>>

(* The journal commits, the image is written back. *)
Commit ==
    /\ kept' = path
    /\ UNCHANGED <<slot, process, part, path, history>>

WriteBack ==
    /\ safe' = disk
    /\ UNCHANGED <<tp, ram, disk, clock, process, files, history>>

After(f) == IF f = None \/ f.synced THEN {f} ELSE {f, Torn(f)}

PowerFails ==
    /\ vm' = "off" /\ step' = "none"
    /\ path' \in After(path) \cup After(kept)
    /\ kept' = path'
    /\ part' \in {None} \cup After(part)
    /\ \E d \in safe.data..disk.data, m \in safe.mtime..disk.mtime :
          disk' = [data |-> d, mtime |-> m]
    /\ safe' = disk'
    /\ lost' = (lost \/ disk # safe)
    /\ saved' = None
    /\ UNCHANGED <<tp, ram, clock, paused, stamp, late>>

(* While no VM process lives, somebody else writes the image. *)
SomebodyWrites ==
    /\ vm = "off" /\ clock < MaxClock
    /\ clock' = clock + 1
    /\ disk' = [data |-> clock + 1, mtime |-> clock + 1]
    /\ saved' = None
    /\ UNCHANGED <<tp, ram, safe, process, files, late, lost>>

Saving == Measure \/ Create \/ Finish \/ SyncAll \/ Rename \/ Report
Restoring == CheckFiles \/ LoadMemory \/ LoadDevices \/ Start
Host == End \/ Commit \/ WriteBack \/ PowerFails \/ SomebodyWrites

Next ==
    \/ Boot \/ Run \/ PauseOrResume
    \/ Begin \/ Saving \/ FailedSave \/ TearDown
    \/ Open \/ Restoring
    \/ Host

Spec == Init /\ [][Next]_vars

------------------------------------------------------------------------------
(* Whatever fails and whenever, <path> names a whole snapshot or nothing:   *)
(* "must not leave a half-written file where a snapshot is supposed to be"  *)
(* (save_partial, SnapshotWriter::finish).                                  *)
WholeOrNothing == path # None => path.whole

(* A guest never runs on an image that is not the one its page cache        *)
(* describes: check_files refuses an image that has moved on.  A power      *)
(* failure that takes unflushed writes is the exception: save flushes the   *)
(* snapshot, and not the image.                                             *)
RunsOnItsImage ==
    vm \in {"running", "paused", "saving"} /\ ~lost => ram.sees = disk.data

(* A saved VM whose device had requests in its ring that it had not served. *)
Unserved(s) == s.tp.activated /\ s.tp.queue = "usable" /\ s.tp.position # s.ram.avail

(* What was reported as saved is there, exactly as it was, and can be       *)
(* resumed until the power fails, the VM runs again or somebody writes its  *)
(* image.  One thing else stands in the way: the process that has reported  *)
(* it serves a request it had left in the ring, and check_files then finds  *)
(* an image that is no longer the one measured (Supervisor::suspend,        *)
(* save_machine, Lifecycle::shutdown).                                      *)
SavedIsResumable ==
    saved # None =>
        /\ path # None /\ path.tp = saved.tp /\ path.ram = saved.ram
        /\ path.mtime = disk.mtime \/ late
        /\ late => Unserved(saved)
==============================================================================
