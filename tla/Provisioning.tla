---------------------------- MODULE Provisioning ----------------------------
(***************************************************************************)
(* A full (non-sync) provisioning session and its recovery.                *)
(*                                                                         *)
(* Session:   orchestrator.rs  provision_usb, sync_mode = false.           *)
(* Resume:    orchestrator.rs  resume_provisioning and recovery.rs         *)
(*            execute_recovery.                                            *)
(* State:     checkpoint.rs    CheckpointManager (memory) and the          *)
(*            .provisioning_checkpoint file on the host (disk).            *)
(* Final QA:  verification.rs  pre_eject_verification.                     *)
(*                                                                         *)
(* The program works on an in-memory checkpoint `mem` and copies it to the *)
(* host file `disk` only at a volume boundary and at the end, so a crash   *)
(* forgets a suffix of the work; a resume starts from `disk`.  Files are   *)
(* never synced one by one: `dirty` holds the slots of the stick whose     *)
(* last write may still be in the page cache, and a power loss may leave   *)
(* anything in them.  `disk` itself is replaced atomically: module         *)
(* AtomicWrite shows that write_json_atomically_to_paths is a register.    *)
(***************************************************************************)
EXTENDS Integers, Sequences, FiniteSets

CONSTANTS Names,    \* normalized names (NNNN_<stem>_<hash8>.mp3)
          Kind,     \* what normalize_audio makes of the track behind a name
          Sources,  \* the source trees, each the sequence of its tracks' names
          Volumes,  \* the VOL_XX numbers
          Cap       \* MAX_FILES_PER_FOLDER

(***************************************************************************)
(* "clean": classified FastInPlaceRename; "dirty": goes through ffmpeg;    *)
(* "drm": detect_drm answers yes.                                          *)
(***************************************************************************)
Kinds == {"clean", "dirty", "drm"}

(***************************************************************************)
(* The volume recovery.rs and verification.rs compute for the i-th entry   *)
(* of a checkpoint (the code's index is i - 1).                            *)
(***************************************************************************)
VolumeOf(i) == ((i - 1) \div Cap) + 1

ASSUME CapAssumption == Cap \in Nat \ {0}
ASSUME KindAssumption == Kind \in [Names -> Kinds]
ASSUME NamesAssumption == IsFiniteSet(Names)
ASSUME VolumesAssumption == Volumes \subseteq Nat \ {0}
\* Discovery aborts on an empty source, and every VOL_XX a source needs exists.
ASSUME SourcesAssumption ==
    \A s \in Sources : /\ s \in Seq(Names)
                       /\ s # <<>>
                       /\ \A i \in 1..Len(s) : VolumeOf(i) \in Volumes

VARIABLES
    source,    \* the audio source as it is now
    pc,        \* what the program is doing
    planner,   \* VolumePlanner
    active,    \* active_volume_name, 0 for None
    mem,       \* the CheckpointData in memory
    todo,      \* execute_recovery: indices_to_recover not handled yet
    failures,  \* execute_recovery: recovery_failures is not empty
    disk,      \* the checkpoint file on the host
    usb,       \* the content of every slot <<volume, name>> of the stick
    dirty,     \* slots with writes that may not have reached the medium
    outcome    \* what the last command reported

vars == <<source, pc, planner, active, mem, todo, failures, disk, usb, dirty,
          outcome>>

Slots == Volumes \X Names

(***************************************************************************)
(* "intact" stands for the bytes whose SHA256 a Completed entry records:   *)
(* a name carries the hash of its source, so it determines them.  "torn"   *)
(* is any other content, a zero-byte file included.                        *)
(***************************************************************************)
Content == {"absent", "intact", "torn"}

Entry == [name : Names,
          status : {"InProgress", "Completed", "Failed"},
          error : {"none", "Skipped_DRM", "failure"}]

Checkpoint == [status : {"None", "InProgress", "Completed"},
               total : Nat,
               entries : Seq(Entry)]

NoCheckpoint == [status |-> "None", total |-> 0, entries |-> <<>>]
NoPlanner == [volume |-> 1, count |-> 0]

Outcome == {"none",       \* no command yet, or one is running
            "error",      \* Err: the command failed or was killed
            "lost",       \* the stick lost power, and no eject had been reported
            "finalized",  \* provision reported success, stick left mounted
            "ejected",    \* provision reported success after safe_eject
            "noop",       \* resume: nothing to recover in this session
            "recovered"}  \* resume reported success

Record(c, entry) == [c EXCEPT !.entries = Append(@, entry)]

Mark(c, i, status, error) ==
    [c EXCEPT !.entries[i] = [name |-> @.name, status |-> status, error |-> error]]

\* The CheckpointManager methods; who calls them decides what is persisted.
mark_file_completed(c, i) == Mark(c, i, "Completed", "none")
mark_file_failed(c, i) == Mark(c, i, "Failed", "failure")

SlotOf(c, i) == <<VolumeOf(i), c.entries[i].name>>
Indices(c) == 1..Len(c.entries)
SourceNames == {source[i] : i \in 1..Len(source)}
FilesIn(v) == {n \in Names : usb[<<v, n>>] # "absent"}

TypeOK ==
    /\ source \in Sources
    /\ pc \in {"idle", "loop", "encode", "qa", "finalize", "eject",
               "recover", "recopy"}
    /\ planner \in [volume : Nat, count : Nat]
    /\ active \in Nat
    /\ mem \in Checkpoint
    /\ todo \in SUBSET Indices(mem)
    /\ failures \in BOOLEAN
    /\ disk \in Checkpoint
    /\ usb \in [Slots -> Content]
    /\ dirty \in SUBSET Slots
    /\ outcome \in Outcome

Init ==
    /\ source \in Sources
    /\ pc = "idle"
    /\ planner = NoPlanner
    /\ active = 0
    /\ mem = NoCheckpoint
    /\ todo = {}
    /\ failures = FALSE
    /\ disk = NoCheckpoint
    /\ usb = [s \in Slots |-> "absent"]
    /\ dirty = {}
    /\ outcome = "none"

\* Mutant of Stop: the work list outlives the recovery it belongs to.
Stop_KeepsWorkList(report) ==
    /\ pc' = "idle"
    /\ planner' = NoPlanner
    /\ active' = 0
    /\ mem' = NoCheckpoint
    /\ todo' = todo
    /\ failures' = FALSE
    /\ outcome' = report

\* The process returns or dies: its memory is gone, the user has a report.
Stop(report) ==
    /\ pc' = "idle"
    /\ planner' = NoPlanner
    /\ active' = 0
    /\ mem' = NoCheckpoint
    /\ todo' = {}
    /\ failures' = FALSE
    /\ outcome' = report

-----------------------------------------------------------------------------
(***************************************************************************)
(* The provisioning session.                                               *)
(***************************************************************************)

\* Validation, discovery, backup and a new checkpoint with auto_persist off:
\* nothing of it reaches the checkpoint file, which keeps the last session's.
StartProvision ==
    /\ pc = "idle"
    /\ pc' = "loop"
    /\ mem' = [status |-> "InProgress", total |-> Len(source), entries |-> <<>>]
    /\ outcome' = "none"
    /\ UNCHANGED <<source, planner, active, todo, failures, disk, usb, dirty>>

Pending == Len(mem.entries) < mem.total

\* Mutant of Planned: a folder takes one file more than Cap.
Planned_OffByOne == IF planner.count > Cap
                    THEN [volume |-> planner.volume + 1, count |-> 0]
                    ELSE planner

\* VolumePlanner::plan_file: the folder the next file goes to.
Planned == IF planner.count >= Cap
           THEN [volume |-> planner.volume + 1, count |-> 0]
           ELSE planner

NextName == source[Len(mem.entries) + 1]
NextSlot == <<Planned.volume, NextName>>

\* Mutant of EnterVolume: the checkpoint is not saved at the boundary.
EnterVolume_NoSave ==
    /\ pc = "loop"
    /\ Pending
    /\ Planned.volume # active
    /\ active' = Planned.volume
    /\ UNCHANGED <<source, pc, planner, mem, todo, failures, disk, usb, dirty, outcome>>

\* The first file of a volume: leaving a volume saves the checkpoint.
EnterVolume ==
    /\ pc = "loop"
    /\ Pending
    /\ Planned.volume # active
    /\ active' = Planned.volume
    /\ disk' = IF active = 0 THEN disk ELSE mem
    /\ UNCHANGED <<source, pc, planner, mem, todo, failures, usb, dirty, outcome>>

LogFile(status, error) ==
    /\ planner' = [Planned EXCEPT !.count = @ + 1]
    /\ mem' = Record(mem, [name |-> NextName, status |-> status, error |-> error])

\* normalize_audio refuses FastInPlaceRename and DRM before it runs ffmpeg;
\* the loop records the failure and goes on.
RejectFile ==
    /\ pc = "loop"
    /\ Pending
    /\ Planned.volume = active
    /\ Kind[NextName] # "dirty"
    /\ LogFile("Failed", IF Kind[NextName] = "drm" THEN "Skipped_DRM" ELSE "failure")
    /\ UNCHANGED <<source, pc, active, todo, failures, disk, usb, dirty, outcome>>

\* ffmpeg -y writes straight to the destination: until it ends the slot holds
\* the old file, nothing, or a part of the new one.
BeginEncode ==
    /\ pc = "loop"
    /\ Pending
    /\ Planned.volume = active
    /\ Kind[NextName] = "dirty"
    /\ LogFile("InProgress", "none")
    /\ \E c \in {usb[NextSlot], "torn"} :
          usb' = [usb EXCEPT ![NextSlot] = c]
    /\ dirty' = dirty \cup {NextSlot}
    /\ pc' = "encode"
    /\ UNCHANGED <<source, active, todo, failures, disk, outcome>>

Last == Len(mem.entries)
EncodeSlot == <<planner.volume, mem.entries[Last].name>>

EncodeOk ==
    /\ pc = "encode"
    /\ usb' = [usb EXCEPT ![EncodeSlot] = "intact"]
    /\ mem' = mark_file_completed(mem, Last)
    /\ pc' = "loop"
    /\ UNCHANGED <<source, planner, active, todo, failures, disk, dirty, outcome>>

\* Mutant of EncodeFails: the file is taken out of the log, to be tried again.
EncodeFails_Again ==
    /\ pc = "encode"
    /\ mem' = [mem EXCEPT !.entries = SubSeq(@, 1, Last - 1)]
    /\ pc' = "loop"
    /\ UNCHANGED <<source, planner, active, todo, failures, disk, usb, dirty, outcome>>

\* A failed ffmpeg leaves whatever it wrote at the destination.
EncodeFails ==
    /\ pc = "encode"
    /\ mem' = mark_file_failed(mem, Last)
    /\ pc' = "loop"
    /\ UNCHANGED <<source, planner, active, todo, failures, disk, usb, dirty, outcome>>

FinishLoop ==
    /\ pc = "loop"
    /\ ~Pending
    /\ disk' = mem
    /\ pc' = "qa"
    /\ UNCHANGED <<source, planner, active, mem, todo, failures, usb, dirty, outcome>>

\* verify_directory_structure: stale files of other sessions count too.
StructureOk == \A v \in Volumes : Cardinality(FilesIn(v)) <= Cap

\* verify_file_integrity, for a checkpoint c: what Completed entries recorded
\* is what the stick holds.  (Reading goes through the page cache.)
IntegrityOk(c) ==
    \A i \in Indices(c) :
        c.entries[i].status = "Completed" => usb[SlotOf(c, i)] = "intact"

QaPass ==
    /\ pc = "qa"
    /\ StructureOk
    /\ IntegrityOk(mem)
    /\ pc' = "finalize"
    /\ UNCHANGED <<source, planner, active, mem, todo, failures, disk, usb, dirty, outcome>>

QaFail ==
    /\ pc = "qa"
    /\ ~(StructureOk /\ IntegrityOk(mem))
    /\ Stop("error")
    /\ UNCHANGED <<source, disk, usb, dirty>>

\* CheckpointManager::finalize always saves.
Finalize ==
    /\ pc = "finalize"
    /\ mem' = [mem EXCEPT !.status = "Completed"]
    /\ disk' = mem'
    /\ pc' = "eject"
    /\ UNCHANGED <<source, planner, active, todo, failures, usb, dirty, outcome>>

\* finalize_mount_state: safe_eject only when LAP_SAFE_EJECT asks for it.
KeepMounted ==
    /\ pc = "eject"
    /\ Stop("finalized")
    /\ UNCHANGED <<source, disk, usb, dirty>>

\* Mutant of SafeEject: the buffers are not flushed.
SafeEject_NoSync ==
    /\ pc = "eject"
    /\ Stop("ejected")
    /\ UNCHANGED <<source, disk, usb, dirty>>

\* `sync` comes before umount, whose failure is but a warning, and power-off.
SafeEject ==
    /\ pc = "eject"
    /\ Stop("ejected")
    /\ dirty' = {}
    /\ UNCHANGED <<source, disk, usb>>

-----------------------------------------------------------------------------
(***************************************************************************)
(* Resume.                                                                 *)
(***************************************************************************)

Recoverable(c) == c.status = "InProgress" /\ c.entries # <<>>

\* verify_usb_integrity: Completed entries the stick does not hold.
Corrupted(c) == {i \in Indices(c) : /\ c.entries[i].status = "Completed"
                                    /\ usb[SlotOf(c, i)] # "intact"}

\* A corrupted path is turned back into an index by its file name alone: the
\* first entry of that name.
FirstOfName(c, i) ==
    CHOOSE j \in Indices(c) :
        /\ c.entries[j].name = c.entries[i].name
        /\ \A k \in Indices(c) : c.entries[k].name = c.entries[i].name => j <= k

\* Mutant of Unfinished: DRM entries are retried like any failure.
Unfinished_WithDrm(c) == {i \in Indices(c) : c.entries[i].status # "Completed"}

Unfinished(c) == {i \in Indices(c) : /\ c.entries[i].status # "Completed"
                                     /\ c.entries[i].error # "Skipped_DRM"}

\* Mutants of ToRecover: no hash is checked; nothing is spared.
ToRecover_TrustsCompleted(c) == Unfinished(c)
ToRecover_Everything(c) == Indices(c) \ {i \in Indices(c) : c.entries[i].error = "Skipped_DRM"}

ToRecover(c) == Unfinished(c) \cup {FirstOfName(c, i) : i \in Corrupted(c)}

ResumeNothing ==
    /\ pc = "idle"
    /\ disk # NoCheckpoint
    /\ ~Recoverable(disk)
    /\ outcome' = "noop"
    /\ UNCHANGED <<source, pc, planner, active, mem, todo, failures, disk, usb, dirty>>

StartResume ==
    /\ pc = "idle"
    /\ Recoverable(disk)
    /\ mem' = disk
    /\ todo' = ToRecover(disk)
    /\ failures' = FALSE
    /\ pc' = "recover"
    /\ outcome' = "none"
    /\ UNCHANGED <<source, planner, active, disk, usb, dirty>>

Current == CHOOSE i \in todo : \A j \in todo : i <= j
CurrentName == mem.entries[Current].name
CurrentSlot == SlotOf(mem, Current)

\* The old file goes first; then the source is classified, and a source that
\* is gone aborts the whole recovery (the `?` after classify_audio_processing).
RemoveOld ==
    /\ pc = "recover"
    /\ todo # {}
    /\ dirty' = dirty \cup {CurrentSlot}
    /\ \/ /\ CurrentName \in SourceNames
          /\ \E c \in {"absent", "torn"} :
                usb' = [usb EXCEPT ![CurrentSlot] = c]
          /\ pc' = "recopy"
          /\ UNCHANGED <<planner, active, mem, todo, failures, outcome>>
       \/ /\ CurrentName \notin SourceNames
          /\ usb' = [usb EXCEPT ![CurrentSlot] = "absent"]
          /\ Stop("error")
    /\ UNCHANGED <<source, disk>>

\* fs::copy for a clean track, ffmpeg for the others; mark_file_completed
\* persists at once (a loaded manager has auto_persist on).
RecopyOk ==
    /\ pc = "recopy"
    /\ Kind[CurrentName] # "drm"
    /\ usb' = [usb EXCEPT ![CurrentSlot] = "intact"]
    /\ mem' = mark_file_completed(mem, Current)
    /\ disk' = mem'
    /\ todo' = todo \ {Current}
    /\ pc' = "recover"
    /\ UNCHANGED <<source, planner, active, failures, dirty, outcome>>

\* Mutant of RecopyFails: a failed entry stays in the work list.
RecopyFails_Retries ==
    /\ pc = "recopy"
    /\ mem' = mark_file_failed(mem, Current)
    /\ disk' = mem'
    /\ failures' = TRUE
    /\ pc' = "recover"
    /\ UNCHANGED <<source, planner, active, todo, usb, dirty, outcome>>

RecopyFails ==
    /\ pc = "recopy"
    /\ mem' = mark_file_failed(mem, Current)
    /\ disk' = mem'
    /\ todo' = todo \ {Current}
    /\ failures' = TRUE
    /\ pc' = "recover"
    /\ UNCHANGED <<source, planner, active, usb, dirty, outcome>>

\* purge_orphan_zero_byte_files, on a recovery without failures only: the torn
\* files no entry expects, as many of them as have no bytes at all.
Orphans == {s \in Slots : usb[s] = "torn"} \ {SlotOf(mem, i) : i \in Indices(mem)}

FinishRecovery ==
    /\ pc = "recover"
    /\ todo = {}
    /\ \E zero \in IF failures THEN {{}} ELSE SUBSET Orphans :
          usb' = [s \in Slots |-> IF s \in zero THEN "absent" ELSE usb[s]]
    /\ Stop(IF failures THEN "error" ELSE "recovered")
    /\ UNCHANGED <<source, disk, dirty>>

-----------------------------------------------------------------------------
(***************************************************************************)
(* The surroundings.                                                       *)
(***************************************************************************)

\* Every other early return and a killed process: ENOSPC in save_to_disk, an
\* unreadable source, an I/O error.  The page cache survives.
Abort ==
    /\ pc # "idle"
    /\ Stop("error")
    /\ UNCHANGED <<source, disk, usb, dirty>>

\* Power cut, or the stick is pulled: a slot with cached writes may end up with
\* any content.  A reported eject stands: whatever power does to the stick from
\* then on, its user has been told that the stick is finished.
PowerLoss ==
    /\ pc # "idle" \/ dirty # {}
    /\ \E after \in [dirty -> Content] :
          usb' = [s \in Slots |-> IF s \in dirty THEN after[s] ELSE usb[s]]
    /\ dirty' = {}
    /\ Stop(IF outcome = "ejected" THEN "ejected" ELSE "lost")
    /\ UNCHANGED <<source, disk>>

\* The kernel writes the page cache back.
WriteBack ==
    /\ dirty # {}
    /\ dirty' = {}
    /\ UNCHANGED <<source, pc, planner, active, mem, todo, failures, disk, usb, outcome>>

\* The user edits the music collection between two commands.
EditSource ==
    /\ pc = "idle"
    /\ source' \in Sources
    /\ outcome' = "none"
    /\ UNCHANGED <<pc, planner, active, mem, todo, failures, disk, usb, dirty>>

Session == \/ EnterVolume \/ RejectFile \/ BeginEncode \/ EncodeOk \/ EncodeFails
           \/ FinishLoop \/ QaPass \/ QaFail \/ Finalize \/ KeepMounted \/ SafeEject

Recovery == RemoveOld \/ RecopyOk \/ RecopyFails \/ FinishRecovery

Program == Session \/ Recovery

Next == \/ StartProvision \/ ResumeNothing \/ StartResume
        \/ Program
        \/ Abort \/ PowerLoss \/ WriteBack \/ EditSource

Spec == Init /\ [][Next]_vars

\* The process runs: a command that can take a step takes one.
FairSpec == Spec /\ WF_vars(Program)
-----------------------------------------------------------------------------
(***************************************************************************)
(* Properties.                                                             *)
(***************************************************************************)

(***************************************************************************)
(* A provision that reports success covers its whole source, left the      *)
(* checkpoint Completed on the host, and the stick holds what every        *)
(* Completed entry recorded and no volume of more than Cap files, those of *)
(* earlier sessions counted (orchestrator.rs: finalize comes after the     *)
(* final QA).  After a safe eject this survives a power loss, for the      *)
(* report "ejected" does (verification.rs safe_eject: sync first).         *)
(***************************************************************************)
FinalizedIsIntact ==
    outcome \in {"finalized", "ejected"} =>
        /\ disk.status = "Completed"
        /\ Len(disk.entries) = disk.total
        /\ IntegrityOk(disk)
        /\ StructureOk

(***************************************************************************)
(* A resume that reports success leaves every entry of the checkpoint      *)
(* either skipped for DRM or Completed and intact on the stick             *)
(* (recovery.rs: execute_recovery retries what is missing, corrupt or      *)
(* failed).                                                                *)
(***************************************************************************)
RecoveredIsIntact ==
    outcome = "recovered" =>
        \A i \in Indices(disk) :
            \/ disk.entries[i].error = "Skipped_DRM"
            \/ /\ disk.entries[i].status = "Completed"
               /\ usb[SlotOf(disk, i)] = "intact"

IsInitialPart(s, t) == Len(s) <= Len(t) /\ \A i \in 1..Len(s) : s[i] = t[i]

(***************************************************************************)
(* The file on the host lags the memory by one volume at most: a session   *)
(* past its first volume has on disk an initial part of its entries that   *)
(* lacks at most Cap of them, a recovery has all of them, and what is on   *)
(* disk never mentions a file that was being written.                      *)
(***************************************************************************)
CheckpointLag ==
    /\ pc \in {"loop", "encode"} /\ Len(mem.entries) > Cap =>
          /\ IsInitialPart(disk.entries, mem.entries)
          /\ Len(mem.entries) - Len(disk.entries) <= Cap
    /\ pc \in {"qa", "finalize", "eject", "recover", "recopy"} => disk = mem
    /\ \A i \in Indices(disk) : disk.entries[i].status # "InProgress"

(***************************************************************************)
(* The folder the planner picks while writing is the one the final QA and  *)
(* the recovery compute from the entry's index.                            *)
(***************************************************************************)
WritesWhereQaLooks ==
    /\ pc = "loop" /\ Pending => NextSlot = <<VolumeOf(Last + 1), NextName>>
    /\ pc = "encode" => EncodeSlot = SlotOf(mem, Last)

(***************************************************************************)
(* Recovery is selective: a good file disappears from the stick during a   *)
(* recovery only if it sits where an unfinished entry has to be written.   *)
(***************************************************************************)
RecoveryTouchesOnlyDamage ==
    [][\A s \in Slots :
         (/\ pc \in {"recover", "recopy"}
          /\ outcome' # "lost"
          /\ usb[s] = "intact"
          /\ usb'[s] # "intact")
         => (\E i \in Unfinished(mem) : s = SlotOf(mem, i))]_vars

(***************************************************************************)
(* An entry skipped for DRM is never retried: it keeps its place and its   *)
(* reason in the checkpoint as long as the session is only recovered.      *)
(***************************************************************************)
DrmStaysSkipped ==
    [][\A i \in Indices(disk) :
         (pc \in {"recover", "recopy"} /\ disk.entries[i].error = "Skipped_DRM")
         => (disk'.entries[i] = disk.entries[i])]_vars

(***************************************************************************)
(* A bound for the steps a command has still to take: three for a file of  *)
(* the loop, two for one of a recovery.                                    *)
(***************************************************************************)
StepsLeft ==
    CASE pc = "loop" -> 3 * (mem.total - Last)
                          + (IF Pending /\ Planned.volume # active THEN 5 ELSE 4)
      [] pc = "encode" -> 3 * (mem.total - Last) + 6
      [] pc = "qa" -> 3
      [] pc = "finalize" -> 2
      [] pc = "eject" -> 1
      [] pc = "recover" -> 2 * Cardinality(todo) + 1
      [] pc = "recopy" -> 2 * Cardinality(todo)
      [] OTHER -> 0

(***************************************************************************)
(* No command goes round in circles: every step of the loop and of the     *)
(* recovery, a failed conversion or copy included, leaves fewer steps to   *)
(* take, so that each file is handled once and no failure is retried       *)
(* within a command (orchestrator.rs main loop, recovery.rs).              *)
(***************************************************************************)
CommandsProgress ==
    [][pc # "idle" => StepsLeft' \in 0..StepsLeft - 1 \/ WriteBack]_vars

(***************************************************************************)
(* Every command comes to an end: the loop and the recovery handle each    *)
(* file once, whatever fails.                                              *)
(***************************************************************************)
CommandsEnd == pc # "idle" ~> pc = "idle"

-----------------------------------------------------------------------------
(***************************************************************************)
(* What the documentation says and the code does not do.                   *)
(***************************************************************************)

IntactSomewhere(n) == \E v \in Volumes : usb[<<v, n>>] = "intact"

(***************************************************************************)
(* A successful provision delivers the tracks that are already safe MP3s   *)
(* (R06_audio_normalization_ffmpeg.md: passthrough).                       *)
(***************************************************************************)
CleanTracksDelivered ==
    outcome \in {"finalized", "ejected"} =>
        \A n \in SourceNames : Kind[n] = "clean" => IntactSomewhere(n)
=============================================================================
