----------------------------- MODULE SyncSession -----------------------------
(***************************************************************************)
(* provision --sync: the stick is brought up to date with the source.      *)
(*                                                                         *)
(* Session:  orchestrator.rs provision_usb, sync_mode = true, without      *)
(*           --strict-parity and --dry-run.                                *)
(* Diff:     diffing.rs  calculate_sync_diff_streaming, the root topology  *)
(*           and the two quarantines.                                      *)
(* Journal:  journal.rs  JournalManager, saved after every change.         *)
(* Indices:  distribution.rs for_incremental, index_manager.rs.            *)
(*                                                                         *)
(* A file of the stick has a compliant name, one with an index in a        *)
(* VOL_XX folder, or is in a spot, anywhere else.  A compliant name with   *)
(* the hash8 of its track is a slot, and the diff trusts it.  One without, *)
(* the name a rebuild in place or a user gives, counts for the folder and  *)
(* for the index, but nobody asks what is in it.  Of what is in a spot the *)
(* diff computes the hash.  The process may be killed between any two      *)
(* steps; power losses are left to Provisioning.                           *)
(***************************************************************************)
EXTENDS Integers, Sequences, FiniteSets

CONSTANTS Tracks,    \* recordings, numbered in the natural order of their names
          Kind,      \* what classify and normalize_audio make of each
          Copied,    \* bound: what users copy to the stick by hand
          Sources,   \* the source trees: sets of tracks, one file for each
          RootSpots, \* files next to the VOL_XX folders
          VolSpots,  \* files in VOL_01 without a legacy name
          Unhashed,  \* compliant names without a hash8
          Nowhere,   \* no spot
          Cap,       \* MAX_FILES_PER_FOLDER
          MaxVolume, \* bound: the VOL_XX numbers
          MaxIndex   \* bound: the indices in names

Spots == RootSpots \cup VolSpots

ASSUME TracksAssumption == Tracks \subseteq Nat /\ 0 \notin Tracks /\ IsFiniteSet(Tracks)
\* "clean": FastInPlaceRename; "dirty": goes through ffmpeg.
ASSUME KindAssumption == Kind \in [Tracks -> {"clean", "dirty"}]
ASSUME SourcesAssumption == \A s \in Sources : s \subseteq Tracks /\ s # {}
ASSUME CopiedAssumption == Copied \subseteq Tracks
ASSUME CapAssumption == Cap \in Nat \ {0}
ASSUME BoundsAssumption == MaxVolume \in Nat \ {0} /\ MaxIndex \in Nat \ {0}

Volumes == 1..MaxVolume
Slots == [vol : Volumes, idx : 1..MaxIndex, of : Tracks]

\* They speak of no track.
ASSUME UnhashedAssumption == Unhashed \subseteq [vol : Volumes, idx : 1..MaxIndex, of : {0}]

\* is_legacy_compliant_target
Compliant == Slots \cup Unhashed
Places == Compliant \cup Spots

ASSUME SpotsAssumption ==
    RootSpots \cap VolSpots = {} /\ Spots \cap Compliant = {} /\ Nowhere \notin Spots

Absent == 0
Torn == -1    \* no whole recording
Content == Tracks \cup {Absent, Torn}

VARIABLES
    source,     \* the tracks in the audio source
    files,      \* the visible files of the stick
    managed,    \* the root holds a VOL_XX folder or .legacy_quarantine
    quarantine, \* what .legacy_quarantine holds
    backup,     \* what the backup directory on the host holds
    journal,    \* the journal file: a transaction for every target in it
    disk,       \* the entries of the checkpoint file
    pc,         \* what the session is doing
    diff,       \* SyncDiffReport
    sandbox,    \* root_sandbox_candidates not handled yet
    untracked,  \* untracked_in_target not handled yet
    k,          \* the file of diff.process the current loop has come to
    active,     \* active_volume_name, 0 for None
    mem,        \* the entries of the checkpoint in memory
    success     \* the last session reported success, and nothing has changed since

stickVars == <<source, files, managed, quarantine, backup>>
vars == <<source, files, managed, quarantine, backup, journal, disk, pc, diff,
          sandbox, untracked, k, active, mem, success>>

Entry == [idx : 1..MaxIndex, of : Tracks,
          status : {"InProgress", "Completed", "Failed"}]

\* A target's name has the hash8 of its track: it stands for expected_hash.
Transaction == [from : Spots, status : {"Pending", "InProgress", "Committed", "Failed"}]

NoDiff == [process |-> <<>>, displaced |-> [t \in Tracks |-> Nowhere],
           volume |-> 1, count |-> 0, next |-> 1]

TypeOK ==
    /\ source \in Sources
    /\ files \in [Places -> Content]
    /\ managed \in BOOLEAN
    /\ quarantine \in SUBSET (Tracks \cup {Torn})
    /\ backup \in SUBSET (Tracks \cup {Torn})
    /\ DOMAIN journal \subseteq Slots
    /\ \A to \in DOMAIN journal : journal[to] \in Transaction
    /\ disk \in Seq(Entry)
    /\ pc \in {"idle", "sandbox", "isolate", "plan", "loop", "move", "moved",
               "encode", "qa", "clear"}
    /\ diff.process \in Seq(Tracks)
    /\ diff.displaced \in [Tracks -> Spots \cup {Nowhere}]
    /\ diff.volume \in Nat /\ diff.count \in Nat /\ diff.next \in Nat
    /\ sandbox \in SUBSET RootSpots
    /\ untracked \in SUBSET Places
    /\ k \in 1..Len(diff.process) + 1
    /\ active \in Volumes \cup {0}
    /\ mem \in Seq(Entry)
    /\ success \in BOOLEAN
    \* The file the loop works on is the last one recorded.
    /\ pc \in {"move", "moved", "encode"} =>
           k \in DOMAIN diff.process /\ Len(mem) = k
    /\ pc = "loop" => Len(mem) = k - 1

Init ==
    /\ source \in Sources
    /\ files = [p \in Places |-> Absent]
    /\ managed = FALSE
    /\ quarantine = {}
    /\ backup = {}
    /\ journal = <<>>
    /\ disk = <<>>
    /\ pc = "idle"
    /\ diff = NoDiff
    /\ sandbox = {}
    /\ untracked = {}
    /\ k = 1
    /\ active = 0
    /\ mem = <<>>
    /\ success = FALSE

\* The session returns or dies: its memory is gone.
Stop(report) ==
    /\ pc' = "idle"
    /\ diff' = NoDiff
    /\ sandbox' = {}
    /\ untracked' = {}
    /\ k' = 1
    /\ active' = 0
    /\ mem' = <<>>
    /\ success' = report

-----------------------------------------------------------------------------
(***************************************************************************)
(* The diff.                                                               *)
(***************************************************************************)

Present == {p \in Places : files[p] # Absent}
SlotsPresent == Present \cap Slots
CompliantPresent == Present \cap Compliant
SpotsPresent == Present \cap Spots

Largest(ns) == CHOOSE n \in ns : \A m \in ns : m <= n

\* Mutant of ToProcess: the diff looks at the content instead of the name.
ToProcess_ByContent == {t \in source : \A p \in SlotsPresent : files[p] # t}

\* SourceDiffAcc::process: a track whose hash8 a slot's name has is skipped.
ToProcess == {t \in source : \A p \in SlotsPresent : p.of # t}

\* files_to_process in natural order.
Sorted(ts) == [i \in 1..Cardinality(ts) |->
                 CHOOSE t \in ts : Cardinality({u \in ts : u < t}) = i - 1]

\* build_target_hash_index: the spot the walk meets first that holds the track.
SpotOf(t) ==
    IF \E p \in Spots : files[p] = t THEN CHOOSE p \in Spots : files[p] = t ELSE Nowhere

Displaced == [t \in Tracks |-> IF t \in ToProcess THEN SpotOf(t) ELSE Nowhere]

\* checkpoint_known_names: all of them names with a hash8.
Known(p) == \E i \in 1..Len(disk) : disk[i].idx = p.idx /\ disk[i].of = p.of

\* finish_sync_diff; without a managed topology the list is cleared.
Untracked ==
    IF managed
    THEN {p \in CompliantPresent : disk # <<>> /\ ~Known(p)}
         \cup {p \in SpotsPresent : \A t \in Tracks : Displaced[t] # p}
    ELSE {}

\* existing_volume_counts
CountIn(v) == Cardinality({p \in CompliantPresent : p.vol = v})

\* VolumePlanner::for_incremental starts in the last folder that is there.
LastVolume == Largest({p.vol : p \in CompliantPresent} \cup {1})

\* Mutant of NextIndex: only the checkpoint is asked.
NextIndex_CheckpointOnly == Largest({disk[i].idx : i \in 1..Len(disk)} \cup {0}) + 1

\* The high-water mark of the names on the stick and in the checkpoint.
NextIndex ==
    Largest({p.idx : p \in CompliantPresent} \cup {disk[i].idx : i \in 1..Len(disk)}
            \cup {0}) + 1

\* Mutant of Diff: how full the last folder is does not count.
Diff_EmptyFolder ==
    [process |-> Sorted(ToProcess), displaced |-> Displaced,
     volume |-> LastVolume, count |-> 0, next |-> NextIndex]

Diff == [process |-> Sorted(ToProcess), displaced |-> Displaced,
         volume |-> LastVolume, count |-> CountIn(LastVolume), next |-> NextIndex]

\* analyze_root_topology: what is not on the whitelist.
Candidates == IF managed THEN SpotsPresent \cap RootSpots ELSE {}

\* JournalManager::reconcile
Reconciled ==
    [to \in DOMAIN journal |->
       [journal[to] EXCEPT !.status =
          CASE @ = "Committed" \/ files[to] = to.of -> "Committed"
            [] OTHER -> IF files[journal[to].from] # Absent THEN "Pending" ELSE "Failed"]]

NothingToDo == ToProcess = {} /\ Untracked = {} /\ Candidates = {}

\* "No changes: USB is already synchronized."
NoChange ==
    /\ pc = "idle"
    /\ NothingToDo
    /\ journal' = Reconciled
    /\ success' = TRUE
    /\ UNCHANGED <<stickVars, disk, pc, diff, sandbox, untracked, k, active,
                   mem>>

\* The folder of the i-th file: plan_file, from for_incremental on.
FolderOf(d, i) == d.volume + (d.count + i - 1) \div Cap

\* Bounds: no session beyond the last index and the last folder.
WithinBounds(d) ==
    LET n == Len(d.process)
    IN  n > 0 => d.next + n - 1 <= MaxIndex /\ FolderOf(d, n) \in Volumes

StartSync ==
    /\ pc = "idle"
    /\ ~NothingToDo
    /\ WithinBounds(Diff)
    /\ diff' = Diff
    /\ journal' = Reconciled
    /\ sandbox' = Candidates
    /\ untracked' = Untracked
    /\ pc' = "sandbox"
    /\ success' = FALSE
    /\ UNCHANGED <<stickVars, disk, k, active, mem>>

-----------------------------------------------------------------------------
(***************************************************************************)
(* Quarantine and backup.                                                  *)
(***************************************************************************)

\* Mutant of Isolate: a failed backup does not keep the file from moving.
Isolate_Unbacked(p) ==
    \/ /\ backup' \in {backup, backup \cup {files[p]}}
       /\ quarantine' = quarantine \cup {files[p]}
       /\ files' = [files EXCEPT ![p] = Absent]
       /\ managed' = TRUE
    \/ /\ backup' \in {backup, backup \cup {files[p]}}
       /\ UNCHANGED <<files, managed, quarantine>>

\* Mutant of Isolate: not a rename, but a removal and a copy that may fail.
Isolate_RemovesFirst(p) ==
    \/ /\ backup' = backup \cup {files[p]}
       /\ quarantine' = quarantine \cup {files[p]}
       /\ files' = [files EXCEPT ![p] = Absent]
       /\ managed' = TRUE
    \/ /\ backup' = backup \cup {files[p]}
       /\ files' = [files EXCEPT ![p] = Absent]
       /\ UNCHANGED <<managed, quarantine>>

\* Backup first, under a name of its own; then a rename into the quarantine,
\* under a name of its own.  Both may fail: the file then stays.
Isolate(p) ==
    \/ /\ backup' = backup \cup {files[p]}
       /\ quarantine' = quarantine \cup {files[p]}
       /\ files' = [files EXCEPT ![p] = Absent]
       /\ managed' = TRUE
    \/ /\ backup' \in {backup, backup \cup {files[p]}}
       /\ UNCHANGED <<files, managed, quarantine>>

\* quarantine_non_whitelisted_root_entries
SandboxEntry ==
    /\ pc = "sandbox"
    /\ \E p \in sandbox :
          /\ Isolate(p)
          /\ sandbox' = sandbox \ {p}
    /\ UNCHANGED <<source, journal, disk, pc, diff, untracked, k, active, mem,
                   success>>

\* backup_file of every track to process, its displaced copy preferred.
BackupTracks ==
    /\ pc = "sandbox"
    /\ sandbox = {}
    /\ untracked' = untracked \cap Present
    /\ backup' = backup \cup {diff.process[i] : i \in 1..Len(diff.process)}
    /\ pc' = "isolate"
    /\ UNCHANGED <<source, files, managed, quarantine, journal, disk, diff,
                   sandbox, k, active, mem, success>>

\* Mutant of IsolateFile: a file that stays is tried again.
IsolateFile_Again ==
    /\ pc = "isolate"
    /\ \E p \in untracked :
          /\ Isolate(p)
          /\ untracked' = {q \in untracked : files'[q] # Absent}
    /\ UNCHANGED <<source, journal, disk, pc, diff, sandbox, k, active, mem,
                   success>>

\* quarantine_untracked_files
IsolateFile ==
    /\ pc = "isolate"
    /\ \E p \in untracked :
          /\ Isolate(p)
          /\ untracked' = untracked \ {p}
    /\ UNCHANGED <<source, journal, disk, pc, diff, sandbox, k, active, mem,
                   success>>

\* No new files: a success, and the checkpoint stays as it is.
OnlyIsolated ==
    /\ pc = "isolate"
    /\ untracked = {}
    /\ diff.process = <<>>
    /\ Stop(TRUE)
    /\ UNCHANGED <<stickVars, journal, disk>>

\* A new checkpoint in memory, and the preview loop.
OpenSession ==
    /\ pc = "isolate"
    /\ untracked = {}
    /\ diff.process # <<>>
    /\ pc' = "plan"
    /\ UNCHANGED <<stickVars, journal, disk, diff, sandbox, untracked, k,
                   active, mem, success>>

-----------------------------------------------------------------------------
(***************************************************************************)
(* The plan and the main loop.                                             *)
(***************************************************************************)

More == k <= Len(diff.process)
Track == diff.process[k]
From == diff.displaced[Track]

\* Mutant of Target: only a file that was written uses up its index.
Target_ByCompleted ==
    LET done == Cardinality({i \in 1..Len(mem) : mem[i].status = "Completed"})
    IN  [vol |-> FolderOf(diff, k), idx |-> diff.next + done, of |-> Track]

Target == [vol |-> FolderOf(diff, k), idx |-> diff.next + k - 1, of |-> Track]

\* ensure_move_transaction: a Committed transaction stays Committed.
Ensured ==
    [to \in DOMAIN journal \cup {Target} |->
       IF to # Target THEN journal[to]
       ELSE [from |-> From,
             status |-> IF to \in DOMAIN journal /\ journal[to].status = "Committed"
                        THEN "Committed" ELSE "Pending"]]

PlanFile ==
    /\ pc = "plan"
    /\ More
    /\ journal' = IF From # Nowhere /\ Kind[Track] = "clean" THEN Ensured ELSE journal
    /\ k' = k + 1
    /\ UNCHANGED <<stickVars, disk, pc, diff, sandbox, untracked, active, mem,
                   success>>

StartLoop ==
    /\ pc = "plan"
    /\ ~More
    /\ k' = 1
    /\ pc' = "loop"
    /\ UNCHANGED <<stickVars, journal, disk, diff, sandbox, untracked, active,
                   mem, success>>

\* create_dir_all of the next folder; leaving a folder saves the checkpoint.
EnterVolume ==
    /\ pc = "loop"
    /\ More
    /\ Target.vol # active
    /\ active' = Target.vol
    /\ managed' = TRUE
    /\ disk' = IF active = 0 THEN disk ELSE mem
    /\ UNCHANGED <<source, files, quarantine, backup, journal, pc, diff,
                   sandbox, untracked, k, mem, success>>

Recorded(status) ==
    Append(mem, [idx |-> Target.idx, of |-> Track, status |-> status])
Marked(status) == [mem EXCEPT ![k].status = status]

Movable == Kind[Track] = "clean" /\ From # Nowhere /\ files[From] # Absent

\* Mutant of BeginMove: displaced_usb_path.exists() is not asked.
BeginMove_Unchecked ==
    /\ pc = "loop"
    /\ More
    /\ Target.vol = active
    /\ Kind[Track] = "clean" /\ From # Nowhere
    /\ mem' = Recorded("InProgress")
    /\ journal' = [journal EXCEPT ![Target].status = "InProgress"]
    /\ pc' = "move"
    /\ UNCHANGED <<stickVars, disk, diff, sandbox, untracked, k, active,
                   success>>

\* Mutant of BeginMove: no record_file_start in the branch that moves.
BeginMove_Unrecorded ==
    /\ pc = "loop"
    /\ More
    /\ Target.vol = active
    /\ Movable
    /\ journal' = [journal EXCEPT ![Target].status = "InProgress"]
    /\ pc' = "move"
    /\ UNCHANGED <<stickVars, disk, diff, sandbox, untracked, k, active, mem,
                   success>>

\* record_file_start and mark_in_progress.
BeginMove ==
    /\ pc = "loop"
    /\ More
    /\ Target.vol = active
    /\ Movable
    /\ mem' = Recorded("InProgress")
    /\ journal' = [journal EXCEPT ![Target].status = "InProgress"]
    /\ pc' = "move"
    /\ UNCHANGED <<stickVars, disk, diff, sandbox, untracked, k, active,
                   success>>

RenameMove ==
    /\ pc = "move"
    /\ files' = [files EXCEPT ![Target] = files[From], ![From] = Absent]
    /\ pc' = "moved"
    /\ UNCHANGED <<source, managed, quarantine, backup, journal, disk, diff,
                   sandbox, untracked, k, active, mem, success>>

\* The hash agrees, for a rename does not change it.
CommitMove ==
    /\ pc = "moved"
    /\ files[Target] = Track
    /\ journal' = [journal EXCEPT ![Target].status = "Committed"]
    /\ mem' = Marked("Completed")
    /\ k' = k + 1
    /\ pc' = "loop"
    /\ UNCHANGED <<stickVars, disk, diff, sandbox, untracked, active, success>>

\* normalize_audio refuses a clean track.
RejectFile ==
    /\ pc = "loop"
    /\ More
    /\ Target.vol = active
    /\ Kind[Track] = "clean" /\ ~Movable
    /\ mem' = Recorded("Failed")
    /\ k' = k + 1
    /\ UNCHANGED <<stickVars, journal, disk, pc, diff, sandbox, untracked,
                   active, success>>

\* A copy of the track in a spot stays where it is.
BeginEncode ==
    /\ pc = "loop"
    /\ More
    /\ Target.vol = active
    /\ Kind[Track] = "dirty"
    /\ mem' = Recorded("InProgress")
    /\ files' \in {files, [files EXCEPT ![Target] = Torn]}
    /\ pc' = "encode"
    /\ UNCHANGED <<source, managed, quarantine, backup, journal, disk, diff,
                   sandbox, untracked, k, active, success>>

EncodeOk ==
    /\ pc = "encode"
    /\ files' = [files EXCEPT ![Target] = Track]
    /\ mem' = Marked("Completed")
    /\ k' = k + 1
    /\ pc' = "loop"
    /\ UNCHANGED <<source, managed, quarantine, backup, journal, disk, diff,
                   sandbox, untracked, active, success>>

\* Mutant of EncodeFails: a failure is recorded like a success.
EncodeFails_Completes ==
    /\ pc = "encode"
    /\ mem' = Marked("Completed")
    /\ k' = k + 1
    /\ pc' = "loop"
    /\ UNCHANGED <<stickVars, journal, disk, diff, sandbox, untracked, active,
                   success>>

EncodeFails ==
    /\ pc = "encode"
    /\ mem' = Marked("Failed")
    /\ k' = k + 1
    /\ pc' = "loop"
    /\ UNCHANGED <<stickVars, journal, disk, diff, sandbox, untracked, active,
                   success>>

FinishLoop ==
    /\ pc = "loop"
    /\ ~More
    /\ disk' = mem
    /\ pc' = "qa"
    /\ UNCHANGED <<stickVars, journal, diff, sandbox, untracked, k, active,
                   mem, success>>

\* verify_directory_structure counts every file of a folder.
StructureOk ==
    \A v \in Volumes :
        CountIn(v) + (IF v = 1 THEN Cardinality(Present \cap VolSpots) ELSE 0) <= Cap

\* verify_file_integrity takes the folder from the place of the entry in the
\* checkpoint, which starts at 0 in every session.
IntegrityOk ==
    \A i \in 1..Len(mem) :
        LET v == (i - 1) \div Cap + 1
        IN  mem[i].status = "Completed" =>
                /\ v \in Volumes
                /\ files[[vol |-> v, idx |-> mem[i].idx, of |-> mem[i].of]] = mem[i].of

\* The final QA, and finalize, which saves the same entries again.
QaPass ==
    /\ pc = "qa"
    /\ StructureOk /\ IntegrityOk
    /\ pc' = "clear"
    /\ UNCHANGED <<stickVars, journal, disk, diff, sandbox, untracked, k,
                   active, mem, success>>

QaFail ==
    /\ pc = "qa"
    /\ ~(StructureOk /\ IntegrityOk)
    /\ Stop(FALSE)
    /\ UNCHANGED <<stickVars, journal, disk>>

\* clear_from_path, if all_committed.
ClearJournal ==
    /\ pc = "clear"
    /\ journal' = IF \A to \in DOMAIN journal : journal[to].status = "Committed"
                  THEN <<>> ELSE journal
    /\ Stop(TRUE)
    /\ UNCHANGED <<stickVars, disk>>

-----------------------------------------------------------------------------
\* Killed, or any error that ends the session.
Abort ==
    /\ pc # "idle"
    /\ Stop(FALSE)
    /\ UNCHANGED <<stickVars, journal, disk>>

EditSource ==
    /\ pc = "idle"
    /\ source' \in Sources
    /\ success' = FALSE
    /\ UNCHANGED <<files, managed, quarantine, backup, journal, disk, pc, diff,
                   sandbox, untracked, k, active, mem>>

\* The user copies a track to the stick by hand, or an earlier rebuild in place
\* left it.  Bound: nobody but the program fills a folder beyond its limit.
UserCopies ==
    /\ pc = "idle"
    /\ \E p \in Spots \cup Unhashed, t \in Copied :
          /\ files[p] = Absent
          /\ p \in Unhashed => CountIn(p.vol) < Cap
          /\ files' = [files EXCEPT ![p] = t]
          /\ managed' = (managed \/ p \notin RootSpots)
    /\ success' = FALSE
    /\ UNCHANGED <<source, quarantine, backup, journal, disk, pc, diff,
                   sandbox, untracked, k, active, mem>>

Move == BeginMove \/ RenameMove \/ CommitMove

Undisturbed ==
        \/ NoChange \/ StartSync
        \/ SandboxEntry \/ BackupTracks \/ IsolateFile \/ OnlyIsolated \/ OpenSession
        \/ PlanFile \/ StartLoop \/ EnterVolume \/ Move \/ RejectFile
        \/ BeginEncode \/ EncodeOk \/ FinishLoop \/ QaPass \/ QaFail \/ ClearJournal
        \/ EditSource \/ UserCopies

Next == Undisturbed \/ EncodeFails \/ Abort

Spec == Init /\ [][Next]_vars

\* No session ends before its time and ffmpeg always succeeds.
UndisturbedSpec == Init /\ [][Undisturbed]_vars
-----------------------------------------------------------------------------
(***************************************************************************)
(* No file is put away before it is backed up: whatever is in the          *)
(* quarantine is in the backup on the host too (diffing.rs: no entry is    *)
(* mutated if its backup fails).                                           *)
(***************************************************************************)
QuarantineIsBackedUp == quarantine \subseteq backup

(***************************************************************************)
(* No index is given twice, so no file is ever written over another one,   *)
(* whichever sessions were killed and whichever checkpoint they left       *)
(* (OPERATIONAL_DECISIONS.md AD-02): no session gives the index of a file  *)
(* it found, with a hash8 in its name or without.  The branch of the main  *)
(* loop for a move that was committed already is therefore never taken: no *)
(* target exists before its session.                                       *)
(***************************************************************************)
IndicesAreUnique ==
    /\ \A p, q \in SlotsPresent : p.idx = q.idx => p = q
    /\ pc = "loop" /\ More => \A p \in CompliantPresent : p.idx # Target.idx

(***************************************************************************)
(* A sync writes no track twice: a killed one that is run again skips what *)
(* it finds by hash8 (OPERATIONAL_DECISIONS.md AD-14).  This is about the  *)
(* names with a hash8; a track under a compliant name without one is not   *)
(* found and is written again.                                             *)
(***************************************************************************)
TracksAreUnique == \A p, q \in SlotsPresent : p.of = q.of => p = q

(***************************************************************************)
(* Incremental planning fills the last folder and never overfills one,     *)
(* whatever compliant names it finds there.                                *)
(***************************************************************************)
FoldersHoldCap == \A v \in Volumes : CountIn(v) <= Cap

(***************************************************************************)
(* A transaction that says InProgress, in the session that moves the file  *)
(* or after a crash in the middle, has its file at one of its two ends, so *)
(* that reconcile can tell whether the rename took place.                  *)
(***************************************************************************)
InterruptedMoveIsFound ==
    \A to \in DOMAIN journal :
        journal[to].status = "InProgress" =>
            files[to] = to.of \/ files[journal[to].from] = to.of

(***************************************************************************)
(* The checkpoint on the host vouches for no file that is torn: whatever   *)
(* it calls Completed is whole on the stick, or was taken to the           *)
(* quarantine by a later session.                                          *)
(***************************************************************************)
CheckpointVouches ==
    \A i \in 1..Len(disk) :
        disk[i].status = "Completed" =>
            \/ \E p \in Slots :
                   p.idx = disk[i].idx /\ p.of = disk[i].of /\ files[p] = p.of
            \/ disk[i].of \in quarantine

(***************************************************************************)
(* No step makes a recording vanish: what is whole on the stick stays      *)
(* there, in whatever place, until it is put into the quarantine, also     *)
(* when a session is killed while it moves or writes a file.               *)
(***************************************************************************)
OnStick(t) == \E p \in Places : files[p] = t

NothingVanishes ==
    [][\A t \in Tracks : OnStick(t) => OnStick(t)' \/ t \in quarantine']_vars

(***************************************************************************)
(* A bound for the steps a session has still to take: one for a file to be *)
(* put away, one for a file of the preview, at most four for a file of the *)
(* main loop.                                                              *)
(***************************************************************************)
StepsLeft ==
    LET n == Len(diff.process)
        rest == n + 1 - k
    IN  CASE pc = "sandbox" -> Cardinality(sandbox) + Cardinality(untracked) + 5 * n + 7
          [] pc = "isolate" -> Cardinality(untracked) + 5 * n + 6
          [] pc = "plan" -> rest + 4 * n + 5
          [] pc = "loop" -> 4 * rest + (IF More /\ Target.vol # active THEN 4 ELSE 3)
          [] pc \in {"move", "encode"} -> 4 * rest + 2
          [] pc = "moved" -> 4 * rest + 1
          [] pc = "qa" -> 2
          [] pc = "clear" -> 1
          [] OTHER -> 0

(***************************************************************************)
(* No sync goes round in circles: every step leaves fewer steps to take.   *)
(* What cannot be put away or written is left, and not tried again in the  *)
(* same session (diffing.rs quarantines, orchestrator.rs main loop).       *)
(***************************************************************************)
SyncsProgress == [][pc # "idle" => StepsLeft' \in 0..StepsLeft - 1]_vars

(***************************************************************************)
(* The VOL_XX folders are a shelf of numbered recordings: whatever was     *)
(* killed, copied by hand or edited before, a sync only adds files at the  *)
(* end, under numbers above all others, never finishes a torn file an      *)
(* earlier session left, and takes none away except to the quarantine      *)
(* (OPERATIONAL_DECISIONS.md AD-01 and AD-02; diffing.rs quarantine).      *)
(***************************************************************************)
Taken == {p \in Slots : files[p] # Absent}
Whole == {p \in Slots : files[p] = p.of}
Open == IF pc = "encode" THEN {Target} \cap Taken ELSE {}

Shelf == INSTANCE NumberedShelf WITH
             taken <- Taken,
             whole <- Whole,
             open <- Open,
             archive <- quarantine \cap Tracks

IsShelf == Shelf!Spec

(***************************************************************************)
(* What the documentation says and the code does not do.                   *)
(***************************************************************************)

(***************************************************************************)
(* Repeated runs converge: where nothing fails, after a sync that reported *)
(* success every track of the source that goes through ffmpeg is on the    *)
(* stick (OPERATIONAL_DECISIONS.md AD-14).                                 *)
(***************************************************************************)
SyncConverges ==
    success =>
        \A t \in source : Kind[t] = "dirty" => \E p \in Slots : files[p] = t
=============================================================================
