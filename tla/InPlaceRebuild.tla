---------------------------- MODULE InPlaceRebuild ----------------------------
(***************************************************************************)
(* provision --in-place-rebuild: the tracks of a stick get new names and   *)
(* folders on the stick itself.                                            *)
(*                                                                         *)
(* Run:     orchestrator.rs provision_usb_in_place_rebuild.                *)
(* Plan:    in_place_transformer.rs build_plan.                            *)
(* Names:   sanitizer.rs sanitize_filename, add_sequential_prefix.         *)
(* Backup:  backup.rs backup_file_preserving_tree.                         *)
(*                                                                         *)
(* A run backs up what it discovered, moves all of it to the hidden        *)
(* directory .in_place_rebuild_tmp, puts it back one by one under its new  *)
(* name, and removes the directory.  The process may be killed between any *)
(* two steps, and the command run again; power losses are left to          *)
(* Provisioning and AtomicWrite.                                           *)
(***************************************************************************)
EXTENDS Integers, Sequences, FiniteSets

CONSTANTS Tracks,   \* the recordings
          Kind,     \* what classify and normalize_audio make of each
          Stems,    \* what may stand behind the index of a name, in their order
          Hashed,   \* the stems that end in _ and eight hex digits
          Clean,    \* what sanitize_stem makes of a stem
          Cut,      \* what 32 characters leave of a stem behind an index
          Doubled,  \* what they leave of a name and its index behind another
          Layouts,  \* where the tracks are before the first rebuild
          Cap       \* MAX_FILES_PER_FOLDER

ASSUME StemsAssumption == Stems \subseteq Nat \ {0} /\ IsFiniteSet(Stems)
ASSUME CapAssumption == Cap \in Nat \ {0}
ASSUME TracksAssumption == IsFiniteSet(Tracks)

(***************************************************************************)
(* A path is its index and its stem: index 0 is a file that has none yet,  *)
(* <<i, s>> is the file 000i_s in the folder of the i-th file.  A stem may *)
(* itself begin with an index.  Of the sanitizer nothing is assumed but    *)
(* that it makes stems of stems: it need not leave its own results alone.  *)
(***************************************************************************)
Paths == (0..Cardinality(Tracks)) \X Stems

ASSUME SanitizerAssumption ==
    /\ Hashed \subseteq Stems
    /\ Clean \in [Stems -> Stems]
    /\ Cut \in [Stems -> Stems]
    /\ Doubled \in [Paths -> Stems]

ASSUME LayoutsAssumption ==
    \A at \in Layouts : /\ at \in [Tracks -> Paths]
                        /\ \A t, u \in Tracks : at[t] = at[u] => t = u

(***************************************************************************)
(* "clean": FastInPlaceRename; "dirty": ffmpeg copies or transcodes, and   *)
(* would do so again next time; "bad": ffprobe fails or detect_drm says    *)
(* yes, which ends the whole run.                                          *)
(***************************************************************************)
ASSUME KindAssumption == Kind \in [Tracks -> {"clean", "dirty", "bad"}]

Absent == "absent"
Torn == "torn"    \* anything that is no whole recording
Content == Tracks \cup {Absent, Torn}
ASSUME ContentAssumption == Absent \notin Tracks /\ Torn \notin Tracks

KindOf(c) == IF c \in Tracks THEN Kind[c] ELSE "torn"

VARIABLES
    stick,    \* the visible files of the stick
    tmp,      \* .in_place_rebuild_tmp, by the path a file is to get
    backup,   \* the backup tree of the stick on the host
    pc,       \* what the run is doing
    plan,     \* InPlacePlan: the source path of every entry
    k,        \* the entry the current pass has come to
    staged,   \* staged_entries: the entries that are not skipped
    mem,      \* the checkpoint in memory
    disk,     \* the checkpoint file on the host
    outcome,  \* what the last run reported
    found     \* history: the tracks the last run discovered

vars == <<stick, tmp, backup, pc, plan, k, staged, mem, disk, outcome, found>>

(***************************************************************************)
(* A checkpoint: done holds the content of the Completed entries, whose    *)
(* hash is recorded, and Absent for the others.                            *)
(***************************************************************************)
Checkpoint == [status : {"None", "InProgress", "Completed"},
               total : 0..Cardinality(Tracks),
               done : [1..Cardinality(Tracks) -> Content]]

NewCheckpoint(total) ==
    [status |-> "InProgress", total |-> total,
     done |-> [i \in 1..Cardinality(Tracks) |-> Absent]]
NoCheckpoint == [NewCheckpoint(0) EXCEPT !.status = "None"]

Nothing == [p \in Paths |-> Absent]
Put(place, p, c) == [place EXCEPT ![p] = c]
Holds(place, t) == \E p \in Paths : place[p] = t

TypeOK ==
    /\ stick \in [Paths -> Content]
    /\ tmp \in [Paths -> Content]
    /\ backup \in [Paths -> Content]
    /\ pc \in {"idle", "backup", "stage", "place", "encode", "verify"}
    /\ plan \in Seq(Paths)
    /\ k \in 1..Len(plan) + 1
    /\ staged \in SUBSET (1..Len(plan))
    /\ mem \in Checkpoint
    /\ disk \in Checkpoint
    /\ outcome \in {"none", "error", "empty", "success"}
    /\ found \in SUBSET Tracks

Init ==
    /\ \E at \in Layouts :
          stick = [p \in Paths |->
                     IF \E t \in Tracks : at[t] = p
                     THEN CHOOSE t \in Tracks : at[t] = p
                     ELSE Absent]
    /\ tmp = Nothing
    /\ backup = Nothing
    /\ pc = "idle"
    /\ plan = <<>>
    /\ k = 1
    /\ staged = {}
    /\ mem = NoCheckpoint
    /\ disk = NoCheckpoint
    /\ outcome = "none"
    /\ found = {}

\* Mutant of Stop: the list of staged entries outlives its plan.
Stop_KeepsStaged(report) ==
    /\ pc' = "idle"
    /\ plan' = <<>>
    /\ k' = 1
    /\ staged' = staged
    /\ mem' = NoCheckpoint
    /\ outcome' = report

\* The run returns or dies: its memory is gone.
Stop(report) ==
    /\ pc' = "idle"
    /\ plan' = <<>>
    /\ k' = 1
    /\ staged' = {}
    /\ mem' = NoCheckpoint
    /\ outcome' = report

-----------------------------------------------------------------------------
\* discover_audio_files: hidden directories, tmp among them, are not entered.
Discovered == {p \in Paths : stick[p] # Absent}

\* audio_files are sorted by path.
Before(p, q) == p[1] < q[1] \/ (p[1] = q[1] /\ p[2] < q[2])

Sorted(ps) == [i \in 1..Cardinality(ps) |->
                 CHOOSE p \in ps : Cardinality({q \in ps : Before(q, p)}) = i - 1]

\* A name like those of a provisioning session, NNNN_stem_hash8.mp3, is taken
\* as it is, its index included; any other loses all the indices it begins with.
sanitize_filename(p) ==
    IF p[1] # 0 /\ p[2] \in Hashed THEN p ELSE <<0, Clean[p[2]]>>

add_sequential_prefix(p, i) == <<i, IF p[1] = 0 THEN Cut[p[2]] ELSE Doubled[p]>>

\* Mutant of Destination: the numbers start at 0.
Destination_ZeroBased(i) == add_sequential_prefix(sanitize_filename(plan[i]), i - 1)

\* Mutant of Destination: every file is the first.
Destination_AllFirst(i) == add_sequential_prefix(sanitize_filename(plan[i]), 1)

\* build_plan: the new name of the i-th file, and with it its folder.
Destination(i) == add_sequential_prefix(sanitize_filename(plan[i]), i)

\* 00000i_ in front of the normalized name.
TempPath(i) == Destination(i)

\* No audio file in sight: a success without a look at the hidden directory.
RebuildNothing ==
    /\ pc = "idle"
    /\ Discovered = {}
    /\ outcome' = "empty"
    /\ found' = {}
    /\ UNCHANGED <<stick, tmp, backup, pc, plan, k, staged, mem, disk>>

StartRebuild ==
    /\ pc = "idle"
    /\ Discovered # {}
    /\ plan' = Sorted(Discovered)
    /\ pc' = "backup"
    /\ k' = 1
    /\ outcome' = "none"
    /\ found' = {t \in Tracks : Holds(stick, t)}
    /\ UNCHANGED <<stick, tmp, backup, staged, mem, disk>>

\* Mutant of BackupFile: a file that is there already is not compared.
BackupFile_TrustsOld ==
    /\ pc = "backup"
    /\ k <= Len(plan)
    /\ backup' = IF backup[plan[k]] = Absent
                 THEN Put(backup, plan[k], stick[plan[k]]) ELSE backup
    /\ k' = k + 1
    /\ UNCHANGED <<stick, tmp, pc, plan, staged, mem, disk, outcome, found>>

\* The same relative path in the backup is reused, whatever it held.
BackupFile ==
    /\ pc = "backup"
    /\ k <= Len(plan)
    /\ backup' = Put(backup, plan[k], stick[plan[k]])
    /\ k' = k + 1
    /\ UNCHANGED <<stick, tmp, pc, plan, staged, mem, disk, outcome, found>>

\* A checkpoint in progress with as many entries is resumed, and only then
\* the hidden directory emptied.
Resumable == disk.status = "InProgress" /\ disk.total = Len(plan)

OpenSession ==
    /\ pc = "backup"
    /\ k = Len(plan) + 1
    /\ mem' = IF Resumable THEN disk ELSE NewCheckpoint(Len(plan))
    /\ tmp' \in IF Resumable THEN {tmp, Nothing} ELSE {tmp}
    /\ pc' = "stage"
    /\ k' = 1
    /\ UNCHANGED <<stick, backup, plan, staged, disk, outcome, found>>

\* A resumed entry whose file is in its place already.
InPlace == mem.done[k] # Absent /\ stick[Destination(k)] = mem.done[k]

SkipEntry ==
    /\ pc = "stage"
    /\ k <= Len(plan)
    /\ InPlace
    /\ k' = k + 1
    /\ UNCHANGED <<stick, tmp, backup, pc, plan, staged, mem, disk, outcome, found>>

\* record_file_start, and a rename over whatever tmp holds under that name.
\* The hash of a track that went through ffmpeg may differ from the recorded.
StageEntry ==
    /\ pc = "stage"
    /\ k <= Len(plan)
    /\ stick[plan[k]] # Absent
    /\ InPlace => KindOf(mem.done[k]) # "clean"
    /\ mem' = [mem EXCEPT !.done[k] = Absent]
    /\ tmp' = Put(tmp, TempPath(k), stick[plan[k]])
    /\ stick' = Put(stick, plan[k], Absent)
    /\ staged' = staged \cup {k}
    /\ k' = k + 1
    /\ UNCHANGED <<backup, pc, plan, disk, outcome, found>>

FinishStaging ==
    /\ pc = "stage"
    /\ k = Len(plan) + 1
    /\ pc' = "place"
    /\ k' = 1
    /\ UNCHANGED <<stick, tmp, backup, plan, staged, mem, disk, outcome, found>>

SkipPlaced ==
    /\ pc = "place"
    /\ k \in 1..Len(plan) \ staged
    /\ k' = k + 1
    /\ UNCHANGED <<stick, tmp, backup, pc, plan, staged, mem, disk, outcome, found>>

\* mark_file_completed, and a save at every Cap-th file or the plan's last.
Complete(content) ==
    LET position == Cardinality(staged \cap 1..k)
    IN  /\ mem' = [mem EXCEPT !.done[k] = content]
        /\ disk' = IF position % Cap = 0 \/ position = Len(plan) THEN mem' ELSE disk
        /\ k' = k + 1

Staged == tmp[TempPath(k)]

\* A clean track is renamed; a torn file may well pass for one.
PlaceClean ==
    /\ pc = "place"
    /\ k \in staged
    /\ KindOf(Staged) \in {"clean", "torn"}
    /\ stick' = Put(stick, Destination(k), Staged)
    /\ tmp' = Put(tmp, TempPath(k), Absent)
    /\ Complete(Staged)
    /\ UNCHANGED <<backup, pc, plan, staged, outcome, found>>

\* ffmpeg -y writes to the final name.
BeginEncode ==
    /\ pc = "place"
    /\ k \in staged
    /\ KindOf(Staged) = "dirty"
    /\ stick' \in {stick, Put(stick, Destination(k), Torn)}
    /\ pc' = "encode"
    /\ UNCHANGED <<tmp, backup, plan, k, staged, mem, disk, outcome, found>>

\* `let _ = fs::remove_file(&temp_path)`.
EncodeOk ==
    /\ pc = "encode"
    /\ stick' = Put(stick, Destination(k), Staged)
    /\ tmp' \in {tmp, Put(tmp, TempPath(k), Absent)}
    /\ Complete(Staged)
    /\ pc' = "place"
    /\ UNCHANGED <<backup, plan, staged, outcome, found>>

\* Mutant of ProcessingFails: the failure is logged and the run goes on.
ProcessingFails_GoesOn ==
    /\ \/ pc = "encode"
       \/ /\ pc = "place"
          /\ k \in staged
          /\ KindOf(Staged) \in {"bad", "torn"}
    /\ pc' = "place"
    /\ k' = k + 1
    /\ UNCHANGED <<stick, tmp, backup, plan, staged, mem, disk, outcome, found>>

\* classify, normalize_audio or ffmpeg fail: the `?` ends the run.
ProcessingFails ==
    /\ \/ pc = "encode"
       \/ /\ pc = "place"
          /\ k \in staged
          /\ KindOf(Staged) \in {"bad", "torn"}
    /\ Stop("error")
    /\ UNCHANGED <<stick, tmp, backup, disk, found>>

\* `let _ = fs::remove_dir_all(&temp_root)`, whatever is in it.
RemoveTemp ==
    /\ pc = "place"
    /\ k = Len(plan) + 1
    /\ tmp' \in {tmp, Nothing}
    /\ pc' = "verify"
    /\ UNCHANGED <<stick, backup, plan, k, staged, mem, disk, outcome, found>>

\* verify_file_integrity of the Completed entries.
Intact == \A i \in 1..Len(plan) : mem.done[i] \in {Absent, stick[Destination(i)]}

Finalize ==
    /\ pc = "verify"
    /\ Intact
    /\ disk' = [mem EXCEPT !.status = "Completed"]
    /\ Stop("success")
    /\ UNCHANGED <<stick, tmp, backup, found>>

\* Killed, or any other error, a failed verification included.  A backup file
\* that is being replaced is torn.
Abort ==
    /\ pc # "idle"
    /\ \/ UNCHANGED backup
       \/ /\ pc = "backup"
          /\ k <= Len(plan)
          /\ backup[plan[k]] # stick[plan[k]]
          /\ backup' = Put(backup, plan[k], Torn)
    /\ Stop("error")
    /\ UNCHANGED <<stick, tmp, disk, found>>

Next == \/ RebuildNothing \/ StartRebuild \/ BackupFile \/ OpenSession
        \/ SkipEntry \/ StageEntry \/ FinishStaging
        \/ SkipPlaced \/ PlaceClean \/ BeginEncode \/ EncodeOk
        \/ ProcessingFails \/ RemoveTemp  \/ Finalize \/ Abort

Spec == Init /\ [][Next]_vars
-----------------------------------------------------------------------------
(***************************************************************************)
(* Backup first: from the start of a run until the next one starts, every  *)
(* track the run discovered is whole on the stick or in the backup, even   *)
(* if the run was killed while files were on their way (orchestrator.rs    *)
(* step 2.5 comes before the first rename).                                *)
(***************************************************************************)
BackupFirst == \A t \in found : Holds(stick, t) \/ Holds(backup, t)

(***************************************************************************)
(* What the final verification looks for is there: no entry was placed     *)
(* over another one, none that a resumed run skipped was moved away since, *)
(* so that a rebuild does not end with a failed QA (orchestrator.rs stages *)
(* every file before it places the first).                                 *)
(***************************************************************************)
PlacesApart == pc = "verify" => Intact

(***************************************************************************)
(* A rebuild that reports success has every track it discovered back on    *)
(* the stick, visible: no new name was taken by two of them, none was      *)
(* written over another that waited for its turn.                          *)
(***************************************************************************)
SuccessKeepsFound ==
    outcome = "success" => \A t \in found : Holds(stick, t)

(***************************************************************************)
(* After a success the files are numbered from 1 without a gap in the      *)
(* order of their paths: the next rebuild gives each the number, and so    *)
(* the folder, that it has, and no folder holds more than Cap              *)
(* (in_place_transformer.rs build_plan).  It may still rename it, where    *)
(* the sanitizer does not leave the stem alone.                            *)
(***************************************************************************)
NumbersStay ==
    outcome = "success" =>
        \A i \in 1..Cardinality(Discovered) : Sorted(Discovered)[i][1] = i

(***************************************************************************)
(* What the documentation says and the code does not do.                   *)
(***************************************************************************)

(***************************************************************************)
(* Nothing is destroyed that is not in the backup, however many runs it    *)
(* takes (requirements_traceability.md, R-06-004: a stable backup before   *)
(* any destructive operation).                                             *)
(***************************************************************************)
NothingLost ==
    \A t \in Tracks : Holds(stick, t) \/ Holds(tmp, t) \/ Holds(backup, t)
=============================================================================
