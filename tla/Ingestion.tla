------------------------------- MODULE Ingestion -------------------------------
(***************************************************************************)
(* ingest and refactor: the audio of a stick is copied to a flat staging   *)
(* directory on the host, under names of its own; a refactor then syncs    *)
(* the stick from there and removes the directory.                         *)
(*                                                                         *)
(* Copy:     ingestion.rs  ingest_audio_files, resolve_collision_free_name. *)
(* Walk:     audio_discovery.rs  visit_audio_core.                         *)
(* Refactor: orchestrator.rs  ingest_staging, refactor_usb.                *)
(*                                                                         *)
(* Nothing empties the directory before an ingest: what an earlier one has *)
(* left, killed in the middle or followed by a sync that failed, is still  *)
(* there.  The sync itself is SyncSession; here it is a step that may do   *)
(* anything to the stick.                                                  *)
(***************************************************************************)
EXTENDS Integers, Sequences, FiniteSets, Functions

CONSTANTS Walk,  \* the paths a stick may have audio at, in the order of the walk
          Base,  \* what sanitize_for_legacy_transfer makes of their file names
          Data   \* recordings

Paths == Range(Walk)

ASSUME WalkAssumption ==
    /\ Walk \in Seq(Paths)
    /\ \A i, j \in 1..Len(Walk) : Walk[i] = Walk[j] => i = j

(***************************************************************************)
(* A name is a stem and the numbers behind it: <<"a", <<1>>>> is a_001.mp3, *)
(* whoever made it.                                                        *)
(***************************************************************************)
ASSUME BaseAssumption == \A p \in Paths : Base[p][2] \in Seq(Nat)

Absent == "absent"
Torn == "torn"
ASSUME DataAssumption == Absent \notin Data /\ Torn \notin Data

VARIABLES
    tree,    \* the audio files of the stick
    staging, \* the staging directory: what it holds, by name
    pc,      \* what the command is doing
    k,       \* the path the walk has come to
    used,    \* used_names
    placed,  \* IngestManifest: the staged names, by path
    done,    \* the last ingest ended well, and nothing has changed since
    edited,  \* history: what the walk finds changed since staging was last empty
    missed   \* history: the files the last walk passed over

vars == <<tree, staging, pc, k, used, placed, done, edited, missed>>

TypeOK ==
    /\ tree \in [Paths -> Data \cup {Absent}]
    /\ \A n \in DOMAIN staging : staging[n] \in Data \cup {Torn}
    /\ pc \in {"idle", "ingest", "refactor", "session", "cleanup"}
    /\ k \in 1..Len(Walk) + 1
    /\ DOMAIN placed \subseteq Paths
    /\ Range(placed) \subseteq used
    /\ done \in BOOLEAN /\ edited \in BOOLEAN
    /\ missed \subseteq Paths

Init ==
    /\ tree = [p \in Paths |-> Absent]
    /\ staging = <<>>
    /\ pc = "idle"
    /\ k = 1
    /\ used = {}
    /\ placed = <<>>
    /\ done = FALSE
    /\ edited = FALSE
    /\ missed = {}

-----------------------------------------------------------------------------
\* The base name, or its first free successor.
ResolveName(base, taken) ==
    IF base \notin taken THEN base
    ELSE LET Numbered(n) == <<base[1], Append(base[2], n)>>
             free == {n \in 1..Cardinality(taken) + 1 : Numbered(n) \notin taken}
         IN  Numbered(CHOOSE n \in free : \A m \in free : n <= m)

Put(place, n, d) == [i \in DOMAIN place \cup {n} |-> IF i = n THEN d ELSE place[i]]

\* Mutant of StartIngest: the names of the last ingest stay used.
StartIngest_KeepsUsed ==
    /\ pc = "idle"
    /\ \E p \in Paths : tree[p] # Absent
    /\ pc' \in {"ingest", "refactor"}
    /\ k' = 1
    /\ placed' = <<>>
    /\ done' = FALSE
    /\ missed' = {}
    /\ UNCHANGED <<tree, staging, used, edited>>

\* count_audio_files comes first: without audio nothing is created.  Its count
\* is for the progress events alone, nobody compares it with what was copied.
StartIngest ==
    /\ pc = "idle"
    /\ \E p \in Paths : tree[p] # Absent
    /\ pc' \in {"ingest", "refactor"}
    /\ k' = 1
    /\ used' = {}
    /\ placed' = <<>>
    /\ done' = FALSE
    /\ missed' = {}
    /\ UNCHANGED <<tree, staging, edited>>

Copying == pc \in {"ingest", "refactor"} /\ k <= Len(Walk)
Here == Walk[k]
Name == ResolveName(Base[Here], used)

NothingHere ==
    /\ Copying
    /\ tree[Here] = Absent
    /\ k' = k + 1
    /\ UNCHANGED <<tree, staging, pc, used, placed, done, edited, missed>>

\* filter_map(|e| e.ok()) drops an entry the walk cannot read, a directory with
\* all that is in it, and `if let Ok` a file without metadata: in silence.
Unreadable ==
    /\ Copying
    /\ tree[Here] # Absent
    /\ missed' = missed \cup {Here}
    /\ edited' = TRUE
    /\ k' = k + 1
    /\ UNCHANGED <<tree, staging, pc, used, placed, done>>

\* Mutant of CopyFile: a file of that name is taken for the copy.
CopyFile_TrustsOld ==
    /\ Copying
    /\ tree[Here] # Absent
    /\ staging' = IF Name \in DOMAIN staging THEN staging ELSE Put(staging, Name, tree[Here])
    /\ used' = used \cup {Name}
    /\ placed' = Put(placed, Here, Name)
    /\ k' = k + 1
    /\ UNCHANGED <<tree, pc, done, edited, missed>>

\* Mutant of CopyFile: only numbered names are marked as used.
CopyFile_Unmarked ==
    /\ Copying
    /\ tree[Here] # Absent
    /\ staging' = Put(staging, Name, tree[Here])
    /\ used' = IF Name = Base[Here] THEN used ELSE used \cup {Name}
    /\ placed' = Put(placed, Here, Name)
    /\ k' = k + 1
    /\ UNCHANGED <<tree, pc, done, edited, missed>>

\* fs::copy writes over what is there.
CopyFile ==
    /\ Copying
    /\ tree[Here] # Absent
    /\ staging' = Put(staging, Name, tree[Here])
    /\ used' = used \cup {Name}
    /\ placed' = Put(placed, Here, Name)
    /\ k' = k + 1
    /\ UNCHANGED <<tree, pc, done, edited, missed>>

FinishIngest ==
    /\ pc \in {"ingest", "refactor"}
    /\ k = Len(Walk) + 1
    /\ pc' = IF pc = "refactor" THEN "session" ELSE "idle"
    /\ done' = TRUE
    /\ UNCHANGED <<tree, staging, k, used, placed, edited, missed>>

Trees == [Paths -> Data \cup {Absent}]

\* provision_usb with the staging directory for a source; an error leaves it.
Session ==
    /\ pc = "session"
    /\ tree' \in Trees
    /\ edited' = TRUE
    /\ pc' \in {"cleanup", "idle"}
    /\ done' = FALSE
    /\ UNCHANGED <<staging, k, used, placed, missed>>

Emptied == staging' = <<>> /\ edited' = FALSE

\* remove_dir_all, unless --keep-staging; it may stop in the middle.
Cleanup ==
    /\ pc = "cleanup"
    /\ \/ Emptied
       \/ /\ \E n \in DOMAIN staging :
                staging' = [i \in DOMAIN staging \ {n} |-> staging[i]]
          /\ UNCHANGED edited
       \/ UNCHANGED <<staging, edited>>
    /\ pc' = "idle"
    /\ UNCHANGED <<tree, k, used, placed, done, missed>>

\* An unreadable file, a full disk, or killed: the copy is torn.
Abort ==
    /\ pc # "idle"
    /\ \/ UNCHANGED staging
       \/ Copying /\ tree[Here] # Absent /\ staging' = Put(staging, Name, Torn)
    /\ pc' = "idle"
    /\ done' = FALSE
    /\ UNCHANGED <<tree, k, used, placed, edited, missed>>

\* Users: other audio on the stick, or another stick; the directory removed.
EditTree ==
    /\ pc = "idle"
    /\ \E p \in Paths, d \in Data \cup {Absent} : tree' = [tree EXCEPT ![p] = d]
    /\ edited' = (staging # <<>>)
    /\ done' = FALSE
    /\ UNCHANGED <<staging, pc, k, used, placed, missed>>

RemoveStaging ==
    /\ pc = "idle"
    /\ Emptied
    /\ done' = FALSE
    /\ UNCHANGED <<tree, pc, k, used, placed, missed>>

Next == \/ StartIngest \/ NothingHere \/ Unreadable \/ CopyFile \/ FinishIngest
        \/ Session \/ Cleanup \/ Abort \/ EditTree \/ RemoveStaging

Spec == Init /\ [][Next]_vars
-----------------------------------------------------------------------------
(***************************************************************************)
(* An ingest that has ended well has a whole copy of every audio file that *)
(* the walk yielded, each under a name of its own, whatever an earlier one *)
(* has left under these names and whatever names look like numbered ones   *)
(* (tech_spec.md R-31: source -> staging is traceable file by file).  It   *)
(* may lack files of the stick: those the walk could not read, and no      *)
(* others (audio_discovery.rs visit_audio_core).                           *)
(***************************************************************************)
EveryFileIsStaged ==
    done =>
        /\ DOMAIN placed = {p \in Paths : tree[p] # Absent} \ missed
        /\ \A p \in DOMAIN placed : staging[placed[p]] = tree[p]
        /\ \A p, q \in DOMAIN placed : placed[p] = placed[q] => p = q

(***************************************************************************)
(* An ingest that was killed and is run again on the same stick leaves     *)
(* nothing else behind, if none of the walks passed over a file: it gives  *)
(* every file the name it had before, also where names collide, for the    *)
(* walk is sorted (visit_audio_core).                                      *)
(***************************************************************************)
RerunLeavesNoRest == done /\ ~edited => DOMAIN staging = Range(placed)
=============================================================================
