---------------------------- MODULE AtomicWrite ----------------------------
(***************************************************************************)
(* checkpoint.rs write_json_atomically_to_paths, which saves the           *)
(* checkpoint: create the .tmp file, write, sync_all, rename over the      *)
(* canonical file, sync the directory.  journal.rs write_json_atomically   *)
(* and manifest.rs save_to_path take the same steps, but leave the .tmp    *)
(* file behind when one of them fails.                                     *)
(*                                                                         *)
(* The file system keeps a cached directory and cached data, and writes    *)
(* both to the medium when it likes unless a sync orders it to.            *)
(***************************************************************************)
EXTENDS FiniteSets

CONSTANTS Values,  \* the documents saved
          None,    \* no inode, or no document
          Inodes   \* bound: the inodes the directory may use

ASSUME NoneAssumption == None \notin Values \cup Inodes

VARIABLES
    pc,      \* the next step of the writer
    saving,  \* json_content
    dir,     \* the directory: which inode is "tmp", which is "canonical"
    dirs,    \* the directories a power loss may leave on the medium
    data,    \* the content of every inode
    synced,  \* inodes whose content is on the medium
    result   \* what the last save returned

vars == <<pc, saving, dir, dirs, data, synced, result>>

Partial == "partial"  \* an empty or truncated document
ASSUME PartialAssumption == Partial \notin Values \cup {None}

Directory == [tmp : Inodes \cup {None}, canonical : Inodes \cup {None}]
Empty == [tmp |-> None, canonical |-> None]

TypeOK ==
    /\ pc \in {"idle", "create", "write", "sync", "cleanup", "rename", "syncdir"}
    /\ saving \in Values \cup {None}
    /\ dir \in Directory
    /\ dirs \in SUBSET Directory
    /\ data \in [Inodes -> Values \cup {Partial}]
    /\ synced \in SUBSET Inodes
    /\ result \in {"none", "ok", "err"}
    \* The writer's open file is the one it is going to rename.
    /\ pc \in {"write", "sync", "rename"} => dir.tmp # None

Init ==
    /\ pc = "idle"
    /\ saving = None
    /\ dir = Empty
    /\ dirs = {Empty}
    /\ data = [i \in Inodes |-> Partial]
    /\ synced = Inodes
    /\ result = "none"

\* Inodes some directory entry refers to, now or after a power loss.
InUse == UNION {{d.tmp, d.canonical} : d \in dirs}

SetDir(d) == dir' = d /\ dirs' = dirs \cup {d}

Save(v) ==
    /\ pc = "idle"
    /\ saving' = v
    /\ pc' = "create"
    /\ result' = "none"
    /\ UNCHANGED <<dir, dirs, data, synced>>

\* File::create: a new inode, or the old .tmp file truncated.
Create ==
    /\ pc = "create"
    /\ \E i \in Inodes :
          /\ IF dir.tmp = None THEN i \notin InUse ELSE i = dir.tmp
          /\ SetDir([dir EXCEPT !.tmp = i])
          /\ data' = [data EXCEPT ![i] = Partial]
          /\ synced' = synced \ {i}
    /\ pc' = "write"
    /\ UNCHANGED <<saving, result>>

\* Mutant of WriteAll: a short write is taken for a whole one.
WriteAll_Short ==
    /\ pc = "write"
    /\ data' \in {[data EXCEPT ![dir.tmp] = v] : v \in {saving, Partial}}
    /\ synced' = synced \ {dir.tmp}
    /\ pc' = "sync"
    /\ UNCHANGED <<saving, dir, dirs, result>>

WriteAll ==
    /\ pc = "write"
    /\ data' = [data EXCEPT ![dir.tmp] = saving]
    /\ synced' = synced \ {dir.tmp}
    /\ pc' = "sync"
    /\ UNCHANGED <<saving, dir, dirs, result>>

\* Mutant of SyncAll: the data is never forced to the medium.
SyncAll_Skipped ==
    /\ pc = "sync"
    /\ pc' = "rename"
    /\ UNCHANGED <<saving, dir, dirs, data, synced, result>>

SyncAll ==
    /\ pc = "sync"
    /\ synced' = synced \cup {dir.tmp}
    /\ pc' = "rename"
    /\ UNCHANGED <<saving, dir, dirs, data, result>>

\* ENOSPC or any I/O error in the three steps above.
WriteFails ==
    /\ pc \in {"create", "write", "sync"}
    /\ pc' = "cleanup"
    /\ UNCHANGED <<saving, dir, dirs, data, synced, result>>

\* `let _ = fs::remove_file(tmp_path)`: the .tmp file may survive.
CleanUp ==
    /\ pc = "cleanup"
    /\ \/ SetDir([dir EXCEPT !.tmp = None])
       \/ UNCHANGED <<dir, dirs>>
    /\ pc' = "idle"
    /\ result' = "err"
    /\ UNCHANGED <<saving, data, synced>>

Rename ==
    /\ pc = "rename"
    /\ SetDir([tmp |-> None, canonical |-> dir.tmp])
    /\ pc' = "syncdir"
    /\ UNCHANGED <<saving, data, synced, result>>

\* Mutant of RenameFails: the .tmp file is removed and the rename tried again.
RenameFails_Retries ==
    /\ pc = "rename"
    /\ SetDir([dir EXCEPT !.tmp = None])
    /\ UNCHANGED <<pc, saving, data, synced, result>>

RenameFails ==
    /\ pc = "rename"
    /\ pc' = "idle"
    /\ result' = "err"
    /\ UNCHANGED <<saving, dir, dirs, data, synced>>

\* Opening and syncing the directory may fail; the save returns Ok even so.
SyncDir ==
    /\ pc = "syncdir"
    /\ dirs' \in {{dir}, dirs}
    /\ pc' = "idle"
    /\ result' = "ok"
    /\ UNCHANGED <<saving, dir, data, synced>>

-----------------------------------------------------------------------------
\* The process is killed; what it wrote stays in the cache.
Kill ==
    /\ pc # "idle"
    /\ pc' = "idle"
    /\ result' = "none"
    /\ UNCHANGED <<saving, dir, dirs, data, synced>>

\* The kernel writes everything back.
WriteBack ==
    /\ dirs' = {dir}
    /\ synced' = Inodes
    /\ UNCHANGED <<pc, saving, dir, data, result>>

\* Inodes that were not synced hold a part of their content, or all of it.
PowerLoss ==
    /\ pc' = "idle"
    /\ result' = "none"
    /\ dir' \in dirs
    /\ dirs' = {dir'}
    /\ \E lost \in SUBSET (Inodes \ synced) :
          data' = [i \in Inodes |-> IF i \in lost THEN Partial ELSE data[i]]
    /\ synced' = Inodes
    /\ UNCHANGED saving

Next == \/ \E v \in Values : Save(v)
        \/ Create \/ WriteAll \/ SyncAll \/ WriteFails \/ CleanUp
        \/ Rename \/ RenameFails \/ SyncDir
        \/ Kill \/ WriteBack \/ PowerLoss

Spec == Init /\ [][Next]_vars
-----------------------------------------------------------------------------
\* What a reader gets from a directory.
Document(d) == IF d.canonical = None THEN None ELSE data[d.canonical]

Register == INSTANCE DurableRegister WITH
    visible <- Document(dir),
    maybe <- {Document(d) : d \in dirs}

(***************************************************************************)
(* The canonical file is a durable register: whenever the process is       *)
(* killed or the power lost, a reader finds no document or a whole one,    *)
(* the last or an earlier one (checkpoint.rs, save_to_disk: the canonical  *)
(* file is never truncated or partially written).                          *)
(***************************************************************************)
IsRegister == Register!Spec

(***************************************************************************)
(* A save that returned Ok can be read back, whatever crashed or failed    *)
(* before it and whichever .tmp file it found (a resume loads the last     *)
(* checkpoint that was saved).                                             *)
(***************************************************************************)
OkIsVisible == result = "ok" => Document(dir) = saving
=============================================================================
