--------------------------- MODULE ProvisioningLock ---------------------------
(***************************************************************************)
(* hardware.rs ProvisioningLock: the .lap_provisioning.lock file that is   *)
(* to keep two processes from provisioning one USB stick.                  *)
(*                                                                         *)
(* acquire is a sequence of separate system calls: exists, read, a look at *)
(* /proc/<pid>, remove, and fs::write, which itself truncates the file and *)
(* then writes it.  A process is known by its PID; the PID of a dead       *)
(* process may be given to a new one, or to a stranger.  PIDs have the     *)
(* same number of digits: a write covers an earlier one.                   *)
(***************************************************************************)
EXTENDS FiniteSets

CONSTANTS Pids,         \* the process identifiers
          NoFile,       \* the lock file does not exist
          Overlapping   \* TRUE if two processes may be in acquire at once

ASSUME NoFileAssumption == NoFile \notin Pids
ASSUME OverlappingAssumption == Overlapping \in BOOLEAN

VARIABLES
    pc,     \* what each process is about to do
    lock,   \* the content of the lock file
    seen,   \* acquire: the content a process read
    linked  \* fs::write: processes whose open file is the one at lock_path

vars == <<pc, lock, seen, linked>>

Empty == "empty"  \* a file without a PID in it
ASSUME EmptyAssumption == Empty \notin Pids \cup {NoFile}

Acquire == {"exists", "read", "judge", "purge", "open", "write"}
Held == {"provision", "remove"}

TypeOK ==
    /\ pc \in [Pids -> {"dead", "stranger"} \cup Acquire \cup Held]
    /\ lock \in Pids \cup {NoFile, Empty}
    /\ seen \in [Pids -> Pids \cup {NoFile, Empty}]
    /\ linked \in SUBSET Pids
    /\ \A p \in linked : pc[p] = "write" /\ lock # NoFile

Init ==
    /\ pc = [p \in Pids |-> "dead"]
    /\ lock = NoFile
    /\ seen = [p \in Pids |-> NoFile]
    /\ linked = {}

Goto(p, step) == pc' = [pc EXCEPT ![p] = step]

\* What a process read is forgotten as soon as it has been judged.
Forget(p) == seen' = [seen EXCEPT ![p] = NoFile]

\* /proc/<pid> exists, whatever process it is now.
Alive(pid) == pc[pid] # "dead"

RemoveFile == lock' = NoFile /\ linked' = {}

-----------------------------------------------------------------------------
\* A provisioning command starts and comes to acquire.
Start(p) ==
    /\ pc[p] = "dead"
    /\ Overlapping \/ \A q \in Pids : pc[q] \notin Acquire
    /\ Goto(p, "exists")
    /\ UNCHANGED <<lock, seen, linked>>

CheckExists(p) ==
    /\ pc[p] = "exists"
    /\ Goto(p, IF lock = NoFile THEN "open" ELSE "read")
    /\ UNCHANGED <<lock, seen, linked>>

\* unwrap_or_default: a file that went away meanwhile reads as empty.
Read(p) ==
    /\ pc[p] = "read"
    /\ seen' = [seen EXCEPT ![p] = IF lock = NoFile THEN Empty ELSE lock]
    /\ Goto(p, "judge")
    /\ UNCHANGED <<lock, linked>>

\* Mutant of Judge: any lock file found is an orphan.
Judge_AllOrphans(p) ==
    /\ pc[p] = "judge"
    /\ Goto(p, "purge")
    /\ Forget(p)
    /\ UNCHANGED <<lock, linked>>

\* A live PID means a ConcurrencyError; a dead or unreadable one an orphan.
Judge(p) ==
    /\ pc[p] = "judge"
    /\ Goto(p, IF seen[p] \in Pids /\ Alive(seen[p]) THEN "dead" ELSE "purge")
    /\ Forget(p)
    /\ UNCHANGED <<lock, linked>>

\* `let _ = fs::remove_file`: it may fail, the next step goes on all the same.
Purge(p) ==
    /\ pc[p] = "purge"
    /\ RemoveFile \/ UNCHANGED <<lock, linked>>
    /\ Goto(p, "open")
    /\ UNCHANGED seen

\* Mutant of Open: the open does not create the file.
Open_NoCreate(p) ==
    /\ pc[p] = "open"
    /\ linked' = linked \cup {p}
    /\ Goto(p, "write")
    /\ UNCHANGED <<lock, seen>>

\* fs::write opens with O_CREAT and O_TRUNC, never O_EXCL.
Open(p) ==
    /\ pc[p] = "open"
    /\ lock' = Empty
    /\ linked' = linked \cup {p}
    /\ Goto(p, "write")
    /\ UNCHANGED seen

\* The PID goes to the opened file, even if lock_path is another one by now.
Write(p) ==
    /\ pc[p] = "write"
    /\ lock' = IF p \in linked THEN p ELSE lock
    /\ linked' = linked \ {p}
    /\ Goto(p, "provision")
    /\ UNCHANGED seen

\* fs::write fails before or after the file was created.
WriteFails(p) ==
    /\ pc[p] \in {"open", "write"}
    /\ linked' = linked \ {p}
    /\ Goto(p, "dead")
    /\ UNCHANGED <<lock, seen>>

\* Mutant of Finish: the process works on after it gave up the lock.
Finish_Early(p) ==
    /\ pc[p] = "provision"
    /\ RemoveFile
    /\ UNCHANGED <<pc, seen>>

\* Drop: exists, then remove, whosever file it is.
Finish(p) ==
    /\ pc[p] = "provision"
    /\ Goto(p, IF lock = NoFile THEN "dead" ELSE "remove")
    /\ UNCHANGED <<lock, seen, linked>>

Release(p) ==
    /\ pc[p] = "remove"
    /\ RemoveFile
    /\ Goto(p, "dead")
    /\ UNCHANGED seen

-----------------------------------------------------------------------------
\* SIGKILL: no destructor runs.
Crash(p) ==
    /\ pc[p] \in Acquire \cup Held
    /\ linked' = linked \ {p}
    /\ Goto(p, "dead")
    /\ Forget(p)
    /\ UNCHANGED lock

\* A process that has nothing to do with the USB gets the PID, and ends.
StrangerComes(p) ==
    /\ pc[p] = "dead"
    /\ Goto(p, "stranger")
    /\ UNCHANGED <<lock, seen, linked>>

StrangerGoes(p) ==
    /\ pc[p] = "stranger"
    /\ Goto(p, "dead")
    /\ UNCHANGED <<lock, seen, linked>>

Acquiring(p) == \/ CheckExists(p) \/ Read(p) \/ Judge(p) \/ Purge(p)
                \/ Open(p) \/ Write(p) \/ WriteFails(p)

Next == \E p \in Pids : \/ Start(p) \/ Acquiring(p) \/ Finish(p) \/ Release(p)
                        \/ Crash(p) \/ StrangerComes(p) \/ StrangerGoes(p)

Spec == Init /\ [][Next]_vars
-----------------------------------------------------------------------------
(***************************************************************************)
(* Two processes never provision the stick at once (hardware.rs: RAII      *)
(* structure for the mutual exclusion of processes on one USB).  It holds  *)
(* when starts do not overlap, whatever crashes, strangers or failed       *)
(* removals there are; when they overlap, exists and fs::write race.       *)
(***************************************************************************)
MutualExclusion ==
    \A p, q \in Pids : pc[p] \in Held /\ pc[q] \in Held => p = q

(***************************************************************************)
(* As long as a process provisions, the lock file carries its PID: nobody  *)
(* takes it for an orphan, and the Drop at the end removes its own file.   *)
(***************************************************************************)
HolderIsNamed == \A p \in Pids : pc[p] \in Held => lock = p
=============================================================================
