----------------------------- MODULE LockProofs -----------------------------
(***************************************************************************)
(* The lock keeps processes apart when no two starts overlap.              *)
(*                                                                         *)
(* A process that has found no lock, or an orphan, shares the system with  *)
(* no holder: a holder's PID is in the file and alive, and no holder can   *)
(* have appeared since, because nobody else is in acquire.                 *)
(***************************************************************************)
EXTENDS ProvisioningLock, TLAPS

OneAcquires ==
    \A p, q \in Pids : pc[p] \in Acquire /\ pc[q] \in Acquire => p = q

\* The process that judges has read the holder's PID, if there is a holder.
HolderWasSeen ==
    \A p, q \in Pids : pc[p] = "judge" /\ pc[q] \in Held => seen[p] = q

\* From purge on a process has made sure that there is none.
NoHolder ==
    \A p, q \in Pids : pc[p] \in {"purge", "open", "write"} => pc[q] \notin Held

WritesTheLock == \A p \in Pids : pc[p] = "write" => p \in linked

LInv == /\ TypeOK
        /\ OneAcquires
        /\ HolderIsNamed
        /\ HolderWasSeen
        /\ NoHolder
        /\ WritesTheLock

LEMMA InitTypeOK == Init => TypeOK
BY DEF Init, TypeOK, Acquire, Held

LEMMA StepTypeOK == TypeOK /\ [Next]_vars => TypeOK'
<1> SUFFICES ASSUME TypeOK, [Next]_vars PROVE TypeOK'
    OBVIOUS
<1> USE NoFileAssumption, EmptyAssumption
    DEF TypeOK, Acquire, Held, Goto, Forget, RemoveFile, Alive
<1>1. ASSUME NEW p \in Pids, Start(p) \/ StrangerComes(p) \/ StrangerGoes(p)
      PROVE  TypeOK'
    BY <1>1 DEF Start, StrangerComes, StrangerGoes
<1>2. ASSUME NEW p \in Pids, CheckExists(p) \/ Read(p) \/ Judge(p)
      PROVE  TypeOK'
    BY <1>2 DEF CheckExists, Read, Judge
<1>3. ASSUME NEW p \in Pids, Purge(p) PROVE TypeOK'
    BY <1>3 DEF Purge
<1>4. ASSUME NEW p \in Pids, Open(p) PROVE TypeOK'
    BY <1>4 DEF Open
<1>5. ASSUME NEW p \in Pids, Write(p) PROVE TypeOK'
    BY <1>5 DEF Write
<1>6. ASSUME NEW p \in Pids, WriteFails(p) \/ Crash(p) PROVE TypeOK'
    BY <1>6 DEF WriteFails, Crash
<1>7. ASSUME NEW p \in Pids, Finish(p) \/ Release(p) PROVE TypeOK'
    BY <1>7 DEF Finish, Release
<1>8. CASE UNCHANGED vars
    BY <1>8 DEF vars
<1> QED
    BY <1>1, <1>2, <1>3, <1>4, <1>5, <1>6, <1>7, <1>8 DEF Next, Acquiring

(***************************************************************************)
(* Types, and: a file being written is at lock_path (hardware.rs acquire). *)
(***************************************************************************)
THEOREM LockTypeCorrect == Spec => []TypeOK
<1>1. TypeOK /\ [Next]_vars => TypeOK'
    BY StepTypeOK
<1> QED
    BY InitTypeOK, <1>1, PTL DEF Spec

-----------------------------------------------------------------------------
LEMMA InitLInv == Init => LInv
BY InitTypeOK DEF Init, LInv, OneAcquires, HolderIsNamed, HolderWasSeen, NoHolder,
   WritesTheLock, Acquire, Held

LEMMA StepLInv ==
    ASSUME ~Overlapping, LInv, [Next]_vars
    PROVE  LInv'
<1>0. TypeOK'
    BY StepTypeOK DEF LInv
<1> USE <1>0, NoFileAssumption, EmptyAssumption
    DEF LInv, TypeOK, OneAcquires, HolderIsNamed, HolderWasSeen, NoHolder,
        WritesTheLock, Acquire, Held, Goto, Forget, RemoveFile, Alive
<1>1. ASSUME NEW p \in Pids, Start(p) PROVE LInv'
    BY <1>1 DEF Start
<1>2. ASSUME NEW p \in Pids, CheckExists(p) PROVE LInv'
    BY <1>2 DEF CheckExists
<1>3. ASSUME NEW p \in Pids, Read(p) PROVE LInv'
    BY <1>3 DEF Read
<1>4. ASSUME NEW p \in Pids, Judge(p) PROVE LInv'
    BY <1>4 DEF Judge
<1>5. ASSUME NEW p \in Pids, Purge(p) PROVE LInv'
    BY <1>5 DEF Purge
<1>6. ASSUME NEW p \in Pids, Open(p) PROVE LInv'
    BY <1>6 DEF Open
<1>7. ASSUME NEW p \in Pids, Write(p) PROVE LInv'
    BY <1>7 DEF Write
<1>8. ASSUME NEW p \in Pids, WriteFails(p) PROVE LInv'
    BY <1>8 DEF WriteFails
<1>9. ASSUME NEW p \in Pids, Finish(p) \/ Release(p) PROVE LInv'
    BY <1>9 DEF Finish, Release
<1>10. ASSUME NEW p \in Pids, Crash(p) PROVE LInv'
    BY <1>10 DEF Crash
<1>11. ASSUME NEW p \in Pids, StrangerComes(p) \/ StrangerGoes(p) PROVE LInv'
    BY <1>11 DEF StrangerComes, StrangerGoes
<1>12. CASE UNCHANGED vars
    BY <1>12 DEF vars
<1> QED
    BY <1>1, <1>2, <1>3, <1>4, <1>5, <1>6, <1>7, <1>8, <1>9, <1>10, <1>11, <1>12
    DEF Next, Acquiring

(***************************************************************************)
(* When starts do not overlap, the lock file names its holder as long as   *)
(* it provisions (hardware.rs acquire, Drop).                              *)
(***************************************************************************)
THEOREM HolderNamed == ASSUME ~Overlapping PROVE Spec => []HolderIsNamed
<1>1. LInv /\ [Next]_vars => LInv'
    BY StepLInv
<1>2. LInv => HolderIsNamed
    BY DEF LInv
<1> QED
    BY InitLInv, <1>1, <1>2, PTL DEF Spec

(***************************************************************************)
(* When starts do not overlap, two processes never provision one stick at  *)
(* once: a file names one PID (hardware.rs ProvisioningLock).              *)
(***************************************************************************)
THEOREM ProcessesExcluded == ASSUME ~Overlapping PROVE Spec => []MutualExclusion
<1>1. HolderIsNamed => MutualExclusion
    BY DEF HolderIsNamed, MutualExclusion
<1> QED
    BY HolderNamed, <1>1, PTL
=============================================================================
