-------------------------- MODULE AtomicWriteProofs --------------------------
(***************************************************************************)
(* AtomicWrite implements DurableRegister, for any documents and inodes.   *)
(*                                                                         *)
(* Every directory a power loss may bring back names a canonical file that *)
(* is whole and synced, and the .tmp file being written is no such file:   *)
(* so a step that is not the rename changes no reader's document.          *)
(***************************************************************************)
EXTENDS AtomicWrite, TLAPS

\* What the medium may say is the canonical file is whole and on the medium.
CanonicalWhole ==
    \A d \in dirs : d.canonical # None =>
        d.canonical \in synced /\ data[d.canonical] \in Values

\* The .tmp file shares no inode with a canonical file.
TmpApart ==
    /\ \A d \in dirs : d.tmp # None => d.tmp # d.canonical
    /\ \A d \in dirs : dir.tmp # None => d.canonical # dir.tmp

\* What the writer has done when it comes to the next step.
WriterInv ==
    /\ pc # "idle" => saving \in Values
    /\ pc \in {"sync", "rename"} => data[dir.tmp] = saving
    /\ pc = "rename" => dir.tmp \in synced

WInv == TypeOK /\ dir \in dirs /\ CanonicalWhole /\ TmpApart /\ WriterInv

LEMMA InitWInv == Init => WInv
BY NoneAssumption DEF Init, WInv, TypeOK, Directory, Empty, CanonicalWhole,
   TmpApart, WriterInv

LEMMA StepWInv == WInv /\ [Next]_vars => WInv'
<1> SUFFICES ASSUME WInv, [Next]_vars PROVE WInv'
    OBVIOUS
<1> USE NoneAssumption, PartialAssumption
    DEF WInv, TypeOK, Directory, Empty, CanonicalWhole, TmpApart, WriterInv
<1>1. ASSUME NEW v \in Values, Save(v) PROVE WInv'
    BY <1>1 DEF Save
<1>2. CASE Create
    BY <1>2 DEF Create, SetDir, InUse
<1>3. CASE WriteAll
    BY <1>3 DEF WriteAll
<1>4. CASE SyncAll
    BY <1>4 DEF SyncAll
<1>5. CASE WriteFails
    BY <1>5 DEF WriteFails
<1>6. CASE CleanUp
    BY <1>6 DEF CleanUp, SetDir
<1>7. CASE Rename
    BY <1>7 DEF Rename, SetDir
<1>8. CASE RenameFails
    BY <1>8 DEF RenameFails
<1>9. CASE SyncDir
    BY <1>9 DEF SyncDir
<1>10. CASE Kill
    BY <1>10 DEF Kill
<1>11. CASE WriteBack
    BY <1>11 DEF WriteBack
<1>12. CASE PowerLoss
    BY <1>12 DEF PowerLoss
<1>13. CASE UNCHANGED vars
    BY <1>13 DEF vars
<1> QED
    BY <1>1, <1>2, <1>3, <1>4, <1>5, <1>6, <1>7, <1>8, <1>9, <1>10, <1>11, <1>12,
       <1>13 DEF Next

LEMMA Invariance == Spec => []WInv
<1>1. WInv /\ [Next]_vars => WInv'
    BY StepWInv
<1> QED
    BY InitWInv, <1>1, PTL DEF Spec

(***************************************************************************)
(* The writer never renames a file it has not opened, whatever crashed     *)
(* before (checkpoint.rs write_json_atomically_to_paths).                  *)
(***************************************************************************)
THEOREM WriterTypeCorrect == Spec => []TypeOK
<1>1. WInv => TypeOK
    BY DEF WInv
<1> QED
    BY Invariance, <1>1, PTL

-----------------------------------------------------------------------------
\* After the rename the canonical file is the document being saved.
SavedInv ==
    /\ pc = "syncdir" => dir.canonical # None /\ data[dir.canonical] = saving
    /\ result = "ok" => /\ pc = "idle"
                        /\ dir.canonical # None
                        /\ data[dir.canonical] = saving

LEMMA StepSavedInv == WInv /\ SavedInv /\ [Next]_vars => SavedInv'
<1> SUFFICES ASSUME WInv, SavedInv, [Next]_vars PROVE SavedInv'
    OBVIOUS
<1> USE NoneAssumption, PartialAssumption
    DEF WInv, TypeOK, Directory, WriterInv, SavedInv
<1>1. ASSUME NEW v \in Values, Save(v) PROVE SavedInv'
    BY <1>1 DEF Save
<1>2. CASE Create
    BY <1>2 DEF Create
<1>3. CASE WriteAll
    BY <1>3 DEF WriteAll
<1>4. CASE SyncAll \/ WriteFails \/ CleanUp
    BY <1>4 DEF SyncAll, WriteFails, CleanUp
<1>5. CASE Rename
    BY <1>5 DEF Rename, SetDir
<1>6. CASE RenameFails \/ SyncDir \/ Kill \/ WriteBack \/ PowerLoss
    BY <1>6 DEF RenameFails, SyncDir, Kill, WriteBack, PowerLoss
<1>7. CASE UNCHANGED vars
    BY <1>7 DEF vars
<1> QED
    BY <1>1, <1>2, <1>3, <1>4, <1>5, <1>6, <1>7 DEF Next

(***************************************************************************)
(* A save that returned Ok can be read back (checkpoint.rs save_to_disk,   *)
(* load_from_disk).                                                        *)
(***************************************************************************)
THEOREM OkVisible == Spec => []OkIsVisible
<1>1. Init => SavedInv
    BY DEF Init, SavedInv
<1>2. WInv /\ SavedInv /\ [Next]_vars => SavedInv'
    BY StepSavedInv
<1>3. SavedInv => OkIsVisible
    BY DEF SavedInv, OkIsVisible, Document
<1> QED
    BY Invariance, <1>1, <1>2, <1>3, PTL DEF Spec

-----------------------------------------------------------------------------
(***************************************************************************)
(* The refinement: the rename writes, a sync or the kernel flushes, a      *)
(* power loss crashes, and every other step stutters.                      *)
(***************************************************************************)
Visible == Document(dir)
Maybe == {Document(d) : d \in dirs}

\* A step that keeps the documents, and adds no directory but one that shows
\* the document of the current one, is not seen by a reader.
LEMMA Unseen ==
    ASSUME Document(dir)' = Document(dir), dir \in dirs, dirs \subseteq dirs',
           \A d \in dirs : Document(d)' = Document(d),
           \A d \in dirs' : d \in dirs \/ d = dir'
    PROVE  Visible' = Visible /\ Maybe' = Maybe
BY DEF Visible, Maybe

LEMMA StepRefines == WInv /\ [Next]_vars => [Register!Next]_<<Visible, Maybe>>
<1> SUFFICES ASSUME WInv, [Next]_vars
             PROVE [Register!Next]_<<Visible, Maybe>>
    OBVIOUS
<1> USE NoneAssumption, PartialAssumption
    DEF WInv, TypeOK, Directory, CanonicalWhole, TmpApart, WriterInv, Document
<1>1. ASSUME NEW v \in Values, Save(v) PROVE UNCHANGED <<Visible, Maybe>>
    BY <1>1 DEF Save, Visible, Maybe
<1>2. CASE Create
    BY <1>2, Unseen DEF Create, SetDir, InUse
<1>3. CASE WriteAll
    BY <1>3, Unseen DEF WriteAll
<1>4. CASE SyncAll \/ WriteFails \/ RenameFails \/ Kill
    BY <1>4 DEF SyncAll, WriteFails, RenameFails, Kill, Visible, Maybe
<1>5. CASE CleanUp
    BY <1>5, Unseen DEF CleanUp, SetDir
<1>6. CASE Rename
    BY <1>6 DEF Rename, SetDir, Register!Next, Register!Write, Visible, Maybe
<1>7. CASE SyncDir
    BY <1>7 DEF SyncDir, Register!Next, Register!Flush, Visible, Maybe
<1>8. CASE WriteBack
    BY <1>8 DEF WriteBack, Register!Next, Register!Flush, Visible, Maybe
<1>9. CASE PowerLoss
    BY <1>9 DEF PowerLoss, Register!Next, Register!Crash, Visible, Maybe
<1>10. CASE UNCHANGED vars
    BY <1>10 DEF vars, Visible, Maybe
<1> QED
    BY <1>1, <1>2, <1>3, <1>4, <1>5, <1>6, <1>7, <1>8, <1>9, <1>10 DEF Next

(***************************************************************************)
(* Readers of a file saved by write_json_atomically_to_paths see a durable *)
(* register: no document or a whole one, whenever the process or the power *)
(* dies (checkpoint.rs save_to_disk).                                      *)
(***************************************************************************)
THEOREM ImplementsRegister == Spec => IsRegister
<1>1. Init => Register!Init
    BY DEF Init, Empty, Document, Register!Init
<1>2. WInv /\ [Next]_vars => [Register!Next]_<<Document(dir), {Document(d) : d \in dirs}>>
    BY StepRefines DEF Visible, Maybe
<1> QED
    BY Invariance, <1>1, <1>2, PTL DEF Spec, IsRegister, Register!Spec
=============================================================================
