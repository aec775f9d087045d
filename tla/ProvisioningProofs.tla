------------------------- MODULE ProvisioningProofs -------------------------
(***************************************************************************)
(* Proofs about Provisioning, for every value of its constants: sessions,  *)
(* then recoveries.                                                        *)
(***************************************************************************)
EXTENDS Provisioning, TLAPS, SequenceTheorems, FiniteSetTheorems,
        WellFoundedInduction

(***************************************************************************)
(* The inductive invariant.                                                *)
(***************************************************************************)
NoneInProgress(c) == \A i \in Indices(c) : c.entries[i].status # "InProgress"
InsideVolumes(c) == \A i \in Indices(c) : VolumeOf(i) \in Volumes

\* What the entries of the two checkpoints may say.
EntriesInv ==
    /\ NoneInProgress(disk)
    /\ InsideVolumes(disk)
    /\ InsideVolumes(mem)
    /\ \A i \in Indices(mem) :
          mem.entries[i].status = "InProgress" => pc = "encode" /\ i = Last

\* The loop counts the entries of the checkpoint up to the tracks discovered.
LoopInv ==
    /\ pc \in {"loop", "encode"} => /\ mem.total = Len(source)
                                    /\ Last <= mem.total
                                    /\ Last = (planner.volume - 1) * Cap + planner.count
    /\ pc = "encode" => planner.count >= 1 /\ active = planner.volume
    /\ pc = "idle" => planner = NoPlanner /\ active = 0

\* The planner fills one folder after the other, and the active folder is the
\* one it fills, the one it will fill next, or none at the start.
PlannerInv ==
    /\ planner.volume >= 1
    /\ planner.count <= Cap
    /\ planner.count = 0 => planner.volume = 1
    /\ \/ active = planner.volume
       \/ active = planner.volume + 1 /\ planner.count = Cap
       \/ active = 0 /\ planner.count = 0

\* The checkpoint on the host is what the memory was when the active volume
\* was entered, and the memory itself once the loop is over.
LagInv ==
    /\ pc \in {"loop", "encode"} /\ active >= 2 =>
          /\ Len(disk.entries) = (active - 1) * Cap
          /\ IsInitialPart(disk.entries, mem.entries)
    /\ pc \in {"qa", "finalize", "eject", "recover", "recopy"} => disk = mem

\* What the final QA established still holds when the session is sealed.
QaInv ==
    /\ pc \in {"qa", "finalize", "eject"} => Last = mem.total
    /\ pc \in {"finalize", "eject"} => IntegrityOk(mem) /\ StructureOk
    /\ pc = "eject" => mem.status = "Completed"

\* Reports are for a stopped program, work lists for a running recovery.
ReportInv ==
    /\ FinalizedIsIntact
    /\ outcome \in {"finalized", "ejected", "recovered", "noop"} => pc = "idle"
    /\ outcome = "ejected" => dirty = {}
    /\ pc = "recopy" => todo # {}
    /\ pc \notin {"recover", "recopy"} => todo = {}

IInv == /\ TypeOK
        /\ EntriesInv
        /\ LoopInv
        /\ PlannerInv
        /\ LagInv
        /\ QaInv
        /\ ReportInv

-----------------------------------------------------------------------------
(***************************************************************************)
(* Arithmetic and data.                                                    *)
(***************************************************************************)

\* k full folders and c more files: integer division finds k.
LEMMA DivCap ==
    ASSUME NEW k \in Nat, NEW c \in 0..(Cap - 1)
    PROVE  (k * Cap + c) \div Cap = k
<1>1. Cap \in Nat /\ Cap > 0
  BY CapAssumption
<1>2. k * Cap \in Nat
  BY <1>1
<1> DEFINE n == k * Cap + c
<1>3. n \in Nat
  BY <1>1, <1>2
<1>4. n = Cap * (n \div Cap) + (n % Cap) /\ n % Cap \in 0..(Cap - 1) /\ n \div Cap \in Int
  BY <1>1, <1>3
<1>5. CASE n \div Cap <= k - 1
  <2>1. Cap * (n \div Cap) <= Cap * (k - 1)
    BY <1>1, <1>4, <1>5
  <2>2. Cap * (k - 1) = k * Cap - Cap
    BY <1>1
  <2> QED
    BY <1>1, <1>2, <1>4, <2>1, <2>2
<1>6. CASE n \div Cap >= k + 1
  <2>1. Cap * (n \div Cap) >= Cap * (k + 1)
    BY <1>1, <1>4, <1>6
  <2>2. Cap * (k + 1) = k * Cap + Cap
    BY <1>1
  <2> QED
    BY <1>1, <1>2, <1>4, <2>1, <2>2
<1> QED
  BY <1>4, <1>5, <1>6

\* The i-th entry lies in folder v exactly when v - 1 folders precede it.
LEMMA VolumeOfPosition ==
    ASSUME NEW v \in Nat \ {0}, NEW c \in 1..Cap
    PROVE  VolumeOf((v - 1) * Cap + c) = v
<1>1. ((v - 1) * Cap + (c - 1)) \div Cap = v - 1
  BY DivCap, CapAssumption
<1>2. (v - 1) * Cap \in Nat
  BY CapAssumption
<1>3. ((v - 1) * Cap + c) - 1 = (v - 1) * Cap + (c - 1)
  BY <1>2, CapAssumption
<1> QED
  BY <1>1, <1>3 DEF VolumeOf

LEMMA NextFolder ==
    ASSUME NEW v \in Nat
    PROVE  v * Cap + Cap = (v + 1) * Cap
BY CapAssumption

LEMMA LeastIndex ==
    ASSUME NEW T \in SUBSET Nat, T # {}
    PROVE  \E i \in T : \A j \in T : i <= j
<1>1. PICK i \in T : \A j \in T : ~(<<j, i>> \in OpToRel(<, Nat))
  BY WFMin, NatLessThanWellFounded
<1>2. ASSUME NEW j \in T
      PROVE  i <= j
  <2>1. <<j, i>> \in Nat \X Nat /\ <<j, i>>[1] = j /\ <<j, i>>[2] = i
    OBVIOUS
  <2>2. ~(j < i)
    BY <1>1, <2>1 DEF OpToRel
  <2> QED
    BY <2>1, <2>2
<1> QED
  BY <1>2

\* A checkpoint that got one more entry.
LEMMA RecordEntry ==
    ASSUME NEW c \in Checkpoint, NEW e \in Entry
    PROVE  /\ Record(c, e) \in Checkpoint
           /\ Record(c, e).status = c.status /\ Record(c, e).total = c.total
           /\ Len(c.entries) \in Nat
           /\ Len(Record(c, e).entries) = Len(c.entries) + 1
           /\ \A i \in Indices(c) : Record(c, e).entries[i] = c.entries[i]
           /\ Record(c, e).entries[Len(c.entries) + 1] = e
<1> DEFINE d == Record(c, e)
<1>1. c.entries \in Seq(Entry)
  BY DEF Checkpoint
<1>2. d = [status |-> c.status, total |-> c.total, entries |-> Append(c.entries, e)]
  <2>1. ASSUME NEW q
        PROVE  [c EXCEPT !.entries = q] = [status |-> c.status, total |-> c.total, entries |-> q]
    BY DEF Checkpoint
  <2> QED
    BY <2>1 DEF Record
<1> HIDE DEF d
<1>3. /\ Append(c.entries, e) \in Seq(Entry)
      /\ Len(Append(c.entries, e)) = Len(c.entries) + 1
      /\ \A i \in 1..Len(c.entries) : Append(c.entries, e)[i] = c.entries[i]
      /\ Append(c.entries, e)[Len(c.entries) + 1] = e
  BY <1>1, AppendProperties
<1>4. d.status = c.status /\ d.total = c.total /\ d.entries = Append(c.entries, e)
  BY <1>2
<1>5. d \in Checkpoint
  BY <1>2, <1>3 DEF Checkpoint
<1>6. Len(c.entries) \in Nat
  BY <1>1, LenProperties
<1> QED
  BY <1>3, <1>4, <1>5, <1>6 DEF Indices, d

\* A checkpoint one entry of which was marked.
LEMMA MarkEntry ==
    ASSUME NEW c \in Checkpoint, NEW i \in Indices(c),
           NEW st \in {"InProgress", "Completed", "Failed"},
           NEW er \in {"none", "Skipped_DRM", "failure"}
    PROVE  /\ Mark(c, i, st, er) \in Checkpoint
           /\ Mark(c, i, st, er).status = c.status
           /\ Mark(c, i, st, er).total = c.total
           /\ Len(c.entries) \in Nat
           /\ Len(Mark(c, i, st, er).entries) = Len(c.entries)
           /\ \A j \in Indices(c) \ {i} : Mark(c, i, st, er).entries[j] = c.entries[j]
           /\ Mark(c, i, st, er).entries[i].name = c.entries[i].name
           /\ Mark(c, i, st, er).entries[i].status = st
           /\ Mark(c, i, st, er).entries[i].error = er
<1> DEFINE e == [name |-> c.entries[i].name, status |-> st, error |-> er]
           d == Mark(c, i, st, er)
<1>1. c.entries \in Seq(Entry) /\ i \in 1..Len(c.entries)
  BY DEF Checkpoint, Indices
<1>2. c.entries[i] \in Entry /\ DOMAIN c.entries = 1..Len(c.entries)
  BY <1>1, ElementOfSeq, LenProperties
<1>3. e \in Entry
  BY <1>2 DEF Entry
<1>4. d = [status |-> c.status, total |-> c.total, entries |-> [c.entries EXCEPT ![i] = e]]
  BY <1>1, <1>2 DEF Checkpoint, Mark
<1> HIDE DEF d
<1>5. /\ [c.entries EXCEPT ![i] = e] \in Seq(Entry)
      /\ Len([c.entries EXCEPT ![i] = e]) = Len(c.entries)
      /\ \A j \in 1..Len(c.entries) :
            [c.entries EXCEPT ![i] = e][j] = IF j = i THEN e ELSE c.entries[j]
  BY <1>1, <1>3, ExceptSeq
<1>6. e.name = c.entries[i].name /\ e.status = st /\ e.error = er
  OBVIOUS
<1> HIDE DEF e
<1>7. c.status = d.status /\ c.total = d.total /\ d.entries = [c.entries EXCEPT ![i] = e]
  BY <1>4
<1>8. d \in Checkpoint
  BY <1>4, <1>5 DEF Checkpoint
<1>9. Len(c.entries) \in Nat /\ Len(d.entries) = Len(c.entries)
  BY <1>1, <1>5, <1>7, LenProperties
<1>10. \A j \in Indices(c) : d.entries[j] = IF j = i THEN e ELSE c.entries[j]
  BY <1>5, <1>7 DEF Indices
<1> QED
  BY <1>1, <1>6, <1>7, <1>8, <1>9, <1>10 DEF d, Indices

-----------------------------------------------------------------------------
(***************************************************************************)
(* What the invariant says of the file at hand.                            *)
(***************************************************************************)

LEMMA Lengths ==
    ASSUME TypeOK
    PROVE  /\ Last \in Nat /\ Len(mem.entries) \in Nat /\ Len(disk.entries) \in Nat
           /\ mem.entries \in Seq(Entry) /\ disk.entries \in Seq(Entry)
           /\ \A i \in Indices(mem) : mem.entries[i] \in Entry
           /\ \A i \in Indices(disk) : disk.entries[i] \in Entry
           /\ source \in Seq(Names) /\ Len(source) \in Nat
           /\ mem.total \in Nat
           /\ \A i \in 1..Len(source) : source[i] \in Names /\ VolumeOf(i) \in Volumes
<1>1. mem.entries \in Seq(Entry) /\ disk.entries \in Seq(Entry) /\ mem.total \in Nat
  BY DEF TypeOK, Checkpoint
<1>2. source \in Seq(Names) /\ \A i \in 1..Len(source) : VolumeOf(i) \in Volumes
  BY SourcesAssumption DEF TypeOK
<1>3. /\ Len(mem.entries) \in Nat /\ Len(disk.entries) \in Nat /\ Len(source) \in Nat
      /\ \A i \in 1..Len(source) : source[i] \in Names
      /\ \A i \in Indices(mem) : mem.entries[i] \in Entry
      /\ \A i \in Indices(disk) : disk.entries[i] \in Entry
  BY <1>1, <1>2, LenProperties, ElementOfSeq DEF Indices
<1> QED
  BY <1>1, <1>2, <1>3 DEF Last

\* The planner and the entry's index agree on the folder of the next file.
LEMMA NextFile ==
    ASSUME IInv, pc = "loop", Pending
    PROVE  /\ Last + 1 \in 1..Len(source)
           /\ Planned \in [volume : Nat, count : Nat]
           /\ Planned.volume >= 1
           /\ Planned.count < Cap
           /\ Last = (Planned.volume - 1) * Cap + Planned.count
           /\ Planned.volume = VolumeOf(Last + 1)
           /\ NextName \in Names
           /\ NextSlot \in Slots
<1> USE DEF IInv
<1>1. Last + 1 \in 1..Len(source)
  BY Lengths DEF LoopInv, Pending, Last
<1>2. planner \in [volume : Nat, count : Nat] /\ Cap \in Nat \ {0}
  BY CapAssumption DEF TypeOK
<1>3. /\ Planned \in [volume : Nat, count : Nat]
      /\ Planned.volume >= 1
      /\ Planned.count < Cap
      /\ Last = (Planned.volume - 1) * Cap + Planned.count
  <2>1. CASE planner.count < Cap
    <3>1. Planned = planner
      BY <1>2, <2>1 DEF Planned
    <3> QED
      BY <1>2, <2>1, <3>1 DEF LoopInv, PlannerInv
  <2>2. CASE planner.count = Cap
    <3>1. Planned = [volume |-> planner.volume + 1, count |-> 0]
      BY <1>2, <2>2 DEF Planned
    <3>2. planner.volume - 1 \in Nat
      BY <1>2 DEF PlannerInv
    <3>3. (planner.volume - 1) * Cap + Cap = ((planner.volume - 1) + 1) * Cap
      BY <3>2, NextFolder
    <3> QED
      BY <1>2, <2>2, <3>1, <3>2, <3>3 DEF LoopInv
  <2> QED
    BY <1>2, <2>1, <2>2 DEF PlannerInv
<1>4. Planned.volume = VolumeOf(Last + 1)
  <2>1. Planned.volume \in Nat \ {0} /\ Planned.count + 1 \in 1..Cap
    BY <1>2, <1>3
  <2>2. VolumeOf((Planned.volume - 1) * Cap + (Planned.count + 1)) = Planned.volume
    BY <2>1, VolumeOfPosition
  <2>3. (Planned.volume - 1) * Cap + (Planned.count + 1) = Last + 1
    BY <1>2, <1>3, <2>1
  <2> QED
    BY <2>2, <2>3
<1>5. NextName \in Names /\ VolumeOf(Last + 1) \in Volumes
  BY <1>1, Lengths DEF NextName, Last
<1> QED
  BY <1>1, <1>3, <1>4, <1>5 DEF NextSlot, Slots

LEMMA EncodedFile ==
    ASSUME IInv, pc = "encode"
    PROVE  /\ Last \in Indices(mem)
           /\ planner.volume = VolumeOf(Last)
           /\ EncodeSlot = SlotOf(mem, Last)
           /\ EncodeSlot \in Slots
<1> USE DEF IInv
<1>1. /\ planner.volume \in Nat \ {0} /\ planner.count \in 1..Cap /\ Cap \in Nat \ {0}
      /\ Last = (planner.volume - 1) * Cap + planner.count
  BY CapAssumption DEF TypeOK, LoopInv, PlannerInv
<1>2. planner.volume = VolumeOf(Last)
  BY <1>1, VolumeOfPosition
<1>3. (planner.volume - 1) * Cap \in Nat
  BY <1>1
<1>4. Last \in Indices(mem)
  BY <1>1, <1>3, Lengths DEF Indices, Last
<1>5. VolumeOf(Last) \in Volumes /\ mem.entries[Last].name \in Names
  BY <1>4, Lengths DEF EntriesInv, InsideVolumes, Entry
<1> QED
  BY <1>2, <1>4, <1>5 DEF EncodeSlot, SlotOf, Slots

LEMMA CurrentFile ==
    ASSUME IInv, todo # {}
    PROVE  /\ Current \in todo
           /\ Current \in Indices(mem)
           /\ CurrentSlot \in Slots
<1> USE DEF IInv
<1>1. todo \in SUBSET Indices(mem) /\ todo \in SUBSET Nat
  BY Lengths DEF TypeOK, Indices
<1>2. Current \in todo
  BY <1>1, LeastIndex DEF Current
<1>3. VolumeOf(Current) \in Volumes /\ mem.entries[Current].name \in Names
  BY <1>1, <1>2, Lengths DEF EntriesInv, InsideVolumes, Entry
<1> QED
  BY <1>1, <1>2, <1>3 DEF CurrentSlot, SlotOf, Slots

-----------------------------------------------------------------------------
(***************************************************************************)
(* The invariant holds initially, and every action preserves it.           *)
(***************************************************************************)

LEMMA NothingRecorded ==
    /\ NoCheckpoint \in Checkpoint
    /\ Indices(NoCheckpoint) = {}
    /\ NoPlanner \in [volume : Nat, count : Nat]
<1>1. <<>> \in Seq(Entry) /\ Len(<<>>) = 0
  BY EmptySeq
<1> QED
  BY <1>1 DEF NoCheckpoint, Checkpoint, Indices, NoPlanner

LEMMA InitIInv == Init => IInv
<1> SUFFICES ASSUME Init
             PROVE  IInv
  OBVIOUS
<1> USE NothingRecorded, CapAssumption DEF Init
<1>1. TypeOK
  BY DEF TypeOK, Content, Outcome
<1>2. EntriesInv
  BY DEF EntriesInv, NoneInProgress, InsideVolumes
<1>3. LoopInv /\ LagInv /\ QaInv
  BY DEF LoopInv, LagInv, QaInv
<1>4. PlannerInv
  BY DEF PlannerInv, NoPlanner
<1>5. ReportInv
  BY DEF ReportInv, FinalizedIsIntact
<1> QED
  BY <1>1, <1>2, <1>3, <1>4, <1>5 DEF IInv

\* A program that stops leaves the checkpoint on the host and the stick.
LEMMA StopIInv ==
    ASSUME IInv, NEW report \in Outcome, Stop(report),
           source' \in Sources, disk' = disk,
           usb' \in [Slots -> Content], dirty' \in SUBSET Slots,
           report \in {"finalized", "ejected"} =>
               /\ disk.status = "Completed" /\ Len(disk.entries) = disk.total
               /\ IntegrityOk(disk)' /\ StructureOk',
           report = "ejected" => dirty' = {}
    PROVE  IInv'
<1> USE NothingRecorded, CapAssumption DEF Stop
<1>1. TypeOK'
  BY DEF IInv, TypeOK
<1>2. EntriesInv'
  BY DEF IInv, EntriesInv, NoneInProgress, InsideVolumes, Indices
<1>3. LoopInv' /\ LagInv' /\ QaInv'
  BY DEF LoopInv, LagInv, QaInv
<1>4. PlannerInv'
  BY DEF PlannerInv, NoPlanner
<1>5. ReportInv'
  BY DEF ReportInv, FinalizedIsIntact
<1> QED
  BY <1>1, <1>2, <1>3, <1>4, <1>5 DEF IInv

LEMMA StartProvisionIInv ==
    ASSUME IInv, StartProvision
    PROVE  IInv'
<1> USE DEF StartProvision
<1>1. Len(source) \in Nat /\ <<>> \in Seq(Entry) /\ Len(<<>>) = 0 /\ CapAssumption
  BY Lengths, EmptySeq, CapAssumption DEF IInv
<1>2. pc = "idle" /\ planner = NoPlanner /\ active = 0 /\ todo = {} /\ mem' \in Checkpoint
  BY <1>1 DEF IInv, LoopInv, ReportInv, Checkpoint
<1>3. Indices(mem)' = {} /\ Last' = 0 /\ mem'.total = Len(source)
  BY <1>1 DEF Indices, Last
<1>4. TypeOK'
  BY <1>2 DEF IInv, TypeOK, Outcome
<1>5. EntriesInv'
  BY <1>3 DEF IInv, EntriesInv, NoneInProgress, InsideVolumes, Indices
<1>6. LoopInv' /\ PlannerInv' /\ LagInv' /\ QaInv' /\ ReportInv'
  BY <1>1, <1>2, <1>3, CapAssumption
     DEF LoopInv, PlannerInv, LagInv, QaInv, ReportInv, FinalizedIsIntact, NoPlanner
<1> QED
  BY <1>4, <1>5, <1>6 DEF IInv

\* The steps that leave the entries of the checkpoint in memory alone.

LEMMA EnterVolumeIInv ==
    ASSUME IInv, EnterVolume
    PROVE  IInv'
<1> USE DEF EnterVolume
<1>1. TypeOK'
  BY NextFile DEF IInv, TypeOK
<1>2. \A i \in Indices(mem) : mem.entries[i].status # "InProgress"
  BY DEF IInv, EntriesInv
<1>3. EntriesInv'
  BY <1>2 DEF IInv, EntriesInv, NoneInProgress, InsideVolumes, Indices, Last
<1>4. LoopInv'
  BY DEF IInv, LoopInv, Last
<1>5. QaInv' /\ ReportInv'
  BY DEF IInv, QaInv, ReportInv, FinalizedIsIntact
<1>6. planner \in [volume : Nat, count : Nat] /\ Cap \in Nat \ {0}
  BY CapAssumption DEF IInv, TypeOK
<1>7. CASE planner.count < Cap
  <2>1. Planned = planner
    BY <1>6, <1>7 DEF Planned
  <2>2. active = 0 /\ planner.count = 0 /\ planner.volume = 1
    BY <1>6, <1>7, <2>1 DEF IInv, PlannerInv
  <2>3. PlannerInv' /\ LagInv'
    BY <1>6, <2>1, <2>2 DEF IInv, PlannerInv, LagInv
  <2> QED
    BY <1>1, <1>3, <1>4, <1>5, <2>3 DEF IInv
<1>8. CASE planner.count = Cap
  <2>1. Planned.volume = planner.volume + 1
    BY <1>6, <1>8 DEF Planned
  <2>2. active = planner.volume /\ planner.volume >= 1
    BY <1>6, <1>8, <2>1 DEF IInv, PlannerInv
  <2>3. PlannerInv'
    BY <1>6, <1>8, <2>1, <2>2 DEF IInv, PlannerInv
  <2>4. disk' = mem /\ (active' - 1) * Cap = (planner.volume - 1) * Cap + Cap
    <3>1. planner.volume - 1 \in Nat /\ active # 0
      BY <1>6, <2>2
    <3>2. (planner.volume - 1) * Cap + Cap = ((planner.volume - 1) + 1) * Cap
      BY <3>1, NextFolder
    <3> QED
      BY <1>6, <2>1, <3>1, <3>2
  <2>5. LagInv'
    BY <1>8, <2>4, Lengths DEF IInv, LoopInv, LagInv, IsInitialPart, Last
  <2> QED
    BY <1>1, <1>3, <1>4, <1>5, <2>3, <2>5 DEF IInv
<1> QED
  BY <1>6, <1>7, <1>8 DEF IInv, PlannerInv

LEMMA FinishLoopIInv ==
    ASSUME IInv, FinishLoop
    PROVE  IInv'
<1> USE DEF FinishLoop
<1>1. TypeOK' /\ PlannerInv' /\ LagInv' /\ ReportInv'
  BY DEF IInv, TypeOK, PlannerInv, LagInv, ReportInv, FinalizedIsIntact
<1>2. EntriesInv'
  BY DEF IInv, EntriesInv, NoneInProgress, InsideVolumes, Indices, Last
<1>3. LoopInv' /\ QaInv'
  BY Lengths DEF IInv, LoopInv, QaInv, Pending, Last
<1> QED
  BY <1>1, <1>2, <1>3 DEF IInv

LEMMA QaPassIInv ==
    ASSUME IInv, QaPass
    PROVE  IInv'
<1> USE DEF QaPass
<1>1. TypeOK' /\ PlannerInv' /\ LagInv' /\ ReportInv' /\ LoopInv'
  BY DEF IInv, TypeOK, PlannerInv, LagInv, ReportInv, FinalizedIsIntact, LoopInv
<1>2. EntriesInv'
  BY DEF IInv, EntriesInv, NoneInProgress, InsideVolumes, Indices, Last
<1>3. QaInv'
  BY DEF IInv, QaInv, IntegrityOk, StructureOk, SlotOf, Indices, FilesIn, Last
<1> QED
  BY <1>1, <1>2, <1>3 DEF IInv

LEMMA FinalizeIInv ==
    ASSUME IInv, Finalize
    PROVE  IInv'
<1> USE DEF Finalize
<1>1. /\ mem' \in Checkpoint /\ mem'.status = "Completed"
      /\ mem'.total = mem.total /\ mem'.entries = mem.entries /\ disk' = mem'
  BY DEF IInv, TypeOK, Checkpoint
<1>2. Indices(mem)' = Indices(mem) /\ Indices(disk)' = Indices(mem) /\ Last' = Last
  BY <1>1 DEF Indices, Last
<1>3. TypeOK'
  BY <1>1, <1>2 DEF IInv, TypeOK
<1>4. PlannerInv' /\ LagInv' /\ ReportInv' /\ LoopInv'
  BY DEF IInv, PlannerInv, LagInv, ReportInv, FinalizedIsIntact, LoopInv
<1>5. EntriesInv'
  BY <1>1, <1>2 DEF IInv, EntriesInv, NoneInProgress, InsideVolumes
<1>6. QaInv'
  BY <1>1, <1>2 DEF IInv, QaInv, IntegrityOk, StructureOk, SlotOf, FilesIn
<1> QED
  BY <1>3, <1>4, <1>5, <1>6 DEF IInv

\* The steps of the loop that log a file or mark the last one.

LEMMA LoggedFile ==
    ASSUME IInv, pc = "loop", Pending, Planned.volume = active,
           NEW st \in {"InProgress", "Completed", "Failed"},
           NEW er \in {"none", "Skipped_DRM", "failure"},
           LogFile(st, er), source' = source, active' = active, disk' = disk,
           pc' \in {"loop", "encode"}, st = "InProgress" => pc' = "encode",
           todo' = todo
    PROVE  /\ mem' \in Checkpoint
           /\ planner' \in [volume : Nat, count : Nat]
           /\ todo' \in SUBSET Indices(mem')
           /\ EntriesInv' /\ LoopInv' /\ PlannerInv' /\ LagInv'
<1> DEFINE e == [name |-> NextName, status |-> st, error |-> er]
<1>1. /\ Planned \in [volume : Nat, count : Nat] /\ Planned.volume >= 1
      /\ Planned.count < Cap /\ Last = (Planned.volume - 1) * Cap + Planned.count
      /\ Last + 1 \in 1..Len(source) /\ VolumeOf(Last + 1) \in Volumes
  BY NextFile, Lengths DEF IInv, Last
<1>2. /\ mem' \in Checkpoint /\ mem'.status = mem.status /\ mem'.total = mem.total
      /\ Last \in Nat /\ Last' = Last + 1
      /\ \A i \in Indices(mem) : mem'.entries[i] = mem.entries[i]
      /\ mem'.entries[Last + 1] = e
  <2>1. e \in Entry /\ mem \in Checkpoint
    BY NextFile DEF Entry, IInv, TypeOK
  <2> HIDE DEF e
  <2>2. mem' = Record(mem, e)
    BY DEF LogFile, e
  <2>3. /\ mem' \in Checkpoint /\ mem'.status = mem.status /\ mem'.total = mem.total
        /\ Len(mem.entries) \in Nat
        /\ Len(mem'.entries) = Len(mem.entries) + 1
        /\ \A i \in Indices(mem) : mem'.entries[i] = mem.entries[i]
        /\ mem'.entries[Len(mem.entries) + 1] = e
    BY <2>1, <2>2, RecordEntry
  <2> QED
    BY <2>3 DEF Last
<1> HIDE DEF e
<1>3. Indices(mem) = 1..Last /\ Indices(mem)' = 1..(Last + 1) /\ Indices(disk)' = Indices(disk)
  BY <1>2 DEF Indices, Last
<1>4. /\ planner' \in [volume : Nat, count : Nat]
      /\ planner'.volume = Planned.volume /\ planner'.count = Planned.count + 1
  BY <1>1 DEF LogFile
<1>5. todo' \in SUBSET Indices(mem')
  BY DEF IInv, ReportInv
<1>6. EntriesInv'
  <2>1. NoneInProgress(disk)' /\ InsideVolumes(disk)'
    BY <1>3 DEF IInv, EntriesInv, NoneInProgress, InsideVolumes
  <2>2. InsideVolumes(mem)'
    BY <1>1, <1>2, <1>3 DEF IInv, EntriesInv, InsideVolumes
  <2>3. ASSUME NEW i \in Indices(mem'), mem'.entries[i].status = "InProgress"
        PROVE  pc' = "encode" /\ i = Last'
    <3>1. CASE i = Last + 1
      BY <1>2, <2>3, <3>1 DEF e
    <3>2. CASE i # Last + 1
      <4>1. i \in Indices(mem) /\ mem.entries[i].status = "InProgress"
        BY <1>2, <1>3, <2>3, <3>2 DEF Indices, Last
      <4> QED
        BY <4>1 DEF IInv, EntriesInv
    <3> QED
      BY <3>1, <3>2
  <2> QED
    BY <2>1, <2>2, <2>3 DEF EntriesInv, Indices
<1>7. LoopInv'
  <2>1. (Planned.volume - 1) * Cap \in Int
    BY <1>1, CapAssumption
  <2> QED
    BY <1>1, <1>2, <1>4, <2>1, Lengths DEF IInv, LoopInv, Pending, Last
<1>8. PlannerInv'
  BY <1>1, <1>4, CapAssumption DEF PlannerInv
<1>9. LagInv'
  <2>1. ASSUME active >= 2
        PROVE  /\ Len(disk.entries) = (active - 1) * Cap
               /\ IsInitialPart(disk.entries, mem'.entries)
    <3>1. /\ Len(disk.entries) = (active - 1) * Cap
          /\ IsInitialPart(disk.entries, mem.entries)
      BY <2>1 DEF IInv, LagInv
    <3> QED
      BY <1>2, <1>3, <3>1, Lengths DEF IInv, IsInitialPart, Indices, Last
  <2> QED
    BY <2>1 DEF LagInv
<1> QED
  BY <1>2, <1>4, <1>5, <1>6, <1>7, <1>8, <1>9

LEMMA RejectFileIInv ==
    ASSUME IInv, RejectFile
    PROVE  IInv'
<1>1. PICK st \in {"Failed"}, er \in {"Skipped_DRM", "failure"} : LogFile(st, er)
  BY DEF RejectFile
<1>2. /\ mem' \in Checkpoint /\ planner' \in [volume : Nat, count : Nat]
      /\ todo' \in SUBSET Indices(mem')
      /\ EntriesInv' /\ LoopInv' /\ PlannerInv' /\ LagInv'
  BY <1>1, LoggedFile DEF RejectFile
<1>3. TypeOK'
  BY <1>2 DEF RejectFile, IInv, TypeOK, Indices
<1>4. QaInv' /\ ReportInv'
  BY DEF RejectFile, IInv, QaInv, ReportInv, FinalizedIsIntact
<1> QED
  BY <1>2, <1>3, <1>4 DEF IInv

LEMMA BeginEncodeIInv ==
    ASSUME IInv, BeginEncode
    PROVE  IInv'
<1>1. /\ mem' \in Checkpoint /\ planner' \in [volume : Nat, count : Nat]
      /\ todo' \in SUBSET Indices(mem')
      /\ EntriesInv' /\ LoopInv' /\ PlannerInv' /\ LagInv'
  BY LoggedFile DEF BeginEncode
<1>2. TypeOK'
  <2>1. NextSlot \in Slots
    BY NextFile DEF BeginEncode
  <2>2. usb' \in [Slots -> Content] /\ dirty' \in SUBSET Slots
    BY <2>1 DEF BeginEncode, IInv, TypeOK, Content
  <2> QED
    BY <1>1, <2>2 DEF BeginEncode, IInv, TypeOK, Indices
<1>3. QaInv' /\ ReportInv'
  BY DEF BeginEncode, IInv, QaInv, ReportInv, FinalizedIsIntact
<1> QED
  BY <1>1, <1>2, <1>3 DEF IInv

LEMMA MarkedLast ==
    ASSUME IInv, pc = "encode",
           NEW st \in {"Completed", "Failed"}, NEW er \in {"none", "failure"},
           mem' = Mark(mem, Last, st, er), pc' = "loop",
           UNCHANGED <<source, planner, active, todo, disk>>
    PROVE  /\ mem' \in Checkpoint
           /\ todo' \in SUBSET Indices(mem')
           /\ EntriesInv' /\ LoopInv' /\ PlannerInv' /\ LagInv'
<1>1. Last \in Indices(mem) /\ mem \in Checkpoint
  BY EncodedFile DEF IInv, TypeOK
<1>2. /\ mem' \in Checkpoint /\ mem'.total = mem.total
      /\ Last \in Nat /\ Last' = Last
      /\ \A i \in Indices(mem) \ {Last} : mem'.entries[i] = mem.entries[i]
      /\ mem'.entries[Last].status = st
  <2>1. /\ st \in {"InProgress", "Completed", "Failed"}
        /\ er \in {"none", "Skipped_DRM", "failure"}
    OBVIOUS
  <2>2. /\ mem' \in Checkpoint /\ mem'.total = mem.total
        /\ Len(mem.entries) \in Nat
        /\ Len(mem'.entries) = Len(mem.entries)
        /\ \A i \in Indices(mem) \ {Last} : mem'.entries[i] = mem.entries[i]
        /\ mem'.entries[Last].status = st
    BY <1>1, <2>1, MarkEntry
  <2> QED
    BY <2>2 DEF Last
<1>3. Indices(mem)' = Indices(mem) /\ Indices(mem) = 1..Last /\ Indices(disk)' = Indices(disk)
  BY <1>2 DEF Indices, Last
<1>4. todo' \in SUBSET Indices(mem')
  BY <1>3 DEF IInv, TypeOK, Indices
<1>5. EntriesInv'
  BY <1>2, <1>3 DEF IInv, EntriesInv, NoneInProgress, InsideVolumes
<1>6. LoopInv' /\ PlannerInv'
  BY <1>2 DEF IInv, LoopInv, PlannerInv
<1>7. LagInv'
  <2>1. ASSUME active >= 2
        PROVE  /\ Len(disk.entries) = (active - 1) * Cap
               /\ IsInitialPart(disk.entries, mem'.entries)
    <3>1. /\ Len(disk.entries) = (active - 1) * Cap
          /\ IsInitialPart(disk.entries, mem.entries)
      BY <2>1 DEF IInv, LagInv
    <3>2. Last = (active - 1) * Cap + planner.count /\ planner.count >= 1
      BY DEF IInv, LoopInv
    <3>3. Len(disk.entries) < Last /\ Len(disk.entries) \in Nat
      BY <3>1, <3>2, Lengths DEF IInv, TypeOK
    <3> QED
      BY <1>2, <1>3, <3>1, <3>3 DEF IsInitialPart, Last
  <2> QED
    BY <2>1 DEF LagInv
<1> QED
  BY <1>2, <1>4, <1>5, <1>6, <1>7

LEMMA EncodeIInv ==
    ASSUME IInv, EncodeOk \/ EncodeFails
    PROVE  IInv'
<1> USE DEF EncodeOk, EncodeFails, mark_file_completed, mark_file_failed
<1>1. /\ mem' \in Checkpoint /\ todo' \in SUBSET Indices(mem')
      /\ EntriesInv' /\ LoopInv' /\ PlannerInv' /\ LagInv'
  BY MarkedLast
<1>2. TypeOK'
  <2>1. usb' \in [Slots -> Content]
    BY EncodedFile DEF IInv, TypeOK, Content
  <2> QED
    BY <1>1, <2>1 DEF IInv, TypeOK, Indices
<1>3. QaInv' /\ ReportInv'
  BY DEF IInv, QaInv, ReportInv, FinalizedIsIntact
<1> QED
  BY <1>1, <1>2, <1>3 DEF IInv

\* The steps of a recovery.

LEMMA WorkList ==
    ASSUME NEW c \in Checkpoint
    PROVE  ToRecover(c) \in SUBSET Indices(c)
<1>1. ASSUME NEW i \in Indices(c)
      PROVE  FirstOfName(c, i) \in Indices(c)
  <2> DEFINE T == {j \in Indices(c) : c.entries[j].name = c.entries[i].name}
  <2>1. T \in SUBSET Nat /\ T # {}
    BY <1>1 DEF Indices
  <2>2. PICK j \in T : \A k \in T : j <= k
    BY <2>1, LeastIndex
  <2> QED
    BY <2>2 DEF FirstOfName
<1>2. \A i \in Corrupted(c) : FirstOfName(c, i) \in Indices(c)
  BY <1>1 DEF Corrupted
<1> QED
  BY <1>2 DEF ToRecover, Unfinished

LEMMA StartResumeIInv ==
    ASSUME IInv, StartResume
    PROVE  IInv'
<1> USE DEF StartResume
<1>1. Indices(mem)' = Indices(disk) /\ Indices(disk)' = Indices(disk)
  BY DEF Indices
<1>2. TypeOK'
  <2>1. todo' \in SUBSET Indices(mem)'
    BY <1>1, WorkList DEF IInv, TypeOK
  <2> QED
    BY <2>1 DEF IInv, TypeOK, Outcome
<1>3. EntriesInv'
  BY <1>1 DEF IInv, EntriesInv, NoneInProgress, InsideVolumes
<1>4. LoopInv' /\ PlannerInv' /\ LagInv' /\ QaInv' /\ ReportInv'
  BY DEF IInv, LoopInv, PlannerInv, LagInv, QaInv, ReportInv, FinalizedIsIntact
<1> QED
  BY <1>2, <1>3, <1>4 DEF IInv

LEMMA RemoveOldIInv ==
    ASSUME IInv, RemoveOld
    PROVE  IInv'
<1>1. CurrentSlot \in Slots
  BY CurrentFile DEF RemoveOld
<1>2. /\ usb' \in [Slots -> Content] /\ dirty' \in SUBSET Slots
      /\ source' \in Sources /\ disk' = disk
  BY <1>1 DEF RemoveOld, IInv, TypeOK, Content
<1>3. CASE Stop("error")
  BY <1>2, <1>3, StopIInv DEF Outcome
<1>4. CASE pc' = "recopy" /\ UNCHANGED <<planner, active, mem, todo, failures, outcome>>
  <2>1. TypeOK'
    BY <1>2, <1>4 DEF RemoveOld, IInv, TypeOK, Indices
  <2>2. EntriesInv'
    BY <1>4 DEF RemoveOld, IInv, EntriesInv, NoneInProgress, InsideVolumes, Indices, Last
  <2>3. LoopInv' /\ PlannerInv' /\ LagInv' /\ QaInv' /\ ReportInv'
    BY <1>4 DEF RemoveOld, IInv, LoopInv, PlannerInv, LagInv, QaInv, ReportInv,
                FinalizedIsIntact
  <2> QED
    BY <2>1, <2>2, <2>3 DEF IInv
<1> QED
  BY <1>3, <1>4 DEF RemoveOld

LEMMA RecopyIInv ==
    ASSUME IInv, RecopyOk \/ RecopyFails
    PROVE  IInv'
<1> USE DEF RecopyOk, RecopyFails, mark_file_completed, mark_file_failed
<1>1. /\ pc = "recopy" /\ pc' = "recover" /\ disk' = mem' /\ todo' = todo \ {Current}
      /\ UNCHANGED <<source, planner, active, outcome, dirty>>
  OBVIOUS
<1>2. todo # {} /\ disk = mem /\ mem \in Checkpoint /\ todo \in SUBSET Indices(mem)
  BY <1>1 DEF IInv, ReportInv, LagInv, TypeOK
<1>3. Current \in Indices(mem) /\ CurrentSlot \in Slots
  BY <1>2, CurrentFile
<1>4. PICK st \in {"Completed", "Failed"}, er \in {"none", "failure"} :
         mem' = Mark(mem, Current, st, er)
  OBVIOUS
<1>5. /\ mem' \in Checkpoint
      /\ Len(mem'.entries) = Len(mem.entries)
      /\ \A j \in Indices(mem) \ {Current} : mem'.entries[j] = mem.entries[j]
      /\ mem'.entries[Current].status \in {"Completed", "Failed"}
  <2>1. st \in {"InProgress", "Completed", "Failed"} /\ er \in {"none", "Skipped_DRM", "failure"}
    OBVIOUS
  <2> QED
    BY <1>2, <1>3, <1>4, <2>1, MarkEntry
<1>6. Indices(mem)' = Indices(mem) /\ Indices(disk)' = Indices(mem) /\ Last' = Last
  BY <1>1, <1>5 DEF Indices, Last
<1>7. usb' \in [Slots -> Content]
  BY <1>3 DEF IInv, TypeOK, Content
<1>8. TypeOK'
  BY <1>1, <1>2, <1>5, <1>6, <1>7 DEF IInv, TypeOK
<1>9. EntriesInv'
  BY <1>1, <1>2, <1>5, <1>6 DEF IInv, EntriesInv, NoneInProgress, InsideVolumes
<1>10. LoopInv' /\ PlannerInv' /\ LagInv' /\ QaInv' /\ ReportInv'
  BY <1>1 DEF IInv, LoopInv, PlannerInv, LagInv, QaInv, ReportInv, FinalizedIsIntact
<1> QED
  BY <1>8, <1>9, <1>10 DEF IInv

LEMMA FinishRecoveryIInv ==
    ASSUME IInv, FinishRecovery
    PROVE  IInv'
<1>1. usb' \in [Slots -> Content]
  BY DEF FinishRecovery, IInv, TypeOK, Content
<1>2. PICK report \in {"error", "recovered"} : Stop(report)
  BY DEF FinishRecovery
<1> QED
  BY <1>1, <1>2, StopIInv DEF FinishRecovery, IInv, TypeOK, Outcome

\* The steps that stop the program, and those of the surroundings.

LEMMA StoppingIInv ==
    ASSUME IInv, QaFail \/ KeepMounted \/ SafeEject \/ Abort \/ PowerLoss
    PROVE  IInv'
<1>1. CASE QaFail
  BY <1>1, StopIInv DEF QaFail, IInv, TypeOK, Outcome
<1>2. CASE KeepMounted \/ SafeEject
  <2>1. PICK report \in {"finalized", "ejected"} : Stop(report)
    BY <1>2 DEF KeepMounted, SafeEject
  <2>2. /\ disk.status = "Completed" /\ Len(disk.entries) = disk.total
        /\ IntegrityOk(disk) /\ StructureOk
    BY <1>2 DEF KeepMounted, SafeEject, IInv, QaInv, LagInv, Last
  <2>3. IntegrityOk(disk)' /\ StructureOk'
    BY <1>2, <2>2 DEF KeepMounted, SafeEject, IntegrityOk, StructureOk, Indices, SlotOf, FilesIn
  <2> QED
    BY <1>2, <2>1, <2>2, <2>3, StopIInv DEF KeepMounted, SafeEject, IInv, TypeOK, Outcome
<1>3. CASE Abort
  BY <1>3, StopIInv DEF Abort, IInv, TypeOK, Outcome
<1>4. CASE PowerLoss
  <2>1. usb' \in [Slots -> Content]
    BY <1>4 DEF PowerLoss, IInv, TypeOK
  <2>2. Stop("lost")
    BY <1>4 DEF PowerLoss, IInv, ReportInv
  <2> QED
    BY <1>4, <2>1, <2>2, StopIInv DEF PowerLoss, IInv, TypeOK, Outcome
<1> QED
  BY <1>1, <1>2, <1>3, <1>4

LEMMA SurroundingsIInv ==
    ASSUME IInv, ResumeNothing \/ WriteBack \/ EditSource
    PROVE  IInv'
<1> USE DEF ResumeNothing, WriteBack, EditSource
<1>1. UNCHANGED <<pc, planner, active, mem, todo, failures, disk, usb>>
  OBVIOUS
<1>2. TypeOK'
  BY <1>1 DEF IInv, TypeOK, Outcome, Indices
<1>3. EntriesInv' /\ PlannerInv' /\ LagInv' /\ QaInv'
  BY <1>1 DEF IInv, EntriesInv, NoneInProgress, InsideVolumes, Indices, Last, PlannerInv,
              LagInv, IsInitialPart, QaInv, IntegrityOk, StructureOk, SlotOf, FilesIn
<1>4. LoopInv'
  BY <1>1 DEF IInv, LoopInv, Last
<1>5. ReportInv'
  BY <1>1 DEF IInv, ReportInv, FinalizedIsIntact, IntegrityOk, StructureOk, Indices, SlotOf,
              FilesIn
<1> QED
  BY <1>2, <1>3, <1>4, <1>5 DEF IInv

LEMMA NextIInv ==
    ASSUME IInv, [Next]_vars
    PROVE  IInv'
<1>1. CASE Session
  BY <1>1, EnterVolumeIInv, RejectFileIInv, BeginEncodeIInv, EncodeIInv, FinishLoopIInv,
     QaPassIInv, FinalizeIInv, StoppingIInv DEF Session
<1>2. CASE Recovery
  BY <1>2, RemoveOldIInv, RecopyIInv, FinishRecoveryIInv DEF Recovery
<1>3. CASE StartProvision \/ StartResume \/ ResumeNothing
  BY <1>3, StartProvisionIInv, StartResumeIInv, SurroundingsIInv
<1>4. CASE Abort \/ PowerLoss \/ WriteBack \/ EditSource
  BY <1>4, StoppingIInv, SurroundingsIInv
<1>5. CASE UNCHANGED vars
  <2> USE <1>5 DEF vars
  <2>1. TypeOK'
    BY DEF IInv, TypeOK, Indices
  <2>2. EntriesInv' /\ PlannerInv' /\ LagInv' /\ QaInv'
    BY DEF IInv, EntriesInv, NoneInProgress, InsideVolumes, Indices, Last, PlannerInv,
           LagInv, IsInitialPart, QaInv, IntegrityOk, StructureOk, SlotOf, FilesIn
  <2>3. LoopInv'
    BY DEF IInv, LoopInv, Last
  <2>4. ReportInv'
    BY DEF IInv, ReportInv, FinalizedIsIntact, IntegrityOk, StructureOk, Indices, SlotOf,
           FilesIn
  <2> QED
    BY <2>1, <2>2, <2>3, <2>4 DEF IInv
<1> QED
  BY <1>1, <1>2, <1>3, <1>4, <1>5 DEF Next, Program

(***************************************************************************)
(* The invariant holds in every state of every session and recovery.       *)
(***************************************************************************)
THEOREM Invariance == Spec => []IInv
BY InitIInv, NextIInv, PTL DEF Spec

-----------------------------------------------------------------------------
(***************************************************************************)
(* The results.                                                            *)
(***************************************************************************)

(***************************************************************************)
(* The variables keep their types, whatever fails and whenever the program *)
(* is killed (orchestrator.rs: provision_usb, resume_provisioning).        *)
(***************************************************************************)
THEOREM TypeCorrect == Spec => []TypeOK
<1>1. IInv => TypeOK
  BY DEF IInv
<1> QED
  BY <1>1, Invariance, PTL

(***************************************************************************)
(* A provision that reports success left a complete checkpoint and a stick *)
(* that agrees with it (orchestrator.rs: finalize comes after the final    *)
(* QA, verification.rs: pre_eject_verification), after a safe eject        *)
(* whenever power goes: no write is in the page cache by then.             *)
(***************************************************************************)
THEOREM FinalizedSafe == Spec => []FinalizedIsIntact
<1>1. IInv => FinalizedIsIntact
  BY DEF IInv, ReportInv
<1> QED
  BY <1>1, Invariance, PTL

(***************************************************************************)
(* What a crash costs is at most one volume of the checkpoint, and the     *)
(* file on the host never names a file that was being written              *)
(* (orchestrator.rs: save_to_disk at the volume boundary, checkpoint.rs:   *)
(* auto_persist).                                                          *)
(***************************************************************************)
THEOREM LagBounded == Spec => []CheckpointLag
<1>1. ASSUME IInv
      PROVE  CheckpointLag
  <2>1. ASSUME pc \in {"loop", "encode"}, Len(mem.entries) > Cap
        PROVE  /\ IsInitialPart(disk.entries, mem.entries)
               /\ Len(mem.entries) - Len(disk.entries) <= Cap
    <3>1. /\ planner.volume \in Nat \ {0} /\ planner.count \in 0..Cap /\ Cap \in Nat \ {0}
          /\ Len(mem.entries) = (planner.volume - 1) * Cap + planner.count
      BY <1>1, <2>1, CapAssumption DEF IInv, TypeOK, LoopInv, PlannerInv, Last
    <3>2. planner.volume >= 2
      <4>1. planner.volume # 1
        BY <2>1, <3>1
      <4> QED
        BY <3>1, <4>1
    <3>3. /\ \/ active = planner.volume
             \/ active = planner.volume + 1 /\ planner.count = Cap
          /\ active >= 2
      BY <1>1, <3>1, <3>2 DEF IInv, PlannerInv
    <3>4. /\ Len(disk.entries) = (active - 1) * Cap
          /\ IsInitialPart(disk.entries, mem.entries)
      BY <1>1, <2>1, <3>3 DEF IInv, LagInv
    <3>5. (planner.volume - 1) * Cap + Cap = ((planner.volume - 1) + 1) * Cap
      BY <3>1, NextFolder
    <3>6. (planner.volume - 1) * Cap \in Nat
      BY <3>1
    <3>7. CASE active = planner.volume
      BY <3>1, <3>4, <3>6, <3>7
    <3>8. CASE active = planner.volume + 1 /\ planner.count = Cap
      BY <3>1, <3>4, <3>5, <3>6, <3>8
    <3> QED
      BY <3>3, <3>4, <3>7, <3>8
  <2> QED
    BY <1>1, <2>1 DEF CheckpointLag, IInv, EntriesInv, NoneInProgress, LagInv
<1> QED
  BY <1>1, Invariance, PTL

(***************************************************************************)
(* The folder a file is written to (distribution.rs: plan_file) is the one *)
(* in which the final QA and the recovery look for it (verification.rs,    *)
(* recovery.rs: index / MAX_FILES_PER_FOLDER + 1).                         *)
(***************************************************************************)
THEOREM SameFolder == Spec => []WritesWhereQaLooks
<1>1. ASSUME IInv
      PROVE  WritesWhereQaLooks
  BY <1>1, NextFile, EncodedFile DEF WritesWhereQaLooks, NextSlot
<1> QED
  BY <1>1, Invariance, PTL

-----------------------------------------------------------------------------
(***************************************************************************)
(* The recovery.                                                           *)
(*                                                                         *)
(* recovery.rs turns a corrupted path back into an entry by its file name, *)
(* so what a recovery achieves depends on the names being distinct.        *)
(* index_manager.rs numbers the tracks of a session one by one and         *)
(* sanitizer.rs puts the number in the name; only a track that carries a   *)
(* name of an earlier provisioning keeps its old number.  The theorems     *)
(* assume that no two tracks of one source have the same name: of two      *)
(* damaged entries of one name a recovery repairs the first.               *)
(***************************************************************************)
DistinctTracks ==
    \A s \in Sources : \A i, j \in 1..Len(s) : s[i] = s[j] => i = j

DistinctEntries(c) ==
    \A i, j \in Indices(c) : c.entries[i].name = c.entries[j].name => i = j

Good(c, i) == \/ c.entries[i].error = "Skipped_DRM"
              \/ c.entries[i].status = "Completed" /\ usb[SlotOf(c, i)] = "intact"

\* A completed entry has no error message (mark_file_completed clears it).
CompletedHasNoError(c) ==
    \A i \in Indices(c) : c.entries[i].status = "Completed" => c.entries[i].error = "none"

\* In the loop the entries are the tracks in the order of the source.
NamesInv ==
    /\ pc \in {"loop", "encode"} =>
          \A i \in Indices(mem) : mem.entries[i].name = source[i]
    /\ DistinctEntries(mem)
    /\ DistinctEntries(disk)
    /\ CompletedHasNoError(mem)
    /\ CompletedHasNoError(disk)

\* What is off the work list is good unless a failure was counted, and what is
\* on it is worth the work.
ProgressInv ==
    pc \in {"recover", "recopy"} =>
        /\ failures \/ \A i \in Indices(mem) \ todo : Good(mem, i)
        /\ \A i \in todo : /\ mem.entries[i].error # "Skipped_DRM"
                           /\ i \in Unfinished(mem) \/ usb[SlotOf(mem, i)] # "intact"

RInv == NamesInv /\ ProgressInv /\ RecoveredIsIntact


LEMMA InitRInv == Init => RInv
<1> SUFFICES ASSUME Init
             PROVE  RInv
  OBVIOUS
<1> QED
  BY NothingRecorded DEF Init, RInv, NamesInv, DistinctEntries, CompletedHasNoError,
     ProgressInv, RecoveredIsIntact

\* A program that stops without the report of a recovery.
LEMMA StopRInv ==
    ASSUME RInv, NEW report, report # "recovered", Stop(report), disk' = disk
    PROVE  RInv'
<1>1. Indices(mem') = {} /\ Indices(disk') = Indices(disk)
  BY NothingRecorded DEF Stop
<1>2. NamesInv'
  BY <1>1 DEF Stop, RInv, NamesInv, DistinctEntries, CompletedHasNoError, Indices
<1> QED
  BY <1>2 DEF Stop, RInv, ProgressInv, RecoveredIsIntact

\* A step after which both checkpoints have entries the memory and the host
\* had before, outside a recovery.
LEMMA KeptEntries ==
    ASSUME RInv, source' = source \/ pc' \notin {"loop", "encode"},
           pc' \in {"loop", "encode"} => pc \in {"loop", "encode"},
           pc' \notin {"recover", "recopy"},
           mem'.entries = mem.entries,
           disk'.entries \in {mem.entries, disk.entries}
    PROVE  NamesInv' /\ ProgressInv'
<1>1. Indices(mem)' = Indices(mem) /\ Indices(disk)' \in {Indices(mem), Indices(disk)}
  BY DEF Indices
<1>2. NamesInv'
  <2>1. DistinctEntries(mem)' /\ CompletedHasNoError(mem)'
    BY <1>1 DEF RInv, NamesInv, DistinctEntries, CompletedHasNoError
  <2>2. DistinctEntries(disk)' /\ CompletedHasNoError(disk)'
    BY DEF RInv, NamesInv, DistinctEntries, CompletedHasNoError, Indices
  <2>3. pc' \in {"loop", "encode"} =>
          \A i \in Indices(mem)' : mem'.entries[i].name = source'[i]
    BY <1>1 DEF RInv, NamesInv
  <2> QED
    BY <2>1, <2>2, <2>3 DEF NamesInv
<1> QED
  BY <1>2 DEF ProgressInv

LEMMA QuietRInv ==
    ASSUME IInv, RInv,
           \/ EnterVolume \/ FinishLoop \/ QaPass \/ Finalize \/ ResumeNothing \/ EditSource
    PROVE  RInv'
<1>1. /\ source' = source \/ pc' \notin {"loop", "encode"}
      /\ pc' \in {"loop", "encode"} => pc \in {"loop", "encode"}
      /\ pc' \notin {"recover", "recopy"}
      /\ mem'.entries = mem.entries
      /\ disk'.entries \in {mem.entries, disk.entries}
  BY DEF EnterVolume, FinishLoop, QaPass, Finalize, ResumeNothing, EditSource, IInv, TypeOK,
         Checkpoint
<1>2. outcome' # "recovered"
  BY DEF EnterVolume, FinishLoop, QaPass, Finalize, ResumeNothing, EditSource, IInv, ReportInv
<1> QED
  BY <1>1, <1>2, KeptEntries DEF RInv, RecoveredIsIntact

LEMMA StillRInv ==
    ASSUME RInv, WriteBack \/ UNCHANGED vars
    PROVE  RInv'
<1>1. UNCHANGED <<source, pc, mem, todo, failures, disk, usb, outcome>>
  BY DEF WriteBack, vars
<1> QED
  BY <1>1 DEF RInv, NamesInv, DistinctEntries, CompletedHasNoError, ProgressInv, Good,
              Unfinished, RecoveredIsIntact, Indices, SlotOf

LEMMA StartProvisionRInv ==
    ASSUME IInv, RInv, StartProvision
    PROVE  RInv'
<1>1. Indices(mem') = {} /\ Indices(disk') = Indices(disk)
  BY EmptySeq DEF StartProvision, Indices
<1>2. NamesInv'
  BY <1>1 DEF StartProvision, RInv, NamesInv, DistinctEntries, CompletedHasNoError, Indices
<1> QED
  BY <1>2 DEF StartProvision, RInv, ProgressInv, RecoveredIsIntact

\* The entries stay distinct because the tracks are.
LEMMA LogRInv ==
    ASSUME DistinctTracks, IInv, RInv, RejectFile \/ BeginEncode
    PROVE  RInv'
<1>1. PICK st \in {"InProgress", "Failed"}, er \in {"none", "Skipped_DRM", "failure"} :
         LogFile(st, er)
  BY DEF RejectFile, BeginEncode
<1> DEFINE e == [name |-> NextName, status |-> st, error |-> er]
<1>2. /\ pc = "loop" /\ Pending /\ pc' \in {"loop", "encode"}
      /\ UNCHANGED <<source, disk, outcome>>
  BY DEF RejectFile, BeginEncode
<1>3. /\ Last + 1 \in 1..Len(source) /\ NextName = source[Last + 1] /\ Last \in Nat
      /\ Len(source) \in Nat
  BY <1>2, NextFile, Lengths DEF IInv, NextName, Last
<1>4. /\ Len(mem'.entries) = Last + 1
      /\ \A i \in Indices(mem) : mem'.entries[i] = mem.entries[i]
      /\ mem'.entries[Last + 1] = e
  <2>1. e \in Entry /\ mem \in Checkpoint
    BY <1>2, NextFile DEF Entry, IInv, TypeOK
  <2> HIDE DEF e
  <2>2. mem' = Record(mem, e)
    BY <1>1 DEF LogFile, e
  <2>3. /\ Len(mem'.entries) = Len(mem.entries) + 1
        /\ \A i \in Indices(mem) : mem'.entries[i] = mem.entries[i]
        /\ mem'.entries[Len(mem.entries) + 1] = e
    BY <2>1, <2>2, RecordEntry
  <2> QED
    BY <2>3 DEF Last
<1>5. e.name = source[Last + 1] /\ e.status # "Completed"
  BY <1>3
<1> HIDE DEF e
<1>6. Indices(mem) = 1..Last /\ Indices(mem)' = 1..(Last + 1) /\ Indices(disk)' = Indices(disk)
  BY <1>2, <1>4 DEF Indices, Last
<1>7. \A i \in 1..(Last + 1) : mem'.entries[i].name = source[i]
  BY <1>2, <1>3, <1>4, <1>5, <1>6 DEF RInv, NamesInv
<1>8. DistinctEntries(mem)'
  BY <1>2, <1>3, <1>6, <1>7 DEF DistinctEntries, DistinctTracks, IInv, TypeOK
<1>9. CompletedHasNoError(mem)'
  BY <1>3, <1>4, <1>5, <1>6 DEF RInv, NamesInv, CompletedHasNoError
<1>10. DistinctEntries(disk)' /\ CompletedHasNoError(disk)'
  BY <1>2 DEF RInv, NamesInv, DistinctEntries, CompletedHasNoError, Indices
<1>11. NamesInv'
  BY <1>2, <1>6, <1>7, <1>8, <1>9, <1>10 DEF NamesInv
<1> QED
  BY <1>2, <1>11 DEF RInv, ProgressInv, RecoveredIsIntact, IInv, ReportInv

\* Marking an entry changes neither a name nor the others.
LEMMA MarkedNames ==
    ASSUME NEW c \in Checkpoint, NEW i \in Indices(c),
           NEW st \in {"Completed", "Failed"}, NEW er \in {"none", "failure"},
           st = "Completed" => er = "none",
           DistinctEntries(c), CompletedHasNoError(c)
    PROVE  /\ Indices(Mark(c, i, st, er)) = Indices(c)
           /\ \A j \in Indices(c) : Mark(c, i, st, er).entries[j].name = c.entries[j].name
           /\ \A j \in Indices(c) \ {i} : Mark(c, i, st, er).entries[j] = c.entries[j]
           /\ Mark(c, i, st, er).entries[i].status = st
           /\ Mark(c, i, st, er).entries[i].error = er
           /\ DistinctEntries(Mark(c, i, st, er))
           /\ CompletedHasNoError(Mark(c, i, st, er))
<1> DEFINE d == Mark(c, i, st, er)
<1>1. /\ Len(d.entries) = Len(c.entries)
      /\ \A j \in Indices(c) \ {i} : d.entries[j] = c.entries[j]
      /\ d.entries[i].name = c.entries[i].name
      /\ d.entries[i].status = st
      /\ d.entries[i].error = er
  <2>1. st \in {"InProgress", "Completed", "Failed"} /\ er \in {"none", "Skipped_DRM", "failure"}
    OBVIOUS
  <2> QED
    BY <2>1, MarkEntry
<1> HIDE DEF d
<1>2. Indices(d) = Indices(c)
  BY <1>1 DEF Indices
<1>3. \A j \in Indices(c) : d.entries[j].name = c.entries[j].name
  BY <1>1
<1>4. DistinctEntries(d) /\ CompletedHasNoError(d)
  BY <1>1, <1>2, <1>3 DEF DistinctEntries, CompletedHasNoError
<1> QED
  BY <1>1, <1>2, <1>3, <1>4 DEF d

LEMMA EncodeRInv ==
    ASSUME IInv, RInv, EncodeOk \/ EncodeFails
    PROVE  RInv'
<1> USE DEF EncodeOk, EncodeFails, mark_file_completed, mark_file_failed
<1>1. PICK st \in {"Completed", "Failed"}, er \in {"none", "failure"} :
         mem' = Mark(mem, Last, st, er) /\ (st = "Completed" => er = "none")
  OBVIOUS
<1>2. Last \in Indices(mem) /\ mem \in Checkpoint
  BY EncodedFile DEF IInv, TypeOK
<1>3. /\ Indices(mem') = Indices(mem)
      /\ \A j \in Indices(mem) : mem'.entries[j].name = mem.entries[j].name
      /\ DistinctEntries(mem') /\ CompletedHasNoError(mem')
  BY <1>1, <1>2, MarkedNames DEF RInv, NamesInv
<1>4. NamesInv'
  BY <1>3 DEF RInv, NamesInv, DistinctEntries, CompletedHasNoError, Indices
<1> QED
  BY <1>4 DEF RInv, ProgressInv, RecoveredIsIntact, IInv, ReportInv

-----------------------------------------------------------------------------
(***************************************************************************)
(* The recovery itself.                                                    *)
(***************************************************************************)

\* Entries with distinct names have distinct slots.
LEMMA DistinctSlots ==
    ASSUME NEW c, DistinctEntries(c), NEW i \in Indices(c), NEW j \in Indices(c),
           SlotOf(c, i) = SlotOf(c, j)
    PROVE  i = j
BY DEF DistinctEntries, SlotOf

\* With distinct names a corrupted file leads back to its own entry.
LEMMA FirstIsSelf ==
    ASSUME NEW c, Len(c.entries) \in Nat, DistinctEntries(c), NEW i \in Indices(c)
    PROVE  FirstOfName(c, i) = i
<1> DEFINE P(j) == /\ c.entries[j].name = c.entries[i].name
                   /\ \A k \in Indices(c) : c.entries[k].name = c.entries[i].name => j <= k
<1>1. P(i)
  BY DEF DistinctEntries, Indices
<1>2. \A j \in Indices(c) : P(j) => j = i
  BY DEF DistinctEntries
<1> QED
  BY <1>1, <1>2 DEF FirstOfName

LEMMA StartResumeRInv ==
    ASSUME IInv, RInv, StartResume
    PROVE  RInv'
<1> USE DEF StartResume
<1>1. /\ Indices(mem)' = Indices(disk) /\ Indices(disk)' = Indices(disk)
      /\ Len(disk.entries) \in Nat
      /\ \A i \in Indices(disk) : disk.entries[i].status \in {"InProgress", "Completed", "Failed"}
  BY Lengths DEF IInv, Indices, Entry
<1>2. NamesInv'
  BY <1>1 DEF RInv, NamesInv, DistinctEntries, CompletedHasNoError
<1>3. DistinctEntries(disk) /\ CompletedHasNoError(disk)
  BY DEF RInv, NamesInv
<1>4. ToRecover(disk) = Unfinished(disk) \cup Corrupted(disk)
  BY <1>1, <1>3, FirstIsSelf DEF ToRecover, Corrupted
<1>5. \A i \in Indices(disk) \ ToRecover(disk) : Good(disk, i)
  BY <1>4 DEF Unfinished, Corrupted, Good
<1>6. \A i \in ToRecover(disk) : /\ disk.entries[i].error # "Skipped_DRM"
                                 /\ i \in Unfinished(disk) \/ usb[SlotOf(disk, i)] # "intact"
  BY <1>3, <1>4 DEF Unfinished, Corrupted, CompletedHasNoError
<1>7. ProgressInv'
  BY <1>1, <1>5, <1>6 DEF ProgressInv, Good, Unfinished, SlotOf, Indices
<1> QED
  BY <1>2, <1>7 DEF RInv, RecoveredIsIntact

LEMMA RemoveOldRInv ==
    ASSUME IInv, RInv, RemoveOld
    PROVE  RInv'
<1>1. CASE Stop("error")
  BY <1>1, StopRInv DEF RemoveOld
<1>2. CASE pc' = "recopy" /\ UNCHANGED <<planner, active, mem, todo, failures, outcome>>
  <2>1. Current \in todo /\ todo \in SUBSET Indices(mem) /\ CurrentSlot \in Slots
    BY CurrentFile DEF RemoveOld, IInv, TypeOK
  <2>2. /\ Indices(mem)' = Indices(mem) /\ UNCHANGED <<disk, mem, source, todo, failures>>
        /\ pc = "recover" /\ pc' = "recopy" /\ outcome' = outcome
    BY <1>2 DEF RemoveOld, Indices
  <2>3. PICK c \in {"absent", "torn"} : usb' = [usb EXCEPT ![CurrentSlot] = c]
    BY DEF RemoveOld
  <2>4. /\ usb'[CurrentSlot] # "intact"
        /\ \A s \in Slots \ {CurrentSlot} : usb'[s] = usb[s]
    BY <2>1, <2>3 DEF IInv, TypeOK
  <2>5. \A i \in Indices(mem) : /\ SlotOf(mem, i) \in Slots
                                /\ i # Current => SlotOf(mem, i) # CurrentSlot
    <3>1. \A i \in Indices(mem) : VolumeOf(i) \in Volumes /\ mem.entries[i].name \in Names
      BY Lengths DEF IInv, EntriesInv, InsideVolumes, Entry
    <3> QED
      BY <2>1, <3>1, DistinctSlots DEF SlotOf, Slots, CurrentSlot, RInv, NamesInv
  <2>6. NamesInv'
    BY <2>2 DEF RInv, NamesInv, DistinctEntries, CompletedHasNoError, Indices
  <2>7. ProgressInv'
    <3>1. ASSUME ~failures, NEW i \in Indices(mem) \ todo
          PROVE  Good(mem, i)'
      <4>1. Good(mem, i) /\ usb'[SlotOf(mem, i)] = usb[SlotOf(mem, i)]
        BY <2>1, <2>2, <2>4, <2>5, <3>1 DEF RInv, ProgressInv
      <4> QED
        BY <2>2, <4>1 DEF Good, SlotOf
    <3>2. ASSUME NEW i \in todo
          PROVE  /\ mem.entries[i].error # "Skipped_DRM"
                 /\ i \in Unfinished(mem) \/ usb'[SlotOf(mem, i)] # "intact"
      <4>1. /\ mem.entries[i].error # "Skipped_DRM"
            /\ i \in Unfinished(mem) \/ usb[SlotOf(mem, i)] # "intact"
        BY <2>2 DEF RInv, ProgressInv
      <4>2. usb'[SlotOf(mem, i)] \in {usb[SlotOf(mem, i)], usb'[CurrentSlot]}
        BY <2>1, <2>4, <2>5
      <4> QED
        BY <2>4, <4>1, <4>2
    <3> QED
      BY <2>2, <3>1, <3>2 DEF ProgressInv, Unfinished, Indices, SlotOf
  <2> QED
    BY <2>2, <2>6, <2>7 DEF RInv, RecoveredIsIntact, IInv, ReportInv
<1> QED
  BY <1>1, <1>2 DEF RemoveOld

LEMMA RecopyRInv ==
    ASSUME IInv, RInv, RecopyOk \/ RecopyFails
    PROVE  RInv'
<1> USE DEF RecopyOk, RecopyFails, mark_file_completed, mark_file_failed
<1>1. /\ pc = "recopy" /\ pc' = "recover" /\ disk' = mem' /\ todo' = todo \ {Current}
      /\ outcome' = outcome
  OBVIOUS
<1>2. todo # {} /\ mem \in Checkpoint /\ todo \in SUBSET Indices(mem)
  BY <1>1 DEF IInv, ReportInv, TypeOK
<1>3. Current \in Indices(mem) /\ Current \in todo /\ CurrentSlot \in Slots
  BY <1>2, CurrentFile
<1>4. PICK st \in {"Completed", "Failed"}, er \in {"none", "failure"} :
         /\ mem' = Mark(mem, Current, st, er)
         /\ st = "Completed" => er = "none"
         /\ st = "Completed" => failures' = failures /\ usb' = [usb EXCEPT ![CurrentSlot] = "intact"]
         /\ st = "Failed" => failures' = TRUE /\ usb' = usb
  <2>1. CASE RecopyOk
    <3> WITNESS "Completed" \in {"Completed", "Failed"}
    <3> WITNESS "none" \in {"none", "failure"}
    <3> QED
      BY <2>1
  <2>2. CASE RecopyFails
    <3> WITNESS "Failed" \in {"Completed", "Failed"}
    <3> WITNESS "failure" \in {"none", "failure"}
    <3> QED
      BY <2>2
  <2> QED
    BY <2>1, <2>2
<1>5. /\ Indices(mem') = Indices(mem)
      /\ \A j \in Indices(mem) : mem'.entries[j].name = mem.entries[j].name
      /\ \A j \in Indices(mem) \ {Current} : mem'.entries[j] = mem.entries[j]
      /\ mem'.entries[Current].status = st
      /\ mem'.entries[Current].error = er
      /\ DistinctEntries(mem') /\ CompletedHasNoError(mem')
  BY <1>2, <1>3, <1>4, MarkedNames DEF RInv, NamesInv
<1>6. NamesInv'
  BY <1>1, <1>5 DEF NamesInv, DistinctEntries, CompletedHasNoError, Indices
<1>7. \A i \in Indices(mem) : /\ SlotOf(mem', i) = SlotOf(mem, i)
                              /\ SlotOf(mem, i) \in Slots
                              /\ i # Current => SlotOf(mem, i) # CurrentSlot
  <2>1. \A i \in Indices(mem) : VolumeOf(i) \in Volumes /\ mem.entries[i].name \in Names
    BY Lengths DEF IInv, EntriesInv, InsideVolumes, Entry
  <2> QED
    BY <1>3, <1>5, <2>1, DistinctSlots DEF SlotOf, Slots, CurrentSlot, RInv, NamesInv
<1>8. \A i \in Indices(mem) \ {Current} : usb'[SlotOf(mem, i)] = usb[SlotOf(mem, i)]
  BY <1>3, <1>4, <1>7 DEF IInv, TypeOK
<1>9. ProgressInv'
  <2>1. ASSUME ~failures', NEW i \in Indices(mem) \ todo'
        PROVE  Good(mem, i)'
    <3>1. CASE i = Current
      <4>1. st = "Completed" /\ usb'[CurrentSlot] = "intact" /\ CurrentSlot = SlotOf(mem, i)
        BY <1>3, <1>4, <2>1, <3>1 DEF IInv, TypeOK, CurrentSlot
      <4> QED
        BY <1>5, <1>7, <3>1, <4>1 DEF Good, SlotOf
    <3>2. CASE i # Current
      <4>1. ~failures /\ i \in Indices(mem) \ todo
        BY <1>1, <1>4, <2>1, <3>2
      <4>2. Good(mem, i)
        BY <1>1, <4>1 DEF RInv, ProgressInv
      <4> QED
        BY <1>5, <1>7, <1>8, <3>2, <4>2 DEF Good, SlotOf
    <3> QED
      BY <3>1, <3>2
  <2>2. ASSUME NEW i \in todo'
        PROVE  /\ mem'.entries[i].error # "Skipped_DRM"
               /\ i \in Unfinished(mem)' \/ usb'[SlotOf(mem', i)] # "intact"
    <3>1. i \in todo /\ i # Current /\ i \in Indices(mem)
      BY <1>1, <1>2, <2>2
    <3>2. /\ mem.entries[i].error # "Skipped_DRM"
          /\ i \in Unfinished(mem) \/ usb[SlotOf(mem, i)] # "intact"
      BY <1>1, <3>1 DEF RInv, ProgressInv
    <3> QED
      BY <1>5, <1>7, <1>8, <3>1, <3>2 DEF Unfinished, Indices
  <2> QED
    BY <1>1, <1>5, <2>1, <2>2 DEF ProgressInv, Indices, SlotOf
<1> QED
  BY <1>1, <1>6, <1>9 DEF RInv, RecoveredIsIntact, IInv, ReportInv

LEMMA FinishRecoveryRInv ==
    ASSUME IInv, RInv, FinishRecovery
    PROVE  RInv'
<1> USE DEF FinishRecovery
<1>1. CASE failures
  BY <1>1, StopRInv
<1>2. CASE ~failures
  <2>1. todo = {} /\ pc = "recover" /\ disk = mem /\ disk' = disk
    BY DEF IInv, LagInv
  <2>2. \A i \in Indices(disk) : Good(disk, i)
    BY <1>2, <2>1 DEF RInv, ProgressInv
  <2>3. \A i \in Indices(disk) : SlotOf(disk, i) \in Slots
    <3>1. \A i \in Indices(disk) : VolumeOf(i) \in Volumes /\ disk.entries[i].name \in Names
      BY Lengths DEF IInv, EntriesInv, InsideVolumes, Entry
    <3> QED
      BY <3>1 DEF SlotOf, Slots
  <2>4. \A s \in Slots : usb[s] = "intact" => usb'[s] = "intact"
    BY DEF Orphans
  <2>5. RecoveredIsIntact'
    BY <2>1, <2>2, <2>3, <2>4 DEF RecoveredIsIntact, Good, Indices, SlotOf
  <2>6. NamesInv'
    <3>1. Indices(mem') = {} /\ pc' = "idle"
      BY NothingRecorded DEF Stop
    <3> QED
      BY <2>1, <3>1 DEF RInv, NamesInv, DistinctEntries, CompletedHasNoError, Indices
  <2> QED
    BY <2>5, <2>6 DEF RInv, ProgressInv, Stop
<1> QED
  BY <1>1, <1>2

LEMMA NextRInv ==
    ASSUME DistinctTracks, IInv, RInv, [Next]_vars
    PROVE  RInv'
<1>1. CASE QaFail \/ KeepMounted \/ SafeEject \/ Abort \/ PowerLoss
  <2>1. PICK report \in {"error", "lost", "finalized", "ejected"} : Stop(report)
    BY <1>1 DEF QaFail, KeepMounted, SafeEject, Abort, PowerLoss
  <2>2. disk' = disk
    BY <1>1 DEF QaFail, KeepMounted, SafeEject, Abort, PowerLoss
  <2> QED
    BY <2>1, <2>2, StopRInv
<1>2. CASE Session /\ ~(QaFail \/ KeepMounted \/ SafeEject)
  BY <1>2, QuietRInv, LogRInv, EncodeRInv DEF Session
<1>3. CASE Recovery
  BY <1>3, RemoveOldRInv, RecopyRInv, FinishRecoveryRInv DEF Recovery
<1>4. CASE StartProvision \/ ResumeNothing \/ StartResume \/ WriteBack \/ EditSource
  BY <1>4, StartProvisionRInv, QuietRInv, StartResumeRInv, StillRInv
<1>5. CASE UNCHANGED vars
  BY <1>5, StillRInv
<1> QED
  BY <1>1, <1>2, <1>3, <1>4, <1>5 DEF Next, Program

-----------------------------------------------------------------------------
(***************************************************************************)
(* A resume that reports success leaves every entry of the checkpoint      *)
(* skipped for DRM or intact on the stick, if no two tracks of a source    *)
(* have the same name (recovery.rs: execute_recovery).                     *)
(***************************************************************************)
THEOREM RecoveredSafe == DistinctTracks => (Spec => []RecoveredIsIntact)
<1> SUFFICES ASSUME DistinctTracks
             PROVE  Spec => []RecoveredIsIntact
  OBVIOUS
<1>1. RInv => RecoveredIsIntact
  BY DEF RInv
<1>2. IInv /\ RInv /\ [Next]_vars => RInv'
  BY NextRInv
<1> QED
  BY <1>1, <1>2, InitRInv, Invariance, PTL DEF Spec

\* What a step of the program may do to the stick and to a DRM entry.
LEMMA StepTouchesOnlyDamage ==
    ASSUME IInv, RInv, [Next]_vars, NEW s \in Slots,
           pc \in {"recover", "recopy"}, outcome' # "lost",
           usb[s] = "intact", usb'[s] # "intact"
    PROVE  \E i \in Unfinished(mem) : s = SlotOf(mem, i)
<1>1. RemoveOld
  <2>1. ~(RecopyOk \/ RecopyFails)
    <3>1. CASE RecopyOk
      BY <3>1 DEF RecopyOk, IInv, TypeOK
    <3> QED
      BY <3>1 DEF RecopyFails
  <2>2. ~FinishRecovery
    BY DEF FinishRecovery, Orphans
  <2>3. ~Session /\ ~Abort
    BY DEF Session, EnterVolume, RejectFile, BeginEncode, EncodeOk, EncodeFails, FinishLoop,
           QaPass, QaFail, Finalize, KeepMounted, SafeEject, Abort
  <2>4. ~PowerLoss
    BY DEF PowerLoss, Stop, IInv, ReportInv
  <2>5. ~(StartProvision \/ ResumeNothing \/ StartResume \/ WriteBack \/ EditSource)
    BY DEF StartProvision, ResumeNothing, StartResume, WriteBack, EditSource
  <2> QED
    BY <2>1, <2>2, <2>3, <2>4, <2>5 DEF Next, Program, Recovery, vars
<1>2. s = CurrentSlot
  BY <1>1 DEF RemoveOld, IInv, TypeOK
<1>3. Current \in todo
  BY <1>1, CurrentFile DEF RemoveOld
<1>4. Current \in Unfinished(mem)
  BY <1>2, <1>3 DEF RInv, ProgressInv, CurrentSlot
<1> QED
  BY <1>2, <1>4 DEF CurrentSlot

(***************************************************************************)
(* A recovery removes a good file only where an unfinished entry has to be *)
(* written (recovery.rs: indices_to_recover), if the names of a source are *)
(* distinct.                                                               *)
(***************************************************************************)
THEOREM RecoverySelective == DistinctTracks => (Spec => RecoveryTouchesOnlyDamage)
<1> SUFFICES ASSUME DistinctTracks
             PROVE  Spec => RecoveryTouchesOnlyDamage
  OBVIOUS
<1>1. ASSUME IInv, RInv, [Next]_vars
      PROVE  [\A s \in Slots :
                (/\ pc \in {"recover", "recopy"}
                 /\ outcome' # "lost"
                 /\ usb[s] = "intact"
                 /\ usb'[s] # "intact")
                => (\E i \in Unfinished(mem) : s = SlotOf(mem, i))]_vars
  BY <1>1, StepTouchesOnlyDamage
<1>2. IInv /\ RInv /\ [Next]_vars => RInv'
  BY NextRInv
<1> QED
  BY <1>1, <1>2, InitRInv, Invariance, PTL DEF Spec, RecoveryTouchesOnlyDamage

LEMMA StepKeepsDrm ==
    ASSUME IInv, RInv, [Next]_vars, NEW i \in Indices(disk),
           pc \in {"recover", "recopy"}, disk.entries[i].error = "Skipped_DRM"
    PROVE  disk'.entries[i] = disk.entries[i]
<1>1. CASE RecopyOk \/ RecopyFails
  <2> USE <1>1 DEF RecopyOk, RecopyFails, mark_file_completed, mark_file_failed
  <2>1. disk = mem /\ disk' = mem' /\ mem \in Checkpoint
    BY DEF IInv, LagInv, TypeOK
  <2>2. Current \in todo /\ Current \in Indices(mem)
    BY CurrentFile DEF IInv, ReportInv
  <2>3. i # Current
    BY <2>1, <2>2 DEF RInv, ProgressInv
  <2>4. PICK st \in {"InProgress", "Completed", "Failed"}, er \in {"none", "Skipped_DRM", "failure"} :
           mem' = Mark(mem, Current, st, er)
    OBVIOUS
  <2>5. \A j \in Indices(mem) \ {Current} : mem'.entries[j] = mem.entries[j]
    BY <2>1, <2>2, <2>4, MarkEntry
  <2> QED
    BY <2>1, <2>3, <2>5
<1>2. CASE ~(RecopyOk \/ RecopyFails)
  <2>1. CASE Recovery
    BY <1>2, <2>1 DEF Recovery, RemoveOld, FinishRecovery
  <2>2. ~Session
    BY DEF Session, EnterVolume, RejectFile, BeginEncode, EncodeOk, EncodeFails, FinishLoop,
           QaPass, QaFail, Finalize, KeepMounted, SafeEject
  <2>3. CASE ~Recovery
    BY <2>2, <2>3 DEF Next, Program, StartProvision, ResumeNothing, StartResume, Abort,
                      PowerLoss, WriteBack, EditSource, vars
  <2> QED
    BY <2>1, <2>3
<1> QED
  BY <1>1, <1>2

(***************************************************************************)
(* A recovery leaves the entries skipped for DRM alone (recovery.rs: the   *)
(* filter on Skipped_DRM), if the names of a source are distinct.          *)
(***************************************************************************)
THEOREM DrmKept == DistinctTracks => (Spec => DrmStaysSkipped)
<1> SUFFICES ASSUME DistinctTracks
             PROVE  Spec => DrmStaysSkipped
  OBVIOUS
<1>1. ASSUME IInv, RInv, [Next]_vars
      PROVE  [\A i \in Indices(disk) :
                (pc \in {"recover", "recopy"} /\ disk.entries[i].error = "Skipped_DRM")
                => (disk'.entries[i] = disk.entries[i])]_vars
  BY <1>1, StepKeepsDrm
<1>2. IInv /\ RInv /\ [Next]_vars => RInv'
  BY NextRInv
<1> QED
  BY <1>1, <1>2, InitRInv, Invariance, PTL DEF Spec, DrmStaysSkipped

-----------------------------------------------------------------------------
(***************************************************************************)
(* Progress.                                                               *)
(***************************************************************************)
Left == mem.total - Last

LEMMA LoopLeft ==
    /\ pc = "loop" => StepsLeft \in {3 * Left + 4, 3 * Left + 5}
    /\ pc' = "loop" => StepsLeft' \in {3 * Left' + 4, 3 * Left' + 5}
    /\ pc = "loop" /\ Pending /\ Planned.volume # active => StepsLeft = 3 * Left + 5
    /\ pc' = "loop" /\ ~(Pending' /\ Planned'.volume # active') => StepsLeft' = 3 * Left' + 4
<1>1. pc = "loop" =>
          StepsLeft = 3 * Left + (IF Pending /\ Planned.volume # active THEN 5 ELSE 4)
    BY DEF StepsLeft, Left
<1>2. pc' = "loop" =>
          StepsLeft' = 3 * Left' + (IF Pending' /\ Planned'.volume # active' THEN 5 ELSE 4)
    BY DEF StepsLeft, Left
<1> QED
    BY <1>1, <1>2

LEMMA WorkCount ==
    ASSUME IInv
    PROVE  /\ IsFiniteSet(todo) /\ Cardinality(todo) \in Nat
           /\ \A i \in todo : Cardinality(todo \ {i}) = Cardinality(todo) - 1
<1>1. todo \in SUBSET (1..Len(mem.entries)) /\ Len(mem.entries) \in Nat
    BY Lengths DEF IInv, TypeOK, Indices
<1>2. IsFiniteSet(1..Len(mem.entries))
    BY <1>1, FS_Interval
<1>3. IsFiniteSet(todo)
    BY <1>1, <1>2, FS_Subset
<1> QED
    BY <1>3, FS_CardinalityType, FS_RemoveElement

\* The loop: one more file in the log, or one more step with the same files.
LEMMA LoopProgress ==
    ASSUME IInv, EnterVolume \/ RejectFile \/ BeginEncode \/ FinishLoop
    PROVE  StepsLeft' \in 0..StepsLeft - 1
<1>1. pc = "loop" /\ Last \in Nat /\ mem.total \in Nat /\ Left \in Nat
    BY Lengths DEF EnterVolume, RejectFile, BeginEncode, FinishLoop, IInv, LoopInv, Left
<1>2. CASE EnterVolume
  <2>1. /\ pc' = "loop" /\ mem' = mem /\ planner' = planner
        /\ active' = Planned.volume /\ Pending /\ Planned.volume # active
      BY <1>2 DEF EnterVolume
  <2>2. Left' = Left /\ Planned' = Planned
      BY <2>1 DEF Left, Last, Planned
  <2>3. StepsLeft = 3 * Left + 5 /\ StepsLeft' = 3 * Left + 4
      BY <1>1, <2>1, <2>2, LoopLeft
  <2> QED
      BY <1>1, <2>3
<1>3. CASE RejectFile \/ BeginEncode
  <2>1. /\ Pending /\ \E e \in Entry : mem' = Record(mem, e)
        /\ RejectFile => pc' = "loop"
        /\ BeginEncode => pc' = "encode"
    <3>1. NextName \in Names /\ Pending
        BY <1>1, <1>3, NextFile DEF RejectFile, BeginEncode
    <3> QED
        BY <1>3, <3>1 DEF RejectFile, BeginEncode, LogFile, Entry
  <2>2. mem \in Checkpoint
      BY DEF IInv, TypeOK
  <2>3. Last' = Last + 1 /\ mem'.total = mem.total
      BY <2>1, <2>2, RecordEntry DEF Last
  <2>4. Left' = Left - 1 /\ Left >= 1
      BY <1>1, <2>1, <2>3 DEF Left, Pending, Last
  <2>5. CASE pc' = "loop"
      BY <1>1, <2>4, <2>5, LoopLeft
  <2>6. CASE pc' = "encode"
    <3>1. StepsLeft' = 3 * Left' + 6
        BY <2>6 DEF StepsLeft, Left
    <3> QED
        BY <1>1, <2>4, <3>1, LoopLeft
  <2> QED
      BY <1>3, <2>1, <2>5, <2>6
<1>4. CASE FinishLoop
  <2>1. StepsLeft' = 3
      BY <1>4 DEF FinishLoop, StepsLeft
  <2> QED
      BY <1>1, <2>1, LoopLeft
<1> QED
    BY <1>2, <1>3, <1>4

LEMMA EncodeProgress ==
    ASSUME IInv, EncodeOk \/ EncodeFails
    PROVE  StepsLeft' \in 0..StepsLeft - 1
<1>1. pc = "encode" /\ pc' = "loop" /\ Last \in Nat /\ Left \in Nat
    BY Lengths DEF EncodeOk, EncodeFails, IInv, LoopInv, Left
<1>2. /\ mem \in Checkpoint /\ Last \in Indices(mem)
      /\ \/ mem' = Mark(mem, Last, "Completed", "none")
         \/ mem' = Mark(mem, Last, "Failed", "failure")
    BY <1>1, EncodedFile DEF EncodeOk, EncodeFails, mark_file_completed, mark_file_failed,
       IInv, TypeOK
<1>3. Last' = Last /\ mem'.total = mem.total
    BY <1>2, MarkEntry DEF Last
<1>4. Left' = Left /\ StepsLeft = 3 * Left + 6
    BY <1>1, <1>3 DEF Left, StepsLeft
<1> QED
    BY <1>1, <1>4, LoopLeft

\* The recovery: a file of the work list is removed, then written or given up.
LEMMA RecoveryProgress ==
    ASSUME IInv, RemoveOld \/ RecopyOk \/ RecopyFails
    PROVE  StepsLeft' \in 0..StepsLeft - 1
<1>1. /\ Cardinality(todo) \in Nat /\ IsFiniteSet(todo)
      /\ \A i \in todo : Cardinality(todo \ {i}) = Cardinality(todo) - 1
    BY WorkCount
<1>2. CASE RemoveOld
  <2>1. /\ pc = "recover"
        /\ \/ pc' = "recopy" /\ todo' = todo
           \/ pc' = "idle"
        /\ Cardinality(todo) # 0
      BY <1>1, <1>2, FS_EmptySet DEF RemoveOld, Stop
  <2>2. /\ StepsLeft = 2 * Cardinality(todo) + 1
        /\ pc' = "recopy" => StepsLeft' = 2 * Cardinality(todo)
        /\ pc' = "idle" => StepsLeft' = 0
      BY <2>1 DEF StepsLeft
  <2> QED
      BY <1>1, <2>1, <2>2
<1>3. CASE RecopyOk \/ RecopyFails
  <2>1. /\ pc = "recopy" /\ pc' = "recover" /\ Current \in todo
        /\ todo' = todo \ {Current}
      BY <1>3, CurrentFile DEF RecopyOk, RecopyFails, IInv, ReportInv
  <2>2. /\ Cardinality(todo') = Cardinality(todo) - 1
        /\ Cardinality(todo') \in Nat
      BY <1>1, <2>1, FS_Subset, FS_CardinalityType
  <2>3. /\ StepsLeft = 2 * Cardinality(todo)
        /\ StepsLeft' = 2 * Cardinality(todo') + 1
      BY <2>1 DEF StepsLeft
  <2> QED
      BY <1>1, <2>2, <2>3
<1> QED
    BY <1>2, <1>3

LEMMA StepProgress ==
    ASSUME IInv, [Next]_vars, pc # "idle"
    PROVE  StepsLeft' \in 0..StepsLeft - 1 \/ WriteBack \/ UNCHANGED vars
<1>1. CASE EnterVolume \/ RejectFile \/ BeginEncode \/ FinishLoop
    BY <1>1, LoopProgress
<1>2. CASE EncodeOk \/ EncodeFails
    BY <1>2, EncodeProgress
<1>3. CASE RemoveOld \/ RecopyOk \/ RecopyFails
    BY <1>3, RecoveryProgress
<1>4. CASE QaPass \/ Finalize
    BY <1>4 DEF QaPass, Finalize, StepsLeft
<1>5. CASE pc' = "idle"
  <2>1. StepsLeft' = 0
      BY <1>5 DEF StepsLeft
  <2>2. StepsLeft >= 1 /\ StepsLeft \in Nat
    <3>1. Cardinality(todo) \in Nat /\ (pc = "recopy" => Cardinality(todo) # 0)
        BY WorkCount, FS_EmptySet DEF IInv, ReportInv
    <3>2. CASE pc = "loop" \/ pc = "encode"
      <4>1. Left \in Nat
          BY <3>2, Lengths DEF IInv, LoopInv, Left
      <4>2. pc = "encode" => StepsLeft = 3 * Left + 6
          BY DEF StepsLeft, Left
      <4> QED
          BY <3>2, <4>1, <4>2, LoopLeft
    <3>3. CASE pc \in {"qa", "finalize", "eject"}
        BY <3>3 DEF StepsLeft
    <3>4. CASE pc = "recover" \/ pc = "recopy"
      <4>1. /\ pc = "recover" => StepsLeft = 2 * Cardinality(todo) + 1
            /\ pc = "recopy" => StepsLeft = 2 * Cardinality(todo)
          BY DEF StepsLeft
      <4> QED
          BY <3>1, <3>4, <4>1
    <3> QED
        BY <3>2, <3>3, <3>4 DEF IInv, TypeOK
  <2> QED
      BY <2>1, <2>2
<1>6. CASE QaFail \/ KeepMounted \/ SafeEject \/ FinishRecovery \/ Abort \/ PowerLoss
    BY <1>5, <1>6 DEF QaFail, KeepMounted, SafeEject, FinishRecovery, Abort, PowerLoss, Stop
<1>7. ~(StartProvision \/ ResumeNothing \/ StartResume \/ EditSource)
    BY DEF StartProvision, ResumeNothing, StartResume, EditSource
<1> QED
    BY <1>1, <1>2, <1>3, <1>4, <1>6, <1>7 DEF Next, Program, Session, Recovery

(***************************************************************************)
(* Every step of a provision or a resume, failed ones included, brings it  *)
(* nearer to its end: a bound in the natural numbers gets smaller, for any *)
(* source and any work list.                                               *)
(***************************************************************************)
THEOREM CommandsGoOn == Spec => CommandsProgress
<1>1. IInv /\ [Next]_vars
          => [pc # "idle" => StepsLeft' \in 0..StepsLeft - 1 \/ WriteBack]_vars
    BY StepProgress
<1> QED
    BY <1>1, Invariance, PTL DEF Spec, CommandsProgress
=============================================================================
