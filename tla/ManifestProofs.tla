---------------------------- MODULE ManifestProofs ----------------------------
(***************************************************************************)
(* Proofs about SyncManifest, for every value of its constants.            *)
(*                                                                         *)
(* Every step is one of SyncSession, or none, so that what SyncProofs says *)
(* of any number of syncs holds here too.  The manifest in memory has all  *)
(* that is in the file, and more: an entry is made after its file, and     *)
(* saved before the checkpoint that calls the file Completed.              *)
(***************************************************************************)
EXTENDS SyncManifest, SyncProofs

Looping == {"loop"} \cup Working

ManifestTypes ==
    /\ IsManifest(saved) /\ IsManifest(held)
    /\ pc \notin Looping => held = NoManifest

\* The file in work is not yet what it is called.
Backed(h) ==
    \/ \E p \in Places : HashAt(p) = h /\ (pc = "encode" => p # Target)
    \/ h[1] \in quarantine

BackedInv ==
    /\ \A h \in DOMAIN saved \cup DOMAIN held : Backed(h)
    /\ pc = "moved" => Kind[Track] = "clean"
    /\ pc = "encode" => Kind[Track] = "dirty"

Named(m, t) == \E h \in DOMAIN m : h[1] = t

LeadInv ==
    /\ \A i \in 1..Len(disk) : disk[i].status = "Completed" => Named(saved, disk[i].of)
    /\ pc \in Looping =>
          /\ \A i \in 1..Len(mem) : mem[i].status = "Completed" => Named(held, mem[i].of)
          /\ DOMAIN saved \subseteq DOMAIN held

-----------------------------------------------------------------------------
(***************************************************************************)
(* The session underneath.                                                 *)
(***************************************************************************)
LEMMA SessionStep == [ManifestNext]_allVars => [Next]_vars
<1>1. ManifestNext => [Next]_vars \/ FailEncode \/ Killed \/ KilledBetweenSaves
    BY DEF ManifestNext, Elsewhere, LoadManifest, RegisterMove, StartEncode,
           RegisterEncoded, SaveAtBoundary, SaveAtEnd, StrictSync, StrictRefuse,
           Next, Undisturbed, Move
<1>2. FailEncode \/ Killed \/ KilledBetweenSaves => Next
    BY DEF FailEncode, Killed, KilledBetweenSaves, Next
<1>3. UNCHANGED allVars => UNCHANGED vars
    BY DEF allVars
<1> QED
    BY <1>1, <1>2, <1>3

(***************************************************************************)
(* A sync with its manifest is a sync: all that is proved of SyncSession   *)
(* holds of it.                                                            *)
(***************************************************************************)
THEOREM ManifestIsASync == ManifestSpec => Spec
<1>1. ManifestInit => Init
    BY DEF ManifestInit
<1> QED
    BY <1>1, SessionStep, PTL DEF ManifestSpec, Spec

-----------------------------------------------------------------------------
(***************************************************************************)
(* Manifests.                                                              *)
(***************************************************************************)
LEMMA EmptyManifest == IsManifest(NoManifest) /\ DOMAIN NoManifest = {}
<1>1. DOMAIN NoManifest = {}
    BY DEF NoManifest
<1>2. NoManifest = [h \in DOMAIN NoManifest |-> NoManifest[h]]
    BY DEF NoManifest
<1> QED
    BY <1>1, <1>2 DEF IsManifest

LEMMA RegisteredFacts ==
    ASSUME SInv, IsManifest(held), pc \in Working, NEW h \in Hashes
    PROVE  /\ IsManifest(Registered(h))
           /\ DOMAIN Registered(h) = DOMAIN held \cup {h}
<1>1. Target \in Places
    BY InWork, TargetFacts DEF Working
<1> QED
    BY <1>1 DEF IsManifest, Registered

LEMMA PresentHashes ==
    ASSUME TypeOK, NEW p \in Present
    PROVE  p \in Places /\ HashAt(p) \in Hashes
BY DEF TypeOK, Present, Content, HashAt, Hashes

LEMMA RebuiltFacts ==
    ASSUME TypeOK
    PROVE  /\ IsManifest(Rebuilt)
           /\ DOMAIN Rebuilt = {HashAt(p) : p \in InVolumes}
<1>1. InVolumes \subseteq Present
    BY DEF InVolumes
<1>2. DOMAIN Rebuilt = {HashAt(p) : p \in InVolumes}
    BY DEF Rebuilt
<1>3. ASSUME NEW h \in DOMAIN Rebuilt
      PROVE  h \in Hashes /\ Rebuilt[h] \in Places
  <2>1. PICK p \in InVolumes : HashAt(p) = h
      BY <1>2
  <2>2. Rebuilt[h] = CHOOSE q \in InVolumes : HashAt(q) = h
      BY DEF Rebuilt
  <2>3. (CHOOSE q \in InVolumes : HashAt(q) = h) \in InVolumes
      BY <2>1
  <2> QED
      BY <1>1, <2>1, <2>2, <2>3, PresentHashes
<1>4. Rebuilt = [h \in DOMAIN Rebuilt |-> Rebuilt[h]]
    BY DEF Rebuilt
<1> QED
    BY <1>2, <1>3, <1>4 DEF IsManifest

LEMMA BaselineFacts ==
    ASSUME TypeOK, IsManifest(saved)
    PROVE  /\ IsManifest(Baseline)
           /\ \/ Baseline = saved
              \/ saved = NoManifest /\ Baseline = Rebuilt
BY RebuiltFacts DEF Baseline

\* What a step makes of the two manifests.
LEMMA ManifestSteps ==
    ASSUME [ManifestNext]_allVars
    PROVE  \/ saved' = saved /\ held' = held
           \/ pc = "plan" /\ pc' = "loop" /\ saved' = saved /\ held' = saved
           \/ RegisterMove
           \/ RegisterEncoded
           \/ SaveAtBoundary
           \/ SaveAtEnd
           \/ pc = "idle" /\ pc' # "encode" /\ files' = files /\ disk' = disk
              /\ saved' = Baseline /\ held' = held
           \/ pc # "idle" /\ pc' = "idle" /\ disk' = disk /\ saved' = saved
              /\ held' = NoManifest
           \/ KilledBetweenSaves
BY DEF ManifestNext, Elsewhere, LoadManifest, StartLoop,
       StartEncode, StrictSync, NoChange, StartSync, StrictRefuse, FailEncode, Killed,
       Abort, Stop, allVars, manifestVars, vars, stickVars

-----------------------------------------------------------------------------
LEMMA TypesStep ==
    ASSUME SInv, ManifestTypes, [ManifestNext]_allVars
    PROVE  ManifestTypes'
<1>1. \/ <<Track, "raw">> \in Hashes /\ <<Track, "mp3">> \in Hashes
      \/ ~(RegisterMove \/ RegisterEncoded)
  <2>1. RegisterMove \/ RegisterEncoded => pc \in Working
      BY DEF RegisterMove, RegisterEncoded, CommitMove, EncodeOk, Working
  <2>2. pc \in Working => Track \in Tracks
      BY InWork, TargetFacts DEF Working
  <2> QED
      BY <2>1, <2>2 DEF Hashes
<1>2. IsManifest(saved')
    BY BaselineFacts, ManifestSteps
       DEF SInv, ManifestTypes, RegisterMove, RegisterEncoded, SaveAtBoundary,
           SaveAtEnd, KilledBetweenSaves
<1>3. CASE RegisterMove \/ RegisterEncoded
  <2>1. /\ pc \in Working /\ pc' = "loop"
        /\ held' = Registered(<<Track, "raw">>) \/ held' = Registered(<<Track, "mp3">>)
      BY <1>3 DEF RegisterMove, RegisterEncoded, CommitMove, EncodeOk, Working
  <2>2. IsManifest(held')
      BY <1>1, <1>3, <2>1, RegisteredFacts DEF ManifestTypes
  <2> QED
      BY <1>2, <2>1, <2>2 DEF ManifestTypes, Looping
<1>4. CASE ~(RegisterMove \/ RegisterEncoded)
  <2>1. held' \in {held, saved, NoManifest}
      BY <1>4, ManifestSteps DEF SaveAtBoundary, SaveAtEnd, KilledBetweenSaves
  <2>2. IsManifest(held')
      BY <2>1, EmptyManifest DEF ManifestTypes
  <2>3. ASSUME pc' \notin Looping PROVE held' = NoManifest
    <3>1. pc \notin Looping \/ SaveAtEnd \/ Killed \/ KilledBetweenSaves
        BY <2>3, <1>4
           DEF ManifestNext, Elsewhere, LoadManifest,
               RegisterMove, StartEncode, RegisterEncoded, SaveAtBoundary, StrictSync,
               StrictRefuse, FailEncode, allVars, vars, stickVars, Looping, Working,
               NoChange, StartSync, SandboxEntry, BackupTracks, IsolateFile,
               OnlyIsolated, OpenSession, PlanFile, StartLoop, EnterVolume, BeginMove,
               RenameMove, RejectFile, BeginEncode, EncodeFails,
               QaPass, QaFail, ClearJournal, EditSource, UserCopies
    <3>2. CASE SaveAtEnd \/ Killed \/ KilledBetweenSaves
        BY <3>2 DEF SaveAtEnd, Killed, KilledBetweenSaves
    <3>3. CASE pc \notin Looping
      <4>1. held = NoManifest
          BY <3>3 DEF ManifestTypes
      <4>2. held' = held \/ held' = NoManifest
          BY <2>3, <3>3, <1>4, ManifestSteps
             DEF SaveAtBoundary, SaveAtEnd, KilledBetweenSaves, EnterVolume, FinishLoop,
                 Looping, Working
      <4> QED
          BY <4>1, <4>2
    <3> QED
        BY <3>1, <3>2, <3>3
  <2> QED
      BY <1>2, <2>2, <2>3 DEF ManifestTypes
<1> QED
    BY <1>3, <1>4

-----------------------------------------------------------------------------
(***************************************************************************)
(* What a hash stands for stays on the stick, or is put away.              *)
(***************************************************************************)
StillBacked(h) ==
    \/ \E p \in Places : HashAt(p)' = h /\ (pc' = "encode" => p # Target')
    \/ h[1] \in quarantine'

LEMMA EncodeEntry ==
    ASSUME [ManifestNext]_allVars, pc' = "encode"
    PROVE  BeginEncode \/ UNCHANGED vars
BY DEF ManifestNext, Elsewhere, LoadManifest, RegisterMove,
       StartEncode, RegisterEncoded, SaveAtBoundary, SaveAtEnd, StrictSync,
       StrictRefuse, FailEncode, Killed, KilledBetweenSaves, allVars,
       NoChange, StartSync, SandboxEntry, BackupTracks, IsolateFile,
       OnlyIsolated, OpenSession, PlanFile, StartLoop, EnterVolume, BeginMove,
       RenameMove, CommitMove, RejectFile, EncodeOk, EncodeFails, FinishLoop,
       QaPass, QaFail, ClearJournal, Abort, EditSource, UserCopies, Stop

LEMMA SameTarget ==
    ASSUME k' = k, diff' = diff
    PROVE  Target' = Target /\ Track' = Track
BY DEF Target, Track, FolderOf

LEMMA HashKept ==
    ASSUME SInv, FreeInv, [ManifestNext]_allVars, NEW h \in Hashes, Backed(h)
    PROVE  StillBacked(h)
<1>1. [Next]_vars
    BY SessionStep
<1>2. CASE h[1] \in quarantine
    BY <1>1, <1>2, QuarantineGrows DEF StillBacked
<1>3. ASSUME NEW p \in Places, HashAt(p) = h, pc = "encode" => p # Target
      PROVE  StillBacked(h)
  <2>1. h[1] = files[p] /\ files[p] # Absent
      BY <1>3, TracksAssumption DEF HashAt, Hashes, Absent, Torn
  <2>2. CASE files'[p] = files[p]
    <3>1. HashAt(p)' = h
        BY <1>3, <2>2 DEF HashAt
    <3>2. ASSUME pc' = "encode" PROVE p # Target'
      <4>1. CASE BeginEncode
        <5>1. files[Target] = Absent
            BY <4>1, TargetFree DEF BeginEncode
        <5>2. Target' = Target
            BY <4>1, SameTarget DEF BeginEncode
        <5> QED
            BY <2>1, <5>1, <5>2
      <4>2. CASE UNCHANGED vars
        <5>1. Target' = Target /\ pc = "encode"
            BY <3>2, <4>2, SameTarget DEF vars
        <5> QED
            BY <1>3, <5>1
      <4> QED
          BY <3>2, <4>1, <4>2, EncodeEntry
    <3> QED
        BY <3>1, <3>2 DEF StillBacked
  <2>3. CASE files[p] \in quarantine'
      BY <2>1, <2>3 DEF StillBacked
  <2>4. CASE RenameMove /\ p = From
    <3>1. /\ Target \in Slots /\ Target \in Places /\ From \notin Slots
          /\ files[From] = Track /\ files'[Target] = Track
        BY <2>4, MoveFacts
    <3>2. Kind[Track] # "dirty" /\ pc' = "moved"
        BY <2>4 DEF SInv, MovesInv, RenameMove
    <3>3. h = <<Track, "raw">>
        BY <1>3, <2>4, <3>1 DEF HashAt
    <3>4. HashAt(Target)' = <<files'[Target'], IF Target' \in Slots /\ files'[Target'] \in {t \in Tracks : Kind[t] = "dirty"}
                THEN "mp3" ELSE "raw">>
        BY DEF HashAt
    <3>5. Target' = Target
        BY <2>4, SameTarget DEF RenameMove
    <3>6. HashAt(Target)' = h
        BY <3>1, <3>2, <3>3, <3>4, <3>5
    <3> QED
        BY <3>1, <3>2, <3>5, <3>6 DEF StillBacked, HashAt
  <2>5. CASE EncodeOk /\ p = Target
      BY <1>3, <2>5 DEF EncodeOk
  <2> QED
      BY <1>1, <2>1, <2>2, <2>3, <2>4, <2>5, FileKept
<1> QED
    BY <1>2, <1>3 DEF Backed

\* Every hash in a manifest was in one before, or has just got its file.
LEMMA NewEntries ==
    ASSUME SInv, ManifestTypes, [ManifestNext]_allVars,
           NEW h \in DOMAIN saved' \cup DOMAIN held'
    PROVE  \/ h \in DOMAIN saved \cup DOMAIN held
           \/ RegisterMove /\ h = <<Track, "raw">>
           \/ RegisterEncoded /\ h = <<Track, "mp3">>
           \/ /\ pc' # "encode" /\ files' = files
              /\ \E p \in Present : HashAt(p) = h
<1>1. CASE RegisterMove \/ RegisterEncoded
  <2>1. DOMAIN Registered(<<Track, "raw">>) = DOMAIN held \cup {<<Track, "raw">>}
      BY DEF Registered
  <2>2. DOMAIN Registered(<<Track, "mp3">>) = DOMAIN held \cup {<<Track, "mp3">>}
      BY DEF Registered
  <2> QED
      BY <1>1, <2>1, <2>2 DEF RegisterMove, RegisterEncoded
<1>2. CASE pc = "idle" /\ pc' # "encode" /\ files' = files /\ disk' = disk
           /\ saved' = Baseline /\ held' = held
  <2>1. Baseline = saved \/ Baseline = Rebuilt
      BY DEF Baseline
  <2>2. h \in DOMAIN Rebuilt => \E p \in InVolumes : HashAt(p) = h
      BY RebuiltFacts DEF SInv
  <2> QED
      BY <1>2, <2>1, <2>2 DEF InVolumes
<1>3. CASE ~(RegisterMove \/ RegisterEncoded)
           /\ saved' \in {saved, held} /\ held' \in {saved, held, NoManifest}
    BY <1>3, EmptyManifest
<1> QED
    BY <1>1, <1>2, <1>3, ManifestSteps DEF SaveAtBoundary, SaveAtEnd, KilledBetweenSaves

LEMMA BackedStep ==
    ASSUME SInv, FreeInv, ManifestTypes, BackedInv, [ManifestNext]_allVars
    PROVE  BackedInv'
<1>1. ASSUME NEW h \in DOMAIN saved' \cup DOMAIN held'
      PROVE  StillBacked(h)
  <2>1. CASE h \in DOMAIN saved \cup DOMAIN held
    <3>1. h \in Hashes /\ Backed(h)
        BY <2>1 DEF ManifestTypes, IsManifest, BackedInv
    <3> QED
        BY <3>1, HashKept
  <2>2. CASE RegisterMove /\ h = <<Track, "raw">>
    <3>1. /\ pc = "moved" /\ pc' = "loop" /\ files' = files /\ files[Target] = Track
        BY <2>2 DEF RegisterMove, CommitMove, stickVars
    <3>2. Target \in Places /\ Kind[Track] # "dirty"
        BY <3>1, InWork, TargetFacts DEF Working, BackedInv
    <3>3. \A p \in Places : files[p] = Track => HashAt(p)' = <<Track, "raw">>
        BY <3>1, <3>2 DEF HashAt
    <3> QED
        BY <2>2, <3>1, <3>2, <3>3 DEF StillBacked
  <2>3. CASE RegisterEncoded /\ h = <<Track, "mp3">>
    <3>1. /\ pc = "encode" /\ pc' = "loop" /\ files'[Target] = Track
          /\ Target \in Slots /\ Target \in Places
        BY <2>3, TargetWritten DEF RegisterEncoded, EncodeOk
    <3>2. Track \in Tracks /\ Kind[Track] = "dirty"
        BY <3>1, InWork, TargetFacts DEF Working, BackedInv
    <3>3. \A p \in Slots : files'[p] = Track => HashAt(p)' = <<Track, "mp3">>
        BY <3>2 DEF HashAt
    <3> QED
        BY <2>3, <3>1, <3>3 DEF StillBacked
  <2>4. CASE pc' # "encode" /\ files' = files /\ \E p \in Present : HashAt(p) = h
    <3>1. PICK p \in Places : HashAt(p) = h
        BY <2>4 DEF Present
    <3>2. HashAt(p)' = h
        BY <2>4, <3>1 DEF HashAt
    <3> QED
        BY <2>4, <3>2 DEF StillBacked
  <2> QED
      BY <2>1, <2>2, <2>3, <2>4, NewEntries
<1>2. pc' = "encode" => Kind[Track'] = "dirty"
  <2>1. CASE BeginEncode
      BY <2>1, SameTarget DEF BeginEncode
  <2>2. CASE UNCHANGED vars
      BY <2>2, SameTarget DEF vars, BackedInv
  <2> QED
      BY <2>1, <2>2, EncodeEntry
<1>3. pc' = "moved" => Kind[Track'] = "clean"
  <2>1. CASE RenameMove
      BY <2>1, SameTarget DEF RenameMove, SInv, MovesInv
  <2>2. CASE UNCHANGED vars
      BY <2>2, SameTarget DEF vars, BackedInv
  <2>3. pc' = "moved" => RenameMove \/ UNCHANGED vars
      BY SessionStep
         DEF Next, Undisturbed, Move, NoChange, StartSync, SandboxEntry, BackupTracks,
             IsolateFile, OnlyIsolated, OpenSession, PlanFile, StartLoop, EnterVolume,
             BeginMove, CommitMove, RejectFile, BeginEncode, EncodeOk, EncodeFails,
             FinishLoop, QaPass, QaFail, ClearJournal, Abort, EditSource, UserCopies,
             Stop
  <2> QED
      BY <2>1, <2>2, <2>3
<1> QED
    BY <1>1, <1>2, <1>3 DEF BackedInv, Backed, StillBacked

-----------------------------------------------------------------------------
(***************************************************************************)
(* The manifest before the checkpoint.                                     *)
(***************************************************************************)

\* The entries of mem that a step calls Completed, and their names.
LEMMA NewCompleted ==
    ASSUME SInv, EntryInv, [Next]_vars, pc' \in Looping,
           NEW i \in 1..Len(mem'), mem'[i].status = "Completed"
    PROVE  \/ /\ pc \in Looping /\ i \in 1..Len(mem) /\ mem[i].status = "Completed"
              /\ mem'[i].of = mem[i].of
           \/ (CommitMove \/ EncodeOk) /\ mem'[i].of = Track
<1>1. CASE pc \notin Looping
  <2>1. pc = "plan" /\ mem' = mem
      BY <1>1
         DEF Looping, Working, Next, Undisturbed, Move, vars, NoChange, StartSync,
             SandboxEntry, BackupTracks, IsolateFile, OnlyIsolated, OpenSession,
             PlanFile, StartLoop, EnterVolume, BeginMove, RenameMove, CommitMove,
             RejectFile, BeginEncode, EncodeOk, EncodeFails, FinishLoop, QaPass,
             QaFail, ClearJournal, Abort, EditSource, UserCopies, Stop
  <2>2. mem' = <<>>
      BY <2>1 DEF SInv, PlanInv
  <2> QED
      BY <2>2
<1>2. CASE pc \in Looping /\ mem' = mem
    BY <1>2
<1>3. CASE BeginMove \/ RejectFile \/ BeginEncode
  <2>1. /\ pc = "loop" /\ More
        /\ mem' = Recorded("InProgress") \/ mem' = Recorded("Failed")
      BY <1>3 DEF BeginMove, RejectFile, BeginEncode
  <2>2. PICK st \in {"InProgress", "Failed"} : mem' = Recorded(st)
      BY <2>1
  <2> DEFINE e == [idx |-> Target.idx, of |-> Track, status |-> st]
  <2>3. k \in Planned /\ k \in Nat /\ e \in Entry
      BY <2>1, InLoop, TargetFacts DEF Slots, Entry
  <2>4. mem \in Seq(Entry) /\ Len(mem) = k - 1 /\ mem' = Append(mem, e)
      BY <2>1, <2>2 DEF SInv, TypeOK, Recorded
  <2>5. e.status # "Completed"
      OBVIOUS
  <2> HIDE DEF e
  <2>6. Len(mem') = k /\ mem'[k] = e /\ \A j \in 1..k - 1 : mem'[j] = mem[j]
      BY <2>3, <2>4, AppendProperties
  <2>7. i # k /\ i \in 1..k - 1
      BY <2>3, <2>5, <2>6
  <2> QED
      BY <2>1, <2>4, <2>6, <2>7 DEF Looping
<1>4. CASE CommitMove \/ EncodeOk \/ EncodeFails
  <2>1. /\ pc \in Working
        /\ \/ (CommitMove \/ EncodeOk) /\ mem' = Marked("Completed")
           \/ mem' = Marked("Failed")
      BY <1>4 DEF CommitMove, EncodeOk, EncodeFails, Working
  <2>2. PICK st \in {"Completed", "Failed"} :
            mem' = Marked(st) /\ (st = "Completed" => CommitMove \/ EncodeOk)
      BY <2>1
  <2>3. k \in Planned /\ Target.of = Track
      BY <2>1, InWork, TargetFacts DEF Working
  <2>4. mem \in Seq(Entry) /\ Len(mem) = k /\ k \in 1..Len(mem)
      BY <2>1, <2>3, PlannedFacts DEF SInv, TypeOK, Working, Planned
  <2>5. mem[k].of = Track /\ mem[k] \in Entry
      BY <2>1, <2>3, <2>4, ElementOfSeq DEF EntryInv
  <2>6. /\ Len(mem') = Len(mem)
        /\ mem'[k] = [mem[k] EXCEPT !.status = st]
        /\ \A j \in 1..Len(mem) : j # k => mem'[j] = mem[j]
      BY <2>2, <2>4 DEF Marked
  <2>7. mem'[k].status = st /\ mem'[k].of = Track
      BY <2>5, <2>6 DEF Entry
  <2> QED
      BY <2>1, <2>2, <2>6, <2>7 DEF Looping
<1>5. mem' = mem \/ BeginMove \/ RejectFile \/ BeginEncode
      \/ CommitMove \/ EncodeOk \/ EncodeFails
    BY DEF Looping, Working, Next, Undisturbed, Move, vars, NoChange, StartSync,
           SandboxEntry, BackupTracks, IsolateFile, OnlyIsolated, OpenSession,
           PlanFile, StartLoop, EnterVolume, RenameMove, FinishLoop, QaPass,
           QaFail, ClearJournal, Abort, EditSource, UserCopies, Stop
<1> QED
    BY <1>1, <1>2, <1>3, <1>4, <1>5

LEMMA TwoEnds ==
    ASSUME SInv, pc \in Working
    PROVE  Marked("Completed") # Marked("Failed")
<1>1. k \in 1..Len(mem) /\ mem \in Seq(Entry)
    BY InWork, PlannedFacts DEF SInv, TypeOK, Working, Planned
<1>2. mem[k] \in Entry
    BY <1>1, ElementOfSeq
<1>3. Marked("Completed")[k] = [mem[k] EXCEPT !.status = "Completed"]
    BY <1>1 DEF Marked
<1>4. Marked("Failed")[k] = [mem[k] EXCEPT !.status = "Failed"]
    BY <1>1 DEF Marked
<1>5. [mem[k] EXCEPT !.status = "Completed"].status
          # [mem[k] EXCEPT !.status = "Failed"].status
    BY <1>2 DEF Entry
<1> QED
    BY <1>3, <1>4, <1>5

\* No file is done without its entry in the manifest.
LEMMA DoneSteps ==
    ASSUME SInv, [ManifestNext]_allVars, CommitMove \/ EncodeOk
    PROVE  RegisterMove \/ RegisterEncoded
<1>1. pc \in {"moved", "encode"} /\ pc' = "loop" /\ mem' = Marked("Completed")
    BY DEF CommitMove, EncodeOk
<1>2. ~FailEncode
    BY <1>1, TwoEnds DEF FailEncode, EncodeFails, Working
<1> QED
    BY <1>1, <1>2
       DEF ManifestNext, Elsewhere, LoadManifest, StartEncode,
           SaveAtBoundary, SaveAtEnd, StrictSync, StrictRefuse, Killed,
           KilledBetweenSaves, allVars, vars, NoChange, StartSync, SandboxEntry,
           BackupTracks, IsolateFile, OnlyIsolated, OpenSession, PlanFile, StartLoop,
           EnterVolume, BeginMove, RenameMove, RejectFile, BeginEncode, FinishLoop,
           QaPass, QaFail, ClearJournal, Abort, EditSource, UserCopies, Stop

LEMMA LeadStep ==
    ASSUME SInv, EntryInv, ManifestTypes, LeadInv, [ManifestNext]_allVars
    PROVE  LeadInv'
<1>1. [Next]_vars
    BY SessionStep
<1>2. pc \in Looping => \A t : Named(saved, t) => Named(held, t)
    BY DEF LeadInv, Named
<1>3. ASSUME NEW i \in 1..Len(disk'), disk'[i].status = "Completed"
      PROVE  Named(saved', disk'[i].of)
  <2>1. CASE SaveAtBoundary \/ SaveAtEnd \/ KilledBetweenSaves
    <3>1. /\ pc = "loop"
          /\ \/ disk' = disk /\ saved' = saved
             \/ disk' \in {disk, mem} /\ saved' = held
        BY <2>1 DEF SaveAtBoundary, SaveAtEnd, KilledBetweenSaves, AboutToSave,
                    EnterVolume, FinishLoop, Abort
    <3> QED
        BY <1>2, <1>3, <3>1 DEF LeadInv, Looping
  <2>2. CASE ~(SaveAtBoundary \/ SaveAtEnd \/ KilledBetweenSaves)
    <3>1. disk' = disk
        BY <2>2 DEF ManifestNext, Elsewhere, LoadManifest,
                    RegisterMove, StartEncode, RegisterEncoded, StrictSync,
                    StrictRefuse, FailEncode, Killed, allVars, vars,
                    NoChange, StartSync, SandboxEntry, BackupTracks,
                    IsolateFile, OnlyIsolated, OpenSession, PlanFile, StartLoop,
                    BeginMove, RenameMove, CommitMove, RejectFile, BeginEncode,
                    EncodeOk, EncodeFails, QaPass, QaFail, ClearJournal, Abort,
                    EditSource, UserCopies
    <3>2. saved' = saved \/ saved = NoManifest
        BY <2>2, ManifestSteps DEF Baseline, RegisterMove, RegisterEncoded
    <3>3. Named(saved, disk[i].of)
        BY <1>3, <3>1 DEF LeadInv
    <3>4. saved # NoManifest
        BY <3>3, EmptyManifest DEF Named
    <3> QED
        BY <3>1, <3>2, <3>3, <3>4
  <2> QED
      BY <2>1, <2>2
<1>4. ASSUME pc' \in Looping
      PROVE  /\ DOMAIN saved' \subseteq DOMAIN held'
             /\ pc \in Looping => DOMAIN held \subseteq DOMAIN held'
             /\ CommitMove \/ EncodeOk => Named(held', Track)
  <2>1. CASE pc = "plan" /\ pc' = "loop" /\ saved' = saved /\ held' = saved
      BY <2>1 DEF CommitMove, EncodeOk, Looping, Working
  <2>2. CASE RegisterMove \/ RegisterEncoded
    <3>1. PICK h \in {<<Track, "raw">>, <<Track, "mp3">>} :
              held' = Registered(h) /\ saved' = saved
        BY <2>2 DEF RegisterMove, RegisterEncoded
    <3>2. DOMAIN Registered(h) = DOMAIN held \cup {h} /\ h[1] = Track
        BY <3>1 DEF Registered
    <3>3. pc \in Looping
        BY <2>2 DEF RegisterMove, RegisterEncoded, CommitMove, EncodeOk, Looping, Working
    <3> QED
        BY <3>1, <3>2, <3>3 DEF LeadInv, Named
  <2>3. CASE ~(RegisterMove \/ RegisterEncoded) /\ ~(pc = "plan" /\ pc' = "loop")
    <3>1. pc \in Looping
        BY <1>1, <1>4, <2>3
           DEF Looping, Working, Next, Undisturbed, Move, vars, NoChange, StartSync,
               SandboxEntry, BackupTracks, IsolateFile, OnlyIsolated, OpenSession,
               PlanFile, StartLoop, EnterVolume, BeginMove, RenameMove, CommitMove,
               RejectFile, BeginEncode, EncodeOk, EncodeFails, FinishLoop, QaPass,
               QaFail, ClearJournal, Abort, EditSource, UserCopies, Stop
    <3>2. ~CommitMove /\ ~EncodeOk
        BY <2>3, DoneSteps
    <3>3. held' = held /\ saved' \in {saved, held}
        BY <1>4, <2>3, <3>1, ManifestSteps
           DEF SaveAtBoundary, SaveAtEnd, KilledBetweenSaves, FinishLoop, Abort, Stop,
               Looping, Working
    <3> QED
        BY <3>1, <3>2, <3>3 DEF LeadInv
  <2>4. ~(RegisterMove \/ RegisterEncoded) /\ pc = "plan" /\ pc' = "loop"
           => saved' = saved /\ held' = saved
      BY ManifestSteps DEF SaveAtBoundary, SaveAtEnd, KilledBetweenSaves, AboutToSave,
                           EnterVolume, FinishLoop, vars, manifestVars,
                           ManifestNext, Elsewhere, LoadManifest,
                           StartEncode, StrictSync, StrictRefuse, FailEncode, Killed,
                           allVars, NoChange, StartSync, SandboxEntry, BackupTracks,
                           IsolateFile, OnlyIsolated, OpenSession, PlanFile, BeginMove,
                           RenameMove, RejectFile, BeginEncode, EncodeFails, QaPass,
                           QaFail, ClearJournal, EditSource, UserCopies, Abort, Stop
  <2> QED
      BY <2>1, <2>2, <2>3, <2>4
<1>5. ASSUME pc' \in Looping, NEW i \in 1..Len(mem'), mem'[i].status = "Completed"
      PROVE  Named(held', mem'[i].of)
  <2>1. CASE /\ pc \in Looping /\ i \in 1..Len(mem) /\ mem[i].status = "Completed"
             /\ mem'[i].of = mem[i].of
    <3>1. Named(held, mem[i].of)
        BY <2>1 DEF LeadInv
    <3> QED
        BY <1>4, <1>5, <2>1, <3>1 DEF Named
  <2>2. CASE (CommitMove \/ EncodeOk) /\ mem'[i].of = Track
      BY <1>4, <1>5, <2>2
  <2> QED
      BY <1>1, <1>5, <2>1, <2>2, NewCompleted
<1> QED
    BY <1>3, <1>4, <1>5 DEF LeadInv, Named

-----------------------------------------------------------------------------
LEMMA ManifestInvariance ==
    ManifestSpec => [](ManifestTypes /\ BackedInv /\ LeadInv)
<1>1. ManifestInit => ManifestTypes /\ BackedInv /\ LeadInv
    BY EmptyManifest DEF ManifestInit, Init, ManifestTypes, BackedInv, LeadInv,
                         Looping, Working
<1>2. SInv /\ WrittenInv /\ ManifestTypes /\ BackedInv /\ LeadInv
          /\ [ManifestNext]_allVars
      => (ManifestTypes /\ BackedInv /\ LeadInv)'
    BY TypesStep, BackedStep, LeadStep DEF WrittenInv
<1> QED
    BY <1>1, <1>2, ManifestIsASync, Invariance, WrittenAlways, PTL DEF ManifestSpec

(***************************************************************************)
(* The types; the manifest in memory exists in the main loop only.         *)
(***************************************************************************)
THEOREM ManifestTypeCorrect == ManifestSpec => []ManifestTypeOK
<1>1. TypeOK /\ ManifestTypes => ManifestTypeOK
    BY DEF ManifestTypes, ManifestTypeOK, Looping, Working
<1> QED
    BY <1>1, ManifestInvariance, ManifestIsASync, SyncTypeCorrect, PTL

(***************************************************************************)
(* The manifest on the host never names a hash no file has or had before   *)
(* it was put away, whatever is killed between a file and its entry.       *)
(***************************************************************************)
THEOREM ManifestSound == ManifestSpec => []ManifestIsBacked
<1>1. BackedInv => ManifestIsBacked
    BY DEF BackedInv, Backed, ManifestIsBacked
<1> QED
    BY <1>1, ManifestInvariance, PTL

(***************************************************************************)
(* The checkpoint on the host never calls a track Completed that the       *)
(* manifest does not know, also between the two saves.                     *)
(***************************************************************************)
THEOREM ManifestFirst == ManifestSpec => []ManifestLeads
<1>1. LeadInv => ManifestLeads
    BY DEF LeadInv, Named, ManifestLeads
<1> QED
    BY <1>1, ManifestInvariance, PTL

(***************************************************************************)
(* The manifest changes nothing of what a sync may do to the folders of    *)
(* the stick: with it and with --strict-parity they are the shelf of       *)
(* NumberedShelf too, and every session goes on to its end                 *)
(* (orchestrator.rs provision_usb).                                        *)
(***************************************************************************)
THEOREM ManifestKeepsShelf == ManifestSpec => IsShelf /\ SyncsProgress
BY ManifestIsASync, ImplementsShelf, SyncGoesOn
=============================================================================
