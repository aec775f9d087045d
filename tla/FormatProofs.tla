----------------------------- MODULE FormatProofs -----------------------------
(***************************************************************************)
(* What a format has erased is in the backup.                              *)
(*                                                                         *)
(* The backup of a stick is made under the UUID of the file system that is *)
(* about to go.  No stick that can be mounted has that UUID afterwards,    *)
(* so no later backup is made in the same directory.                       *)
(***************************************************************************)
EXTENDS StickFormat, FiniteSetTheorems, TLAPS

Typed == TypeOK /\ (pc = "mkfs" => SectorFits(stick))

\* Clusters of whole sectors that make up 32 KB.
LEMMA ClustersFit ==
    ASSUME NEW s \in Sticks, SectorFits(s)
    PROVE  SectorsPerCluster(s) * Sector[s] = LegacyUnit
<1> DEFINE n == Sector[s]
<1>1. n \in Nat /\ n # 0
    BY SectorAssumption DEF SectorFits
<1>2. LegacyUnit % n = 0 /\ LegacyUnit \in Nat
    BY DEF SectorFits, LegacyUnit
<1> HIDE DEF n
<1>3. \A m \in Nat : m = (n * (m \div n)) + (m % n)
    BY <1>1
<1>4. (LegacyUnit \div n) \in Int
    BY <1>1, <1>2
<1>5. LegacyUnit = n * (LegacyUnit \div n)
    BY <1>2, <1>3, <1>4, <1>1
<1>6. n * (LegacyUnit \div n) = (LegacyUnit \div n) * n
    BY <1>1, <1>4
<1> QED
    BY <1>5, <1>6 DEF SectorsPerCluster, n

LEMMA KeysTyped ==
    ASSUME TypeOK, NEW s \in Sticks
    PROVE  KeyOf(s) \in Keys
<1>1. fs[s].uuid \in 0..MaxUuid /\ 0 \in 0..MaxUuid
    BY UuidAssumption DEF TypeOK, FileSystem
<1> QED
    BY <1>1 DEF KeyOf, Keys

LEMMA MadeTyped ==
    ASSUME NEW t \in {"vfat", "other", "none"}, NEW u \in Units, NEW i \in 0..MaxUuid
    PROVE  Made(<<t, u>>, i) \in FileSystem
BY DEF Made, FileSystem, NoFiles, Files

LEMMA LossesTyped ==
    ASSUME TypeOK, NEW s \in Sticks
    PROVE  Losses(s) \subseteq Loss
<1>1. KeyOf(s) \in Keys
    BY KeysTyped
<1>2. fs[s].files \in Files
    BY DEF TypeOK, FileSystem
<1> QED
    BY <1>1, <1>2 DEF Losses, Loss, Files

LEMMA InitTyped == Init => Typed
<1> SUFFICES ASSUME Init PROVE Typed
    OBVIOUS
<1>1. Made(<<"none", 0>>, 0) \in FileSystem
    BY MadeTyped, UnitsAssumption, UuidAssumption
<1>2. fs \in [Sticks -> FileSystem]
    BY <1>1 DEF Init
<1>3. NoFiles \in Files /\ NoFiles \in [Paths -> Data \cup {Absent, Torn}]
    BY DEF NoFiles, Files
<1>4. backups \in [Keys -> [Paths -> Data \cup {Absent, Torn}]]
    BY <1>3 DEF Init
<1>5. pc = "idle" /\ stick = NoStick /\ mounted = NoStick /\ forced = FALSE
      /\ walk = {} /\ sums = NoFiles /\ outcome = "none" /\ erased = {} /\ uuids = 0
    BY DEF Init
<1>6. uuids \in 0..MaxUuid
    BY <1>5, UuidAssumption
<1>7. sums \in Files
    BY <1>3, <1>5
<1>8. walk \in SUBSET Paths /\ erased \in SUBSET Loss
    BY <1>5
<1>9. TypeOK
    BY <1>2, <1>4, <1>5, <1>6, <1>7, <1>8 DEF TypeOK
<1> QED
    BY <1>5, <1>9 DEF Typed

LEMMA StepTyped == Typed /\ [Next]_vars => Typed'
<1> SUFFICES ASSUME Typed, [Next]_vars PROVE Typed'
    OBVIOUS
<1>0. TypeOK
    BY DEF Typed
<1> USE NamesAssumption, RemovableAssumption
<1>1. CASE Refuse \/ Skip
    BY <1>1, <1>0 DEF Refuse, Skip, TypeOK, Typed, Confirmed
<1>2. CASE StartFormat
    <2>1. mounted \in Sticks
        BY <1>2, RemovableAssumption DEF StartFormat, Confirmed
    <2>2. KeyOf(mounted) \in Keys
        BY <2>1, <1>0, KeysTyped
    <2> QED
        BY <1>2, <1>0, <2>1, <2>2 DEF StartFormat, TypeOK, Typed
<1>3. CASE PassOver
    BY <1>3, <1>0 DEF PassOver, TypeOK, Typed
<1>4. CASE BackupFile
    <2>0. pc = "walk" /\ pc' = "walk" /\ stick \in Sticks /\ key \in Keys
        BY <1>4, <1>0 DEF BackupFile, TypeOK
    <2>1. OnStick \in Files
        BY <2>0, <1>0 DEF OnStick, TypeOK, FileSystem
    <2>2. backups' \in [Keys -> [Paths -> Data \cup {Absent, Torn}]]
        BY <2>0, <2>1, <1>0, <1>4 DEF BackupFile, TypeOK, Files
    <2>3. sums' \in Files
        BY <2>1, <1>0, <1>4 DEF BackupFile, TypeOK, Files
    <2> QED
        BY <2>0, <2>2, <2>3, <1>0, <1>4 DEF BackupFile, TypeOK, Typed
<1>5. CASE VerifyBackup \/ Unmount
    BY <1>5, <1>0 DEF VerifyBackup, Unmount, TypeOK, Typed
<1>6. CASE Mkfs
    <2>0. pc = "mkfs" /\ stick \in Sticks /\ key \in Keys /\ SectorFits(stick)
        BY <1>6, <1>0 DEF Mkfs, TypeOK, Typed
    <2>1. uuids' \in 0..MaxUuid
        BY <1>6, <1>0, UuidAssumption DEF Mkfs, TypeOK
    <2>2. SectorsPerCluster(stick) * Sector[stick] \in Units
        BY <2>0, ClustersFit, UnitsAssumption
    <2>3. Made(<<"vfat", SectorsPerCluster(stick) * Sector[stick]>>, uuids') \in FileSystem
        BY <2>1, <2>2, MadeTyped
    <2>4. fs' \in [Sticks -> FileSystem]
        BY <2>0, <2>3, <1>0, <1>6 DEF Mkfs, TypeOK
    <2>5. erased' \subseteq Loss
        BY <2>0, <1>0, <1>6, LossesTyped DEF Mkfs, TypeOK
    <2> QED
        BY <2>0, <2>1, <2>4, <2>5, <1>0, <1>6 DEF Mkfs, TypeOK, Typed
<1>7. CASE MkfsFails
    <2>0. pc = "mkfs" /\ stick \in Sticks /\ pc' = "idle"
        BY <1>7, <1>0 DEF MkfsFails, TypeOK, Stop
    <2>1. NoFiles \in Files
        BY DEF NoFiles, Files
    <2>2. fs' \in [Sticks -> FileSystem]
        BY <2>0, <2>1, <1>0, <1>7 DEF MkfsFails, TypeOK, FileSystem
    <2>3. erased' \subseteq Loss
        BY <2>0, <1>0, <1>7, LossesTyped DEF MkfsFails, TypeOK
    <2>4. stick' = NoStick /\ forced' = FALSE /\ walk' = {} /\ sums' = NoFiles
          /\ outcome' = "error"
        BY <1>7 DEF MkfsFails, Stop
    <2>5. uuids' = uuids /\ mounted' = mounted /\ backups' = backups
        BY <1>7 DEF MkfsFails
    <2> QED
        BY <2>0, <2>1, <2>2, <2>3, <2>4, <2>5, <1>0 DEF TypeOK, Typed
<1>8. CASE Remount \/ Validate
    BY <1>8, <1>0 DEF Remount, Validate, Stop, TypeOK, Typed, NoFiles, Files
<1>9. CASE Abort
    <2>1. backups' \in [Keys -> [Paths -> Data \cup {Absent, Torn}]]
        BY <1>0, <1>9 DEF Abort, TypeOK
    <2>2. pc' = "idle" /\ stick' = NoStick /\ forced' = FALSE /\ walk' = {}
          /\ sums' = NoFiles /\ outcome' = "error"
        BY <1>9 DEF Abort, Stop
    <2>3. UNCHANGED <<fs, uuids, mounted, erased>>
        BY <1>9 DEF Abort
    <2>4. NoFiles \in Files
        BY DEF NoFiles, Files
    <2> QED
        BY <2>1, <2>2, <2>3, <2>4, <1>0 DEF TypeOK, Typed
<1>10. CASE Swap
    BY <1>10, <1>0 DEF Swap, TypeOK, Typed
<1>11. CASE EditStick
    <2>1. mounted \in Sticks
        BY <1>11, <1>0 DEF EditStick, TypeOK
    <2>2. fs' \in [Sticks -> FileSystem]
        BY <2>1, <1>11, <1>0 DEF EditStick, TypeOK, FileSystem, Files
    <2> QED
        BY <2>2, <1>11, <1>0 DEF EditStick, TypeOK, Typed
<1>12. CASE UserFormats
    <2>1. uuids' \in 0..MaxUuid
        BY <1>12, <1>0, UuidAssumption DEF UserFormats, TypeOK
    <2>2. \A f \in Formats : Made(f, uuids') \in FileSystem
        <3> TAKE f \in Formats
        <3>1. f = <<f[1], f[2]>> /\ f[1] \in {"vfat", "other", "none"} /\ f[2] \in Units
            BY FormatsAssumption
        <3>2. Made(<<f[1], f[2]>>, uuids') \in FileSystem
            BY <3>1, <2>1, MadeTyped
        <3> QED
            BY <3>1, <3>2
    <2>3. fs' \in [Sticks -> FileSystem]
        BY <2>2, <1>12, <1>0 DEF UserFormats, TypeOK
    <2> QED
        BY <2>1, <2>3, <1>12, <1>0 DEF UserFormats, TypeOK, Typed
<1>13. CASE UNCHANGED vars
    BY <1>13, <1>0 DEF vars, TypeOK, Typed, SectorFits
<1> QED
    BY <1>1, <1>2, <1>3, <1>4, <1>5, <1>6, <1>7, <1>8, <1>9, <1>10, <1>11, <1>12, <1>13
    DEF Next

(***************************************************************************)
(* Types; a stick that is about to be formatted has a sector size that 32  *)
(* KB are a multiple of (hardware.rs format_device_for_legacy).            *)
(***************************************************************************)
THEOREM FormatTypeCorrect == Spec => []TypeOK
<1>1. Typed => TypeOK
    BY DEF Typed
<1> QED
    BY InitTyped, StepTyped, <1>1, PTL DEF Spec

-----------------------------------------------------------------------------
(***************************************************************************)
(* The two judgements of a file system.                                    *)
(***************************************************************************)
Judged ==
    /\ Typed
    /\ mounted # NoStick => fs[mounted].type # "none"
    /\ pc \in {"walk", "unmount"} => mounted = stick /\ stick \in Removable
    /\ pc \in {"mkfs", "mount"} => mounted = NoStick
    /\ pc = "validate" => fs[stick].type # "none"
    /\ pc = "mount" => fs[stick].type # "none"
    /\ pc # "idle" => outcome = "none"
    /\ ReadyMeansAccepted
    /\ ErasesOnlyUnfit

LEMMA JudgementsAgree ==
    ASSUME TypeOK, mounted \in Removable
    PROVE  Accepted(mounted) <=> ~RequiresReformat(mounted)
<1>1. mounted \in Sticks
    BY RemovableAssumption
<1> QED
    BY <1>1 DEF Accepted, Valid, ProfileOk, RequiresReformat

LEMMA InitJudged == Init => Judged
<1> SUFFICES ASSUME Init PROVE Judged
    OBVIOUS
<1>1. pc = "idle" /\ outcome = "none" /\ mounted = NoStick
    BY DEF Init
<1> QED
    BY <1>1, InitTyped DEF Judged, ReadyMeansAccepted, ErasesOnlyUnfit

LEMMA StepJudged == Judged /\ [Next]_vars => Judged'
<1> SUFFICES ASSUME Judged, [Next]_vars PROVE Judged'
    OBVIOUS
<1>0. Typed' /\ TypeOK /\ Typed
    BY StepTyped DEF Judged, Typed
<1> USE NamesAssumption, RemovableAssumption
    DEF Accepted, Valid, ProfileOk, ReadyMeansAccepted, ErasesOnlyUnfit
<1>1. CASE Refuse
    BY <1>0, <1>1 DEF Judged, TypeOK, Refuse
<1>2. CASE Skip
    <2>1. Accepted(mounted)
        BY <1>0, <1>2, JudgementsAgree DEF Skip, Confirmed
    <2> QED
        BY <1>0, <1>2, <2>1 DEF Judged, TypeOK, Skip, Confirmed
<1>3. CASE StartFormat
    <2>1. forced' \/ ~Accepted(mounted)
        BY <1>0, <1>3, JudgementsAgree DEF StartFormat, Confirmed
    <2> QED
        BY <1>0, <1>3, <2>1 DEF Judged, TypeOK, StartFormat, Confirmed
<1>4. CASE PassOver
    BY <1>0, <1>4 DEF Judged, TypeOK, PassOver
<1>5. CASE BackupFile
    BY <1>0, <1>5 DEF Judged, TypeOK, BackupFile
<1>6. CASE VerifyBackup
    BY <1>0, <1>6 DEF Judged, TypeOK, VerifyBackup
<1>14. CASE Unmount
    BY <1>0, <1>14 DEF Judged, TypeOK, Unmount
<1>7. CASE Mkfs
    <2>1. fs'[stick].type = "vfat"
        BY <1>0, <1>7 DEF TypeOK, Mkfs, Made
    <2>2. pc' = "mount" /\ stick' = stick /\ mounted' = NoStick /\ outcome' = "none"
        BY <1>0, <1>7 DEF Judged, TypeOK, Mkfs
    <2> QED
        BY <1>0, <2>1, <2>2 DEF Judged
<1>8. CASE MkfsFails \/ Abort
    <2>1. pc' = "idle" /\ outcome' = "error" /\ mounted' = mounted
        BY <1>8 DEF MkfsFails, Abort, Stop
    <2>2. mounted # NoStick => fs' = fs
        BY <1>8 DEF Judged, MkfsFails, Abort
    <2> QED
        BY <1>0, <2>1, <2>2 DEF Judged
<1>9. CASE Remount \/ Validate
    BY <1>0, <1>9 DEF Judged, TypeOK, Remount, Validate, Stop
<1>10. CASE Swap
    BY <1>0, <1>10 DEF Judged, TypeOK, Swap
<1>11. CASE EditStick
    <2>1. \A s \in Sticks : fs'[s].type = fs[s].type /\ fs'[s].unit = fs[s].unit
        BY <1>0, <1>11 DEF TypeOK, FileSystem, EditStick
    <2>2. pc' = "idle" /\ mounted' = mounted /\ outcome' = outcome
        BY <1>11 DEF EditStick
    <2>3. mounted \in Sticks
        BY <1>0, <1>11 DEF EditStick, TypeOK
    <2> QED
        BY <1>0, <2>1, <2>2, <2>3 DEF Judged
<1>12. CASE UserFormats
    BY <1>0, <1>12 DEF Judged, UserFormats
<1>13. CASE UNCHANGED vars
    BY <1>0, <1>13 DEF Judged, vars
<1> QED
    BY <1>1, <1>2, <1>3, <1>4, <1>5, <1>6, <1>7, <1>8, <1>9, <1>10, <1>11, <1>12, <1>13,
       <1>14
    DEF Next

(***************************************************************************)
(* A stick that the command left alone or has formatted is accepted by the *)
(* next provision, for any devices, units and sector sizes.                *)
(***************************************************************************)
THEOREM ReadySafe == Spec => []ReadyMeansAccepted
<1>1. Judged => ReadyMeansAccepted
    BY DEF Judged
<1> QED
    BY InitJudged, StepJudged, <1>1, PTL DEF Spec

(***************************************************************************)
(* Unless forced, the command sets out to erase only what a provision      *)
(* would refuse.                                                           *)
(***************************************************************************)
THEOREM UnfitOnly == Spec => []ErasesOnlyUnfit
<1>1. Judged => ErasesOnlyUnfit
    BY DEF Judged
<1> QED
    BY InitJudged, StepJudged, <1>1, PTL DEF Spec

-----------------------------------------------------------------------------
(***************************************************************************)
(* The backup.                                                             *)
(***************************************************************************)

\* No two file systems were made with one UUID, and 0 stands for none.
UuidsApart ==
    /\ \A s \in Sticks : fs[s].uuid <= uuids
    /\ \A s \in Sticks : fs[s].type # "none" => fs[s].uuid # 0
    /\ \A s, t \in Sticks : fs[s].uuid = fs[t].uuid /\ fs[s].uuid # 0 => s = t

\* What can be mounted was made since.
LossesAreOld ==
    \A e \in erased :
        /\ e.key[2] <= uuids
        /\ \A s \in Sticks : fs[s].type # "none" => e.key[2] # fs[s].uuid

\* The command works with the identity of a stick that can be mounted.
KeyIsCurrent ==
    pc \in {"walk", "unmount", "mkfs"} => key = KeyOf(stick) /\ fs[stick].type # "none"

Kept(p) == p \in Paths \ Transient /\ OnStick[p] # Absent

\* A file that the walk has come to is in the backup or among the checksums.
Noted ==
    pc = "walk" => \A p \in Paths \ walk :
                       Kept(p) => Stored[p] = OnStick[p] \/ sums[p] = OnStick[p]

\* After the verification it is in the backup.
Saved ==
    pc \in {"unmount", "mkfs"} => \A p \in Paths : Kept(p) => Stored[p] = OnStick[p]

BInv == /\ Judged
        /\ UuidsApart /\ LossesAreOld /\ KeyIsCurrent
        /\ Noted /\ Saved /\ ErasedIsBackedUp

LEMMA InitBInv == Init => BInv
<1> SUFFICES ASSUME Init PROVE BInv
    OBVIOUS
<1>1. \A s \in Sticks : fs[s].uuid = 0 /\ fs[s].type = "none"
    BY DEF Init, Made
<1>2. pc = "idle" /\ erased = {} /\ uuids = 0
    BY DEF Init
<1> QED
    BY <1>1, <1>2, InitJudged DEF BInv, UuidsApart, LossesAreOld, KeyIsCurrent, Noted,
       Saved, ErasedIsBackedUp

\* Nothing that is mounted, or about to be formatted, was erased before.
LEMMA NoLossThere ==
    ASSUME UuidVisible, BInv, NEW s \in Sticks, fs[s].type # "none"
    PROVE  \A e \in erased : e.key # KeyOf(s)
<1>1. KeyOf(s)[2] = fs[s].uuid
    BY DEF KeyOf
<1> QED
    BY <1>1 DEF BInv, LossesAreOld

\* What mkfs is about to erase is in the backup.
LEMMA LossesOfStick ==
    ASSUME UuidVisible, BInv, pc = "mkfs"
    PROVE  \A e \in Losses(stick) : /\ backups[e.key][e.path] = e.data
                                    /\ e.key[2] = fs[stick].uuid
<1>1. key = KeyOf(stick)
    BY DEF BInv, KeyIsCurrent
<1>2. \A p \in Paths : Kept(p) => Stored[p] = OnStick[p]
    BY DEF BInv, Saved
<1>3. ASSUME NEW e \in Losses(stick)
      PROVE  backups[e.key][e.path] = e.data /\ e.key[2] = fs[stick].uuid
    <2>1. PICK p \in Paths \ Transient :
              /\ fs[stick].files[p] # Absent
              /\ e = [key |-> KeyOf(stick), path |-> p, data |-> fs[stick].files[p]]
        BY <1>3 DEF Losses
    <2>2. e.key = key /\ e.path = p /\ e.data = OnStick[p]
        BY <1>1, <2>1 DEF OnStick
    <2>3. Kept(p)
        BY <2>1 DEF Kept, OnStick
    <2>4. e.key[2] = fs[stick].uuid
        BY <2>1 DEF KeyOf
    <2> QED
        BY <1>2, <2>2, <2>3, <2>4 DEF Stored
<1> QED
    BY <1>3

LEMMA StepBInv ==
    ASSUME UuidVisible, BInv, [Next]_vars
    PROVE  BInv'
<1>0. Judged' /\ Judged /\ TypeOK
    BY StepJudged DEF BInv, Judged, Typed
<1> USE NamesAssumption, RemovableAssumption
\* A step that changes neither a file system nor a backup, and is no walk's.
<1>a. ASSUME UNCHANGED <<fs, uuids, backups, erased>>,
             pc' \notin {"walk", "unmount", "mkfs"}
      PROVE  BInv'
    BY <1>0, <1>a DEF BInv, UuidsApart, LossesAreOld, KeyIsCurrent, Noted, Saved,
       ErasedIsBackedUp
<1>1. CASE Refuse \/ Skip \/ Remount \/ Validate \/ Swap
    <2>1. UNCHANGED <<fs, uuids, backups, erased>>
        BY <1>1 DEF Refuse, Skip, Remount, Validate, Swap
    <2>2. pc' \notin {"walk", "unmount", "mkfs"}
        BY <1>1 DEF Refuse, Skip, Confirmed, Remount, Validate, Swap, Stop
    <2> QED
        BY <1>a, <2>1, <2>2
<1>2. CASE StartFormat
    <2>1. mounted \in Sticks /\ fs[mounted].type # "none"
        BY <1>0, <1>2 DEF StartFormat, Confirmed, Judged
    <2>2. pc' = "walk" /\ stick' = mounted /\ key' = KeyOf(mounted) /\ walk' = Paths
          /\ UNCHANGED <<fs, uuids, backups, erased>>
        BY <1>2 DEF StartFormat
    <2>3. KeyIsCurrent'
        BY <2>1, <2>2 DEF KeyIsCurrent, KeyOf
    <2> QED
        BY <1>0, <2>2, <2>3 DEF BInv, UuidsApart, LossesAreOld, Noted, Saved,
           ErasedIsBackedUp
<1>3. CASE PassOver
    <2>1. PICK p \in walk : /\ p \in Transient \/ OnStick[p] = Absent \/ Stored[p] = OnStick[p]
                            /\ walk' = walk \ {p}
        BY <1>3 DEF PassOver
    <2>2. pc = "walk" /\ pc' = "walk"
          /\ UNCHANGED <<fs, uuids, backups, stick, key, sums, erased>>
        BY <1>3 DEF PassOver
    <2>3. Noted'
        BY <2>1, <2>2 DEF BInv, Noted, Kept, OnStick, Stored
    <2> QED
        BY <1>0, <2>2, <2>3 DEF BInv, UuidsApart, LossesAreOld, KeyIsCurrent, KeyOf, Saved,
           ErasedIsBackedUp
<1>4. CASE BackupFile
    <2>1. PICK p \in walk \ Transient :
              /\ \E d \in {OnStick[p], Torn} : backups' = [backups EXCEPT ![key][p] = d]
              /\ sums' = [sums EXCEPT ![p] = OnStick[p]]
              /\ walk' = walk \ {p}
        BY <1>4 DEF BackupFile
    <2>2. pc = "walk" /\ pc' = "walk" /\ UNCHANGED <<fs, uuids, stick, key, erased>>
        BY <1>4 DEF BackupFile
    <2>3. stick \in Sticks /\ key \in Keys /\ key = KeyOf(stick) /\ fs[stick].type # "none"
        BY <1>0, <2>2 DEF BInv, KeyIsCurrent, TypeOK
    <2>4. \A i \in Keys : i # key => backups'[i] = backups[i]
        BY <1>0, <2>1 DEF TypeOK
    <2>5. \A q \in Paths : q # p => backups'[key][q] = backups[key][q] /\ sums'[q] = sums[q]
        BY <1>0, <2>1, <2>3 DEF TypeOK, Files
    <2>6. sums'[p] = OnStick[p]
        BY <1>0, <2>1 DEF TypeOK, Files
    <2>7. Noted'
        BY <2>1, <2>2, <2>5, <2>6 DEF BInv, Noted, Kept, OnStick, Stored
    <2>8. \A e \in erased : e.key # key
        BY <2>3, NoLossThere
    <2>9. \A e \in erased : e.key \in Keys
        BY <1>0 DEF TypeOK, Loss
    <2>10. ErasedIsBackedUp'
        BY <2>2, <2>4, <2>8, <2>9 DEF BInv, ErasedIsBackedUp
    <2> QED
        BY <1>0, <2>2, <2>7, <2>10 DEF BInv, UuidsApart, LossesAreOld, KeyIsCurrent, KeyOf,
           Saved
<1>5. CASE VerifyBackup
    <2>1. pc = "walk" /\ walk = {} /\ Verified /\ pc' = "unmount"
          /\ UNCHANGED <<fs, uuids, backups, stick, key, sums, erased>>
        BY <1>5 DEF VerifyBackup
    <2>2. \A p \in Paths : Kept(p) => Stored[p] = OnStick[p] \/ sums[p] = OnStick[p]
        BY <2>1 DEF BInv, Noted
    <2>3. \A p \in Paths : Kept(p) => Stored[p] = OnStick[p]
        BY <2>1, <2>2 DEF Verified, Kept
    <2>4. Saved'
        BY <2>1, <2>3 DEF Saved, Kept, Stored, OnStick
    <2> QED
        BY <1>0, <2>1, <2>4 DEF BInv, UuidsApart, LossesAreOld, KeyIsCurrent, KeyOf, Noted,
           ErasedIsBackedUp
<1>6. CASE Unmount
    <2>1. pc = "unmount" /\ pc' = "mkfs"
          /\ UNCHANGED <<fs, uuids, backups, stick, key, sums, erased>>
        BY <1>6 DEF Unmount
    <2>2. Saved'
        BY <2>1 DEF BInv, Saved, Kept, Stored, OnStick
    <2> QED
        BY <1>0, <2>1, <2>2 DEF BInv, UuidsApart, LossesAreOld, KeyIsCurrent, KeyOf, Noted,
           ErasedIsBackedUp
<1>7. CASE Mkfs
    <2>1. pc = "mkfs" /\ pc' = "mount" /\ uuids' = uuids + 1 /\ uuids \in Nat
          /\ backups' = backups /\ erased' = erased \cup Losses(stick) /\ stick \in Sticks
        BY <1>0, <1>7 DEF Mkfs, TypeOK
    <2>2. fs'[stick].uuid = uuids' /\ \A s \in Sticks \ {stick} : fs'[s] = fs[s]
        BY <1>0, <1>7 DEF Mkfs, TypeOK, Made
    <2>3. \A s \in Sticks : fs[s].uuid \in Nat /\ fs[s].uuid <= uuids
        BY <1>0 DEF BInv, UuidsApart, TypeOK, FileSystem
    <2>4. UuidsApart'
        BY <2>1, <2>2, <2>3 DEF BInv, UuidsApart
    <2>5. \A e \in erased : e.key[2] \in Nat
        BY <1>0 DEF TypeOK, Loss, Keys
    <2>6. \A e \in erased : e.key[2] <= uuids'
                            /\ \A s \in Sticks : fs'[s].type # "none" => e.key[2] # fs'[s].uuid
        BY <2>1, <2>2, <2>5 DEF BInv, LossesAreOld
    <2>7. \A e \in Losses(stick) : backups[e.key][e.path] = e.data
                                   /\ e.key[2] = fs[stick].uuid
        BY <2>1, LossesOfStick
    <2>8. fs[stick].type # "none"
        BY <2>1 DEF BInv, KeyIsCurrent
    <2>9. \A s \in Sticks \ {stick} : fs[s].uuid # fs[stick].uuid
        BY <2>1, <2>8 DEF BInv, UuidsApart
    <2>10. \A e \in Losses(stick) :
               e.key[2] <= uuids'
               /\ \A s \in Sticks : fs'[s].type # "none" => e.key[2] # fs'[s].uuid
        BY <2>1, <2>2, <2>3, <2>7, <2>9
    <2>11. LossesAreOld'
        BY <2>1, <2>6, <2>10 DEF LossesAreOld
    <2>12. ErasedIsBackedUp'
        BY <2>1, <2>7 DEF BInv, ErasedIsBackedUp
    <2> QED
        BY <1>0, <2>1, <2>4, <2>11, <2>12 DEF BInv, KeyIsCurrent, Noted, Saved
<1>8. CASE MkfsFails
    <2>1. pc = "mkfs" /\ pc' = "idle" /\ uuids' = uuids /\ backups' = backups
          /\ stick \in Sticks
        BY <1>0, <1>8 DEF MkfsFails, Stop, TypeOK
    <2>2. CASE UNCHANGED <<fs, erased>>
        BY <1>a, <2>1, <2>2
    <2>3. CASE /\ fs' = [fs EXCEPT ![stick].type = "none", ![stick].files = NoFiles]
               /\ erased' = erased \cup Losses(stick)
        <3>1. \A s \in Sticks : fs'[s].uuid = fs[s].uuid
            BY <1>0, <2>1, <2>3 DEF TypeOK, FileSystem
        <3>2. fs'[stick].type = "none" /\ \A s \in Sticks \ {stick} : fs'[s] = fs[s]
            BY <1>0, <2>1, <2>3 DEF TypeOK, FileSystem
        <3>3. UuidsApart'
            BY <2>1, <3>1, <3>2 DEF BInv, UuidsApart
        <3>4. \A e \in Losses(stick) : backups[e.key][e.path] = e.data
                                       /\ e.key[2] = fs[stick].uuid
            BY <2>1, LossesOfStick
        <3>5. fs[stick].type # "none" /\ fs[stick].uuid <= uuids
            BY <2>1 DEF BInv, KeyIsCurrent, UuidsApart
        <3>6. \A s \in Sticks \ {stick} : fs[s].uuid # fs[stick].uuid
            BY <2>1, <3>5 DEF BInv, UuidsApart
        <3>9. \A e \in erased :
                  e.key[2] <= uuids'
                  /\ \A s \in Sticks : fs'[s].type # "none" => e.key[2] # fs'[s].uuid
            BY <2>1, <3>2 DEF BInv, LossesAreOld
        <3>10. \A e \in Losses(stick) :
                   e.key[2] <= uuids'
                   /\ \A s \in Sticks : fs'[s].type # "none" => e.key[2] # fs'[s].uuid
            BY <2>1, <3>2, <3>4, <3>5, <3>6
        <3>7. LossesAreOld'
            BY <2>3, <3>9, <3>10 DEF LossesAreOld
        <3>8. ErasedIsBackedUp'
            BY <2>1, <2>3, <3>4 DEF BInv, ErasedIsBackedUp
        <3> QED
            BY <1>0, <2>1, <3>3, <3>7, <3>8 DEF BInv, KeyIsCurrent, Noted, Saved
    <2> QED
        BY <1>8, <2>2, <2>3 DEF MkfsFails
<1>9. CASE Abort
    <2>1. pc' = "idle" /\ UNCHANGED <<fs, uuids, erased>>
        BY <1>9 DEF Abort, Stop
    <2>2. CASE UNCHANGED backups
        BY <1>a, <2>1, <2>2
    <2>3. CASE pc = "walk" /\ \E p \in walk : backups' = [backups EXCEPT ![key][p] = Torn]
        <3>1. stick \in Sticks /\ key \in Keys /\ key = KeyOf(stick)
              /\ fs[stick].type # "none"
            BY <1>0, <2>3 DEF BInv, KeyIsCurrent, TypeOK
        <3>2. \A i \in Keys : i # key => backups'[i] = backups[i]
            BY <1>0, <2>3 DEF TypeOK
        <3>3. \A e \in erased : e.key # key /\ e.key \in Keys
            BY <1>0, <3>1, NoLossThere DEF TypeOK, Loss
        <3>4. ErasedIsBackedUp'
            BY <2>1, <3>2, <3>3 DEF BInv, ErasedIsBackedUp
        <3> QED
            BY <1>0, <2>1, <3>4 DEF BInv, UuidsApart, LossesAreOld, KeyIsCurrent, Noted, Saved
    <2> QED
        BY <1>9, <2>2, <2>3 DEF Abort
<1>10. CASE EditStick
    <2>1. pc' = "idle" /\ UNCHANGED <<uuids, backups, erased>> /\ mounted \in Sticks
        BY <1>0, <1>10 DEF EditStick, TypeOK
    <2>2. \A s \in Sticks : fs'[s].uuid = fs[s].uuid /\ fs'[s].type = fs[s].type
        BY <1>0, <1>10, <2>1 DEF EditStick, TypeOK, FileSystem
    <2> QED
        BY <1>0, <2>1, <2>2 DEF BInv, UuidsApart, LossesAreOld, KeyIsCurrent, Noted, Saved,
           ErasedIsBackedUp
<1>11. CASE UserFormats
    <2>1. PICK s \in Sticks, f \in Formats : fs' = [fs EXCEPT ![s] = Made(f, uuids')]
        BY <1>11 DEF UserFormats
    <2>2. pc' = "idle" /\ uuids' = uuids + 1 /\ uuids \in Nat /\ UNCHANGED <<backups, erased>>
        BY <1>0, <1>11 DEF UserFormats, TypeOK
    <2>3. fs'[s].uuid = uuids' /\ \A t \in Sticks \ {s} : fs'[t] = fs[t]
        BY <1>0, <2>1 DEF TypeOK, Made
    <2>4. \A t \in Sticks : fs[t].uuid \in Nat /\ fs[t].uuid <= uuids
        BY <1>0 DEF BInv, UuidsApart, TypeOK, FileSystem
    <2>5. UuidsApart'
        BY <2>2, <2>3, <2>4 DEF BInv, UuidsApart
    <2>6. \A e \in erased : e.key[2] \in Nat
        BY <1>0 DEF TypeOK, Loss, Keys
    <2>7. LossesAreOld'
        BY <2>2, <2>3, <2>6 DEF BInv, LossesAreOld
    <2> QED
        BY <1>0, <2>2, <2>5, <2>7 DEF BInv, KeyIsCurrent, Noted, Saved, ErasedIsBackedUp
<1>12. CASE UNCHANGED vars
    BY <1>0, <1>12 DEF vars, BInv, UuidsApart, LossesAreOld, KeyIsCurrent, KeyOf, Noted,
       Saved, Kept, OnStick, Stored, ErasedIsBackedUp
<1> QED
    BY <1>1, <1>2, <1>3, <1>4, <1>5, <1>6, <1>7, <1>8, <1>9, <1>10, <1>11, <1>12 DEF Next

(***************************************************************************)
(* Where the UUID of a file system can be read, everything a format has    *)
(* erased is in the backup, for any sticks, alike or not, and any sequence *)
(* of formats, failures and edits.                                         *)
(***************************************************************************)
THEOREM ErasedSafe == ASSUME UuidVisible PROVE Spec => []ErasedIsBackedUp
<1>1. BInv /\ [Next]_vars => BInv'
    BY StepBInv
<1>2. BInv => ErasedIsBackedUp
    BY DEF BInv
<1> QED
    BY InitBInv, <1>1, <1>2, PTL DEF Spec
-----------------------------------------------------------------------------
(***************************************************************************)
(* Progress.  A bound for the steps a command has still to take.           *)
(***************************************************************************)
StepsLeft ==
    CASE pc = "walk" -> Cardinality(walk) + 5
      [] pc = "unmount" -> 4
      [] pc = "mkfs" -> 3
      [] pc = "mount" -> 2
      [] pc = "validate" -> 1
      [] OTHER -> 0

LEMMA StepProgress ==
    ASSUME IsFiniteSet(Paths), TypeOK, [Next]_vars, pc # "idle"
    PROVE  StepsLeft' \in 0..StepsLeft - 1 \/ UNCHANGED vars
<1>1. /\ Cardinality(walk) \in Nat
      /\ \A p \in walk : Cardinality(walk \ {p}) = Cardinality(walk) - 1
    <2>1. IsFiniteSet(walk)
        BY FS_Subset DEF TypeOK
    <2> QED
        BY <2>1, FS_CardinalityType, FS_RemoveElement
<1>2. pc \in {"walk", "unmount", "mkfs", "mount", "validate"}
    BY DEF TypeOK
<1>3. CASE PassOver \/ BackupFile
  <2>1. pc = "walk" /\ pc' = "walk" /\ \E p \in walk : walk' = walk \ {p}
      BY <1>3 DEF PassOver, BackupFile
  <2>2. /\ StepsLeft = Cardinality(walk) + 5
        /\ StepsLeft' = Cardinality(walk') + 5
      BY <2>1 DEF StepsLeft
  <2>3. Cardinality(walk') = Cardinality(walk) - 1 /\ Cardinality(walk') \in Nat
    <3>1. IsFiniteSet(walk')
        BY <2>1, FS_Subset DEF TypeOK
    <3> QED
        BY <1>1, <2>1, <3>1, FS_CardinalityType
  <2> QED
      BY <1>1, <2>2, <2>3
<1>4. CASE VerifyBackup \/ Unmount \/ Mkfs \/ Remount
    BY <1>1, <1>4 DEF VerifyBackup, Unmount, Mkfs, Remount, StepsLeft
<1>5. CASE MkfsFails \/ Validate \/ Abort
  <2>1. StepsLeft' = 0
      BY <1>5 DEF MkfsFails, Validate, Abort, Stop, StepsLeft
  <2> QED
      BY <1>1, <1>2, <2>1 DEF StepsLeft
<1>6. ~(Refuse \/ Skip \/ StartFormat \/ Swap \/ EditStick \/ UserFormats)
    BY DEF Refuse, Skip, Confirmed, StartFormat, Swap, EditStick, UserFormats
<1> QED
    BY <1>3, <1>4, <1>5, <1>6 DEF Next

(***************************************************************************)
(* Every step of a format brings it nearer to its end, however many files  *)
(* the stick has: a file of the walk is passed over or copied once, and a  *)
(* copy, an unmount or a mkfs that fails ends the command                  *)
(* (orchestrator.rs format_usb_for_legacy).                                *)
(***************************************************************************)
THEOREM FormatsGoOn ==
    ASSUME IsFiniteSet(Paths)
    PROVE  Spec => [][pc # "idle" => StepsLeft' \in 0..StepsLeft - 1]_vars
<1>1. TypeOK /\ [Next]_vars => [pc # "idle" => StepsLeft' \in 0..StepsLeft - 1]_vars
    BY StepProgress
<1> QED
    BY <1>1, FormatTypeCorrect, PTL DEF Spec
=============================================================================
