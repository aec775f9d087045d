------------------------------ MODULE StickFormat ------------------------------
(***************************************************************************)
(* lap-bin-provision format: a stick is backed up to the host and gets a   *)
(* FAT32 file system with allocation units of 32 KB.                       *)
(*                                                                         *)
(* Command:  orchestrator.rs format_usb_for_legacy, backup_usb_tree.       *)
(* Device:   hardware.rs  inspect_device_path, format_device_for_legacy,   *)
(*           and the two judgements of a file system.                      *)
(* Backup:   backup.rs  backup_file_preserving_tree, verify_backup, in a   *)
(*           directory named after the identity of the device.             *)
(*                                                                         *)
(* The command may be killed between any two steps and run again; users    *)
(* edit, swap and format sticks between commands.  The command takes no    *)
(* ProvisioningLock: another process on the same stick is left out.        *)
(***************************************************************************)
EXTENDS Integers, FiniteSets

CONSTANTS Sticks,      \* block devices
          Removable,   \* those the kernel calls removable
          Hardware,    \* what label, vendor, model and serial say of each
          Sector,      \* the logical sector size of each
          UuidVisible, \* /dev/disk/by-uuid can be read
          Paths,       \* relative paths of files
          Transient,   \* .lap_provisioning.lock and .fat32_dirty_test
          Data,        \* what a file may hold
          Units,       \* allocation units, 0 for one that cannot be determined
          Formats,     \* what users' own formatting gives: type and unit
          MaxUuid      \* bound: file systems made

LegacyUnit == 32768

ASSUME RemovableAssumption == Removable \subseteq Sticks
ASSUME SectorAssumption == Sector \in [Sticks -> Nat]
ASSUME UuidVisibleAssumption == UuidVisible \in BOOLEAN
ASSUME UnitsAssumption == Units \subseteq Nat /\ {0, LegacyUnit} \subseteq Units
ASSUME FormatsAssumption == Formats \subseteq {"vfat", "other"} \X Units
ASSUME UuidAssumption == MaxUuid \in Nat

Absent == "absent"
Torn == "torn"    \* not what was to be written
NoStick == "no stick"
ASSUME NamesAssumption ==
    Absent \notin Data /\ Torn \notin Data /\ NoStick \notin Sticks /\ Absent # Torn

Keys == {Hardware[s] : s \in Sticks} \X (0..MaxUuid)
Files == [Paths -> Data \cup {Absent}]
NoFiles == [p \in Paths |-> Absent]

\* "none" is what a failed mkfs may leave: nothing that can be mounted.
FileSystem == [type : {"vfat", "other", "none"}, unit : Units,
               uuid : 0..MaxUuid, files : Files]

VARIABLES
    fs,      \* the file system of every stick
    uuids,   \* the file systems made so far
    mounted, \* the stick at the mount point, or NoStick
    backups, \* ~/.lap/backups: a directory for every key
    pc,      \* what the command is doing
    stick,   \* the DeviceInfo the command works with
    key,     \* its backup_identity_key
    forced,  \* --force-reformat
    walk,    \* the paths backup_usb_tree has not come to
    sums,    \* checksums: what the files copied by this command should hold
    outcome, \* what the last command reported
    erased   \* history: what formats have erased, and the key each had

vars == <<fs, uuids, mounted, backups, pc, stick, key, forced, walk, sums, outcome,
          erased>>

Loss == [key : Keys, path : Paths, data : Data]

TypeOK ==
    /\ fs \in [Sticks -> FileSystem]
    /\ uuids \in 0..MaxUuid
    /\ mounted \in Sticks \cup {NoStick}
    /\ backups \in [Keys -> [Paths -> Data \cup {Absent, Torn}]]
    /\ pc \in {"idle", "walk", "unmount", "mkfs", "mount", "validate"}
    /\ stick \in Sticks \cup {NoStick}
    /\ (stick = NoStick) <=> (pc = "idle")
    /\ pc # "idle" => key \in Keys
    /\ forced \in BOOLEAN
    /\ walk \in SUBSET Paths
    /\ sums \in Files
    /\ outcome \in {"none", "error", "skipped", "formatted"}
    /\ erased \in SUBSET Loss

\* What mkfs makes, by whomever.
Made(f, id) == [type |-> f[1], unit |-> f[2], uuid |-> id, files |-> NoFiles]

\* Before its first formatting a stick cannot be mounted.
Init ==
    /\ fs = [s \in Sticks |-> Made(<<"none", 0>>, 0)]
    /\ uuids = 0
    /\ mounted = NoStick
    /\ backups = [i \in Keys |-> NoFiles]
    /\ pc = "idle"
    /\ stick = NoStick
    /\ key = <<>>
    /\ forced = FALSE
    /\ walk = {}
    /\ sums = NoFiles
    /\ outcome = "none"
    /\ erased = {}

\* Mutant of Stop: the DeviceInfo of the last command is used again.
Stop_KeepsStick(report) ==
    /\ pc' = "idle"
    /\ stick' = stick
    /\ key' = <<>>
    /\ forced' = FALSE
    /\ walk' = {}
    /\ sums' = NoFiles
    /\ outcome' = report

\* The command returns or dies.
Stop(report) ==
    /\ pc' = "idle"
    /\ stick' = NoStick
    /\ key' = <<>>
    /\ forced' = FALSE
    /\ walk' = {}
    /\ sums' = NoFiles
    /\ outcome' = report

-----------------------------------------------------------------------------
(***************************************************************************)
(* The judgements of hardware.rs.                                          *)
(***************************************************************************)

\* is_valid_for_provisioning
Valid(s) == fs[s].type = "vfat" /\ s \in Removable

\* validate_legacy_format_profile: a unit that is not known passes.
ProfileOk(s) == fs[s].unit \in {0, LegacyUnit}

\* validate_device_path, which every provision begins with.
Accepted(s) == s = mounted /\ Valid(s) /\ ProfileOk(s)

\* Mutant of RequiresReformat: an unknown unit is not the legacy unit.
RequiresReformat_UnknownToo(s) == fs[s].type # "vfat" \/ fs[s].unit # LegacyUnit

\* Mutant of RequiresReformat: only the allocation unit is looked at.
RequiresReformat_UnitOnly(s) == fs[s].unit \notin {0, LegacyUnit}

\* requires_legacy_reformat
RequiresReformat(s) == fs[s].type # "vfat" \/ fs[s].unit \notin {0, LegacyUnit}

\* backup_identity_key, and the directory named after it.
KeyOf(s) == <<Hardware[s], IF UuidVisible THEN fs[s].uuid ELSE 0>>

\* sectors_per_cluster_for_legacy
SectorFits(s) == Sector[s] # 0 /\ LegacyUnit % Sector[s] = 0
SectorsPerCluster(s) == LegacyUnit \div Sector[s]

-----------------------------------------------------------------------------
(***************************************************************************)
(* The command.                                                            *)
(***************************************************************************)

\* Not mounted, not removable, or not the device the user named.
Refuse ==
    /\ pc = "idle"
    /\ outcome' = "error"
    /\ UNCHANGED <<fs, uuids, mounted, backups, pc, stick, key, forced, walk,
                   sums, erased>>

Confirmed == pc = "idle" /\ mounted \in Removable

Skip ==
    /\ Confirmed
    /\ ~RequiresReformat(mounted)
    /\ outcome' = "skipped"
    /\ UNCHANGED <<fs, uuids, mounted, backups, pc, stick, key, forced, walk,
                   sums, erased>>

StartFormat ==
    /\ Confirmed
    /\ forced' \in BOOLEAN
    /\ forced' \/ RequiresReformat(mounted)
    /\ pc' = "walk"
    /\ stick' = mounted
    /\ key' = KeyOf(mounted)
    /\ walk' = Paths
    /\ outcome' = "none"
    /\ UNCHANGED <<fs, uuids, mounted, backups, sums, erased>>

Stored == backups[key]
OnStick == fs[stick].files

\* What backup_usb_tree leaves out of the backup.
PassOver ==
    /\ pc = "walk"
    /\ \E p \in walk :
          /\ \/ p \in Transient
             \/ OnStick[p] = Absent
             \/ Stored[p] = OnStick[p]
          /\ walk' = walk \ {p}
    /\ UNCHANGED <<fs, uuids, mounted, backups, pc, stick, key, forced, sums, outcome,
                   erased>>

\* Mutant of BackupFile: a file of that path is taken for its backup.
BackupFile_TrustsOld ==
    /\ pc = "walk"
    /\ \E p \in walk \ Transient :
          /\ OnStick[p] # Absent
          /\ Stored[p] # OnStick[p]
          /\ \/ Stored[p] # Absent /\ UNCHANGED <<backups, sums>>
             \/ /\ Stored[p] = Absent
                /\ \E d \in {OnStick[p], Torn} : backups' = [backups EXCEPT ![key][p] = d]
                /\ sums' = [sums EXCEPT ![p] = OnStick[p]]
          /\ walk' = walk \ {p}
    /\ UNCHANGED <<fs, uuids, mounted, pc, stick, key, forced, outcome, erased>>

\* copy_file_to_destination: the checksum is that of what was read, whatever
\* the host's disk made of it.
BackupFile ==
    /\ pc = "walk"
    /\ \E p \in walk \ Transient :
          /\ OnStick[p] # Absent
          /\ Stored[p] # OnStick[p]
          /\ \E d \in {OnStick[p], Torn} : backups' = [backups EXCEPT ![key][p] = d]
          /\ sums' = [sums EXCEPT ![p] = OnStick[p]]
          /\ walk' = walk \ {p}
    /\ UNCHANGED <<fs, uuids, mounted, pc, stick, key, forced, outcome, erased>>

\* verify_backup
Verified == \A p \in Paths : sums[p] # Absent => Stored[p] = sums[p]

VerifyBackup ==
    /\ pc = "walk"
    /\ walk = {}
    /\ Verified
    /\ pc' = "unmount"
    /\ UNCHANGED <<fs, uuids, mounted, backups, stick, key, forced, walk, sums,
                   outcome, erased>>

\* Nothing is unmounted unless the sector size will do.
Unmount ==
    /\ pc = "unmount"
    /\ SectorFits(stick)
    /\ mounted' = NoStick
    /\ pc' = "mkfs"
    /\ UNCHANGED <<fs, uuids, backups, stick, key, forced, walk, sums,
                   outcome, erased>>

Losses(s) == {[key |-> KeyOf(s), path |-> p, data |-> fs[s].files[p]] :
                p \in {q \in Paths \ Transient : fs[s].files[q] # Absent}}

Mkfs ==
    /\ pc = "mkfs"
    /\ uuids < MaxUuid
    /\ uuids' = uuids + 1
    /\ fs' = [fs EXCEPT ![stick] =
                Made(<<"vfat", SectorsPerCluster(stick) * Sector[stick]>>, uuids')]
    /\ erased' = erased \cup Losses(stick)
    /\ pc' = "mount"
    /\ UNCHANGED <<mounted, backups, stick, key, forced, walk, sums, outcome>>

\* Neither mkfs.vfat nor mkfs.fat, or one that fails half way.
MkfsFails ==
    /\ pc = "mkfs"
    /\ \/ UNCHANGED <<fs, erased>>
       \/ /\ fs' = [fs EXCEPT ![stick].type = "none", ![stick].files = NoFiles]
          /\ erased' = erased \cup Losses(stick)
    /\ Stop("error")
    /\ UNCHANGED <<uuids, mounted, backups>>

Remount ==
    /\ pc = "mount"
    /\ mounted' = stick
    /\ pc' = "validate"
    /\ UNCHANGED <<fs, uuids, backups, stick, key, forced, walk, sums,
                   outcome, erased>>

Validate ==
    /\ pc = "validate"
    /\ Accepted(stick)
    /\ Stop("formatted")
    /\ UNCHANGED <<fs, uuids, mounted, backups, erased>>

\* An unreadable file, a failed verification, umount or mount, a sector size
\* that does not divide 32 KB; or killed.  A file being copied is torn.
Abort ==
    /\ pc # "idle"
    /\ \/ UNCHANGED backups
       \/ /\ pc = "walk"
          /\ \E p \in walk \ Transient :
                /\ OnStick[p] # Absent /\ Stored[p] # OnStick[p]
                /\ backups' = [backups EXCEPT ![key][p] = Torn]
    /\ Stop("error")
    /\ UNCHANGED <<fs, uuids, mounted, erased>>

-----------------------------------------------------------------------------
(***************************************************************************)
(* Users, between commands.                                                *)
(***************************************************************************)

Swap ==
    /\ pc = "idle"
    /\ mounted' \in {s \in Sticks : fs[s].type # "none"} \cup {NoStick}
    /\ outcome' = "none"
    /\ UNCHANGED <<fs, uuids, backups, pc, stick, key, forced, walk,
                   sums, erased>>

EditStick ==
    /\ pc = "idle"
    /\ mounted # NoStick
    /\ \E p \in Paths, d \in Data \cup {Absent} :
          fs' = [fs EXCEPT ![mounted].files[p] = d]
    /\ UNCHANGED <<uuids, mounted, backups, pc, stick, key, forced, walk, sums,
                   outcome, erased>>

UserFormats ==
    /\ pc = "idle"
    /\ mounted = NoStick
    /\ uuids < MaxUuid
    /\ uuids' = uuids + 1
    /\ \E s \in Sticks, f \in Formats : fs' = [fs EXCEPT ![s] = Made(f, uuids')]
    /\ outcome' = "none"
    /\ UNCHANGED <<mounted, backups, pc, stick, key, forced, walk,
                   sums, erased>>

Next ==
    \/ Refuse \/ Skip \/ StartFormat
    \/ PassOver \/ BackupFile \/ VerifyBackup \/ Unmount
    \/ Mkfs \/ MkfsFails \/ Remount \/ Validate \/ Abort
    \/ Swap \/ EditStick \/ UserFormats

Spec == Init /\ [][Next]_vars
-----------------------------------------------------------------------------
(***************************************************************************)
(* Whatever a format has erased, even one that failed or was killed after  *)
(* it had erased, is whole, under its path, in the backup directory the    *)
(* stick had at that time, and no later format of that or of another stick *)
(* writes over it (usage.md: the flow makes a complete backup before it    *)
(* erases the USB).                                                        *)
(***************************************************************************)
ErasedIsBackedUp == \A e \in erased : backups[e.key][e.path] = e.data

(***************************************************************************)
(* A stick the command has left alone, or has formatted, is one the next   *)
(* provision accepts: the two judgements of hardware.rs, which are coded   *)
(* apart from each other, do not disagree in this direction.               *)
(***************************************************************************)
ReadyMeansAccepted == outcome \in {"skipped", "formatted"} => Accepted(mounted)

(***************************************************************************)
(* Nor in the other: unless the user asks for it, the command never sets   *)
(* out to erase a stick that a provision would accept as it is.            *)
(***************************************************************************)
ErasesOnlyUnfit == pc \in {"walk", "unmount"} /\ ~forced => ~Accepted(stick)
=============================================================================
