# A verification of Legacy Audio Provisioner

Legacy Audio Provisioner fills FAT32 USB sticks for old car stereos: it names,
numbers and transcodes the tracks of a source tree, writes at most 50 of them
to each `VOL_XX` folder, and keeps enough state on the host to recover from an
interruption. This directory holds TLA+ models of its core, TLC configurations
that check them on small instances, and proofs, checked by TLAPS, of the
theorems that matter most.

Abbreviations: `lap-core` stands for `crates/lap-core/src`, `orchestrator.rs`
for `crates/lap-bin-provision/src/orchestrator.rs`. `PROJECT.json` maps every
definition to the lines it models.

## 1. Inventory

| Component | State it keeps | Operations | Model |
|---|---|---|---|
| Full session, `orchestrator.rs` `provision_usb` | planner, active volume, counters; drives all the others | discovery, plan, main loop, final save, QA, eject | `Provisioning` |
| Checkpoint, `checkpoint.rs` | `CheckpointData` in memory and its JSON file on the host | new, load, record_file_start, mark_*, save, finalize | `Provisioning` (who saves when), `AtomicWrite` (how) |
| Recovery, `recovery.rs`, `resume_provisioning` | work list, failures | verify, recopy, purge of zero-byte orphans | `Provisioning` |
| Final QA and eject, `verification.rs` | none | structure, hashes, sync and unmount | guards in `Provisioning`, `SyncSession`, `InPlaceRebuild` |
| Lock, `hardware.rs` `ProvisioningLock` | `.lap_provisioning.lock` | acquire, Drop | `ProvisioningLock` |
| In-place rebuild, `orchestrator.rs`, `in_place_transformer.rs` | `.in_place_rebuild_tmp`, backup tree, checkpoint | plan, backup, stage, place, verify | `InPlaceRebuild` |
| Sync session, `orchestrator.rs` with `--sync` | as the full session, and the diff and the journal | diff, sandbox, quarantine, moves, encodes | `SyncSession` |
| Diff and quarantine, `diffing.rs` | `.legacy_quarantine` | hash index, source diff, topology, two quarantines | `SyncSession` |
| Move journal, `journal.rs` | the journal file on the host | ensure, mark_*, reconcile, clear | `SyncSession` |
| Planning, `distribution.rs`, `index_manager.rs` | folder and count, next index | plan_file, for_incremental, high-water mark, natural sort | operators in all three sessions; `NumberedShelf` says what the sync makes of them |
| Backup, `backup.rs` | backup directory of the stick on the host | copy under a unique name or preserving the tree, verify, space check | `StickFormat`; steps of `InPlaceRebuild` and `SyncSession` |
| Manifest, `manifest.rs` | JSON manifest on the host | load, register, save, rebuild from the stick; `--strict-parity` compares it with source and stick | `SyncManifest` |
| Ingestion and refactor, `ingestion.rs`, `lap-bin-ingest`, `refactor_usb` | staging directory | collision-free copy, sync from it, removal | `Ingestion` |
| Detection and format, `hardware.rs`, `format_usb_for_legacy` | backup directory named after the identity of the stick | judge, back up, verify, unmount, mkfs, mount, validate | `StickFormat` |
| Normalizer, `normalizer.rs` | none | classify, detect_drm, ffmpeg | the kind of a track and an ffmpeg that may fail |
| Sanitizer, `sanitizer.rs` | none | names | `InPlaceRebuild` (what a rebuild makes of a name); elsewhere names are values |
| Discovery, `audio_discovery.rs` | none | walk, hidden files, order | `InPlaceRebuild` (hidden files and order), `Ingestion` (walk) |
| Containment and state paths, `security.rs`, `state.rs` | directories on the host | canonical paths | no |
| Command line, reporter, messages, ipc, errors | none | dispatch and texts | no |

How they interact. One command runs in one thread: the orchestrator validates
the stick, takes the lock, asks discovery or the diff for the files, and drives
planner, normalizer, checkpoint, journal and backup by calls. There are no
callbacks and no messages; what the parts share is the stick, the files on the
host, and the memory of the session. Concurrency comes from other processes of
the same program (the lock), from kills and power losses, after which the next
command finds whatever the last one left, and from the user, who edits the
source and the stick between commands.

What is hard, and therefore modelled first: the checkpoint is saved at volume
boundaries only, so it always lags behind the stick; the same folder arithmetic
is done three times in different ways; file names are used as keys; the lock is
a file taken with separate system calls; the rebuild moves every file twice,
with the only copy in a hidden directory in between; the sync believes names
and a checkpoint that an earlier session may have left, and keeps a manifest in
a second file; a format erases what it has backed up under a name other sticks
may share; an ingest copies into a directory that nobody has emptied.
`PROJECT.json` lists each hazard at its line.

What makes each part correct:

- session: success means the stick holds what the checkpoint says, completely,
  and after a safe eject for good;
- recovery: it repairs every damaged entry and touches nothing else;
- atomic write: a reader sees the old or the new document, never a torn one;
- lock: one holder, whose PID is in the file;
- rebuild: backup before the first move; no file over another; the next one
  finds every file under the number it would give it;
- sync: no index twice, no track twice, no folder overfilled, nothing put away
  without a backup, no recording gone, every interrupted move can be found
  again, and files come to the end of the folders only;
- manifest: it lists nothing that is not there, and all that the checkpoint
  calls Completed;
- format: nothing is erased without a whole backup that no later format spoils,
  and only what a provision would refuse;
- ingestion: one whole copy of every file the walk yields, under a name of its
  own, whatever the directory held before.

## 2. Modules

`Provisioning` models `provision` without `--sync` and `provision --resume`
on one stick. `mem` is the checkpoint in memory, `disk` the file; `usb` the
content of every slot (volume, name); `dirty` the slots whose last write may
still be in the page cache. Session actions follow the main loop: `EnterVolume`
(saves), `LogFile`, `RejectFile` (DRM or a clean track, which
`normalize_audio` refuses), `BeginEncode`, `EncodeOk`, `EncodeFails`,
`FinishLoop`, `QaPass`/`QaFail`, `Finalize`, `KeepMounted`, `SafeEject`.
`StartResume`, `RemoveOld`, `RecopyOk`, `RecopyFails` and `FinishRecovery` are
`execute_recovery`. The environment kills the program (`Abort`), cuts the power
(`PowerLoss`), writes back the cache and edits the source. A report of success is
gone with the power, unless the stick was ejected before: then it stands, and the
stick must still be what it was.

`AtomicWrite` models `write_json_atomically_to_paths` one system call at a time
over a file system with a cached directory and cached data. `DurableRegister`
is its abstract specification: a register whose readers see a whole document.
`Provisioning` may therefore replace `disk` in one step.

`ProvisioningLock` models `acquire`, one system call at a time, for any number
of processes, with crashes and PIDs given away again. `Overlapping` says
whether two processes may be in `acquire` at once.

`InPlaceRebuild` models `provision_usb_in_place_rebuild`. A path is an index and
a stem; a file is a recording. A new name comes of `sanitize_filename` and
`add_sequential_prefix`: a name like those of a provisioning session
(`NNNN_stem_hash8.mp3`) is kept whole and gets a second index, any other loses
all its indices and is cleaned, and either is cut to 32 characters. What
cleaning and cutting make of a stem is given by tables (`Hashed`, `Clean`,
`Cut`, `Doubled`), of which nothing is assumed: they need not leave their own
results alone. The run backs up, stages everything in the hidden directory, puts
it back and verifies; it may be killed anywhere and run again.

`SyncSession` models `provision --sync`. A file has a compliant name (in a
`VOL_XX` folder, with an index) or is in a *spot* (anywhere else). A compliant
name with the hash8 of its track is a *slot*. The diff believes the hash8 of a
slot and computes the hash of a spot; a compliant name without a hash8
(`Unhashed`: what a rebuild in place or a user leaves) counts for the folder and
for the next index, can be put away as untracked, and is never asked for its
track. The actions are the stages of
the session in their order: diff and reconciliation (`StartSync`, `NoChange`),
sandbox of the root, backup, quarantine of untracked files, the preview that
plans moves, the main loop with moves, encodes and rejections, QA, and the
clearing of the journal. The journal is saved after every change, the checkpoint
at volume boundaries. Mutants (`Stop_KeepsWorkList`, ...) stand before the
definition they vary and are used by no specification: each one is a plausible
bug that the property named in `PROJECT.json` must catch.

`NumberedShelf` is the abstract specification of the `VOL_XX` folders under any
number of syncs. A recording is shelved at the end (above every number, in the
last folder or a later one, where there is room), or begun there and completed or
given up before anything else is added or taken away; what is there is never
renumbered, written over, finished later or taken away, except to the archive.
`SyncSession` implements it: `taken` are the slots with a file, `whole` those
that hold the recording their name promises, `open` the slot ffmpeg is writing
to, and `archive` the recordings in the quarantine. Planning, journal,
checkpoint, manual copies and all that happens in spots are stutters or
`Elsewhere`; a kill is a stutter or `GiveUp`.

`SyncManifest` extends `SyncSession` with the manifest: `saved` is the file,
`held` the one in memory from the start of the main loop to its end. Each step
that touches it is the step of the session together with what it does to the
manifest (`RegisterMove`, `RegisterEncoded`, `SaveAtBoundary`, ...); the only new
steps are `KilledBetweenSaves`, at a volume boundary where the manifest is saved
before the checkpoint, and the two ways a `--strict-parity` preflight ends. An
empty manifest is rebuilt from the stick on that occasion (`Rebuilt`). A hash
tells a recording as it was found from what ffmpeg made of it.

`StickFormat` models `lap-bin-provision format`. `fs` is the file system of every
stick, `backups` the directories on the host by key; the key is made of what the
kernel says of the stick and of the UUID of its file system. `StartFormat`,
`PassOver`, `BackupFile` (the walk), `VerifyBackup`, `Unmount`, `Mkfs` or
`MkfsFails`, `Remount` and `Validate` follow `format_usb_for_legacy` and
`format_device_for_legacy`; the copy reads, writes and sums in one pass, so the
sum is that of what was read. Users swap, edit and format sticks between
commands. `erased` is history: what formats have erased.

`Ingestion` models `ingest` and `refactor`: the walk in its order, the files it
passes over because it cannot read them (`Unreadable`), the choice of a free name,
the copy, the sync as a step that may leave anything on the stick,
and the removal of the directory, which may stop half way. `done`, `missed`
(what the last walk passed over) and `edited` are history.

`...Proofs` hold the theorems; `MC...` bind the constants for TLC.

## 3. Runs

| Run | Shows |
|---|---|
| `session_and_recovery` | what success of a session and of a resume means, how far the checkpoint lags, what a recovery may touch, that every command ends and goes on with every step |
| `atomic_write` | `AtomicWrite` implements `DurableRegister`; Ok is what the next load reads |
| `lock_serial` | exclusion when starts do not overlap, crashes and reused PIDs included |
| `in_place` | backup first, no file over another, success keeps what was found, and the numbers stay |
| `sync` | indices, folders, duplicates, quarantine, journal and checkpoint over any sequence of syncs; no recording vanishes; the folders are a `NumberedShelf`; every step of a sync brings it nearer to its end |
| `sync_manifest` | the manifest invents nothing and leads the checkpoint, with and without `--strict-parity` |
| `format` | nothing erased without its backup; a skipped or formatted stick is accepted; only unfit sticks are erased |
| `ingest` | whole and one-to-one copies of all that the walk yields, and the same ones when run again |
| `clean_tracks` | *violated*: a safe MP3 is never delivered |
| `lock_race` | *violated*: two starts, two holders |
| `in_place_lost` | *violated*: a failed rebuild and the next one lose a track |
| `sync_converges` | *violated*: three good syncs quarantine a track of the source |

A violated run is a disagreement of the code with the sentence of the
documentation its finding quotes; the trace is a test case. In
`sync_converges` nothing fails at all (`UndisturbedSpec`): the second sync
replaces the checkpoint by one with its own files, and the third takes the
files of the first for strangers.

Bounds. `session_and_recovery`: folders of two, two sources of three tracks of
all kinds, with a name twice in a source and a name in both, so that a session
crosses one boundary, writes over a file of its own and meets files of the one
before; any number of sessions, resumes, kills, power losses and edits, for the
state space is finite. `atomic_write`: two documents and three inodes (the
canonical file, the temporary one, one only the medium still knows).
`lock_serial`: three PIDs (holder, starter, dead owner); nothing counts
processes. `in_place`: three tracks, six layouts (already rebuilt; new files
that want the names of old ones; equal stems; a stick that was provisioned;
names that were cut), folders of two, and six stems: one the sanitizer leaves
alone, one with a hash8 and the two it turns into in later rebuilds, one that is
too long and what is left of it. `sync`: three tracks, folders of two, one spot
in the root and one in `VOL_01`, a compliant name without a hash8 there, three
indices (`MaxIndex`) and two folders (`MaxVolume`): enough to fill a folder and
open the next, to plan on top of a partial folder and to sync again after every
kill; sessions that would need more indices do not start (`WithinBounds`), and
`Copied` says which tracks the user copies by hand (one of the three). Users do
not overfill a folder by hand (a bound in `UserCopies`), for no sync could undo
that. `sync_converges` uses one folder of three, so that the QA of a later
folder (see the observations) does not hide what it shows. Neither it nor
`sync_manifest` has names without a hash8. `sync_manifest`: the same with
folders of one, so that every file but the first comes after a save, and one
spot in a `VOL_XX` folder, which a rebuilt manifest lists and a move empties.
`format`: two sticks that only the UUID of their file systems tells apart, two
contents, allocation units that are right, wrong and unknown, a file that is
never backed up, and three file systems made (`MaxUuid`), so that a stick is
formatted, swapped or edited, and formatted again. The sticks and the contents
are symmetric: no property or constant names one. `ingest`: four paths, two of
one name and one with the number the second of them gets; any number of runs.

Fairness. Only `Provisioning` has a liveness property, `CommandsEnd`, under
`WF_vars(Program)`: the program is one thread that always has a next step until
it returns. Nothing of the environment is fair; ffmpeg may fail every time.
`CommandsProgress` and `SyncsProgress` are action properties and need no
fairness: every step of a command makes `StepsLeft`, a natural number, smaller.
In `Provisioning` the write-back of the page cache is excepted, for it is no step
of the program. Deadlock is checked in every run.

## 4. Proofs

Every theorem holds for all values of the constants under the named assumptions
of the modules: positive capacity, finite sets, non-empty sources.

`ProvisioningProofs`. The invariant `IInv` joins `TypeOK` with six parts, since
none of the properties is inductive alone: `EntriesInv` (only the entry being
encoded is InProgress), `LoopInv` and `PlannerInv` (the number of entries is
`(volume - 1) * Cap + count`), `LagInv` (the file is the part of the memory up to
the volume boundary), `QaInv` (what the QA established still holds when the
session is sealed) and `ReportInv` (what a report of success says, and that an
ejected stick has no write left in the cache). From it follow `TypeCorrect`,
`FinalizedSafe`, `LagBounded` and `SameFolder`; the last one needs that integer
division undoes `(v - 1) * Cap + c`, which `DivCap` proves for any capacity.

For the recovery, `RInv` adds what the entries are called and what it has achieved
so far. `RecoveredSafe`, `RecoverySelective` and `DrmKept` assume `DistinctTracks`;
the observations say why the assumption is needed.

`AtomicWriteProofs`. `WInv`: every directory a power loss may bring back names a
whole, synced canonical file, and the temporary file is none of them. Each step
then maps to a step of `DurableRegister` or to a stutter (`ImplementsRegister`).

`LockProofs`. Without overlapping starts, a process past the judgement shares the
system with no holder, because a holder's PID is in the file and alive:
`ProcessesExcluded`, `HolderNamed`; `LockTypeCorrect` needs no such assumption.

`InPlaceProofs`. `BackupFirstSafe`: what a run discovers is in its plan (sorting
loses nothing, proved by counting ranks), so it is in the backup before the
first file moves. For the rest, `IInv` follows each entry from its source path to
the hidden directory and to its new name (`StageInv`, `PlaceInv`). What makes it
inductive is `DiskInv`: the files in sight never get more than a checkpoint in
progress has entries, and there are as many only if they are the ones it placed.
Then they are numbered, the new plan leaves each where it is (`SortedNumbered`),
and only then an entry is skipped. From it follow `RebuildTypeCorrect`,
`PlacesStayApart`, `SuccessKeeps` and `NumbersKept`; the last needs that the
index of a file numbered without a gap is its rank (`RankOfNumbered`). It speaks of
numbers and folders, not of names: the next rebuild may well rename a file, as the
observations say. None of the proofs uses anything of the sanitizer but its type.

`SyncProofs`. `SInv` holds between any two steps of any number of syncs, killed
or not. `PlanInv`: the plan lists each track once, within the bounds.
`IndicesInv` and `TracksInv`: what is on the stick lies below the index the loop
has come to, and the tracks still to come are in no slot; the file in work is
the one exception. The first of them is about compliant names of both kinds, as
is `CapInv` below; the second can only be about slots. `MovesInv`: a planned
move has its transaction, and its spot holds the track or nothing.
`InProgressInv`: only the file on the move is InProgress while a session runs.
From it follow `SyncTypeCorrect`, `IndicesUnique`, `TracksUnique` and
`InterruptedFound`. `FolderCapacity` adds `CapInv`, which separates the files a
session found (indices below `diff.next`, folders up to `diff.volume`) from the
planned ones; `FoldersFromPlan` maps the planned files of a folder one to one
into `Cap` consecutive integers, for the plan counts them on from what the
folder holds. `QuarantineSafe` is inductive by itself. `CheckpointSound` adds
that what the checkpoint calls Completed, in memory or in the file, has its
file: no step of a later session takes a file from its slot but the quarantine,
and the file being encoded is not Completed yet. `NothingIsLost` is an action
property, proved from `SInv`: a rename takes the only copy from one place to
another, and what an encoding or a move writes over is free. They hold for any
capacity, any tracks and spots, any bounds on indices and folders, and any
number of sessions.

`ImplementsShelf`: the initial state maps to an empty shelf, every step to a step
of `NumberedShelf` or to a stutter. That a new file goes to the end follows for
its number and its track from `SInv`, for its folder from `CapInv`
(`TargetIsLast`), and it has room there because `FolderCapacity` holds after the
step too (`TargetFits`). Two facts on content are needed besides: `NamedInv`, a
slot never holds another recording than its name says, so that what goes from a
slot to the quarantine is that recording; and `WrittenInv`, the slot ffmpeg
writes to was free before, so that an encoding never finishes a torn file of an
earlier session.

`SyncGoesOn`: `StepsLeft` counts what the session has still to put away and to
preview, and four steps for each file of the main loop. `FiniteInv` makes it a
natural number: the spots may be infinitely many, but only finitely many have a
file. `CommandsGoOn` (`ProvisioningProofs`), `RebuildGoesOn` (`InPlaceProofs`),
`IngestsGoOn` (`IngestionProofs`) and `FormatsGoOn` (`FormatProofs`) say the same
of the other commands; the last one assumes that a stick has finitely many paths.
The bounds of these three stand with their proofs and have no run. With them,
all that an end of every command still takes is that the program goes on running.

`ManifestProofs`. `ManifestIsASync`: every step of `SyncManifest` is a step of
`SyncSession` or a stutter, so that `SInv` and all the theorems of `SyncProofs`
hold here. `BackedInv` says of both manifests what `ManifestIsBacked` says of
the file, and that a file being encoded backs nothing (`ManifestSound`).
`LeadInv` says of the memory what `ManifestLeads` says of the files, and that
the manifest in memory has all that is in the file (`ManifestFirst`).
`ManifestKeepsShelf` is what it has of the shelf and of progress by being a
sync.

`FormatProofs`. The invariant follows the command: what the walk has passed is in
the backup or has its sum (the verification compares it), the stick stays the one
that was judged, and the unit `mkfs` makes is 32 KB because the sector size divides
it (`ReadySafe`). `ErasedSafe` assumes `UuidVisible`: a file system is then told
apart by its UUID, each made once, and a key belongs to one of them for ever.
Without it two sticks of one batch share a directory, and the format of the
second may write over what the first one saved.

`IngestionProofs`. `ResolvedIsFree`: one more number is tried than there are names
taken, so one is free. A naming is what the walk makes of a stick, each file getting
the first name that none before it has; `RestInv` says that the staging directory of
a stick nobody changed holds names of one naming only, and that the running ingest
follows it as far as it has come, or continues it. `CopyInv` follows the copies.
From them `IngestTypeCorrect`, `EveryFileStaged` and `RerunIsClean`, the first two
whatever a walk passes over, the last one where no walk passes over anything.

Only model-checked: `CommandsEnd`, since liveness under fairness is out of the
prover's reach (`CommandsGoOn` is the part of it that needs no fairness), and
what the four runs that expect a violation show.

## 5. What is not modelled

- Media: the audio profile, ffmpeg's options, DRM detection. A track is clean,
  dirty or DRM; a conversion succeeds, fails or is cut off, with or without a
  torn file.
- Names: the regular expressions of the sanitizer, which `InPlaceRebuild` has as
  tables. Elsewhere it is all that counts that two names differ, or not. In
  `SyncSession` the source has no file that already has a legacy name and no two
  files of equal content.
- Walks of `InPlaceRebuild` and `SyncSession` that cannot read a file: they are
  taken to see everything. `Ingestion` has such walks; that of `StickFormat` ends
  the command at an error, but a file it cannot even `stat` counts for none
  (`orchestrator.rs:2071`), which is left out.
- Directories in the root of the stick, and so the `?` that ends a sync when the
  backup of one fails (`diffing.rs:276`).
- Power losses outside `Provisioning` and `AtomicWrite`.
- The parsing of `/proc`, `/sys` and `lsblk`, labels, containment of paths, state
  paths, dry runs, command line and messages; within the QA, name rules and the
  counter of consecutive hash failures. These are text and I/O without state of
  their own; what they decide is a constant or a guard.
- Other processes on a stick that is being formatted: `format` takes no
  `ProvisioningLock` (`orchestrator.rs:287`), so nothing orders it with a provision.
- The manifest's second index, `entries_by_name`, which no part of the program
  reads, and a manifest that is not JSON, which counts as an empty one.
- The main loop's branch for a move that was committed before: `IndicesAreUnique`
  shows that no target exists before its session, so it cannot be taken.
- PIDs have the same number of digits; `VOL_100` sorts before `VOL_11` in
  directory listings, which bounds the stick at 99 folders.

Observations made while modelling, without a run of their own:

- files an interrupted session had not come to, or had handled since the last
  volume boundary, are in no entry of the checkpoint, and a resume reports success
  without them (`recovery.rs:222`), while `docs/guides/usage.md:189` says that it
  "solo recopia los archivos faltantes o corruptos";
- a damaged path is mapped back to its entry by file name alone
  (`recovery.rs:252`): of two damaged entries of one name in two volumes only the
  first is repaired, although `recovery.rs:204` says "solo se retentan entradas
  faltantes, corruptas, incompletas o con hash inválido";
- `verify_file_integrity` computes the folder from the position in this session's
  checkpoint (`verification.rs:201`), while an incremental plan goes on in the
  last folder ("rellenar último volumen parcial antes de abrir uno nuevo",
  `docs/spec/OPERATIONAL_DECISIONS.md:32`): a sync whose first new file goes to a
  later folder ends in a failed QA with all files in place;
- the manifest holds the hash of what ffmpeg made, `--strict-parity` looks for the
  hash of the source file (`orchestrator.rs:1991`): after the first run the flow of
  `docs/guides/usage.md:258` is refused for every track that was converted; and
  where `docs/guides/usage.md:213` says that a run without a baseline aborts, the
  code makes one from the stick (`orchestrator.rs:1961`);
- a directory that cannot be read is passed over without a word
  (`audio_discovery.rs:238`), and a file without metadata too, so that an ingest
  succeeds without them (`Unreadable` in `Ingestion`);
- a rebuild gives the names of a provisioned stick a second prefix and cuts the
  end of their hash8 (`sanitizer.rs:180`, `247`); the next one strips both prefixes
  (`104`) and renames the files again, and a stem that was cut behind a separator
  is trimmed by the next rebuild (`154`): the numbers stay, the names do not;
- a track under a compliant name without a hash8, as a rebuild leaves it, is
  written a second time by the next sync (`diffing.rs:349`);
- a number appended to a staged name may take it beyond 32 bytes
  (`ingestion.rs:190`);
- a staging directory that was not empty is provisioned with what it held before
  (`ingestion.rs:76`); a refactor also takes up the converted files of the stick,
  whose own hash8 differs from the one in their names;
- `resume` on a Completed checkpoint returns at once (`orchestrator.rs:1827`),
  although the checkpoint may be an older session's;
- a save whose directory sync failed returns Ok (`checkpoint.rs:174`);
- a lock left by a crash whose PID was given to another program refuses every
  start (`hardware.rs:587`), and `README.md:299` asks for a manual removal where
  the code purges;
- a rebuild killed while files are staged never takes them up again
  (`orchestrator.rs:767`);
- a sync killed in the middle of ffmpeg leaves a file whose name satisfies every
  later diff (`diffing.rs:447`);
- `docs/architecture/R16_R17_checkpoint_and_recovery.md:14` speaks of a save after
  every file where the code saves at volume boundaries.

## 6. Plan

Done: session and recovery, checkpoint writes, lock, rebuild, sync, each with its
proofs; the manifest and strict parity on top of the sync; the format; ingestion;
the proofs of all of them; the shelf as the abstract specification of the sync;
the progress of every command.
What is left, in this order: `plan_distribution` and
`sort_new_files_natural` against reference definitions; the sanitizer's
`build_hashed_legacy_name` on abstract names, as the rebuild has its other names;
directories in the root of a stick that is synced; a format and a
provision on one stick at once, when the code orders them.
