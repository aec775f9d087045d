----------------------------- MODULE SyncManifest -----------------------------
(***************************************************************************)
(* The manifest of a sync: a host file that says, by content hash, where   *)
(* on the stick every track is that a session has put there; and           *)
(* --strict-parity, which refuses to sync unless source, manifest and      *)
(* stick agree.                                                            *)
(*                                                                         *)
(* Manifest:   manifest.rs  ProcessedFileManifest.                         *)
(* Its place in the session, and the preflight:  orchestrator.rs           *)
(*             provision_usb, enforce_strict_parity_preflight.             *)
(*                                                                         *)
(* The session is the one of SyncSession, whose every step is a step here. *)
(***************************************************************************)
EXTENDS SyncSession

(***************************************************************************)
(* A hash tells recordings apart, and a recording as it was found from the *)
(* MP3 ffmpeg made of it, which is what a slot of a dirty track holds.     *)
(***************************************************************************)
Hashes == (Tracks \cup {Torn}) \X {"raw", "mp3"}

HashAt(p) ==
    <<files[p], IF p \in Slots /\ files[p] \in {t \in Tracks : Kind[t] = "dirty"}
                THEN "mp3" ELSE "raw">>

VARIABLES
    saved, \* manifest_<device>.json: entries_by_hash, a place for every hash
    held   \* processed_manifest, from the start of the main loop to its end

manifestVars == <<saved, held>>
allVars == <<vars, manifestVars>>

NoManifest == <<>>

IsManifest(m) ==
    /\ DOMAIN m \subseteq Hashes
    /\ m = [h \in DOMAIN m |-> m[h]]
    /\ \A h \in DOMAIN m : m[h] \in Places

ManifestTypeOK ==
    /\ TypeOK
    /\ IsManifest(saved) /\ IsManifest(held)
    /\ pc \notin {"loop", "move", "moved", "encode"} => held = NoManifest

ManifestInit == Init /\ saved = NoManifest /\ held = NoManifest

-----------------------------------------------------------------------------
(***************************************************************************)
(* The main loop.                                                          *)
(***************************************************************************)

\* register_processed_file: a hash that is there gets the new place.
Registered(h) ==
    [i \in DOMAIN held \cup {h} |-> IF i = h THEN Target ELSE held[i]]

\* load_or_create_at
LoadManifest == StartLoop /\ held' = saved /\ UNCHANGED saved

RegisterMove == CommitMove /\ held' = Registered(<<Track, "raw">>) /\ UNCHANGED saved

\* Mutant of StartEncode: the entry is made before the file.
StartEncode_Registers ==
    BeginEncode /\ held' = Registered(<<Track, "mp3">>) /\ UNCHANGED saved

StartEncode == BeginEncode /\ UNCHANGED manifestVars

RegisterEncoded == EncodeOk /\ held' = Registered(<<Track, "mp3">>) /\ UNCHANGED saved

\* Before the checkpoint, whenever a folder is left.
SaveAtBoundary ==
    /\ EnterVolume
    /\ saved' = IF active = 0 THEN saved ELSE held
    /\ UNCHANGED held

\* And after the loop, from where on nobody reads it.
SaveAtEnd == FinishLoop /\ saved' = held /\ held' = NoManifest

\* The next step of the loop saves.
AboutToSave == pc = "loop" /\ active # 0 /\ (More => Target.vol # active)

\* Mutant of KilledBetweenSaves: the checkpoint is saved first.
KilledBetweenSaves_Swapped ==
    /\ AboutToSave
    /\ disk' = mem
    /\ Stop(FALSE)
    /\ held' = NoManifest
    /\ UNCHANGED <<stickVars, journal, saved>>

KilledBetweenSaves == AboutToSave /\ Abort /\ saved' = held /\ held' = NoManifest

-----------------------------------------------------------------------------
(***************************************************************************)
(* --strict-parity                                                         *)
(***************************************************************************)

\* rebuild_from_usb: whatever is in the VOL_XX folders.  Which of two places of
\* a hash is listed is left open.
InVolumes == {p \in Present : p \notin RootSpots}

Rebuilt ==
    [h \in {HashAt(p) : p \in InVolumes} |-> CHOOSE p \in InVolumes : HashAt(p) = h]

\* An empty manifest is made anew.
Baseline == IF saved = NoManifest THEN Rebuilt ELSE saved

\* Source against manifest, manifest against stick.
StrictParity ==
    /\ Baseline # NoManifest
    /\ \A t \in source : <<t, "raw">> \in DOMAIN Baseline
    /\ \A h \in DOMAIN Baseline : HashAt(Baseline[h]) = h

StrictSync ==
    /\ StrictParity
    /\ NoChange \/ StartSync
    /\ saved' = Baseline
    /\ UNCHANGED held

\* A manifest made for the occasion stays.
StrictRefuse ==
    /\ pc = "idle"
    /\ ~StrictParity
    /\ saved' = Baseline
    /\ UNCHANGED <<vars, held>>

-----------------------------------------------------------------------------
\* What has nothing to do with the manifest.
Elsewhere ==
    /\ \/ NoChange \/ StartSync \/ SandboxEntry \/ BackupTracks \/ IsolateFile
       \/ OnlyIsolated \/ OpenSession \/ PlanFile
       \/ BeginMove \/ RenameMove \/ RejectFile
       \/ QaPass \/ QaFail \/ ClearJournal \/ EditSource \/ UserCopies
    /\ UNCHANGED manifestVars

FailEncode == EncodeFails /\ UNCHANGED manifestVars

\* Mutant of Killed: the manifest in memory survives.
Killed_KeepsManifest == Abort /\ UNCHANGED manifestVars

Killed == Abort /\ held' = NoManifest /\ UNCHANGED saved

ManifestNext ==
    \/ Elsewhere \/ LoadManifest \/ RegisterMove \/ StartEncode \/ RegisterEncoded
    \/ SaveAtBoundary \/ SaveAtEnd \/ StrictSync \/ StrictRefuse
    \/ FailEncode \/ Killed \/ KilledBetweenSaves

ManifestSpec == ManifestInit /\ [][ManifestNext]_allVars
-----------------------------------------------------------------------------
(***************************************************************************)
(* The manifest invents nothing: every hash in the file is that of a file  *)
(* on the stick, at its place or at another one, or of a recording that    *)
(* was put into the quarantine, whatever was killed between a move and its *)
(* entry, an encoding and its entry, or two saves.                         *)
(***************************************************************************)
ManifestIsBacked ==
    \A h \in DOMAIN saved :
        (\E p \in Places : HashAt(p) = h) \/ h[1] \in quarantine

(***************************************************************************)
(* The checkpoint does not run ahead of the manifest: what it calls        *)
(* Completed has an entry, also when the process dies between the two      *)
(* saves at a volume boundary.                                             *)
(***************************************************************************)
ManifestLeads ==
    \A i \in 1..Len(disk) :
        disk[i].status = "Completed" => \E h \in DOMAIN saved : h[1] = disk[i].of

=============================================================================
