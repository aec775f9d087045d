---------------------------- MODULE MCSyncManifest ----------------------------
(***************************************************************************)
(* Bounds for SyncManifest: folders of one, so that every file but the     *)
(* first is preceded by a save, and a spot in a VOL_XX folder, which a     *)
(* rebuilt manifest lists and a move empties.                              *)
(***************************************************************************)
EXTENDS SyncManifest

MCKind == [t \in Tracks |-> IF t = 1 THEN "clean" ELSE "dirty"]
MCSources == {{1}, {1, 2, 3}}
=============================================================================
