---------------------------- MODULE MCSyncSession ----------------------------
(***************************************************************************)
(* Bounds for SyncSession: three tracks, folders of two, indices up to     *)
(* three, so that sessions follow each other, fill a folder and open the   *)
(* next; one spot in the root of the stick and one in a VOL_XX folder; and *)
(* 0001_song.mp3, which takes an index and a place but names no track.     *)
(***************************************************************************)
EXTENDS SyncSession

MCKind == [t \in Tracks |-> IF t = 1 THEN "clean" ELSE "dirty"]
MCUnhashed == {[vol |-> 1, idx |-> 1, of |-> 0]}
MCSources == {{1, 2}, {1, 2, 3}}
=============================================================================
