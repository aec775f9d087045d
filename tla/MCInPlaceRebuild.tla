--------------------------- MODULE MCInPlaceRebuild ---------------------------
(***************************************************************************)
(* Bounds for InPlaceRebuild: three tracks, two of which may share a name, *)
(* folders of two, and the stems that the sanitizer changes more than once. *)
(***************************************************************************)
EXTENDS InPlaceRebuild

CONSTANTS a, b, c

MCTracks == {a, b, c}
MCKind == [t \in MCTracks |-> IF t = a THEN "clean" ELSE "dirty"]

(***************************************************************************)
(* 1  bell                what a sanitizer leaves alone                    *)
(* 2  song_hash8          kept with its index, which gives 3               *)
(* 3  000i_song_has       an index and the stem, cut inside the hash       *)
(* 4  song_has            what is left of 3 without its index              *)
(* 5  bell_               6 cut behind a separator; trimmed to 1           *)
(* 6  bell_tower          too long                                         *)
(***************************************************************************)
MCStems == 1..6
MCHashed == {2}
MCClean == <<1, 2, 4, 4, 1, 6>>
MCCut == <<1, 2, 3, 4, 5, 5>>
MCDoubled == [p \in (0..3) \X MCStems |-> IF p[2] = 2 THEN 3 ELSE p[2]]

Layout(x, y, z) == [t \in MCTracks |-> IF t = a THEN x ELSE IF t = b THEN y ELSE z]

\* A stick rebuilt before; new tracks next to old ones, whose new names are
\* the old names of others; two tracks of one name in two albums; a stick that
\* was provisioned, and one whose names have been cut.
MCLayouts == {Layout(<<1, 1>>, <<2, 1>>, <<3, 4>>),
              Layout(<<1, 4>>, <<0, 4>>, <<2, 4>>),
              Layout(<<2, 1>>, <<0, 1>>, <<0, 4>>),
              Layout(<<2, 1>>, <<3, 1>>, <<1, 1>>),
              Layout(<<1, 2>>, <<3, 2>>, <<2, 2>>),
              Layout(<<0, 6>>, <<1, 5>>, <<0, 2>>)}
=============================================================================
