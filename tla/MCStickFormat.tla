----------------------------- MODULE MCStickFormat -----------------------------
(***************************************************************************)
(* Bounds for StickFormat: two sticks that only the UUID of their file     *)
(* systems tells apart; a file that is kept, with either of two contents,  *)
(* and the lock, which no backup takes along.                              *)
(***************************************************************************)
EXTENDS StickFormat, TLC

CONSTANTS s1, s2, a, b

MCSticks == {s1, s2}
MCHardware == [s \in MCSticks |-> 1]
MCSector == [s \in MCSticks |-> 4096]
MCData == {a, b}

MCFormats == {<<"vfat", 0>>, <<"vfat", 4096>>, <<"other", 32768>>}

Alike == Permutations(MCSticks) \cup Permutations(MCData)
=============================================================================
