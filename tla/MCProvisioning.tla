--------------------------- MODULE MCProvisioning ---------------------------
(***************************************************************************)
(* Bounds for Provisioning: volumes of two files and a source of three     *)
(* tracks, so that a session crosses one volume boundary.                  *)
(***************************************************************************)
EXTENDS Provisioning

CONSTANTS a, b, c, d, e

MCNames == {a, b, c, d, e}
MCKind == [n \in MCNames |-> IF n = b THEN "clean" ELSE IF n = d THEN "drm" ELSE "dirty"]
\* Two trees share the stick one after the other, so that stale files of one
\* session count in the next; they have a name in common.
MCSources == {<<a, a, c>>, <<d, a, b>>}
=============================================================================
