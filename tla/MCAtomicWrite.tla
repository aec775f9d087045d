--------------------------- MODULE MCAtomicWrite ---------------------------
(***************************************************************************)
(* Bounds for AtomicWrite: two documents, so that an old one and a new one *)
(* can be told apart, and three inodes: the canonical file, the .tmp file  *)
(* and one that only the directory on the medium still refers to.          *)
(***************************************************************************)
EXTENDS AtomicWrite

CONSTANTS v1, v2, i1, i2, i3

MCValues == {v1, v2}
MCInodes == {i1, i2, i3}
=============================================================================
