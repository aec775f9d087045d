------------------------- MODULE MCProvisioningLock -------------------------
(***************************************************************************)
(* Bounds for ProvisioningLock: three PIDs, so that a holder, a process    *)
(* that starts and a dead one whose lock was left behind can coexist.      *)
(***************************************************************************)
EXTENDS ProvisioningLock

CONSTANTS p1, p2, p3

MCPids == {p1, p2, p3}
=============================================================================
