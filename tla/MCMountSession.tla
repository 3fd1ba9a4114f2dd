--------------------------- MODULE MCMountSession ---------------------------
(* Instances of MountSession for TLC. *)
EXTENDS MountSession

\* Every kind of approved plan.
AllPlans == {"full", "fresh", "reuse", "ntfs"}
=============================================================================
