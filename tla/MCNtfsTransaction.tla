------------------------- MODULE MCNtfsTransaction -------------------------
(***************************************************************************)
(* NtfsTransaction for TLC: two interferences, of any kind, at any step.   *)
(***************************************************************************)
EXTENDS NtfsTransaction
=============================================================================
