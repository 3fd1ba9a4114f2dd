-------------------------- MODULE MCSessionRecords --------------------------
(* Instance of SessionRecords: two stages, a journal one run can overfill. *)
EXTENDS SessionRecords
=============================================================================
