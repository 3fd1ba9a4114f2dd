--------------------------- MODULE MCRecordStore ---------------------------
(* Instances of RecordStore: a store that holds two sessions at their worst  *)
(* (two units of events, one of each summary), or one and what others left. *)
EXTENDS RecordStore, TLC
Symmetry == Permutations(Session)
=============================================================================
