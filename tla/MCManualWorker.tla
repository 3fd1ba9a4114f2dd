--------------------------- MODULE MCManualWorker ---------------------------
(* Clusters of four bytes and two entries, names of up to three entries.   *)
EXTENDS ManualWorker
MCFree == 0..40
=============================================================================
