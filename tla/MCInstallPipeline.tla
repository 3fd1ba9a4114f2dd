-------------------------- MODULE MCInstallPipeline --------------------------
(***************************************************************************)
(* InstallPipeline for TLC: every request, three probes of a new layout.   *)
(***************************************************************************)
EXTENDS InstallPipeline
=============================================================================
