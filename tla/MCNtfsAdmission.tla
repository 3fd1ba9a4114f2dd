-------------------------- MODULE MCNtfsAdmission --------------------------
EXTENDS NtfsAdmission
=============================================================================
