---------------------------- MODULE MCGuestAgent ----------------------------
EXTENDS GuestAgent
=============================================================================
