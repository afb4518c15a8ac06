------------------------- MODULE MCPowerManagement -------------------------
(* PowerManagement on a small instance: two sleeps, so that a resume can   *)
(* run into the next sleep, and a link on which a late request waits.      *)
EXTENDS PowerManagement
=============================================================================
