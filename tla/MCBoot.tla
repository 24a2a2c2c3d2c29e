------------------------------- MODULE MCBoot -------------------------------
(* Instance of Boot for TLC; the constants are in the configurations.       *)
EXTENDS Boot

=============================================================================
