------------------------- MODULE MCProviderSessions -------------------------
(* Instances of ProviderSessions for TLC; the bounds are in the             *)
(* configurations.                                                         *)
EXTENDS ProviderSessions
=============================================================================
