---------------------------- MODULE MCThreadRuns ----------------------------
(* Instances of ThreadRuns for TLC; the bounds are in the configurations.  *)
EXTENDS ThreadRuns
=============================================================================
