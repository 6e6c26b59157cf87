---------------------------- MODULE MCLiveStream ----------------------------
(* Instances of LiveStream for TLC: the viewed thread and another one.     *)
EXTENDS LiveStream

CONSTANTS mine, other
=============================================================================
