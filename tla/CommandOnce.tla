---------------------------- MODULE CommandOnce ----------------------------
(***************************************************************************)
(* What command dispatch promises a client: a command is decided once, and *)
(* everyone who asks is told that decision or is told nothing definite.    *)
(***************************************************************************)
CONSTANTS Call, Command, CommandOf

VARIABLES verdict, told

Init ==
  /\ verdict = [i \in Command |-> "open"]
  /\ told = [c \in Call |-> "nothing"]

Tell(c) ==
  /\ told[c] = "nothing"
  /\ verdict'[CommandOf[c]] # "open"
  /\ told' = [told EXCEPT ![c] = verdict'[CommandOf[c]]]

(* The one whose call decides may be told in the same step.                *)
Decide(i) ==
  /\ verdict[i] = "open"
  /\ \E v \in {"accepted", "rejected"} : verdict' = [verdict EXCEPT ![i] = v]
  /\ UNCHANGED told \/ \E c \in Call : CommandOf[c] = i /\ Tell(c)

Next ==
  \/ \E i \in Command : Decide(i)
  \/ \E c \in Call : UNCHANGED verdict /\ Tell(c)

Spec == Init /\ [][Next]_<<verdict, told>>
=============================================================================
