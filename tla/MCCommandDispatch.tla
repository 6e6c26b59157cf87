------------------------- MODULE MCCommandDispatch -------------------------
(* Instances of CommandDispatch for TLC: a command called twice and its id  *)
(* used for another thread, a second command and the start of a queued run  *)
(* in the same thread.                                                      *)
EXTENDS CommandDispatch, TLC

CONSTANTS first, again, here, there, start, idA, idB, t1, t2

MixedCalls == {first, again, here, there, start}
MixedCommandOf ==
  (first :> idA) @@ (again :> idA) @@ (there :> idA) @@ (here :> idB) @@ (start :> NoCommand)
MixedThreadOf ==
  (first :> t1) @@ (again :> t1) @@ (there :> t2) @@ (here :> t1) @@ (start :> t1)

Symmetry == Permutations({first, again})

ClashCalls == {here, there}
ClashCommandOf == [c \in ClashCalls |-> idB]
ClashThreadOf == (here :> t1) @@ (there :> t2)
=============================================================================
