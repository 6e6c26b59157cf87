--------------------------- MODULE MCEffectOutbox ---------------------------
(* Instances of EffectOutbox for TLC: two or three effects of one thread,   *)
(* in its critical lane and beside it, or of two threads.                   *)
EXTENDS EffectOutbox, TLC

CONSTANTS start, second, title, t1, t2, s1, s2

(* A provider-turn.start, a replay-safe effect behind it in the same lane   *)
(* and a title generation beside them.                                      *)
TrioEffects == {start, second, title}
TrioThreadOf == [e \in TrioEffects |-> t1]
TrioKindOf == (start :> "turn") @@ (second :> "replay") @@ (title :> "title")

(* A start and the interrupt behind it in one lane.                         *)
PairEffects == {start, second}
PairThreadOf == [e \in PairEffects |-> t1]
PairKindOf == (start :> "turn") @@ (second :> "interrupt")

(* A start in a thread of its own, beside a replay-safe effect and a title  *)
(* generation of another thread.                                            *)
ApartThreadOf == (start :> t1) @@ (second :> t2) @@ (title :> t2)

Symmetry == Permutations(Slot)
=============================================================================
