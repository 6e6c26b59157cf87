----------------------------- MODULE EffectLanes -----------------------------
(***************************************************************************)
(* What the effect outbox promises the orchestrator, without rows, slots,  *)
(* leases or processes: an effect is submitted once, is at work at most    *)
(* once at a time and alone in its lane, may be put back any number of     *)
(* times, and once closed is never at work again.                          *)
(***************************************************************************)
CONSTANTS Effect, Lane, LaneOf

VARIABLE life

Lives == {"new", "open", "working", "closed"}

Init == life = [e \in Effect |-> "new"]

Submit(e) ==
  /\ life[e] = "new"
  /\ life' = [life EXCEPT ![e] = "open"]

Begin(e) ==
  /\ life[e] = "open"
  /\ \A f \in Effect : LaneOf[f] = LaneOf[e] => life[f] # "working"
  /\ life' = [life EXCEPT ![e] = "working"]

(* Retries and the requeues of a restart.                                  *)
PutBack(R) ==
  /\ \A e \in R : life[e] = "working"
  /\ life' = [e \in Effect |-> IF e \in R THEN "open" ELSE life[e]]

(* Success, final failure and cancellation.                                *)
CloseAll(C) ==
  /\ \A e \in C : life[e] \in {"open", "working"}
  /\ life' = [e \in Effect |-> IF e \in C THEN "closed" ELSE life[e]]

Next ==
  \/ \E e \in Effect : Submit(e) \/ Begin(e)
  \/ \E S \in SUBSET Effect : PutBack(S) \/ CloseAll(S)

Spec == Init /\ [][Next]_life
=============================================================================
