----------------------------- MODULE KeyedMutex -----------------------------
(***************************************************************************)
(* What a keyed serial executor promises its callers: work under one key   *)
(* runs alone, work under different keys never waits for each other.       *)
(***************************************************************************)
CONSTANTS Fiber, Key

VARIABLES stage, target

Init ==
  /\ stage = [f \in Fiber |-> "out"]
  /\ target \in [Fiber -> Key]

Request(f, k) ==
  /\ stage[f] = "out"
  /\ stage' = [stage EXCEPT ![f] = "waiting"]
  /\ target' = [target EXCEPT ![f] = k]

Enter(f) ==
  /\ stage[f] = "waiting"
  /\ \A g \in Fiber : target[g] = target[f] => stage[g] # "inside"
  /\ stage' = [stage EXCEPT ![f] = "inside"]
  /\ UNCHANGED target

(* The work ends, or the caller gives up waiting.                          *)
Leave(f) ==
  /\ stage[f] \in {"waiting", "inside"}
  /\ stage' = [stage EXCEPT ![f] = "out"]
  /\ UNCHANGED target

Next == \E f \in Fiber : Enter(f) \/ Leave(f) \/ \E k \in Key : Request(f, k)

Spec == Init /\ [][Next]_<<stage, target>>
=============================================================================
