------------------------ MODULE KeyedSerialExecutor ------------------------
(***************************************************************************)
(* withLock of orchestration-v2/KeyedSerialExecutor.ts: a map from keys to *)
(* a semaphore and its number of users, created by the first user and      *)
(* deleted by the last.  The orchestrator's threadDispatch is one.         *)
(*                                                                         *)
(* One action is one operation on the map (a Ref is read and written       *)
(* without a switch) or on a semaphore.  Semaphore identities that nothing *)
(* refers to any more are used again.                                      *)
(***************************************************************************)
EXTENDS Naturals, FiniteSets

CONSTANTS Fiber, Key, Semaphore, NoSemaphore

ASSUME ExecutorAssumption ==
  /\ IsFiniteSet(Fiber)
  /\ NoSemaphore \notin Semaphore

VARIABLES
  locks,   \* the map: semaphore and users of each key
  taken,   \* the semaphores whose only permit is taken
  pc,      \* where the call of each fiber is
  key, semaphore   \* the arguments of that call

vars == <<locks, taken, pc, key, semaphore>>

Absent == [semaphore |-> NoSemaphore, users |-> 0]

TypeOK ==
  /\ locks \in [Key -> [semaphore : Semaphore \cup {NoSemaphore}, users : Nat]]
  /\ taken \subseteq Semaphore
  /\ pc \in [Fiber -> {"out", "waiting", "inside", "leaving"}]
  /\ key \in [Fiber -> Key]
  /\ semaphore \in [Fiber -> Semaphore \cup {NoSemaphore}]

Init ==
  /\ locks = [k \in Key |-> Absent]
  /\ taken = {}
  /\ pc = [f \in Fiber |-> "out"]
  /\ key \in [Fiber -> Key]
  /\ semaphore = [f \in Fiber |-> NoSemaphore]

(* An object that no variable of the program refers to.                    *)
Unreferenced(s) ==
  /\ \A k \in Key : locks[k].semaphore # s
  /\ \A f \in Fiber : semaphore[f] # s
  /\ s \notin taken

-----------------------------------------------------------------------------
(* A user of the key with the semaphore that candidate led to.             *)
Join(f, k, chosen) ==
  /\ pc[f] = "out"
  /\ locks' = [locks EXCEPT ![k] = [semaphore |-> chosen, users |-> @.users + 1]]
  /\ semaphore' = [semaphore EXCEPT ![f] = chosen]
  /\ key' = [key EXCEPT ![f] = k]
  /\ pc' = [pc EXCEPT ![f] = "waiting"]
  /\ UNCHANGED taken

(* Variants named like this one are faulty, each for the mistake it makes. *)
AcquireFresh(f, k) ==
  \E candidate \in Semaphore : Unreferenced(candidate) /\ Join(f, k, candidate)
AcquireWithoutCandidate(f, k) == Join(f, k, locks[k].semaphore)
AcquireAnyEntry(f, k) ==
  \E candidate \in Semaphore :
    /\ Unreferenced(candidate)
    /\ \E chosen \in {candidate} \cup {locks[l].semaphore : l \in Key} :
         chosen # NoSemaphore /\ Join(f, k, chosen)

(* acquireLock: a candidate is made, and used if the key has no entry.     *)
AcquireLock(f, k) ==
  \E candidate \in Semaphore :
    /\ Unreferenced(candidate)
    /\ Join(f, k, IF locks[k].users = 0 THEN candidate ELSE locks[k].semaphore)

(* withPermit of Effect's Semaphore: take the permit, run, give it back    *)
(* however the work ends.  The wait can be interrupted.                    *)
TakePermit(f) ==
  /\ pc[f] = "waiting"
  /\ semaphore[f] \notin taken
  /\ taken' = taken \cup {semaphore[f]}
  /\ pc' = [pc EXCEPT ![f] = "inside"]
  /\ UNCHANGED <<locks, key, semaphore>>

InterruptWait(f) ==
  /\ pc[f] = "waiting"
  /\ pc' = [pc EXCEPT ![f] = "leaving"]
  /\ UNCHANGED <<locks, taken, key, semaphore>>

PermitStaysTaken(f) ==
  /\ pc[f] = "inside"
  /\ pc' = [pc EXCEPT ![f] = "leaving"]
  /\ UNCHANGED <<locks, taken, key, semaphore>>

ReturnPermit(f) ==
  /\ pc[f] = "inside"
  /\ taken' = taken \ {semaphore[f]}
  /\ pc' = [pc EXCEPT ![f] = "leaving"]
  /\ UNCHANGED <<locks, key, semaphore>>

(* The entry after one user has gone.                                      *)
DroppedEarly(entry) == Absent
WithoutUser(entry) ==
  IF entry.users = 1 THEN Absent
  ELSE [semaphore |-> entry.semaphore, users |-> entry.users - 1]

(* releaseLock.                                                            *)
ReleaseLock(f) ==
  /\ pc[f] = "leaving"
  /\ locks' = IF locks[key[f]].users = 0 THEN locks
              ELSE [locks EXCEPT ![key[f]] = WithoutUser(@)]
  /\ semaphore' = [semaphore EXCEPT ![f] = NoSemaphore]
  /\ pc' = [pc EXCEPT ![f] = "out"]
  /\ UNCHANGED <<taken, key>>

Next ==
  \E f \in Fiber :
    \/ \E k \in Key : AcquireLock(f, k)
    \/ TakePermit(f) \/ InterruptWait(f) \/ ReturnPermit(f) \/ ReleaseLock(f)

Spec == Init /\ [][Next]_vars

(* The work under a lock ends, and a semaphore serves its waiters in the   *)
(* order they came, so none is passed over for ever.                       *)
Fairness ==
  \A f \in Fiber :
    WF_vars(ReturnPermit(f)) /\ WF_vars(ReleaseLock(f)) /\ SF_vars(TakePermit(f))

FairSpec == Spec /\ Fairness

-----------------------------------------------------------------------------
(* Properties.                                                             *)

Users(k) == {f \in Fiber : pc[f] # "out" /\ key[f] = k}

(* Work that targets the same identity is serialized.                      *)
MutualExclusion ==
  \A f, g \in Fiber : pc[f] = "inside" /\ pc[g] = "inside" /\ key[f] = key[g] => f = g

(* Unrelated identities are not coupled: whoever finds a permit taken      *)
(* waits for someone under the same key.                                   *)
OnlySameKeyWaits ==
  \A f \in Fiber :
    pc[f] = "waiting" /\ semaphore[f] \in taken =>
      \E g \in Fiber : pc[g] = "inside" /\ key[g] = key[f]

(* The map keeps an entry exactly as long as the key has users, also when  *)
(* waits are interrupted: it neither leaks nor forgets.                    *)
EntriesAreUsed == \A k \in Key : locks[k].users = Cardinality(Users(k))

(* Whoever waits gets in or gives up.                                      *)
WaitersLeave == \A f \in Fiber : pc[f] = "waiting" ~> pc[f] # "waiting"

(* The executor implements the mutex; the map's bookkeeping is a stutter.  *)
Mutex == INSTANCE KeyedMutex WITH
  stage <- [f \in Fiber |-> IF pc[f] = "leaving" THEN "out" ELSE pc[f]],
  target <- key
ImplementsMutex == Mutex!Spec
=============================================================================
