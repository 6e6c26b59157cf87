--------------------- MODULE KeyedSerialExecutor_proofs ---------------------
(***************************************************************************)
(* The keyed executor serializes each key and couples no two keys, for any *)
(* number of fibers, keys and semaphores.                                  *)
(*                                                                         *)
(* MutualExclusion is not inductive: it rests on all users of a key        *)
(* sharing one semaphore, which rests on the map's count being exact (an   *)
(* entry deleted too early gives the next user a semaphore of its own).    *)
(***************************************************************************)
EXTENDS KeyedSerialExecutor, FiniteSetTheorems, TLAPS

(* An entry counts its users, and has a semaphore if it has any.           *)
EntryInv ==
  \A k \in Key :
    /\ locks[k].users = Cardinality(Users(k))
    /\ locks[k].users = 0 <=> locks[k].semaphore = NoSemaphore

(* Every user holds on to the semaphore of its key's entry.                *)
ShareInv ==
  \A f \in Fiber :
    IF pc[f] = "out" THEN semaphore[f] = NoSemaphore
    ELSE /\ semaphore[f] = locks[key[f]].semaphore
         /\ semaphore[f] \in Semaphore

(* No two keys share a semaphore.                                          *)
ApartInv ==
  \A k, l \in Key :
    locks[k].semaphore = locks[l].semaphore /\ locks[k].semaphore # NoSemaphore => k = l

(* A permit is taken by exactly one fiber inside.                          *)
PermitInv ==
  /\ \A s \in taken : \E f \in Fiber : pc[f] = "inside" /\ semaphore[f] = s
  /\ \A f \in Fiber : pc[f] = "inside" => semaphore[f] \in taken
  /\ \A f, g \in Fiber :
       pc[f] = "inside" /\ pc[g] = "inside" /\ semaphore[f] = semaphore[g] => f = g

IInv == TypeOK /\ EntryInv /\ ShareInv /\ ApartInv /\ PermitInv

-----------------------------------------------------------------------------
(* The users of a key can be counted.                                      *)
LEMMA UsersFinite == ASSUME NEW k \in Key PROVE IsFiniteSet(Users(k))
<1>1. Users(k) \subseteq Fiber
  BY DEF Users
<1> QED
  BY <1>1, ExecutorAssumption, FS_Subset

(* A fiber that has joined a key's users keeps the count above zero.       *)
LEMMA UsedEntry ==
  ASSUME TypeOK, EntryInv, NEW f \in Fiber, pc[f] # "out"
  PROVE  locks[key[f]].users \in Nat \ {0}
<1>1. key[f] \in Key
  BY DEF TypeOK
<1>2. f \in Users(key[f])
  BY DEF Users
<1>3. Cardinality(Users(key[f])) # 0
  BY <1>1, <1>2, UsersFinite, FS_EmptySet
<1> QED
  BY <1>1, <1>3 DEF TypeOK, EntryInv

(* The empty map satisfies the invariant.                                  *)
LEMMA InitIInv == Init => IInv
<1> SUFFICES ASSUME Init PROVE IInv
  OBVIOUS
<1>1. TypeOK
  BY DEF Init, TypeOK, Absent
<1>2. \A k \in Key : Users(k) = {}
  BY DEF Init, Users
<1>3. EntryInv
  BY <1>2, FS_EmptySet DEF Init, EntryInv, Absent
<1>4. ShareInv /\ ApartInv /\ PermitInv
  BY DEF Init, ShareInv, ApartInv, PermitInv, Absent
<1> QED
  BY <1>1, <1>3, <1>4 DEF IInv

(* Joining a key keeps the invariant.                                      *)
LEMMA AcquireStep ==
  ASSUME IInv, NEW f \in Fiber, NEW k \in Key, AcquireLock(f, k)
  PROVE  IInv'
<1> USE DEF IInv
<1>1. PICK candidate \in Semaphore :
        /\ Unreferenced(candidate)
        /\ Join(f, k, IF locks[k].users = 0 THEN candidate ELSE locks[k].semaphore)
  BY DEF AcquireLock
<1> DEFINE chosen == IF locks[k].users = 0 THEN candidate ELSE locks[k].semaphore
<1>2. /\ pc[f] = "out"
      /\ locks' = [locks EXCEPT ![k] = [semaphore |-> chosen, users |-> @.users + 1]]
      /\ semaphore' = [semaphore EXCEPT ![f] = chosen]
      /\ key' = [key EXCEPT ![f] = k]
      /\ pc' = [pc EXCEPT ![f] = "waiting"]
      /\ taken' = taken
  BY <1>1 DEF Join
<1>3. chosen \in Semaphore
  BY DEF EntryInv, TypeOK
<1> HIDE DEF chosen
<1>4. /\ locks'[k] = [semaphore |-> chosen, users |-> locks[k].users + 1]
      /\ \A l \in Key \ {k} : locks'[l] = locks[l]
  BY <1>2 DEF TypeOK
<1>5. TypeOK'
  BY <1>2, <1>3 DEF TypeOK
<1>6. EntryInv'
  <2>1. Users(k)' = Users(k) \cup {f} /\ f \notin Users(k)
    BY <1>2 DEF Users, TypeOK
  <2>2. Cardinality(Users(k)') = Cardinality(Users(k)) + 1
    BY <2>1, UsersFinite, FS_AddElement
  <2>3. \A l \in Key \ {k} : Users(l)' = Users(l)
    BY <1>2 DEF Users, TypeOK
  <2>4. chosen # NoSemaphore
    BY <1>3, ExecutorAssumption
  <2> QED
    BY <1>4, <2>2, <2>3, <2>4 DEF EntryInv, TypeOK
<1>7. ShareInv'
  <2> SUFFICES ASSUME NEW g \in Fiber
               PROVE  IF pc'[g] = "out" THEN semaphore'[g] = NoSemaphore
                      ELSE /\ semaphore'[g] = locks'[key'[g]].semaphore
                           /\ semaphore'[g] \in Semaphore
    BY DEF ShareInv
  <2>1. CASE g = f
    BY <2>1, <1>2, <1>3, <1>4 DEF TypeOK
  <2>2. CASE g # f /\ pc[g] = "out"
    BY <2>2, <1>2 DEF ShareInv, TypeOK
  <2>3. CASE g # f /\ pc[g] # "out" /\ key[g] = k
    <3>1. locks[k].users # 0
      BY <2>3, UsedEntry
    <3>2. chosen = locks[k].semaphore
      BY <3>1 DEF chosen
    <3> QED
      BY <2>3, <3>2, <1>2, <1>4 DEF ShareInv, TypeOK
  <2>4. CASE g # f /\ pc[g] # "out" /\ key[g] # k
    BY <2>4, <1>2, <1>4 DEF ShareInv, TypeOK
  <2> QED
    BY <2>1, <2>2, <2>3, <2>4
<1>8. ApartInv'
  <2>1. \A l \in Key \ {k} : locks[l].semaphore # NoSemaphore => locks[l].semaphore # chosen
    BY <1>1 DEF chosen, Unreferenced, ApartInv, EntryInv
  <2> QED
    BY <2>1, <1>4 DEF ApartInv
<1>9. PermitInv'
  BY <1>2 DEF PermitInv, TypeOK
<1> QED
  BY <1>5, <1>6, <1>7, <1>8, <1>9

(* The three steps between joining and leaving do not touch the map.       *)
LEMMA PermitStep ==
  ASSUME IInv, NEW f \in Fiber, TakePermit(f) \/ InterruptWait(f) \/ ReturnPermit(f)
  PROVE  IInv'
<1> USE DEF IInv
<1>1. /\ pc[f] # "out"
      /\ \E p \in {"inside", "leaving"} : pc' = [pc EXCEPT ![f] = p]
      /\ UNCHANGED <<locks, key, semaphore>>
  BY DEF TakePermit, InterruptWait, ReturnPermit
<1>2. semaphore[f] \in Semaphore
  BY <1>1 DEF ShareInv
<1>3. TypeOK'
  BY <1>1, <1>2 DEF TypeOK, TakePermit, InterruptWait, ReturnPermit
<1>4. EntryInv'
  <2>1. \A k \in Key : Users(k)' = Users(k)
    BY <1>1 DEF Users, TypeOK
  <2> QED
    BY <2>1, <1>1 DEF EntryInv
<1>5. ShareInv' /\ ApartInv'
  BY <1>1 DEF ShareInv, ApartInv, TypeOK
<1>6. PermitInv'
  <2>1. CASE TakePermit(f)
    BY <2>1 DEF TakePermit, PermitInv, TypeOK
  <2>2. CASE InterruptWait(f)
    BY <2>2 DEF InterruptWait, PermitInv, TypeOK
  <2>3. CASE ReturnPermit(f)
    BY <2>3 DEF ReturnPermit, PermitInv, TypeOK
  <2> QED
    BY <2>1, <2>2, <2>3
<1> QED
  BY <1>3, <1>4, <1>5, <1>6

(* Leaving a key, as its last user or not, keeps the invariant.            *)
LEMMA ReleaseStep ==
  ASSUME IInv, NEW f \in Fiber, ReleaseLock(f)
  PROVE  IInv'
<1> USE DEF IInv
<1>0. PICK k \in Key : k = key[f]
  BY DEF TypeOK
<1>1. pc[f] = "leaving"
  BY DEF ReleaseLock
<1>2. locks[k].users \in Nat \ {0}
  BY <1>0, <1>1, UsedEntry
<1>3. /\ locks' = [locks EXCEPT ![k] = WithoutUser(@)]
      /\ semaphore' = [semaphore EXCEPT ![f] = NoSemaphore]
      /\ pc' = [pc EXCEPT ![f] = "out"]
      /\ taken' = taken /\ key' = key
  BY <1>0, <1>2 DEF ReleaseLock
<1>4. locks'[k] = WithoutUser(locks[k]) /\ \A l \in Key \ {k} : locks'[l] = locks[l]
  BY <1>1, <1>3 DEF TypeOK
<1>5. /\ WithoutUser(locks[k]) \in [semaphore : Semaphore \cup {NoSemaphore}, users : Nat]
      /\ WithoutUser(locks[k]).users = locks[k].users - 1
      /\ WithoutUser(locks[k]).semaphore
           = IF locks[k].users = 1 THEN NoSemaphore ELSE locks[k].semaphore
  BY <1>1, <1>2 DEF WithoutUser, Absent, TypeOK
<1>6. TypeOK'
  <2>1. locks' \in [Key -> [semaphore : Semaphore \cup {NoSemaphore}, users : Nat]]
    BY <1>0, <1>3, <1>5 DEF TypeOK
  <2>2. /\ semaphore' \in [Fiber -> Semaphore \cup {NoSemaphore}]
        /\ pc' = [pc EXCEPT ![f] = "out"]
    BY <1>3 DEF TypeOK
  <2> QED
    BY <1>3, <2>1, <2>2 DEF TypeOK
<1>7. Users(k)' = Users(k) \ {f} /\ f \in Users(k)
  BY <1>0, <1>1, <1>3 DEF Users, TypeOK
<1>8. EntryInv'
  <2>1. Cardinality(Users(k)') = Cardinality(Users(k)) - 1
    BY <1>1, <1>7, UsersFinite, FS_RemoveElement
  <2>2. \A l \in Key \ {k} : Users(l)' = Users(l)
    BY <1>0, <1>1, <1>3 DEF Users, TypeOK
  <2> QED
    BY <1>1, <1>2, <1>4, <1>5, <2>1, <2>2 DEF EntryInv, TypeOK
<1>9. ShareInv'
  <2> SUFFICES ASSUME NEW g \in Fiber
               PROVE  IF pc'[g] = "out" THEN semaphore'[g] = NoSemaphore
                      ELSE /\ semaphore'[g] = locks'[key'[g]].semaphore
                           /\ semaphore'[g] \in Semaphore
    BY DEF ShareInv
  <2>1. CASE g = f
    BY <2>1, <1>3 DEF TypeOK
  <2>2. CASE g # f /\ (pc[g] = "out" \/ key[g] # k)
    BY <2>2, <1>3, <1>4 DEF ShareInv, TypeOK
  <2>3. CASE g # f /\ pc[g] # "out" /\ key[g] = k
    <3>1. g \in Users(k)'
      BY <2>3, <1>7 DEF Users
    <3>2. locks'[k].users # 0
      <4>1. IsFiniteSet(Users(k)')
        BY <1>1, <1>7, UsersFinite, FS_RemoveElement
      <4>2. Cardinality(Users(k)') # 0
        BY <3>1, <4>1, FS_EmptySet
      <4> QED
        BY <1>1, <1>8, <4>2 DEF EntryInv
    <3>3. locks'[k].semaphore = locks[k].semaphore
      BY <3>2, <1>2, <1>4, <1>5
    <3> QED
      BY <2>3, <3>3, <1>3 DEF ShareInv, TypeOK
  <2> QED
    BY <2>1, <2>2, <2>3
<1>10. ApartInv'
  BY <1>1, <1>4, <1>5 DEF ApartInv
<1>11. PermitInv'
  BY <1>0, <1>1, <1>3 DEF PermitInv, TypeOK
<1> QED
  BY <1>6, <1>8, <1>9, <1>10, <1>11

(* The strengthened invariant holds in every reachable state.              *)
THEOREM Inductive == Spec => []IInv
<1>1. IInv /\ [Next]_vars => IInv'
  <2> SUFFICES ASSUME IInv, [Next]_vars PROVE IInv'
    OBVIOUS
  <2>1. ASSUME NEW f \in Fiber, NEW k \in Key, AcquireLock(f, k) PROVE IInv'
    BY <2>1, AcquireStep
  <2>2. ASSUME NEW f \in Fiber, TakePermit(f) \/ InterruptWait(f) \/ ReturnPermit(f)
        PROVE  IInv'
    BY <2>2, PermitStep
  <2>3. ASSUME NEW f \in Fiber, ReleaseLock(f) PROVE IInv'
    BY <2>3, ReleaseStep
  <2>4. CASE UNCHANGED vars
    BY <2>4 DEF vars, IInv, TypeOK, EntryInv, Users, ShareInv, ApartInv, PermitInv
  <2> QED
    BY <2>1, <2>2, <2>3, <2>4 DEF Next
<1> QED
  BY <1>1, InitIInv, PTL DEF Spec

(* Keys, semaphores, counts and permits keep their types: no reference count *)
(* goes below zero.                                                          *)
THEOREM TypeCorrect == Spec => []TypeOK
<1>1. IInv => TypeOK
  BY DEF IInv
<1> QED
  BY <1>1, Inductive, PTL

-----------------------------------------------------------------------------
(* Work under one key is serialized (withLock).                            *)
THEOREM Serialized == Spec => []MutualExclusion
<1>1. IInv => MutualExclusion
  BY DEF IInv, ShareInv, PermitInv, MutualExclusion
<1> QED
  BY <1>1, Inductive, PTL

(* Nobody waits for work under another key.                                *)
THEOREM Uncoupled == Spec => []OnlySameKeyWaits
<1>1. IInv => OnlySameKeyWaits
  <2> SUFFICES ASSUME IInv, NEW f \in Fiber, pc[f] = "waiting", semaphore[f] \in taken
               PROVE  \E g \in Fiber : pc[g] = "inside" /\ key[g] = key[f]
    BY DEF OnlySameKeyWaits
  <2>1. PICK g \in Fiber : pc[g] = "inside" /\ semaphore[g] = semaphore[f]
    BY DEF IInv, PermitInv
  <2>2. /\ locks[key[g]].semaphore = locks[key[f]].semaphore
        /\ locks[key[g]].semaphore \in Semaphore
        /\ key[g] \in Key /\ key[f] \in Key
    BY <2>1 DEF IInv, ShareInv, TypeOK
  <2>3. key[g] = key[f]
    BY <2>2, ExecutorAssumption DEF IInv, ApartInv
  <2> QED
    BY <2>1, <2>3
<1> QED
  BY <1>1, Inductive, PTL

(* The map has an entry exactly for the keys in use.                       *)
THEOREM EntriesExact == Spec => []EntriesAreUsed
<1>1. IInv => EntriesAreUsed
  BY DEF IInv, EntryInv, EntriesAreUsed
<1> QED
  BY <1>1, Inductive, PTL

(* Every behaviour of the executor is one of the abstract keyed mutex.     *)
THEOREM Refinement == Spec => ImplementsMutex
<1> DEFINE Stage == [f \in Fiber |-> IF pc[f] = "leaving" THEN "out" ELSE pc[f]]
<1>1. Init => Mutex!Init
  BY DEF Init, Mutex!Init
<1>2. IInv /\ [Next]_vars => [Mutex!Next]_<<Stage, key>>
  <2> SUFFICES ASSUME IInv, Next PROVE [Mutex!Next]_<<Stage, key>>
    BY DEF vars
  <2>1. ASSUME NEW f \in Fiber, NEW k \in Key, AcquireLock(f, k) PROVE Mutex!Request(f, k)
    BY <2>1 DEF AcquireLock, Join, Mutex!Request, IInv, TypeOK
  <2>2. ASSUME NEW f \in Fiber, TakePermit(f) PROVE Mutex!Enter(f)
    <3>1. \A g \in Fiber : key[g] = key[f] => pc[g] # "inside"
      BY <2>2 DEF TakePermit, IInv, ShareInv, PermitInv
    <3> QED
      BY <2>2, <3>1 DEF TakePermit, Mutex!Enter, IInv, TypeOK
  <2>3. ASSUME NEW f \in Fiber, InterruptWait(f) \/ ReturnPermit(f) PROVE Mutex!Leave(f)
    BY <2>3 DEF InterruptWait, ReturnPermit, Mutex!Leave, IInv, TypeOK
  <2>4. ASSUME NEW f \in Fiber, ReleaseLock(f) PROVE UNCHANGED <<Stage, key>>
    BY <2>4 DEF ReleaseLock, IInv, TypeOK
  <2> QED
    BY <2>1, <2>2, <2>3, <2>4 DEF Next, Mutex!Next
<1> QED
  BY <1>1, <1>2, Inductive, PTL DEF Spec, ImplementsMutex, Mutex!Spec
=============================================================================
