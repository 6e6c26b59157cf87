------------------------- MODULE EffectOutbox_proofs -------------------------
(***************************************************************************)
(* Proofs about EffectOutbox for every set of effects, slots and threads   *)
(* and every bound.  IInv is the inductive invariant; the properties the   *)
(* model checker checks on small instances follow from it.                 *)
(***************************************************************************)
EXTENDS EffectOutbox, TLAPS

(* A slot has an effect exactly when it is not idle, and slots only work   *)
(* while the server is up.                                                 *)
SlotsInv ==
  \A s \in Slot :
    /\ pc[s] # "idle" => work[s] \in Effect
    /\ pc[s] = "idle" => work[s] = NoEffect
    /\ proc # "up" => pc[s] = "idle"

(* What a slot holds is running under this process or cancelled, and no    *)
(* two slots hold the same effect.                                         *)
HoldInv ==
  /\ SoleHolder
  /\ \A s \in Slot : \A e \in Effect :
       Holds(s, e) => Owns(e) \/ status[e] = "cancelled"

(* A completed Deferred, a dropped claim and an interrupted execution all  *)
(* stand for a cancelled row.                                              *)
SignalInv ==
  /\ \A e \in unsignalled : status[e] = "cancelled"
  /\ \A s \in Slot :
       \/ pc[s] \in {"idle", "claimed"}
       \/ status[work[s]] = "cancelled"
       \/ ~fired[s] /\ pc[s] # "drop" /\ (pc[s] = "clear" => outcome[s] # "cancelled")

(* One running row per lane, of this process once it is up.                *)
LaneInv ==
  /\ \A e, f \in Effect :
       SameLane(e, f) /\ status[e] = "running" /\ status[f] = "running" => e = f
  /\ \A e \in Effect : proc = "up" /\ status[e] = "running" => owner[e] = epoch

(* Between the two statements of reconcileAfterProcessLoss nothing bound   *)
(* to a process is unsettled.                                              *)
RetiredInv ==
  proc \in {"bootRequeue", "stopRequeue"} =>
    \A e \in Effect : ProcessBound(e) => ~Unsettled(e)

(* A running row without a slot has cost two faults, or does not decode.   *)
StrandInv ==
  /\ \A s \in Slot : pc[s] = "repair" => faults >= 1
  /\ \A e \in Effect : proc = "up" /\ status[e] = "running" =>
       (\E s \in Slot : Holds(s, e)) \/ faults >= 2 \/ e \in Undecodable

(* What may still be claimed has an attempt left of those that maxAttempts, *)
(* the restarts and the failed statements account for.                     *)
Spare(e) == attempts[e] + 2 <= MaxAttempts + epoch + faults
BudgetInv ==
  /\ epoch >= 1 /\ AttemptsBounded
  /\ \A e \in Effect :
       \/ proc \in {"bootRetire", "bootRequeue"}
       \/ proc = "up" /\ status[e] \in {"absent", "pending"}
       => Spare(e)
  /\ \A s \in Slot : pc[s] = "repair" => Spare(work[s])

(* As long as no statement fails, the map's Deferred of an effect is that  *)
(* of the slot that is going to execute it, no other slot has the effect,  *)
(* and none can claim it before its entry has been forgotten.              *)
ArrivalInv ==
  faults = 0 =>
    /\ CancellationReachesExecution
    /\ \A s \in Slot : pc[s] \in {"arm", "check", "execute"} => signal[work[s]] = s
    /\ \A s, t \in Slot : pc[s] # "idle" /\ work[s] = work[t] => s = t
    /\ \A s \in Slot : pc[s] = "forget" =>
         status[work[s]] \in Settled \/ (status[work[s]] = "pending" /\ ~due[work[s]])

IInv ==
  /\ TypeOK /\ SlotsInv /\ HoldInv /\ SignalInv /\ LaneInv /\ RetiredInv /\ StrandInv
  /\ BudgetInv /\ ArrivalInv

-----------------------------------------------------------------------------
(* Every action keeps the types.                                           *)
LEMMA TypeStep == IInv /\ [Next]_vars => TypeOK'
<1> SUFFICES ASSUME IInv, [Next]_vars PROVE TypeOK'
  OBVIOUS
<1> USE OutboxAssumption DEF IInv, TypeOK, SlotsInv, Status, Settled, Steps, Outcomes, Phases
<1>1. ASSUME NEW e \in Effect, Enqueue(e) PROVE TypeOK'
  BY <1>1 DEF Enqueue, rows, signals, slots
<1>2. ASSUME NEW e \in Effect, SignalCancellation(e) PROVE TypeOK'
  BY <1>2 DEF SignalCancellation, rows, signals, slots
<1>3. ASSUME NEW e \in Effect, DelayElapses(e) PROVE TypeOK'
  BY <1>3 DEF DelayElapses, rows, signals, slots
<1>4. ASSUME NEW t \in Thread, InterruptRun(t) PROVE TypeOK'
  BY <1>4 DEF InterruptRun, CancelUnsettled, Unsettled, rows, signals, slots
<1>5. ASSUME NEW t \in Thread, ReconcileThread(t) PROVE TypeOK'
  BY <1>5 DEF ReconcileThread, CancelUnsettled, Unsettled, rows, signals, slots
<1>6. ASSUME NEW s \in Slot, NEW e \in Effect, ClaimNext(s, e) PROVE TypeOK'
  BY <1>6 DEF ClaimNext, Claimable, rows, signals, slots
<1>7. ASSUME NEW s \in Slot, RegisterSignal(s) PROVE TypeOK'
  BY <1>7 DEF RegisterSignal, Release, Goto, rows, signals, slots
<1>8. ASSUME NEW s \in Slot, AwaitCancellation(s) PROVE TypeOK'
  BY <1>8 DEF AwaitCancellation, Goto, rows, signals, slots
<1>9. ASSUME NEW s \in Slot, CheckCancelled(s) PROVE TypeOK'
  BY <1>9 DEF CheckCancelled, Goto, rows, signals, slots
<1>10. ASSUME NEW s \in Slot, DropCancelled(s) PROVE TypeOK'
  BY <1>10 DEF DropCancelled, Release, rows, signals, slots
<1>11. ASSUME NEW s \in Slot, ExecutorReturns(s) PROVE TypeOK'
  BY <1>11 DEF ExecutorReturns, Finish, rows, signals, slots
<1>12. ASSUME NEW s \in Slot, ExecutionCancelled(s) PROVE TypeOK'
  BY <1>12 DEF ExecutionCancelled, Finish, rows, signals, slots
<1>13. ASSUME NEW s \in Slot, ClearCancellation(s) PROVE TypeOK'
  BY <1>13 DEF ClearCancellation, Release, Goto, rows, signals, slots
<1>14. ASSUME NEW s \in Slot, SettleClaim(s) PROVE TypeOK'
  <2> DEFINE e == work[s]
  <2>1. pc[s] # "idle" /\ e \in Effect
    BY <1>14 DEF SettleClaim
  <2>2. CASE Close(e, "succeeded") \/ Close(e, "failed")
    BY <1>14, <2>1, <2>2 DEF SettleClaim, Close, SetStatus, Goto, signals
  <2>3. CASE \E ready \in BOOLEAN : Retry(e, ready)
    BY <1>14, <2>1, <2>3 DEF SettleClaim, Retry, SetStatus, Goto, signals
  <2> QED
    BY <1>14, <2>2, <2>3 DEF SettleClaim
<1>15. ASSUME NEW s \in Slot, RepairClaim(s) PROVE TypeOK'
  <2> DEFINE e == work[s]
  <2>1. pc[s] # "idle" /\ e \in Effect
    BY <1>15 DEF RepairClaim
  <2>2. CASE Close(e, "succeeded") \/ Close(e, "failed")
    BY <1>15, <2>1, <2>2 DEF RepairClaim, Close, SetStatus, Goto, signals
  <2>3. CASE \E ready \in BOOLEAN : Retry(e, ready)
    BY <1>15, <2>1, <2>3 DEF RepairClaim, Retry, SetStatus, Goto, signals
  <2> QED
    BY <1>15, <2>2, <2>3 DEF RepairClaim
<1>16. ASSUME NEW s \in Slot, LoseClaim(s) PROVE TypeOK'
  BY <1>16 DEF LoseClaim, Owns, Release, rows, signals, slots
<1>17. ASSUME NEW s \in Slot, CheckFails(s) PROVE TypeOK'
  BY <1>17 DEF CheckFails, Goto, Fault, rows, signals, slots
<1>18. ASSUME NEW s \in Slot, SettlementFails(s) PROVE TypeOK'
  BY <1>18 DEF SettlementFails, Goto, Fault, rows, signals, slots
<1>19. ASSUME NEW s \in Slot, RepairFails(s) PROVE TypeOK'
  BY <1>19 DEF RepairFails, Release, Fault, rows, signals, slots
<1>20. ASSUME NEW s \in Slot, ForgetSignal(s) PROVE TypeOK'
  BY <1>20 DEF ForgetSignal, Release, rows, signals, slots
<1>21. CASE Crash
  BY <1>21 DEF Crash, LoseProcess, rows, signals, slots
<1>22. CASE StopWorkers
  BY <1>22 DEF StopWorkers, LoseProcess, rows, signals, slots
<1>23. CASE Boot
  BY <1>23 DEF Boot, rows, signals, slots
<1>24. CASE RetireProcessBound
  BY <1>24 DEF RetireProcessBound, Unsettled, rows, signals, slots
<1>25. CASE RequeueReplaySafe
  BY <1>25 DEF RequeueReplaySafe, rows, signals, slots
<1>26. CASE UNCHANGED vars
  BY <1>26 DEF vars, rows, signals, slots
<1> QED BY <1>1, <1>2, <1>3, <1>4, <1>5, <1>6, <1>7, <1>8, <1>9, <1>10, <1>11, <1>12, <1>13, <1>14, <1>15, <1>16, <1>17, <1>18, <1>19, <1>20, <1>21, <1>22, <1>23, <1>24, <1>25, <1>26 DEF Next, RunOnce

(* Slots take and leave effects together with their step.                  *)
LEMMA SlotsStep == IInv /\ [Next]_vars => SlotsInv'
<1> SUFFICES ASSUME IInv, [Next]_vars PROVE SlotsInv'
  OBVIOUS
<1> USE OutboxAssumption DEF IInv, TypeOK, SlotsInv, Status, Settled, Steps, Outcomes, Phases
<1>1. ASSUME NEW e \in Effect, Enqueue(e) PROVE SlotsInv'
  BY <1>1 DEF Enqueue, rows, signals, slots
<1>2. ASSUME NEW e \in Effect, SignalCancellation(e) PROVE SlotsInv'
  BY <1>2 DEF SignalCancellation, rows, signals, slots
<1>3. ASSUME NEW e \in Effect, DelayElapses(e) PROVE SlotsInv'
  BY <1>3 DEF DelayElapses, rows, signals, slots
<1>4. ASSUME NEW t \in Thread, InterruptRun(t) PROVE SlotsInv'
  BY <1>4 DEF InterruptRun, CancelUnsettled, Unsettled, rows, signals, slots
<1>5. ASSUME NEW t \in Thread, ReconcileThread(t) PROVE SlotsInv'
  BY <1>5 DEF ReconcileThread, CancelUnsettled, Unsettled, rows, signals, slots
<1>6. ASSUME NEW s \in Slot, NEW e \in Effect, ClaimNext(s, e) PROVE SlotsInv'
  BY <1>6 DEF ClaimNext, Claimable, rows, signals, slots
<1>7. ASSUME NEW s \in Slot, RegisterSignal(s) PROVE SlotsInv'
  BY <1>7 DEF RegisterSignal, Release, Goto, rows, signals, slots
<1>8. ASSUME NEW s \in Slot, AwaitCancellation(s) PROVE SlotsInv'
  BY <1>8 DEF AwaitCancellation, Goto, rows, signals, slots
<1>9. ASSUME NEW s \in Slot, CheckCancelled(s) PROVE SlotsInv'
  BY <1>9 DEF CheckCancelled, Goto, rows, signals, slots
<1>10. ASSUME NEW s \in Slot, DropCancelled(s) PROVE SlotsInv'
  BY <1>10 DEF DropCancelled, Release, rows, signals, slots
<1>11. ASSUME NEW s \in Slot, ExecutorReturns(s) PROVE SlotsInv'
  BY <1>11 DEF ExecutorReturns, Finish, rows, signals, slots
<1>12. ASSUME NEW s \in Slot, ExecutionCancelled(s) PROVE SlotsInv'
  BY <1>12 DEF ExecutionCancelled, Finish, rows, signals, slots
<1>13. ASSUME NEW s \in Slot, ClearCancellation(s) PROVE SlotsInv'
  BY <1>13 DEF ClearCancellation, Release, Goto, rows, signals, slots
<1>14. ASSUME NEW s \in Slot, SettleClaim(s) PROVE SlotsInv'
  BY <1>14 DEF SettleClaim, Owns, Close, Retry, SetStatus, Goto, rows, signals, slots
<1>15. ASSUME NEW s \in Slot, RepairClaim(s) PROVE SlotsInv'
  BY <1>15 DEF RepairClaim, Owns, Close, Retry, SetStatus, Goto, rows, signals, slots
<1>16. ASSUME NEW s \in Slot, LoseClaim(s) PROVE SlotsInv'
  BY <1>16 DEF LoseClaim, Owns, Release, rows, signals, slots
<1>17. ASSUME NEW s \in Slot, CheckFails(s) PROVE SlotsInv'
  BY <1>17 DEF CheckFails, Goto, Fault, rows, signals, slots
<1>18. ASSUME NEW s \in Slot, SettlementFails(s) PROVE SlotsInv'
  BY <1>18 DEF SettlementFails, Goto, Fault, rows, signals, slots
<1>19. ASSUME NEW s \in Slot, RepairFails(s) PROVE SlotsInv'
  BY <1>19 DEF RepairFails, Release, Fault, rows, signals, slots
<1>20. ASSUME NEW s \in Slot, ForgetSignal(s) PROVE SlotsInv'
  BY <1>20 DEF ForgetSignal, Release, rows, signals, slots
<1>21. CASE Crash
  BY <1>21 DEF Crash, LoseProcess, rows, signals, slots
<1>22. CASE StopWorkers
  BY <1>22 DEF StopWorkers, LoseProcess, rows, signals, slots
<1>23. CASE Boot
  BY <1>23 DEF Boot, rows, signals, slots
<1>24. CASE RetireProcessBound
  BY <1>24 DEF RetireProcessBound, Unsettled, rows, signals, slots
<1>25. CASE RequeueReplaySafe
  BY <1>25 DEF RequeueReplaySafe, rows, signals, slots
<1>26. CASE UNCHANGED vars
  BY <1>26 DEF vars, rows, signals, slots
<1> QED BY <1>1, <1>2, <1>3, <1>4, <1>5, <1>6, <1>7, <1>8, <1>9, <1>10, <1>11, <1>12, <1>13, <1>14, <1>15, <1>16, <1>17, <1>18, <1>19, <1>20, <1>21, <1>22, <1>23, <1>24, <1>25, <1>26 DEF Next, RunOnce

(* Only a claim gives a slot an effect, and it takes a pending one.        *)
LEMMA HoldStep == IInv /\ [Next]_vars => HoldInv'
<1> SUFFICES ASSUME IInv, [Next]_vars PROVE HoldInv'
  OBVIOUS
<1> USE OutboxAssumption DEF IInv, TypeOK, SlotsInv, HoldInv, SoleHolder, Holds, Owns, Unsettled, Status, Settled, Steps, Outcomes, Phases
<1>1. ASSUME NEW e \in Effect, Enqueue(e) PROVE HoldInv'
  BY <1>1 DEF Enqueue, rows, signals, slots
<1>2. ASSUME NEW e \in Effect, SignalCancellation(e) PROVE HoldInv'
  BY <1>2 DEF SignalCancellation, rows, signals, slots
<1>3. ASSUME NEW e \in Effect, DelayElapses(e) PROVE HoldInv'
  BY <1>3 DEF DelayElapses, rows, signals, slots
<1>4. ASSUME NEW t \in Thread, InterruptRun(t) PROVE HoldInv'
  BY <1>4 DEF InterruptRun, CancelUnsettled, rows, signals, slots
<1>5. ASSUME NEW t \in Thread, ReconcileThread(t) PROVE HoldInv'
  BY <1>5 DEF ReconcileThread, CancelUnsettled, rows, signals, slots
<1>6. ASSUME NEW s \in Slot, NEW e \in Effect, ClaimNext(s, e) PROVE HoldInv'
  BY <1>6 DEF ClaimNext, Claimable, rows, signals, slots
<1>7. ASSUME NEW s \in Slot, RegisterSignal(s) PROVE HoldInv'
  BY <1>7 DEF RegisterSignal, Release, Goto, rows, signals, slots
<1>8. ASSUME NEW s \in Slot, AwaitCancellation(s) PROVE HoldInv'
  BY <1>8 DEF AwaitCancellation, Goto, rows, signals, slots
<1>9. ASSUME NEW s \in Slot, CheckCancelled(s) PROVE HoldInv'
  BY <1>9 DEF CheckCancelled, Goto, rows, signals, slots
<1>10. ASSUME NEW s \in Slot, DropCancelled(s) PROVE HoldInv'
  BY <1>10 DEF DropCancelled, Release, rows, signals, slots
<1>11. ASSUME NEW s \in Slot, ExecutorReturns(s) PROVE HoldInv'
  BY <1>11 DEF ExecutorReturns, Finish, rows, signals, slots
<1>12. ASSUME NEW s \in Slot, ExecutionCancelled(s) PROVE HoldInv'
  BY <1>12 DEF ExecutionCancelled, Finish, rows, signals, slots
<1>13. ASSUME NEW s \in Slot, ClearCancellation(s) PROVE HoldInv'
  BY <1>13 DEF ClearCancellation, Release, Goto, rows, signals, slots
<1>14. ASSUME NEW s \in Slot, SettleClaim(s) PROVE HoldInv'
  BY <1>14 DEF SettleClaim, Close, Retry, SetStatus, Goto, rows, signals, slots
<1>15. ASSUME NEW s \in Slot, RepairClaim(s) PROVE HoldInv'
  BY <1>15 DEF RepairClaim, Close, Retry, SetStatus, Goto, rows, signals, slots
<1>16. ASSUME NEW s \in Slot, LoseClaim(s) PROVE HoldInv'
  BY <1>16 DEF LoseClaim, Release, rows, signals, slots
<1>17. ASSUME NEW s \in Slot, CheckFails(s) PROVE HoldInv'
  BY <1>17 DEF CheckFails, Goto, Fault, rows, signals, slots
<1>18. ASSUME NEW s \in Slot, SettlementFails(s) PROVE HoldInv'
  BY <1>18 DEF SettlementFails, Goto, Fault, rows, signals, slots
<1>19. ASSUME NEW s \in Slot, RepairFails(s) PROVE HoldInv'
  BY <1>19 DEF RepairFails, Release, Fault, rows, signals, slots
<1>20. ASSUME NEW s \in Slot, ForgetSignal(s) PROVE HoldInv'
  BY <1>20 DEF ForgetSignal, Release, rows, signals, slots
<1>21. CASE Crash
  BY <1>21 DEF Crash, LoseProcess, rows, signals, slots
<1>22. CASE StopWorkers
  BY <1>22 DEF StopWorkers, LoseProcess, rows, signals, slots
<1>23. CASE Boot
  BY <1>23 DEF Boot, rows, signals, slots
<1>24. CASE RetireProcessBound
  BY <1>24 DEF RetireProcessBound, rows, signals, slots
<1>25. CASE RequeueReplaySafe
  BY <1>25 DEF RequeueReplaySafe, rows, signals, slots
<1>26. CASE UNCHANGED vars
  BY <1>26 DEF vars, rows, signals, slots
<1> QED BY <1>1, <1>2, <1>3, <1>4, <1>5, <1>6, <1>7, <1>8, <1>9, <1>10, <1>11, <1>12, <1>13, <1>14, <1>15, <1>16, <1>17, <1>18, <1>19, <1>20, <1>21, <1>22, <1>23, <1>24, <1>25, <1>26 DEF Next, RunOnce

(* A row is cancelled before its Deferred is completed.                    *)
LEMMA SignalStep == IInv /\ [Next]_vars => SignalInv'
<1> SUFFICES ASSUME IInv, [Next]_vars PROVE SignalInv'
  OBVIOUS
<1> USE OutboxAssumption DEF IInv, TypeOK, SlotsInv, HoldInv, SoleHolder, Holds, SignalInv, Owns, Unsettled, Status, Settled, Steps, Outcomes, Phases
<1>1. ASSUME NEW e \in Effect, Enqueue(e) PROVE SignalInv'
  BY <1>1 DEF Enqueue, rows, signals, slots
<1>2. ASSUME NEW e \in Effect, SignalCancellation(e) PROVE SignalInv'
  BY <1>2 DEF SignalCancellation, rows, signals, slots
<1>3. ASSUME NEW e \in Effect, DelayElapses(e) PROVE SignalInv'
  BY <1>3 DEF DelayElapses, rows, signals, slots
<1>4. ASSUME NEW t \in Thread, InterruptRun(t) PROVE SignalInv'
  BY <1>4 DEF InterruptRun, CancelUnsettled, rows, signals, slots
<1>5. ASSUME NEW t \in Thread, ReconcileThread(t) PROVE SignalInv'
  BY <1>5 DEF ReconcileThread, CancelUnsettled, rows, signals, slots
<1>6. ASSUME NEW s \in Slot, NEW e \in Effect, ClaimNext(s, e) PROVE SignalInv'
  BY <1>6 DEF ClaimNext, Claimable, rows, signals, slots
<1>7. ASSUME NEW s \in Slot, RegisterSignal(s) PROVE SignalInv'
  BY <1>7 DEF RegisterSignal, Release, Goto, rows, signals, slots
<1>8. ASSUME NEW s \in Slot, AwaitCancellation(s) PROVE SignalInv'
  BY <1>8 DEF AwaitCancellation, Goto, rows, signals, slots
<1>9. ASSUME NEW s \in Slot, CheckCancelled(s) PROVE SignalInv'
  BY <1>9 DEF CheckCancelled, Goto, rows, signals, slots
<1>10. ASSUME NEW s \in Slot, DropCancelled(s) PROVE SignalInv'
  BY <1>10 DEF DropCancelled, Release, rows, signals, slots
<1>11. ASSUME NEW s \in Slot, ExecutorReturns(s) PROVE SignalInv'
  BY <1>11 DEF ExecutorReturns, Finish, rows, signals, slots
<1>12. ASSUME NEW s \in Slot, ExecutionCancelled(s) PROVE SignalInv'
  BY <1>12 DEF ExecutionCancelled, Finish, rows, signals, slots
<1>13. ASSUME NEW s \in Slot, ClearCancellation(s) PROVE SignalInv'
  BY <1>13 DEF ClearCancellation, Release, Goto, rows, signals, slots
<1>14. ASSUME NEW s \in Slot, SettleClaim(s) PROVE SignalInv'
  BY <1>14 DEF SettleClaim, Close, Retry, SetStatus, Goto, rows, signals, slots
<1>15. ASSUME NEW s \in Slot, RepairClaim(s) PROVE SignalInv'
  BY <1>15 DEF RepairClaim, Close, Retry, SetStatus, Goto, rows, signals, slots
<1>16. ASSUME NEW s \in Slot, LoseClaim(s) PROVE SignalInv'
  BY <1>16 DEF LoseClaim, Release, rows, signals, slots
<1>17. ASSUME NEW s \in Slot, CheckFails(s) PROVE SignalInv'
  BY <1>17 DEF CheckFails, Goto, Fault, rows, signals, slots
<1>18. ASSUME NEW s \in Slot, SettlementFails(s) PROVE SignalInv'
  BY <1>18 DEF SettlementFails, Goto, Fault, rows, signals, slots
<1>19. ASSUME NEW s \in Slot, RepairFails(s) PROVE SignalInv'
  BY <1>19 DEF RepairFails, Release, Fault, rows, signals, slots
<1>20. ASSUME NEW s \in Slot, ForgetSignal(s) PROVE SignalInv'
  BY <1>20 DEF ForgetSignal, Release, rows, signals, slots
<1>21. CASE Crash
  BY <1>21 DEF Crash, LoseProcess, rows, signals, slots
<1>22. CASE StopWorkers
  BY <1>22 DEF StopWorkers, LoseProcess, rows, signals, slots
<1>23. CASE Boot
  BY <1>23 DEF Boot, rows, signals, slots
<1>24. CASE RetireProcessBound
  BY <1>24 DEF RetireProcessBound, rows, signals, slots
<1>25. CASE RequeueReplaySafe
  BY <1>25 DEF RequeueReplaySafe, rows, signals, slots
<1>26. CASE UNCHANGED vars
  BY <1>26 DEF vars, rows, signals, slots
<1> QED BY <1>1, <1>2, <1>3, <1>4, <1>5, <1>6, <1>7, <1>8, <1>9, <1>10, <1>11, <1>12, <1>13, <1>14, <1>15, <1>16, <1>17, <1>18, <1>19, <1>20, <1>21, <1>22, <1>23, <1>24, <1>25, <1>26 DEF Next, RunOnce

(* The claim's WHERE clause keeps lanes exclusive; recovery empties them   *)
(* before the process comes up.                                            *)
LEMMA LaneStep == IInv /\ [Next]_vars => LaneInv'
<1> SUFFICES ASSUME IInv, [Next]_vars PROVE LaneInv'
  OBVIOUS
<1> USE OutboxAssumption DEF IInv, TypeOK, SlotsInv, LaneInv, RetiredInv, ReplaySafe, ProcessBound, SameLane, Unsettled, Status, Settled, Steps, Outcomes, Phases
<1>1. ASSUME NEW e \in Effect, Enqueue(e) PROVE LaneInv'
  BY <1>1 DEF Enqueue, rows, signals, slots
<1>2. ASSUME NEW e \in Effect, SignalCancellation(e) PROVE LaneInv'
  BY <1>2 DEF SignalCancellation, rows, signals, slots
<1>3. ASSUME NEW e \in Effect, DelayElapses(e) PROVE LaneInv'
  BY <1>3 DEF DelayElapses, rows, signals, slots
<1>4. ASSUME NEW t \in Thread, InterruptRun(t) PROVE LaneInv'
  BY <1>4 DEF InterruptRun, CancelUnsettled, rows, signals, slots
<1>5. ASSUME NEW t \in Thread, ReconcileThread(t) PROVE LaneInv'
  BY <1>5 DEF ReconcileThread, CancelUnsettled, rows, signals, slots
<1>6. ASSUME NEW s \in Slot, NEW e \in Effect, ClaimNext(s, e) PROVE LaneInv'
  BY <1>6 DEF ClaimNext, Claimable, rows, signals, slots
<1>7. ASSUME NEW s \in Slot, RegisterSignal(s) PROVE LaneInv'
  BY <1>7 DEF RegisterSignal, Release, Goto, rows, signals, slots
<1>8. ASSUME NEW s \in Slot, AwaitCancellation(s) PROVE LaneInv'
  BY <1>8 DEF AwaitCancellation, Goto, rows, signals, slots
<1>9. ASSUME NEW s \in Slot, CheckCancelled(s) PROVE LaneInv'
  BY <1>9 DEF CheckCancelled, Goto, rows, signals, slots
<1>10. ASSUME NEW s \in Slot, DropCancelled(s) PROVE LaneInv'
  BY <1>10 DEF DropCancelled, Release, rows, signals, slots
<1>11. ASSUME NEW s \in Slot, ExecutorReturns(s) PROVE LaneInv'
  BY <1>11 DEF ExecutorReturns, Finish, rows, signals, slots
<1>12. ASSUME NEW s \in Slot, ExecutionCancelled(s) PROVE LaneInv'
  BY <1>12 DEF ExecutionCancelled, Finish, rows, signals, slots
<1>13. ASSUME NEW s \in Slot, ClearCancellation(s) PROVE LaneInv'
  BY <1>13 DEF ClearCancellation, Release, Goto, rows, signals, slots
<1>14. ASSUME NEW s \in Slot, SettleClaim(s) PROVE LaneInv'
  BY <1>14 DEF SettleClaim, Owns, Close, Retry, SetStatus, Goto, rows, signals, slots
<1>15. ASSUME NEW s \in Slot, RepairClaim(s) PROVE LaneInv'
  BY <1>15 DEF RepairClaim, Owns, Close, Retry, SetStatus, Goto, rows, signals, slots
<1>16. ASSUME NEW s \in Slot, LoseClaim(s) PROVE LaneInv'
  BY <1>16 DEF LoseClaim, Owns, Release, rows, signals, slots
<1>17. ASSUME NEW s \in Slot, CheckFails(s) PROVE LaneInv'
  BY <1>17 DEF CheckFails, Goto, Fault, rows, signals, slots
<1>18. ASSUME NEW s \in Slot, SettlementFails(s) PROVE LaneInv'
  BY <1>18 DEF SettlementFails, Goto, Fault, rows, signals, slots
<1>19. ASSUME NEW s \in Slot, RepairFails(s) PROVE LaneInv'
  BY <1>19 DEF RepairFails, Release, Fault, rows, signals, slots
<1>20. ASSUME NEW s \in Slot, ForgetSignal(s) PROVE LaneInv'
  BY <1>20 DEF ForgetSignal, Release, rows, signals, slots
<1>21. CASE Crash
  BY <1>21 DEF Crash, LoseProcess, rows, signals, slots
<1>22. CASE StopWorkers
  BY <1>22 DEF StopWorkers, LoseProcess, rows, signals, slots
<1>23. CASE Boot
  BY <1>23 DEF Boot, rows, signals, slots
<1>24. CASE RetireProcessBound
  BY <1>24 DEF RetireProcessBound, rows, signals, slots
<1>25. CASE RequeueReplaySafe
  BY <1>25 DEF RequeueReplaySafe, rows, signals, slots
<1>26. CASE UNCHANGED vars
  BY <1>26 DEF vars, rows, signals, slots
<1> QED BY <1>1, <1>2, <1>3, <1>4, <1>5, <1>6, <1>7, <1>8, <1>9, <1>10, <1>11, <1>12, <1>13, <1>14, <1>15, <1>16, <1>17, <1>18, <1>19, <1>20, <1>21, <1>22, <1>23, <1>24, <1>25, <1>26 DEF Next, RunOnce

(* Nothing is enqueued or claimed between the two statements of recovery.  *)
LEMMA RetiredStep == IInv /\ [Next]_vars => RetiredInv'
<1> SUFFICES ASSUME IInv, [Next]_vars PROVE RetiredInv'
  OBVIOUS
<1> USE OutboxAssumption DEF IInv, TypeOK, SlotsInv, RetiredInv, ReplaySafe, ProcessBound, Unsettled, Status, Settled, Steps, Outcomes, Phases
<1>1. ASSUME NEW e \in Effect, Enqueue(e) PROVE RetiredInv'
  BY <1>1 DEF Enqueue, rows, signals, slots
<1>2. ASSUME NEW e \in Effect, SignalCancellation(e) PROVE RetiredInv'
  BY <1>2 DEF SignalCancellation, rows, signals, slots
<1>3. ASSUME NEW e \in Effect, DelayElapses(e) PROVE RetiredInv'
  BY <1>3 DEF DelayElapses, rows, signals, slots
<1>4. ASSUME NEW t \in Thread, InterruptRun(t) PROVE RetiredInv'
  BY <1>4 DEF InterruptRun, CancelUnsettled, rows, signals, slots
<1>5. ASSUME NEW t \in Thread, ReconcileThread(t) PROVE RetiredInv'
  BY <1>5 DEF ReconcileThread, CancelUnsettled, rows, signals, slots
<1>6. ASSUME NEW s \in Slot, NEW e \in Effect, ClaimNext(s, e) PROVE RetiredInv'
  BY <1>6 DEF ClaimNext, Claimable, rows, signals, slots
<1>7. ASSUME NEW s \in Slot, RegisterSignal(s) PROVE RetiredInv'
  BY <1>7 DEF RegisterSignal, Release, Goto, rows, signals, slots
<1>8. ASSUME NEW s \in Slot, AwaitCancellation(s) PROVE RetiredInv'
  BY <1>8 DEF AwaitCancellation, Goto, rows, signals, slots
<1>9. ASSUME NEW s \in Slot, CheckCancelled(s) PROVE RetiredInv'
  BY <1>9 DEF CheckCancelled, Goto, rows, signals, slots
<1>10. ASSUME NEW s \in Slot, DropCancelled(s) PROVE RetiredInv'
  BY <1>10 DEF DropCancelled, Release, rows, signals, slots
<1>11. ASSUME NEW s \in Slot, ExecutorReturns(s) PROVE RetiredInv'
  BY <1>11 DEF ExecutorReturns, Finish, rows, signals, slots
<1>12. ASSUME NEW s \in Slot, ExecutionCancelled(s) PROVE RetiredInv'
  BY <1>12 DEF ExecutionCancelled, Finish, rows, signals, slots
<1>13. ASSUME NEW s \in Slot, ClearCancellation(s) PROVE RetiredInv'
  BY <1>13 DEF ClearCancellation, Release, Goto, rows, signals, slots
<1>14. ASSUME NEW s \in Slot, SettleClaim(s) PROVE RetiredInv'
  BY <1>14 DEF SettleClaim, Owns, Close, Retry, SetStatus, Goto, rows, signals, slots
<1>15. ASSUME NEW s \in Slot, RepairClaim(s) PROVE RetiredInv'
  BY <1>15 DEF RepairClaim, Owns, Close, Retry, SetStatus, Goto, rows, signals, slots
<1>16. ASSUME NEW s \in Slot, LoseClaim(s) PROVE RetiredInv'
  BY <1>16 DEF LoseClaim, Owns, Release, rows, signals, slots
<1>17. ASSUME NEW s \in Slot, CheckFails(s) PROVE RetiredInv'
  BY <1>17 DEF CheckFails, Goto, Fault, rows, signals, slots
<1>18. ASSUME NEW s \in Slot, SettlementFails(s) PROVE RetiredInv'
  BY <1>18 DEF SettlementFails, Goto, Fault, rows, signals, slots
<1>19. ASSUME NEW s \in Slot, RepairFails(s) PROVE RetiredInv'
  BY <1>19 DEF RepairFails, Release, Fault, rows, signals, slots
<1>20. ASSUME NEW s \in Slot, ForgetSignal(s) PROVE RetiredInv'
  BY <1>20 DEF ForgetSignal, Release, rows, signals, slots
<1>21. CASE Crash
  BY <1>21 DEF Crash, LoseProcess, rows, signals, slots
<1>22. CASE StopWorkers
  BY <1>22 DEF StopWorkers, LoseProcess, rows, signals, slots
<1>23. CASE Boot
  BY <1>23 DEF Boot, rows, signals, slots
<1>24. CASE RetireProcessBound
  BY <1>24 DEF RetireProcessBound, rows, signals, slots
<1>25. CASE RequeueReplaySafe
  BY <1>25 DEF RequeueReplaySafe, rows, signals, slots
<1>26. CASE UNCHANGED vars
  BY <1>26 DEF vars, rows, signals, slots
<1> QED BY <1>1, <1>2, <1>3, <1>4, <1>5, <1>6, <1>7, <1>8, <1>9, <1>10, <1>11, <1>12, <1>13, <1>14, <1>15, <1>16, <1>17, <1>18, <1>19, <1>20, <1>21, <1>22, <1>23, <1>24, <1>25, <1>26 DEF Next, RunOnce

(* A slot leaves a running row only by a failing repair or a failing       *)
(* decode.                                                                 *)
LEMMA StrandStep == IInv /\ [Next]_vars => StrandInv'
<1> SUFFICES ASSUME IInv, [Next]_vars PROVE StrandInv'
  OBVIOUS
<1> USE OutboxAssumption DEF IInv, TypeOK, SlotsInv, HoldInv, SoleHolder, SignalInv, RetiredInv, ReplaySafe, ProcessBound, Unsettled, Holds, StrandInv, Status, Settled, Steps, Outcomes, Phases
<1>1. ASSUME NEW e \in Effect, Enqueue(e) PROVE StrandInv'
  BY <1>1 DEF Enqueue, rows, signals, slots
<1>2. ASSUME NEW e \in Effect, SignalCancellation(e) PROVE StrandInv'
  BY <1>2 DEF SignalCancellation, rows, signals, slots
<1>3. ASSUME NEW e \in Effect, DelayElapses(e) PROVE StrandInv'
  BY <1>3 DEF DelayElapses, rows, signals, slots
<1>4. ASSUME NEW t \in Thread, InterruptRun(t) PROVE StrandInv'
  BY <1>4 DEF InterruptRun, CancelUnsettled, rows, signals, slots
<1>5. ASSUME NEW t \in Thread, ReconcileThread(t) PROVE StrandInv'
  BY <1>5 DEF ReconcileThread, CancelUnsettled, rows, signals, slots
<1>6. ASSUME NEW s \in Slot, NEW e \in Effect, ClaimNext(s, e) PROVE StrandInv'
  BY <1>6 DEF ClaimNext, Claimable, rows, signals, slots
<1>7. ASSUME NEW s \in Slot, RegisterSignal(s) PROVE StrandInv'
  BY <1>7 DEF RegisterSignal, Release, Goto, rows, signals, slots
<1>8. ASSUME NEW s \in Slot, AwaitCancellation(s) PROVE StrandInv'
  BY <1>8 DEF AwaitCancellation, Goto, rows, signals, slots
<1>9. ASSUME NEW s \in Slot, CheckCancelled(s) PROVE StrandInv'
  BY <1>9 DEF CheckCancelled, Goto, rows, signals, slots
<1>10. ASSUME NEW s \in Slot, DropCancelled(s) PROVE StrandInv'
  BY <1>10 DEF DropCancelled, Release, rows, signals, slots
<1>11. ASSUME NEW s \in Slot, ExecutorReturns(s) PROVE StrandInv'
  BY <1>11 DEF ExecutorReturns, Finish, rows, signals, slots
<1>12. ASSUME NEW s \in Slot, ExecutionCancelled(s) PROVE StrandInv'
  BY <1>12 DEF ExecutionCancelled, Finish, rows, signals, slots
<1>13. ASSUME NEW s \in Slot, ClearCancellation(s) PROVE StrandInv'
  BY <1>13 DEF ClearCancellation, Release, Goto, rows, signals, slots
<1>14. ASSUME NEW s \in Slot, SettleClaim(s) PROVE StrandInv'
  BY <1>14 DEF SettleClaim, Owns, Close, Retry, SetStatus, Goto, rows, signals, slots
<1>15. ASSUME NEW s \in Slot, RepairClaim(s) PROVE StrandInv'
  BY <1>15 DEF RepairClaim, Owns, Close, Retry, SetStatus, Goto, rows, signals, slots
<1>16. ASSUME NEW s \in Slot, LoseClaim(s) PROVE StrandInv'
  BY <1>16 DEF LoseClaim, Owns, Release, rows, signals, slots
<1>17. ASSUME NEW s \in Slot, CheckFails(s) PROVE StrandInv'
  BY <1>17 DEF CheckFails, Goto, Fault, rows, signals, slots
<1>18. ASSUME NEW s \in Slot, SettlementFails(s) PROVE StrandInv'
  BY <1>18 DEF SettlementFails, Goto, Fault, rows, signals, slots
<1>19. ASSUME NEW s \in Slot, RepairFails(s) PROVE StrandInv'
  BY <1>19 DEF RepairFails, Release, Fault, rows, signals, slots
<1>20. ASSUME NEW s \in Slot, ForgetSignal(s) PROVE StrandInv'
  BY <1>20 DEF ForgetSignal, Release, rows, signals, slots
<1>21. CASE Crash
  BY <1>21 DEF Crash, LoseProcess, rows, signals, slots
<1>22. CASE StopWorkers
  BY <1>22 DEF StopWorkers, LoseProcess, rows, signals, slots
<1>23. CASE Boot
  BY <1>23 DEF Boot, rows, signals, slots
<1>24. CASE RetireProcessBound
  BY <1>24 DEF RetireProcessBound, rows, signals, slots
<1>25. CASE RequeueReplaySafe
  BY <1>25 DEF RequeueReplaySafe, rows, signals, slots
<1>26. CASE UNCHANGED vars
  BY <1>26 DEF vars, rows, signals, slots
<1> QED BY <1>1, <1>2, <1>3, <1>4, <1>5, <1>6, <1>7, <1>8, <1>9, <1>10, <1>11, <1>12, <1>13, <1>14, <1>15, <1>16, <1>17, <1>18, <1>19, <1>20, <1>21, <1>22, <1>23, <1>24, <1>25, <1>26 DEF Next, RunOnce

(* Claims use up an attempt; boots and failing statements add one.         *)
LEMMA BudgetStep == IInv /\ [Next]_vars => BudgetInv'
<1> SUFFICES ASSUME IInv, [Next]_vars PROVE BudgetInv'
  OBVIOUS
<1> USE OutboxAssumption DEF IInv, TypeOK, SlotsInv, HoldInv, SoleHolder, Holds, StrandInv, BudgetInv, AttemptsBounded, Spare, Owns, Unsettled, Status, Settled, Steps, Outcomes, Phases
<1>1. ASSUME NEW e \in Effect, Enqueue(e) PROVE BudgetInv'
  BY <1>1 DEF Enqueue, rows, signals, slots
<1>2. ASSUME NEW e \in Effect, SignalCancellation(e) PROVE BudgetInv'
  BY <1>2 DEF SignalCancellation, rows, signals, slots
<1>3. ASSUME NEW e \in Effect, DelayElapses(e) PROVE BudgetInv'
  BY <1>3 DEF DelayElapses, rows, signals, slots
<1>4. ASSUME NEW t \in Thread, InterruptRun(t) PROVE BudgetInv'
  BY <1>4 DEF InterruptRun, CancelUnsettled, rows, signals, slots
<1>5. ASSUME NEW t \in Thread, ReconcileThread(t) PROVE BudgetInv'
  BY <1>5 DEF ReconcileThread, CancelUnsettled, rows, signals, slots
<1>6. ASSUME NEW s \in Slot, NEW e \in Effect, ClaimNext(s, e) PROVE BudgetInv'
  BY <1>6 DEF ClaimNext, Claimable, rows, signals, slots
<1>7. ASSUME NEW s \in Slot, RegisterSignal(s) PROVE BudgetInv'
  BY <1>7 DEF RegisterSignal, Release, Goto, rows, signals, slots
<1>8. ASSUME NEW s \in Slot, AwaitCancellation(s) PROVE BudgetInv'
  BY <1>8 DEF AwaitCancellation, Goto, rows, signals, slots
<1>9. ASSUME NEW s \in Slot, CheckCancelled(s) PROVE BudgetInv'
  BY <1>9 DEF CheckCancelled, Goto, rows, signals, slots
<1>10. ASSUME NEW s \in Slot, DropCancelled(s) PROVE BudgetInv'
  BY <1>10 DEF DropCancelled, Release, rows, signals, slots
<1>11. ASSUME NEW s \in Slot, ExecutorReturns(s) PROVE BudgetInv'
  BY <1>11 DEF ExecutorReturns, Finish, rows, signals, slots
<1>12. ASSUME NEW s \in Slot, ExecutionCancelled(s) PROVE BudgetInv'
  BY <1>12 DEF ExecutionCancelled, Finish, rows, signals, slots
<1>13. ASSUME NEW s \in Slot, ClearCancellation(s) PROVE BudgetInv'
  BY <1>13 DEF ClearCancellation, Release, Goto, rows, signals, slots
<1>14. ASSUME NEW s \in Slot, SettleClaim(s) PROVE BudgetInv'
  <2> DEFINE e == work[s]
  <2>1. pc[s] = "settle" /\ e \in Effect /\ status[e] = "running" /\ attempts' = attempts
        /\ epoch' = epoch /\ faults' = faults /\ proc' = proc /\ work' = work
        /\ pc' = [pc EXCEPT ![s] = "forget"]
    BY <1>14 DEF SettleClaim, Close, Retry, SetStatus, Goto
  <2>2. ASSUME NEW f \in Effect, f # e PROVE status'[f] = status[f]
    BY <1>14, <2>2 DEF SettleClaim, Close, Retry, SetStatus
  <2>3. CASE status'[e] = "succeeded"
    BY <2>1, <2>2, <2>3
  <2>4. CASE status'[e] = "failed" /\ attempts[e] >= MaxAttempts
    BY <2>1, <2>2, <2>4
  <2>5. CASE status'[e] = "pending" /\ ~(attempts[e] >= MaxAttempts)
    <3>1. Spare(e) /\ Spare(e)'
      BY <2>1, <2>5
    <3> QED
      BY <2>1, <2>2, <2>5, <3>1
  <2>6. \/ status'[e] = "succeeded"
        \/ status'[e] = "failed" /\ attempts[e] >= MaxAttempts
        \/ status'[e] = "pending" /\ ~(attempts[e] >= MaxAttempts)
    <3>1. \A st : SetStatus(e, st) => status'[e] = st
      BY <2>1 DEF SetStatus
    <3> QED
      BY <1>14, <3>1 DEF SettleClaim, Close, Retry, Exhausted
  <2> QED
    BY <2>3, <2>4, <2>5, <2>6
<1>15. ASSUME NEW s \in Slot, RepairClaim(s) PROVE BudgetInv'
  BY <1>15 DEF RepairClaim, Close, Retry, SetStatus, Goto, rows, signals, slots
<1>16. ASSUME NEW s \in Slot, LoseClaim(s) PROVE BudgetInv'
  BY <1>16 DEF LoseClaim, Release, rows, signals, slots
<1>17. ASSUME NEW s \in Slot, CheckFails(s) PROVE BudgetInv'
  BY <1>17 DEF CheckFails, Goto, Fault, rows, signals, slots
<1>18. ASSUME NEW s \in Slot, SettlementFails(s) PROVE BudgetInv'
  BY <1>18 DEF SettlementFails, Goto, Fault, rows, signals, slots
<1>19. ASSUME NEW s \in Slot, RepairFails(s) PROVE BudgetInv'
  BY <1>19 DEF RepairFails, Release, Fault, rows, signals, slots
<1>20. ASSUME NEW s \in Slot, ForgetSignal(s) PROVE BudgetInv'
  BY <1>20 DEF ForgetSignal, Release, rows, signals, slots
<1>21. CASE Crash
  BY <1>21 DEF Crash, LoseProcess, rows, signals, slots
<1>22. CASE StopWorkers
  BY <1>22 DEF StopWorkers, LoseProcess, rows, signals, slots
<1>23. CASE Boot
  BY <1>23 DEF Boot, rows, signals, slots
<1>24. CASE RetireProcessBound
  BY <1>24 DEF RetireProcessBound, rows, signals, slots
<1>25. CASE RequeueReplaySafe
  BY <1>25 DEF RequeueReplaySafe, rows, signals, slots
<1>26. CASE UNCHANGED vars
  BY <1>26 DEF vars, rows, signals, slots
<1> QED BY <1>1, <1>2, <1>3, <1>4, <1>5, <1>6, <1>7, <1>8, <1>9, <1>10, <1>11, <1>12, <1>13, <1>14, <1>15, <1>16, <1>17, <1>18, <1>19, <1>20, <1>21, <1>22, <1>23, <1>24, <1>25, <1>26 DEF Next, RunOnce

(* Without failing statements a slot's Deferred stays in the map.          *)
LEMMA ArrivalStep == IInv /\ [Next]_vars => ArrivalInv'
<1> SUFFICES ASSUME IInv, [Next]_vars PROVE ArrivalInv'
  OBVIOUS
<1> USE OutboxAssumption DEF IInv, TypeOK, SlotsInv, HoldInv, SoleHolder, Holds, StrandInv, ArrivalInv, CancellationReachesExecution, Owns, Unsettled, Status, Settled, Steps, Outcomes, Phases
<1>1. ASSUME NEW e \in Effect, Enqueue(e) PROVE ArrivalInv'
  BY <1>1 DEF Enqueue, rows, signals, slots
<1>2. ASSUME NEW e \in Effect, SignalCancellation(e) PROVE ArrivalInv'
  BY ZenonT(30), <1>2 DEF SignalCancellation, rows, signals, slots
<1>3. ASSUME NEW e \in Effect, DelayElapses(e) PROVE ArrivalInv'
  BY <1>3 DEF DelayElapses, rows, signals, slots
<1>4. ASSUME NEW t \in Thread, InterruptRun(t) PROVE ArrivalInv'
  BY <1>4 DEF InterruptRun, CancelUnsettled, rows, signals, slots
<1>5. ASSUME NEW t \in Thread, ReconcileThread(t) PROVE ArrivalInv'
  BY <1>5 DEF ReconcileThread, CancelUnsettled, rows, signals, slots
<1>6. ASSUME NEW s \in Slot, NEW e \in Effect, ClaimNext(s, e) PROVE ArrivalInv'
  BY <1>6 DEF ClaimNext, Claimable, rows, signals, slots
<1>7. ASSUME NEW s \in Slot, RegisterSignal(s) PROVE ArrivalInv'
  <2>1. /\ pc[s] = "claimed" /\ work[s] \in Effect
        /\ status' = status /\ due' = due /\ unsignalled' = unsignalled /\ faults' = faults
        /\ signal' = [signal EXCEPT ![work[s]] = s] /\ fired' = [fired EXCEPT ![s] = FALSE]
    BY <1>7 DEF RegisterSignal, rows
  <2>2. CASE Release(s)
    BY <2>1, <2>2 DEF Release
  <2>3. CASE Goto(s, "arm")
    BY <2>1, <2>3 DEF Goto
  <2> QED
    BY <1>7, <2>2, <2>3 DEF RegisterSignal
<1>8. ASSUME NEW s \in Slot, AwaitCancellation(s) PROVE ArrivalInv'
  BY <1>8 DEF AwaitCancellation, Goto, rows, signals, slots
<1>9. ASSUME NEW s \in Slot, CheckCancelled(s) PROVE ArrivalInv'
  BY <1>9 DEF CheckCancelled, Goto, rows, signals, slots
<1>10. ASSUME NEW s \in Slot, DropCancelled(s) PROVE ArrivalInv'
  BY <1>10 DEF DropCancelled, Release, rows, signals, slots
<1>11. ASSUME NEW s \in Slot, ExecutorReturns(s) PROVE ArrivalInv'
  BY <1>11 DEF ExecutorReturns, Finish, rows, signals, slots
<1>12. ASSUME NEW s \in Slot, ExecutionCancelled(s) PROVE ArrivalInv'
  BY <1>12 DEF ExecutionCancelled, Finish, rows, signals, slots
<1>13. ASSUME NEW s \in Slot, ClearCancellation(s) PROVE ArrivalInv'
  <2>1. CASE Release(s)
    BY <1>13, <2>1 DEF ClearCancellation, Release, rows
  <2>2. CASE Goto(s, "settle")
    BY <1>13, <2>2 DEF ClearCancellation, Goto, rows
  <2> QED
    BY <1>13, <2>1, <2>2 DEF ClearCancellation
<1>14. ASSUME NEW s \in Slot, SettleClaim(s) PROVE ArrivalInv'
  BY <1>14 DEF SettleClaim, Close, Retry, SetStatus, Goto, rows, signals, slots
<1>15. ASSUME NEW s \in Slot, RepairClaim(s) PROVE ArrivalInv'
  BY <1>15 DEF RepairClaim, Close, Retry, SetStatus, Goto, rows, signals, slots
<1>16. ASSUME NEW s \in Slot, LoseClaim(s) PROVE ArrivalInv'
  BY <1>16 DEF LoseClaim, Release, rows, signals, slots
<1>17. ASSUME NEW s \in Slot, CheckFails(s) PROVE ArrivalInv'
  BY <1>17 DEF CheckFails, Goto, Fault, rows, signals, slots
<1>18. ASSUME NEW s \in Slot, SettlementFails(s) PROVE ArrivalInv'
  BY <1>18 DEF SettlementFails, Goto, Fault, rows, signals, slots
<1>19. ASSUME NEW s \in Slot, RepairFails(s) PROVE ArrivalInv'
  BY <1>19 DEF RepairFails, Release, Fault, rows, signals, slots
<1>20. ASSUME NEW s \in Slot, ForgetSignal(s) PROVE ArrivalInv'
  BY <1>20 DEF ForgetSignal, Release, rows, signals, slots
<1>21. CASE Crash
  BY <1>21 DEF Crash, LoseProcess, rows, signals, slots
<1>22. CASE StopWorkers
  BY <1>22 DEF StopWorkers, LoseProcess, rows, signals, slots
<1>23. CASE Boot
  BY <1>23 DEF Boot, rows, signals, slots
<1>24. CASE RetireProcessBound
  BY <1>24 DEF RetireProcessBound, rows, signals, slots
<1>25. CASE RequeueReplaySafe
  BY <1>25 DEF RequeueReplaySafe, rows, signals, slots
<1>26. CASE UNCHANGED vars
  BY <1>26 DEF vars, rows, signals, slots
<1> QED BY <1>1, <1>2, <1>3, <1>4, <1>5, <1>6, <1>7, <1>8, <1>9, <1>10, <1>11, <1>12, <1>13, <1>14, <1>15, <1>16, <1>17, <1>18, <1>19, <1>20, <1>21, <1>22, <1>23, <1>24, <1>25, <1>26 DEF Next, RunOnce

-----------------------------------------------------------------------------
(* The inductive invariant holds in every reachable state.                 *)
THEOREM Inductive == Spec => []IInv
<1>1. Init => IInv
  BY OutboxAssumption DEF Init, IInv, TypeOK, SlotsInv, HoldInv, SoleHolder,
     Holds, SignalInv, LaneInv, RetiredInv, StrandInv, BudgetInv, AttemptsBounded, Spare,
     ArrivalInv, CancellationReachesExecution, Status, Steps, Outcomes, Phases
<1>2. IInv /\ [Next]_vars => IInv'
  BY TypeStep, SlotsStep, HoldStep, SignalStep, LaneStep, RetiredStep, StrandStep,
     BudgetStep, ArrivalStep DEF IInv
<1> QED
  BY <1>1, <1>2, PTL DEF Spec

(* The variables keep their types.                                         *)
THEOREM TypeCorrect == Spec => []TypeOK
BY Inductive, PTL DEF IInv

(* No two slots ever hold one effect.                                      *)
THEOREM OneHolder == Spec => []SoleHolder
<1>1. IInv => SoleHolder
  BY DEF IInv, HoldInv
<1> QED
  BY <1>1, Inductive, PTL

(* Executions of one lane overlap only past a cancellation.                *)
THEOREM LanesAreSerial == Spec => []LaneSerial
<1>1. IInv => LaneSerial
  BY DEF IInv, TypeOK, SlotsInv, HoldInv, SoleHolder, Holds, Owns, LaneInv, LaneSerial
<1> QED
  BY <1>1, Inductive, PTL

(* A blocked lane has a worker on it, two faults or an undecodable row     *)
(* behind it.                                                              *)
THEOREM RunningRowsAreHeld == Spec => []RunningIsHeld
<1>1. IInv => RunningIsHeld
  BY DEF IInv, LaneInv, StrandInv, RunningIsHeld
<1> QED
  BY <1>1, Inductive, PTL

(* A slot loses its claim to a cancellation and to nothing else.           *)
THEOREM ClaimsAreLostToCancel == Spec => []LeaseLostOnlyToCancel
<1>1. IInv => LeaseLostOnlyToCancel
  BY DEF IInv, TypeOK, SlotsInv, HoldInv, Holds, LeaseLostOnlyToCancel, Steps
<1> QED
  BY <1>1, Inductive, PTL

(* No step of anybody changes a settled row.                               *)
THEOREM SettledIsFinal == Spec => SettledForever
<1>1. IInv /\ [Next]_vars => [\A e \in Effect : status[e] \in Settled => status'[e] = status[e]]_vars
  <2> SUFFICES ASSUME IInv, [Next]_vars, NEW e \in Effect, status[e] \in Settled
               PROVE  status'[e] = status[e]
    OBVIOUS
  <2>1. TypeOK /\ SlotsInv
    BY DEF IInv
  <2> USE <2>1 DEF TypeOK, SlotsInv, Settled, Status
  <2>2. ASSUME NEW f \in Effect, Enqueue(f) \/ SignalCancellation(f) \/ DelayElapses(f)
        PROVE  status'[e] = status[e]
    BY <2>2 DEF Enqueue, SignalCancellation, DelayElapses, rows
  <2>3. ASSUME NEW t \in Thread, InterruptRun(t) \/ ReconcileThread(t)
        PROVE  status'[e] = status[e]
    BY <2>3 DEF InterruptRun, ReconcileThread, CancelUnsettled, Unsettled
  <2>4. ASSUME NEW s \in Slot, RunOnce(s) \/ ExecutorReturns(s)
        PROVE  status'[e] = status[e]
    <3>1. ASSUME NEW f \in Effect, ClaimNext(s, f)
          PROVE  status'[e] = status[e]
      BY <3>1 DEF ClaimNext, Claimable
    <3>2. CASE SettleClaim(s) \/ RepairClaim(s)
      BY <3>2 DEF SettleClaim, RepairClaim, Owns, Close, Retry, SetStatus
    <3>3. CASE status' = status
      BY <3>3
    <3> QED
      BY <2>4, <3>1, <3>2, <3>3 DEF RunOnce, RegisterSignal, AwaitCancellation, CheckCancelled,
         DropCancelled, ExecutorReturns, ExecutionCancelled, ClearCancellation, LoseClaim,
         CheckFails, SettlementFails, RepairFails, ForgetSignal, rows
  <2>5. CASE Crash \/ StopWorkers \/ Boot \/ UNCHANGED vars
    BY <2>5 DEF Crash, StopWorkers, Boot, vars, rows
  <2>6. CASE RetireProcessBound \/ RequeueReplaySafe
    BY <2>6 DEF RetireProcessBound, RequeueReplaySafe, Unsettled
  <2> QED
    BY <2>2, <2>3, <2>4, <2>5, <2>6 DEF Next
<1> QED
  BY <1>1, Inductive, PTL DEF Spec, SettledForever

(* Whatever crashed before, a server that admits work has retired what the *)
(* lost processes left.                                                    *)
THEOREM AdmissionIsClean == Spec => CleanAdmission
<1>1. IInv /\ [Next]_vars =>
        [proc # "up" /\ proc' = "up" =>
           \A e \in Effect :
             /\ status'[e] # "running"
             /\ ProcessBound(e) => status'[e] # "pending"]_vars
  <2> SUFFICES ASSUME IInv, [Next]_vars, proc # "up", proc' = "up", NEW e \in Effect
               PROVE  /\ status'[e] # "running"
                      /\ ProcessBound(e) => status'[e] # "pending"
    OBVIOUS
  <2>1. RequeueReplaySafe
    BY DEF Next, RunOnce, vars, slots, Enqueue, SignalCancellation, DelayElapses, InterruptRun,
       ReconcileThread, CancelUnsettled, ClaimNext, RegisterSignal, AwaitCancellation,
       CheckCancelled, DropCancelled, ExecutorReturns, ExecutionCancelled, ClearCancellation,
       SettleClaim, RepairClaim, LoseClaim, CheckFails, SettlementFails, RepairFails,
       ForgetSignal, Crash, StopWorkers, Boot, RetireProcessBound
  <2> QED
    BY <2>1 DEF RequeueReplaySafe, IInv, RetiredInv, TypeOK, ProcessBound, Unsettled
<1> QED
  BY <1>1, Inductive, PTL DEF Spec, CleanAdmission

(* No effect is tried more often than maxAttempts, restarts and failing    *)
(* statements account for.                                                 *)
THEOREM AttemptsAreBounded == Spec => []AttemptsBounded
<1>1. IInv => AttemptsBounded
  BY DEF IInv, BudgetInv
<1> QED
  BY <1>1, Inductive, PTL

(* As long as no statement fails, a cancellation that has been committed   *)
(* and signalled has completed the Deferred its execution waits for.       *)
THEOREM CancellationsReach == Spec => []CancellationsArrive
<1>1. IInv => CancellationsArrive
  BY DEF IInv, ArrivalInv, CancellationsArrive
<1> QED
  BY <1>1, Inductive, PTL

-----------------------------------------------------------------------------
(* The refinement of EffectLanes.                                          *)
Life == [e \in Effect |-> LifeOf(status[e])]

(* The abstract life of each status.                                       *)
LEMMA LivesOfStatus ==
  /\ LifeOf("absent") = "new" /\ LifeOf("pending") = "open" /\ LifeOf("running") = "working"
  /\ \A st \in Settled : LifeOf(st) = "closed"
BY DEF LifeOf, Settled

(* A lane of the promise is a lane of the outbox.                          *)
LEMMA LanesOfEffects ==
  ASSUME NEW e \in Effect, NEW f \in Effect, LaneOfEffect[e] = LaneOfEffect[f]
  PROVE  SameLane(e, f)
<1>1. LaneOfEffect[e] = <<ThreadOf[e], KindOf[e] = "title">>
  BY DEF LaneOfEffect
<1>2. LaneOfEffect[f] = <<ThreadOf[f], KindOf[f] = "title">>
  BY DEF LaneOfEffect
<1> DEFINE title(g) == KindOf[g] = "title"
<1>3. \A a, b, c, d : <<a, b>> = <<c, d>> => a = c /\ b = d
  OBVIOUS
<1>4. <<ThreadOf[e], title(e)>> = <<ThreadOf[f], title(f)>>
  BY <1>1, <1>2, Zenon
<1> HIDE DEF title
<1>5. ThreadOf[e] = ThreadOf[f] /\ title(e) = title(f)
  BY <1>3, <1>4, Zenon
<1> QED
  BY <1>5, Zenon DEF SameLane, title

(* Rows that are retired together are one step of the promise, and so are  *)
(* rows that are put back together.                                        *)
LEMMA ManyRows ==
  ASSUME TypeOK, NEW C \in SUBSET Effect, NEW st \in {"cancelled", "pending"},
         status' = [e \in Effect |-> IF e \in C THEN st ELSE status[e]],
         \A e \in C : IF st = "pending" THEN status[e] = "running" ELSE Unsettled(e)
  PROVE  Promise!PutBack(C) \/ Promise!CloseAll(C)
<1> USE LivesOfStatus DEF TypeOK, Settled
<1>1. CASE st = "pending"
  BY <1>1 DEF Promise!PutBack
<1>2. CASE st = "cancelled"
  <2>1. \A e \in C : LifeOf(status[e]) \in {"open", "working"}
    BY <1>2 DEF Unsettled
  <2>2. [e \in Effect |-> LifeOf(status'[e])]
          = [e \in Effect |-> IF e \in C THEN "closed" ELSE Life[e]]
    BY <1>2 DEF Life
  <2> QED
    BY <2>1, <2>2 DEF Promise!CloseAll, Life
<1> QED
  BY <1>1, <1>2

(* One row that a slot settles or gives back.                              *)
LEMMA OneRow ==
  ASSUME TypeOK, NEW e \in Effect, status[e] = "running",
         NEW st \in {"succeeded", "failed", "pending"}, SetStatus(e, st)
  PROVE  Promise!PutBack({e}) \/ Promise!CloseAll({e})
<1> USE LivesOfStatus DEF TypeOK, Settled, SetStatus
<1>1. CASE st = "pending"
  BY <1>1 DEF Promise!PutBack
<1>2. CASE st \in {"succeeded", "failed"}
  BY <1>2 DEF Promise!CloseAll
<1> QED
  BY <1>1, <1>2

(* The outbox implements its promise: every step of rows, slots and        *)
(* processes is a step of the effects' lives, or leaves them alone.        *)
THEOREM Refinement == Spec => ImplementsLanes
<1>1. Init => Promise!Init
  BY LivesOfStatus DEF Init, Promise!Init
<1>2. IInv /\ [Next]_vars => [Promise!Next]_Life
  <2> SUFFICES ASSUME IInv, [Next]_vars PROVE Promise!Next \/ Life' = Life
    OBVIOUS
  <2> USE DEF IInv
  <2>1. ASSUME NEW e \in Effect, Enqueue(e) PROVE Promise!Submit(e)
    BY <2>1, LivesOfStatus DEF Enqueue, TypeOK, Promise!Submit
  <2>2. ASSUME NEW t \in Thread, InterruptRun(t) \/ ReconcileThread(t) PROVE Promise!Next
    <3>1. PICK C \in SUBSET {e \in Effect : Unsettled(e)} : CancelUnsettled(C)
      BY <2>2 DEF InterruptRun, ReconcileThread
    <3> QED
      BY <3>1, ManyRows DEF CancelUnsettled, Promise!Next
  <2>3. ASSUME NEW s \in Slot, NEW e \in Effect, ClaimNext(s, e) PROVE Promise!Begin(e)
    <3>1. \A f \in Effect : LaneOfEffect[f] = LaneOfEffect[e] => status[f] # "running"
      BY <2>3, LanesOfEffects DEF ClaimNext, Claimable
    <3>2. \A f \in Effect : LifeOf(status[f]) = "working" => status[f] = "running"
      BY LivesOfStatus DEF TypeOK, Status, Settled
    <3> QED
      BY <2>3, <3>1, <3>2, LivesOfStatus DEF ClaimNext, Claimable, TypeOK, Promise!Begin
  <2>4. ASSUME NEW s \in Slot, SettleClaim(s) \/ RepairClaim(s) PROVE Promise!Next
    <3>1. work[s] \in Effect /\ status[work[s]] = "running"
      BY <2>4 DEF SettleClaim, RepairClaim, SlotsInv, Owns
    <3>2. \E st \in {"succeeded", "failed", "pending"} : SetStatus(work[s], st)
      BY <2>4 DEF SettleClaim, RepairClaim, Close, Retry
    <3> QED
      BY <3>1, <3>2, OneRow DEF Promise!Next
  <2>5. CASE RetireProcessBound
    <3> DEFINE C == {e \in Effect : ProcessBound(e) /\ Unsettled(e)}
    <3>1. status' = [e \in Effect |-> IF e \in C THEN "cancelled" ELSE status[e]]
      BY <2>5 DEF RetireProcessBound
    <3>2. Promise!PutBack(C) \/ Promise!CloseAll(C)
      BY <3>1, ManyRows
    <3> QED
      BY <3>2 DEF Promise!Next
  <2>6. CASE RequeueReplaySafe
    <3> DEFINE R == {e \in Effect : ReplaySafe(e) /\ status[e] = "running"}
    <3>1. status' = [e \in Effect |-> IF e \in R THEN "pending" ELSE status[e]]
      BY <2>6 DEF RequeueReplaySafe
    <3>2. Promise!PutBack(R) \/ Promise!CloseAll(R)
      BY <3>1, ManyRows
    <3> QED
      BY <3>2 DEF Promise!Next
  <2>7. CASE status' = status
    BY <2>7 DEF Life
  <2>8. ASSUME NEW s \in Slot, RunOnce(s) \/ ExecutorReturns(s)
        PROVE  \/ status' = status \/ SettleClaim(s) \/ RepairClaim(s)
               \/ \E e \in Effect : ClaimNext(s, e)
    BY <2>8 DEF RunOnce, RegisterSignal, AwaitCancellation, CheckCancelled, DropCancelled,
       ExecutorReturns, ExecutionCancelled, ClearCancellation, LoseClaim, CheckFails,
       SettlementFails, RepairFails, ForgetSignal, rows
  <2>9. ASSUME NEW e \in Effect, SignalCancellation(e) \/ DelayElapses(e)
        PROVE  status' = status
    BY <2>9 DEF SignalCancellation, DelayElapses, rows
  <2>10. CASE Crash \/ StopWorkers \/ Boot \/ UNCHANGED vars
    BY <2>7, <2>10 DEF Crash, StopWorkers, Boot, vars, rows
  <2> QED
    BY <2>1, <2>2, <2>3, <2>4, <2>5, <2>6, <2>7, <2>8, <2>9, <2>10 DEF Next, Promise!Next
<1> QED
  BY <1>1, <1>2, Inductive, PTL DEF Spec, ImplementsLanes, Promise!Spec, Life
=============================================================================
