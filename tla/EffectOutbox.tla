---------------------------- MODULE EffectOutbox ----------------------------
(***************************************************************************)
(* The durable effect outbox (orchestration-v2/EffectOutbox.ts) and the    *)
(* worker slots that drain it (orchestration-v2/EffectWorker.ts), across   *)
(* restarts of the server process.                                         *)
(*                                                                         *)
(* A row of orchestration_v2_effect_outbox survives the process; the map   *)
(* of cancellation Deferreds and the slots do not.  One action is one SQL  *)
(* statement or transaction, or one access to the in-memory map: a fiber   *)
(* may be switched out between any two of them.                            *)
(*                                                                         *)
(* Abstractions: available_at is only "due or not"; claimNext may take any *)
(* claimable row (the code takes the one with the smallest timestamps);    *)
(* notifications are latency hints over a poll and are left out; workerId  *)
(* is the process id, here the number of the process incarnation.          *)
(***************************************************************************)
EXTENDS Naturals, FiniteSets

CONSTANTS
  Effect,       \* effect ids
  Slot,         \* the daemon's concurrent worker slots
  Thread,       \* app threads
  ThreadOf,     \* the thread of each effect
  KindOf,       \* the request type of each effect, see Kinds
  Undecodable,  \* rows whose payload the running build cannot decode
  Hanging,      \* effects whose provider may never end their execution
  MaxAttempts,  \* the worker's maxAttempts
  MaxEpoch,     \* bound: process incarnations
  MaxFaults,    \* bound: failing SQL statements
  NoEffect, NoSlot

(* provider-turn.start/restart; the other process-bound requests, the      *)
(* interrupt apart; replay-safe requests; the title generation lane.       *)
Kinds == {"turn", "control", "interrupt", "replay", "title"}

ASSUME OutboxAssumption ==
  /\ ThreadOf \in [Effect -> Thread]
  /\ KindOf \in [Effect -> Kinds]
  /\ Undecodable \subseteq Effect /\ Hanging \subseteq Effect
  /\ MaxAttempts \in Nat \ {0}
  /\ MaxEpoch \in Nat \ {0}
  /\ MaxFaults \in Nat
  /\ NoEffect \notin Effect
  /\ NoSlot \notin Slot

VARIABLES
  status, attempts, due, owner,   \* the durable row
  signal,       \* cancellationSignals: the slot that awaits the map's Deferred
  fired,        \* the Deferred a slot awaits has been completed
  unsignalled,  \* cancelled by a committed transaction, not yet signalled
  pc, work, outcome,              \* one worker slot
  proc, epoch,  \* phase and number of the server process
  faults        \* SQL failures so far

rows == <<status, attempts, due, owner>>
signals == <<signal, fired, unsignalled>>
slots == <<pc, work, outcome>>
vars == <<rows, signals, slots, proc, epoch, faults>>

Settled == {"succeeded", "failed", "cancelled"}
Status == {"absent", "pending", "running"} \cup Settled
Steps == {"idle", "claimed", "arm", "check", "drop", "execute", "clear",
          "settle", "repair", "forget"}
Outcomes == {"none", "ok", "failed", "gone", "cancelled"}
Phases == {"down", "bootRetire", "bootRequeue", "up", "stopRetire", "stopRequeue"}

ReplaySafe(e) == KindOf[e] \in {"replay", "title"}
ProcessBound(e) == ~ReplaySafe(e)
SameLane(e, f) ==
  /\ ThreadOf[e] = ThreadOf[f]
  /\ (KindOf[e] = "title") <=> (KindOf[f] = "title")

TypeOK ==
  /\ status \in [Effect -> Status]
  /\ attempts \in [Effect -> Nat]
  /\ due \in [Effect -> BOOLEAN]
  /\ owner \in [Effect -> Nat]
  /\ signal \in [Effect -> Slot \cup {NoSlot}]
  /\ fired \in [Slot -> BOOLEAN]
  /\ unsignalled \subseteq Effect
  /\ pc \in [Slot -> Steps]
  /\ work \in [Slot -> Effect \cup {NoEffect}]
  /\ outcome \in [Slot -> Outcomes]
  /\ proc \in Phases
  /\ epoch \in Nat
  /\ faults \in Nat

Init ==
  /\ status = [e \in Effect |-> "absent"]
  /\ attempts = [e \in Effect |-> 0]
  /\ due = [e \in Effect |-> FALSE]
  /\ owner = [e \in Effect |-> 0]
  /\ signal = [e \in Effect |-> NoSlot]
  /\ fired = [s \in Slot |-> FALSE]
  /\ unsignalled = {}
  /\ pc = [s \in Slot |-> "idle"]
  /\ work = [s \in Slot |-> NoEffect]
  /\ outcome = [s \in Slot |-> "none"]
  /\ proc = "bootRetire"
  /\ epoch = 1
  /\ faults = 0

-----------------------------------------------------------------------------
(* The SQL statements on one row.                                          *)

OwnsUnchecked(e) == status[e] # "absent"
Owns(e) == status[e] = "running" /\ owner[e] = epoch

SetStatus(e, st) ==
  /\ status' = [status EXCEPT ![e] = st]
  /\ owner' = [owner EXCEPT ![e] = 0]

Close(e, st) == SetStatus(e, st) /\ UNCHANGED <<attempts, due>>

(* Faulty variants are named for the mistake they make.                    *)
RetryToUnknownStatus(e, ready) ==
  /\ SetStatus(e, "retrying")
  /\ due' = [due EXCEPT ![e] = ready]
  /\ UNCHANGED attempts

Retry(e, ready) ==
  /\ SetStatus(e, "pending")
  /\ due' = [due EXCEPT ![e] = ready]
  /\ UNCHANGED attempts

ExhaustedOneLate(e) == attempts[e] > MaxAttempts
Exhausted(e) == attempts[e] >= MaxAttempts

ClaimableAcrossLanes(e) == status[e] = "pending" /\ due[e]
ClaimableAfterLease(e) ==
  /\ status[e] \in {"pending", "running"}
  /\ due[e]
  /\ ~\E f \in Effect \ {e} : SameLane(e, f) /\ status[f] = "running"
Claimable(e) ==
  /\ status[e] = "pending"
  /\ due[e]
  /\ ~\E f \in Effect : SameLane(e, f) /\ status[f] = "running"

(* A statement that fails changes nothing but the model's fault budget.    *)
Fault == faults < MaxFaults /\ faults' = faults + 1

-----------------------------------------------------------------------------
(* Transactions of the rest of the server.                                 *)

(* enqueue, inside a committed transaction; ON CONFLICT DO NOTHING makes   *)
(* the second enqueue of an id a stutter.  Before recovery the             *)
(* orchestrator's own construction enqueues, at shutdown                   *)
(* prepareForShutdown does.                                                *)
Enqueue(e) ==
  /\ proc \in {"bootRetire", "up", "stopRetire"}
  /\ status[e] = "absent"
  /\ status' = [status EXCEPT ![e] = "pending"]
  /\ due' = [due EXCEPT ![e] = TRUE]
  /\ UNCHANGED <<attempts, owner, signals, slots, proc, epoch, faults>>

(* cancelUnsettled of the effects in C, committed.                         *)
CancelUnsettled(C) ==
  /\ C # {}
  /\ status' = [e \in Effect |-> IF e \in C THEN "cancelled" ELSE status[e]]
  /\ owner' = [e \in Effect |-> IF e \in C THEN 0 ELSE owner[e]]
  /\ unsignalled' = unsignalled \cup C
  /\ UNCHANGED <<attempts, due, signal, fired, slots, proc, epoch, faults>>

UnsettledIfRunning(e) == status[e] = "running"
Unsettled(e) == status[e] \in {"pending", "running"}

(* Stop on a run without a provider turn: run.interrupt cancels the        *)
(* thread's unsettled start and restart effects.                           *)
InterruptRun(t) ==
  /\ proc = "up"
  /\ CancelUnsettled({e \in Effect : ThreadOf[e] = t /\ KindOf[e] = "turn" /\ Unsettled(e)})

(* One thread of reconcile("startup" | "shutdown"): its process-bound      *)
(* effects are cancelled in the thread's own transaction.                  *)
ReconcileThread(t) ==
  /\ proc \in {"bootRetire", "stopRetire"}
  /\ CancelUnsettled({e \in Effect : ThreadOf[e] = t /\ ProcessBound(e) /\ Unsettled(e)})

SignalNobody(e) ==
  /\ e \in unsignalled
  /\ unsignalled' = unsignalled \ {e}
  /\ UNCHANGED <<rows, signal, fired, slots, proc, epoch, faults>>

(* signalCancellations, after the commit: complete the Deferred the map    *)
(* holds now, if any.                                                      *)
SignalCancellation(e) ==
  /\ e \in unsignalled
  /\ unsignalled' = unsignalled \ {e}
  /\ fired' = [s \in Slot |-> fired[s] \/ (signal[e] = s /\ work[s] = e)]
  /\ UNCHANGED <<rows, signal, slots, proc, epoch, faults>>

(* A retry's available_at passes.  The backoff is at least 100 ms, far     *)
(* more than the continuation of the fiber that wrote it: that fiber has   *)
(* left the map before the row is due.                                     *)
DelayElapses(e) ==
  /\ proc = "up"
  /\ status[e] = "pending"
  /\ ~due[e]
  /\ \A s \in Slot : pc[s] = "forget" => work[s] # e
  /\ due' = [due EXCEPT ![e] = TRUE]
  /\ UNCHANGED <<status, attempts, owner, signals, slots, proc, epoch, faults>>

-----------------------------------------------------------------------------
(* One worker slot: runOnce.                                               *)

Goto(s, step) == pc' = [pc EXCEPT ![s] = step] /\ UNCHANGED <<work, outcome>>
Release(s) ==
  /\ pc' = [pc EXCEPT ![s] = "idle"]
  /\ work' = [work EXCEPT ![s] = NoEffect]
  /\ outcome' = [outcome EXCEPT ![s] = "none"]
Finish(s, result) ==
  /\ pc' = [pc EXCEPT ![s] = "clear"]
  /\ outcome' = [outcome EXCEPT ![s] = result]
  /\ UNCHANGED work

(* claimNext, the UPDATE.                                                  *)
ClaimNext(s, e) ==
  /\ proc = "up"
  /\ pc[s] = "idle"
  /\ Claimable(e)
  /\ status' = [status EXCEPT ![e] = "running"]
  /\ attempts' = [attempts EXCEPT ![e] = @ + 1]
  /\ owner' = [owner EXCEPT ![e] = epoch]
  /\ pc' = [pc EXCEPT ![s] = "claimed"]
  /\ work' = [work EXCEPT ![s] = e]
  /\ UNCHANGED <<due, outcome, signals, proc, epoch, faults>>

(* claimNext, after the UPDATE: a fresh Deferred replaces the map's entry, *)
(* then the row is decoded.  A row that does not decode fails the claim    *)
(* and stays running with no slot on it.                                   *)
RegisterSignal(s) ==
  /\ pc[s] = "claimed"
  /\ signal' = [signal EXCEPT ![work[s]] = s]
  /\ fired' = [fired EXCEPT ![s] = FALSE]
  /\ IF work[s] \in Undecodable THEN Release(s) ELSE Goto(s, "arm")
  /\ UNCHANGED <<rows, unsignalled, proc, epoch, faults>>

(* awaitCancellation: the slot will await the map's Deferred, made anew if *)
(* the map has none.                                                       *)
AwaitCancellation(s) ==
  /\ pc[s] = "arm"
  /\ signal' = [signal EXCEPT ![work[s]] = IF @ = NoSlot THEN s ELSE @]
  /\ fired' = [fired EXCEPT ![s] = IF signal[work[s]] = NoSlot THEN FALSE ELSE @]
  /\ Goto(s, "check")
  /\ UNCHANGED <<rows, unsignalled, proc, epoch, faults>>

CheckNothing(s) ==
  /\ pc[s] = "check"
  /\ Goto(s, "execute")
  /\ UNCHANGED <<rows, signals, proc, epoch, faults>>

(* wasCancelled: the pre-execution read of the row.                        *)
CheckCancelled(s) ==
  /\ pc[s] = "check"
  /\ Goto(s, IF status[work[s]] = "cancelled" THEN "drop" ELSE "execute")
  /\ UNCHANGED <<rows, signals, proc, epoch, faults>>

CheckFails(s) ==
  /\ pc[s] = "check"
  /\ Fault
  /\ Goto(s, "repair")
  /\ UNCHANGED <<rows, signals, proc, epoch>>

(* clearCancellation of an effect that was cancelled before it started.    *)
DropCancelled(s) ==
  /\ pc[s] = "drop"
  /\ signal' = [signal EXCEPT ![work[s]] = NoSlot]
  /\ Release(s)
  /\ UNCHANGED <<rows, fired, unsignalled, proc, epoch, faults>>

(* The executor returns or fails; only an interrupt can fail because its   *)
(* turn is already gone.                                                   *)
ExecutorReturns(s) ==
  /\ pc[s] = "execute"
  /\ \E result \in {"ok", "failed"} \cup
         (IF KindOf[work[s]] = "interrupt" THEN {"gone"} ELSE {}) : Finish(s, result)
  /\ UNCHANGED <<rows, signals, proc, epoch, faults>>

(* The Deferred wins the race: the execution is interrupted.               *)
ExecutionCancelled(s) ==
  /\ pc[s] = "execute"
  /\ fired[s]
  /\ Finish(s, "cancelled")
  /\ UNCHANGED <<rows, signals, proc, epoch, faults>>

(* Effect.ensuring(clearCancellation), before the outcome is looked at.    *)
ClearCancellation(s) ==
  /\ pc[s] = "clear"
  /\ signal' = [signal EXCEPT ![work[s]] = NoSlot]
  /\ IF outcome[s] = "cancelled" THEN Release(s) ELSE Goto(s, "settle")
  /\ UNCHANGED <<rows, fired, unsignalled, proc, epoch, faults>>

(* The settling UPDATE; its WHERE clause is Owns.                          *)
SettleClaim(s) ==
  LET e == work[s] IN
  /\ pc[s] = "settle"
  /\ Owns(e)
  /\ \/ outcome[s] \in {"ok", "gone"} /\ Close(e, "succeeded")
     \/ outcome[s] = "failed" /\ Exhausted(e) /\ Close(e, "failed")
     \/ outcome[s] = "failed" /\ ~Exhausted(e) /\ Retry(e, FALSE)
  /\ Goto(s, "forget")
  /\ UNCHANGED <<signals, proc, epoch, faults>>

SettlementFailsSilently(s) ==
  /\ pc[s] = "settle"
  /\ Fault
  /\ Release(s)
  /\ UNCHANGED <<rows, signals, proc, epoch>>

SettlementFails(s) ==
  /\ pc[s] = "settle"
  /\ Fault
  /\ Goto(s, "repair")
  /\ UNCHANGED <<rows, signals, proc, epoch>>

(* onError of a statement that failed: requeueClaim, or terminalizeClaim   *)
(* where running the effect again is not safe.                             *)
Requeues(s) ==
  \/ outcome[s] = "none"
  \/ outcome[s] = "ok" /\ ReplaySafe(work[s])
  \/ outcome[s] = "failed" /\ ~Exhausted(work[s])

RepairClaim(s) ==
  LET e == work[s] IN
  /\ pc[s] = "repair"
  /\ Owns(e)
  /\ \/ Requeues(s) /\ Retry(e, TRUE)
     \/ ~Requeues(s) /\ Close(e, "failed")
  /\ Goto(s, "forget")
  /\ UNCHANGED <<signals, proc, epoch, faults>>

(* The repairing statement fails too: the error is only logged.            *)
RepairFails(s) ==
  /\ pc[s] = "repair"
  /\ Fault
  /\ Release(s)
  /\ UNCHANGED <<rows, signals, proc, epoch>>

(* The UPDATE matches no row: the slot reads the row again and reports.    *)
LoseClaim(s) ==
  /\ pc[s] \in {"settle", "repair"}
  /\ ~Owns(work[s])
  /\ Release(s)
  /\ UNCHANGED <<rows, signals, proc, epoch, faults>>

(* The settling call's last act: delete the map's entry for the effect.    *)
ForgetSignal(s) ==
  /\ pc[s] = "forget"
  /\ signal' = [signal EXCEPT ![work[s]] = NoSlot]
  /\ Release(s)
  /\ UNCHANGED <<rows, fired, unsignalled, proc, epoch, faults>>

RunOnce(s) ==
  \/ \E e \in Effect : ClaimNext(s, e)
  \/ RegisterSignal(s) \/ AwaitCancellation(s) \/ CheckCancelled(s)
  \/ DropCancelled(s) \/ ExecutionCancelled(s)
  \/ ClearCancellation(s) \/ SettleClaim(s) \/ RepairClaim(s) \/ LoseClaim(s)
  \/ CheckFails(s) \/ SettlementFails(s) \/ RepairFails(s) \/ ForgetSignal(s)

-----------------------------------------------------------------------------
(* The server process.                                                     *)

LoseProcess ==
  /\ signal' = [e \in Effect |-> NoSlot]
  /\ fired' = [s \in Slot |-> FALSE]
  /\ unsignalled' = {}
  /\ pc' = [s \in Slot |-> "idle"]
  /\ work' = [s \in Slot |-> NoEffect]
  /\ outcome' = [s \in Slot |-> "none"]

Crash ==
  /\ proc # "down"
  /\ epoch < MaxEpoch
  /\ proc' = "down"
  /\ LoseProcess
  /\ UNCHANGED <<rows, epoch, faults>>

(* The shutdown finalizer interrupts the worker fiber: its slots end where *)
(* they are and settle nothing.                                            *)
StopWorkers ==
  /\ proc = "up"
  /\ epoch < MaxEpoch
  /\ proc' = "stopRetire"
  /\ LoseProcess
  /\ UNCHANGED <<rows, epoch, faults>>

Boot ==
  /\ proc = "down"
  /\ proc' = "bootRetire"
  /\ epoch' = epoch + 1
  /\ UNCHANGED <<rows, signals, slots, faults>>

(* reconcileAfterProcessLoss is two UPDATEs without a transaction.         *)
RetireProcessBound ==
  LET C == {e \in Effect : ProcessBound(e) /\ Unsettled(e)} IN
  /\ proc \in {"bootRetire", "stopRetire"}
  /\ proc' = IF proc = "bootRetire" THEN "bootRequeue" ELSE "stopRequeue"
  /\ status' = [e \in Effect |-> IF e \in C THEN "cancelled" ELSE status[e]]
  /\ owner' = [e \in Effect |-> IF e \in C THEN 0 ELSE owner[e]]
  /\ UNCHANGED <<attempts, due, signals, slots, epoch, faults>>

RequeueReplaySafe ==
  LET R == {e \in Effect : ReplaySafe(e) /\ status[e] = "running"} IN
  /\ proc \in {"bootRequeue", "stopRequeue"}
  /\ proc' = IF proc = "bootRequeue" THEN "up" ELSE "down"
  /\ status' = [e \in Effect |-> IF e \in R THEN "pending" ELSE status[e]]
  /\ owner' = [e \in Effect |-> IF e \in R THEN 0 ELSE owner[e]]
  /\ due' = [e \in Effect |-> due[e] \/ e \in R]
  /\ UNCHANGED <<attempts, signals, slots, epoch, faults>>

Next ==
  \/ \E e \in Effect : Enqueue(e) \/ SignalCancellation(e) \/ DelayElapses(e)
  \/ \E t \in Thread : InterruptRun(t) \/ ReconcileThread(t)
  \/ \E s \in Slot : RunOnce(s) \/ ExecutorReturns(s)
  \/ Crash \/ StopWorkers \/ Boot \/ RetireProcessBound \/ RequeueReplaySafe

Spec == Init /\ [][Next]_vars

(* Fairness.  The poll makes an idle slot claim again within               *)
(* livenessPollIntervalMs and the fiber scheduler runs every ready fiber;  *)
(* timers fire; a started process goes through recovery.                   *)
ServerFairness ==
  /\ \A s \in Slot : WF_vars(RunOnce(s))
  /\ WF_vars(\E e \in Effect : DelayElapses(e) \/ SignalCancellation(e))
  /\ WF_vars(Boot \/ RetireProcessBound \/ RequeueReplaySafe)

(* Nothing in the worker bounds an execution: that executors return is an  *)
(* assumption on the providers, not made of the hanging effects.           *)
ProvidersReturn ==
  \A s \in Slot : WF_vars(work[s] \notin Hanging /\ ExecutorReturns(s))

FairSpec == Spec /\ ServerFairness /\ ProvidersReturn

-----------------------------------------------------------------------------
(* Properties.                                                             *)

(* A slot that has claimed e and not yet settled it.                       *)
Holds(s, e) == work[s] = e /\ pc[s] # "forget"

(* One effect is never in the hands of two slots at once, although every   *)
(* slot settles under the same workerId.                                   *)
SoleHolder ==
  \A s, t \in Slot : \A e \in Effect : Holds(s, e) /\ Holds(t, e) => s = t

(* Two effects of one lane execute side by side only when one of them has  *)
(* been cancelled and its execution has not ended yet.                     *)
LaneSerial ==
  \A s, t \in Slot :
    /\ s # t
    /\ pc[s] = "execute" /\ pc[t] = "execute"
    /\ SameLane(work[s], work[t])
    => status[work[s]] = "cancelled" \/ status[work[t]] = "cancelled"

(* While the server is up a running row, which blocks its lane, is in the  *)
(* hands of a slot of this very process, unless both the settling and the  *)
(* repairing statement failed or the row does not decode: nothing reads    *)
(* lease_expires_at, so such a row waits for a restart.                    *)
RunningIsHeld ==
  \A e \in Effect :
    proc = "up" /\ status[e] = "running" =>
      /\ owner[e] = epoch
      /\ (\E s \in Slot : Holds(s, e)) \/ faults >= 2 \/ e \in Undecodable

(* "The worker no longer owns the effect lease" is never reported: a slot  *)
(* that finds its claim gone finds it cancelled.                           *)
LeaseLostOnlyToCancel ==
  \A s \in Slot :
    pc[s] \in {"check", "execute", "clear", "settle", "repair"} =>
      Owns(work[s]) \/ status[work[s]] = "cancelled"

(* An effect fails only after maxAttempts executions or a failing          *)
(* statement, and is never tried more often than maxAttempts, restarts and *)
(* failing statements account for.                                         *)
AttemptsBounded ==
  \A e \in Effect :
    /\ status[e] = "failed" => attempts[e] >= MaxAttempts \/ faults > 0
    /\ attempts[e] + 1 <= MaxAttempts + epoch + faults

(* The signal is armed before the row is read, so that no cancellation is  *)
(* lost: an execution whose cancellation has been committed and signalled  *)
(* has its Deferred completed.                                             *)
CancellationReachesExecution ==
  \A s \in Slot :
    pc[s] = "execute" /\ status[work[s]] = "cancelled" =>
      fired[s] \/ work[s] \in unsignalled

(* It holds as long as no statement fails.                                 *)
CancellationsArrive == faults = 0 => CancellationReachesExecution

(* A settled effect stays as it was settled: a late success does not       *)
(* overwrite a cancellation, nothing runs twice.                           *)
SettledForever ==
  [][\A e \in Effect : status[e] \in Settled => status'[e] = status[e]]_vars

(* Recovery retires effects tied to a lost process before new work is      *)
(* admitted: when the server comes up no row is running and none that is   *)
(* bound to a provider process is pending, whatever crashed before.        *)
CleanAdmission ==
  [][proc # "up" /\ proc' = "up" =>
       \A e \in Effect :
         /\ status'[e] # "running"
         /\ ProcessBound(e) => status'[e] # "pending"]_vars

(* Stop is effective whatever the provider does: the execution of a        *)
(* cancelled effect ends although the executor may never return, as long   *)
(* as no statement fails.                                                  *)
Executes(e) == \E s \in Slot : pc[s] = "execute" /\ work[s] = e
CancelledExecutionEnds ==
  \A e \in Hanging :
    Executes(e) /\ status[e] = "cancelled" /\ faults = 0 ~> ~Executes(e) \/ faults > 0

(* A recorded intent is carried out or given up, through retries, crashes  *)
(* and restarts: no pending effect waits for ever, except behind a row of  *)
(* its own lane that does not decode or hangs.                             *)
EffectsSettle ==
  \A e \in {f \in Effect : ~\E g \in Undecodable \cup Hanging : SameLane(f, g)} :
    status[e] = "pending" ~> status[e] \in Settled

(* The outbox implements its promise.                                      *)
LaneOfEffect == [e \in Effect |-> <<ThreadOf[e], KindOf[e] = "title">>]
LifeOf(st) ==
  CASE st = "absent" -> "new" [] st = "pending" -> "open"
    [] st = "running" -> "working" [] OTHER -> "closed"
Promise == INSTANCE EffectLanes WITH
  Lane <- Thread \X BOOLEAN,
  LaneOf <- LaneOfEffect,
  life <- [e \in Effect |-> LifeOf(status[e])]
ImplementsLanes == Promise!Spec
=============================================================================
