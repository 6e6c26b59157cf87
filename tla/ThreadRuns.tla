----------------------------- MODULE ThreadRuns -----------------------------
(***************************************************************************)
(* The runs of one thread: commands that queue, start, stop, steer and     *)
(* reorder them (orchestration-v2/Orchestrator.ts), the effects that start *)
(* provider turns and capture checkpoints (ProviderTurnStartService,       *)
(* CheckpointCaptureService), the fibers that take in what the provider    *)
(* says (RunExecutionService), the starter of queued runs, and what a      *)
(* shutdown, a crash and a start of the server do to them                  *)
(* (ProviderRuntimeRecoveryService, RestartContinuation).                  *)
(*                                                                         *)
(* Commands and starts of queued runs hold the thread's lock from plan to  *)
(* commit; ingestion, captures and recovery write without it.  The lock is *)
(* KeyedMutex, receipts are CommandDispatch, claims and leases are         *)
(* EffectOutbox: here any unsettled effect of the thread is executed next, *)
(* one at a time.                                                          *)
(*                                                                         *)
(* Abstractions: a run is its ordinal.  The Stop of a running turn and a   *)
(* steer that the provider takes into its turn leave the runs as they are. *)
(* Completed, failed and interrupted runs are ended runs.  There are no    *)
(* preparing runs, rollbacks, archives or delegated completions; the       *)
(* setting to continue after a restart is on.                              *)
(***************************************************************************)
EXTENDS Naturals, FiniteSets

CONSTANTS
  MaxAttempts,  \* bound: attempts of all runs
  MaxFaults,    \* bound: failing steps and ends of the server process
  MaxEvents     \* bound: all of these together

ASSUME ThreadAssumption ==
  MaxAttempts \in Nat \ {0} /\ MaxFaults \in Nat /\ MaxEvents \in Nat

Run == 1..MaxAttempts

(* The first attempt of a run is 1, the one made by the n-th steer n + 1.  *)
Attempt == 1..MaxAttempts

VARIABLES
  run,       \* the run rows of the projection
  turn,      \* the provider turn of each attempt and the fiber that ingests it
  outbox,    \* the unsettled effects that are not being executed
  known,     \* the effects with a stable id that have a row
  plan,      \* what the holder of the thread's lock is going to commit
  exec,      \* the effect that is executed
  backlog,   \* terminal events the starter of queued runs has not handled
  missed,    \* the starter failed to handle the last one it took
  phase,     \* of the server process
  recovery,  \* what the shutdown reconciliation is going to commit
  faults, steers, restarts

bounds == <<faults, steers, restarts>>
server == <<phase, recovery>>
starter == <<backlog, missed>>
vars == <<run, turn, outbox, known, plan, exec, starter, server, bounds>>

Blocking == {"starting", "running", "waiting"}
Terminal == {"ended", "cancelled"}
RunRow == [status : {"none", "queued"} \cup Blocking \cup Terminal,
           attempt : Attempt, place : 0..MaxAttempts, source : 0..MaxAttempts]

(* A running turn is running in the projection, a lost one too, but its    *)
(* fiber is gone; an ended one is not.                                     *)
Turn == {"none", "asked", "running", "ended", "broken", "completing",
         "failing", "over", "lost"}
EffectType == {"start", "restart", "capture", "continue"}
ProcessBound == {"start", "restart"}     \* of PROCESS_BOUND_EFFECT_TYPES
EffectRow == [type : EffectType, run : Run, attempt : Attempt]

Steps == {"idle", "opening", "marked", "checked", "capturing", "dispatching",
          "committing"}
Idle == [step |-> "idle", effect |-> [type |-> "start", run |-> 1, attempt |-> 1],
         attempt |-> 1, cancelled |-> FALSE]

NoWrites == [r \in {} |-> 0]
NoPlan == [by |-> "none", writes |-> NoWrites, effects |-> {}, cancels |-> FALSE]

TypeOK ==
  /\ run \in [Run -> RunRow]
  /\ turn \in [Run -> [Attempt -> Turn]]
  /\ outbox \in SUBSET EffectRow
  /\ known \in SUBSET [type : {"capture", "continue"}, run : Run]
  /\ plan.by \in {"none", "command", "continue", "starter"}
  /\ DOMAIN plan.writes \subseteq Run
  /\ \A r \in DOMAIN plan.writes : plan.writes[r] \in RunRow
  /\ plan.effects \in SUBSET EffectRow
  /\ plan.cancels \in BOOLEAN
  /\ exec \in [step : Steps, effect : EffectRow, attempt : Attempt, cancelled : BOOLEAN]
  /\ backlog \in Nat
  /\ missed \in BOOLEAN
  /\ phase \in {"up", "stopping", "closing", "reading", "reconciling", "exiting", "down",
                "booted"}
  /\ DOMAIN recovery \subseteq Run
  /\ \A r \in DOMAIN recovery : recovery[r] \in RunRow
  /\ faults \in Nat /\ restarts \in Nat /\ steers \in 0..MaxAttempts - 1

Init ==
  /\ run = [r \in Run |-> [status |-> "none", attempt |-> 1, place |-> 0, source |-> 0]]
  /\ turn = [r \in Run |-> [a \in Attempt |-> "none"]]
  /\ outbox = {} /\ known = {}
  /\ plan = NoPlan /\ exec = Idle
  /\ backlog = 0 /\ missed = FALSE
  /\ phase = "up" /\ recovery = NoWrites
  /\ faults = 0 /\ steers = 0 /\ restarts = 0

-----------------------------------------------------------------------------
Status(r) == run[r].status
Queued == {r \in Run : Status(r) = "queued"}
Busy == \E r \in Run : Status(r) \in Blocking      \* some isBlockingRun
Unused == {r \in Run : Status(r) = "none"}
IsNewRun(r) == r \in Unused /\ \A u \in Unused : r <= u   \* nextRunOrdinal
TurnRunning(r) == turn[r][run[r].attempt] \in {"running", "lost"}

(* queuedRunsInDeliveryOrder.                                              *)
Before(q, r) ==
  run[q].place < run[r].place \/ (run[q].place = run[r].place /\ q < r)
IsNextQueued(r) == r \in Queued /\ \A q \in Queued \ {r} : Before(r, q)

Effect(type, r, a) == [type |-> type, run |-> r, attempt |-> a]
Key(effect) == [type |-> effect.type, run |-> effect.run]

(* The unsettled rows, the executed effect's among them.                   *)
Executing == IF exec.step = "idle" THEN {} ELSE {exec.effect}
Unsettled == outbox \cup Executing

(* INSERT ... ON CONFLICT(effect_id) DO NOTHING.                           *)
EnqueueOnce(base, effect) ==
  /\ outbox' = IF Key(effect) \in known THEN base ELSE base \cup {effect}
  /\ known' = known \cup {Key(effect)}

Row(r, status) == [run[r] EXCEPT !.status = status, !.place = 0]
One(r, row) == [x \in {r} |-> row]
Written(writes) == [r \in Run |-> IF r \in DOMAIN writes THEN writes[r] ELSE run[r]]
(* Terminal events of these writes reach the starter.                      *)
WithTerminal(writes) ==
  IF \E r \in DOMAIN writes : writes[r].status \in Terminal THEN backlog + 1 ELSE backlog

(* Bounds.                                                                 *)
Attempts == steers + Cardinality({r \in Run : r \notin Unused \/ r \in DOMAIN plan.writes})
MayAttempt == Attempts < MaxAttempts /\ Attempts + faults + restarts < MaxEvents
MayFail == faults + restarts < MaxFaults /\ Attempts + faults + restarts < MaxEvents
Fail == MayFail /\ faults' = faults + 1
Fault == Fail /\ UNCHANGED <<steers, restarts>>

-----------------------------------------------------------------------------
(* Commands: a plan is made from the projection and committed later, both  *)
(* under the lock.                                                         *)

Plan(by, writes, effects, cancels) ==
  plan' = [by |-> by, writes |-> writes, effects |-> effects, cancels |-> cancels]
Unlocked == plan.by = "none"

CanCommand ==
  /\ phase = "up" /\ Unlocked
  /\ UNCHANGED <<run, turn, outbox, known, exec, starter, server, faults, restarts>>

(* dispatchMessage: a message starts a run, or queues one behind a run     *)
(* that blocks.  Places are queuePosition by its order alone: the place of *)
(* a new run is behind all others.                                         *)
PlanRun(by, r, source) ==
  IF Busy
  THEN Plan(by, One(r, [status |-> "queued", attempt |-> 1, place |-> r, source |-> source]),
            {}, FALSE)
  ELSE Plan(by, One(r, [status |-> "starting", attempt |-> 1, place |-> 0, source |-> source]),
            {Effect("start", r, 1)}, FALSE)

DispatchMessage ==
  /\ CanCommand /\ MayAttempt /\ UNCHANGED steers
  /\ \E r \in Run : IsNewRun(r) /\ PlanRun("command", r, 0)

(* dispatchRunInterrupt of a run whose turn is not running.                *)
InterruptRun(r) ==
  /\ CanCommand /\ UNCHANGED steers
  /\ Status(r) \in {"starting", "running"} /\ ~TurnRunning(r)
  /\ Plan("command", One(r, Row(r, "ended")), {}, TRUE)

(* dispatchSteerIntoRun, when the turn is interrupted and a new attempt    *)
(* started.                                                                *)
Steerable(r) == Status(r) = "running" /\ TurnRunning(r)
Steer == CanCommand /\ MayAttempt /\ steers' = steers + 1

(* Faulty variants are named for the mistake they make.                    *)
NextAttemptCountedTwice(r) ==
  [run[r] EXCEPT !.status = "starting", !.attempt = steers' + 2]
NextAttempt(r) == [run[r] EXCEPT !.status = "starting", !.attempt = steers + 2]
Restart(r) == {Effect("restart", r, run[r].attempt)}

SteerRun(r) ==
  Steer /\ Steerable(r) /\ Plan("command", One(r, NextAttempt(r)), Restart(r), FALSE)

(* dispatchQueuedMessagePromoteToSteer.                                    *)
PromoteQueued(q, r) ==
  /\ Steer /\ q \in Queued /\ Steerable(r)
  /\ Plan("command", [x \in {q, r} |-> IF x = q THEN Row(q, "cancelled") ELSE NextAttempt(r)],
          Restart(r), FALSE)

(* dispatchQueuedRunCancel.                                                *)
CancelQueued(q) ==
  /\ CanCommand /\ UNCHANGED steers /\ q \in Queued
  /\ Plan("command", One(q, Row(q, "cancelled")), {}, FALSE)

(* dispatchQueuedRunReorder: r is moved before another run or to the end,  *)
(* and the queue numbered from 1.                                          *)
ReorderQueued(r) ==
  /\ CanCommand /\ UNCHANGED steers /\ r \in Queued
  /\ \E place \in [Queued -> 1..Cardinality(Queued)] :
       /\ \A p, q \in Queued : p # q => place[p] # place[q]
       /\ \A p, q \in Queued \ {r} : Before(p, q) => place[p] < place[q]
       /\ \E q \in Queued : run[q].place # place[q]
       /\ Plan("command", [q \in Queued |-> [run[q] EXCEPT !.place = place[q]]], {}, FALSE)

(* commitCommand, writeWithEffects.  A Stop cancels unsettled starts.      *)
Commit ==
  LET kept(effect) == ~(plan.cancels /\ effect.type \in ProcessBound) IN
  /\ ~Unlocked
  /\ run' = Written(plan.writes)
  /\ outbox' = {effect \in outbox : kept(effect)} \cup plan.effects
  /\ exec' = IF plan.by = "continue" THEN Idle
             ELSE [exec EXCEPT !.cancelled = @ \/ \E effect \in Executing : ~kept(effect)]
  /\ backlog' = WithTerminal(plan.writes)
  /\ plan' = NoPlan
  /\ UNCHANGED <<turn, known, missed, server, bounds>>

(* A failing statement, or a caller who goes away.                         *)
CommitFails ==
  /\ ~Unlocked /\ Fault
  /\ plan' = NoPlan
  /\ missed' = (missed \/ plan.by = "starter")
  /\ outbox' = IF plan.by = "continue" THEN Unsettled ELSE outbox
  /\ exec' = IF plan.by = "continue" THEN Idle ELSE exec
  /\ UNCHANGED <<run, turn, known, backlog, server>>

-----------------------------------------------------------------------------
(* The starter of queued runs: handleTerminalRun, startNextQueuedRun.      *)

Alive == phase \notin {"down", "booted"}

HandleTerminalChecksFirst ==
  /\ Alive /\ backlog > 0
  /\ backlog' = backlog - 1 /\ missed' = FALSE
  /\ IF Busy \/ Queued = {} THEN UNCHANGED plan
     ELSE Unlocked /\ \E r \in Queued : IsNextQueued(r) /\
            Plan("starter", One(r, Row(r, "starting")), {Effect("start", r, 1)}, FALSE)
  /\ UNCHANGED <<run, turn, outbox, known, exec, missed, server, bounds>>

HandleTerminalOldestFirst ==
  /\ Alive /\ Unlocked /\ backlog > 0
  /\ backlog' = backlog - 1 /\ missed' = FALSE
  /\ IF Busy \/ Queued = {} THEN UNCHANGED plan
     ELSE \E r \in Queued : (\A q \in Queued : r <= q) /\
            Plan("starter", One(r, Row(r, "starting")), {Effect("start", r, 1)}, FALSE)
  /\ UNCHANGED <<run, turn, outbox, known, exec, missed, server, bounds>>

HandleTerminal ==
  /\ Alive /\ Unlocked /\ backlog > 0
  /\ backlog' = backlog - 1 /\ missed' = FALSE
  /\ IF Busy \/ Queued = {} THEN UNCHANGED plan
     ELSE \E r \in Queued : IsNextQueued(r) /\
            Plan("starter", One(r, Row(r, "starting")), {Effect("start", r, 1)}, FALSE)
  /\ UNCHANGED <<run, turn, outbox, known, exec, missed, server, bounds>>

-----------------------------------------------------------------------------
(* The effects of the thread.                                              *)

Execute(step) ==
  /\ phase = "up" /\ exec.step = step
  /\ UNCHANGED <<turn, plan, starter, server, steers, restarts>>
Settle == exec' = Idle

(* An effect is claimed with its first read, which decides what is done.   *)
Claim(effect) ==
  /\ Execute("idle") /\ UNCHANGED <<run, known, faults>>
  /\ effect \in outbox /\ outbox' = outbox \ {effect}
Work(step, effect, a) ==
  exec' = [step |-> step, effect |-> effect, attempt |-> a, cancelled |-> FALSE]
Goto(step) == exec' = [exec EXCEPT !.step = step]

(* ProviderTurnStartService: a run is started while its row says starting. *)
MayStartUnlessSettled(r) == Status(r) \in {"starting", "running"}
MayStart(r) == Status(r) = "starting"

(* A restart has waited for the old turn to end, interruptAndAwaitTerminal; *)
(* one that still waits does not hold up the thread's other effects.       *)
ReadRun(effect) ==
  LET r == effect.run IN
  /\ Claim(effect) /\ effect.type \in ProcessBound
  /\ effect.type = "restart" => turn[r][effect.attempt] # "running"
  /\ IF MayStart(r) THEN Work("opening", effect, run[r].attempt) ELSE Settle

(* The session is open and the thread loaded: writeIfRunCurrent.           *)
MarkRunning ==
  LET r == exec.effect.run IN
  /\ Execute("opening")
  /\ IF MayStart(r) /\ run[r].attempt = exec.attempt
     THEN run' = [run EXCEPT ![r].status = "running"] /\ Goto("marked")
     ELSE UNCHANGED run /\ Settle
  /\ UNCHANGED <<outbox, known, faults>>

(* startRootRun: the baseline is captured and the run checked once more;   *)
(* the ingestion fiber waits for the turn.                                 *)
IsCurrent(r, a, status) == run[r].attempt = a /\ Status(r) \in status

CheckRun ==
  LET r == exec.effect.run  a == exec.attempt IN
  /\ Execute("marked")
  /\ IF IsCurrent(r, a, {"running"}) THEN Goto("checked") ELSE Settle
  /\ UNCHANGED <<run, outbox, known, faults>>

(* startTurn.  When it fails the run is finalized as by a broken stream.   *)
(* When the effect cannot be settled afterwards it is due again.           *)
StartTurn ==
  LET r == exec.effect.run  a == exec.attempt IN
  /\ phase = "up" /\ exec.step = "checked"
  /\ \/ turn' = [turn EXCEPT ![r][a] = "asked"] /\ UNCHANGED <<outbox, bounds>>
     \/ turn' = [turn EXCEPT ![r][a] = "asked"] /\ outbox' = Unsettled /\ Fault
     \/ turn' = [turn EXCEPT ![r][a] = "broken"] /\ UNCHANGED outbox /\ Fault
  /\ Settle
  /\ UNCHANGED <<run, known, plan, starter, server>>

(* CheckpointCaptureService.execute.  Of a run that has been captured      *)
(* there is nothing to do.  Of one that does not wait for other reasons    *)
(* the effect fails and is due again, which changes nothing here, until    *)
(* its last attempt settles it as failed.                                  *)
ReadCaptureTarget(effect) ==
  LET r == effect.run IN
  /\ Claim(effect) /\ effect.type = "capture"
  /\ IF Status(r) = "waiting" THEN Work("capturing", effect, run[r].attempt) ELSE Settle

(* The row is written as it was read.                                      *)
CommitCapture ==
  LET r == exec.effect.run IN
  /\ phase = "up" /\ exec.step = "capturing"
  /\ run' = [run EXCEPT ![r] = [Row(r, "ended") EXCEPT !.attempt = exec.attempt]]
  /\ backlog' = backlog + 1
  /\ Settle
  /\ UNCHANGED <<turn, outbox, known, plan, missed, server, bounds>>

(* continueRestartedRun: a first check without the lock, then the dispatch *)
(* that checks again under it (dispatchMessage).                           *)
LastRun(s) == \A r \in Run : r > s => r \in Unused

ContinuableWhenLastSeen(s) == TRUE
Continuable(s) == Status(s) = "cancelled" /\ LastRun(s)

CheckContinuation(effect) ==
  LET s == effect.run IN
  /\ Claim(effect) /\ effect.type = "continue"
  /\ IF Status(s) = "cancelled" /\ LastRun(s) /\ Unused # {}
     THEN Work("dispatching", effect, 1) ELSE Settle

DispatchContinuation ==
  LET s == exec.effect.run IN
  /\ phase = "up" /\ exec.step = "dispatching" /\ Unlocked
  /\ \/ ~Continuable(s) /\ Settle /\ UNCHANGED plan
     \/ /\ Continuable(s) /\ Goto("committing")
        /\ \E r \in Run : IsNewRun(r) /\ PlanRun("continue", r, s)
  /\ UNCHANGED <<run, turn, outbox, known, starter, server, bounds>>

(* A step fails and the effect is due again later.                         *)
ExecutionFails ==
  /\ phase = "up" /\ exec.step \in {"opening", "marked", "capturing", "dispatching"}
  /\ Fault
  /\ outbox' = Unsettled /\ Settle
  /\ UNCHANGED <<run, turn, known, plan, starter, server>>

(* The Stop of its run reaches the executor.                               *)
ExecutionCancelled ==
  /\ phase = "up" /\ exec.cancelled
  /\ Settle
  /\ UNCHANGED <<run, turn, outbox, known, plan, starter, server, bounds>>

-----------------------------------------------------------------------------
(* What the provider says of a turn, and the fiber that ingests it.        *)

Ingest(r, a, stage) ==
  /\ Alive /\ turn[r][a] = stage
  /\ UNCHANGED <<plan, exec, missed, server, steers, restarts>>
SetTurn(r, a, stage) == turn' = [turn EXCEPT ![r][a] = stage]
OnlyTurn == UNCHANGED <<run, outbox, known, backlog, faults>>

TurnStarts(r, a) == Ingest(r, a, "asked") /\ SetTurn(r, a, "running") /\ OnlyTurn
TurnEnds(r, a) == Ingest(r, a, "running") /\ SetTurn(r, a, "ended") /\ OnlyTurn

(* The session is lost: the stream fails.                                  *)
StreamFails(r, a) ==
  /\ \E stage \in {"asked", "running", "ended"} : Ingest(r, a, stage)
  /\ SetTurn(r, a, "broken")
  /\ Fail
  /\ UNCHANGED <<run, outbox, known, backlog>>

(* writeFinalRunEvents: shouldFinalizeRun is read first ...                *)
ShouldFinalize(r, a) ==
  /\ \/ Ingest(r, a, "ended")
        /\ SetTurn(r, a, IF IsCurrent(r, a, {"starting", "running"}) THEN "completing" ELSE "over")
     \/ Ingest(r, a, "broken")
        /\ SetTurn(r, a, IF IsCurrent(r, a, {"starting", "running"}) THEN "failing" ELSE "over")
  /\ OnlyTurn

(* ... and the row of the attempt written whatever has happened since.     *)
Final(r, a, status) == [Row(r, status) EXCEPT !.attempt = a]

CompleteRunUncaptured(r, a) ==
  /\ Ingest(r, a, "completing") /\ SetTurn(r, a, "over")
  /\ run' = [run EXCEPT ![r] = Final(r, a, "waiting")]
  /\ UNCHANGED <<outbox, known, backlog, faults>>

CompleteRun(r, a) ==
  /\ Ingest(r, a, "completing") /\ SetTurn(r, a, "over")
  /\ run' = [run EXCEPT ![r] = Final(r, a, "waiting")]
  /\ EnqueueOnce(outbox, Effect("capture", r, 1))
  /\ UNCHANGED <<backlog, faults>>

EndRun(r, a) ==
  /\ \E stage \in {"completing", "failing"} : Ingest(r, a, stage)
  /\ run' = [run EXCEPT ![r] = Final(r, a, "ended")]
  /\ SetTurn(r, a, "over")
  /\ backlog' = backlog + 1
  /\ UNCHANGED <<outbox, known, faults>>

(* A write that fails is tried again as a failure, once.                   *)
FinalWriteFails(r, a) ==
  /\ \/ Ingest(r, a, "completing") /\ SetTurn(r, a, "broken")
     \/ Ingest(r, a, "failing") /\ SetTurn(r, a, "over")
  /\ Fail
  /\ UNCHANGED <<run, outbox, known, backlog>>

IngestStep(r, a) ==
  \/ TurnStarts(r, a) \/ TurnEnds(r, a) \/ ShouldFinalize(r, a)
  \/ CompleteRun(r, a) \/ EndRun(r, a)

-----------------------------------------------------------------------------
(* Shutdown, crash and start of the server.                                *)

(* restartContinuationRun.                                                 *)
ContinuationRun(s) ==
  /\ LastRun(s)
  /\ \/ Status(s) = "running" /\ TurnRunning(s)
     \/ Status(s) = "starting" /\ run[s].source # 0

(* nonterminalRuns, without those whose capture will be replayed.          *)
Captured(r) ==
  Status(r) = "waiting" /\ \E effect \in Unsettled : effect.type = "capture" /\ effect.run = r
Interrupted == {r \in Run : Status(r) \in Blocking \cup {"queued"} /\ ~Captured(r)}
Cancellations == [r \in Interrupted |-> Row(r, "cancelled")]
Replayable(effects) == {effect \in effects : effect.type \notin ProcessBound}
(* The provider turns of a reconciled thread are cancelled.                *)
Retire(stage) == IF stage = "lost" THEN "over" ELSE stage
Retired == [r \in Run |-> [a \in Attempt |-> Retire(turn[r][a])]]

(* New commands are refused, the worker is interrupted.                    *)
StopServing ==
  /\ phase = "up" /\ MayFail
  /\ phase' = "stopping" /\ restarts' = restarts + 1
  /\ outbox' = Unsettled /\ exec' = Idle
  /\ plan' = IF plan.by = "continue" THEN NoPlan ELSE plan
  /\ UNCHANGED <<run, turn, known, starter, recovery, faults, steers>>

(* prepareForShutdown.                                                     *)
PrepareForShutdown ==
  /\ phase = "stopping" /\ phase' = "closing"
  /\ IF \E s \in Run : ContinuationRun(s)
     THEN \E s \in Run : ContinuationRun(s) /\ EnqueueOnce(outbox, Effect("continue", s, 1))
     ELSE UNCHANGED <<outbox, known>>
  /\ UNCHANGED <<run, turn, plan, exec, starter, recovery, bounds>>

(* providerSessions.shutdown ends the streams.  A fiber in the middle of   *)
(* its last event is not waited for.                                       *)
Close(stage) ==
  IF stage = "asked" THEN "over" ELSE IF stage = "running" THEN "lost" ELSE stage

CloseSessions ==
  /\ phase = "closing" /\ phase' = "reading"
  /\ turn' = [r \in Run |-> [a \in Attempt |-> Close(turn[r][a])]]
  /\ UNCHANGED <<run, outbox, known, plan, exec, starter, recovery, bounds>>

(* reconcile("shutdown"): the projection is read, then written.            *)
ReadProjection ==
  /\ phase = "reading" /\ phase' = "reconciling"
  /\ recovery' = Cancellations
  /\ UNCHANGED <<run, turn, outbox, known, plan, exec, starter, bounds>>

(* The starter does not listen to the terminal events of a recovery.       *)
Reconcile ==
  /\ phase = "reconciling" /\ phase' = "exiting"
  /\ run' = Written(recovery) /\ recovery' = NoWrites
  /\ outbox' = Replayable(outbox)
  /\ turn' = Retired
  /\ UNCHANGED <<known, plan, exec, starter, bounds>>

(* The process ends, after a shutdown or by a crash.                       *)
Lose(stage) ==
  IF stage = "none" THEN "none" ELSE IF stage \in {"running", "lost"} THEN "lost" ELSE "over"

ProcessEnds ==
  /\ Alive
  /\ IF phase = "up" THEN MayFail /\ restarts' = restarts + 1 ELSE UNCHANGED restarts
  /\ phase' = "down" /\ recovery' = NoWrites
  /\ turn' = [r \in Run |-> [a \in Attempt |-> Lose(turn[r][a])]]
  /\ outbox' = Unsettled /\ exec' = Idle /\ plan' = NoPlan
  /\ backlog' = 0 /\ missed' = FALSE
  /\ UNCHANGED <<run, known, faults, steers>>

(* The orchestrator's layer: resumeQueuedRuns.                             *)
ResumeQueued ==
  /\ phase = "down" /\ phase' = "booted"
  /\ IF Busy \/ Queued = {} THEN UNCHANGED <<run, outbox>>
     ELSE \E r \in Queued :
            /\ IsNextQueued(r)
            /\ run' = [run EXCEPT ![r] = Row(r, "starting")]
            /\ outbox' = outbox \cup {Effect("start", r, 1)}
  /\ UNCHANGED <<turn, known, plan, exec, starter, recovery, bounds>>

(* recover, before the effect worker starts.                               *)
Recover ==
  /\ phase = "booted" /\ phase' = "up"
  /\ run' = Written(Cancellations)
  /\ IF \E s \in Run : ContinuationRun(s)
     THEN \E s \in Run :
            ContinuationRun(s) /\ EnqueueOnce(Replayable(outbox), Effect("continue", s, 1))
     ELSE outbox' = Replayable(outbox) /\ UNCHANGED known
  /\ turn' = Retired
  /\ UNCHANGED <<plan, exec, starter, recovery, bounds>>

-----------------------------------------------------------------------------
Command ==
  \/ DispatchMessage
  \/ \E r \in Run : InterruptRun(r) \/ SteerRun(r) \/ CancelQueued(r) \/ ReorderQueued(r)
  \/ \E q, r \in Run : PromoteQueued(q, r)

Execution ==
  \/ \E effect \in outbox :
       ReadRun(effect) \/ ReadCaptureTarget(effect) \/ CheckContinuation(effect)
  \/ MarkRunning \/ CheckRun \/ StartTurn \/ CommitCapture \/ DispatchContinuation

Ingestion == \E r \in Run, a \in Attempt : IngestStep(r, a)

Failure ==
  \/ CommitFails \/ ExecutionFails
  \/ \E r \in Run, a \in Attempt : StreamFails(r, a) \/ FinalWriteFails(r, a)

Recovery ==
  \/ PrepareForShutdown \/ CloseSessions \/ ReadProjection \/ Reconcile
  \/ phase = "exiting" /\ ProcessEnds
  \/ ResumeQueued \/ Recover

Process == StopServing \/ ProcessEnds \/ Recovery

Next ==
  \/ Command \/ Commit \/ HandleTerminal \/ Execution \/ ExecutionCancelled
  \/ Ingestion \/ Failure \/ Process

Spec == Init /\ [][Next]_vars

(* The holder of the lock commits, waiters get the lock in turn, effects   *)
(* are executed, providers end their turns and are heard, and a server     *)
(* that goes down comes up.                                                *)
Service ==
  HandleTerminal \/ Execution \/ ExecutionCancelled \/ Ingestion \/ Recovery
Fairness == WF_vars(Commit) /\ SF_vars(Service)

FairSpec == Spec /\ Fairness

-----------------------------------------------------------------------------
(* Properties.                                                             *)

(* The provider is given an attempt of a run at most once: when effects    *)
(* are retried, steered runs restarted and the server restarted.           *)
StartedOnce == exec.step = "checked" => turn[exec.effect.run][exec.attempt] = "none"

(* A queued run never waits behind nothing: while no run blocks it, a      *)
(* terminal event is still to be handled, or the holder of the lock is     *)
(* going to start a run, or to stop or steer one that was active.  When    *)
(* the start by a handler has failed the queue waits for the next terminal *)
(* event that is handled, or a restart, but not longer.                    *)
NoQueuedRunForgotten ==
  phase = "up" /\ Queued # {} /\ ~Busy => backlog > 0 \/ ~Unlocked \/ missed

(* Messages are served in the order the user gave them last: the run that  *)
(* leaves the queue to start is first in it at that moment.                *)
ServedInOrder ==
  [][\A r \in Queued : run'[r].status = "starting" => IsNextQueued(r)]_vars

(* A run is continued after a restart only when it is cancelled, by the    *)
(* run right after it, so at most once, and never past work the user has   *)
(* submitted since.  A cancelled row does not tell who cancelled it: the   *)
(* user cancels queued runs only, which are never asked to be continued.   *)
ContinuesTheLastRun ==
  \A r \in Run : run[r].source # 0 =>
    run[r].source = r - 1 /\ Status(run[r].source) = "cancelled"

(* The queue is served to its end once the user sends nothing more, across *)
(* restarts too, if nothing fails and no turn is restarted to steer it.    *)
Undisturbed == faults = 0 /\ steers = 0
QueueIsServed == Queued # {} ~> Queued = {} \/ ~Undisturbed

(* A completion that arrives during a shutdown is not overwritten by the   *)
(* cancellation (docs/internals/server-updates.md).                        *)
LateCompletionKept ==
  [][\A r \in Run : Captured(r) => run'[r].status # "cancelled"]_vars
=============================================================================
