# Specifications of the orchestration server

TLA+ modules, TLC runs and TLAPS proofs about the core of this repository: how a client's command
becomes durable, how the recorded intent is carried out exactly as often as it may be, and how the
result reaches a client. File names without a directory are in
`apps/server/src/orchestration-v2/`.

## 1. The system

The repository is a control surface for coding agents. A server (`apps/server`) owns the provider
processes, the workspace and the database; web and desktop clients (`apps/web`, `apps/desktop`) hold
projections of its state through `packages/client-runtime`. The rest is schemas (`contracts`), an
ACP client (`effect-acp`, mostly generated), helpers (`shared`), tunnels (`ssh`, `tailscale`) and
presentation. All logic runs in Effect fibers of one Node process per server. SQLite calls are
synchronous; between two effects a fiber can be preempted, interrupted or, with the process, lost.

### 1.1 How a command flows

    client --dispatch--> Orchestrator --one transaction--> events, projections, receipt, outbox rows
                            |  thread lock                     |                       |
                            |                                  v                       v
                     KeyedSerialExecutor               live hub (EventSink)      EffectWorker slots
                                                               |                       |
    client projection <--socket-- bounded live buffer <--------+      provider, git, titles; results
                                                                      come back as further events

1. `dispatch` takes the thread's lock, looks for a receipt of the command id, plans the command
   against the projection, and commits events, projection rows, receipt and outbox rows together.
2. After the commit it signals cancelled effects, wakes the worker and publishes the events.
3. Worker slots claim outbox rows, run them against providers, and settle the rows. The provider's
   events are ingested by transactions that do not take the thread lock.
4. A terminal event of a run starts the next queued run of its thread, under the thread lock.
5. Subscribed clients get a snapshot or a replay, then the live tail; each keeps a cursor.
6. At shutdown and at startup recovery retires what was bound to provider processes.

### 1.2 Components

For each: its state, what it does, what is hard, and what makes it correct.

**Effect outbox and worker** (`EffectOutbox.ts`, `EffectWorker.ts`). State: table
`orchestration_v2_effect_outbox` (status, attempt count, due time, lease owner and expiry), an
in-memory map of cancellation Deferreds, worker slots. Operations: enqueue, claim, succeed, retry,
fail, cancel, signal, reconcile after process loss, run once. Hard: several slots on one table under
one worker id, cancellations that arrive at any point of a claim, settlements that fail, crashes.
Correct if claims are exclusive, a lane is serial, settlements are final, cancelled executions end,
every effect settles, and recovery leaves nothing behind. *Modelled.*

**Keyed serial executor** (`KeyedSerialExecutor.ts`). State: map from key to a semaphore and a user
count. Operation: `withLock`. Hard: first and last users race, waits are interrupted. Correct if it
is a mutex per key that neither couples keys nor leaks entries. *Modelled.*

**Command dispatch and receipts** (`Orchestrator.ts` 7698-7853, `EventSink.ts`, `EventStore.ts`,
`CommandReceiptStore.ts`, `persistence/Layers/OrchestrationCommandReceipts.ts`). State: event table,
receipt table, thread locks. Operations: dispatch, replay of a receipt, commit, commit of a
rejection, system writes. Hard: commands sent again after a lost reply, during the first call or
after a crash; other writers between planning and commit. Correct if a command is stored once,
planned on current state, and answered alike to all who ask. *Modelled; what single commands plan
is not.*

**Live thread stream** (`EventSink.ts`, `orchestration/LiveStreamBudget.ts`, `ThreadStream.ts`,
`ws.ts` 1113-1291, client `rpc/client.ts` and `state/threads.ts`). State: event table, PubSub
backlog, retained buffer, batch in flight, client cursor and projection, the snapshots it retains
and caches. Hard: the seams between HTTP load, snapshot, replay and live tail, buffers that
overflow, resubscription, restarts of either side. Correct if the client holds a prefix of the
thread's events, never goes back, and gets everything in the end. *Modelled without the coalescer.*

**Command planning** (`Orchestrator.ts`, 8179 lines). Decides events and effects of each command;
keeps the queue of runs, resumed at startup and after terminal events. Hard: a failure to start the
next run is only logged; terminal events are handled by one detached subscription. Correct if no
queued run is forgotten and one run is active per thread. *Partly modelled: the queue and the
commands on it (`ThreadRuns`).*

**Projections** (`ProjectionStore.ts`). SQL tables derived from the events in the same transaction.
Correct if they are a function of the log. *Content is data; not modelled.*

**Run execution** (`RunExecutionService.ts`, `ProviderTurnStartService.ts`,
`ProviderTurnControlService.ts`, `ProviderEventIngestor.ts`, `RunFinalizationService.ts`). State:
provider turns and their bindings. Hard: steering and interruption race completion; events of an
owner that has changed. Correct if a run ends once and late events change nothing. *Partly modelled:
start, ingestion and end of a turn, not the content of its events (`ThreadRuns`).*

**Provider sessions** (`ProviderSessionManager.ts`, `mcp/McpSessionRegistry.ts`,
`mcp/McpProviderSession.ts`). State: live sessions with busy counts and idle generations; the
credential each thread's provider uses to call back. Hard: the idle timer races the next turn; a
replacement is opened while the old process closes. Correct if a busy session is never released, an
unused one always is, and a credential lives as long as its processes. *Partly modelled
(`ProviderSessions`).*

**Restart recovery and continuation** (`ProviderRuntimeRecoveryService.ts`,
`RestartContinuation.ts`, `serverRuntimeStartup.ts`). Retires effects (modelled in
`EffectOutbox`), ends interrupted runs and continues them after a restart (modelled for one thread
in `ThreadRuns`). Hard: crashes within recovery, shutdown followed by startup recovery. Correct if
each interrupted run is continued at most once. *Partly modelled.*

**Delegated completions** (`ProviderContinuationService.ts`). Results of child runs are delivered
to the parent, with retries kept in memory. Correct if each generation is delivered once. *Planned.*

**Checkpoints** (`CheckpointService.ts`, `CheckpointCaptureService.ts`,
`CheckpointRollbackService.ts`). Workspace states as git refs; a rollback has several steps in git
and in the database. *Partly modelled: the capture that ends a run (`ThreadRuns`).*

**Connection supervisor** (`client-runtime/src/connection/supervisor.ts`). One connection per
environment through backoff, wake-ups and manual retries. *Planned.*

**Shared workers** (`shared/src/KeyedCoalescingWorker.ts`, `DrainableWorker.ts`) and **database
client** (`nodeSqliteClient.ts`). *Planned; the modules assume that statements and transactions are
atomic.*

Not planned, because they are I/O, conversions, presentation, or single-statement state: provider
adapters, terminals, git and pull requests, authentication, scheduled tasks, devices and previews,
MCP tools, telemetry, workspace files, user interfaces, tunnels. `PROJECT.json` lists each with its
reason, and the hazards of the code with the properties that cover them.

## 2. Plan

Order follows importance: what was promised to a client first, then what carries it out.

| Module | State | What |
|---|---|---|
| `EffectLanes`, `EffectOutbox` | done | outbox and worker, refinement, proofs |
| `KeyedMutex`, `KeyedSerialExecutor` | done | thread lock, refinement, proofs |
| `CommandOnce`, `CommandDispatch` | done | idempotent dispatch, refinement, proofs |
| `LiveStream` | done | one client's view of a thread, with HTTP load and caches; proofs |
| `ThreadRuns` | done | runs of one thread: queue, turns, captures, shutdown, crash, start; proofs |
| `ProviderSessions` | done | one session id: processes, idle release, credential; proofs |
| `LiveStream` with the coalescer | later | the second buffer between replay and socket |
| `DelegatedCompletion`, `CheckpointRollback` | later | delivery with retries; steps that fail |
| `ConnectionSupervisor`, `KeyedCoalescingWorker`, `SqliteClient` | later | client and shared helpers |

Compositions. `CommandDispatch` uses `KeyedMutex` for the thread locks, which `KeyedSerialExecutor`
is shown to implement. `ThreadRuns` stands on three others instead of repeating them: it takes the
thread lock as `KeyedMutex` promises it, the outbox as `EffectLanes` promises it (one execution of a
lane at a time, an unsettled row is executed again), and a command's commit as `CommandDispatch`
has it (plan and commit under the lock, or nothing). Checking their product would multiply states
that do not influence each other.

## 3. Modules and code

Everything in a module that is not a property, a deliberately faulty variant (see 4.3) or a proof
is in the map of `PROJECT.json` with its lines.

### 3.1 EffectOutbox

Variables: `status, attempts, due, owner` are the row; `signal, fired, unsignalled` the map of
Deferreds, which slot's Deferred has been completed, and which committed cancellations have not been
signalled; `pc, work, outcome` a worker slot; `proc, epoch` the process.

A slot's program counter follows `runOnce`:

    idle -> claimed -> arm -> check -> execute -> clear -> settle -> forget -> idle
                                 |-> drop                    |-> repair -> forget
                                 |-> repair

One action is one SQL statement or one access to the map. `claimed` is the gap between the claiming
UPDATE and the registration of the Deferred, `forget` the gap between a settling UPDATE and the
deletion of the Deferred. The failure paths are `CheckFails`, `SettlementFails`, `RepairFails` (an
SQL statement fails; bounded by `MaxFaults`) and `LoseClaim` (the UPDATE matches no row). Recovery
is `ReconcileThread` per thread, then the two UPDATEs of `reconcileAfterProcessLoss`, each a step,
at startup and at shutdown; a crash is possible at any point.

Abstractions:

* `available_at` is due or not due. `DelayElapses` takes the slot that wrote a retry to have left
  the map: the shortest backoff is 100 ms against the continuation of one fiber. A requeue with
  delay 0 has no such assumption, and that is the finding in section 5.
* `claimNext` may take any claimable row; the code takes the oldest. Every property holds for more
  orders than the code has.
* Notifications only shorten the wait for the poll and are left out.
* `workerId` is the process, so it is the number of the process incarnation. All slots share it.
* `Undecodable` rows fail after the claiming UPDATE, as in the code, and stay running.

### 3.2 KeyedSerialExecutor

`locks` is the map, `taken` the semaphores whose permit is out, `pc` a call's place. An access to
the map is one step (a Ref), and so is taking or returning a permit. Candidates are unreferenced
semaphores; identities are used again once nothing refers to them, which makes the state finite and
is the harder case for mutual exclusion.

### 3.3 CommandDispatch

`log` and `receipt` are tables and survive `Crash`; `stage, target` are the thread locks, through
`KeyedMutex`; `basis` is what a call read when it planned; `reply, sequence` what its caller is
told. A call is one request: a client that sends its command again is another call with the same
command id. Calls with `NoCommand` start a queued run (`startNextQueuedRun`), the other writer under
the lock. `ProviderWrite` is ingestion, which does not take it.

Abstractions: the events and effects of a commit are one entry of the log; the plan's outcome is
open (commit or reject); a plan reads the projection in one step, at its end. The code
reads several times, earlier; the lock is held throughout, so only provider events can lie between.
Signals and publication belong to the other modules.

### 3.4 LiveStream

`log` and `unpublished` are the writers' side (commit and publication are two steps); `load` the
HTTP snapshot on its way; `hub` the subscription's PubSub backlog, `queue` the retained live events,
`wire` the batch that waits for its ACK, `inbox` what the client has buffered and not applied;
`cursor`, `view` the client's projection, `view` counting how often an event is in it, so that an
event applied twice or skipped shows; `saved` the cursor retained for the next view of the thread,
`disk` the cached copy. The client applies an item in two steps, the cursor first (`Advance`), the
projection next (`Apply`); `applying` is the gap.

    none -> head -> open -> tail             failed -> none
            snapshot  subscribed  replay to high water, then live
    none -> loading -> none                  the HTTP load of a client without a projection
                  |-> unloaded -> head       it failed: the socket sends a snapshot

`LoseConnection`, `RestartServer`, `ReopenView` and `RestartClient` happen anywhere.

Abstractions: an event is its sequence. `Subscribe` merges the client's read of its cursor with the
server's read of its high water; events between the two are replayed or in the snapshot either way.
Whether a gap is too long in bytes is open, in events it is `MaxReplay`. A cursor above the high
water cannot occur, because sequences are never reused. A replay is delivered item by item; live
events in batches of any size. Installing a loaded snapshot is one step: the code does it under
`applyLock` (`threads.ts:818-836`), and a view closed in the middle of it is left out. Two parameters
name assumptions: `Ordered` says that no writer is overtaken between its commit and its publication;
`Prompt` says that values buffered from an earlier subscription are applied before an HTTP request
is answered.

### 3.5 ThreadRuns

The runs of one thread, a run being its ordinal. `run` holds the run rows (status, current attempt,
place in the queue, the run it continues); `turn` the provider turn of each attempt together with
the fiber that ingests it; `outbox` the unsettled effects, `known` the effects with a stable id that
have a row already; `plan` what the holder of the thread lock is going to commit; `exec` the effect
that is executed; `backlog` the terminal events the starter of queued runs has not handled, `missed`
that it failed to start a run on the last one it took; `phase` the server process, `recovery` what
the shutdown's reconciliation has read and not yet written.

    executor   idle -> opening -> marked -> checked -> idle        start and restart of a turn
               idle -> capturing -> idle                           end of a waiting run
               idle -> dispatching -> committing -> idle           continuation after a restart
    turn       none -> asked -> running -> ended -> completing -> over
               asked, running, ended -> broken -> failing -> over  start or stream failed
               running -> lost -> over                             its session closed, its fiber gone
    process    up -> stopping -> closing -> reading -> reconciling -> exiting -> down
               down -> booted -> up;  any -> down by a crash

A command is two steps, plan and commit, under the lock. A turn's start is `ReadRun`, `MarkRunning`,
`CheckRun`, `StartTurn`, each one transaction or provider call, without the lock; so is each step of
ingestion and finalization. `booted` lies between `resumeQueuedRuns`, which the orchestrator's layer
does, and `recover`, which precedes the worker. A step that reads and writes in two statements in
the code is two steps here.

Abstractions: the module takes lock, receipts and claims from the modules above, so any unsettled
effect of the thread is executed next, one at a time. The Stop of a running turn and a steer that
the provider takes into its turn leave the run rows as they are. Completed, failed and interrupted
runs are ended runs. The starter does not see the terminal events of a recovery
(`Orchestrator.ts:7893`). A capture of a run that does not wait fails and is due again, which the
model has as not executing it yet, until its last attempt settles it as failed. Preparing runs,
rollbacks, archives and delegated completions are left out; the setting to continue after a restart
is on.

### 3.6 ProviderSessions

One session id and the processes that live under it one after the other. `entry` is the manager's
map entry (process, busy count, idle generation, timer, pins); `life` each process, `turn` its turn,
`marked` the process whose entry counted that turn; `timers` the idle fibers; `opener` the open call
that holds the session's lock; `credOf`, `slot`, `valid`, `issued`, `leaked` the credentials:
recorded with a process, set for the thread, resolved by the registry, issued so far, and reserved
for ever. `deleted` says that the thread is archived or deleted; the flags `stray`, `openFailed` and
`interrupted` only remember what has happened, for the properties.

    process   none -> opening -> live -> idled, closing -> revoking -> gone
                            |-> failed, orphan               the open failed, was interrupted
    opener    idle -> resolving, issuing -> adopting -> starting -> attaching -> idle
    timer     none -> waiting -> sleeping -> probing -> none;   probing -> sleeping (a pin)

A step is what a fiber does between two suspensions. A release takes the entry out first and closes
the process later, so the end of a turn, a timer or the event pump may find another process's entry
under its id. Calls that open a session, start a turn or install a timer may be interrupted.

A credential that cannot be used again is revoked before `issuing`, where a new one is issued;
`adopting` puts that into the slot and reserves it.

Abstractions: one thread per session, as all adapters of the server have it; a detach releases such
a session in the step that removes the thread, so the re-attachment that begins a turn
(`ProviderSessionManager.ts:1352`) finds its thread attached; no time, so that a
timer fires at any moment; the shutdown of the server is a close; compactions, whose turns are not
counted, and the persisted session events are left out.

## 4. Model checking

### 4.1 Runs

| Run | Distinct states | Bounds | Shows |
|---|---|---|---|
| `outbox_safety` | 1,985,792 | 2 slots, 3 effects in 2 lanes, 2 attempts, 2 processes, 2 faults | exclusive claims, serial lanes, final settlements, clean admission, bounded attempts, refinement of `EffectLanes`, and while no statement has failed a committed cancellation reaches its execution |
| `outbox_liveness` | 408,350 | 2 slots, 3 effects in 2 threads, one of them hanging, one undecodable, 2 processes, 1 fault | every effect outside the hanging start's lane settles; a cancelled execution ends even if the provider hangs |
| `outbox_stale_delete` | stops | one fault | violation, section 5 |
| `executor` | 3,864 | 3 fibers, 2 keys, 4 semaphores | mutual exclusion, no coupling, exact counts, progress, refinement of `KeyedMutex` |
| `dispatch` | 700,226 | 5 calls, 2 ids, 2 threads, 1 provider write, 1 fault, crashes | receipts match the log, plans are current, equal answers, refinement of `CommandOnce` |
| `dispatch_clash` | stops | 2 calls, one id, 2 threads | violation, section 5 |
| `stream` | 175,180 | 4 events, 2 threads, buffer of 2, replay limit 2, 1 drop | the client and its caches hold a prefix, never go back; a live tail at rest is complete; everything arrives |
| `stream_overtaken` | stops | 3 events, unordered publication | violation, section 5 |
| `thread_runs` | 618,384 | 3 attempts of up to 3 runs, 2 faults or ends of the process, 4 of these together | an attempt is given once, no queued run is forgotten, order, one continuation, the queue is served |
| `thread_runs_late_completion` | stops | 2 attempts, 1 end of the process | violation, section 5 |
| `provider_sessions` | 1,397,823 | 2 processes, 2 credentials, 2 timers, 2 turns, 2 touches, 1 pin, 1 fault, 4 of turns, touches and faults together | idle sessions are timed and released, busy ones kept, credentials held and revoked |
| `sessions_stale_terminal` | stops | 2 processes, 2 turns | violation, section 5 |

`CHECK_DEADLOCK FALSE` stands in all cfgs but `executor`: with bounded processes, events, calls,
runs and drops, the models come to rest when everything is done. The executor never does.

### 4.2 Why the bounds are enough

* Two slots: every property of the outbox is about one slot, or two slots on one effect or lane.
  Three effects: two that share a lane and one beside it, with a process-bound, a replay-safe and a
  title request. Two attempts: a retry and an exhausted effect. Two processes: one shutdown or
  crash, and the recovery after it, cut anywhere. Two faults: a failing settlement whose repair
  fails too, the case `RunningIsHeld` excepts.
* Three fibers on two keys: a holder, a waiter, and one that comes or goes; one semaphore more than
  fibers, since a candidate is made even when it is not used.
* Five calls: two duplicates, the same id for another thread, another command, and a queued start.
  Crashes are not bounded: each loses calls, and calls are not repeated.
* Four events in two threads with a buffer of two: HTTP load, replay, overflow and a second
  subscription all happen; one drop puts a lost connection, a reopened view or a restart of either
  side anywhere between. A snapshot instead of a replay is always allowed.
* Three attempts: a run that is active, one that waits for it and one that overtakes the second, or
  a run, its second attempt and the run that continues it. Two ends of the process: a shutdown and
  its recovery cut by a crash. Four attempts and faults together leave every combination of two runs
  with two faults and of three with one.
* Two processes of one session: the old one that closes and its replacement. Two timers: one that
  was released and one that was installed. Two turns: one per process, the case where one's end is
  counted for the other. One pin: a window that is extended and one that is not.

The theorems of section 6 need none of these bounds.

### 4.3 Faulty variants

Definitions such as `ClaimableAfterLease`, `AcquireFresh` or `CommitWithoutReservation` are not the
code: each is a definition with a mistake a change to the code could make, named for it. Putting
it in place of the right one makes TLC find the property violated, so each property can fail.

### 4.4 Fairness

* `EffectOutbox`: each slot's steps are weakly fair, because the poll (`livenessPollIntervalMs`)
  wakes idle slots and the scheduler runs ready fibers; timers fire; signals after a commit run; a
  process that starts goes through recovery. Crashes and shutdowns are not fair, and they are
  bounded. That an executor returns (`ProvidersReturn`) is an assumption about providers: no timeout
  in the worker enforces it. It is made for executions outside `Hanging`; `CancelledExecutionEnds` is
  about those inside too.
* `KeyedSerialExecutor`: work under a lock ends; taking a permit is strongly fair, because Effect's
  semaphore serves waiters in order. Interruptions are not fair.
* `LiveStream`: each step of the two ends is weakly fair; writers publish what they have committed;
  a client that lost its subscription subscribes again. New events and drops are not fair.
* `ThreadRuns`: the holder of the lock commits (weak); the other steps that serve the thread
  (terminal events, executions, ingestion, recovery) are strongly fair as one action, since each may
  be disabled for a while by the lock, which is handed over in turn. Commands, failures, shutdowns
  and crashes are not fair. `QueueIsServed` excludes behaviours with failures and with steers that
  restart a turn, for the reasons given in 5.1.
* `ProviderSessions`: timers fire, probes are answered, and an attached session gets its timer;
  nothing is assumed of turns, opens, releases and interruptions.
* `CommandDispatch` claims no liveness.

## 5. Findings

1. **A Stop can miss a reclaimed effect** (`outbox_stale_delete`). `EffectOutbox.ts:579-583` deletes
   the Deferred of an effect after the UPDATE that gives the claim back, without asking whose it is.
   If a pre-execution read fails, `requeueClaim` makes the row claimable at once; another slot can
   claim it and register its Deferred before the delete, which then removes the new one. Needs an
   SQL failure and a switch of fibers between two adjacent operations. Without failing statements
   the property holds (`CancellationsArrive` in `outbox_safety`).
2. **Success reported for another thread's command** (`dispatch_clash`). Two concurrent calls of one
   command id on two threads take different locks; the second finds the first's receipt inside
   `commitCommand` and answers with it, without the check `canReplayCommandReceipt` makes on the
   lookup path (`Orchestrator.ts:7832`). Nothing is stored twice: `ReceiptsMatchLog` holds in
   `dispatch`, which contains the same two calls.
3. **An overtaken event is skipped** (`stream_overtaken`). Commit and publication are separate steps
   (`EventSink.ts:323-329`); a writer overtaken in between publishes a smaller sequence after a
   greater one, which the client drops (`threads.ts:420`). Needs a preemption at that point. With
   publication in commit order the property holds (`stream`).
4. **A late completion is overwritten at shutdown** (`thread_runs_late_completion`). The shutdown's
   `reconcile` reads the runs and commits their cancellation later, without the thread's lock
   (`ProviderRuntimeRecoveryService.ts:541-555`); the fibers that ingest provider events are
   detached and not waited for. One in the middle of its last write commits a finished run in
   between. `docs/internals/server-updates.md:56-58` says this cannot happen.
5. **The end of an old turn is counted for the new process** (`sessions_stale_terminal`). `markIdle`
   finds the entry by session id (`ProviderSessionManager.ts:1363`, `1425`). If the session was
   released and opened again meanwhile, the replacement's busy count drops to 0 while its turn runs,
   and the idle timer may release it. The test at `ProviderSessionManager.test.ts:2016-2017` says
   active sessions are kept. The new turn must be silent for one idle period. Unless this has
   happened busy sessions are kept (`CountedSessionKept` in `provider_sessions`).

### 5.1 Observations

Behaviour of the code met while modelling that the modules contain, and that the properties have to
except or to bound. None contradicts a line of the repository as directly as the findings do.

* Recovery cancels every unfinished run, one included that `resumeQueuedRuns` has just started; the
  comment at `Orchestrator.ts:7903-7906` gives the intention of the resumption.
* A Stop between the last `shouldStartProviderTurn` and the provider's `startTurn` leaves the
  provider at work on an interrupted run.
* The finalizer checks the run and then writes it without the lock; a Stop or a steer committed in
  between is overwritten. A steer that lets a second attempt run under the finalizer finds the id of
  the run's capture effect taken: the second capture is never enqueued, and the run waits for ever.
  `QueueIsServed` excludes steers for this reason.
* A baseline that fails after the run is marked running leaves a running run with no turn, and a
  capture that fails in all its attempts leaves a waiting one; both hold the queue until a restart.
  `QueueIsServed` excludes faults for this reason.
* An interrupted `open` neither closes its scope nor revokes its credential
  (`ProviderSessionManager.ts:1635`), interrupted in its resolution it keeps the reservation; an
  interrupted `startTurn` keeps the busy count up (`1363`); an interrupted installation leaves an
  idle session without a timer. `IdleIsTimed`, `CredentialsRevoked` and `IdleSessionReleased` except
  runs with an interruption.
* A timer forked after its entry became busy or went away is in no entry; it goes on, and releases
  an idle session early when the generation has counted up to its own.
* A credential kept by a release because an open call had reserved it outlives that call's failure
  (`openFailed`).
* Two processes under one session id overlap while the old one closes, for up to 30 s.
* A start of the queue that fails is only logged (`Orchestrator.ts:7876`): the run waits for the next
  terminal event of its thread or a restart. `NoQueuedRunForgotten` excepts the time until then
  (`missed`), not what follows.
* A row that does not decode is claimed first and stays running (`EffectOutbox.ts:506`), also over
  restarts: `RunningIsHeld` and `EffectsSettle` except it and its lane; `outbox_liveness` shows that
  the other lanes go on.
* Without `Prompt`, a value buffered before a lost connection and applied after an HTTP load takes
  the client back, and events between are lost until the next snapshot.

## 6. Proofs

TLAPS checks the theorems for all values of the constants, from the named assumptions
(`OutboxAssumption`, `ExecutorAssumption`, `DispatchAssumption`, `StreamAssumption`,
`ThreadAssumption`, `SessionAssumption`), which give the constants their types; of these only
finiteness of `Fiber` limits the theorems. TLC evaluates the assumptions in every run. Every safety
property and every refinement that a passing run checks is a theorem; three theorems about
`LiveStream` have hypotheses, stated with them.

**EffectOutbox_proofs**: `TypeCorrect`, `OneHolder` (`SoleHolder`), `LanesAreSerial`,
`RunningRowsAreHeld`, `ClaimsAreLostToCancel`, `SettledIsFinal`, `AdmissionIsClean`,
`AttemptsAreBounded`, `CancellationsReach`, `Refinement` (`ImplementsLanes`). None is inductive
alone. `IInv` says that what a slot holds is running under this process or cancelled, held
once (`HoldInv`); that a lane has one running row, of this process (`LaneInv`); that signals,
dropped claims and interrupted executions stand for cancelled rows (`SignalInv`); that slots are
idle unless the server is up (`SlotsInv`); that between the two UPDATEs of recovery nothing
process-bound is unsettled (`RetiredInv`); and that a stranded running row has cost two faults
(`StrandInv`). `LaneSerial` follows because two live executions hold two running rows of one lane.
One lemma per part, one step per action in each. `SettledForever` and `CleanAdmission` follow step
by step: settling needs `Owns` or `Unsettled`, which a settled row never satisfies, provided that
what a slot repairs or settles is its own row, which is `HoldInv`.

`AttemptsBounded` needs to know where a claim that is given back comes from: `BudgetInv` says that a
row waiting in a server that is up, about to be repaired, or met by recovery has an attempt to spare.
`CancellationsArrive` needs that, while no statement has failed, no two slots work on one effect and
the Deferred under an effect's id is that of the slot executing it (`ArrivalInv`); the finding
`outbox_stale_delete` is what happens once a statement has failed. The refinement maps absent,
pending, running and settled rows to new, open, working and closed effects; recovery and
cancellation change many rows and are one step of the promise each (`ManyRows`); signals, timers,
claims dropped and process steps stutter. That a claim is allowed in the promise is the lane guard
of `claimNext`, that a slot's settlement is one is `SlotsInv`.

**KeyedSerialExecutor_proofs**: `TypeCorrect`, `Serialized`, `Uncoupled`, `EntriesExact`,
`Refinement`. Mutual exclusion rests on all users of a key sharing one semaphore (`ShareInv`), on
keys not sharing one (`ApartInv`), and on a permit being with one fiber (`PermitInv`); sharing rests
on the count being exact (`EntryInv`), since an entry deleted early gives the next user another
semaphore. The refinement maps `leaving` to `out`; the map's bookkeeping stutters.

**CommandDispatch_proofs**: `TypeCorrect`, `StoredOnce` (`ReceiptsMatchLog`), `PlannedOnCurrent`,
`Idempotent` (`SameAnswer`), `Refinement` (`CommandOnce`). The key part is `PastLookup`: a call
between its lookup and its commit has the lock of its thread, so a receipt of its command can only
have come from another thread, and none of its duplicates has been told anything definite. An
accepted receipt of another thread lets a plan that fails answer "rejected" while the
receipt says "accepted": `AnswerInv` has that exception (`Foreign`), and the refinement is stated
for command ids of one thread.

**ThreadRuns_proofs**: `TypeCorrect`, `GivenOnce` (`StartedOnce`), `NothingForgotten`
(`NoQueuedRunForgotten`), `InOrder` (`ServedInOrder`), `ContinuedByTheNext` (`ContinuesTheLastRun`),
for any number of attempts, faults and events. What an action does to the runs, the turns and the
effects is first summarised in one lemma per group of actions (`CommandStep`, `CommitStep`,
`ClaimStep`, ...), so that the lemmas about the parts of `IInv` need not expand the actions again:

* `AttemptsInv`: no row, turn, effect or plan has an attempt beyond the steers made so far, so the
  attempt of the next steer is new.
* `FreshInv`: an attempt that waits to be given to the provider, in a row, in a plan or in the
  executor past its last write, has no turn, and only one of the three has it. `StartedOnce` is its
  second conjunct.
* `QueuedInv`: a run that is queued, or is going to be, has never had a turn and is not in the
  executor. Recovery and commands that cancel it therefore leave nothing behind that starts it.
* `CaptureInv`: a run waits, and is captured, only with an attempt that the provider has been given.
* `WritesInv`: what plans and recoveries write, and that there is no plan and no execution in the
  phases without them.
* `WokenInv`: while the server is up and somebody waits, or is going to, a run blocks, a terminal
  event is to be handled or the last one handled has failed; the starter, which has taken the event,
  is the exception. `NoQueuedRunForgotten` follows from it.
* `OrderInv`: the run the starter has planned to start stays first in the queue until it commits,
  and nobody else starts a queued run.
* `CancelledInv`, `NumberInv`, `LinkInv`: while the server is up, a cancelled run is dead: none of
  its turns runs, and neither a plan, an execution nor a recovery writes its row. Runs are numbered
  without gaps, so the run that continues the last one is the next number, and a source is dead when
  it gets its continuation. `ContinuesTheLastRun` alone is not inductive: it says nothing of a
  capture or a fiber that read the row before recovery cancelled it.

**ProviderSessions_proofs**: `TypeCorrect`, `IdleTimersKept` (`IdleIsTimed`), `CredentialsHeld`,
`NoCredentialOutlives` (`CredentialsRevoked`), `CountedKept` (`CountedSessionKept`), for any number of
processes, credentials, timers, turns and faults.

* `LivesInv`: the entry's process is live, an open call past its lookup has no entry beside it and
  its process is the one being opened. Releases therefore never meet an open call half way.
* `ProbeInv`: a timer that belongs to the entry and asks a provider asks the entry's process.
* `OneCredentialInv`: at most one credential of the thread resolves, and it is the entry's or the
  open call's; a new one is issued only when none resolves. `CredentialHeld` and `CredentialsRevoked`
  need it: without it an old process's release could revoke what the new one uses.
* `IssuedInv`: the credential an open call is about to adopt resolves, unless the thread has been
  deleted, and no process has it.
* `CountInv`: the busy count is at least the number of turns counted for the entry whose end has not
  been taken in, unless the end of another process's turn was (`stray`, the finding of
  `sessions_stale_terminal`). `CountedSessionKept` follows, since a release needs a count of zero.

**LiveStream_proofs**: `TypeCorrect`, `NothingIsSkipped` (`ClientIsPrefix`), `RestIsComplete`
(`QuietIsComplete`), `NeverBack` (`NeverBackward`), `NothingIsDoubled`, for any number of threads,
events, drops and any size of the buffer. Two hypotheses, stated where they are needed:

| Theorem | Needs | Without it |
|---|---|---|
| `TypeCorrect`, `NothingIsDoubled` | nothing | |
| `NeverBack` | `Prompt` | a snapshot left in the client's buffer may be applied over a newer one from HTTP |
| `NothingIsSkipped`, `RestIsComplete` | `Prompt`, `Ordered` | the run `stream_overtaken` |

So an overtaken publication costs the client an event but never applies one twice and never takes
the view back. The invariants are about `Sent`, what has been sent and not applied, in the buffer or
on the wire:

* `Places`: cursors, marks and buffered sequences are events of the thread (the types, and more).
* `ChainInv`: each item of `Sent` follows what precedes it: all earlier events of the thread are in
  the projection or reached by an earlier item, and a snapshot is at least as new as all of them. It
  makes the next event the only one the projection lacks (`PrefixNext`).
* `LoadInv`: a snapshot on its way over HTTP is at least as new as all that is still to be applied.
* `ReplayInv`: a replay has sent everything up to its position. It starts at the client's cursor,
  which is right because the projection and the first unapplied item cover it (`FirstPart`).
* `OrderInv`, `TailInv`: unpublished events, hub backlog and queue are in the order of the commits,
  and what lies behind the end of the replay is in one of them or sent. So a batch of live events
  leaves no gap (`LiveFollows`), and with all of them empty nothing is missing.
* `SnapshotInv` and `OnceInv` are the parts of these that need no order of publications.

**Only model-checked**: liveness (`EffectsSettle`, `CancelledExecutionEnds`, `WaitersLeave`,
`EventsArrive`, `QueueIsServed`, `IdleSessionReleased`), which needs ENABLED and is beyond this
prover. The safety half of several is proved: `RunningIsHeld`, `QuietIsComplete`,
`NoQueuedRunForgotten` and `IdleIsTimed` say that nothing is left behind without somebody who goes
on with it.

## 7. Not modelled

* What commands other than those on the queue of runs plan, and the content of projections.
* The database client: a plain statement takes and returns the connection's semaphore before it
  runs (`shared/src/nodeSqliteClient.ts:267`); the modules take statements and transactions as
  atomic.
* Transactions that fail halfway: they roll back, which is `StatementFails`.
* Provider behaviour beyond "returns, fails, or never answers".
* `runRecoveryOnce` and `excludeRestartContinuations`: only tests call them.
* The coalescer of tool updates, history paging, deletion of a thread under its viewer, and the
  synchronized marker with the status the client shows.
* In `ThreadRuns`: forks, archives, delegated tasks, requests, plans, rollbacks, steers taken into a
  running turn, background turns and subagents; several threads, which share only the starter's one
  subscription. In `ProviderSessions`: sessions of several threads, compaction, the transition
  policy, the expiry of credentials.
* Several clients: `LiveStream` has one, since subscriptions share only the event table and the hub.
