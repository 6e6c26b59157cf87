--------------------------- MODULE ThreadRuns_proofs ---------------------------
(***************************************************************************)
(* Proofs about ThreadRuns for every number of attempts, faults and        *)
(* events.  IInv is the inductive invariant.                               *)
(***************************************************************************)
EXTENDS ThreadRuns, FiniteSetTheorems, TLAPS

(* A row of these states has not been given to the provider; of a run in   *)
(* the others nothing has been, and nothing is going to be.                *)
Fresh == {"none", "queued", "starting"}
Past == {"none", "queued", "cancelled"}
Giving == exec.step \in {"marked", "checked"}
Targets(r, a) == exec.effect.run = r /\ exec.attempt = a
Untouched(r) ==
  (\A a \in Attempt : turn[r][a] = "none") /\ ~(Giving /\ exec.effect.run = r)

(* Attempts are numbered by the steers made so far.                        *)
RowAttempts ==
  \A r \in Run : run[r].attempt <= steers + 1 /\ (Status(r) = "none" => run[r].attempt = 1)
TurnAttempts == \A r \in Run : \A a \in Attempt : turn[r][a] # "none" => a <= steers + 1
WorkAttempts ==
  /\ exec.attempt <= steers + 1 /\ exec.effect.attempt <= steers + 1
  /\ \A effect \in outbox : effect.attempt <= steers + 1
PlanAttempts ==
  /\ \A r \in DOMAIN plan.writes : plan.writes[r].attempt <= steers + 1
  /\ \A effect \in plan.effects : effect.attempt <= steers + 1
RecoveryAttempts == \A r \in DOMAIN recovery : recovery[r].attempt <= steers + 1
AttemptsInv ==
  RowAttempts /\ TurnAttempts /\ WorkAttempts /\ PlanAttempts /\ RecoveryAttempts

(* What plans and recoveries write, and when there may be any.             *)
WritesInv ==
  /\ \A r \in DOMAIN plan.writes :
       plan.writes[r].status \in {"queued", "starting", "ended", "cancelled"}
  /\ \A r \in DOMAIN recovery : recovery[r].status = "cancelled"
  /\ phase # "up" => exec.step = "idle"
  /\ phase \in {"down", "booted"} => plan = NoPlan
  /\ plan.by = "none" => plan = NoPlan

(* A run waits, and is captured, after its attempt has had its turn.       *)
CaptureInv ==
  /\ exec.step = "capturing" => turn[exec.effect.run][exec.attempt] # "none"
  /\ \A r \in Run : Status(r) = "waiting" => turn[r][run[r].attempt] # "none"

(* A run that waits in the queue, or is going to, has never had a turn.    *)
QueuedInv ==
  /\ \A r \in Run : Status(r) \in {"none", "queued"} => Untouched(r)
  /\ \A r \in DOMAIN plan.writes : plan.writes[r].status = "queued" =>
       Status(r) \in Past /\ Untouched(r)

(* An attempt that waits to be given to the provider, in a row, in the     *)
(* executor or in a plan, has no turn, and only one of the three has it.   *)
FreshInv ==
  /\ \A r \in Run : Status(r) \in Fresh => turn[r][run[r].attempt] = "none"
  /\ Giving => turn[exec.effect.run][exec.attempt] = "none"
  /\ \A r \in Run : Giving /\ Targets(r, run[r].attempt) => Status(r) \notin Fresh
  /\ \A r \in DOMAIN plan.writes : plan.writes[r].status \in Fresh =>
       /\ turn[r][plan.writes[r].attempt] = "none"
       /\ Giving => ~Targets(r, plan.writes[r].attempt)
       /\ Status(r) \in Past \/ plan.writes[r].attempt # run[r].attempt

(* Who holds the lock to queue a run leaves a reason to start it.          *)
Woken == Busy \/ backlog > 0 \/ missed
WokenInv ==
  /\ phase = "up" /\ plan.by # "starter" /\ Queued # {} => Woken
  /\ \A r \in DOMAIN plan.writes :
       plan.writes[r].status = "queued" /\ phase = "up" => Woken

(* The starter's run stays first, and nobody else starts a queued run.     *)
OrderInv ==
  /\ plan.by = "starter" =>
       \E r \in Run : DOMAIN plan.writes = {r} /\ plan.writes[r].status = "starting"
                      /\ (r \in Queued => IsNextQueued(r))
  /\ plan.by # "starter" =>
       \A r \in DOMAIN plan.writes : plan.writes[r].status = "starting" => Status(r) # "queued"

(* Nobody is going to write the row of a run that recovery cancelled.      *)
Silent == {"none", "over", "lost"}
Writing(s) == exec.step \in {"capturing", "marked", "checked"} /\ exec.effect.run = s
Dead(s) ==
  /\ Status(s) = "cancelled" /\ s \notin DOMAIN plan.writes
  /\ \A a \in Attempt : turn[s][a] \in Silent
  /\ ~Writing(s)
CancelledInv ==
  /\ phase = "up" => \A s \in Run : Status(s) = "cancelled" => Dead(s)
  /\ phase = "up" => \A r \in DOMAIN plan.writes :
       plan.writes[r].status = "cancelled" => Status(r) = "queued"
  /\ phase \in {"down", "booted"} => \A r \in Run : \A a \in Attempt : turn[r][a] \in Silent

(* Runs are numbered without gaps.                                         *)
NumberInv ==
  /\ \A q, r \in Run : q < r /\ (Status(r) # "none" \/ r \in DOMAIN plan.writes) =>
       Status(q) # "none"
  /\ \A r \in DOMAIN recovery : Status(r) # "none"

(* A run continues the one before it, which is never written again.        *)
Linked(source, r) == source # 0 => source = r - 1 /\ Dead(source)
LinkInv ==
  /\ \A r \in Run : Linked(run[r].source, r)
  /\ \A r \in DOMAIN plan.writes : Linked(plan.writes[r].source, r)
  /\ \A r \in DOMAIN recovery : Linked(recovery[r].source, r)

(* The parts of TypeOK.                                                    *)
ExecRow == [step : Steps, effect : EffectRow, attempt : Attempt, cancelled : BOOLEAN]
RowsOK == run \in [Run -> RunRow] /\ turn \in [Run -> [Attempt -> Turn]]
WorkOK ==
  /\ outbox \subseteq EffectRow
  /\ known \subseteq [type : {"capture", "continue"}, run : Run]
  /\ exec \in ExecRow
PlanOK ==
  /\ plan.by \in {"none", "command", "continue", "starter"}
  /\ DOMAIN plan.writes \subseteq Run
  /\ \A r \in DOMAIN plan.writes : plan.writes[r] \in RunRow
  /\ plan.effects \subseteq EffectRow
  /\ plan.cancels \in BOOLEAN
ServerOK ==
  /\ backlog \in Nat
  /\ missed \in BOOLEAN
  /\ phase \in {"up", "stopping", "closing", "reading", "reconciling", "exiting", "down",
                "booted"}
  /\ DOMAIN recovery \subseteq Run
  /\ \A r \in DOMAIN recovery : recovery[r] \in RunRow
BoundsOK == faults \in Nat /\ restarts \in Nat /\ steers \in 0..MaxAttempts - 1

Types == RowsOK /\ WorkOK /\ PlanOK /\ ServerOK /\ BoundsOK

IInv ==
  /\ Types /\ AttemptsInv /\ WritesInv /\ CaptureInv /\ QueuedInv /\ FreshInv
  /\ WokenInv /\ OrderInv /\ CancelledInv /\ NumberInv /\ LinkInv

-----------------------------------------------------------------------------
(* Types of what actions write.                                            *)
RowStatus == {"none", "queued"} \cup Blocking \cup Terminal
Place == 0..MaxAttempts

LEMMA Ranges ==
  /\ Run = Attempt /\ Run \subseteq Nat /\ Run \subseteq Place
  /\ 1 \in Run /\ 0 \in Place
BY ThreadAssumption DEF Run, Attempt, Place

LEMMA RowFields ==
  ASSUME NEW row \in RunRow
  PROVE  /\ row.status \in RowStatus /\ row.attempt \in Attempt /\ row.place \in Place
         /\ row.source \in Place
BY DEF RunRow, RowStatus, Place

(* The fields that single writes change.                                   *)
LEMMA RowUpdates ==
  ASSUME NEW row \in RunRow, NEW status \in RowStatus, NEW a \in Attempt, NEW p \in Place
  PROVE  /\ [row EXCEPT !.status = status, !.place = p] \in RunRow
         /\ [row EXCEPT !.status = status] \in RunRow
         /\ [row EXCEPT !.place = p] \in RunRow
         /\ [row EXCEPT !.attempt = a] \in RunRow
         /\ [row EXCEPT !.status = status, !.attempt = a] \in RunRow
BY DEF RunRow, RowStatus, Place

LEMMA NewRow ==
  ASSUME NEW status \in RowStatus, NEW a \in Attempt, NEW p \in Place, NEW s \in Place
  PROVE  [status |-> status, attempt |-> a, place |-> p, source |-> s] \in RunRow
BY DEF RunRow, RowStatus, Place

LEMMA RowTypes ==
  ASSUME run \in [Run -> RunRow], NEW r \in Run, NEW a \in Attempt, NEW status \in RowStatus
  PROVE  Row(r, status) \in RunRow /\ Final(r, a, status) \in RunRow
<1>1. Row(r, status) \in RunRow
  BY RowUpdates, Ranges DEF Row
<1> QED
  BY <1>1, RowUpdates, Ranges DEF Final

LEMMA EffectTypes ==
  /\ \A type \in EffectType, r \in Run, a \in Attempt : Effect(type, r, a) \in EffectRow
  /\ \A effect \in EffectRow :
       effect.type \in EffectType /\ effect.run \in Run /\ effect.attempt \in Attempt
BY DEF Effect, EffectRow

LEMMA ExecTypes ==
  /\ Idle \in ExecRow
  /\ \A step \in Steps, effect \in EffectRow, a \in Attempt, c \in BOOLEAN :
       [step |-> step, effect |-> effect, attempt |-> a, cancelled |-> c] \in ExecRow
  /\ \A e \in ExecRow : e.effect \in EffectRow /\ e.attempt \in Attempt /\ e.step \in Steps
  /\ \A e \in ExecRow, step \in Steps : [e EXCEPT !.step = step] \in ExecRow
  /\ \A e \in ExecRow, c \in BOOLEAN : [e EXCEPT !.cancelled = c] \in ExecRow
<1>1. [type |-> "start", run |-> 1, attempt |-> 1] \in EffectRow
  BY Ranges DEF EffectRow, EffectType
<1>2. Idle \in ExecRow
  BY <1>1, Ranges DEF Idle, ExecRow, Steps
<1> QED
  BY <1>2 DEF ExecRow

LEMMA WorkType ==
  ASSUME NEW step \in Steps, NEW effect \in EffectRow, NEW a \in Attempt, Work(step, effect, a)
  PROVE  exec' \in ExecRow
BY DEF Work, ExecRow

(* Rows laid over rows.                                                    *)
LEMMA WrittenType ==
  ASSUME run \in [Run -> RunRow], NEW writes, \A r \in DOMAIN writes : writes[r] \in RunRow
  PROVE  Written(writes) \in [Run -> RunRow]
BY DEF Written

LEMMA TurnUpdate ==
  ASSUME RowsOK, NEW r \in Run, NEW a \in Attempt, NEW stage \in Turn
  PROVE  [turn EXCEPT ![r][a] = stage] \in [Run -> [Attempt -> Turn]]
BY DEF RowsOK

LEMMA OneRow == \A r, row : DOMAIN One(r, row) = {r} /\ One(r, row)[r] = row
BY DEF One

LEMMA PlanType ==
  ASSUME NEW by \in {"command", "continue", "starter"}, NEW writes,
         NEW effects \in SUBSET EffectRow, NEW cancels \in BOOLEAN,
         DOMAIN writes \subseteq Run, \A r \in DOMAIN writes : writes[r] \in RunRow,
         Plan(by, writes, effects, cancels)
  PROVE  PlanOK'
BY DEF Plan, PlanOK

LEMMA PlanOneType ==
  ASSUME NEW by \in {"command", "continue", "starter"}, NEW r \in Run, NEW row \in RunRow,
         NEW effects \in SUBSET EffectRow, NEW cancels \in BOOLEAN,
         Plan(by, One(r, row), effects, cancels)
  PROVE  PlanOK'
<1>1. DOMAIN One(r, row) = {r} /\ One(r, row)[r] = row
  BY OneRow
<1>2. DOMAIN One(r, row) \subseteq Run /\ \A q \in DOMAIN One(r, row) : One(r, row)[q] \in RunRow
  BY <1>1
<1> QED
  BY <1>2, PlanType

LEMMA StartType == \A r \in Run : {Effect("start", r, 1)} \subseteq EffectRow
BY EffectTypes, Ranges DEF EffectType

LEMMA PlanRunType ==
  ASSUME NEW by \in {"command", "continue"}, NEW r \in Run, NEW source \in Place,
         PlanRun(by, r, source)
  PROVE  PlanOK'
<1>1. [status |-> "queued", attempt |-> 1, place |-> r, source |-> source] \in RunRow
  BY NewRow, Ranges DEF RowStatus
<1>2. [status |-> "starting", attempt |-> 1, place |-> 0, source |-> source] \in RunRow
  BY NewRow, Ranges DEF RowStatus, Blocking
<1>3. CASE Busy
  BY <1>1, <1>3, PlanOneType DEF PlanRun
<1>4. CASE ~Busy
  BY <1>2, <1>4, PlanOneType, StartType DEF PlanRun
<1> QED
  BY <1>3, <1>4

LEMMA NoPlanType == plan' = NoPlan => PlanOK'
BY DEF NoPlan, NoWrites, PlanOK

LEMMA UnsettledType == WorkOK => Unsettled \subseteq EffectRow
BY ExecTypes DEF WorkOK, Unsettled, Executing

LEMMA EnqueueType ==
  ASSUME WorkOK, NEW base \in SUBSET EffectRow, NEW type \in {"capture", "continue"},
         NEW r \in Run, NEW a \in Attempt, EnqueueOnce(base, Effect(type, r, a))
  PROVE  /\ outbox' \subseteq EffectRow
         /\ known' \subseteq [type : {"capture", "continue"}, run : Run]
<1>1. Effect(type, r, a) \in EffectRow
  BY EffectTypes DEF EffectType
<1>2. Key(Effect(type, r, a)) \in [type : {"capture", "continue"}, run : Run]
  BY DEF Key, Effect
<1> QED
  BY <1>1, <1>2 DEF EnqueueOnce, WorkOK

(* Somebody is being steered, so that not all attempts are steers.         *)
LEMMA SteerBound ==
  ASSUME RowsOK, BoundsOK, NEW r \in Run, Status(r) = "running", MayAttempt
  PROVE  steers + 1 \in 0..MaxAttempts - 1 /\ steers + 2 \in Attempt
<1> DEFINE S == {q \in Run : q \notin Unused \/ q \in DOMAIN plan.writes}
<1>1. IsFiniteSet(S)
  <2>1. IsFiniteSet(Run)
    BY ThreadAssumption, FS_Interval DEF Run
  <2>2. S \subseteq Run
    OBVIOUS
  <2> HIDE DEF S
  <2> QED
    BY <2>1, <2>2, FS_Subset
<1>2. r \in S
  BY DEF Unused
<1>3. Cardinality(S) \in Nat /\ Cardinality(S) # 0
  BY <1>1, <1>2, FS_CardinalityType, FS_EmptySet
<1>4. steers + Cardinality(S) < MaxAttempts
  BY DEF MayAttempt, Attempts
<1> HIDE DEF S
<1> QED
  BY <1>3, <1>4, ThreadAssumption DEF BoundsOK, Attempt

LEMMA QueuePlaces == \A n \in 1..Cardinality(Queued) : n \in Place
<1>1. IsFiniteSet(Run) /\ Cardinality(Run) = MaxAttempts
  BY ThreadAssumption, FS_Interval DEF Run
<1>2. Cardinality(Queued) \in Nat /\ Cardinality(Queued) <= MaxAttempts
  BY <1>1, FS_Subset, FS_CardinalityType DEF Queued
<1> QED
  BY <1>2, ThreadAssumption DEF Place

LEMMA CancellationsType ==
  ASSUME RowsOK
  PROVE  /\ DOMAIN Cancellations \subseteq Run
         /\ \A r \in DOMAIN Cancellations : Cancellations[r] \in RunRow
<1>1. \A r \in Run : Row(r, "cancelled") \in RunRow
  BY RowTypes, Ranges DEF RowsOK, RowStatus, Terminal
<1> QED
  BY <1>1 DEF Cancellations, Interrupted

(* Every action keeps the types.                                           *)
LEMMA TypeStep == Types /\ [Next]_vars => Types'
<1> SUFFICES ASSUME Types, [Next]_vars PROVE Types'
  OBVIOUS
<1> USE Ranges DEF Types, server, starter, bounds
<1>1. CASE DispatchMessage
  <2>1. RowsOK'
    BY <1>1 DEF DispatchMessage, CanCommand, Unlocked, Plan, PlanRun, IsNewRun, Unused, One,
       Effect, RowsOK
  <2>2. WorkOK'
    BY <1>1 DEF DispatchMessage, CanCommand, Unlocked, Plan, PlanRun, IsNewRun, Unused, One,
       Effect, WorkOK
  <2>3. PlanOK'
    BY <1>1, PlanRunType, Ranges DEF DispatchMessage
  <2>4. ServerOK'
    BY <1>1 DEF DispatchMessage, CanCommand, Unlocked, Plan, PlanRun, IsNewRun, Unused, One,
       Effect, ServerOK
  <2>5. BoundsOK'
    BY <1>1 DEF DispatchMessage, CanCommand, Unlocked, Plan, PlanRun, IsNewRun, Unused, One,
       Effect, BoundsOK
  <2> QED BY <2>1, <2>2, <2>3, <2>4, <2>5
<1>2. ASSUME NEW r \in Run, InterruptRun(r) PROVE Types'
  <2>1. RowsOK'
    BY <1>2 DEF InterruptRun, CanCommand, Unlocked, Plan, One, Row, RowsOK
  <2>2. WorkOK'
    BY <1>2 DEF InterruptRun, CanCommand, Unlocked, Plan, One, Row, WorkOK
  <2>3. PlanOK'
    BY <1>2, RowTypes, PlanOneType DEF InterruptRun, RowsOK, RowStatus, Terminal
  <2>4. ServerOK'
    BY <1>2 DEF InterruptRun, CanCommand, Unlocked, Plan, One, Row, ServerOK
  <2>5. BoundsOK'
    BY <1>2 DEF InterruptRun, CanCommand, Unlocked, Plan, One, Row, BoundsOK
  <2> QED BY <2>1, <2>2, <2>3, <2>4, <2>5
<1>3. ASSUME NEW r \in Run, SteerRun(r) PROVE Types'
  <2>1. RowsOK'
    BY <1>3 DEF SteerRun, CanCommand, Unlocked, Plan, Steer, Steerable, NextAttempt, Restart,
       Effect, One, MayAttempt, RowsOK
  <2>2. WorkOK'
    BY <1>3 DEF SteerRun, CanCommand, Unlocked, Plan, Steer, Steerable, NextAttempt, Restart,
       Effect, One, MayAttempt, WorkOK
  <2>3. PlanOK'
    <3>1. steers + 2 \in Attempt
      BY <1>3, SteerBound DEF SteerRun, Steer, Steerable
    <3>2. NextAttempt(r) \in RunRow
      BY <3>1, RowUpdates DEF NextAttempt, RowsOK, RowStatus, Blocking
    <3>3. Restart(r) \subseteq EffectRow
      BY EffectTypes, RowFields DEF Restart, EffectType, RowsOK
    <3> QED
      BY <1>3, <3>2, <3>3, PlanOneType DEF SteerRun
  <2>4. ServerOK'
    BY <1>3 DEF SteerRun, CanCommand, Unlocked, Plan, Steer, Steerable, NextAttempt, Restart,
       Effect, One, MayAttempt, ServerOK
  <2>5. BoundsOK'
    BY <1>3, SteerBound DEF SteerRun, Steer, Steerable, CanCommand, BoundsOK
  <2> QED BY <2>1, <2>2, <2>3, <2>4, <2>5
<1>4. ASSUME NEW r \in Run, CancelQueued(r) PROVE Types'
  <2>1. RowsOK'
    BY <1>4 DEF CancelQueued, CanCommand, Unlocked, Plan, One, Row, Queued, RowsOK
  <2>2. WorkOK'
    BY <1>4 DEF CancelQueued, CanCommand, Unlocked, Plan, One, Row, Queued, WorkOK
  <2>3. PlanOK'
    BY <1>4, RowTypes, PlanOneType DEF CancelQueued, RowsOK, RowStatus, Terminal
  <2>4. ServerOK'
    BY <1>4 DEF CancelQueued, CanCommand, Unlocked, Plan, One, Row, Queued, ServerOK
  <2>5. BoundsOK'
    BY <1>4 DEF CancelQueued, CanCommand, Unlocked, Plan, One, Row, Queued, BoundsOK
  <2> QED BY <2>1, <2>2, <2>3, <2>4, <2>5
<1>5. ASSUME NEW r \in Run, ReorderQueued(r) PROVE Types'
  <2>1. RowsOK'
    BY <1>5 DEF ReorderQueued, CanCommand, Unlocked, Plan, Queued, RowsOK
  <2>2. WorkOK'
    BY <1>5 DEF ReorderQueued, CanCommand, Unlocked, Plan, Queued, WorkOK
  <2>3. PlanOK'
    <3>1. PICK place \in [Queued -> 1..Cardinality(Queued)] :
            Plan("command", [q \in Queued |-> [run[q] EXCEPT !.place = place[q]]], {}, FALSE)
      BY <1>5 DEF ReorderQueued
    <3> DEFINE writes == [q \in Queued |-> [run[q] EXCEPT !.place = place[q]]]
    <3>2. \A q \in Queued : q \in Run /\ place[q] \in Place
      BY QueuePlaces DEF Queued
    <3>3. DOMAIN writes \subseteq Run /\ \A q \in DOMAIN writes : writes[q] \in RunRow
      <4> SUFFICES ASSUME NEW q \in Queued PROVE [run[q] EXCEPT !.place = place[q]] \in RunRow
        BY <3>2
      <4>1. run[q] \in RunRow /\ place[q] \in Place
        BY <3>2 DEF RowsOK
      <4>2. run[q].status \in RowStatus /\ run[q].attempt \in Attempt
        BY <4>1, RowFields
      <4> QED
        BY <4>1, <4>2, RowUpdates
    <3> HIDE DEF writes
    <3> QED
      BY <3>1, <3>3, PlanType DEF writes
  <2>4. ServerOK'
    BY <1>5 DEF ReorderQueued, CanCommand, Unlocked, Plan, Queued, ServerOK
  <2>5. BoundsOK'
    BY <1>5 DEF ReorderQueued, CanCommand, Unlocked, Plan, Queued, BoundsOK
  <2> QED BY <2>1, <2>2, <2>3, <2>4, <2>5
<1>6. ASSUME NEW q \in Run, NEW r \in Run, PromoteQueued(q, r) PROVE Types'
  <2>1. RowsOK'
    BY <1>6 DEF PromoteQueued, CanCommand, Unlocked, Plan, Steer, Steerable, NextAttempt,
       Restart, Effect, Row, Queued, MayAttempt, RowsOK
  <2>2. WorkOK'
    BY <1>6 DEF PromoteQueued, CanCommand, Unlocked, Plan, Steer, Steerable, NextAttempt,
       Restart, Effect, Row, Queued, MayAttempt, WorkOK
  <2>3. PlanOK'
    <3>1. steers + 2 \in Attempt
      BY <1>6, SteerBound DEF PromoteQueued, Steer, Steerable
    <3>2. NextAttempt(r) \in RunRow
      BY <3>1, RowUpdates DEF NextAttempt, RowsOK, RowStatus, Blocking
    <3>3. Restart(r) \subseteq EffectRow
      BY EffectTypes, RowFields DEF Restart, EffectType, RowsOK
    <3>4. Row(q, "cancelled") \in RunRow
      BY RowTypes, Ranges DEF RowsOK, RowStatus, Terminal
    <3> DEFINE writes == [x \in {q, r} |-> IF x = q THEN Row(q, "cancelled") ELSE NextAttempt(r)]
    <3>5. DOMAIN writes \subseteq Run /\ \A x \in DOMAIN writes : writes[x] \in RunRow
      BY <3>2, <3>4
    <3>6. Plan("command", writes, Restart(r), FALSE)
      BY <1>6 DEF PromoteQueued
    <3> HIDE DEF writes
    <3> QED
      BY <3>3, <3>5, <3>6, PlanType
  <2>4. ServerOK'
    BY <1>6 DEF PromoteQueued, CanCommand, Unlocked, Plan, Steer, Steerable, NextAttempt,
       Restart, Effect, Row, Queued, MayAttempt, ServerOK
  <2>5. BoundsOK'
    BY <1>6, SteerBound DEF PromoteQueued, Steer, Steerable, CanCommand, BoundsOK
  <2> QED BY <2>1, <2>2, <2>3, <2>4, <2>5
<1>7. CASE Commit
  <2>1. RowsOK'
    BY <1>7, WrittenType DEF Commit, RowsOK, PlanOK
  <2>2. WorkOK'
    <3>1. outbox' \subseteq EffectRow
      BY <1>7 DEF Commit, WorkOK, PlanOK
    <3>2. exec' \in ExecRow
      BY <1>7, ExecTypes DEF Commit, WorkOK
    <3> QED
      BY <1>7, <3>1, <3>2 DEF Commit, WorkOK
  <2>3. PlanOK'
    BY <1>7, NoPlanType DEF Commit
  <2>4. ServerOK'
    BY <1>7 DEF Commit, Unlocked, Written, Executing, WithTerminal, ServerOK
  <2>5. BoundsOK'
    BY <1>7 DEF Commit, Unlocked, Written, Executing, WithTerminal, BoundsOK
  <2> QED BY <2>1, <2>2, <2>3, <2>4, <2>5
<1>8. CASE CommitFails
  <2>1. RowsOK'
    BY <1>8 DEF CommitFails, Unlocked, Fault, Fail, Unsettled, Executing, RowsOK
  <2>2. WorkOK'
    BY <1>8, ExecTypes, UnsettledType DEF CommitFails, WorkOK
  <2>3. PlanOK'
    BY <1>8, NoPlanType DEF CommitFails
  <2>4. ServerOK'
    BY <1>8 DEF CommitFails, Unlocked, Fault, Fail, Unsettled, Executing, ServerOK
  <2>5. BoundsOK'
    BY <1>8 DEF CommitFails, Unlocked, Fault, Fail, Unsettled, Executing, BoundsOK
  <2> QED BY <2>1, <2>2, <2>3, <2>4, <2>5
<1>9. CASE HandleTerminal
  <2>1. RowsOK'
    BY <1>9 DEF HandleTerminal, Unlocked, Plan, One, Row, Effect, Queued, RowsOK
  <2>2. WorkOK'
    BY <1>9 DEF HandleTerminal, Unlocked, Plan, One, Row, Effect, Queued, WorkOK
  <2>3. PlanOK'
    <3>1. CASE Busy \/ Queued = {}
      BY <1>9, <3>1 DEF HandleTerminal, PlanOK
    <3>2. CASE ~(Busy \/ Queued = {})
      <4>1. PICK r \in Queued :
              Plan("starter", One(r, Row(r, "starting")), {Effect("start", r, 1)}, FALSE)
        BY <1>9, <3>2 DEF HandleTerminal
      <4>2. r \in Run /\ Row(r, "starting") \in RunRow
        BY RowTypes, Ranges DEF Queued, RowsOK, RowStatus, Blocking
      <4> QED
        BY <4>1, <4>2, PlanOneType, StartType
    <3> QED
      BY <3>1, <3>2
  <2>4. ServerOK'
    <3>1. backlog' \in Nat
      BY <1>9 DEF HandleTerminal, ServerOK
    <3> QED
      BY <1>9, <3>1 DEF HandleTerminal, ServerOK
  <2>5. BoundsOK'
    BY <1>9 DEF HandleTerminal, Unlocked, Plan, One, Row, Effect, Queued, BoundsOK
  <2> QED BY <2>1, <2>2, <2>3, <2>4, <2>5
<1>10. ASSUME NEW effect \in outbox, ReadRun(effect) PROVE Types'
  <2>1. RowsOK'
    BY <1>10 DEF ReadRun, Execute, Claim, Work, Settle, MayStart, RowsOK
  <2>2. WorkOK'
    <3>1. effect \in EffectRow /\ outbox' \subseteq EffectRow
      BY <1>10 DEF ReadRun, Claim, WorkOK
    <3>2. run[effect.run].attempt \in Attempt
      BY <3>1, EffectTypes, RowFields, Ranges DEF RowsOK
    <3>3. Work("opening", effect, run[effect.run].attempt) => exec' \in ExecRow
      BY <3>1, <3>2, WorkType DEF Steps
    <3>4. Settle => exec' \in ExecRow
      BY ExecTypes DEF Settle
    <3>5. exec' \in ExecRow
      BY <1>10, <3>3, <3>4 DEF ReadRun
    <3> QED
      BY <1>10, <3>1, <3>5 DEF ReadRun, Claim, WorkOK
  <2>3. PlanOK'
    BY <1>10 DEF ReadRun, Execute, Claim, Work, Settle, MayStart, PlanOK
  <2>4. ServerOK'
    BY <1>10 DEF ReadRun, Execute, Claim, Work, Settle, MayStart, ServerOK
  <2>5. BoundsOK'
    BY <1>10 DEF ReadRun, Execute, Claim, Work, Settle, MayStart, BoundsOK
  <2> QED BY <2>1, <2>2, <2>3, <2>4, <2>5
<1>11. ASSUME NEW effect \in outbox, ReadCaptureTarget(effect) PROVE Types'
  <2>1. RowsOK'
    BY <1>11 DEF ReadCaptureTarget, Execute, Claim, Work, Settle, RowsOK
  <2>2. WorkOK'
    <3>1. effect \in EffectRow /\ outbox' \subseteq EffectRow
      BY <1>11 DEF ReadCaptureTarget, Claim, WorkOK
    <3>2. run[effect.run].attempt \in Attempt
      BY <3>1, EffectTypes, RowFields DEF RowsOK
    <3>3. Work("capturing", effect, run[effect.run].attempt) => exec' \in ExecRow
      BY <3>1, <3>2, WorkType DEF Steps
    <3>4. Settle => exec' \in ExecRow
      BY ExecTypes DEF Settle
    <3>5. exec' \in ExecRow
      BY <1>11, <3>3, <3>4 DEF ReadCaptureTarget
    <3> QED
      BY <1>11, <3>1, <3>5 DEF ReadCaptureTarget, Claim, WorkOK
  <2>3. PlanOK'
    BY <1>11 DEF ReadCaptureTarget, Execute, Claim, Work, Settle, PlanOK
  <2>4. ServerOK'
    BY <1>11 DEF ReadCaptureTarget, Execute, Claim, Work, Settle, ServerOK
  <2>5. BoundsOK'
    BY <1>11 DEF ReadCaptureTarget, Execute, Claim, Work, Settle, BoundsOK
  <2> QED BY <2>1, <2>2, <2>3, <2>4, <2>5
<1>12. ASSUME NEW effect \in outbox, CheckContinuation(effect) PROVE Types'
  <2>1. RowsOK'
    BY <1>12 DEF CheckContinuation, Execute, Claim, Work, Settle, RowsOK
  <2>2. WorkOK'
    <3>1. effect \in EffectRow /\ outbox' \subseteq EffectRow
      BY <1>12 DEF CheckContinuation, Claim, WorkOK
    <3>2. 1 \in Attempt
      BY <3>1, EffectTypes, RowFields, Ranges DEF RowsOK
    <3>3. Work("dispatching", effect, 1) => exec' \in ExecRow
      BY <3>1, <3>2, WorkType DEF Steps
    <3>4. Settle => exec' \in ExecRow
      BY ExecTypes DEF Settle
    <3>5. exec' \in ExecRow
      BY <1>12, <3>3, <3>4 DEF CheckContinuation
    <3> QED
      BY <1>12, <3>1, <3>5 DEF CheckContinuation, Claim, WorkOK
  <2>3. PlanOK'
    BY <1>12 DEF CheckContinuation, Execute, Claim, Work, Settle, PlanOK
  <2>4. ServerOK'
    BY <1>12 DEF CheckContinuation, Execute, Claim, Work, Settle, ServerOK
  <2>5. BoundsOK'
    BY <1>12 DEF CheckContinuation, Execute, Claim, Work, Settle, BoundsOK
  <2> QED BY <2>1, <2>2, <2>3, <2>4, <2>5
<1>13. CASE MarkRunning
  <2>1. RowsOK'
    <3>1. exec.effect.run \in Run
      BY ExecTypes, EffectTypes DEF WorkOK
    <3>2. run[exec.effect.run] \in RunRow
      BY <3>1 DEF RowsOK
    <3>3. [run[exec.effect.run] EXCEPT !.status = "running"] \in RunRow
      BY <3>2, RowFields, RowUpdates DEF RowStatus, Blocking
    <3> QED
      BY <1>13, <3>1, <3>3 DEF MarkRunning, Execute, RowsOK
  <2>2. WorkOK'
    BY <1>13, ExecTypes DEF MarkRunning, Goto, Settle, WorkOK, Steps
  <2>3. PlanOK'
    BY <1>13 DEF MarkRunning, Execute, MayStart, Goto, Settle, PlanOK
  <2>4. ServerOK'
    BY <1>13 DEF MarkRunning, Execute, MayStart, Goto, Settle, ServerOK
  <2>5. BoundsOK'
    BY <1>13 DEF MarkRunning, Execute, MayStart, Goto, Settle, BoundsOK
  <2> QED BY <2>1, <2>2, <2>3, <2>4, <2>5
<1>14. CASE CheckRun
  <2>1. RowsOK'
    BY <1>14 DEF CheckRun, Execute, IsCurrent, Goto, Settle, RowsOK
  <2>2. WorkOK'
    BY <1>14, ExecTypes DEF CheckRun, Goto, Settle, WorkOK, Steps
  <2>3. PlanOK'
    BY <1>14 DEF CheckRun, Execute, IsCurrent, Goto, Settle, PlanOK
  <2>4. ServerOK'
    BY <1>14 DEF CheckRun, Execute, IsCurrent, Goto, Settle, ServerOK
  <2>5. BoundsOK'
    BY <1>14 DEF CheckRun, Execute, IsCurrent, Goto, Settle, BoundsOK
  <2> QED BY <2>1, <2>2, <2>3, <2>4, <2>5
<1>15. CASE StartTurn
  <2>1. RowsOK'
    <3>1. exec.effect.run \in Run /\ exec.attempt \in Attempt
      BY ExecTypes, EffectTypes DEF WorkOK
    <3> QED
      BY <1>15, <3>1, TurnUpdate DEF StartTurn, RowsOK, Turn
  <2>2. WorkOK'
    BY <1>15, ExecTypes, UnsettledType DEF StartTurn, Settle, WorkOK
  <2>3. PlanOK'
    BY <1>15 DEF StartTurn, Settle, Unsettled, Executing, Fault, Fail, PlanOK
  <2>4. ServerOK'
    BY <1>15 DEF StartTurn, Settle, Unsettled, Executing, Fault, Fail, ServerOK
  <2>5. BoundsOK'
    BY <1>15 DEF StartTurn, Settle, Unsettled, Executing, Fault, Fail, BoundsOK
  <2> QED BY <2>1, <2>2, <2>3, <2>4, <2>5
<1>16. CASE CommitCapture
  <2>1. RowsOK'
    <3>1. exec.effect.run \in Run /\ exec.attempt \in Attempt
      BY ExecTypes, EffectTypes DEF WorkOK
    <3>2. [Row(exec.effect.run, "ended") EXCEPT !.attempt = exec.attempt] \in RunRow
      BY <3>1, RowTypes DEF RowsOK, RowStatus, Terminal, Final
    <3> QED
      BY <1>16, <3>1, <3>2 DEF CommitCapture, RowsOK
  <2>2. WorkOK'
    BY <1>16, ExecTypes DEF CommitCapture, Settle, WorkOK
  <2>3. PlanOK'
    BY <1>16 DEF CommitCapture, Settle, Row, PlanOK
  <2>4. ServerOK'
    BY <1>16 DEF CommitCapture, Settle, Row, ServerOK
  <2>5. BoundsOK'
    BY <1>16 DEF CommitCapture, Settle, Row, BoundsOK
  <2> QED BY <2>1, <2>2, <2>3, <2>4, <2>5
<1>17. CASE DispatchContinuation
  <2>1. RowsOK'
    BY <1>17 DEF DispatchContinuation, Settle, Unlocked, Plan, PlanRun, IsNewRun, Unused, One,
       Effect, Goto, RowsOK
  <2>2. WorkOK'
    BY <1>17, ExecTypes DEF DispatchContinuation, Goto, Settle, WorkOK, Steps
  <2>3. PlanOK'
    <3>1. exec.effect.run \in Place
      BY ExecTypes, EffectTypes, Ranges DEF WorkOK
    <3>2. CASE UNCHANGED plan
      BY <3>2 DEF PlanOK
    <3>3. CASE \E r \in Run : PlanRun("continue", r, exec.effect.run)
      BY <3>1, <3>3, PlanRunType
    <3> QED
      BY <1>17, <3>2, <3>3 DEF DispatchContinuation
  <2>4. ServerOK'
    BY <1>17 DEF DispatchContinuation, Settle, Unlocked, Plan, PlanRun, IsNewRun, Unused, One,
       Effect, Goto, ServerOK
  <2>5. BoundsOK'
    BY <1>17 DEF DispatchContinuation, Settle, Unlocked, Plan, PlanRun, IsNewRun, Unused, One,
       Effect, Goto, BoundsOK
  <2> QED BY <2>1, <2>2, <2>3, <2>4, <2>5
<1>18. CASE ExecutionCancelled
  <2>1. RowsOK'
    BY <1>18 DEF ExecutionCancelled, Settle, RowsOK
  <2>2. WorkOK'
    BY <1>18, ExecTypes DEF ExecutionCancelled, Settle, WorkOK
  <2>3. PlanOK'
    BY <1>18 DEF ExecutionCancelled, Settle, PlanOK
  <2>4. ServerOK'
    BY <1>18 DEF ExecutionCancelled, Settle, ServerOK
  <2>5. BoundsOK'
    BY <1>18 DEF ExecutionCancelled, Settle, BoundsOK
  <2> QED BY <2>1, <2>2, <2>3, <2>4, <2>5
<1>19. ASSUME NEW r \in Run, NEW a \in Attempt, TurnStarts(r, a) PROVE Types'
  <2>1. RowsOK'
    BY <1>19, TurnUpdate DEF TurnStarts, Ingest, SetTurn, OnlyTurn, RowsOK, Turn
  <2>2. WorkOK'
    BY <1>19 DEF TurnStarts, Ingest, SetTurn, OnlyTurn, WorkOK
  <2>3. PlanOK'
    BY <1>19 DEF TurnStarts, Ingest, SetTurn, OnlyTurn, PlanOK
  <2>4. ServerOK'
    BY <1>19 DEF TurnStarts, Ingest, SetTurn, OnlyTurn, ServerOK
  <2>5. BoundsOK'
    BY <1>19 DEF TurnStarts, Ingest, SetTurn, OnlyTurn, BoundsOK
  <2> QED BY <2>1, <2>2, <2>3, <2>4, <2>5
<1>20. ASSUME NEW r \in Run, NEW a \in Attempt, TurnEnds(r, a) PROVE Types'
  <2>1. RowsOK'
    BY <1>20, TurnUpdate DEF TurnEnds, Ingest, SetTurn, OnlyTurn, RowsOK, Turn
  <2>2. WorkOK'
    BY <1>20 DEF TurnEnds, Ingest, SetTurn, OnlyTurn, WorkOK
  <2>3. PlanOK'
    BY <1>20 DEF TurnEnds, Ingest, SetTurn, OnlyTurn, PlanOK
  <2>4. ServerOK'
    BY <1>20 DEF TurnEnds, Ingest, SetTurn, OnlyTurn, ServerOK
  <2>5. BoundsOK'
    BY <1>20 DEF TurnEnds, Ingest, SetTurn, OnlyTurn, BoundsOK
  <2> QED BY <2>1, <2>2, <2>3, <2>4, <2>5
<1>21. ASSUME NEW r \in Run, NEW a \in Attempt, ShouldFinalize(r, a) PROVE Types'
  <2>1. RowsOK'
    BY <1>21, TurnUpdate DEF ShouldFinalize, Ingest, SetTurn, OnlyTurn, RowsOK, Turn
  <2>2. WorkOK'
    BY <1>21 DEF ShouldFinalize, Ingest, SetTurn, OnlyTurn, IsCurrent, WorkOK
  <2>3. PlanOK'
    BY <1>21 DEF ShouldFinalize, Ingest, SetTurn, OnlyTurn, IsCurrent, PlanOK
  <2>4. ServerOK'
    BY <1>21 DEF ShouldFinalize, Ingest, SetTurn, OnlyTurn, IsCurrent, ServerOK
  <2>5. BoundsOK'
    BY <1>21 DEF ShouldFinalize, Ingest, SetTurn, OnlyTurn, IsCurrent, BoundsOK
  <2> QED BY <2>1, <2>2, <2>3, <2>4, <2>5
<1>22. ASSUME NEW r \in Run, NEW a \in Attempt, CompleteRun(r, a) PROVE Types'
  <2>1. RowsOK'
    <3>1. Final(r, a, "waiting") \in RunRow
      BY RowTypes DEF RowsOK, RowStatus, Blocking, Terminal
    <3>2. run' \in [Run -> RunRow]
      BY <1>22, <3>1 DEF CompleteRun, RowsOK
    <3>3. turn' \in [Run -> [Attempt -> Turn]]
      BY <1>22, TurnUpdate DEF CompleteRun, SetTurn, Turn
    <3> QED
      BY <3>2, <3>3 DEF RowsOK
  <2>2. WorkOK'
    <3>1. outbox' \subseteq EffectRow /\ known' \subseteq [type : {"capture", "continue"}, run : Run]
      BY <1>22, EnqueueType, Ranges DEF CompleteRun, WorkOK
    <3> QED
      BY <1>22, <3>1 DEF CompleteRun, Ingest, WorkOK
  <2>3. PlanOK'
    BY <1>22 DEF CompleteRun, Ingest, SetTurn, Final, Row, EnqueueOnce, Effect, Key, PlanOK
  <2>4. ServerOK'
    BY <1>22 DEF CompleteRun, Ingest, SetTurn, Final, Row, EnqueueOnce, Effect, Key, ServerOK
  <2>5. BoundsOK'
    BY <1>22 DEF CompleteRun, Ingest, SetTurn, Final, Row, EnqueueOnce, Effect, Key, BoundsOK
  <2> QED BY <2>1, <2>2, <2>3, <2>4, <2>5
<1>23. ASSUME NEW r \in Run, NEW a \in Attempt, EndRun(r, a) PROVE Types'
  <2>1. RowsOK'
    <3>1. Final(r, a, "ended") \in RunRow
      BY RowTypes DEF RowsOK, RowStatus, Blocking, Terminal
    <3>2. run' \in [Run -> RunRow]
      BY <1>23, <3>1 DEF EndRun, RowsOK
    <3>3. turn' \in [Run -> [Attempt -> Turn]]
      BY <1>23, TurnUpdate DEF EndRun, SetTurn, Turn
    <3> QED
      BY <3>2, <3>3 DEF RowsOK
  <2>2. WorkOK'
    BY <1>23 DEF EndRun, Ingest, SetTurn, Final, Row, WorkOK
  <2>3. PlanOK'
    BY <1>23 DEF EndRun, Ingest, SetTurn, Final, Row, PlanOK
  <2>4. ServerOK'
    BY <1>23 DEF EndRun, Ingest, SetTurn, Final, Row, ServerOK
  <2>5. BoundsOK'
    BY <1>23 DEF EndRun, Ingest, SetTurn, Final, Row, BoundsOK
  <2> QED BY <2>1, <2>2, <2>3, <2>4, <2>5
<1>24. CASE ExecutionFails
  <2>1. RowsOK'
    BY <1>24 DEF ExecutionFails, Fault, Fail, Unsettled, Executing, Settle, RowsOK
  <2>2. WorkOK'
    BY <1>24, ExecTypes, UnsettledType DEF ExecutionFails, Settle, WorkOK
  <2>3. PlanOK'
    BY <1>24 DEF ExecutionFails, Fault, Fail, Unsettled, Executing, Settle, PlanOK
  <2>4. ServerOK'
    BY <1>24 DEF ExecutionFails, Fault, Fail, Unsettled, Executing, Settle, ServerOK
  <2>5. BoundsOK'
    BY <1>24 DEF ExecutionFails, Fault, Fail, Unsettled, Executing, Settle, BoundsOK
  <2> QED BY <2>1, <2>2, <2>3, <2>4, <2>5
<1>25. ASSUME NEW r \in Run, NEW a \in Attempt, StreamFails(r, a) PROVE Types'
  <2>1. RowsOK'
    BY <1>25, TurnUpdate DEF StreamFails, Ingest, SetTurn, OnlyTurn, RowsOK, Turn
  <2>2. WorkOK'
    BY <1>25 DEF StreamFails, Ingest, SetTurn, Fail, WorkOK
  <2>3. PlanOK'
    BY <1>25 DEF StreamFails, Ingest, SetTurn, Fail, PlanOK
  <2>4. ServerOK'
    BY <1>25 DEF StreamFails, Ingest, SetTurn, Fail, ServerOK
  <2>5. BoundsOK'
    BY <1>25 DEF StreamFails, Ingest, SetTurn, Fail, BoundsOK
  <2> QED BY <2>1, <2>2, <2>3, <2>4, <2>5
<1>26. ASSUME NEW r \in Run, NEW a \in Attempt, FinalWriteFails(r, a) PROVE Types'
  <2>1. RowsOK'
    BY <1>26, TurnUpdate DEF FinalWriteFails, Ingest, SetTurn, OnlyTurn, RowsOK, Turn
  <2>2. WorkOK'
    BY <1>26 DEF FinalWriteFails, Ingest, SetTurn, Fail, WorkOK
  <2>3. PlanOK'
    BY <1>26 DEF FinalWriteFails, Ingest, SetTurn, Fail, PlanOK
  <2>4. ServerOK'
    BY <1>26 DEF FinalWriteFails, Ingest, SetTurn, Fail, ServerOK
  <2>5. BoundsOK'
    BY <1>26 DEF FinalWriteFails, Ingest, SetTurn, Fail, BoundsOK
  <2> QED BY <2>1, <2>2, <2>3, <2>4, <2>5
<1>27. CASE StopServing
  <2>1. RowsOK'
    BY <1>27 DEF StopServing, Unsettled, Executing, RowsOK
  <2>2. WorkOK'
    BY <1>27, ExecTypes, UnsettledType DEF StopServing, WorkOK
  <2>3. PlanOK'
    <3>1. CASE plan' = plan
      BY <3>1 DEF PlanOK
    <3> QED
      BY <1>27, <3>1, NoPlanType DEF StopServing
  <2>4. ServerOK'
    BY <1>27 DEF StopServing, Unsettled, Executing, ServerOK
  <2>5. BoundsOK'
    BY <1>27 DEF StopServing, Unsettled, Executing, BoundsOK
  <2> QED BY <2>1, <2>2, <2>3, <2>4, <2>5
<1>28. CASE PrepareForShutdown
  <2>1. RowsOK'
    BY <1>28 DEF PrepareForShutdown, EnqueueOnce, Effect, Key, RowsOK
  <2>2. WorkOK'
    <3>1. CASE \E s \in Run : EnqueueOnce(outbox, Effect("continue", s, 1))
      BY <1>28, <3>1, EnqueueType, Ranges DEF PrepareForShutdown, WorkOK
    <3>2. CASE UNCHANGED <<outbox, known>>
      BY <1>28, <3>2 DEF PrepareForShutdown, WorkOK
    <3> QED
      BY <1>28, <3>1, <3>2 DEF PrepareForShutdown
  <2>3. PlanOK'
    BY <1>28 DEF PrepareForShutdown, EnqueueOnce, Effect, Key, PlanOK
  <2>4. ServerOK'
    BY <1>28 DEF PrepareForShutdown, EnqueueOnce, Effect, Key, ServerOK
  <2>5. BoundsOK'
    BY <1>28 DEF PrepareForShutdown, EnqueueOnce, Effect, Key, BoundsOK
  <2> QED BY <2>1, <2>2, <2>3, <2>4, <2>5
<1>29. CASE CloseSessions
  <2>1. RowsOK'
    <3>1. \A stage \in Turn : Close(stage) \in Turn
      BY DEF Close, Turn
    <3> QED
      BY <1>29, <3>1 DEF CloseSessions, RowsOK
  <2>2. WorkOK'
    BY <1>29 DEF CloseSessions, Close, WorkOK
  <2>3. PlanOK'
    BY <1>29 DEF CloseSessions, Close, PlanOK
  <2>4. ServerOK'
    BY <1>29 DEF CloseSessions, Close, ServerOK
  <2>5. BoundsOK'
    BY <1>29 DEF CloseSessions, Close, BoundsOK
  <2> QED BY <2>1, <2>2, <2>3, <2>4, <2>5
<1>30. CASE ReadProjection
  <2>1. RowsOK'
    BY <1>30 DEF ReadProjection, Cancellations, Interrupted, Row, RowsOK
  <2>2. WorkOK'
    BY <1>30 DEF ReadProjection, Cancellations, Interrupted, Row, WorkOK
  <2>3. PlanOK'
    BY <1>30 DEF ReadProjection, Cancellations, Interrupted, Row, PlanOK
  <2>4. ServerOK'
    BY <1>30, CancellationsType DEF ReadProjection, ServerOK
  <2>5. BoundsOK'
    BY <1>30 DEF ReadProjection, Cancellations, Interrupted, Row, BoundsOK
  <2> QED BY <2>1, <2>2, <2>3, <2>4, <2>5
<1>31. CASE Reconcile
  <2>1. RowsOK'
    <3>1. \A stage \in Turn : Retire(stage) \in Turn
      BY DEF Retire, Turn
    <3>2. run' \in [Run -> RunRow]
      BY <1>31, WrittenType DEF Reconcile, RowsOK, ServerOK
    <3> QED
      BY <1>31, <3>1, <3>2 DEF Reconcile, Retired, RowsOK
  <2>2. WorkOK'
    BY <1>31 DEF Reconcile, Replayable, WorkOK
  <2>3. PlanOK'
    BY <1>31 DEF Reconcile, PlanOK
  <2>4. ServerOK'
    BY <1>31 DEF Reconcile, ServerOK, NoWrites, starter
  <2>5. BoundsOK'
    BY <1>31 DEF Reconcile, BoundsOK, bounds
  <2> QED BY <2>1, <2>2, <2>3, <2>4, <2>5
<1>32. CASE ProcessEnds
  <2>1. RowsOK'
    <3>1. \A stage \in Turn : Lose(stage) \in Turn
      BY DEF Lose, Turn
    <3> QED
      BY <1>32, <3>1 DEF ProcessEnds, RowsOK
  <2>2. WorkOK'
    BY <1>32, ExecTypes, UnsettledType DEF ProcessEnds, WorkOK
  <2>3. PlanOK'
    BY <1>32, NoPlanType DEF ProcessEnds
  <2>4. ServerOK'
    BY <1>32 DEF ProcessEnds, ServerOK, NoWrites
  <2>5. BoundsOK'
    BY <1>32 DEF ProcessEnds, Unsettled, Executing, Lose, BoundsOK
  <2> QED BY <2>1, <2>2, <2>3, <2>4, <2>5
<1>33. CASE ResumeQueued
  <2>1. RowsOK'
    <3>1. CASE UNCHANGED run
      BY <1>33, <3>1 DEF ResumeQueued, RowsOK
    <3>2. CASE \E r \in Queued : run' = [run EXCEPT ![r] = Row(r, "starting")]
      <4>1. PICK r \in Run : run' = [run EXCEPT ![r] = Row(r, "starting")]
        BY <3>2 DEF Queued
      <4>2. Row(r, "starting") \in RunRow
        BY RowTypes, Ranges DEF RowsOK, RowStatus, Blocking
      <4> QED
        BY <1>33, <4>1, <4>2 DEF ResumeQueued, RowsOK
    <3> QED
      BY <1>33, <3>1, <3>2 DEF ResumeQueued
  <2>2. WorkOK'
    <3>1. outbox' \subseteq EffectRow
      BY <1>33, StartType DEF ResumeQueued, WorkOK, Queued
    <3> QED
      BY <1>33, <3>1 DEF ResumeQueued, WorkOK
  <2>3. PlanOK'
    BY <1>33 DEF ResumeQueued, Queued, Row, Effect, PlanOK
  <2>4. ServerOK'
    BY <1>33 DEF ResumeQueued, Queued, Row, Effect, ServerOK
  <2>5. BoundsOK'
    BY <1>33 DEF ResumeQueued, Queued, Row, Effect, BoundsOK
  <2> QED BY <2>1, <2>2, <2>3, <2>4, <2>5
<1>34. CASE Recover
  <2>1. RowsOK'
    <3>1. \A stage \in Turn : Retire(stage) \in Turn
      BY DEF Retire, Turn
    <3>2. run' \in [Run -> RunRow]
      BY <1>34, WrittenType, CancellationsType DEF Recover, RowsOK, ServerOK
    <3> QED
      BY <1>34, <3>1, <3>2 DEF Recover, Retired, RowsOK
  <2>2. WorkOK'
    <3>1. Replayable(outbox) \subseteq EffectRow
      BY DEF Replayable, WorkOK
    <3>2. CASE \E s \in Run : EnqueueOnce(Replayable(outbox), Effect("continue", s, 1))
      BY <1>34, <3>1, <3>2, EnqueueType, Ranges DEF Recover, WorkOK
    <3>3. CASE outbox' = Replayable(outbox) /\ UNCHANGED known
      BY <1>34, <3>1, <3>3 DEF Recover, WorkOK
    <3> QED
      BY <1>34, <3>2, <3>3 DEF Recover
  <2>3. PlanOK'
    BY <1>34 DEF Recover, PlanOK
  <2>4. ServerOK'
    BY <1>34 DEF Recover, ServerOK, starter
  <2>5. BoundsOK'
    BY <1>34 DEF Recover, BoundsOK, bounds
  <2> QED BY <2>1, <2>2, <2>3, <2>4, <2>5
<1>35. CASE UNCHANGED vars
  BY <1>35 DEF vars, RowsOK, WorkOK, PlanOK, ServerOK, BoundsOK
<1> QED BY <1>1, <1>2, <1>3, <1>4, <1>5, <1>6, <1>7, <1>8, <1>9, <1>10, <1>11, <1>12, <1>13,
   <1>14, <1>15, <1>16, <1>17, <1>18, <1>19, <1>20, <1>21, <1>22, <1>23, <1>24, <1>25, <1>26,
   <1>27, <1>28, <1>29, <1>30, <1>31, <1>32, <1>33, <1>34, <1>35 DEF Next, Command, Execution,
   Ingestion, IngestStep, Failure, Process, Recovery

(* The parts are all of TypeOK.                                            *)
LEMMA TypeParts == (TypeOK <=> Types) /\ (TypeOK' <=> Types')
BY DEF TypeOK, Types, RowsOK, WorkOK, PlanOK, ServerOK, BoundsOK, ExecRow

LEMMA TypeInit == Init => Types
<1> SUFFICES ASSUME Init PROVE Types
  OBVIOUS
<1>1. RowsOK
  <2>1. [status |-> "none", attempt |-> 1, place |-> 0, source |-> 0] \in RunRow
    BY NewRow, Ranges DEF RowStatus
  <2> QED
    BY <2>1 DEF Init, RowsOK, Turn
<1>2. WorkOK
  BY ExecTypes DEF Init, WorkOK
<1>3. PlanOK
  BY DEF Init, NoPlan, NoWrites, PlanOK
<1>4. ServerOK
  BY DEF Init, NoWrites, ServerOK
<1>5. BoundsOK
  BY ThreadAssumption DEF Init, BoundsOK
<1> QED
  BY <1>1, <1>2, <1>3, <1>4, <1>5 DEF Types

(* Every variable keeps its type: no row names a run or an attempt that    *)
(* does not exist, whatever fails, restarts or is steered.                 *)
THEOREM TypeCorrect == Spec => []TypeOK
<1>1. Init => Types
  BY TypeInit
<1>2. Types /\ [Next]_vars => Types'
  BY TypeStep
<1>3. Types => TypeOK
  BY TypeParts
<1> QED
  BY <1>1, <1>2, <1>3, PTL DEF Spec

-----------------------------------------------------------------------------
(* What steps do, as far as the invariant goes.                            *)

LEMMA RowValues ==
  ASSUME RowsOK, NEW r \in Run
  PROVE  /\ \A status : Row(r, status).status = status /\ Row(r, status).attempt = run[r].attempt
         /\ \A a, status : Final(r, a, status).status = status /\ Final(r, a, status).attempt = a
         /\ NextAttempt(r).status = "starting" /\ NextAttempt(r).attempt = steers + 2
         /\ \A p : /\ [run[r] EXCEPT !.place = p].attempt = run[r].attempt
                   /\ [run[r] EXCEPT !.place = p].status = run[r].status
<1>1. run[r] \in RunRow
  BY DEF RowsOK
<1> QED
  BY <1>1 DEF Row, Final, NextAttempt, RunRow

LEMMA EffectValues ==
  \A type, r, a : LET effect == Effect(type, r, a) IN
    effect.type = type /\ effect.run = r /\ effect.attempt = a
BY DEF Effect

(* Commands and the starter plan these rows and effects.                   *)
NewRun(r, row) ==
  Status(r) = "none" /\ row.attempt = 1 /\ ((row.status = "queued" /\ Busy) \/ row.status = "starting")
Reordered(r, row) ==
  Status(r) = "queued" /\ row.status = "queued" /\ row.attempt = run[r].attempt
Stopped(r, row) == row.status \in Terminal /\ row.attempt = run[r].attempt
Steered(r, row) ==
  Status(r) = "running" /\ row.status = "starting" /\ row.attempt = steers + 2 /\ steers' = steers + 1
MayPlan(r, row) ==
  NewRun(r, row) \/ Reordered(r, row) \/ Stopped(r, row) \/ Steered(r, row)
MayAsk(effect) == effect.type # "capture" /\ effect.attempt \in {1, run[effect.run].attempt}

LEMMA PlanValues ==
  ASSUME NEW by, NEW writes, NEW effects, NEW cancels, Plan(by, writes, effects, cancels)
  PROVE  plan'.by = by /\ plan'.writes = writes /\ plan'.effects = effects
BY DEF Plan

LEMMA PlanOneValues ==
  ASSUME NEW by, NEW r, NEW row, NEW effects, NEW cancels,
         Plan(by, One(r, row), effects, cancels)
  PROVE  plan'.by = by /\ DOMAIN plan'.writes = {r} /\ plan'.writes[r] = row
         /\ plan'.effects = effects
<1>1. plan'.by = by /\ plan'.writes = One(r, row) /\ plan'.effects = effects
  BY PlanValues
<1>2. DOMAIN One(r, row) = {r} /\ One(r, row)[r] = row
  BY OneRow
<1> QED
  BY <1>1, <1>2

Plans(by) ==
  /\ plan'.by = by
  /\ \A r \in DOMAIN plan'.writes : MayPlan(r, plan'.writes[r])
  /\ \A effect \in plan'.effects : MayAsk(effect)

LEMMA PlanRunValues ==
  ASSUME NEW by, NEW r \in Run, NEW source, Status(r) = "none", PlanRun(by, r, source)
  PROVE  Plans(by) /\ DOMAIN plan'.writes \subseteq Run
<1>1. CASE Busy
  <2> DEFINE row == [status |-> "queued", attempt |-> 1, place |-> r, source |-> source]
  <2>1. MayPlan(r, row)
    BY <1>1 DEF MayPlan, NewRun
  <2>2. Plan(by, One(r, row), {}, FALSE)
    BY <1>1 DEF PlanRun
  <2> HIDE DEF row
  <2>3. plan'.by = by /\ DOMAIN plan'.writes = {r} /\ plan'.writes[r] = row /\ plan'.effects = {}
    BY <2>2, PlanOneValues
  <2> QED
    BY <2>1, <2>3 DEF Plans
<1>2. CASE ~Busy
  <2> DEFINE row == [status |-> "starting", attempt |-> 1, place |-> 0, source |-> source]
  <2>1. MayPlan(r, row)
    BY DEF MayPlan, NewRun
  <2> DEFINE effects == {Effect("start", r, 1)}
  <2>2. Plan(by, One(r, row), effects, FALSE)
    BY <1>2 DEF PlanRun
  <2>3. \A effect \in effects : MayAsk(effect)
    BY EffectValues DEF MayAsk
  <2> HIDE DEF row, effects
  <2>4. /\ plan'.by = by /\ DOMAIN plan'.writes = {r} /\ plan'.writes[r] = row
        /\ plan'.effects = effects
    BY <2>2, PlanOneValues
  <2> QED
    BY <2>1, <2>3, <2>4 DEF Plans
<1> QED
  BY <1>1, <1>2

LEMMA CommandStep ==
  ASSUME RowsOK, Command
  PROVE  /\ phase = "up" /\ plan.by = "none" /\ Plans("command")
         /\ steers' \in {steers, steers + 1}
         /\ UNCHANGED <<run, turn, outbox, known, exec, backlog, missed, phase, recovery>>
<1> DEFINE Frame == /\ phase = "up" /\ plan.by = "none"
                    /\ UNCHANGED <<run, turn, outbox, known, exec, backlog, missed, phase, recovery>>
<1>1. CanCommand => Frame
  BY DEF CanCommand, Unlocked, starter, server
<1>2. CASE DispatchMessage
  <2>1. Plans("command") /\ UNCHANGED steers
    BY <1>2, PlanRunValues DEF DispatchMessage, IsNewRun, Unused
  <2> QED
    BY <1>1, <1>2, <2>1 DEF DispatchMessage
<1>3. ASSUME NEW r \in Run, InterruptRun(r) \/ CancelQueued(r)
      PROVE  Plans("command") /\ UNCHANGED steers /\ CanCommand
  <2>1. PICK status \in Terminal, cancels \in BOOLEAN :
          Plan("command", One(r, Row(r, status)), {}, cancels)
    BY <1>3 DEF InterruptRun, CancelQueued, Terminal
  <2>2. MayPlan(r, Row(r, status))
    BY RowValues DEF MayPlan, Stopped
  <2>3. Plans("command")
    BY <2>1, <2>2, PlanOneValues DEF Plans
  <2> QED
    BY <1>3, <2>3 DEF InterruptRun, CancelQueued
<1>4. ASSUME NEW r \in Run, Steer, Steerable(r)
      PROVE  MayPlan(r, NextAttempt(r)) /\ \A effect \in Restart(r) : MayAsk(effect)
  <2>1. MayPlan(r, NextAttempt(r))
    BY <1>4, RowValues DEF Steer, Steerable, MayPlan, Steered
  <2>2. \A effect \in Restart(r) : MayAsk(effect)
    BY EffectValues DEF Restart, MayAsk
  <2> QED
    BY <2>1, <2>2
<1>5. ASSUME NEW r \in Run, SteerRun(r)
      PROVE  Plans("command") /\ Steer
  <2>1. Plan("command", One(r, NextAttempt(r)), Restart(r), FALSE) /\ Steer /\ Steerable(r)
    BY <1>5 DEF SteerRun
  <2>2. /\ plan'.by = "command" /\ DOMAIN plan'.writes = {r}
        /\ plan'.writes[r] = NextAttempt(r) /\ plan'.effects = Restart(r)
    BY <2>1, PlanOneValues
  <2> QED
    BY <1>4, <2>1, <2>2 DEF Plans
<1>6. ASSUME NEW r \in Run, NEW q \in Run, PromoteQueued(q, r)
      PROVE  Plans("command") /\ Steer
  <2> DEFINE writes == [x \in {q, r} |-> IF x = q THEN Row(q, "cancelled") ELSE NextAttempt(r)]
  <2>1. MayPlan(q, Row(q, "cancelled"))
    BY RowValues DEF MayPlan, Stopped, Terminal
  <2>2. \A x \in DOMAIN writes : MayPlan(x, writes[x])
    BY <1>4, <1>6, <2>1 DEF PromoteQueued
  <2>3. Plan("command", writes, Restart(r), FALSE)
    BY <1>6 DEF PromoteQueued
  <2> HIDE DEF writes
  <2> QED
    BY ZenonT(30), <1>4, <1>6, <2>2, <2>3, PlanValues DEF PromoteQueued, Plans
<1>7. ASSUME NEW r \in Run, ReorderQueued(r)
      PROVE  Plans("command") /\ UNCHANGED steers /\ CanCommand
  <2>1. PICK place \in [Queued -> 1..Cardinality(Queued)] :
          Plan("command", [q \in Queued |-> [run[q] EXCEPT !.place = place[q]]], {}, FALSE)
    BY <1>7 DEF ReorderQueued
  <2> DEFINE writes == [q \in Queued |-> [run[q] EXCEPT !.place = place[q]]]
  <2>2. \A q \in DOMAIN writes : MayPlan(q, writes[q])
    BY RowValues DEF Queued, MayPlan, Reordered, Status
  <2> HIDE DEF writes
  <2>3. Plans("command")
    BY <2>1, <2>2, PlanValues DEF Plans, writes
  <2> QED
    BY <1>7, <2>3 DEF ReorderQueued
<1> QED
  BY <1>1, <1>2, <1>3, <1>5, <1>6, <1>7 DEF Command, Steer

(* An effect is claimed.                                                   *)
LEMMA ClaimStep ==
  ASSUME NEW effect \in outbox,
         ReadRun(effect) \/ ReadCaptureTarget(effect) \/ CheckContinuation(effect)
  PROVE  /\ phase = "up" /\ exec.step = "idle" /\ outbox' = outbox \ {effect}
         /\ UNCHANGED <<run, turn, known, plan, backlog, missed, phase, recovery, faults,
                        steers, restarts>>
         /\ \/ exec' = Idle
            \/ /\ exec'.step \in {"opening", "capturing", "dispatching"}
               /\ exec'.effect = effect
               /\ exec'.attempt \in {1, run[effect.run].attempt}
               /\ exec'.step = "capturing" =>
                    Status(effect.run) = "waiting" /\ exec'.attempt = run[effect.run].attempt
<1>1. \A step, a : Work(step, effect, a) =>
        exec'.step = step /\ exec'.effect = effect /\ exec'.attempt = a
  BY DEF Work
<1>2. CASE ReadRun(effect)
  BY <1>1, <1>2 DEF ReadRun, Claim, Execute, Settle, starter, server
<1>3. CASE ReadCaptureTarget(effect)
  BY <1>1, <1>3 DEF ReadCaptureTarget, Claim, Execute, Settle, starter, server
<1>4. CASE CheckContinuation(effect)
  BY <1>1, <1>4 DEF CheckContinuation, Claim, Execute, Settle, starter, server
<1> QED
  BY <1>2, <1>3, <1>4

(* The fiber of a turn takes in something that does not write its run.     *)
TurnMoves ==
  \E r \in Run, a \in Attempt :
    \/ TurnStarts(r, a) \/ TurnEnds(r, a) \/ ShouldFinalize(r, a)
    \/ StreamFails(r, a) \/ FinalWriteFails(r, a)

LEMMA TurnStep ==
  ASSUME TurnMoves
  PROVE  /\ UNCHANGED <<run, outbox, known, plan, exec, backlog, missed, phase, recovery,
                        steers, restarts>>
         /\ \E r \in Run, a \in Attempt : \E stage :
              turn[r][a] # "none" /\ stage # "none" /\ turn' = [turn EXCEPT ![r][a] = stage]
<1>1. PICK r \in Run, a \in Attempt :
        \/ TurnStarts(r, a) \/ TurnEnds(r, a) \/ ShouldFinalize(r, a)
        \/ StreamFails(r, a) \/ FinalWriteFails(r, a)
  BY DEF TurnMoves
<1>2. CASE TurnStarts(r, a)
  BY <1>2 DEF TurnStarts, Ingest, SetTurn, OnlyTurn, server
<1>3. CASE TurnEnds(r, a)
  BY <1>3 DEF TurnEnds, Ingest, SetTurn, OnlyTurn, server
<1>4. CASE ShouldFinalize(r, a)
  BY <1>4 DEF ShouldFinalize, Ingest, SetTurn, OnlyTurn, server
<1>5. CASE StreamFails(r, a)
  BY <1>5 DEF StreamFails, Ingest, SetTurn, server
<1>6. CASE FinalWriteFails(r, a)
  BY <1>6 DEF FinalWriteFails, Ingest, SetTurn, server
<1> QED
  BY <1>1, <1>2, <1>3, <1>4, <1>5, <1>6

(* The fiber writes the last row of its attempt.                           *)
LEMMA FinalStep ==
  ASSUME RowsOK, NEW r \in Run, NEW a \in Attempt, CompleteRun(r, a) \/ EndRun(r, a)
  PROVE  /\ turn[r][a] # "none" /\ turn' = [turn EXCEPT ![r][a] = "over"]
         /\ UNCHANGED <<plan, exec, missed, phase, recovery, steers, restarts>>
         /\ \E status \in {"waiting", "ended"} :
              /\ run' = [run EXCEPT ![r] = Final(r, a, status)]
              /\ status = "ended" => backlog' = backlog + 1
              /\ status = "waiting" => backlog' = backlog
         /\ outbox' = outbox \/ outbox' = outbox \cup {Effect("capture", r, 1)}
<1>1. CASE CompleteRun(r, a)
  BY <1>1 DEF CompleteRun, Ingest, SetTurn, EnqueueOnce, server
<1>2. CASE EndRun(r, a)
  BY <1>2 DEF EndRun, Ingest, SetTurn, server
<1> QED
  BY <1>1, <1>2

(* Next, by what its steps do.                                             *)
LEMMA NextStep ==
  ASSUME Next
  PROVE  \/ Command \/ Commit \/ CommitFails \/ HandleTerminal
         \/ \E effect \in outbox :
              ReadRun(effect) \/ ReadCaptureTarget(effect) \/ CheckContinuation(effect)
         \/ MarkRunning \/ CheckRun \/ StartTurn \/ CommitCapture \/ DispatchContinuation
         \/ ExecutionFails \/ ExecutionCancelled
         \/ TurnMoves \/ \E r \in Run, a \in Attempt : CompleteRun(r, a) \/ EndRun(r, a)
         \/ StopServing \/ PrepareForShutdown \/ CloseSessions \/ ReadProjection
         \/ Reconcile \/ ProcessEnds \/ ResumeQueued \/ Recover
BY DEF Next, Execution, Ingestion, IngestStep, Failure, Process, Recovery, TurnMoves

LEMMA ExecValues ==
  ASSUME WorkOK
  PROVE  /\ \A step : Goto(step) =>
              exec'.step = step /\ exec'.effect = exec.effect /\ exec'.attempt = exec.attempt
         /\ Idle.step = "idle" /\ Idle.attempt = 1
         /\ Idle.effect.type = "start" /\ Idle.effect.attempt = 1
<1>1. exec \in ExecRow
  BY DEF WorkOK
<1> QED
  BY <1>1 DEF ExecRow, Goto, Idle

(* The rows of a plan or of a recovery are laid over the others.           *)
LEMMA CommitStep ==
  ASSUME Types, Commit
  PROVE  /\ plan.by # "none" /\ plan' = NoPlan
         /\ \A r \in Run : run'[r] = IF r \in DOMAIN plan.writes THEN plan.writes[r] ELSE run[r]
         /\ outbox' \subseteq outbox \cup plan.effects
         /\ \/ exec' = Idle
            \/ exec'.step = exec.step /\ exec'.effect = exec.effect /\ exec'.attempt = exec.attempt
         /\ backlog' = IF \E r \in DOMAIN plan.writes : plan.writes[r].status \in Terminal
                       THEN backlog + 1 ELSE backlog
         /\ UNCHANGED <<turn, known, missed, phase, recovery, faults, steers, restarts>>
<1>1. \A c : /\ [exec EXCEPT !.cancelled = c].step = exec.step
             /\ [exec EXCEPT !.cancelled = c].effect = exec.effect
             /\ [exec EXCEPT !.cancelled = c].attempt = exec.attempt
  <2>1. exec \in ExecRow
    BY DEF Types, WorkOK
  <2> QED
    BY <2>1 DEF ExecRow
<1>2. \/ exec' = Idle
      \/ exec'.step = exec.step /\ exec'.effect = exec.effect /\ exec'.attempt = exec.attempt
  BY <1>1 DEF Commit
<1>3. \A r \in Run : run'[r] = IF r \in DOMAIN plan.writes THEN plan.writes[r] ELSE run[r]
  BY DEF Commit, Written
<1>4. outbox' \subseteq outbox \cup plan.effects
  BY DEF Commit
<1> QED
  BY <1>2, <1>3, <1>4 DEF Commit, Unlocked, WithTerminal, server, bounds

LEMMA TerminalStep ==
  ASSUME Types, HandleTerminal
  PROVE  /\ phase \notin {"down", "booted"} /\ plan.by = "none"
         /\ missed' = FALSE
         /\ UNCHANGED <<run, turn, outbox, known, exec, phase, recovery, faults, steers,
                        restarts>>
         /\ \/ UNCHANGED plan /\ (Busy \/ Queued = {})
            \/ \E r \in Queued :
                 /\ ~Busy /\ IsNextQueued(r)
                 /\ plan'.by = "starter" /\ DOMAIN plan'.writes = {r}
                 /\ plan'.writes[r].status = "starting"
                 /\ plan'.writes[r].attempt = run[r].attempt
                 /\ plan'.effects = {Effect("start", r, 1)}
<1>1. CASE ~(Busy \/ Queued = {})
  <2>1. PICK r \in Queued :
          IsNextQueued(r) /\ Plan("starter", One(r, Row(r, "starting")), {Effect("start", r, 1)}, FALSE)
    BY <1>1 DEF HandleTerminal
  <2> DEFINE effects == {Effect("start", r, 1)}
  <2>2. Plan("starter", One(r, Row(r, "starting")), effects, FALSE)
    BY <2>1
  <2> HIDE DEF effects
  <2>3. /\ plan'.by = "starter" /\ DOMAIN plan'.writes = {r}
        /\ plan'.writes[r] = Row(r, "starting") /\ plan'.effects = effects
    BY <2>2, PlanOneValues
  <2>4. Row(r, "starting").status = "starting" /\ Row(r, "starting").attempt = run[r].attempt
    BY RowValues DEF Types, Queued
  <2> QED
    BY <1>1, <2>1, <2>3, <2>4 DEF HandleTerminal, Alive, Unlocked, server, bounds, effects
<1>2. CASE Busy \/ Queued = {}
  BY <1>2 DEF HandleTerminal, Alive, Unlocked, server, bounds
<1> QED
  BY <1>1, <1>2

LEMMA MarkStep ==
  ASSUME Types, MarkRunning
  PROVE  /\ phase = "up" /\ exec.step = "opening"
         /\ UNCHANGED <<turn, outbox, known, plan, backlog, missed, phase, recovery, faults,
                        steers, restarts>>
         /\ \/ UNCHANGED run /\ exec' = Idle
            \/ /\ exec.effect.run \in Run /\ Status(exec.effect.run) = "starting"
               /\ run[exec.effect.run].attempt = exec.attempt
               /\ \A q \in Run \ {exec.effect.run} : run'[q] = run[q]
               /\ run'[exec.effect.run].status = "running"
               /\ run'[exec.effect.run].attempt = exec.attempt
               /\ exec'.step = "marked" /\ exec'.effect = exec.effect
               /\ exec'.attempt = exec.attempt
<1> DEFINE r == exec.effect.run
<1>1. r \in Run
  BY ExecTypes, EffectTypes DEF Types, WorkOK
<1>2. CASE MayStart(r) /\ run[r].attempt = exec.attempt
  <2>1. run' = [run EXCEPT ![r].status = "running"] /\ Goto("marked")
    BY <1>2 DEF MarkRunning
  <2>2. /\ [run[r] EXCEPT !.status = "running"].status = "running"
        /\ [run[r] EXCEPT !.status = "running"].attempt = run[r].attempt
    <3>1. run[r] \in RunRow
      BY <1>1 DEF Types, RowsOK
    <3> QED
      BY <3>1 DEF RunRow
  <2>3. run'[r].status = "running" /\ run'[r].attempt = run[r].attempt
        /\ \A q \in Run \ {r} : run'[q] = run[q]
    BY <1>1, <2>1, <2>2 DEF Types, RowsOK
  <2> QED
    BY <1>1, <1>2, <2>1, <2>3, ExecValues DEF Types, MarkRunning, Execute, MayStart, starter, server
<1>3. CASE ~(MayStart(r) /\ run[r].attempt = exec.attempt)
  BY <1>3 DEF MarkRunning, Execute, Settle, starter, server
<1> QED
  BY <1>2, <1>3

LEMMA CheckStep ==
  ASSUME Types, CheckRun
  PROVE  /\ phase = "up" /\ exec.step = "marked"
         /\ UNCHANGED <<run, turn, outbox, known, plan, backlog, missed, phase, recovery, faults,
                        steers, restarts>>
         /\ \/ exec' = Idle
            \/ exec'.step = "checked" /\ exec'.effect = exec.effect /\ exec'.attempt = exec.attempt
BY ExecValues DEF Types, CheckRun, Execute, Settle, starter, server

LEMMA StartTurnStep ==
  ASSUME Types, StartTurn
  PROVE  /\ phase = "up" /\ exec.step = "checked" /\ exec' = Idle
         /\ exec.effect.run \in Run /\ exec.attempt \in Attempt
         /\ \E stage \in {"asked", "broken"} :
              turn' = [turn EXCEPT ![exec.effect.run][exec.attempt] = stage]
         /\ outbox' \subseteq outbox \cup {exec.effect}
         /\ UNCHANGED <<run, known, plan, backlog, missed, phase, recovery, steers, restarts>>
<1>1. exec.effect.run \in Run /\ exec.attempt \in Attempt
  BY ExecTypes, EffectTypes DEF Types, WorkOK
<1> QED
  BY <1>1 DEF StartTurn, Settle, Unsettled, Executing, Fault, Fail, starter, server, bounds

LEMMA CaptureStep ==
  ASSUME Types, CommitCapture
  PROVE  /\ phase = "up" /\ exec.step = "capturing" /\ exec' = Idle
         /\ exec.effect.run \in Run /\ exec.attempt \in Attempt
         /\ run' = [run EXCEPT ![exec.effect.run] = Final(exec.effect.run, exec.attempt, "ended")]
         /\ backlog' = backlog + 1
         /\ UNCHANGED <<turn, outbox, known, plan, missed, phase, recovery, faults, steers,
                        restarts>>
<1>1. exec.effect.run \in Run /\ exec.attempt \in Attempt
  BY ExecTypes, EffectTypes DEF Types, WorkOK
<1> QED
  BY <1>1 DEF CommitCapture, Settle, Final, server, bounds

LEMMA ContinuationStep ==
  ASSUME Types, DispatchContinuation
  PROVE  /\ phase = "up" /\ exec.step = "dispatching" /\ plan.by = "none"
         /\ UNCHANGED <<run, turn, outbox, known, backlog, missed, phase, recovery, faults,
                        steers, restarts>>
         /\ \/ UNCHANGED plan /\ exec' = Idle
            \/ /\ Plans("continue") /\ exec'.step = "committing"
               /\ exec'.effect = exec.effect /\ exec'.attempt = exec.attempt
<1>1. CASE UNCHANGED plan /\ Settle
  BY <1>1 DEF DispatchContinuation, Unlocked, Settle, starter, server, bounds
<1>2. CASE /\ Goto("committing")
           /\ \E r \in Run : IsNewRun(r) /\ PlanRun("continue", r, exec.effect.run)
  <2>1. Plans("continue")
    BY <1>2, PlanRunValues DEF IsNewRun, Unused
  <2> QED
    BY <1>2, <2>1, ExecValues DEF Types, DispatchContinuation, Unlocked, starter, server, bounds
<1> QED
  BY <1>1, <1>2 DEF DispatchContinuation

(* The effect is due again, or settled as cancelled.                       *)
LEMMA EndStep ==
  ASSUME ExecutionFails \/ ExecutionCancelled
  PROVE  /\ phase = "up" /\ exec' = Idle /\ outbox' \subseteq outbox \cup {exec.effect}
         /\ UNCHANGED <<run, turn, known, plan, backlog, missed, phase, recovery, steers, restarts>>
BY DEF ExecutionFails, ExecutionCancelled, Settle, Unsettled, Executing, Fault, Fail, starter,
   server, bounds

(* A recovery cancels the rows it is going to write.                       *)
LEMMA CancellationValues ==
  ASSUME RowsOK
  PROVE  /\ DOMAIN Cancellations = Interrupted
         /\ \A r \in Interrupted :
              Cancellations[r].status = "cancelled" /\ Cancellations[r].attempt = run[r].attempt
BY RowValues DEF Cancellations, Interrupted

LEMMA FailedCommitStep ==
  ASSUME CommitFails
  PROVE  /\ plan.by # "none" /\ plan' = NoPlan
         /\ exec' = exec \/ exec' = Idle
         /\ outbox' \subseteq outbox \cup {exec.effect}
         /\ missed' = (missed \/ plan.by = "starter")
         /\ UNCHANGED <<run, turn, known, backlog, phase, recovery, steers, restarts>>
BY DEF CommitFails, Unlocked, Unsettled, Executing, Fault, Fail, server

LEMMA NoPlanValues ==
  NoPlan.by = "none" /\ DOMAIN NoPlan.writes = {} /\ NoPlan.effects = {} /\ DOMAIN NoWrites = {}
BY DEF NoPlan, NoWrites

LEMMA PlannedStatus ==
  ASSUME NEW by, Plans(by)
  PROVE  \A r \in DOMAIN plan'.writes :
           plan'.writes[r].status \in {"queued", "starting", "ended", "cancelled"}
BY DEF Plans, MayPlan, NewRun, Reordered, Stopped, Steered, Terminal

(* What is going to be written, and by whom, when the server is up or not. *)
LEMMA WritesStep == Types /\ WritesInv /\ [Next]_vars => WritesInv'
<1> SUFFICES ASSUME Types /\ WritesInv, [Next]_vars PROVE WritesInv'
  OBVIOUS
<1> USE NoPlanValues, ExecValues DEF Types, WritesInv, server
<1>1. CASE Command
  <2>1. phase = "up" /\ Plans("command") /\ UNCHANGED <<exec, phase, recovery>>
    BY <1>1, CommandStep
  <2> QED
    BY <2>1, PlannedStatus DEF Plans
<1>2. CASE Commit
  BY <1>2, CommitStep, NoPlanValues
<1>3. CASE CommitFails
  BY <1>3, FailedCommitStep, NoPlanValues
<1>4. CASE HandleTerminal
  BY <1>4, TerminalStep
<1>5. ASSUME NEW effect \in outbox, ReadRun(effect) \/ ReadCaptureTarget(effect) \/ CheckContinuation(effect)
      PROVE  WritesInv'
  BY <1>5, ClaimStep
<1>6. CASE MarkRunning
  BY <1>6, MarkStep
<1>7. CASE CheckRun
  BY <1>7, CheckStep
<1>8. CASE StartTurn
  BY <1>8, StartTurnStep
<1>9. CASE CommitCapture
  BY <1>9, CaptureStep
<1>10. CASE DispatchContinuation
  <2>1. CASE UNCHANGED plan
    BY <1>10, <2>1, ContinuationStep
  <2>2. CASE Plans("continue")
    <3>1. phase = "up" /\ UNCHANGED <<phase, recovery>>
      BY <1>10, ContinuationStep
    <3> QED
      BY <2>2, <3>1, PlannedStatus DEF Plans
  <2> QED
    BY <1>10, <2>1, <2>2, ContinuationStep
<1>11. CASE ExecutionFails \/ ExecutionCancelled
  BY <1>11, EndStep
<1>12. CASE TurnMoves
  BY <1>12, TurnStep
<1>13. ASSUME NEW r \in Run, NEW a \in Attempt, CompleteRun(r, a) \/ EndRun(r, a)
      PROVE  WritesInv'
  BY <1>13, FinalStep
<1>14. CASE StopServing
  BY <1>14 DEF StopServing
<1>15. CASE PrepareForShutdown
  BY <1>15 DEF PrepareForShutdown, bounds, starter
<1>16. CASE CloseSessions
  BY <1>16 DEF CloseSessions, bounds, starter
<1>17. CASE ReadProjection
  BY <1>17, CancellationValues DEF ReadProjection, bounds, starter
<1>18. CASE Reconcile
  BY <1>18 DEF Reconcile, bounds
<1>19. CASE ProcessEnds
  BY <1>19 DEF ProcessEnds
<1>20. CASE ResumeQueued
  BY <1>20 DEF ResumeQueued, bounds, starter
<1>21. CASE Recover
  BY <1>21, CancellationValues DEF Recover, bounds
<1>22. CASE UNCHANGED vars
  BY <1>22 DEF vars, starter, server, bounds
<1> QED BY <1>1, <1>2, <1>3, <1>4, <1>5, <1>6, <1>7, <1>8, <1>9, <1>10, <1>11, <1>12, <1>13,
   <1>14, <1>15, <1>16, <1>17, <1>18, <1>19, <1>20, <1>21, <1>22, NextStep

(* Rows enter the queue by commits only, and leave it as they are.          *)
QueueKept == \A q \in Run : run'[q].status = "queued" => run'[q] = run[q]

LEMMA OrderKept ==
  ASSUME PlanOK, OrderInv, QueueKept, UNCHANGED plan
  PROVE  OrderInv'
<1>1. ASSUME NEW r \in Run, IsNextQueued(r), r \in Queued' PROVE IsNextQueued(r)'
  <2>1. \A q \in Queued' : q \in Queued /\ run'[q] = run[q]
    BY DEF QueueKept, Queued, Status
  <2> QED
    BY <1>1, <2>1 DEF IsNextQueued, Before
<1>2. CASE plan.by = "starter"
  <2>1. PICK r \in Run : /\ DOMAIN plan.writes = {r} /\ plan.writes[r].status = "starting"
                         /\ r \in Queued => IsNextQueued(r)
    BY <1>2 DEF OrderInv
  <2>2. r \in Queued' => r \in Queued
    BY DEF QueueKept, Queued, Status
  <2> QED
    BY <1>1, <1>2, <2>1, <2>2 DEF OrderInv
<1>3. CASE plan.by # "starter"
  BY <1>3 DEF OrderInv, QueueKept, Status, PlanOK
<1> QED
  BY <1>2, <1>3

(* What the starter plans is the first of the queue.                        *)
LEMMA PlannedOrder ==
  ASSUME NEW by, Plans(by), by # "starter", QueueKept, UNCHANGED run
  PROVE  OrderInv'
BY DEF Plans, MayPlan, NewRun, Reordered, Stopped, Steered, Terminal, OrderInv, Status

(* Who holds the lock to start a queued run has the first of the queue.       *)
LEMMA OrderStep == Types /\ WritesInv /\ OrderInv /\ [Next]_vars => OrderInv'
<1> SUFFICES ASSUME Types /\ WritesInv /\ OrderInv, [Next]_vars PROVE OrderInv'
  OBVIOUS
<1> USE DEF Types
<1>1. CASE Command
  <2>1. Plans("command") /\ UNCHANGED run
    BY <1>1, CommandStep DEF Types
  <2> QED
    BY <2>1, PlannedOrder DEF QueueKept
<1>2. CASE Commit
  BY <1>2, CommitStep, NoPlanValues DEF OrderInv
<1>3. CASE CommitFails
  BY <1>3, FailedCommitStep, NoPlanValues DEF OrderInv
<1>4. CASE HandleTerminal
  <2>1. UNCHANGED run
    BY <1>4, TerminalStep
  <2>2. CASE UNCHANGED plan
    BY <2>1, <2>2, OrderKept DEF QueueKept
  <2>3. CASE ~UNCHANGED plan
    <3>1. PICK r \in Queued : /\ IsNextQueued(r) /\ plan'.by = "starter"
                              /\ DOMAIN plan'.writes = {r} /\ plan'.writes[r].status = "starting"
      BY <1>4, <2>3, TerminalStep
    <3>2. r \in Run /\ IsNextQueued(r)'
      BY <2>1, <3>1 DEF Queued, Status, IsNextQueued, Before
    <3> QED
      BY <3>1, <3>2 DEF OrderInv
  <2> QED
    BY <2>2, <2>3
<1>5. ASSUME NEW effect \in outbox, ReadRun(effect) \/ ReadCaptureTarget(effect) \/ CheckContinuation(effect)
      PROVE  OrderInv'
  <2>1. QueueKept
    BY <1>5, ClaimStep DEF QueueKept
  <2> QED
    BY <1>5, <2>1, OrderKept, ClaimStep
<1>6. CASE MarkRunning
  <2>1. QueueKept
    BY <1>6, MarkStep DEF QueueKept
  <2> QED
    BY <1>6, <2>1, OrderKept, MarkStep
<1>7. CASE CheckRun
  <2>1. QueueKept
    BY <1>7, CheckStep DEF QueueKept
  <2> QED
    BY <1>7, <2>1, OrderKept, CheckStep
<1>8. CASE StartTurn
  <2>1. QueueKept
    BY <1>8, StartTurnStep DEF QueueKept
  <2> QED
    BY <1>8, <2>1, OrderKept, StartTurnStep
<1>9. CASE CommitCapture
  <2>1. QueueKept
    BY <1>9, CaptureStep, RowValues DEF QueueKept, Types, RowsOK
  <2> QED
    BY <1>9, <2>1, CaptureStep, OrderKept
<1>10. CASE DispatchContinuation
  <2>1. UNCHANGED run
    BY <1>10, ContinuationStep
  <2>2. CASE UNCHANGED plan
    BY <2>1, <2>2, OrderKept DEF QueueKept
  <2>3. CASE Plans("continue")
    BY <2>1, <2>3, PlannedOrder DEF QueueKept
  <2> QED
    BY <1>10, <2>2, <2>3, ContinuationStep
<1>11. CASE ExecutionFails \/ ExecutionCancelled
  <2>1. QueueKept
    BY <1>11, EndStep DEF QueueKept
  <2> QED
    BY <1>11, <2>1, OrderKept, EndStep
<1>12. CASE TurnMoves
  <2>1. QueueKept
    BY <1>12, TurnStep DEF QueueKept
  <2> QED
    BY <1>12, <2>1, OrderKept, TurnStep
<1>13. ASSUME NEW r \in Run, NEW a \in Attempt, CompleteRun(r, a) \/ EndRun(r, a)
      PROVE  OrderInv'
  <2>1. QueueKept
    BY <1>13, FinalStep, RowValues DEF QueueKept, Types, RowsOK
  <2> QED
    BY <1>13, <2>1, FinalStep, OrderKept DEF Types
<1>14. CASE StopServing
  <2>1. UNCHANGED plan => OrderInv'
    BY <1>14, OrderKept DEF StopServing, QueueKept
  <2>2. plan' = NoPlan => OrderInv'
    BY NoPlanValues DEF OrderInv
  <2> QED
    BY <1>14, <2>1, <2>2 DEF StopServing
<1>15. CASE PrepareForShutdown
  BY <1>15, OrderKept DEF PrepareForShutdown, QueueKept
<1>16. CASE CloseSessions
  BY <1>16, OrderKept DEF CloseSessions, QueueKept
<1>17. CASE ReadProjection
  BY <1>17, OrderKept DEF ReadProjection, QueueKept
<1>18. CASE Reconcile
  <2>1. QueueKept
    BY <1>18 DEF Reconcile, Written, WritesInv, QueueKept, Types, ServerOK
  <2> QED
    BY <1>18, <2>1, OrderKept DEF Reconcile
<1>19. CASE ProcessEnds
  BY <1>19, NoPlanValues DEF ProcessEnds, OrderInv
<1>20. CASE ResumeQueued
  BY <1>20, NoPlanValues DEF ResumeQueued, WritesInv, OrderInv
<1>21. CASE Recover
  <2>1. QueueKept
    BY <1>21, CancellationValues DEF Recover, Written, QueueKept, Types
  <2> QED
    BY <1>21, <2>1, OrderKept DEF Recover
<1>22. CASE UNCHANGED vars
  BY <1>22, OrderKept DEF vars, starter, server, bounds, QueueKept
<1> QED BY <1>1, <1>2, <1>3, <1>4, <1>5, <1>6, <1>7, <1>8, <1>9, <1>10, <1>11, <1>12, <1>13,
   <1>14, <1>15, <1>16, <1>17, <1>18, <1>19, <1>20, <1>21, <1>22, NextStep

StartsInOrder == \A r \in Queued : run'[r].status = "starting" => IsNextQueued(r)

(* Only commits and the server's start take a run from the queue to start it.  *)
LEMMA StartsStep == Types /\ WritesInv /\ OrderInv /\ [Next]_vars => StartsInOrder
<1> SUFFICES ASSUME Types /\ WritesInv /\ OrderInv, [Next]_vars PROVE StartsInOrder
  OBVIOUS
<1> USE DEF Types
<1>1. CASE Command
  BY <1>1, CommandStep DEF StartsInOrder, Queued, Status
<1>2. CASE Commit
  <2> SUFFICES ASSUME NEW r \in Queued, run'[r].status = "starting" PROVE IsNextQueued(r)
    BY DEF StartsInOrder
  <2>1. r \in Run /\ Status(r) = "queued"
    BY DEF Queued
  <2>2. r \in DOMAIN plan.writes /\ plan.writes[r].status = "starting"
    BY <1>2, <2>1, CommitStep DEF Status
  <2> QED
    BY <2>1, <2>2 DEF OrderInv
<1>3. CASE CommitFails
  BY <1>3, FailedCommitStep, NoPlanValues DEF StartsInOrder, Queued, Status
<1>4. CASE HandleTerminal
  BY <1>4, TerminalStep DEF StartsInOrder, Queued, Status
<1>5. ASSUME NEW effect \in outbox, ReadRun(effect) \/ ReadCaptureTarget(effect) \/ CheckContinuation(effect)
      PROVE  StartsInOrder
  BY <1>5, ClaimStep DEF StartsInOrder, Queued, Status
<1>6. CASE MarkRunning
  BY <1>6, MarkStep DEF StartsInOrder, Queued, Status
<1>7. CASE CheckRun
  BY <1>7, CheckStep DEF StartsInOrder, Queued, Status
<1>8. CASE StartTurn
  BY <1>8, StartTurnStep DEF StartsInOrder, Queued, Status
<1>9. CASE CommitCapture
  BY <1>9, CaptureStep, RowValues DEF StartsInOrder, Queued, Status, RowsOK
<1>10. CASE DispatchContinuation
  BY <1>10, ContinuationStep DEF StartsInOrder, Queued, Status
<1>11. CASE ExecutionFails \/ ExecutionCancelled
  BY <1>11, EndStep DEF StartsInOrder, Queued, Status
<1>12. CASE TurnMoves
  BY <1>12, TurnStep DEF StartsInOrder, Queued, Status
<1>13. ASSUME NEW r \in Run, NEW a \in Attempt, CompleteRun(r, a) \/ EndRun(r, a)
      PROVE  StartsInOrder
  BY <1>13, FinalStep, RowValues DEF StartsInOrder, Queued, Status, RowsOK
<1>14. CASE StopServing
  BY <1>14 DEF StopServing, StartsInOrder, Queued, Status
<1>15. CASE PrepareForShutdown
  BY <1>15 DEF PrepareForShutdown, StartsInOrder, Queued, Status
<1>16. CASE CloseSessions
  BY <1>16 DEF CloseSessions, StartsInOrder, Queued, Status
<1>17. CASE ReadProjection
  BY <1>17 DEF ReadProjection, StartsInOrder, Queued, Status
<1>18. CASE Reconcile
  BY <1>18 DEF Reconcile, Written, WritesInv, StartsInOrder, Queued, Status, ServerOK
<1>19. CASE ProcessEnds
  BY <1>19 DEF ProcessEnds, StartsInOrder, Queued, Status
<1>20. CASE ResumeQueued
  <2> SUFFICES ASSUME NEW r \in Queued, run'[r].status = "starting" PROVE IsNextQueued(r)
    BY DEF StartsInOrder
  <2>1. PICK q \in Queued : IsNextQueued(q) /\ run' = [run EXCEPT ![q] = Row(q, "starting")]
    BY <1>20 DEF ResumeQueued, Queued, Status
  <2>2. r = q
    BY <2>1 DEF Queued, Status, RowsOK
  <2> QED
    BY <2>1, <2>2
<1>21. CASE Recover
  BY <1>21, CancellationValues DEF Recover, Written, StartsInOrder, Queued, Status
<1>22. CASE UNCHANGED vars
  BY <1>22 DEF vars, starter, server, bounds, StartsInOrder, Queued, Status
<1> QED BY <1>1, <1>2, <1>3, <1>4, <1>5, <1>6, <1>7, <1>8, <1>9, <1>10, <1>11, <1>12, <1>13,
   <1>14, <1>15, <1>16, <1>17, <1>18, <1>19, <1>20, <1>21, <1>22, NextStep

LEMMA QueueInit == Init => WritesInv /\ OrderInv
BY NoPlanValues, ExecValues, TypeInit DEF Init, WritesInv, OrderInv, Types

-----------------------------------------------------------------------------
(* A turn that has been asked for has not been asked for no more.            *)
TurnsStay == \A r \in Run, a \in Attempt : turn[r][a] # "none" => turn'[r][a] # "none"

(* A turn that was asked for is never forgotten: it ends, is lost or is over. *)
LEMMA TurnsStayStep == Types /\ [Next]_vars => TurnsStay
<1> SUFFICES ASSUME Types, [Next]_vars PROVE TurnsStay
  OBVIOUS
<1> USE DEF Types
<1>1. CASE Command
  BY <1>1, CommandStep DEF TurnsStay
<1>2. CASE Commit
  BY <1>2, CommitStep DEF TurnsStay
<1>3. CASE CommitFails
  BY <1>3, FailedCommitStep DEF TurnsStay
<1>4. CASE HandleTerminal
  BY <1>4, TerminalStep DEF TurnsStay
<1>5. ASSUME NEW effect \in outbox, ReadRun(effect) \/ ReadCaptureTarget(effect) \/ CheckContinuation(effect)
      PROVE  TurnsStay
  BY <1>5, ClaimStep DEF TurnsStay
<1>6. CASE MarkRunning
  BY <1>6, MarkStep DEF TurnsStay
<1>7. CASE CheckRun
  BY <1>7, CheckStep DEF TurnsStay
<1>8. CASE StartTurn
  BY <1>8, StartTurnStep DEF TurnsStay, RowsOK
<1>9. CASE CommitCapture
  BY <1>9, CaptureStep DEF TurnsStay
<1>10. CASE DispatchContinuation
  BY <1>10, ContinuationStep DEF TurnsStay
<1>11. CASE ExecutionFails \/ ExecutionCancelled
  BY <1>11, EndStep DEF TurnsStay
<1>12. CASE TurnMoves
  BY <1>12, TurnStep DEF TurnsStay, RowsOK
<1>13. ASSUME NEW r \in Run, NEW a \in Attempt, CompleteRun(r, a) \/ EndRun(r, a)
      PROVE  TurnsStay
  BY <1>13, FinalStep DEF TurnsStay, RowsOK
<1>14. CASE StopServing
  BY <1>14 DEF StopServing, TurnsStay
<1>15. CASE PrepareForShutdown
  BY <1>15 DEF PrepareForShutdown, TurnsStay
<1>16. CASE CloseSessions
  BY <1>16 DEF CloseSessions, Close, TurnsStay
<1>17. CASE ReadProjection
  BY <1>17 DEF ReadProjection, TurnsStay
<1>18. CASE Reconcile
  BY <1>18 DEF Reconcile, Retired, Retire, TurnsStay
<1>19. CASE ProcessEnds
  BY <1>19 DEF ProcessEnds, Lose, TurnsStay
<1>20. CASE ResumeQueued
  BY <1>20 DEF ResumeQueued, TurnsStay
<1>21. CASE Recover
  BY <1>21 DEF Recover, Retired, Retire, TurnsStay
<1>22. CASE UNCHANGED vars
  BY <1>22 DEF vars, starter, server, bounds, TurnsStay
<1> QED BY <1>1, <1>2, <1>3, <1>4, <1>5, <1>6, <1>7, <1>8, <1>9, <1>10, <1>11, <1>12, <1>13,
   <1>14, <1>15, <1>16, <1>17, <1>18, <1>19, <1>20, <1>21, <1>22, NextStep

(* Who waits and what is captured was so before.                             *)
CapturingKept ==
  exec'.step = "capturing" =>
    exec.step = "capturing" /\ exec'.effect = exec.effect /\ exec'.attempt = exec.attempt
WaitingKept ==
  \A r \in Run : run'[r].status = "waiting" =>
    Status(r) = "waiting" /\ run'[r].attempt = run[r].attempt

LEMMA CaptureKept ==
  ASSUME Types, CaptureInv, TurnsStay, CapturingKept, WaitingKept
  PROVE  CaptureInv'
<1>1. exec.effect.run \in Run /\ exec.attempt \in Attempt
  BY EffectTypes, ExecTypes DEF Types, WorkOK
<1>2. \A r \in Run : run[r].attempt \in Attempt
  BY RowFields DEF Types, RowsOK
<1> QED
  BY <1>1, <1>2 DEF CaptureInv, TurnsStay, CapturingKept, WaitingKept, Status

(* Captures are due for attempts that have had their turn.                   *)
LEMMA CapturesStep == Types /\ WritesInv /\ CaptureInv /\ [Next]_vars => CaptureInv'
<1> SUFFICES ASSUME Types /\ WritesInv /\ CaptureInv, [Next]_vars PROVE CaptureInv'
  OBVIOUS
<1> USE DEF Types
<1>1. CASE Command
  <2>1. CapturingKept /\ WaitingKept
    BY <1>1, CommandStep DEF CapturingKept, WaitingKept, Status
  <2> QED
    BY <2>1, TurnsStayStep, CaptureKept
<1>2. CASE Commit
  <2>1. CapturingKept /\ WaitingKept
    BY <1>2, CommitStep, ExecValues DEF CapturingKept, WaitingKept, WritesInv, Status
  <2> QED
    BY <2>1, TurnsStayStep, CaptureKept
<1>3. CASE CommitFails
  <2>1. CapturingKept /\ WaitingKept
    BY <1>3, FailedCommitStep, ExecValues DEF CapturingKept, WaitingKept, Status
  <2> QED
    BY <2>1, TurnsStayStep, CaptureKept
<1>4. CASE HandleTerminal
  <2>1. CapturingKept /\ WaitingKept
    BY <1>4, TerminalStep DEF CapturingKept, WaitingKept, Status
  <2> QED
    BY <2>1, TurnsStayStep, CaptureKept
<1>5. ASSUME NEW effect \in outbox, ReadRun(effect) \/ ReadCaptureTarget(effect) \/ CheckContinuation(effect)
      PROVE  CaptureInv'
  <2>1. effect.run \in Run
    BY EffectTypes DEF WorkOK
  <2> QED
    BY <1>5, <2>1, ClaimStep, ExecValues DEF CaptureInv, Status
<1>6. CASE MarkRunning
  <2>1. CapturingKept /\ WaitingKept
    BY <1>6, MarkStep, ExecValues DEF CapturingKept, WaitingKept, Status
  <2> QED
    BY <2>1, TurnsStayStep, CaptureKept
<1>7. CASE CheckRun
  <2>1. CapturingKept /\ WaitingKept
    BY <1>7, CheckStep, ExecValues DEF CapturingKept, WaitingKept, Status
  <2> QED
    BY <2>1, TurnsStayStep, CaptureKept
<1>8. CASE StartTurn
  <2>1. CapturingKept /\ WaitingKept
    BY <1>8, StartTurnStep, ExecValues DEF CapturingKept, WaitingKept, Status
  <2> QED
    BY <2>1, TurnsStayStep, CaptureKept
<1>9. CASE CommitCapture
  <2>1. CapturingKept /\ WaitingKept
    BY <1>9, CaptureStep, RowValues, ExecValues DEF CapturingKept, WaitingKept, Status, RowsOK
  <2> QED
    BY <2>1, TurnsStayStep, CaptureKept
<1>10. CASE DispatchContinuation
  <2>1. CapturingKept /\ WaitingKept
    BY <1>10, ContinuationStep, ExecValues DEF CapturingKept, WaitingKept, Status
  <2> QED
    BY <2>1, TurnsStayStep, CaptureKept
<1>11. CASE ExecutionFails \/ ExecutionCancelled
  <2>1. CapturingKept /\ WaitingKept
    BY <1>11, EndStep, ExecValues DEF CapturingKept, WaitingKept, Status
  <2> QED
    BY <2>1, TurnsStayStep, CaptureKept
<1>12. CASE TurnMoves
  <2>1. CapturingKept /\ WaitingKept
    BY <1>12, TurnStep DEF CapturingKept, WaitingKept, Status
  <2> QED
    BY <2>1, TurnsStayStep, CaptureKept
<1>13. ASSUME NEW r \in Run, NEW a \in Attempt, CompleteRun(r, a) \/ EndRun(r, a)
      PROVE  CaptureInv'
  <2>1. /\ turn'[r][a] # "none" /\ run'[r].attempt = a
        /\ \A q \in Run \ {r} : run'[q] = run[q] /\ turn'[q] = turn[q]
    BY <1>13, FinalStep, RowValues DEF RowsOK
  <2>2. UNCHANGED exec /\ TurnsStay
    BY <1>13, FinalStep, TurnsStayStep
  <2>3. exec.effect.run \in Run /\ exec.attempt \in Attempt
    BY EffectTypes, ExecTypes DEF WorkOK
  <2> QED
    BY <2>1, <2>2, <2>3 DEF CaptureInv, TurnsStay, Status
<1>14. CASE StopServing
  <2>1. CapturingKept /\ WaitingKept
    BY <1>14, ExecValues DEF CapturingKept, WaitingKept, StopServing, Status
  <2> QED
    BY <2>1, TurnsStayStep, CaptureKept
<1>15. CASE PrepareForShutdown
  <2>1. CapturingKept /\ WaitingKept
    BY <1>15 DEF CapturingKept, WaitingKept, PrepareForShutdown, Status
  <2> QED
    BY <2>1, TurnsStayStep, CaptureKept
<1>16. CASE CloseSessions
  <2>1. CapturingKept /\ WaitingKept
    BY <1>16 DEF CapturingKept, WaitingKept, CloseSessions, Status
  <2> QED
    BY <2>1, TurnsStayStep, CaptureKept
<1>17. CASE ReadProjection
  <2>1. CapturingKept /\ WaitingKept
    BY <1>17 DEF CapturingKept, WaitingKept, ReadProjection, Status
  <2> QED
    BY <2>1, TurnsStayStep, CaptureKept
<1>18. CASE Reconcile
  <2>1. CapturingKept /\ WaitingKept
    BY <1>18 DEF CapturingKept, WaitingKept, Reconcile, Written, WritesInv, Status
  <2> QED
    BY <2>1, TurnsStayStep, CaptureKept
<1>19. CASE ProcessEnds
  <2>1. CapturingKept /\ WaitingKept
    BY <1>19, ExecValues DEF CapturingKept, WaitingKept, ProcessEnds, Status
  <2> QED
    BY <2>1, TurnsStayStep, CaptureKept
<1>20. CASE ResumeQueued
  <2>1. CapturingKept /\ WaitingKept
    BY <1>20, RowValues DEF CapturingKept, WaitingKept, ResumeQueued, Queued, Status, RowsOK
  <2> QED
    BY <2>1, TurnsStayStep, CaptureKept
<1>21. CASE Recover
  <2>1. CapturingKept /\ WaitingKept
    BY <1>21, CancellationValues DEF CapturingKept, WaitingKept, Recover, Written, Status
  <2> QED
    BY <2>1, TurnsStayStep, CaptureKept
<1>22. CASE UNCHANGED vars
  BY <1>22 DEF vars, CaptureInv, Status
<1> QED BY <1>1, <1>2, <1>3, <1>4, <1>5, <1>6, <1>7, <1>8, <1>9, <1>10, <1>11, <1>12, <1>13,
   <1>14, <1>15, <1>16, <1>17, <1>18, <1>19, <1>20, <1>21, <1>22, NextStep

(* A run without a turn gets none, but for one that is given to the provider. *)
StaysUntouched == \A r \in Run : Untouched(r) /\ Status(r) \in Past => Untouched(r)'
StaysPast ==
  \A r \in Run : /\ Untouched(r) /\ Status(r) \in Past => Status(r)' \in Past
                 /\ Status(r)' \in {"none", "queued"} => Status(r) \in {"none", "queued"}

LEMMA QueuedKept ==
  ASSUME Types, QueuedInv, StaysUntouched, StaysPast, UNCHANGED plan \/ plan' = NoPlan
  PROVE  QueuedInv'
<1>1. \A r \in Run : Status(r)' \in {"none", "queued"} => Untouched(r)'
  BY DEF StaysUntouched, StaysPast, QueuedInv, Past
<1>2. CASE UNCHANGED plan
  <2>1. ASSUME NEW r \in DOMAIN plan.writes, plan.writes[r].status = "queued"
        PROVE  Status(r)' \in Past /\ Untouched(r)'
    BY <2>1 DEF Types, PlanOK, StaysUntouched, StaysPast, QueuedInv
  <2> QED
    BY <1>1, <1>2, <2>1 DEF QueuedInv
<1>3. CASE plan' = NoPlan
  BY <1>1, <1>3, NoPlanValues DEF QueuedInv
<1> QED
  BY <1>2, <1>3

LEMMA PlannedQueued ==
  ASSUME QueuedInv, PlanOK', NEW by, Plans(by), UNCHANGED <<run, turn>>, Giving' => UNCHANGED exec
  PROVE  QueuedInv'
<1>1. \A r : Untouched(r) => Untouched(r)'
  BY DEF Untouched, Giving
<1>2. \A r \in Run : Status(r)' \in {"none", "queued"} => Untouched(r)'
  BY <1>1 DEF QueuedInv, Status
<1>3. ASSUME NEW r \in DOMAIN plan'.writes, plan'.writes[r].status = "queued"
      PROVE  r \in Run => Status(r)' \in Past /\ Untouched(r)'
  <2>1. Status(r) \in {"none", "queued"}
    BY <1>3 DEF Plans, MayPlan, NewRun, Reordered, Stopped, Steered, Terminal
  <2> QED
    BY <1>1, <2>1 DEF QueuedInv, Past, Status
<1> QED
  BY <1>2, <1>3 DEF QueuedInv, PlanOK

(* Runs are queued before they have had a turn, and only then.               *)
LEMMA QueuedStep == Types /\ WritesInv /\ CaptureInv /\ QueuedInv /\ [Next]_vars => QueuedInv'
<1> SUFFICES ASSUME Types /\ WritesInv /\ CaptureInv /\ QueuedInv, [Next]_vars PROVE QueuedInv'
  OBVIOUS
<1> USE DEF Types
<1>1. CASE Command
  <2>1. Plans("command") /\ UNCHANGED <<run, turn, exec>>
    BY <1>1, CommandStep
  <2> QED
    BY <2>1, PlannedQueued, TypeStep
<1>2. CASE Commit
  <2>1. ASSUME NEW r \in Run, Status(r)' \in {"none", "queued"} PROVE Untouched(r)
    BY <1>2, <2>1, CommitStep DEF Status, QueuedInv, WritesInv
  <2>2. \A r \in Run : Untouched(r) => Untouched(r)'
    BY <1>2, CommitStep, ExecValues DEF Untouched, Giving
  <2> QED
    BY <1>2, <2>1, <2>2, CommitStep, NoPlanValues DEF QueuedInv
<1>3. CASE CommitFails
  <2>1. StaysUntouched
    BY <1>3, FailedCommitStep, ExecValues DEF StaysUntouched, Untouched, Giving
  <2>2. StaysPast
    BY <1>3, FailedCommitStep, ExecValues DEF StaysPast, Past, Status
  <2> QED
    BY <1>3, <2>1, <2>2, QueuedKept, FailedCommitStep
<1>4. CASE HandleTerminal
  <2>1. StaysUntouched /\ StaysPast
    BY <1>4, TerminalStep DEF StaysUntouched, StaysPast, Untouched, Giving, Status
  <2>2. CASE UNCHANGED plan
    BY <2>1, <2>2, QueuedKept
  <2>3. CASE ~UNCHANGED plan
    <3>1. \A r \in DOMAIN plan'.writes : plan'.writes[r].status # "queued"
      BY <1>4, <2>3, TerminalStep
    <3> QED
      BY <2>1, <3>1 DEF QueuedInv, StaysUntouched, StaysPast, Past
  <2> QED
    BY <2>2, <2>3
<1>5. ASSUME NEW effect \in outbox, ReadRun(effect) \/ ReadCaptureTarget(effect) \/ CheckContinuation(effect)
      PROVE  QueuedInv'
  <2>1. StaysUntouched
    BY <1>5, ClaimStep, ExecValues DEF StaysUntouched, Untouched, Giving
  <2>2. StaysPast
    BY <1>5, ClaimStep, ExecValues DEF StaysPast, Past, Status
  <2> QED
    BY <1>5, <2>1, <2>2, QueuedKept, ClaimStep
<1>6. CASE MarkRunning
  <2>1. StaysUntouched
    BY <1>6, MarkStep, ExecValues DEF StaysUntouched, Untouched, Giving, Past
  <2>2. StaysPast
    BY <1>6, MarkStep, ExecValues DEF StaysPast, Past, Status
  <2> QED
    BY <1>6, <2>1, <2>2, QueuedKept, MarkStep
<1>7. CASE CheckRun
  <2>1. StaysUntouched
    BY <1>7, CheckStep, ExecValues DEF StaysUntouched, Untouched, Giving
  <2>2. StaysPast
    BY <1>7, CheckStep, ExecValues DEF StaysPast, Past, Status
  <2> QED
    BY <1>7, <2>1, <2>2, QueuedKept, CheckStep
<1>8. CASE StartTurn
  <2>1. StaysUntouched
    BY <1>8, StartTurnStep, ExecValues DEF StaysUntouched, Untouched, Giving, RowsOK
  <2>2. StaysPast
    BY <1>8, StartTurnStep, ExecValues DEF StaysPast, Past, Status
  <2> QED
    BY <1>8, <2>1, <2>2, QueuedKept, StartTurnStep
<1>9. CASE CommitCapture
  <2>1. StaysUntouched
    BY <1>9, CaptureStep, ExecValues DEF StaysUntouched, Untouched, Giving
  <2>2. ~Untouched(exec.effect.run)
    BY <1>9, CaptureStep DEF Untouched, CaptureInv
  <2>3. StaysPast
    BY <1>9, <2>2, CaptureStep, RowValues DEF StaysPast, Past, Status, RowsOK
  <2> QED
    BY <1>9, <2>1, <2>3, QueuedKept, CaptureStep
<1>10. CASE DispatchContinuation
  <2>1. UNCHANGED <<run, turn>> /\ ~Giving'
    BY <1>10, ContinuationStep, ExecValues DEF Giving
  <2>2. CASE UNCHANGED plan
    BY <2>1, <2>2, QueuedKept DEF StaysUntouched, StaysPast, Untouched, Status
  <2>3. CASE Plans("continue")
    BY <2>1, <2>3, PlannedQueued, TypeStep
  <2> QED
    BY <1>10, <2>2, <2>3, ContinuationStep
<1>11. CASE ExecutionFails \/ ExecutionCancelled
  <2>1. StaysUntouched
    BY <1>11, EndStep, ExecValues DEF StaysUntouched, Untouched, Giving
  <2>2. StaysPast
    BY <1>11, EndStep, ExecValues DEF StaysPast, Past, Status
  <2> QED
    BY <1>11, <2>1, <2>2, QueuedKept, EndStep
<1>12. CASE TurnMoves
  <2>1. StaysUntouched
    BY <1>12, TurnStep DEF StaysUntouched, Untouched, Giving, RowsOK
  <2>2. StaysPast
    BY <1>12, TurnStep DEF StaysPast, Past, Status
  <2> QED
    BY <1>12, <2>1, <2>2, QueuedKept, TurnStep
<1>13. ASSUME NEW r \in Run, NEW a \in Attempt, CompleteRun(r, a) \/ EndRun(r, a)
      PROVE  QueuedInv'
  <2>1. StaysUntouched
    BY <1>13, FinalStep DEF StaysUntouched, Untouched, Giving, RowsOK
  <2>2. ~Untouched(r)
    BY <1>13, FinalStep DEF Untouched
  <2>3. StaysPast
    BY <1>13, <2>2, FinalStep, RowValues DEF StaysPast, Past, Status, RowsOK
  <2> QED
    BY <1>13, <2>1, <2>3, QueuedKept, FinalStep
<1>14. CASE StopServing
  <2>1. StaysUntouched
    BY <1>14, ExecValues DEF StaysUntouched, Untouched, Giving, StopServing
  <2>2. StaysPast
    BY <1>14, ExecValues DEF StaysPast, Past, Status, StopServing
  <2> QED
    BY <1>14, <2>1, <2>2, QueuedKept DEF StopServing
<1>15. CASE PrepareForShutdown
  <2>1. StaysUntouched
    BY <1>15 DEF StaysUntouched, Untouched, Giving, PrepareForShutdown
  <2>2. StaysPast
    BY <1>15 DEF StaysPast, Past, Status, PrepareForShutdown
  <2> QED
    BY <1>15, <2>1, <2>2, QueuedKept DEF PrepareForShutdown
<1>16. CASE CloseSessions
  <2>1. StaysUntouched
    BY <1>16 DEF StaysUntouched, Untouched, Giving, CloseSessions, Close
  <2>2. StaysPast
    BY <1>16 DEF StaysPast, Past, Status, CloseSessions
  <2> QED
    BY <1>16, <2>1, <2>2, QueuedKept DEF CloseSessions
<1>17. CASE ReadProjection
  <2>1. StaysUntouched
    BY <1>17 DEF StaysUntouched, Untouched, Giving, ReadProjection
  <2>2. StaysPast
    BY <1>17 DEF StaysPast, Past, Status, ReadProjection
  <2> QED
    BY <1>17, <2>1, <2>2, QueuedKept DEF ReadProjection
<1>18. CASE Reconcile
  <2>1. StaysUntouched
    BY <1>18 DEF StaysUntouched, Untouched, Giving, Reconcile, Retired, Retire
  <2>2. StaysPast
    BY <1>18 DEF StaysPast, Past, Status, Reconcile, Written, WritesInv, ServerOK
  <2> QED
    BY <1>18, <2>1, <2>2, QueuedKept DEF Reconcile
<1>19. CASE ProcessEnds
  <2>1. StaysUntouched
    BY <1>19, ExecValues DEF StaysUntouched, Untouched, Giving, ProcessEnds, Lose
  <2>2. StaysPast
    BY <1>19, ExecValues DEF StaysPast, Past, Status, ProcessEnds
  <2> QED
    BY <1>19, <2>1, <2>2, QueuedKept DEF ProcessEnds
<1>20. CASE ResumeQueued
  <2>1. \A r \in Run : Status(r)' \in {"none", "queued"} => Status(r) \in {"none", "queued"}
    BY <1>20, RowValues DEF ResumeQueued, Queued, Status, RowsOK
  <2>2. \A r \in Run : Untouched(r) => Untouched(r)'
    BY <1>20 DEF ResumeQueued, Untouched, Giving
  <2>3. plan' = NoPlan
    BY <1>20 DEF ResumeQueued, WritesInv
  <2> QED
    BY <2>1, <2>2, <2>3, NoPlanValues DEF QueuedInv
<1>21. CASE Recover
  <2>1. StaysUntouched
    BY <1>21, CancellationValues DEF StaysUntouched, Untouched, Giving, Recover, Retired, Retire
  <2>2. StaysPast
    BY <1>21, CancellationValues DEF StaysPast, Past, Status, Recover, Written
  <2> QED
    BY <1>21, <2>1, <2>2, QueuedKept DEF Recover
<1>22. CASE UNCHANGED vars
  BY <1>22 DEF vars, starter, server, bounds, QueuedInv, Untouched, Giving, Status
<1> QED BY <1>1, <1>2, <1>3, <1>4, <1>5, <1>6, <1>7, <1>8, <1>9, <1>10, <1>11, <1>12, <1>13,
   <1>14, <1>15, <1>16, <1>17, <1>18, <1>19, <1>20, <1>21, <1>22, NextStep

-----------------------------------------------------------------------------
(* A reason to start a queued run is kept until there is another one.        *)
LEMMA WokenKept ==
  ASSUME WokenInv, phase' = phase, plan' = plan, Queued' \subseteq Queued, Woken => Woken'
  PROVE  WokenInv'
BY DEF WokenInv

LEMMA PlannedWoken ==
  ASSUME WokenInv, PlanOK', NEW by, by # "starter", Plans(by), plan.by = "none",
         UNCHANGED <<run, backlog, missed, phase>>
  PROVE  WokenInv'
<1>1. (Woken <=> Woken') /\ Queued' = Queued
  BY DEF Woken, Busy, Queued, Status
<1>2. phase = "up" /\ Queued # {} => Woken
  BY DEF WokenInv
<1>3. ASSUME NEW r \in DOMAIN plan'.writes, plan'.writes[r].status = "queued", phase = "up"
      PROVE  Woken
  <2>1. Busy \/ Status(r) = "queued"
    BY <1>3 DEF Plans, MayPlan, NewRun, Reordered, Stopped, Steered, Terminal
  <2>2. r \in Run
    BY DEF PlanOK
  <2> QED
    BY <1>2, <1>3, <2>1, <2>2 DEF Woken, Queued
<1> QED
  BY <1>1, <1>2, <1>3 DEF WokenInv, Plans

(* Whoever leaves a run in the queue leaves a reason to start it.            *)
LEMMA WokenStep == Types /\ WritesInv /\ QueuedInv /\ OrderInv /\ WokenInv /\ [Next]_vars => WokenInv'
<1> SUFFICES ASSUME Types /\ WritesInv /\ QueuedInv /\ OrderInv /\ WokenInv, [Next]_vars PROVE WokenInv'
  OBVIOUS
<1> USE DEF Types
<1>1. CASE Command
  <2>1. Plans("command") /\ plan.by = "none" /\ UNCHANGED <<run, backlog, missed, phase>>
    BY <1>1, CommandStep
  <2> QED
    BY <2>1, PlannedWoken, TypeStep
<1>2. CASE Commit
  <2> SUFFICES ASSUME phase' = "up", Queued' # {} PROVE Woken'
    BY <1>2, CommitStep, NoPlanValues DEF WokenInv
  <2>1. phase = "up"
    BY <1>2, CommitStep
  <2>2. ASSUME NEW r \in DOMAIN plan.writes, plan.writes[r].status \in {"ended", "cancelled"}
        PROVE  Woken'
    BY <1>2, <2>2, CommitStep DEF Terminal, Woken, ServerOK
  <2>3. ASSUME NEW r \in DOMAIN plan.writes, plan.writes[r].status = "starting"
        PROVE  Woken'
    BY <1>2, <2>3, CommitStep DEF Woken, Busy, Blocking, Status, PlanOK
  <2>4. CASE \A r \in DOMAIN plan.writes : plan.writes[r].status = "queued"
    <3>1. \A r \in Run : Status(r) \in Blocking => Status(r)' \in Blocking
      BY <1>2, <2>4, CommitStep DEF QueuedInv, Past, Blocking, Status
    <3>2. Woken => Woken'
      BY <1>2, <3>1, CommitStep DEF Woken, Busy, ServerOK
    <3>3. plan.by # "starter"
      BY <2>4 DEF OrderInv
    <3>4. CASE \E r \in DOMAIN plan.writes : TRUE
      BY <2>1, <2>4, <3>2, <3>4 DEF WokenInv
    <3>5. CASE ~\E r \in DOMAIN plan.writes : TRUE
      <4>1. Queued' = Queued
        BY <1>2, <3>5, CommitStep DEF Queued, Status
      <4> QED
        BY <2>1, <3>2, <3>3, <4>1 DEF WokenInv
    <3> QED
      BY <3>4, <3>5
  <2> QED
    BY <2>2, <2>3, <2>4 DEF WritesInv
<1>3. CASE CommitFails
  <2>1. plan' = NoPlan /\ UNCHANGED <<run, backlog, phase>> /\ missed' = (missed \/ plan.by = "starter")
    BY <1>3, FailedCommitStep
  <2>2. CASE plan.by = "starter"
    BY <2>1, <2>2, NoPlanValues DEF WokenInv, Woken
  <2>3. CASE plan.by # "starter"
    BY <2>1, <2>3, NoPlanValues DEF WokenInv, Queued, Woken, Busy, Status
  <2> QED
    BY <2>2, <2>3
<1>4. CASE HandleTerminal
  <2>1. UNCHANGED <<run, phase>> /\ plan = NoPlan
    BY <1>4, TerminalStep DEF WritesInv
  <2>2. CASE UNCHANGED plan
    <3>1. Busy' \/ Queued' = {}
      BY <1>4, <2>1, <2>2, TerminalStep, NoPlanValues DEF Busy, Queued, Status
    <3> QED
      BY <2>1, <2>2, <3>1, NoPlanValues DEF WokenInv, Woken
  <2>3. CASE ~UNCHANGED plan
    <3>1. plan'.by = "starter" /\ \A r \in DOMAIN plan'.writes : plan'.writes[r].status # "queued"
      BY <1>4, <2>3, TerminalStep
    <3> QED
      BY <3>1 DEF WokenInv
  <2> QED
    BY <2>2, <2>3
<1>5. ASSUME NEW effect \in outbox, ReadRun(effect) \/ ReadCaptureTarget(effect) \/ CheckContinuation(effect)
      PROVE  WokenInv'
  <2>1. Queued' = Queued /\ (Woken => Woken')
    BY <1>5, ClaimStep DEF Queued, Woken, Busy, Status
  <2>2. plan' = plan /\ phase' = phase
    BY <1>5, ClaimStep
  <2> QED
    BY <2>1, <2>2, WokenKept
<1>6. CASE MarkRunning
  <2>1. Queued' \subseteq Queued
    BY <1>6, MarkStep, RowValues DEF Queued, Status, RowsOK
  <2>2. Woken => Woken'
    BY <1>6, MarkStep, RowValues DEF Woken, Busy, Status, Blocking, RowsOK, ServerOK
  <2>3. plan' = plan /\ phase' = phase
    BY <1>6, MarkStep
  <2> QED
    BY <2>1, <2>2, <2>3, WokenKept
<1>7. CASE CheckRun
  <2>1. Queued' = Queued /\ (Woken => Woken')
    BY <1>7, CheckStep DEF Queued, Woken, Busy, Status
  <2>2. plan' = plan /\ phase' = phase
    BY <1>7, CheckStep
  <2> QED
    BY <2>1, <2>2, WokenKept
<1>8. CASE StartTurn
  <2>1. Queued' = Queued /\ (Woken => Woken')
    BY <1>8, StartTurnStep DEF Queued, Woken, Busy, Status
  <2>2. plan' = plan /\ phase' = phase
    BY <1>8, StartTurnStep
  <2> QED
    BY <2>1, <2>2, WokenKept
<1>9. CASE CommitCapture
  <2>1. Queued' \subseteq Queued
    BY <1>9, CaptureStep, RowValues DEF Queued, Status, RowsOK
  <2>2. Woken => Woken'
    BY <1>9, CaptureStep, RowValues DEF Woken, Busy, Status, Blocking, RowsOK, ServerOK
  <2>3. plan' = plan /\ phase' = phase
    BY <1>9, CaptureStep
  <2> QED
    BY <2>1, <2>2, <2>3, WokenKept
<1>10. CASE DispatchContinuation
  <2>1. plan.by = "none" /\ UNCHANGED <<run, backlog, missed, phase>>
    BY <1>10, ContinuationStep
  <2>2. CASE UNCHANGED plan
    BY <2>1, <2>2, WokenKept DEF Queued, Woken, Busy, Status
  <2>3. CASE Plans("continue")
    BY <2>1, <2>3, PlannedWoken, TypeStep
  <2> QED
    BY <1>10, <2>2, <2>3, ContinuationStep
<1>11. CASE ExecutionFails \/ ExecutionCancelled
  <2>1. Queued' = Queued /\ (Woken => Woken')
    BY <1>11, EndStep DEF Queued, Woken, Busy, Status
  <2>2. plan' = plan /\ phase' = phase
    BY <1>11, EndStep
  <2> QED
    BY <2>1, <2>2, WokenKept
<1>12. CASE TurnMoves
  <2>1. Queued' = Queued /\ (Woken => Woken')
    BY <1>12, TurnStep DEF Queued, Woken, Busy, Status
  <2>2. plan' = plan /\ phase' = phase
    BY <1>12, TurnStep
  <2> QED
    BY <2>1, <2>2, WokenKept
<1>13. ASSUME NEW r \in Run, NEW a \in Attempt, CompleteRun(r, a) \/ EndRun(r, a)
      PROVE  WokenInv'
  <2>1. Queued' \subseteq Queued
    BY <1>13, FinalStep, RowValues DEF Queued, Status, RowsOK
  <2>2. Woken => Woken'
    BY <1>13, FinalStep, RowValues DEF Woken, Busy, Status, Blocking, RowsOK, ServerOK
  <2>3. plan' = plan /\ phase' = phase
    BY <1>13, FinalStep
  <2> QED
    BY <2>1, <2>2, <2>3, WokenKept
<1>14. CASE StopServing
  BY <1>14 DEF StopServing, WokenInv
<1>15. CASE PrepareForShutdown
  BY <1>15 DEF PrepareForShutdown, WokenInv
<1>16. CASE CloseSessions
  BY <1>16 DEF CloseSessions, WokenInv
<1>17. CASE ReadProjection
  BY <1>17 DEF ReadProjection, WokenInv
<1>18. CASE Reconcile
  BY <1>18 DEF Reconcile, WokenInv
<1>19. CASE ProcessEnds
  BY <1>19 DEF ProcessEnds, WokenInv
<1>20. CASE ResumeQueued
  BY <1>20 DEF ResumeQueued, WokenInv
<1>21. CASE Recover
  <2>1. plan' = NoPlan
    BY <1>21 DEF Recover, WritesInv
  <2>2. Queued' = {}
    BY <1>21, CancellationValues DEF Recover, Written, Interrupted, Captured, Queued, Status
  <2> QED
    BY <2>1, <2>2, NoPlanValues DEF WokenInv
<1>22. CASE UNCHANGED vars
  BY <1>22 DEF vars, starter, server, bounds, WokenInv, Woken, Busy, Queued, Status
<1> QED BY <1>1, <1>2, <1>3, <1>4, <1>5, <1>6, <1>7, <1>8, <1>9, <1>10, <1>11, <1>12, <1>13,
   <1>14, <1>15, <1>16, <1>17, <1>18, <1>19, <1>20, <1>21, <1>22, NextStep

LEMMA WokenInit == Init => CaptureInv /\ QueuedInv /\ WokenInv
BY NoPlanValues, ExecValues, TypeInit
   DEF Init, Types, CaptureInv, QueuedInv, WokenInv, Queued, Status, Untouched, Giving

-----------------------------------------------------------------------------
LEMMA PlannedAttempts ==
  ASSUME RowsOK, BoundsOK, RowAttempts, PlanOK', NEW by, Plans(by), UNCHANGED run,
         steers' \in {steers, steers + 1}
  PROVE  PlanAttempts'
<1>1. \A r \in Run : run[r].attempt \in Nat /\ run[r].attempt <= steers + 1
  BY RowFields, Ranges DEF RowsOK, RowAttempts
<1>2. steers \in Nat
  BY ThreadAssumption DEF BoundsOK
<1>3. ASSUME NEW r \in DOMAIN plan'.writes PROVE plan'.writes[r].attempt <= steers' + 1
  <2>1. r \in Run
    BY DEF PlanOK
  <2>2. \/ plan'.writes[r].attempt = 1 \/ plan'.writes[r].attempt = run[r].attempt
        \/ (plan'.writes[r].attempt = steers + 2 /\ steers' = steers + 1)
    BY DEF Plans, MayPlan, NewRun, Reordered, Stopped, Steered
  <2> QED
    BY <1>1, <1>2, <2>1, <2>2
<1>4. ASSUME NEW effect \in plan'.effects PROVE effect.attempt <= steers' + 1
  <2>1. effect.run \in Run
    BY EffectTypes DEF PlanOK
  <2>2. effect.attempt = 1 \/ effect.attempt = run[effect.run].attempt
    BY DEF Plans, MayAsk
  <2> QED
    BY <1>1, <1>2, <2>1, <2>2
<1> QED
  BY <1>3, <1>4 DEF PlanAttempts

LEMMA Grows ==
  /\ \A s, t, a \in Nat : s <= t /\ a <= s + 1 => a <= t + 1
  /\ \A t \in Nat : 1 <= t + 1
OBVIOUS

(* What is left alone, or taken over, keeps attempts that were made.         *)
LEMMA AttemptsKept ==
  ASSUME Types, AttemptsInv, steers' \in {steers, steers + 1}
  PROVE  /\ \A a \in Nat : a <= steers + 1 => a <= steers' + 1
         /\ UNCHANGED run => RowAttempts'
         /\ UNCHANGED turn => TurnAttempts'
         /\ (\/ exec' = exec \/ exec' = Idle
             \/ exec'.effect = exec.effect /\ exec'.attempt = exec.attempt)
              /\ outbox' \subseteq outbox \cup {exec.effect} \cup plan.effects => WorkAttempts'
         /\ plan' \in {plan, NoPlan} => PlanAttempts'
         /\ recovery' \in {recovery, NoWrites} => RecoveryAttempts'
<1>1. steers \in Nat /\ steers' \in Nat /\ steers <= steers'
  BY ThreadAssumption DEF Types, BoundsOK
<1>2. \A a \in Nat : a <= steers + 1 => a <= steers' + 1
  BY <1>1, Grows
<1>3. \A a \in Attempt : a \in Nat
  BY Ranges
<1>4. ASSUME UNCHANGED run PROVE RowAttempts'
  <2>1. \A r \in Run : run[r].attempt \in Nat
    BY <1>3, RowFields DEF Types, RowsOK
  <2> QED
    BY <1>2, <1>4, <2>1 DEF AttemptsInv, RowAttempts, Status
<1>5. ASSUME UNCHANGED turn PROVE TurnAttempts'
  BY <1>2, <1>3, <1>5 DEF AttemptsInv, TurnAttempts
<1>6. ASSUME \/ exec' = exec \/ exec' = Idle
             \/ exec'.effect = exec.effect /\ exec'.attempt = exec.attempt,
             outbox' \subseteq outbox \cup {exec.effect} \cup plan.effects
      PROVE  WorkAttempts'
  <2>1. \A effect \in outbox \cup {exec.effect} \cup plan.effects :
          effect.attempt \in Nat /\ effect.attempt <= steers + 1
    BY <1>3, EffectTypes, ExecTypes
       DEF Types, WorkOK, PlanOK, AttemptsInv, WorkAttempts, PlanAttempts
  <2>2. exec.attempt \in Nat /\ exec.attempt <= steers + 1
    BY <1>3, ExecTypes DEF Types, WorkOK, AttemptsInv, WorkAttempts
  <2>3. 1 <= steers' + 1
    BY <1>1, Grows
  <2>4. exec'.attempt <= steers' + 1 /\ exec'.effect.attempt <= steers' + 1
    BY <1>2, <1>6, <2>1, <2>2, <2>3, ExecValues DEF Types
  <2> QED
    BY <1>2, <1>6, <2>1, <2>4 DEF WorkAttempts
<1>7. ASSUME plan' \in {plan, NoPlan} PROVE PlanAttempts'
  <2>1. /\ \A r \in DOMAIN plan.writes : plan.writes[r].attempt \in Nat
        /\ \A effect \in plan.effects : effect.attempt \in Nat
    BY <1>3, RowFields, EffectTypes DEF Types, PlanOK
  <2>2. CASE plan' = plan
    BY <1>2, <2>1, <2>2 DEF AttemptsInv, PlanAttempts
  <2>3. CASE plan' = NoPlan
    BY <2>3, NoPlanValues DEF PlanAttempts
  <2> QED
    BY <1>7, <2>2, <2>3
<1>8. ASSUME recovery' \in {recovery, NoWrites} PROVE RecoveryAttempts'
  <2>1. \A r \in DOMAIN recovery : recovery[r].attempt \in Nat
    BY <1>3, RowFields DEF Types, ServerOK
  <2>2. CASE recovery' = recovery
    BY <1>2, <2>1, <2>2 DEF AttemptsInv, RecoveryAttempts
  <2>3. CASE recovery' = NoWrites
    BY <2>3, NoPlanValues DEF RecoveryAttempts
  <2> QED
    BY <1>8, <2>2, <2>3
<1> QED
  BY <1>2, <1>4, <1>5, <1>6, <1>7, <1>8

(* Rows that are written with an attempt of theirs.                          *)
LEMMA RowsKept ==
  ASSUME AttemptsInv, steers' = steers,
         \A r \in Run : run'[r] = run[r] \/
            (run'[r].attempt <= steers + 1 /\ run'[r].status # "none")
  PROVE  RowAttempts'
BY DEF AttemptsInv, RowAttempts, Status

LEMMA TurnsKept ==
  ASSUME AttemptsInv, UNCHANGED steers,
         \A r \in Run, a \in Attempt : turn'[r][a] # "none" => turn[r][a] # "none" \/ a <= steers + 1
  PROVE  TurnAttempts'
BY DEF AttemptsInv, TurnAttempts

(* No row, turn, plan or effect names an attempt that was not made.          *)
LEMMA AttemptsStep == Types /\ WritesInv /\ AttemptsInv /\ [Next]_vars => AttemptsInv'
<1> SUFFICES ASSUME Types /\ WritesInv /\ AttemptsInv, [Next]_vars PROVE AttemptsInv'
  OBVIOUS
<1> USE DEF Types
<1>1. CASE Command
  <2>1. /\ UNCHANGED <<run, turn, exec, outbox, recovery>> /\ Plans("command")
        /\ steers' \in {steers, steers + 1}
    BY <1>1, CommandStep
  <2>2. PlanAttempts'
    BY <2>1, PlannedAttempts, TypeStep DEF AttemptsInv
  <2> QED
    BY <2>1, <2>2, AttemptsKept DEF AttemptsInv
<1>2. CASE Commit
  <2>1. /\ UNCHANGED <<turn, steers>>
        /\ plan' \in {plan, NoPlan}
        /\ recovery' \in {recovery, NoWrites}
        /\ exec' = exec \/ exec' = Idle \/ (exec'.effect = exec.effect /\ exec'.attempt = exec.attempt)
        /\ outbox' \subseteq outbox \cup {exec.effect} \cup plan.effects
    BY <1>2, CommitStep
  <2>2. RowAttempts'
    <3>1. \A r \in DOMAIN plan.writes : plan.writes[r].status # "none"
      BY DEF WritesInv
    <3>9. steers' = steers
      BY <1>2, CommitStep
    <3>2. \A r \in Run : run'[r] = run[r] \/
            (run'[r].attempt <= steers + 1 /\ run'[r].status # "none")
      BY <1>2, <3>1, CommitStep DEF AttemptsInv, PlanAttempts
    <3> QED
      BY <3>2, <3>9, RowsKept
  <2> QED
    BY <2>2, <2>1, AttemptsKept DEF AttemptsInv
<1>3. CASE CommitFails
  <2>1. /\ UNCHANGED <<run, turn, steers>>
        /\ plan' \in {plan, NoPlan}
        /\ recovery' \in {recovery, NoWrites}
        /\ exec' = exec \/ exec' = Idle \/ (exec'.effect = exec.effect /\ exec'.attempt = exec.attempt)
        /\ outbox' \subseteq outbox \cup {exec.effect} \cup plan.effects
    BY <1>3, FailedCommitStep
  <2> QED
    BY <2>1, AttemptsKept DEF AttemptsInv
<1>4. CASE HandleTerminal
  <2>1. /\ UNCHANGED <<run, turn, steers, exec, outbox, recovery>>
    BY <1>4, TerminalStep
  <2>2. PlanAttempts'
    <3>1. CASE UNCHANGED plan
      BY <2>1, <3>1, AttemptsKept
    <3>2. CASE ~UNCHANGED plan
      <4>1. PICK r \in Queued :
              /\ DOMAIN plan'.writes = {r} /\ plan'.writes[r].attempt = run[r].attempt
              /\ plan'.effects = {Effect("start", r, 1)}
        BY <1>4, <3>2, TerminalStep
      <4>2. run[r].attempt <= steers + 1 /\ 1 <= steers + 1
        BY ThreadAssumption DEF Queued, AttemptsInv, RowAttempts, BoundsOK
      <4> QED
        BY <2>1, <4>1, <4>2, EffectValues DEF PlanAttempts
    <3> QED
      BY <3>1, <3>2
  <2> QED
    BY <2>1, <2>2, AttemptsKept DEF AttemptsInv
<1>5. ASSUME NEW effect \in outbox, ReadRun(effect) \/ ReadCaptureTarget(effect) \/ CheckContinuation(effect)
      PROVE  AttemptsInv'
  <2>1. /\ UNCHANGED <<run, turn, steers>>
        /\ plan' \in {plan, NoPlan}
        /\ recovery' \in {recovery, NoWrites}
    BY <1>5, ClaimStep
  <2>4. WorkAttempts'
    <3>1. 1 <= steers + 1 /\ run[effect.run].attempt <= steers + 1 /\ effect.attempt <= steers + 1
      <4>1. effect.run \in Run
        BY EffectTypes DEF WorkOK
      <4> QED
        BY <4>1, ThreadAssumption DEF AttemptsInv, RowAttempts, WorkAttempts, BoundsOK
    <3> QED
      BY <1>5, <3>1, ClaimStep, ExecValues DEF AttemptsInv, WorkAttempts
  <2> QED
    BY <2>4, <2>1, AttemptsKept DEF AttemptsInv
<1>6. CASE MarkRunning
  <2>1. /\ UNCHANGED <<turn, steers>>
        /\ plan' \in {plan, NoPlan}
        /\ recovery' \in {recovery, NoWrites}
        /\ exec' = exec \/ exec' = Idle \/ (exec'.effect = exec.effect /\ exec'.attempt = exec.attempt)
        /\ outbox' \subseteq outbox \cup {exec.effect} \cup plan.effects
    BY <1>6, MarkStep
  <2>2. RowAttempts'
    <3>1. \A r \in Run : run'[r] = run[r] \/
            (run'[r].attempt <= steers + 1 /\ run'[r].status # "none")
      BY <1>6, MarkStep DEF AttemptsInv, WorkAttempts
    <3>9. steers' = steers
      BY <1>6, MarkStep
    <3> QED
      BY <3>1, <3>9, RowsKept
  <2> QED
    BY <2>2, <2>1, AttemptsKept DEF AttemptsInv
<1>7. CASE CheckRun
  <2>1. /\ UNCHANGED <<run, turn, steers>>
        /\ plan' \in {plan, NoPlan}
        /\ recovery' \in {recovery, NoWrites}
        /\ exec' = exec \/ exec' = Idle \/ (exec'.effect = exec.effect /\ exec'.attempt = exec.attempt)
        /\ outbox' \subseteq outbox \cup {exec.effect} \cup plan.effects
    BY <1>7, CheckStep
  <2> QED
    BY <2>1, AttemptsKept DEF AttemptsInv
<1>8. CASE StartTurn
  <2>1. /\ UNCHANGED <<run, steers>>
        /\ plan' \in {plan, NoPlan}
        /\ recovery' \in {recovery, NoWrites}
        /\ exec' = exec \/ exec' = Idle \/ (exec'.effect = exec.effect /\ exec'.attempt = exec.attempt)
        /\ outbox' \subseteq outbox \cup {exec.effect} \cup plan.effects
    BY <1>8, StartTurnStep
  <2>3. TurnAttempts'
    <3>1. exec.attempt <= steers + 1
      BY DEF AttemptsInv, WorkAttempts
    <3>2. \A r \in Run, a \in Attempt : turn'[r][a] # "none" => turn[r][a] # "none" \/ a <= steers + 1
      BY <1>8, <3>1, StartTurnStep DEF RowsOK
    <3> QED
      BY <1>8, <3>2, StartTurnStep, TurnsKept
  <2> QED
    BY <2>3, <2>1, AttemptsKept DEF AttemptsInv
<1>9. CASE CommitCapture
  <2>1. /\ UNCHANGED <<turn, steers>>
        /\ plan' \in {plan, NoPlan}
        /\ recovery' \in {recovery, NoWrites}
        /\ exec' = exec \/ exec' = Idle \/ (exec'.effect = exec.effect /\ exec'.attempt = exec.attempt)
        /\ outbox' \subseteq outbox \cup {exec.effect} \cup plan.effects
    BY <1>9, CaptureStep
  <2>2. RowAttempts'
    <3>1. exec.attempt <= steers + 1
      BY DEF AttemptsInv, WorkAttempts
    <3>2. \A r \in Run : run'[r] = run[r] \/
            (run'[r].attempt <= steers + 1 /\ run'[r].status # "none")
      BY <1>9, <3>1, CaptureStep, RowValues DEF RowsOK
    <3>9. steers' = steers
      BY <1>9, CaptureStep
    <3> QED
      BY <3>2, <3>9, RowsKept
  <2> QED
    BY <2>2, <2>1, AttemptsKept DEF AttemptsInv
<1>10. CASE DispatchContinuation
  <2>1. /\ UNCHANGED <<run, turn, outbox, recovery, steers>>
        /\ exec' = Idle \/ (exec'.effect = exec.effect /\ exec'.attempt = exec.attempt)
    BY <1>10, ContinuationStep
  <2>2. PlanAttempts'
    <3>1. CASE UNCHANGED plan
      BY <2>1, <3>1, AttemptsKept
    <3>2. CASE Plans("continue")
      BY <2>1, <3>2, PlannedAttempts, TypeStep DEF AttemptsInv
    <3> QED
      BY <1>10, <3>1, <3>2, ContinuationStep
  <2> QED
    BY <2>1, <2>2, AttemptsKept DEF AttemptsInv
<1>11. CASE ExecutionFails \/ ExecutionCancelled
  <2>1. /\ UNCHANGED <<run, turn, steers>>
        /\ plan' \in {plan, NoPlan}
        /\ recovery' \in {recovery, NoWrites}
        /\ exec' = exec \/ exec' = Idle \/ (exec'.effect = exec.effect /\ exec'.attempt = exec.attempt)
        /\ outbox' \subseteq outbox \cup {exec.effect} \cup plan.effects
    BY <1>11, EndStep
  <2> QED
    BY <2>1, AttemptsKept DEF AttemptsInv
<1>12. CASE TurnMoves
  <2>1. /\ UNCHANGED <<run, steers>>
        /\ plan' \in {plan, NoPlan}
        /\ recovery' \in {recovery, NoWrites}
        /\ exec' = exec \/ exec' = Idle \/ (exec'.effect = exec.effect /\ exec'.attempt = exec.attempt)
        /\ outbox' \subseteq outbox \cup {exec.effect} \cup plan.effects
    BY <1>12, TurnStep
  <2>3. TurnAttempts'
    <3>1. \A r \in Run, a \in Attempt : turn'[r][a] # "none" => turn[r][a] # "none"
      BY <1>12, TurnStep DEF RowsOK
    <3> QED
      BY <1>12, <3>1, TurnStep, TurnsKept
  <2> QED
    BY <2>3, <2>1, AttemptsKept DEF AttemptsInv
<1>13. ASSUME NEW r \in Run, NEW a \in Attempt, CompleteRun(r, a) \/ EndRun(r, a)
      PROVE  AttemptsInv'
  <2>1. /\ UNCHANGED <<steers>>
        /\ plan' \in {plan, NoPlan}
        /\ recovery' \in {recovery, NoWrites}
    BY <1>13, FinalStep
  <2>2. RowAttempts'
    <3>1. \A q \in Run : run'[q] = run[q] \/
            (run'[q].attempt <= steers + 1 /\ run'[q].status # "none")
      BY <1>13, FinalStep, RowValues DEF RowsOK, AttemptsInv, TurnAttempts
    <3>9. steers' = steers
      BY <1>13, FinalStep
    <3> QED
      BY <3>1, <3>9, RowsKept
  <2>3. TurnAttempts'
    <3>1. \A q \in Run, b \in Attempt : turn'[q][b] # "none" => turn[q][b] # "none"
      BY <1>13, FinalStep DEF RowsOK
    <3> QED
      BY <1>13, <3>1, FinalStep, TurnsKept
  <2>4. WorkAttempts'
    BY <1>13, FinalStep, EffectValues DEF AttemptsInv, WorkAttempts, BoundsOK
  <2> QED
    BY <2>2, <2>3, <2>4, <2>1, AttemptsKept DEF AttemptsInv
<1>14. CASE StopServing
  <2>1. /\ UNCHANGED <<run, turn, steers>>
        /\ plan' \in {plan, NoPlan}
        /\ recovery' \in {recovery, NoWrites}
        /\ exec' = exec \/ exec' = Idle \/ (exec'.effect = exec.effect /\ exec'.attempt = exec.attempt)
        /\ outbox' \subseteq outbox \cup {exec.effect} \cup plan.effects
    BY <1>14 DEF StopServing, Unsettled, Executing
  <2> QED
    BY <2>1, AttemptsKept DEF AttemptsInv
<1>15. CASE PrepareForShutdown
  <2>1. /\ UNCHANGED <<run, turn, steers>>
        /\ plan' \in {plan, NoPlan}
        /\ recovery' \in {recovery, NoWrites}
    BY <1>15 DEF PrepareForShutdown, bounds
  <2>4. WorkAttempts'
    <3>1. 1 <= steers + 1
      BY ThreadAssumption DEF BoundsOK
    <3> QED
      BY <1>15, <3>1, EffectValues DEF PrepareForShutdown, EnqueueOnce, bounds, AttemptsInv, WorkAttempts
  <2> QED
    BY <2>4, <2>1, AttemptsKept DEF AttemptsInv
<1>16. CASE CloseSessions
  <2>1. /\ UNCHANGED <<run, steers>>
        /\ plan' \in {plan, NoPlan}
        /\ recovery' \in {recovery, NoWrites}
        /\ exec' = exec \/ exec' = Idle \/ (exec'.effect = exec.effect /\ exec'.attempt = exec.attempt)
        /\ outbox' \subseteq outbox \cup {exec.effect} \cup plan.effects
    BY <1>16 DEF CloseSessions, bounds
  <2>3. TurnAttempts'
    <3>1. \A r \in Run, a \in Attempt : turn'[r][a] # "none" => turn[r][a] # "none"
      BY <1>16 DEF CloseSessions, Close
    <3> QED
      BY <1>16, <3>1, TurnsKept DEF CloseSessions, bounds
  <2> QED
    BY <2>3, <2>1, AttemptsKept DEF AttemptsInv
<1>17. CASE ReadProjection
  <2>1. /\ UNCHANGED <<run, turn, steers>>
        /\ plan' \in {plan, NoPlan}
        /\ exec' = exec \/ exec' = Idle \/ (exec'.effect = exec.effect /\ exec'.attempt = exec.attempt)
        /\ outbox' \subseteq outbox \cup {exec.effect} \cup plan.effects
    BY <1>17 DEF ReadProjection, bounds
  <2>6. RecoveryAttempts'
    BY <1>17, CancellationValues DEF ReadProjection, Interrupted, RecoveryAttempts, AttemptsInv,
       RowAttempts, bounds
  <2> QED
    BY <2>6, <2>1, AttemptsKept DEF AttemptsInv
<1>18. CASE Reconcile
  <2>1. /\ UNCHANGED <<steers>>
        /\ plan' \in {plan, NoPlan}
        /\ recovery' \in {recovery, NoWrites}
        /\ exec' = exec \/ exec' = Idle \/ (exec'.effect = exec.effect /\ exec'.attempt = exec.attempt)
        /\ outbox' \subseteq outbox \cup {exec.effect} \cup plan.effects
    BY <1>18 DEF Reconcile, Replayable, bounds
  <2>2. RowAttempts'
    <3>1. \A r \in Run : run'[r] = run[r] \/
            (run'[r].attempt <= steers + 1 /\ run'[r].status # "none")
      BY <1>18 DEF Reconcile, Written, WritesInv, AttemptsInv, RecoveryAttempts
    <3>9. steers' = steers
      BY <1>18 DEF Reconcile, bounds
    <3> QED
      BY <3>1, <3>9, RowsKept
  <2>3. TurnAttempts'
    <3>1. \A r \in Run, a \in Attempt : turn'[r][a] # "none" => turn[r][a] # "none"
      BY <1>18 DEF Reconcile, Retired, Retire
    <3> QED
      BY <1>18, <3>1, TurnsKept DEF Reconcile, bounds
  <2> QED
    BY <2>2, <2>3, <2>1, AttemptsKept DEF AttemptsInv
<1>19. CASE ProcessEnds
  <2>1. /\ UNCHANGED <<run, steers>>
        /\ plan' \in {plan, NoPlan}
        /\ recovery' \in {recovery, NoWrites}
        /\ exec' = exec \/ exec' = Idle \/ (exec'.effect = exec.effect /\ exec'.attempt = exec.attempt)
        /\ outbox' \subseteq outbox \cup {exec.effect} \cup plan.effects
    BY <1>19 DEF ProcessEnds, Unsettled, Executing
  <2>3. TurnAttempts'
    <3>1. \A r \in Run, a \in Attempt : turn'[r][a] # "none" => turn[r][a] # "none"
      BY <1>19 DEF ProcessEnds, Lose
    <3> QED
      BY <1>19, <3>1, TurnsKept DEF ProcessEnds
  <2> QED
    BY <2>3, <2>1, AttemptsKept DEF AttemptsInv
<1>20. CASE ResumeQueued
  <2>1. /\ UNCHANGED <<turn, steers>>
        /\ plan' \in {plan, NoPlan}
        /\ recovery' \in {recovery, NoWrites}
    BY <1>20 DEF ResumeQueued, bounds
  <2>2. RowAttempts'
    <3>1. \A r \in Run : run'[r] = run[r] \/
            (run'[r].attempt <= steers + 1 /\ run'[r].status # "none")
      BY <1>20, RowValues DEF ResumeQueued, Queued, RowsOK, AttemptsInv, RowAttempts
    <3>9. steers' = steers
      BY <1>20 DEF ResumeQueued, bounds
    <3> QED
      BY <3>1, <3>9, RowsKept
  <2>4. WorkAttempts'
    <3>1. 1 <= steers + 1
      BY ThreadAssumption DEF BoundsOK
    <3> QED
      BY <1>20, <3>1, EffectValues DEF ResumeQueued, bounds, AttemptsInv, WorkAttempts
  <2> QED
    BY <2>2, <2>4, <2>1, AttemptsKept DEF AttemptsInv
<1>21. CASE Recover
  <2>1. /\ UNCHANGED <<steers>>
        /\ plan' \in {plan, NoPlan}
        /\ recovery' \in {recovery, NoWrites}
    BY <1>21 DEF Recover, bounds
  <2>2. RowAttempts'
    <3>1. \A r \in Run : run'[r] = run[r] \/
            (run'[r].attempt <= steers + 1 /\ run'[r].status # "none")
      BY <1>21, CancellationValues DEF Recover, Written, AttemptsInv, RowAttempts
    <3>9. steers' = steers
      BY <1>21 DEF Recover, bounds
    <3> QED
      BY <3>1, <3>9, RowsKept
  <2>3. TurnAttempts'
    <3>1. \A r \in Run, a \in Attempt : turn'[r][a] # "none" => turn[r][a] # "none"
      BY <1>21 DEF Recover, Retired, Retire
    <3> QED
      BY <1>21, <3>1, TurnsKept DEF Recover, bounds
  <2>4. WorkAttempts'
    <3>1. 1 <= steers + 1
      BY ThreadAssumption DEF BoundsOK
    <3> QED
      BY <1>21, <3>1, EffectValues DEF Recover, Replayable, EnqueueOnce, bounds, AttemptsInv, WorkAttempts
  <2> QED
    BY <2>2, <2>3, <2>4, <2>1, AttemptsKept DEF AttemptsInv
<1>22. CASE UNCHANGED vars
  BY <1>22, AttemptsKept DEF vars, starter, server, bounds, AttemptsInv
<1> QED BY <1>1, <1>2, <1>3, <1>4, <1>5, <1>6, <1>7, <1>8, <1>9, <1>10, <1>11, <1>12, <1>13,
   <1>14, <1>15, <1>16, <1>17, <1>18, <1>19, <1>20, <1>21, <1>22, NextStep

-----------------------------------------------------------------------------
(* Steps that give no attempt to the provider.                               *)
NoTurnBegins ==
  \A r \in Run, a \in Attempt : turn[r][a] = "none" => turn'[r][a] = "none"
RowsAdvance ==
  \A r \in Run :
    \/ run'[r] = run[r]
    \/ /\ run'[r].status \notin Fresh
       /\ \/ run'[r].status = "cancelled"
          \/ run'[r].attempt \in Attempt /\ turn[r][run'[r].attempt] # "none"
GivingKept ==
  Giving' => Giving /\ exec'.effect = exec.effect /\ exec'.attempt = exec.attempt

LEMMA FreshKept ==
  ASSUME RowsOK, RowsOK', PlanOK, WorkOK, FreshInv, NoTurnBegins, RowsAdvance, GivingKept,
         plan' \in {plan, NoPlan}
  PROVE  FreshInv'
<1>1. \A r \in Run : Status(r)' \in Fresh => run'[r] = run[r]
  BY DEF RowsAdvance, Status
<1>2. \A r \in Run : run[r].attempt \in Attempt
  BY RowFields DEF RowsOK
<1>3. \A r \in Run : Status(r)' \in Fresh => turn'[r][run'[r].attempt] = "none"
  BY <1>1, <1>2 DEF FreshInv, NoTurnBegins, Status
<1>4. exec.effect.run \in Run /\ exec.attempt \in Attempt
  BY ExecTypes, EffectTypes DEF WorkOK
<1>5. Giving' => turn'[exec'.effect.run][exec'.attempt] = "none"
  BY <1>4 DEF GivingKept, FreshInv, NoTurnBegins
<1>6. ASSUME NEW r \in Run, Giving', exec'.effect.run = r /\ exec'.attempt = run'[r].attempt
      PROVE  Status(r)' \notin Fresh
  BY <1>1, <1>6 DEF GivingKept, FreshInv, Status, Targets
<1>7. ASSUME NEW r \in DOMAIN plan.writes, plan.writes[r].status \in Fresh
      PROVE  /\ turn'[r][plan.writes[r].attempt] = "none"
             /\ Giving' => ~(exec'.effect.run = r /\ exec'.attempt = plan.writes[r].attempt)
             /\ Status(r)' \in Past \/ plan.writes[r].attempt # run'[r].attempt
  <2>1. r \in Run /\ plan.writes[r].attempt \in Attempt
    BY RowFields DEF PlanOK
  <2>2. turn[r][plan.writes[r].attempt] = "none" /\ turn'[r][plan.writes[r].attempt] = "none"
    BY <1>7, <2>1 DEF FreshInv, NoTurnBegins
  <2>3. Giving' => ~(exec'.effect.run = r /\ exec'.attempt = plan.writes[r].attempt)
    BY <1>7 DEF GivingKept, FreshInv, Targets
  <2>4. Status(r)' \in Past \/ plan.writes[r].attempt # run'[r].attempt
    BY <1>7, <2>1, <2>2 DEF RowsAdvance, FreshInv, Status, Past
  <2> QED
    BY <2>2, <2>3, <2>4
<1>8. CASE plan' = plan
  BY <1>3, <1>5, <1>6, <1>7, <1>8 DEF FreshInv, Targets
<1>9. CASE plan' = NoPlan
  BY <1>3, <1>5, <1>6, <1>9, NoPlanValues DEF FreshInv, Targets
<1> QED
  BY <1>8, <1>9

LEMMA PlannedFresh ==
  ASSUME Types, PlanOK', AttemptsInv, QueuedInv, FreshInv, NEW by, Plans(by),
         UNCHANGED <<run, turn>>, GivingKept
  PROVE  FreshInv'
<1>1. ASSUME NEW r \in DOMAIN plan'.writes, plan'.writes[r].status \in Fresh
      PROVE  /\ r \in Run
             /\ turn[r][plan'.writes[r].attempt] = "none"
             /\ Giving => ~(exec.effect.run = r /\ exec.attempt = plan'.writes[r].attempt)
             /\ Status(r) \in Past \/ plan'.writes[r].attempt # run[r].attempt
  <2>1. r \in Run /\ plan'.writes[r].attempt \in Attempt
    BY RowFields DEF PlanOK
  <2>2. CASE Status(r) \in {"none", "queued"}
    BY <2>1, <2>2 DEF QueuedInv, Untouched, Past
  <2>3. CASE Status(r) \notin {"none", "queued"}
    <3>1. plan'.writes[r].attempt = steers + 2
      BY <1>1, <2>3 DEF Plans, MayPlan, NewRun, Reordered, Stopped, Steered, Fresh, Terminal
    <3>2. \A a \in Attempt : a \in Nat
      BY Ranges
    <3>3. run[r].attempt \in Nat /\ exec.attempt \in Nat /\ steers \in Nat
      BY <2>1, <3>2, RowFields, ExecTypes, ThreadAssumption
         DEF Types, RowsOK, WorkOK, BoundsOK
    <3>4. run[r].attempt # steers + 2 /\ exec.attempt # steers + 2
      BY <2>1, <3>3 DEF AttemptsInv, RowAttempts, WorkAttempts
    <3>5. \A a \in Attempt : turn[r][a] # "none" => a # steers + 2
      BY <2>1, <3>2, <3>3 DEF AttemptsInv, TurnAttempts
    <3> QED
      BY <2>1, <3>1, <3>4, <3>5
  <2> QED
    BY <2>2, <2>3
<1>2. \A r \in Run : Status(r)' \in Fresh => turn'[r][run'[r].attempt] = "none"
  BY DEF FreshInv, Status
<1>3. Giving' => turn'[exec'.effect.run][exec'.attempt] = "none"
  BY DEF FreshInv, GivingKept
<1>4. ASSUME NEW r \in Run, Giving', exec'.effect.run = r /\ exec'.attempt = run'[r].attempt
      PROVE  Status(r)' \notin Fresh
  BY <1>4 DEF FreshInv, GivingKept, Targets, Status
<1>5. ASSUME NEW r \in DOMAIN plan'.writes, plan'.writes[r].status \in Fresh
      PROVE  /\ turn'[r][plan'.writes[r].attempt] = "none"
             /\ Giving' => ~(exec'.effect.run = r /\ exec'.attempt = plan'.writes[r].attempt)
             /\ Status(r)' \in Past \/ plan'.writes[r].attempt # run'[r].attempt
  BY <1>1, <1>5 DEF GivingKept, Status
<1> QED
  BY <1>2, <1>3, <1>4, <1>5 DEF FreshInv, Targets

(* An attempt that waits to be given to the provider has had no turn.         *)
LEMMA FreshStep == Types /\ WritesInv /\ CaptureInv /\ QueuedInv /\ AttemptsInv /\ FreshInv /\ [Next]_vars => FreshInv'
<1> SUFFICES ASSUME Types /\ WritesInv /\ CaptureInv /\ QueuedInv /\ AttemptsInv /\ FreshInv, [Next]_vars PROVE FreshInv'
  OBVIOUS
<1> USE DEF Types
<1>1. CASE Command
  <2>1. Plans("command") /\ UNCHANGED <<run, turn>> /\ GivingKept
    BY <1>1, CommandStep DEF GivingKept, Giving
  <2> QED
    BY <2>1, PlannedFresh, TypeStep DEF Types
<1>2. CASE Commit
  <2>1. /\ UNCHANGED turn /\ plan' = NoPlan
        /\ Giving' => Giving /\ exec'.effect = exec.effect /\ exec'.attempt = exec.attempt
    BY <1>2, CommitStep, ExecValues DEF Giving
  <2>2. ASSUME NEW r \in Run, Status(r)' \in Fresh
        PROVE  /\ turn[r][run'[r].attempt] = "none"
               /\ Giving => ~Targets(r, run'[r].attempt)
    <3>1. run'[r] = IF r \in DOMAIN plan.writes THEN plan.writes[r] ELSE run[r]
      BY <1>2, CommitStep
    <3>2. CASE r \in DOMAIN plan.writes
      BY <2>2, <3>1, <3>2 DEF FreshInv, Status
    <3>3. CASE r \notin DOMAIN plan.writes
      BY <2>2, <3>1, <3>3 DEF FreshInv, Status
    <3> QED
      BY <3>2, <3>3
  <2> QED
    BY <2>1, <2>2, NoPlanValues DEF FreshInv, Targets
<1>3. CASE CommitFails
  <2>1. NoTurnBegins
    BY <1>3, FailedCommitStep DEF NoTurnBegins
  <2>2. RowsAdvance
    BY <1>3, FailedCommitStep DEF RowsAdvance
  <2>3. GivingKept
    BY <1>3, FailedCommitStep, ExecValues DEF GivingKept, Giving
  <2>4. plan' \in {plan, NoPlan}
    BY <1>3, FailedCommitStep
  <2> QED
    BY <2>1, <2>2, <2>3, <2>4, FreshKept, TypeStep
<1>4. CASE HandleTerminal
  <2>1. UNCHANGED <<run, turn, exec>>
    BY <1>4, TerminalStep
  <2>2. CASE UNCHANGED plan
    BY <2>1, <2>2, FreshKept, TypeStep DEF NoTurnBegins, RowsAdvance, GivingKept, Giving
  <2>3. CASE ~UNCHANGED plan
    <3>1. PICK r \in Queued : /\ DOMAIN plan'.writes = {r}
                              /\ plan'.writes[r].attempt = run[r].attempt
      BY <1>4, <2>3, TerminalStep
    <3>2. r \in Run /\ Status(r) = "queued" /\ Untouched(r)
      BY DEF Queued, QueuedInv
    <3>3. turn[r][run[r].attempt] = "none" /\ ~(Giving /\ exec.effect.run = r)
      BY <3>2 DEF FreshInv, Fresh, Untouched
    <3> QED
      BY <2>1, <3>1, <3>2, <3>3 DEF FreshInv, Giving, Targets, Status, Past
  <2> QED
    BY <2>2, <2>3
<1>5. ASSUME NEW effect \in outbox, ReadRun(effect) \/ ReadCaptureTarget(effect) \/ CheckContinuation(effect)
      PROVE  FreshInv'
  <2>1. NoTurnBegins
    BY <1>5, ClaimStep DEF NoTurnBegins
  <2>2. RowsAdvance
    BY <1>5, ClaimStep DEF RowsAdvance
  <2>3. GivingKept
    BY <1>5, ClaimStep, ExecValues DEF GivingKept, Giving
  <2>4. plan' \in {plan, NoPlan}
    BY <1>5, ClaimStep
  <2> QED
    BY <2>1, <2>2, <2>3, <2>4, FreshKept, TypeStep
<1>6. CASE MarkRunning
  <2>1. UNCHANGED <<turn, plan>> /\ ~Giving
    BY <1>6, MarkStep DEF Giving
  <2>2. CASE UNCHANGED run /\ exec' = Idle
    BY <2>1, <2>2, FreshKept, TypeStep, ExecValues
       DEF NoTurnBegins, RowsAdvance, GivingKept, Giving
  <2>3. CASE ~(UNCHANGED run /\ exec' = Idle)
    <3> DEFINE r == exec.effect.run
    <3>1. /\ r \in Run /\ Status(r) = "starting" /\ run[r].attempt = exec.attempt
          /\ run'[r].status = "running" /\ run'[r].attempt = exec.attempt
          /\ exec'.effect = exec.effect /\ exec'.attempt = exec.attempt
          /\ \A q \in Run \ {r} : run'[q] = run[q]
      BY <1>6, <2>3, MarkStep
    <3>2. turn[r][exec.attempt] = "none"
      BY <3>1 DEF FreshInv, Fresh
    <3>3. \A q \in DOMAIN plan.writes : plan.writes[q].status \in Fresh =>
            ~(q = r /\ plan.writes[q].attempt = exec.attempt)
      BY <3>1 DEF FreshInv, Past
    <3>4. \A q \in Run : Status(q)' \in Fresh => q # r /\ run'[q] = run[q]
      BY <3>1 DEF Fresh, Status
    <3>5. ASSUME NEW q \in DOMAIN plan.writes, plan.writes[q].status \in Fresh
          PROVE  Status(q)' \in Past \/ plan.writes[q].attempt # run'[q].attempt
      <4>1. q \in Run
        BY DEF PlanOK
      <4> QED
        BY <3>1, <3>3, <3>5, <4>1 DEF FreshInv, Status
    <3> HIDE DEF r
    <3>6. \A q \in Run : Status(q)' \in Fresh => turn[q][run'[q].attempt] = "none"
      BY <3>4 DEF FreshInv, Status
    <3>7. exec'.effect.run = r /\ exec'.attempt = exec.attempt
      BY <3>1 DEF r
    <3> QED
      BY <2>1, <3>2, <3>3, <3>4, <3>5, <3>6, <3>7 DEF FreshInv, Targets
  <2> QED
    BY <2>2, <2>3
<1>7. CASE CheckRun
  <2>1. NoTurnBegins
    BY <1>7, CheckStep DEF NoTurnBegins
  <2>2. RowsAdvance
    BY <1>7, CheckStep DEF RowsAdvance
  <2>3. GivingKept
    BY <1>7, CheckStep, ExecValues DEF GivingKept, Giving
  <2>4. plan' \in {plan, NoPlan}
    BY <1>7, CheckStep
  <2> QED
    BY <2>1, <2>2, <2>3, <2>4, FreshKept, TypeStep
<1>8. CASE StartTurn
  <2> DEFINE r == exec.effect.run  a == exec.attempt
  <2>1. PICK stage : turn' = [turn EXCEPT ![r][a] = stage]
    BY <1>8, StartTurnStep
  <2>2. r \in Run /\ a \in Attempt /\ Giving /\ ~Giving' /\ UNCHANGED <<run, plan>>
    BY <1>8, StartTurnStep, ExecValues DEF Giving
  <2> HIDE DEF r, a
  <2>3. \A q \in Run, b \in Attempt : turn[q][b] = "none" /\ ~(q = r /\ b = a) => turn'[q][b] = "none"
    BY <2>1, <2>2 DEF RowsOK
  <2>4. \A q \in Run : Status(q) \in Fresh => ~(q = r /\ run[q].attempt = a)
    BY <2>2 DEF FreshInv, Targets, r, a
  <2>5. \A q \in DOMAIN plan.writes : plan.writes[q].status \in Fresh =>
          ~(q = r /\ plan.writes[q].attempt = a)
    BY <2>2 DEF FreshInv, Targets, r, a
  <2>6. /\ \A q \in Run : run[q].attempt \in Attempt
        /\ \A q \in DOMAIN plan.writes : q \in Run /\ plan.writes[q].attempt \in Attempt
    BY RowFields DEF RowsOK, PlanOK
  <2>7. \A q \in Run : Status(q)' \in Fresh => turn'[q][run'[q].attempt] = "none"
    BY <2>2, <2>3, <2>4, <2>6 DEF FreshInv, Status
  <2>8. \A q \in DOMAIN plan.writes : plan.writes[q].status \in Fresh =>
          turn'[q][plan.writes[q].attempt] = "none"
    BY <2>3, <2>5, <2>6 DEF FreshInv
  <2> QED
    BY <2>2, <2>7, <2>8 DEF FreshInv, Status
<1>9. CASE CommitCapture
  <2>1. NoTurnBegins
    BY <1>9, CaptureStep DEF NoTurnBegins
  <2>2. RowsAdvance
    BY <1>9, CaptureStep, RowValues DEF RowsAdvance, CaptureInv, Fresh, RowsOK
  <2>3. GivingKept
    BY <1>9, CaptureStep, ExecValues DEF GivingKept, Giving
  <2>4. plan' \in {plan, NoPlan}
    BY <1>9, CaptureStep
  <2> QED
    BY <2>1, <2>2, <2>3, <2>4, FreshKept, TypeStep
<1>10. CASE DispatchContinuation
  <2>1. UNCHANGED <<run, turn>> /\ GivingKept
    BY <1>10, ContinuationStep, ExecValues DEF GivingKept, Giving
  <2>2. CASE UNCHANGED plan
    BY <2>1, <2>2, FreshKept, TypeStep DEF NoTurnBegins, RowsAdvance
  <2>3. CASE Plans("continue")
    BY <2>1, <2>3, PlannedFresh, TypeStep DEF Types
  <2> QED
    BY <1>10, <2>2, <2>3, ContinuationStep
<1>11. CASE ExecutionFails \/ ExecutionCancelled
  <2>1. NoTurnBegins
    BY <1>11, EndStep DEF NoTurnBegins
  <2>2. RowsAdvance
    BY <1>11, EndStep DEF RowsAdvance
  <2>3. GivingKept
    BY <1>11, EndStep, ExecValues DEF GivingKept, Giving
  <2>4. plan' \in {plan, NoPlan}
    BY <1>11, EndStep
  <2> QED
    BY <2>1, <2>2, <2>3, <2>4, FreshKept, TypeStep
<1>12. CASE TurnMoves
  <2>1. NoTurnBegins
    BY <1>12, TurnStep DEF NoTurnBegins, RowsOK
  <2>2. RowsAdvance
    BY <1>12, TurnStep DEF RowsAdvance
  <2>3. GivingKept
    BY <1>12, TurnStep, ExecValues DEF GivingKept, Giving
  <2>4. plan' \in {plan, NoPlan}
    BY <1>12, TurnStep
  <2> QED
    BY <2>1, <2>2, <2>3, <2>4, FreshKept, TypeStep
<1>13. ASSUME NEW r \in Run, NEW a \in Attempt, CompleteRun(r, a) \/ EndRun(r, a)
      PROVE  FreshInv'
  <2>1. NoTurnBegins
    BY <1>13, FinalStep DEF NoTurnBegins, RowsOK
  <2>2. RowsAdvance
    BY <1>13, FinalStep, RowValues DEF RowsAdvance, Fresh, RowsOK
  <2>3. GivingKept
    BY <1>13, FinalStep, ExecValues DEF GivingKept, Giving
  <2>4. plan' \in {plan, NoPlan}
    BY <1>13, FinalStep
  <2> QED
    BY <2>1, <2>2, <2>3, <2>4, FreshKept, TypeStep
<1>14. CASE StopServing
  <2>1. NoTurnBegins
    BY <1>14 DEF StopServing, NoTurnBegins
  <2>2. RowsAdvance
    BY <1>14 DEF StopServing, RowsAdvance
  <2>3. GivingKept
    BY <1>14, ExecValues DEF StopServing, GivingKept, Giving
  <2>4. plan' \in {plan, NoPlan}
    BY <1>14 DEF StopServing
  <2> QED
    BY <2>1, <2>2, <2>3, <2>4, FreshKept, TypeStep
<1>15. CASE PrepareForShutdown
  <2>1. NoTurnBegins
    BY <1>15 DEF PrepareForShutdown, NoTurnBegins
  <2>2. RowsAdvance
    BY <1>15 DEF PrepareForShutdown, RowsAdvance
  <2>3. GivingKept
    BY <1>15, ExecValues DEF PrepareForShutdown, GivingKept, Giving
  <2>4. plan' \in {plan, NoPlan}
    BY <1>15 DEF PrepareForShutdown
  <2> QED
    BY <2>1, <2>2, <2>3, <2>4, FreshKept, TypeStep
<1>16. CASE CloseSessions
  <2>1. NoTurnBegins
    BY <1>16 DEF CloseSessions, Close, NoTurnBegins
  <2>2. RowsAdvance
    BY <1>16 DEF CloseSessions, RowsAdvance
  <2>3. GivingKept
    BY <1>16, ExecValues DEF CloseSessions, GivingKept, Giving
  <2>4. plan' \in {plan, NoPlan}
    BY <1>16 DEF CloseSessions
  <2> QED
    BY <2>1, <2>2, <2>3, <2>4, FreshKept, TypeStep
<1>17. CASE ReadProjection
  <2>1. NoTurnBegins
    BY <1>17 DEF ReadProjection, NoTurnBegins
  <2>2. RowsAdvance
    BY <1>17 DEF ReadProjection, RowsAdvance
  <2>3. GivingKept
    BY <1>17, ExecValues DEF ReadProjection, GivingKept, Giving
  <2>4. plan' \in {plan, NoPlan}
    BY <1>17 DEF ReadProjection
  <2> QED
    BY <2>1, <2>2, <2>3, <2>4, FreshKept, TypeStep
<1>18. CASE Reconcile
  <2>1. NoTurnBegins
    BY <1>18 DEF Reconcile, Retired, Retire, NoTurnBegins
  <2>2. RowsAdvance
    BY <1>18 DEF Reconcile, Written, WritesInv, RowsAdvance, Fresh
  <2>3. GivingKept
    BY <1>18, ExecValues DEF Reconcile, GivingKept, Giving
  <2>4. plan' \in {plan, NoPlan}
    BY <1>18 DEF Reconcile
  <2> QED
    BY <2>1, <2>2, <2>3, <2>4, FreshKept, TypeStep
<1>19. CASE ProcessEnds
  <2>1. NoTurnBegins
    BY <1>19 DEF ProcessEnds, Lose, NoTurnBegins
  <2>2. RowsAdvance
    BY <1>19 DEF ProcessEnds, RowsAdvance
  <2>3. GivingKept
    BY <1>19, ExecValues DEF ProcessEnds, GivingKept, Giving
  <2>4. plan' \in {plan, NoPlan}
    BY <1>19 DEF ProcessEnds
  <2> QED
    BY <2>1, <2>2, <2>3, <2>4, FreshKept, TypeStep
<1>20. CASE ResumeQueued
  <2>1. UNCHANGED <<turn, plan, exec>> /\ plan = NoPlan /\ exec.step = "idle"
    BY <1>20 DEF ResumeQueued, WritesInv
  <2>2. \A q \in Run : Status(q)' \in Fresh =>
          Status(q) \in Fresh /\ run'[q].attempt = run[q].attempt
    BY <1>20, RowValues DEF ResumeQueued, Queued, Status, Fresh, RowsOK
  <2>3. \A q \in Run : Status(q)' \in Fresh => turn[q][run'[q].attempt] = "none"
    BY <2>2 DEF FreshInv
  <2> QED
    BY <2>1, <2>3, NoPlanValues DEF FreshInv, Giving
<1>21. CASE Recover
  <2>1. NoTurnBegins
    BY <1>21 DEF Recover, Retired, Retire, NoTurnBegins
  <2>2. RowsAdvance
    BY <1>21, CancellationValues DEF Recover, Written, RowsAdvance, Fresh
  <2>3. GivingKept
    BY <1>21, ExecValues DEF Recover, GivingKept, Giving
  <2>4. plan' \in {plan, NoPlan}
    BY <1>21 DEF Recover
  <2> QED
    BY <2>1, <2>2, <2>3, <2>4, FreshKept, TypeStep
<1>22. CASE UNCHANGED vars
  BY <1>22, FreshKept, TypeStep DEF vars, starter, server, bounds, NoTurnBegins, RowsAdvance, GivingKept, Giving
<1> QED BY <1>1, <1>2, <1>3, <1>4, <1>5, <1>6, <1>7, <1>8, <1>9, <1>10, <1>11, <1>12, <1>13,
   <1>14, <1>15, <1>16, <1>17, <1>18, <1>19, <1>20, <1>21, <1>22, NextStep

LEMMA FreshInit == Init => AttemptsInv /\ FreshInv
<1> SUFFICES ASSUME Init PROVE AttemptsInv /\ FreshInv
  OBVIOUS
<1>1. AttemptsInv
  BY NoPlanValues, ExecValues, TypeInit, Ranges
     DEF Init, Types, AttemptsInv, RowAttempts, TurnAttempts, WorkAttempts, PlanAttempts,
         RecoveryAttempts, Status
<1>2. FreshInv
  BY NoPlanValues, ExecValues, TypeInit, Ranges DEF Init, Types, FreshInv, Giving, Status
<1> QED
  BY <1>1, <1>2

-----------------------------------------------------------------------------
(* Where runs come from: a new run is the next, planned rows keep the       *)
(* source of their run, and nobody plans for a cancelled one.               *)
PlannedSources(s) ==
  \A r \in DOMAIN plan'.writes :
    \/ IsNewRun(r) /\ plan'.writes[r].source = s /\ plan'.writes[r].status # "cancelled"
    \/ /\ Status(r) \notin {"none", "cancelled"} /\ plan'.writes[r].source = run[r].source
       /\ plan'.writes[r].status = "cancelled" => Status(r) = "queued"

LEMMA RowSources ==
  ASSUME RowsOK, NEW r \in Run
  PROVE  /\ \A status : Row(r, status).source = run[r].source
         /\ \A a, status : Final(r, a, status).source = run[r].source
         /\ NextAttempt(r).source = run[r].source
         /\ \A p : [run[r] EXCEPT !.place = p].source = run[r].source
         /\ [run[r] EXCEPT !.status = "running"].source = run[r].source
<1>1. run[r] \in RunRow
  BY DEF RowsOK
<1> QED
  BY <1>1 DEF Row, Final, NextAttempt, RunRow

LEMMA PlanRunSources ==
  ASSUME NEW by, NEW r \in Run, NEW s, IsNewRun(r), PlanRun(by, r, s)
  PROVE  PlannedSources(s)
<1>1. PICK status \in {"queued", "starting"}, p \in {0, r}, effects \in {{}, {Effect("start", r, 1)}} :
        Plan(by, One(r, [status |-> status, attempt |-> 1, place |-> p, source |-> s]), effects, FALSE)
  BY DEF PlanRun
<1> DEFINE row == [status |-> status, attempt |-> 1, place |-> p, source |-> s]
<1>2. row.source = s /\ row.status # "cancelled"
  BY <1>1
<1> HIDE DEF row
<1>3. DOMAIN plan'.writes = {r} /\ plan'.writes[r] = row
  BY ZenonT(30), <1>1, PlanOneValues DEF row
<1> QED
  BY <1>2, <1>3 DEF PlannedSources

LEMMA CommandSources ==
  ASSUME RowsOK, Command
  PROVE  PlannedSources(0)
<1>1. CASE DispatchMessage
  BY <1>1, PlanRunSources DEF DispatchMessage
<1>2. ASSUME NEW r \in Run, InterruptRun(r) \/ CancelQueued(r)
      PROVE  PlannedSources(0)
  <2>1. PICK status, cancels :
          /\ Plan("command", One(r, Row(r, status)), {}, cancels)
          /\ status = "ended" \/ Status(r) = "queued"
    BY <1>2 DEF InterruptRun, CancelQueued, Queued
  <2>2. Status(r) \notin {"none", "cancelled"}
    BY <1>2 DEF InterruptRun, CancelQueued, Queued
  <2>3. DOMAIN plan'.writes = {r} /\ plan'.writes[r] = Row(r, status)
    BY <2>1, PlanOneValues
  <2> QED
    BY <2>1, <2>2, <2>3, RowSources, RowValues DEF PlannedSources
<1>3. ASSUME NEW r \in Run, SteerRun(r)
      PROVE  PlannedSources(0)
  <2>1. DOMAIN plan'.writes = {r} /\ plan'.writes[r] = NextAttempt(r)
    BY <1>3, PlanOneValues DEF SteerRun
  <2> QED
    BY <1>3, <2>1, RowSources, RowValues DEF SteerRun, Steerable, PlannedSources
<1>4. ASSUME NEW r \in Run, NEW q \in Run, PromoteQueued(q, r)
      PROVE  PlannedSources(0)
  <2> DEFINE writes == [x \in {q, r} |-> IF x = q THEN Row(q, "cancelled") ELSE NextAttempt(r)]
  <2>1. Status(q) = "queued" /\ Status(r) = "running"
    BY <1>4 DEF PromoteQueued, Queued, Steerable
  <2>2. \A x \in DOMAIN writes :
          /\ Status(x) \notin {"none", "cancelled"} /\ writes[x].source = run[x].source
          /\ writes[x].status = "cancelled" => Status(x) = "queued"
    BY <2>1, RowSources, RowValues
  <2>3. Plan("command", writes, Restart(r), FALSE)
    BY <1>4 DEF PromoteQueued
  <2> HIDE DEF writes
  <2> QED
    BY <2>2, <2>3, PlanValues DEF PlannedSources
<1>5. ASSUME NEW r \in Run, ReorderQueued(r)
      PROVE  PlannedSources(0)
  <2>1. PICK place \in [Queued -> 1..Cardinality(Queued)] :
          Plan("command", [q \in Queued |-> [run[q] EXCEPT !.place = place[q]]], {}, FALSE)
    BY <1>5 DEF ReorderQueued
  <2> DEFINE writes == [q \in Queued |-> [run[q] EXCEPT !.place = place[q]]]
  <2>2. \A q \in DOMAIN writes :
          Status(q) = "queued" /\ writes[q].source = run[q].source
    BY RowSources DEF Queued
  <2> HIDE DEF writes
  <2> QED
    BY <2>1, <2>2, PlanValues DEF writes, PlannedSources
<1> QED
  BY <1>1, <1>2, <1>3, <1>4, <1>5 DEF Command

LEMMA ContinuationSources ==
  ASSUME Types, DispatchContinuation
  PROVE  UNCHANGED plan \/ (PlannedSources(exec.effect.run) /\ Continuable(exec.effect.run))
BY PlanRunSources DEF DispatchContinuation

LEMMA StarterSources ==
  ASSUME Types, HandleTerminal
  PROVE  UNCHANGED plan \/ PlannedSources(0)
<1>1. CASE ~(Busy \/ Queued = {})
  <2>1. PICK r \in Queued :
          Plan("starter", One(r, Row(r, "starting")), {Effect("start", r, 1)}, FALSE)
    BY <1>1 DEF HandleTerminal
  <2>2. DOMAIN plan'.writes = {r} /\ plan'.writes[r] = Row(r, "starting")
    BY ZenonT(30), <2>1, PlanOneValues
  <2>3. r \in Run /\ Status(r) = "queued" /\ RowsOK
    BY DEF Queued, Types
  <2>4. Row(r, "starting").source = run[r].source
    BY <2>3, RowSources
  <2>5. Row(r, "starting").status # "cancelled"
    BY <2>3, RowValues
  <2> QED
    BY <2>2, <2>3, <2>4, <2>5 DEF PlannedSources
<1>2. CASE Busy \/ Queued = {}
  BY <1>2 DEF HandleTerminal
<1> QED
  BY <1>1, <1>2

(* The fibers of live turns only write, and captures only of waiting runs.  *)
LEMMA LiveTurns ==
  /\ \A r \in Run, a \in Attempt : CompleteRun(r, a) \/ EndRun(r, a) => turn[r][a] \notin Silent
  /\ TurnMoves => \E r \in Run, a \in Attempt : \E stage :
       turn[r][a] \notin Silent /\ turn' = [turn EXCEPT ![r][a] = stage]
  /\ \A effect \in outbox :
       /\ ReadRun(effect) \/ ReadCaptureTarget(effect) \/ CheckContinuation(effect)
       /\ exec'.step = "capturing"
       => Status(effect.run) = "waiting"
<1>1. ASSUME NEW r \in Run, NEW a \in Attempt, CompleteRun(r, a) \/ EndRun(r, a)
      PROVE  turn[r][a] \notin Silent
  BY <1>1 DEF CompleteRun, EndRun, Ingest, Silent
<1>2. ASSUME TurnMoves
      PROVE  \E r \in Run, a \in Attempt : \E stage :
               turn[r][a] \notin Silent /\ turn' = [turn EXCEPT ![r][a] = stage]
  <2>1. PICK r \in Run, a \in Attempt :
          \/ TurnStarts(r, a) \/ TurnEnds(r, a) \/ ShouldFinalize(r, a)
          \/ StreamFails(r, a) \/ FinalWriteFails(r, a)
    BY <1>2 DEF TurnMoves
  <2>2. turn[r][a] \notin Silent /\ \E stage : turn' = [turn EXCEPT ![r][a] = stage]
    <3>1. CASE TurnStarts(r, a)
      BY <3>1 DEF TurnStarts, Ingest, SetTurn, Silent
    <3>2. CASE TurnEnds(r, a)
      BY <3>2 DEF TurnEnds, Ingest, SetTurn, Silent
    <3>3. CASE ShouldFinalize(r, a)
      BY <3>3 DEF ShouldFinalize, Ingest, SetTurn, Silent
    <3>4. CASE StreamFails(r, a)
      BY <3>4 DEF StreamFails, Ingest, SetTurn, Silent
    <3>5. CASE FinalWriteFails(r, a)
      BY <3>5 DEF FinalWriteFails, Ingest, SetTurn, Silent
    <3> QED
      BY <2>1, <3>1, <3>2, <3>3, <3>4, <3>5
  <2> QED
    BY <2>2
<1>3. ASSUME NEW effect \in outbox, exec'.step = "capturing",
             ReadRun(effect) \/ ReadCaptureTarget(effect) \/ CheckContinuation(effect)
      PROVE  Status(effect.run) = "waiting"
  <2>1. \A step, a : Work(step, effect, a) => exec'.step = step
    BY DEF Work
  <2>2. Idle.step = "idle"
    BY DEF Idle
  <2> QED
    BY <1>3, <2>1, <2>2 DEF ReadRun, ReadCaptureTarget, CheckContinuation, Settle, IsCurrent
<1> QED
  BY <1>1, <1>2, <1>3

(* A run that nobody is going to write stays so.                            *)
DeadStays == \A s \in Run : Dead(s) => Dead(s)'

LEMMA DeadStep == Types /\ WritesInv /\ [Next]_vars => DeadStays
<1> SUFFICES ASSUME Types, WritesInv, [Next]_vars, NEW s \in Run, Dead(s) PROVE Dead(s)'
  BY DEF DeadStays
<1> USE NoPlanValues DEF Types
<1>a. run[s].status = "cancelled"
  BY DEF Dead, Status
<1>1. CASE Command
  BY <1>1, <1>a, CommandStep, CommandSources DEF Dead, Status, Writing, PlannedSources, IsNewRun, Unused
<1>2. CASE Commit
  BY <1>2, CommitStep, ExecValues DEF Dead, Status, Writing
<1>3. CASE CommitFails
  BY <1>3, FailedCommitStep, ExecValues DEF Dead, Status, Writing
<1>4. CASE HandleTerminal
  BY <1>4, <1>a, TerminalStep, StarterSources DEF Dead, Status, Writing, PlannedSources, IsNewRun, Unused
<1>5. ASSUME NEW effect \in outbox, ReadRun(effect) \/ ReadCaptureTarget(effect) \/ CheckContinuation(effect)
      PROVE  Dead(s)'
  BY <1>5, <1>a, ClaimStep, LiveTurns, ExecValues DEF Dead, Status, Writing
<1>6. CASE MarkRunning
  BY <1>6, MarkStep, ExecValues DEF Dead, Status, Writing
<1>7. CASE CheckRun
  BY <1>7, CheckStep, ExecValues DEF Dead, Status, Writing
<1>8. CASE StartTurn
  BY <1>8, StartTurnStep, ExecValues DEF Dead, Status, Writing, RowsOK
<1>9. CASE CommitCapture
  BY <1>9, CaptureStep, ExecValues DEF Dead, Status, Writing, RowsOK
<1>10. CASE DispatchContinuation
  BY <1>10, <1>a, ContinuationStep, ContinuationSources, ExecValues
     DEF Dead, Status, Writing, PlannedSources, IsNewRun, Unused
<1>11. CASE ExecutionFails \/ ExecutionCancelled
  BY <1>11, EndStep, ExecValues DEF Dead, Status, Writing
<1>12. CASE TurnMoves
  BY <1>12, TurnStep, LiveTurns DEF Dead, Status, Writing, RowsOK
<1>13. ASSUME NEW r \in Run, NEW a \in Attempt, CompleteRun(r, a) \/ EndRun(r, a)
      PROVE  Dead(s)'
  BY <1>13, FinalStep, LiveTurns DEF Dead, Status, Writing, RowsOK
<1>14. CASE StopServing
  BY <1>14, ExecValues DEF StopServing, Dead, Status, Writing
<1>15. CASE PrepareForShutdown
  BY <1>15 DEF PrepareForShutdown, Dead, Status, Writing
<1>16. CASE CloseSessions
  BY <1>16 DEF CloseSessions, Close, Silent, Dead, Status, Writing
<1>17. CASE ReadProjection
  BY <1>17 DEF ReadProjection, Dead, Status, Writing
<1>18. CASE Reconcile
  BY <1>18 DEF Reconcile, Written, WritesInv, Retired, Retire, Silent, Dead, Status, Writing
<1>19. CASE ProcessEnds
  BY <1>19, ExecValues DEF ProcessEnds, Lose, Silent, Dead, Status, Writing
<1>20. CASE ResumeQueued
  BY <1>20 DEF ResumeQueued, Queued, Dead, Status, Writing, RowsOK
<1>21. CASE Recover
  BY <1>21, CancellationValues DEF Recover, Written, Retired, Retire, Silent, Dead, Status, Writing
<1>22. CASE UNCHANGED vars
  BY <1>22 DEF vars, starter, server, bounds, Dead, Status, Writing
<1> QED BY <1>1, <1>2, <1>3, <1>4, <1>5, <1>6, <1>7, <1>8, <1>9, <1>10, <1>11, <1>12, <1>13,
   <1>14, <1>15, <1>16, <1>17, <1>18, <1>19, <1>20, <1>21, <1>22, NextStep

(* The runs in use stay so, and a plan adds the next one at most.           *)
SameRuns == \A r \in Run : Status(r)' = "none" <=> Status(r) = "none"

LEMMA NumbersKept ==
  ASSUME PlanOK, ServerOK, NumberInv, SameRuns, plan' \in {plan, NoPlan}, recovery' \in {recovery, NoWrites}
  PROVE  NumberInv'
<1>1. \A r \in DOMAIN recovery' : r \in Run /\ r \in DOMAIN recovery
  BY NoPlanValues DEF ServerOK
<1>2. \A r \in DOMAIN plan'.writes : r \in DOMAIN plan.writes
  BY NoPlanValues
<1> QED
  BY <1>1, <1>2 DEF NumberInv, SameRuns

LEMMA PlannedNumbers ==
  ASSUME PlanOK', NumberInv, NEW s, PlannedSources(s), UNCHANGED <<run, recovery>>
  PROVE  NumberInv'
<1>1. ASSUME NEW q \in Run, NEW r \in Run, q < r, r \in DOMAIN plan'.writes
      PROVE  Status(q) # "none"
  <2>1. CASE Status(r) # "none"
    BY <1>1, <2>1 DEF NumberInv
  <2>2. CASE IsNewRun(r)
    BY <1>1, <2>2 DEF IsNewRun, Unused, Run
  <2> QED
    BY <1>1, <2>1, <2>2 DEF PlannedSources
<1> QED
  BY <1>1 DEF NumberInv, Status

LEMMA NumberStep ==
  Types /\ WritesInv /\ CaptureInv /\ QueuedInv /\ NumberInv /\ [Next]_vars => NumberInv'
<1> SUFFICES ASSUME Types /\ WritesInv /\ CaptureInv /\ QueuedInv /\ NumberInv, [Next]_vars
             PROVE  NumberInv'
  OBVIOUS
<1> USE DEF Types
<1>1. CASE Command
  BY <1>1, CommandStep, CommandSources, PlannedNumbers, TypeStep
<1>2. CASE Commit
  <2>1. \A r \in Run : run'[r] = IF r \in DOMAIN plan.writes THEN plan.writes[r] ELSE run[r]
    BY <1>2, CommitStep
  <2>2. \A r \in Run : Status(r)' # "none" <=> Status(r) # "none" \/ r \in DOMAIN plan.writes
    BY <2>1 DEF WritesInv, Status
  <2>3. plan' = NoPlan /\ recovery' = recovery
    BY <1>2, CommitStep
  <2> QED
    BY <2>2, <2>3, NoPlanValues DEF NumberInv, ServerOK
<1>3. CASE CommitFails
  BY <1>3, FailedCommitStep, NumbersKept DEF SameRuns, Status
<1>4. CASE HandleTerminal
  BY <1>4, TerminalStep, StarterSources, PlannedNumbers, NumbersKept, TypeStep DEF SameRuns, Status
<1>5. ASSUME NEW effect \in outbox, ReadRun(effect) \/ ReadCaptureTarget(effect) \/ CheckContinuation(effect)
      PROVE  NumberInv'
  BY <1>5, ClaimStep, NumbersKept DEF SameRuns, Status
<1>6. CASE MarkRunning
  <2>1. SameRuns
    BY <1>6, MarkStep DEF SameRuns, Status
  <2> QED
    BY <1>6, <2>1, MarkStep, NumbersKept
<1>7. CASE CheckRun
  BY <1>7, CheckStep, NumbersKept DEF SameRuns, Status
<1>8. CASE StartTurn
  BY <1>8, StartTurnStep, NumbersKept DEF SameRuns, Status
<1>9. CASE CommitCapture
  <2>1. Status(exec.effect.run) # "none"
    BY <1>9, CaptureStep DEF CaptureInv, QueuedInv, Untouched
  <2>2. SameRuns
    BY <1>9, <2>1, CaptureStep, RowValues DEF SameRuns, Status, RowsOK
  <2> QED
    BY <1>9, <2>2, CaptureStep, NumbersKept
<1>10. CASE DispatchContinuation
  BY <1>10, ContinuationStep, ContinuationSources, PlannedNumbers, NumbersKept, TypeStep
     DEF SameRuns, Status
<1>11. CASE ExecutionFails \/ ExecutionCancelled
  BY <1>11, EndStep, NumbersKept DEF SameRuns, Status
<1>12. CASE TurnMoves
  BY <1>12, TurnStep, NumbersKept DEF SameRuns, Status
<1>13. ASSUME NEW r \in Run, NEW a \in Attempt, CompleteRun(r, a) \/ EndRun(r, a)
      PROVE  NumberInv'
  <2>1. Status(r) # "none"
    BY <1>13, FinalStep DEF QueuedInv, Untouched
  <2>2. PICK status \in {"waiting", "ended"} : run' = [run EXCEPT ![r] = Final(r, a, status)]
    BY <1>13, FinalStep
  <2>3. SameRuns
    BY <2>1, <2>2, RowValues DEF SameRuns, Status, RowsOK
  <2>4. plan' = plan /\ recovery' = recovery
    BY <1>13, FinalStep
  <2> QED
    BY <2>3, <2>4, NumbersKept
<1>14. CASE StopServing
  BY <1>14, NumbersKept DEF StopServing, SameRuns, Status
<1>15. CASE PrepareForShutdown
  BY <1>15, NumbersKept DEF PrepareForShutdown, SameRuns, Status
<1>16. CASE CloseSessions
  BY <1>16, NumbersKept DEF CloseSessions, SameRuns, Status
<1>17. CASE ReadProjection
  BY <1>17, CancellationValues DEF ReadProjection, NumberInv, Status, Interrupted, Blocking
<1>18. CASE Reconcile
  <2>1. SameRuns
    BY <1>18 DEF Reconcile, Written, WritesInv, NumberInv, SameRuns, Status
  <2> QED
    BY <1>18, <2>1, NumbersKept DEF Reconcile
<1>19. CASE ProcessEnds
  BY <1>19, NumbersKept DEF ProcessEnds, SameRuns, Status
<1>20. CASE ResumeQueued
  <2>1. SameRuns
    BY <1>20, RowValues DEF ResumeQueued, Queued, SameRuns, Status, RowsOK
  <2> QED
    BY <1>20, <2>1, NumbersKept DEF ResumeQueued
<1>21. CASE Recover
  <2>1. SameRuns
    BY <1>21, CancellationValues DEF Recover, Written, Interrupted, Blocking, SameRuns, Status
  <2> QED
    BY <1>21, <2>1, NumbersKept DEF Recover
<1>22. CASE UNCHANGED vars
  BY <1>22, NumbersKept DEF vars, starter, server, bounds, SameRuns, Status
<1> QED BY <1>1, <1>2, <1>3, <1>4, <1>5, <1>6, <1>7, <1>8, <1>9, <1>10, <1>11, <1>12, <1>13,
   <1>14, <1>15, <1>16, <1>17, <1>18, <1>19, <1>20, <1>21, <1>22, NextStep

(* While the server is up, rows are cancelled by commits only, and only in   *)
(* the queue.                                                               *)
RowsLive ==
  \A r \in Run :
    /\ Status(r)' = "cancelled" => Status(r) = "cancelled"
    /\ Status(r) = "queued" => Status(r)' = "queued"

LEMMA CancelledKept ==
  ASSUME PlanOK, CancelledInv, DeadStays, phase' = "up" => phase = "up" /\ RowsLive,
         plan' \in {plan, NoPlan},
         phase' \in {"down", "booted"} => \A r \in Run : \A a \in Attempt : turn'[r][a] \in Silent
  PROVE  CancelledInv'
<1>1. phase' = "up" => \A s \in Run : Status(s)' = "cancelled" => Dead(s)'
  BY DEF CancelledInv, DeadStays, RowsLive
<1>2. phase' = "up" => \A r \in DOMAIN plan'.writes :
        plan'.writes[r].status = "cancelled" => Status(r)' = "queued"
  BY NoPlanValues DEF CancelledInv, RowsLive, PlanOK
<1> QED
  BY <1>1, <1>2 DEF CancelledInv

LEMMA PlannedCancelled ==
  ASSUME CancelledInv, DeadStays, NEW s, PlannedSources(s), UNCHANGED <<run, turn, phase>>
  PROVE  CancelledInv'
BY DEF CancelledInv, DeadStays, PlannedSources, Status

LEMMA CancelledStep ==
  Types /\ WritesInv /\ CaptureInv /\ QueuedInv /\ CancelledInv /\ [Next]_vars => CancelledInv'
<1> SUFFICES ASSUME Types /\ WritesInv /\ CaptureInv /\ QueuedInv /\ CancelledInv, [Next]_vars
             PROVE  CancelledInv'
  OBVIOUS
<1> USE DEF Types
<1>a. DeadStays
  BY DeadStep
<1>1. CASE Command
  BY <1>a, <1>1, CommandStep, CommandSources, PlannedCancelled
<1>2. CASE Commit
  <2>1. \A r \in Run : run'[r] = IF r \in DOMAIN plan.writes THEN plan.writes[r] ELSE run[r]
    BY <1>2, CommitStep
  <2>2. plan' = NoPlan /\ UNCHANGED <<turn, phase>>
        /\ (exec'.step = "idle" \/ (exec'.step = exec.step /\ exec'.effect = exec.effect))
    BY <1>2, CommitStep, ExecValues
  <2>3. ASSUME NEW s \in Run, phase = "up", Status(s)' = "cancelled" PROVE Dead(s)'
    <3>1. CASE s \notin DOMAIN plan.writes
      BY <1>a, <2>1, <2>3, <3>1 DEF CancelledInv, DeadStays, Status
    <3>2. CASE s \in DOMAIN plan.writes
      <4>1. Untouched(s)
        BY <2>1, <2>3, <3>2 DEF CancelledInv, QueuedInv, Status
      <4>2. ~Writing(s)
        BY <4>1, <2>3 DEF Writing, Untouched, Giving, CaptureInv, WorkOK, ExecRow, EffectRow
      <4> QED
        BY <2>2, <2>3, <4>1, <4>2, NoPlanValues DEF Dead, Untouched, Writing, Silent
    <3> QED
      BY <3>1, <3>2
  <2> QED
    BY <2>2, <2>3, NoPlanValues DEF CancelledInv
<1>3. CASE CommitFails
  BY <1>a, <1>3, FailedCommitStep, CancelledKept DEF RowsLive, Status, CancelledInv
<1>4. CASE HandleTerminal
  BY <1>a, <1>4, TerminalStep, StarterSources, PlannedCancelled, CancelledKept
     DEF RowsLive, Status, CancelledInv
<1>5. ASSUME NEW effect \in outbox, ReadRun(effect) \/ ReadCaptureTarget(effect) \/ CheckContinuation(effect)
      PROVE  CancelledInv'
  BY <1>a, <1>5, ClaimStep, CancelledKept DEF RowsLive, Status
<1>6. CASE MarkRunning
  <2>1. RowsLive
    BY <1>6, MarkStep DEF RowsLive, Status
  <2> QED
    BY <1>a, <1>6, <2>1, MarkStep, CancelledKept
<1>7. CASE CheckRun
  BY <1>a, <1>7, CheckStep, CancelledKept DEF RowsLive, Status
<1>8. CASE StartTurn
  BY <1>a, <1>8, StartTurnStep, CancelledKept DEF RowsLive, Status
<1>9. CASE CommitCapture
  <2>1. Status(exec.effect.run) # "queued"
    BY <1>9, CaptureStep DEF CaptureInv, QueuedInv, Untouched
  <2>2. RowsLive
    BY <1>9, <2>1, CaptureStep, RowValues DEF RowsLive, Status, RowsOK
  <2> QED
    BY <1>a, <1>9, <2>2, CaptureStep, CancelledKept
<1>10. CASE DispatchContinuation
  BY <1>a, <1>10, ContinuationStep, ContinuationSources, PlannedCancelled, CancelledKept
     DEF RowsLive, Status
<1>11. CASE ExecutionFails \/ ExecutionCancelled
  BY <1>a, <1>11, EndStep, CancelledKept DEF RowsLive, Status
<1>12. CASE TurnMoves
  <2>1. phase \notin {"down", "booted"}
    BY <1>12, LiveTurns DEF CancelledInv
  <2> QED
    BY <1>a, <1>12, <2>1, TurnStep, CancelledKept DEF RowsLive, Status
<1>13. ASSUME NEW r \in Run, NEW a \in Attempt, CompleteRun(r, a) \/ EndRun(r, a)
      PROVE  CancelledInv'
  <2>1. Status(r) # "queued"
    BY <1>13, FinalStep DEF QueuedInv, Untouched
  <2>2. RowsLive
    BY <1>13, <2>1, FinalStep, RowValues DEF RowsLive, Status, RowsOK
  <2>3. phase \notin {"down", "booted"}
    BY <1>13, LiveTurns DEF CancelledInv
  <2> QED
    BY <1>a, <1>13, <2>2, <2>3, FinalStep, CancelledKept
<1>14. CASE StopServing
  BY <1>a, <1>14, CancelledKept DEF StopServing
<1>15. CASE PrepareForShutdown
  BY <1>a, <1>15, CancelledKept DEF PrepareForShutdown
<1>16. CASE CloseSessions
  BY <1>a, <1>16, CancelledKept DEF CloseSessions
<1>17. CASE ReadProjection
  BY <1>a, <1>17, CancelledKept DEF ReadProjection
<1>18. CASE Reconcile
  BY <1>a, <1>18, CancelledKept DEF Reconcile
<1>19. CASE ProcessEnds
  <2>1. \A r \in Run : \A a \in Attempt : turn'[r][a] \in Silent
    BY <1>19 DEF ProcessEnds, Lose, Silent
  <2> QED
    BY <1>a, <1>19, <2>1, CancelledKept DEF ProcessEnds
<1>20. CASE ResumeQueued
  BY <1>a, <1>20, CancelledKept DEF ResumeQueued, CancelledInv
<1>21. CASE Recover
  <2>1. plan' = NoPlan /\ exec'.step = "idle" /\ phase' = "up"
    BY <1>21 DEF Recover, WritesInv
  <2>2. \A r \in Run : \A a \in Attempt : turn'[r][a] \in Silent
    BY <1>21 DEF Recover, Retired, Retire, CancelledInv, Silent
  <2> QED
    BY <2>1, <2>2, NoPlanValues DEF CancelledInv, Dead, Writing
<1>22. CASE UNCHANGED vars
  BY <1>a, <1>22, CancelledKept DEF vars, starter, server, bounds, RowsLive, Status, CancelledInv
<1> QED BY <1>1, <1>2, <1>3, <1>4, <1>5, <1>6, <1>7, <1>8, <1>9, <1>10, <1>11, <1>12, <1>13,
   <1>14, <1>15, <1>16, <1>17, <1>18, <1>19, <1>20, <1>21, <1>22, NextStep

(* Rows keep the run they continue.                                         *)
SourcesKept == \A r \in Run : run'[r].source = run[r].source

LEMMA LinksKept ==
  ASSUME Types', DeadStays,
         \A r \in Run : Linked(run'[r].source, r),
         \A r \in DOMAIN plan'.writes : Linked(plan'.writes[r].source, r),
         \A r \in DOMAIN recovery' : Linked(recovery'[r].source, r)
  PROVE  LinkInv'
<1>1. ASSUME NEW source \in Place, NEW r \in Run, Linked(source, r)
      PROVE  source # 0 => source = r - 1 /\ Dead(source)'
  <2>1. source # 0 => source \in Run
    BY ThreadAssumption DEF Place, Run
  <2> QED
    BY <1>1, <2>1 DEF Linked, DeadStays
<1>2. /\ \A r \in Run : run'[r].source \in Place
      /\ \A r \in DOMAIN plan'.writes : r \in Run /\ plan'.writes[r].source \in Place
      /\ \A r \in DOMAIN recovery' : r \in Run /\ recovery'[r].source \in Place
  BY RowFields DEF Types, RowsOK, PlanOK, ServerOK
<1>3. \A r \in Run : Linked(run[r].source, r)'
  BY <1>1, <1>2 DEF Linked
<1>4. \A r \in DOMAIN plan'.writes : Linked(plan.writes[r].source, r)'
  BY <1>1, <1>2 DEF Linked
<1>5. \A r \in DOMAIN recovery' : Linked(recovery[r].source, r)'
  BY <1>1, <1>2 DEF Linked
<1> QED
  BY <1>3, <1>4, <1>5 DEF LinkInv

LEMMA SameLinks ==
  ASSUME Types', DeadStays, LinkInv, SourcesKept, plan' \in {plan, NoPlan},
         recovery' \in {recovery, NoWrites}
  PROVE  LinkInv'
<1>1. \A r \in Run : Linked(run'[r].source, r)
  BY DEF SourcesKept, LinkInv
<1>2. \A r \in DOMAIN plan'.writes : Linked(plan'.writes[r].source, r)
  BY NoPlanValues DEF LinkInv
<1>3. \A r \in DOMAIN recovery' : Linked(recovery'[r].source, r)
  BY NoPlanValues DEF LinkInv
<1> QED
  BY <1>1, <1>2, <1>3, LinksKept

(* The next run is linked to the last one when it is planned.               *)
LEMMA PlannedLinks ==
  ASSUME Types', DeadStays, LinkInv, NEW s, PlannedSources(s), UNCHANGED <<run, recovery>>,
         \A r \in Run : IsNewRun(r) => Linked(s, r)
  PROVE  LinkInv'
<1>1. \A r \in DOMAIN plan'.writes : r \in Run
  BY DEF Types, PlanOK
<1>2. \A r \in DOMAIN plan'.writes : Linked(plan'.writes[r].source, r)
  BY <1>1 DEF PlannedSources, LinkInv
<1>3. \A r \in Run : Linked(run'[r].source, r)
  BY DEF LinkInv
<1>4. \A r \in DOMAIN recovery' : Linked(recovery'[r].source, r)
  BY DEF LinkInv
<1> QED
  BY <1>2, <1>3, <1>4, LinksKept

LEMMA NextAfterLast ==
  ASSUME NumberInv, NEW s \in Run, NEW r \in Run, Status(s) # "none", LastRun(s), IsNewRun(r)
  PROVE  r - 1 = s
<1>1. s < r
  <2>1. r # s /\ ~(r < s)
    BY DEF NumberInv, IsNewRun, Unused
  <2> QED
    BY <2>1 DEF Run
<1>2. ~(s + 1 < r)
  <2>1. s + 1 < r => s + 1 \in Run /\ s + 1 > s
    BY ThreadAssumption DEF Run
  <2>2. s + 1 < r => s + 1 \in Unused
    BY <2>1 DEF LastRun
  <2> QED
    BY <2>2 DEF IsNewRun, Run
<1> QED
  BY <1>1, <1>2 DEF Run

LEMMA LinkStep ==
  Types /\ WritesInv /\ CaptureInv /\ QueuedInv /\ CancelledInv /\ NumberInv /\ LinkInv
    /\ [Next]_vars => LinkInv'
<1> SUFFICES ASSUME Types, WritesInv, CaptureInv, QueuedInv, CancelledInv, NumberInv, LinkInv,
                    [Next]_vars
             PROVE  LinkInv'
  OBVIOUS
<1>a. DeadStays /\ Types'
  BY DeadStep, TypeStep
<1>b. RowsOK /\ WorkOK /\ ServerOK /\ run \in [Run -> RunRow]
  BY DEF Types, RowsOK
<1>c. \A r : Linked(0, r)
  BY DEF Linked
<1>1. CASE Command
  BY <1>a, <1>b, <1>c, <1>1, CommandStep, CommandSources, PlannedLinks
<1>2. CASE Commit
  <2>1. \A r \in Run : run'[r] = IF r \in DOMAIN plan.writes THEN plan.writes[r] ELSE run[r]
    BY <1>2, CommitStep
  <2>2. plan' = NoPlan /\ recovery' = recovery
    BY <1>2, CommitStep
  <2>3. \A r \in Run : Linked(run'[r].source, r)
    BY <2>1 DEF LinkInv
  <2> QED
    BY <1>a, <2>2, <2>3, LinksKept, NoPlanValues DEF LinkInv
<1>3. CASE CommitFails
  BY <1>a, <1>3, FailedCommitStep, SameLinks DEF SourcesKept
<1>4. CASE HandleTerminal
  <2>1. UNCHANGED <<run, recovery>>
    BY <1>4, TerminalStep
  <2>2. CASE UNCHANGED plan
    BY <1>a, <2>1, <2>2, SameLinks DEF SourcesKept
  <2>3. CASE PlannedSources(0)
    BY <1>a, <1>c, <2>1, <2>3, PlannedLinks
  <2> QED
    BY <1>4, <2>2, <2>3, StarterSources
<1>5. ASSUME NEW effect \in outbox, ReadRun(effect) \/ ReadCaptureTarget(effect) \/ CheckContinuation(effect)
      PROVE  LinkInv'
  BY <1>a, <1>5, ClaimStep, SameLinks DEF SourcesKept
<1>6. CASE MarkRunning
  <2>1. SourcesKept
    <3>1. run' = run \/ (exec.effect.run \in Run /\ run' = [run EXCEPT ![exec.effect.run].status = "running"])
      BY <1>6, MarkStep DEF MarkRunning
    <3> QED
      BY <1>b, <3>1, RowSources DEF SourcesKept
  <2> QED
    BY <1>a, <1>6, <2>1, MarkStep, SameLinks
<1>7. CASE CheckRun
  BY <1>a, <1>7, CheckStep, SameLinks DEF SourcesKept
<1>8. CASE StartTurn
  BY <1>a, <1>8, StartTurnStep, SameLinks DEF SourcesKept
<1>9. CASE CommitCapture
  <2>1. SourcesKept
    BY <1>b, <1>9, CaptureStep, RowSources DEF SourcesKept
  <2> QED
    BY <1>a, <1>9, <2>1, CaptureStep, SameLinks
<1>10. CASE DispatchContinuation
  <2>1. phase = "up" /\ UNCHANGED <<run, recovery>> /\ exec.effect.run \in Run
    BY <1>b, <1>10, ContinuationStep, ExecTypes, EffectTypes DEF WorkOK
  <2>2. ASSUME Continuable(exec.effect.run), NEW r \in Run, IsNewRun(r)
        PROVE  Linked(exec.effect.run, r)
    <3>1. Status(exec.effect.run) = "cancelled" /\ LastRun(exec.effect.run)
      BY <2>2 DEF Continuable
    <3> QED
      BY <2>1, <2>2, <3>1, NextAfterLast DEF CancelledInv, Linked
  <2>3. CASE PlannedSources(exec.effect.run) /\ Continuable(exec.effect.run)
    BY <1>a, <2>1, <2>2, <2>3, PlannedLinks
  <2>4. CASE UNCHANGED plan
    BY <1>a, <2>1, <2>4, SameLinks DEF SourcesKept
  <2> QED
    BY <1>10, <2>3, <2>4, ContinuationSources
<1>11. CASE ExecutionFails \/ ExecutionCancelled
  BY <1>a, <1>11, EndStep, SameLinks DEF SourcesKept
<1>12. CASE TurnMoves
  BY <1>a, <1>12, TurnStep, SameLinks DEF SourcesKept
<1>13. ASSUME NEW r \in Run, NEW a \in Attempt, CompleteRun(r, a) \/ EndRun(r, a)
      PROVE  LinkInv'
  <2>1. PICK status \in {"waiting", "ended"} : run' = [run EXCEPT ![r] = Final(r, a, status)]
    BY <1>b, <1>13, FinalStep
  <2>2. SourcesKept
    BY <1>b, <2>1, RowSources DEF SourcesKept
  <2>3. plan' = plan /\ recovery' = recovery
    BY <1>b, <1>13, FinalStep
  <2> QED
    BY <1>a, <2>2, <2>3, SameLinks
<1>14. CASE StopServing
  BY <1>a, <1>14, SameLinks DEF StopServing, SourcesKept
<1>15. CASE PrepareForShutdown
  BY <1>a, <1>15, SameLinks DEF PrepareForShutdown, SourcesKept
<1>16. CASE CloseSessions
  BY <1>a, <1>16, SameLinks DEF CloseSessions, SourcesKept
<1>17. CASE ReadProjection
  <2>1. \A r \in DOMAIN recovery' : r \in Run /\ recovery'[r].source = run[r].source
    BY <1>b, <1>17, RowSources DEF ReadProjection, Cancellations, Interrupted
  <2>2. run' = run /\ plan' = plan
    BY <1>17 DEF ReadProjection
  <2> QED
    BY <1>a, <2>1, <2>2, LinksKept DEF LinkInv
<1>18. CASE Reconcile
  <2>1. \A r \in Run : Linked(run'[r].source, r)
    BY <1>18 DEF Reconcile, Written, LinkInv
  <2>2. recovery' = NoWrites /\ plan' = plan
    BY <1>18 DEF Reconcile
  <2> QED
    BY <1>a, <2>1, <2>2, LinksKept, NoPlanValues DEF LinkInv
<1>19. CASE ProcessEnds
  BY <1>a, <1>19, SameLinks DEF ProcessEnds, SourcesKept
<1>20. CASE ResumeQueued
  <2>1. SourcesKept
    BY <1>b, <1>20, RowSources DEF ResumeQueued, Queued, SourcesKept
  <2> QED
    BY <1>a, <1>20, <2>1, SameLinks DEF ResumeQueued
<1>21. CASE Recover
  <2>1. \A r \in Interrupted : r \in Run /\ Cancellations[r].source = run[r].source
    BY <1>b, RowSources DEF Cancellations, Interrupted
  <2>2. SourcesKept
    BY <1>b, <1>21, <2>1, CancellationValues DEF Recover, Written, SourcesKept
  <2> QED
    BY <1>a, <1>21, <2>2, SameLinks DEF Recover
<1>22. CASE UNCHANGED vars
  BY <1>a, <1>22, SameLinks DEF vars, starter, server, bounds, SourcesKept
<1> QED BY <1>1, <1>2, <1>3, <1>4, <1>5, <1>6, <1>7, <1>8, <1>9, <1>10, <1>11, <1>12, <1>13,
   <1>14, <1>15, <1>16, <1>17, <1>18, <1>19, <1>20, <1>21, <1>22, NextStep

LEMMA LinkInit == Init => CancelledInv /\ NumberInv /\ LinkInv
BY NoPlanValues DEF Init, CancelledInv, NumberInv, LinkInv, Linked, Status, Dead, Silent

-----------------------------------------------------------------------------
(* The results.                                                              *)
LEMMA InvInit == Init => IInv
BY TypeInit, QueueInit, WokenInit, FreshInit, LinkInit DEF IInv

LEMMA InvStep == IInv /\ [Next]_vars => IInv'
BY TypeStep, WritesStep, CapturesStep, QueuedStep, OrderStep, WokenStep, AttemptsStep, FreshStep,
   CancelledStep, NumberStep, LinkStep
   DEF IInv

LEMMA Invariant == Spec => []IInv
BY InvInit, InvStep, PTL DEF Spec

(* The provider is given an attempt of a run at most once: whatever is       *)
(* retried, steered, stopped, reordered or lost, and however often the       *)
(* server ends and starts again.                                             *)
THEOREM GivenOnce == Spec => []StartedOnce
<1>1. IInv => StartedOnce
  BY DEF IInv, FreshInv, Giving, StartedOnce
<1> QED
  BY <1>1, Invariant, PTL

(* A queued run never waits behind nothing, unless the start by the last     *)
(* terminal event handled has failed: commands, the starter of queued runs,  *)
(* the ends of turns, captures and restarts of the server all leave a reason  *)
(* to start it.                                                              *)
THEOREM NothingForgotten == Spec => []NoQueuedRunForgotten
<1>1. IInv => NoQueuedRunForgotten
  BY DEF IInv, WokenInv, Woken, NoQueuedRunForgotten, Unlocked
<1> QED
  BY <1>1, Invariant, PTL

(* Messages are served in the order the user gave them last: what commands,  *)
(* the starter of queued runs and a restart of the server take from the      *)
(* queue to start is the first of it at that moment.                         *)
THEOREM InOrder == Spec => ServedInOrder
<1>1. IInv /\ [Next]_vars
        => [\A r \in Queued : run'[r].status = "starting" => IsNextQueued(r)]_vars
  BY StartsStep DEF IInv, StartsInOrder
<1> QED
  BY <1>1, Invariant, PTL DEF Spec, ServedInOrder

(* A run that continues another after a restart is the one right behind it,  *)
(* so there is at most one, and the other stays cancelled: no capture, fiber *)
(* or command that was under way when recovery cancelled it writes its row   *)
(* afterwards.                                                               *)
THEOREM ContinuedByTheNext == Spec => []ContinuesTheLastRun
<1>1. IInv => ContinuesTheLastRun
  BY DEF IInv, LinkInv, Linked, Dead, ContinuesTheLastRun
<1> QED
  BY <1>1, Invariant, PTL
=============================================================================
