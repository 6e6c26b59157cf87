-------------------------- MODULE CommandDispatch --------------------------
(***************************************************************************)
(* dispatch of orchestration-v2/Orchestrator.ts: concurrent and repeated   *)
(* calls, the receipts that make a command idempotent (EventSink.ts), and  *)
(* the other writers of the event store.                                   *)
(*                                                                         *)
(* A call takes its thread's lock, looks for a receipt, plans against the  *)
(* projection and commits.  One action is one statement or transaction;    *)
(* the caller may go away, or the process die, between any two.  The lock  *)
(* is the abstract mutex that KeyedSerialExecutor implements.              *)
(*                                                                         *)
(* Abstractions: the events and effects of one commit are one entry of     *)
(* the log, its sequence the entry's index; what a plan decides is open,   *)
(* and it is taken to read the projection once; publication to live        *)
(* subscribers is LiveStream, cancellations are EffectOutbox.              *)
(***************************************************************************)
EXTENDS Naturals, Sequences

CONSTANTS
  Call,       \* calls of dispatch, and starts of a queued run
  Command,    \* command ids
  Thread,
  CommandOf,  \* the command id of a call; NoCommand starts a queued run
  ThreadOf,   \* commandThreadId of a call
  MaxOthers,  \* bound: writes of provider ingestion
  MaxFaults,  \* bound: failing statements
  NoCommand

ASSUME DispatchAssumption ==
  /\ CommandOf \in [Call -> Command \cup {NoCommand}]
  /\ ThreadOf \in [Call -> Thread]
  /\ Thread # {}
  /\ MaxOthers \in Nat
  /\ MaxFaults \in Nat
  /\ NoCommand \notin Command

Starts == {c \in Call : CommandOf[c] = NoCommand}
Dispatches == Call \ Starts

VARIABLES
  log,      \* the event store
  receipt,  \* orchestration_command_receipts
  stage, target,  \* the thread locks, see KeyedMutex
  pc, basis,      \* where a call is; the log when it read the projection
  reply, sequence,  \* what the caller is told
  faults

durable == <<log, receipt>>
lock == <<stage, target>>
answers == <<reply, sequence>>
vars == <<durable, lock, pc, basis, answers, faults>>

Lock == INSTANCE KeyedMutex WITH Fiber <- Call, Key <- Thread

NoReceipt == [status |-> "none", thread |-> CHOOSE t \in Thread : TRUE, sequence |-> 0]
Others == Len(SelectSeq(log, LAMBDA entry : entry.by = "provider"))

TypeOK ==
  /\ log \in Seq([by : {"command", "start", "provider"},
                  command : Command \cup {NoCommand}, thread : Thread])
  /\ receipt \in [Command -> [status : {"none", "accepted", "rejected"},
                              thread : Thread, sequence : 0..Len(log)]]
  /\ stage \in [Call -> {"out", "waiting", "inside"}]
  /\ target = ThreadOf
  /\ pc \in [Call -> {"new", "wait", "lookup", "replay", "plan", "reject", "commit",
                      "answer", "done"}]
  /\ basis \in [Call -> 0..Len(log)]
  /\ reply \in [Call -> {"none", "accepted", "rejected", "conflict", "error", "lost"}]
  /\ sequence \in [Call -> 0..Len(log)]
  /\ faults \in 0..MaxFaults

Init ==
  /\ log = <<>>
  /\ receipt = [i \in Command |-> NoReceipt]
  /\ stage = [c \in Call |-> "out"]
  /\ target = ThreadOf
  /\ pc = [c \in Call |-> "new"]
  /\ basis = [c \in Call |-> 0]
  /\ reply = [c \in Call |-> "none"]
  /\ sequence = [c \in Call |-> 0]
  /\ faults = 0

-----------------------------------------------------------------------------
Goto(c, step) == pc' = [pc EXCEPT ![c] = step]

(* The call ends and its lock is given back.                               *)
Reply(c, answer, seq) ==
  /\ Goto(c, "done")
  /\ Lock!Leave(c)
  /\ reply' = [reply EXCEPT ![c] = answer]
  /\ sequence' = [sequence EXCEPT ![c] = seq]
  /\ basis' = [basis EXCEPT ![c] = 0]

Holding(c) == pc[c] \in {"lookup", "replay", "plan", "reject", "commit", "answer"}

Store(by, command, thread) ==
  log' = Append(log, [by |-> by, command |-> command, thread |-> thread])

Fault == faults < MaxFaults /\ faults' = faults + 1

Dispatch(c) ==
  /\ pc[c] = "new"
  /\ Goto(c, "wait")
  /\ Lock!Request(c, ThreadOf[c])
  /\ UNCHANGED <<durable, basis, answers, faults>>

(* Faulty variants are named for the mistake they make.                    *)
EnterWithoutLock(c) ==
  /\ pc[c] = "wait"
  /\ stage' = [stage EXCEPT ![c] = "inside"]
  /\ Goto(c, IF c \in Starts THEN "plan" ELSE "lookup")
  /\ UNCHANGED <<durable, target, basis, answers, faults>>

(* threadDispatch.withLock lets the call in.                               *)
EnterLock(c) ==
  /\ pc[c] = "wait"
  /\ Lock!Enter(c)
  /\ Goto(c, IF c \in Starts THEN "plan" ELSE "lookup")
  /\ UNCHANGED <<durable, basis, answers, faults>>

(* canReplayCommandReceipt.                                                *)
CanReplay(i, t) == receipt[i].thread = t

(* getByCommandId and the decision on what it finds.                       *)
LookupReceipt(c) ==
  LET i == CommandOf[c] IN
  /\ pc[c] = "lookup"
  /\ \/ receipt[i].status = "none" /\ Goto(c, "plan") /\ UNCHANGED <<lock, basis, answers>>
     \/ receipt[i].status = "rejected" /\ Reply(c, "rejected", 0)
     \/ /\ receipt[i].status = "accepted"
        /\ IF CanReplay(i, ThreadOf[c])
           THEN Goto(c, "replay") /\ UNCHANGED <<lock, basis, answers>>
           ELSE Reply(c, "conflict", 0)
  /\ UNCHANGED <<durable, faults>>

(* readByCommandId: the stored events are answered with the receipt.       *)
ReplayReceipt(c) ==
  /\ pc[c] = "replay"
  /\ Reply(c, "accepted", receipt[CommandOf[c]].sequence)
  /\ UNCHANGED <<durable, faults>>

(* dispatchOnce: the plan is made, or fails, or has no events; a failing   *)
(* statement is a failing plan like any other.  A start may find nothing   *)
(* to do (startNextQueuedRun).                                             *)
Plan(c) ==
  /\ pc[c] = "plan"
  /\ basis' = [basis EXCEPT ![c] = Len(log)]
  /\ \E step \in {"commit", "reject"} : Goto(c, step)
  /\ UNCHANGED <<durable, lock, answers, faults>>

CommitWithoutReservation(c) ==
  LET i == CommandOf[c] IN
  /\ pc[c] = "commit" /\ c \in Dispatches
  /\ Store("command", i, ThreadOf[c])
  /\ receipt' = [receipt EXCEPT ![i] =
       [status |-> "accepted", thread |-> ThreadOf[c], sequence |-> Len(log) + 1]]
  /\ sequence' = [sequence EXCEPT ![c] = Len(log) + 1]
  /\ Goto(c, "answer")
  /\ UNCHANGED <<lock, basis, reply, faults>>

CommitKeepsReservedSequence(c) ==
  LET i == CommandOf[c] IN
  /\ pc[c] = "commit" /\ c \in Dispatches
  /\ receipt[i].status = "none"
  /\ Store("command", i, ThreadOf[c])
  /\ receipt' = [receipt EXCEPT ![i] =
       [status |-> "accepted", thread |-> ThreadOf[c], sequence |-> 0]]
  /\ sequence' = [sequence EXCEPT ![c] = Len(log) + 1]
  /\ Goto(c, "answer")
  /\ UNCHANGED <<lock, basis, reply, faults>>

(* commitCommand: the receipt is reserved, the events and effects stored,  *)
(* the receipt completed, in one transaction.  A call that finds the       *)
(* receipt taken answers with it and stores nothing.                       *)
CommitCommand(c) ==
  LET i == CommandOf[c] IN
  /\ pc[c] = "commit" /\ c \in Dispatches
  /\ \/ /\ receipt[i].status = "none"
        /\ Store("command", i, ThreadOf[c])
        /\ receipt' = [receipt EXCEPT ![i] =
             [status |-> "accepted", thread |-> ThreadOf[c], sequence |-> Len(log) + 1]]
        /\ sequence' = [sequence EXCEPT ![c] = Len(log) + 1]
        /\ Goto(c, "answer")
        /\ UNCHANGED <<lock, basis, reply>>
     \/ /\ receipt[i].status = "accepted"
        /\ sequence' = [sequence EXCEPT ![c] = receipt[i].sequence]
        /\ Goto(c, "answer")
        /\ UNCHANGED <<durable, lock, basis, reply>>
     \/ receipt[i].status = "rejected" /\ Reply(c, "rejected", 0) /\ UNCHANGED durable
  /\ UNCHANGED faults

CommitRejectedOverwrites(c) ==
  /\ pc[c] = "reject" /\ c \in Dispatches
  /\ receipt' = [receipt EXCEPT ![CommandOf[c]] =
       [status |-> "rejected", thread |-> ThreadOf[c], sequence |-> Len(log)]]
  /\ Reply(c, "rejected", 0)
  /\ UNCHANGED <<log, faults>>

(* commitRejectedCommand; whatever receipt there is, the caller is told    *)
(* why its own plan failed.                                                *)
CommitRejected(c) ==
  LET i == CommandOf[c] IN
  /\ pc[c] = "reject" /\ c \in Dispatches
  /\ receipt' = IF receipt[i].status # "none" THEN receipt
                ELSE [receipt EXCEPT ![i] =
                  [status |-> "rejected", thread |-> ThreadOf[c], sequence |-> Len(log)]]
  /\ Reply(c, "rejected", 0)
  /\ UNCHANGED <<log, faults>>

(* writeSystemEvents of a start, or its return without a queued run.       *)
StartQueuedRun(c) ==
  /\ c \in Starts
  /\ \/ pc[c] = "commit" /\ Store("start", NoCommand, ThreadOf[c])
     \/ pc[c] = "reject" /\ UNCHANGED log
  /\ Reply(c, "none", 0)
  /\ UNCHANGED <<receipt, faults>>

Answer(c) ==
  /\ pc[c] = "answer"
  /\ Reply(c, "accepted", sequence[c])
  /\ UNCHANGED <<durable, faults>>

(* Another statement fails and rolls its transaction back; after the       *)
(* commit, the offer of a delegated completion may fail.                   *)
StatementFails(c) ==
  /\ Holding(c) /\ (pc[c] = "plan" => c \in Starts)
  /\ Fault
  /\ Reply(c, "error", 0)
  /\ UNCHANGED durable

(* The caller goes away and its fiber is interrupted.                      *)
Interrupt(c) ==
  /\ pc[c] = "wait" \/ Holding(c)
  /\ Reply(c, "lost", 0)
  /\ UNCHANGED <<durable, faults>>

Perform(c) ==
  \/ EnterLock(c) \/ LookupReceipt(c) \/ ReplayReceipt(c) \/ Plan(c)
  \/ CommitCommand(c) \/ CommitRejected(c) \/ StartQueuedRun(c) \/ Answer(c)

(* Provider ingestion writes without the lock.                             *)
ProviderWrite(t) ==
  /\ Others < MaxOthers
  /\ Store("provider", NoCommand, t)
  /\ UNCHANGED <<receipt, lock, pc, basis, answers, faults>>

(* The process dies: calls are lost with their locks, the tables are not.  *)
Crash ==
  LET lost == {c \in Call : pc[c] \notin {"new", "done"}} IN
  /\ pc' = [c \in Call |-> IF c \in lost THEN "done" ELSE pc[c]]
  /\ stage' = [c \in Call |-> "out"]
  /\ reply' = [c \in Call |-> IF c \in lost THEN "lost" ELSE reply[c]]
  /\ sequence' = [c \in Call |-> IF c \in lost THEN 0 ELSE sequence[c]]
  /\ basis' = [c \in Call |-> 0]
  /\ UNCHANGED <<durable, target, faults>>

Next ==
  \/ \E c \in Call : Dispatch(c) \/ Perform(c) \/ StatementFails(c) \/ Interrupt(c)
  \/ \E t \in Thread : ProviderWrite(t)
  \/ Crash

Spec == Init /\ [][Next]_vars

-----------------------------------------------------------------------------
(* Properties.                                                             *)

(* A command has taken effect exactly when its receipt says accepted, and  *)
(* then once, on the receipt's thread and at its sequence: also when its   *)
(* id is used twice at the same time, after lost replies, and for two      *)
(* threads.                                                                *)
ReceiptsMatchLog ==
  \A i \in Command :
    /\ receipt[i].status = "accepted" =>
         /\ receipt[i].sequence \in DOMAIN log
         /\ log[receipt[i].sequence] =
              [by |-> "command", command |-> i, thread |-> receipt[i].thread]
    /\ \A n \in DOMAIN log :
         log[n].command = i => receipt[i].status = "accepted" /\ receipt[i].sequence = n

(* A plan is committed on the projection it was made from, provider events *)
(* apart: no command and no start of a queued run got in between.          *)
PlansAreCurrent ==
  \A c \in Call : pc[c] = "commit" =>
    \A n \in DOMAIN log :
      n > basis[c] /\ log[n].thread = ThreadOf[c] => log[n].by = "provider"

(* Duplicates are answered alike: callers of one command on one thread who *)
(* are told its outcome are told the same, whatever is retried in between. *)
Definite == {"accepted", "rejected"}
SameAnswer ==
  \A c, d \in Dispatches :
    /\ CommandOf[c] = CommandOf[d] /\ ThreadOf[c] = ThreadOf[d]
    /\ reply[c] \in Definite /\ reply[d] \in Definite
    => reply[c] = reply[d] /\ sequence[c] = sequence[d]

(* Success is reported only for work that happened on the caller's thread. *)
AcceptedMeansStored ==
  \A c \in Dispatches : reply[c] = "accepted" =>
    /\ sequence[c] \in DOMAIN log
    /\ log[sequence[c]] = [by |-> "command", command |-> CommandOf[c], thread |-> ThreadOf[c]]

(* Dispatch decides every command once and tells only that, where a        *)
(* command id is not used for two threads.                                 *)
Proper ==
  {c \in Dispatches :
     \A d \in Dispatches : CommandOf[c] = CommandOf[d] => ThreadOf[c] = ThreadOf[d]}
Once == INSTANCE CommandOnce WITH
  Call <- Proper,
  verdict <- [i \in Command |-> IF receipt[i].status = "none" THEN "open" ELSE receipt[i].status],
  told <- [c \in Proper |->
             IF reply[c] \in {"accepted", "rejected"} THEN reply[c] ELSE "nothing"]
DecidesOnce == Once!Spec
=============================================================================
