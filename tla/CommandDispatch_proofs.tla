----------------------- MODULE CommandDispatch_proofs -----------------------
(***************************************************************************)
(* Command dispatch is idempotent and plans on current state, for any      *)
(* number of calls, command ids and threads.                               *)
(*                                                                         *)
(* The argument: while a call is between its lookup and its commit, no     *)
(* other call of its thread is inside the lock, so a receipt of its        *)
(* command can only appear from another thread (PastLookup); hence a       *)
(* definite answer to one of two duplicates fixes the other's.             *)
(***************************************************************************)
EXTENDS CommandDispatch, TLAPS

(* The stage of a call's lock follows its program counter.                 *)
LockInv ==
  /\ \A c \in Call : /\ stage[c] = "inside" <=> Holding(c)
                     /\ stage[c] = "waiting" <=> pc[c] = "wait"
  /\ \A c, d \in Call :
       Holding(c) /\ Holding(d) /\ ThreadOf[c] = ThreadOf[d] => c = d

(* Only dispatches look receipts up, and answers come at the end.          *)
PhaseInv ==
  \A c \in Call :
    /\ pc[c] \in {"lookup", "replay", "answer"} => c \in Dispatches
    /\ pc[c] # "done" => reply[c] = "none"
    /\ reply[c] \in Definite => c \in Dispatches

(* Who is told something definite is told what the receipt says; the one   *)
(* exception is a plan that failed while another thread's command with the *)
(* same id was accepted.                                                   *)
Foreign(c) ==
  receipt[CommandOf[c]].status = "accepted" /\ receipt[CommandOf[c]].thread # ThreadOf[c]
AnswerInv ==
  \A c \in Dispatches :
    LET r == receipt[CommandOf[c]] IN
    /\ pc[c] = "replay" => r.status = "accepted" /\ r.thread = ThreadOf[c]
    /\ pc[c] = "answer" \/ reply[c] = "accepted" =>
         r.status = "accepted" /\ sequence[c] = r.sequence
    /\ reply[c] = "rejected" => sequence[c] = 0 /\ (r.status = "rejected" \/ Foreign(c))

Planning(c) == pc[c] \in {"plan", "reject", "commit"}
Twins(c, d) == CommandOf[c] = CommandOf[d] /\ ThreadOf[c] = ThreadOf[d]

(* A call that is past its lookup has no receipt of its own thread, and no *)
(* twin of it has been told anything definite.                             *)
PastLookup ==
  \A c \in Dispatches :
    /\ Planning(c) =>
         receipt[CommandOf[c]].status = "none" \/ receipt[CommandOf[c]].thread # ThreadOf[c]
    /\ \A d \in Dispatches :
         /\ c # d /\ Twins(c, d)
         /\ Planning(c) \/ (Foreign(c) /\ (pc[c] = "answer" \/ reply[c] \in Definite))
         => reply[d] \notin Definite

(* A receipt is that of a call.                                            *)
OriginInv ==
  \A i \in Command : receipt[i].status # "none" =>
    \E d \in Dispatches : CommandOf[d] = i /\ ThreadOf[d] = receipt[i].thread

IInv ==
  /\ TypeOK /\ LockInv /\ PhaseInv /\ ReceiptsMatchLog /\ PlansAreCurrent
  /\ AnswerInv /\ PastLookup /\ OriginInv

Step(c) == Dispatch(c) \/ Perform(c) \/ StatementFails(c) \/ Interrupt(c)

-----------------------------------------------------------------------------
(* A dispatch has a command id.                                            *)
LEMMA DispatchCommand == \A c \in Dispatches : CommandOf[c] \in Command
  BY DispatchAssumption DEF Dispatches, Starts

(* The invariant holds before the first call.                              *)
LEMMA InitIInv == Init => IInv
<1> SUFFICES ASSUME Init PROVE IInv
  OBVIOUS
<1>0. (CHOOSE t \in Thread : TRUE) \in Thread
  BY DispatchAssumption
<1>1. TypeOK
  BY <1>0, DispatchAssumption DEF Init, TypeOK, NoReceipt
<1>2. LockInv /\ PhaseInv /\ PlansAreCurrent
  BY DEF Init, LockInv, PhaseInv, PlansAreCurrent, Holding, Definite
<1>3. ReceiptsMatchLog /\ OriginInv
  BY DEF Init, ReceiptsMatchLog, OriginInv, NoReceipt
<1>4. AnswerInv /\ PastLookup
  <2>1. \A c \in Dispatches : receipt[CommandOf[c]].status = "none"
    BY DispatchCommand DEF Init, NoReceipt
  <2>2. \A c \in Dispatches : pc[c] = "new" /\ reply[c] = "none"
    BY DEF Init, Dispatches
  <2> QED
    BY <2>1, <2>2 DEF AnswerInv, PastLookup, Definite, Planning, Foreign
<1> QED
  BY <1>1, <1>2, <1>3, <1>4 DEF IInv

(* What a step of one call may change of another call.                     *)
LEMMA OthersUntouched ==
  ASSUME TypeOK, NEW c \in Call, Step(c)
  PROVE  /\ target' = target
         /\ \A d \in Call \ {c} :
              /\ pc'[d] = pc[d] /\ stage'[d] = stage[d] /\ basis'[d] = basis[d]
              /\ reply'[d] = reply[d] /\ sequence'[d] = sequence[d]
<1> USE DEF TypeOK, Reply, Goto, lock, answers, durable, Lock!Leave
<1>1. CASE Dispatch(c)
  BY <1>1, DispatchAssumption DEF Dispatch, Lock!Request
<1>2. CASE EnterLock(c)
  BY <1>2 DEF EnterLock, Lock!Enter
<1>3. CASE LookupReceipt(c)
  BY <1>3 DEF LookupReceipt
<1>4. CASE ReplayReceipt(c)
  BY <1>4 DEF ReplayReceipt
<1>5. CASE Plan(c)
  BY <1>5 DEF Plan
<1>6. CASE CommitCommand(c)
  BY <1>6 DEF CommitCommand
<1>7. CASE CommitRejected(c)
  BY <1>7 DEF CommitRejected
<1>8. CASE StartQueuedRun(c)
  BY <1>8 DEF StartQueuedRun
<1>9. CASE Answer(c) \/ StatementFails(c) \/ Interrupt(c)
  BY <1>9 DEF Answer, StatementFails, Interrupt
<1> QED
  BY <1>1, <1>2, <1>3, <1>4, <1>5, <1>6, <1>7, <1>8, <1>9 DEF Step, Perform

(* What a step may do to the tables: nothing, or one of four writes.       *)
Stored(by, i, t) ==
  log' = Append(log, [by |-> by, command |-> i, thread |-> t])
Accepts(c) ==
  /\ c \in Dispatches /\ pc[c] = "commit" /\ receipt[CommandOf[c]].status = "none"
  /\ Stored("command", CommandOf[c], ThreadOf[c])
  /\ receipt' = [receipt EXCEPT ![CommandOf[c]] =
       [status |-> "accepted", thread |-> ThreadOf[c], sequence |-> Len(log) + 1]]
Rejects(c) ==
  /\ c \in Dispatches /\ pc[c] = "reject" /\ receipt[CommandOf[c]].status = "none"
  /\ log' = log
  /\ receipt' = [receipt EXCEPT ![CommandOf[c]] =
       [status |-> "rejected", thread |-> ThreadOf[c], sequence |-> Len(log)]]
Begins(c) ==
  /\ c \in Starts /\ pc[c] = "commit"
  /\ Stored("start", NoCommand, ThreadOf[c])
  /\ receipt' = receipt

(* A step of a call leaves the tables, adds a receipt, or adds an entry.   *)
LEMMA TablesStep ==
  ASSUME NEW c \in Call, Step(c)
  PROVE  UNCHANGED durable \/ Accepts(c) \/ Rejects(c) \/ Begins(c)
<1> USE DEF durable
<1>1. CASE CommitCommand(c)
  BY <1>1 DEF CommitCommand, Store, Accepts, Stored
<1>2. CASE CommitRejected(c)
  BY <1>2 DEF CommitRejected, Rejects
<1>3. CASE StartQueuedRun(c)
  BY <1>3 DEF StartQueuedRun, Store, Begins, Stored
<1>4. CASE Dispatch(c) \/ EnterLock(c) \/ LookupReceipt(c) \/ ReplayReceipt(c) \/ Plan(c)
           \/ Answer(c) \/ StatementFails(c) \/ Interrupt(c)
  BY <1>4 DEF Dispatch, EnterLock, LookupReceipt, ReplayReceipt, Plan, Answer,
              StatementFails, Interrupt
<1> QED
  BY <1>1, <1>2, <1>3, <1>4 DEF Step, Perform

(* Tables once written stay: the log only grows, a decision is final.      *)
LEMMA TablesGrow ==
  ASSUME TypeOK, UNCHANGED durable \/ (\E c \in Call : Accepts(c) \/ Rejects(c) \/ Begins(c))
                 \/ (\E t \in Thread : Stored("provider", NoCommand, t) /\ receipt' = receipt)
  PROVE  /\ log' \in Seq([by : {"command", "start", "provider"},
                         command : Command \cup {NoCommand}, thread : Thread])
         /\ Len(log) \in Nat /\ Len(log') \in Nat /\ Len(log) <= Len(log')
         /\ \A n \in DOMAIN log : n \in DOMAIN log' /\ log'[n] = log[n]
         /\ receipt' \in [Command -> [status : {"none", "accepted", "rejected"},
                                     thread : Thread, sequence : 0..Len(log')]]
         /\ \A i \in Command : receipt[i].status # "none" => receipt'[i] = receipt[i]
<1>1. CASE UNCHANGED durable
  BY <1>1 DEF durable, TypeOK
<1>2. CASE \E c \in Call : Accepts(c)
  BY <1>2, DispatchCommand, DispatchAssumption DEF Accepts, Stored, TypeOK
<1>3. CASE \E c \in Call : Rejects(c)
  BY <1>3, DispatchCommand, DispatchAssumption DEF Rejects, TypeOK
<1>4. CASE \E c \in Call : Begins(c)
  BY <1>4, DispatchAssumption DEF Begins, Stored, TypeOK
<1>5. CASE \E t \in Thread : Stored("provider", NoCommand, t) /\ receipt' = receipt
  BY <1>5 DEF Stored, TypeOK
<1> QED
  BY <1>1, <1>2, <1>3, <1>4, <1>5

(* A crash, and a write of provider ingestion, as the invariant sees them. *)
LEMMA CrashEffect ==
  ASSUME TypeOK, Crash
  PROVE  /\ UNCHANGED <<durable, target, faults>>
         /\ \A c \in Call :
              /\ pc'[c] \in {"new", "done"} /\ stage'[c] = "out" /\ basis'[c] = 0
              /\ \/ pc[c] \in {"new", "done"} /\ pc'[c] = pc[c]
                   /\ reply'[c] = reply[c] /\ sequence'[c] = sequence[c]
                 \/ pc[c] \notin {"new", "done"} /\ pc'[c] = "done"
                   /\ reply'[c] = "lost" /\ sequence'[c] = 0
  BY DEF Crash, TypeOK

(* A write of provider ingestion adds one entry to the log.                *)
LEMMA WriteEffect ==
  ASSUME NEW t \in Thread, ProviderWrite(t)
  PROVE  /\ Stored("provider", NoCommand, t) /\ receipt' = receipt
         /\ UNCHANGED <<lock, pc, basis, answers, faults>>
  BY DEF ProviderWrite, Store, Stored

(* Every step leaves the tables alone or adds to them.                     *)
LEMMA NextTables ==
  ASSUME Next
  PROVE  UNCHANGED durable \/ (\E c \in Call : Accepts(c) \/ Rejects(c) \/ Begins(c))
         \/ (\E t \in Thread : Stored("provider", NoCommand, t) /\ receipt' = receipt)
<1>1. CASE \E c \in Call : Step(c)
  BY <1>1, TablesStep
<1>2. CASE \E t \in Thread : ProviderWrite(t)
  BY <1>2, WriteEffect
<1>3. CASE Crash
  BY <1>3 DEF Crash, durable
<1> QED
  BY <1>1, <1>2, <1>3 DEF Next, Step

(* Every action keeps the types.                                           *)
LEMMA TypeStep ==
  ASSUME TypeOK, PhaseInv, Next
  PROVE  TypeOK'
<1>0. /\ log' \in Seq([by : {"command", "start", "provider"},
                       command : Command \cup {NoCommand}, thread : Thread])
      /\ Len(log) \in Nat /\ Len(log') \in Nat /\ Len(log) <= Len(log')
      /\ receipt' \in [Command -> [status : {"none", "accepted", "rejected"},
                                   thread : Thread, sequence : 0..Len(log')]]
  BY NextTables, TablesGrow
<1>1. 0..Len(log) \subseteq 0..Len(log')
  BY <1>0
<1> DEFINE Rest ==
      /\ stage' \in [Call -> {"out", "waiting", "inside"}]
      /\ target' = ThreadOf
      /\ pc' \in [Call -> {"new", "wait", "lookup", "replay", "plan", "reject", "commit",
                           "answer", "done"}]
      /\ basis' \in [Call -> 0..Len(log')]
      /\ reply' \in [Call -> {"none", "accepted", "rejected", "conflict", "error", "lost"}]
      /\ sequence' \in [Call -> 0..Len(log')]
      /\ faults' \in 0..MaxFaults
<1> SUFFICES Rest
  BY <1>0 DEF TypeOK
<1>2. ASSUME NEW c \in Call, NEW n \in 0..Len(log), faults' = faults,
             NEW answer \in {"none", "accepted", "rejected", "conflict", "error", "lost"},
             Reply(c, answer, n)
      PROVE  Rest
  BY <1>0, <1>1, <1>2 DEF TypeOK, Reply, Goto, Lock!Leave
<1>3. 0 \in 0..Len(log)
  BY <1>0
<1>4. ASSUME NEW c \in Call, Step(c) PROVE Rest
  <2> USE <1>0, <1>1 DEF TypeOK, Reply, Goto, lock, answers, durable, Lock!Leave
  <2>1. CASE Dispatch(c)
    BY <2>1, DispatchAssumption DEF Dispatch, Lock!Request
  <2>2. CASE EnterLock(c)
    BY <2>2 DEF EnterLock, Lock!Enter
  <2>3. CASE LookupReceipt(c)
    <3>1. CASE Reply(c, "rejected", 0) \/ Reply(c, "conflict", 0)
      BY <2>3, <3>1, <1>2, <1>3 DEF LookupReceipt
    <3>2. CASE /\ pc' = [pc EXCEPT ![c] = "plan"] \/ pc' = [pc EXCEPT ![c] = "replay"]
               /\ UNCHANGED <<lock, basis, answers, faults>>
      BY <3>2
    <3> QED
      BY <2>3, <3>1, <3>2 DEF LookupReceipt
  <2>4. CASE ReplayReceipt(c)
    <3>1. receipt[CommandOf[c]].sequence \in 0..Len(log)
      BY <2>4, DispatchCommand DEF ReplayReceipt, PhaseInv
    <3>2. PICK n \in 0..Len(log) : n = receipt[CommandOf[c]].sequence
      BY <3>1
    <3>3. Reply(c, "accepted", n) /\ faults' = faults
      BY <2>4, <3>2 DEF ReplayReceipt
    <3> QED
      BY <3>3, <1>2
  <2>5. CASE Plan(c)
    BY <2>5 DEF Plan
  <2>6. CASE CommitCommand(c)
    <3>1. receipt[CommandOf[c]].sequence \in 0..Len(log)
      BY <2>6, DispatchCommand DEF CommitCommand
    <3>2. CASE receipt[CommandOf[c]].status = "none"
      <4>1. Len(log') = Len(log) + 1
        BY <2>6, <3>2 DEF CommitCommand, Store
      <4>2. sequence' = [sequence EXCEPT ![c] = Len(log) + 1] /\ pc' = [pc EXCEPT ![c] = "answer"]
            /\ UNCHANGED <<lock, basis, reply, faults>>
        BY <2>6, <3>2 DEF CommitCommand
      <4>3. Len(log) + 1 \in 0..Len(log')
        BY <4>1
      <4> QED
        BY <4>2, <4>3
    <3>3. CASE receipt[CommandOf[c]].status = "accepted"
      <4>1. PICK n \in 0..Len(log) : n = receipt[CommandOf[c]].sequence
        BY <3>1
      <4>2. /\ sequence' = [sequence EXCEPT ![c] = n] /\ pc' = [pc EXCEPT ![c] = "answer"]
            /\ UNCHANGED <<lock, basis, reply, faults>>
        BY <2>6, <3>3, <4>1 DEF CommitCommand
      <4> QED
        BY <4>2
    <3>4. CASE receipt[CommandOf[c]].status = "rejected"
      BY <2>6, <3>4, <1>2, <1>3 DEF CommitCommand
    <3> QED
      BY <2>6, <3>2, <3>3, <3>4 DEF CommitCommand
  <2>7. CASE CommitRejected(c)
    BY <2>7 DEF CommitRejected
  <2>8. CASE StartQueuedRun(c)
    BY <2>8 DEF StartQueuedRun
  <2>9. CASE Answer(c)
    BY <2>9 DEF Answer
  <2>10. CASE StatementFails(c)
    BY <2>10, DispatchAssumption DEF StatementFails, Fault
  <2>11. CASE Interrupt(c)
    BY <2>11 DEF Interrupt
  <2> QED
    BY <1>4, <2>1, <2>2, <2>3, <2>4, <2>5, <2>6, <2>7, <2>8, <2>9, <2>10, <2>11
       DEF Step, Perform
<1>5. ASSUME NEW t \in Thread, ProviderWrite(t) PROVE Rest
  BY <1>0, <1>1, <1>5, WriteEffect DEF TypeOK, lock, answers
<1>6. CASE Crash
  BY <1>0, <1>1, <1>6 DEF Crash, TypeOK, durable
<1> QED
  BY <1>4, <1>5, <1>6 DEF Next, Step

(* The locks follow the calls, and no two calls hold a thread's lock.      *)
LEMMA LockStep ==
  ASSUME TypeOK, LockInv, Next
  PROVE  LockInv'
<1>1. ASSUME NEW c \in Call, Step(c) PROVE LockInv'
  <2>1. \A d \in Call \ {c} : pc'[d] = pc[d] /\ stage'[d] = stage[d]
    BY <1>1, OthersUntouched
  <2>2. /\ stage'[c] = "inside" <=> Holding(c)'
        /\ stage'[c] = "waiting" <=> pc'[c] = "wait"
        /\ Holding(c)' /\ ~Holding(c) =>
             \A d \in Call : ThreadOf[d] = ThreadOf[c] => ~Holding(d)
    <3> USE DEF LockInv, TypeOK, Holding, Reply, Goto, lock, Lock!Leave
    <3>1. CASE Dispatch(c)
      BY <3>1 DEF Dispatch, Lock!Request
    <3>2. CASE EnterLock(c)
      BY <3>2 DEF EnterLock, Lock!Enter
    <3>3. CASE LookupReceipt(c)
      BY <3>3 DEF LookupReceipt
    <3>4. CASE ReplayReceipt(c) \/ Plan(c) \/ Answer(c) \/ StatementFails(c) \/ Interrupt(c)
      BY <3>4 DEF ReplayReceipt, Plan, Answer, StatementFails, Interrupt
    <3>5. CASE CommitCommand(c)
      BY <3>5 DEF CommitCommand
    <3>6. CASE CommitRejected(c) \/ StartQueuedRun(c)
      BY <3>6 DEF CommitRejected, StartQueuedRun
    <3> QED
      BY <1>1, <3>1, <3>2, <3>3, <3>4, <3>5, <3>6 DEF Step, Perform
  <2>3. \A d \in Call \ {c} : Holding(d)' <=> Holding(d)
    BY <2>1 DEF Holding
  <2> QED
    BY <2>1, <2>2, <2>3 DEF LockInv
<1>2. ASSUME NEW t \in Thread, ProviderWrite(t) PROVE LockInv'
  BY <1>2, WriteEffect DEF LockInv, Holding, lock
<1>3. CASE Crash
  BY <1>3, CrashEffect DEF LockInv, Holding
<1> QED
  BY <1>1, <1>2, <1>3 DEF Next, Step

(* Answers stay at the end of a call.                                      *)
LEMMA PhaseStep ==
  ASSUME TypeOK, PhaseInv, Next
  PROVE  PhaseInv'
<1>1. ASSUME NEW c \in Call, Step(c) PROVE PhaseInv'
  <2>1. \A d \in Call \ {c} : pc'[d] = pc[d] /\ reply'[d] = reply[d]
    BY <1>1, OthersUntouched
  <2>2. /\ pc'[c] \in {"lookup", "replay", "answer"} => c \in Dispatches
        /\ pc'[c] # "done" => reply'[c] = "none"
        /\ reply'[c] \in Definite => c \in Dispatches
    <3> USE DEF PhaseInv, TypeOK, Reply, Goto, answers, Definite, Dispatches
    <3>1. CASE Dispatch(c) \/ EnterLock(c) \/ Plan(c)
      BY <3>1 DEF Dispatch, EnterLock, Plan
    <3>2. CASE LookupReceipt(c)
      BY <3>2 DEF LookupReceipt
    <3>3. CASE ReplayReceipt(c) \/ Answer(c) \/ StatementFails(c) \/ Interrupt(c)
      BY <3>3 DEF ReplayReceipt, Answer, StatementFails, Interrupt
    <3>4. CASE CommitCommand(c)
      BY <3>4 DEF CommitCommand
    <3>5. CASE CommitRejected(c) \/ StartQueuedRun(c)
      BY <3>5 DEF CommitRejected, StartQueuedRun
    <3> QED
      BY <1>1, <3>1, <3>2, <3>3, <3>4, <3>5 DEF Step, Perform
  <2> QED
    BY <2>1, <2>2 DEF PhaseInv
<1>2. ASSUME NEW t \in Thread, ProviderWrite(t) PROVE PhaseInv'
  BY <1>2, WriteEffect DEF PhaseInv, answers
<1>3. CASE Crash
  BY <1>3, CrashEffect DEF PhaseInv, Definite
<1> QED
  BY <1>1, <1>2, <1>3 DEF Next, Step

(* A receipt's command is in the log, at its sequence and nowhere else.    *)
LEMMA MatchStep ==
  ASSUME TypeOK, ReceiptsMatchLog, Next
  PROVE  ReceiptsMatchLog'
<1>0. log \in Seq([by : {"command", "start", "provider"},
                   command : Command \cup {NoCommand}, thread : Thread])
  BY DEF TypeOK
<1>1. CASE UNCHANGED durable
  BY <1>1 DEF durable, ReceiptsMatchLog
<1>2. ASSUME NEW c \in Call, Accepts(c) PROVE ReceiptsMatchLog'
  <2> DEFINE k == CommandOf[c]
             entry == [by |-> "command", command |-> k, thread |-> ThreadOf[c]]
  <2>1. /\ k \in Command /\ receipt[k].status = "none"
        /\ log' = Append(log, entry)
        /\ receipt' = [receipt EXCEPT ![k] =
             [status |-> "accepted", thread |-> ThreadOf[c], sequence |-> Len(log) + 1]]
    BY <1>2, DispatchCommand DEF Accepts, Stored
  <2>2. /\ Len(log) \in Nat /\ DOMAIN log' = DOMAIN log \cup {Len(log) + 1}
        /\ Len(log) + 1 \notin DOMAIN log
        /\ log'[Len(log) + 1] = entry /\ \A n \in DOMAIN log : log'[n] = log[n]
    <3> HIDE DEF entry
    <3> QED
      BY <1>0, <2>1
  <2>3. /\ receipt'[k] = [status |-> "accepted", thread |-> ThreadOf[c], sequence |-> Len(log) + 1]
        /\ \A i \in Command \ {k} : receipt'[i] = receipt[i]
    BY <2>1 DEF TypeOK
  <2>4. entry.command = k /\ entry.by = "command" /\ entry.thread = ThreadOf[c]
    OBVIOUS
  <2>5. /\ receipt'[k].status = "accepted" /\ receipt'[k].sequence = Len(log) + 1
        /\ receipt'[k].thread = ThreadOf[c]
    BY <2>3
  <2>6. \A n \in DOMAIN log : log[n].command # k
    BY <2>1 DEF ReceiptsMatchLog
  <2>7. entry = [by |-> "command", command |-> k, thread |-> receipt'[k].thread]
    BY <2>5
  <2> HIDE DEF k, entry
  <2>8. ASSUME NEW i \in Command, i # k
        PROVE  /\ receipt'[i].status = "accepted" =>
                    /\ receipt'[i].sequence \in DOMAIN log'
                    /\ log'[receipt'[i].sequence] =
                         [by |-> "command", command |-> i, thread |-> receipt'[i].thread]
               /\ \A n \in DOMAIN log' : log'[n].command = i =>
                    receipt'[i].status = "accepted" /\ receipt'[i].sequence = n
    BY <2>2, <2>3, <2>4, <2>8 DEF ReceiptsMatchLog
  <2>9. /\ receipt'[k].sequence \in DOMAIN log'
        /\ log'[receipt'[k].sequence] =
             [by |-> "command", command |-> k, thread |-> receipt'[k].thread]
        /\ \A n \in DOMAIN log' : log'[n].command = k => receipt'[k].sequence = n
    BY <2>2, <2>5, <2>6, <2>7
  <2> QED
    BY <2>5, <2>8, <2>9 DEF ReceiptsMatchLog
<1>3. ASSUME NEW c \in Call, Rejects(c) PROVE ReceiptsMatchLog'
  BY <1>3, DispatchCommand DEF Rejects, ReceiptsMatchLog, TypeOK
<1>4. ASSUME NEW entry, entry.command = NoCommand, log' = Append(log, entry), receipt' = receipt
      PROVE  ReceiptsMatchLog'
  <2>1. /\ Len(log) \in Nat /\ DOMAIN log' = DOMAIN log \cup {Len(log) + 1}
        /\ log'[Len(log) + 1] = entry /\ \A n \in DOMAIN log : log'[n] = log[n]
    BY <1>0, <1>4
  <2> QED
    BY <1>4, <2>1, DispatchAssumption DEF ReceiptsMatchLog
<1>5. CASE \E c \in Call : Begins(c)
  BY <1>4, <1>5 DEF Begins, Stored
<1>6. CASE \E t \in Thread : Stored("provider", NoCommand, t) /\ receipt' = receipt
  BY <1>4, <1>6 DEF Stored
<1> QED
  BY <1>1, <1>2, <1>3, <1>5, <1>6, NextTables

(* What a call's own step does to its plan.                                *)
LEMMA PlanOwnStep ==
  ASSUME TypeOK, NEW c \in Call, Step(c)
  PROVE  /\ pc'[c] # "commit" \/ (basis'[c] = Len(log) /\ log' = log)
         /\ Planning(c)' => Planning(c) \/ c \in Starts
                            \/ (pc[c] = "lookup" /\ receipt[CommandOf[c]].status = "none")
         /\ Accepts(c) \/ Rejects(c) \/ Begins(c) => ~Planning(c)'
<1> USE DEF TypeOK, Reply, Goto, Planning, durable, lock, answers
<1>1. CASE Dispatch(c) \/ EnterLock(c)
  BY <1>1 DEF Dispatch, EnterLock, Accepts, Rejects, Begins
<1>2. CASE LookupReceipt(c) \/ ReplayReceipt(c) \/ Plan(c)
  BY <1>2 DEF LookupReceipt, ReplayReceipt, Plan, Accepts, Rejects, Begins
<1>3. CASE CommitCommand(c)
  BY <1>3 DEF CommitCommand
<1>4. CASE CommitRejected(c) \/ StartQueuedRun(c) \/ Answer(c)
  BY <1>4 DEF CommitRejected, StartQueuedRun, Answer
<1>5. CASE StatementFails(c) \/ Interrupt(c)
  BY <1>5 DEF StatementFails, Interrupt
<1> QED
  BY <1>1, <1>2, <1>3, <1>4, <1>5 DEF Step, Perform

(* Plans stay current, whoever takes the step.                             *)
LEMMA PlanStep ==
  ASSUME TypeOK, LockInv, PlansAreCurrent, Next
  PROVE  PlansAreCurrent'
<1>0. log \in Seq([by : {"command", "start", "provider"},
                   command : Command \cup {NoCommand}, thread : Thread])
  BY DEF TypeOK
<1>1. ASSUME NEW c \in Call, Step(c) PROVE PlansAreCurrent'
  <2> SUFFICES ASSUME NEW d \in Call, pc'[d] = "commit", NEW n \in DOMAIN log',
                      n > basis'[d], log'[n].thread = ThreadOf[d]
               PROVE  log'[n].by = "provider"
    BY DEF PlansAreCurrent
  <2>1. CASE d = c
    BY <1>1, <2>1, <1>0, PlanOwnStep
  <2>2. CASE d # c
    <3>1. pc[d] = "commit" /\ basis'[d] = basis[d]
      BY <1>1, <2>2, OthersUntouched
    <3>2. ASSUME n \in DOMAIN log, log'[n] = log[n] PROVE log'[n].by = "provider"
      BY <3>1, <3>2 DEF PlansAreCurrent
    <3>3. ASSUME NEW entry, log' = Append(log, entry)
          PROVE  \/ n \in DOMAIN log /\ log'[n] = log[n]
                 \/ log'[n] = entry
      BY <1>0, <3>3
    <3>4. ASSUME Accepts(c) \/ Begins(c), ThreadOf[c] = ThreadOf[d] PROVE FALSE
      BY <2>2, <3>1, <3>4 DEF Accepts, Begins, LockInv, Holding
    <3>5. CASE Accepts(c) \/ Begins(c)
      BY <3>2, <3>3, <3>4, <3>5 DEF Accepts, Begins, Stored
    <3>6. CASE log' = log
      BY <3>2, <3>6
    <3> QED
      BY <1>1, <3>5, <3>6, TablesStep DEF Rejects, durable
  <2> QED
    BY <2>1, <2>2
<1>2. ASSUME NEW t \in Thread, ProviderWrite(t) PROVE PlansAreCurrent'
  <2> DEFINE entry == [by |-> "provider", command |-> NoCommand, thread |-> t]
  <2>1. log' = Append(log, entry) /\ pc' = pc /\ basis' = basis
    BY <1>2, WriteEffect DEF Stored
  <2> HIDE DEF entry
  <2>2. \A n \in DOMAIN log' : (n \in DOMAIN log /\ log'[n] = log[n]) \/ log'[n] = entry
    BY <1>0, <2>1
  <2>3. entry.by = "provider"
    BY DEF entry
  <2> QED
    BY <2>1, <2>2, <2>3 DEF PlansAreCurrent
<1>3. CASE Crash
  BY <1>3, CrashEffect DEF PlansAreCurrent
<1> QED
  BY <1>1, <1>2, <1>3 DEF Next, Step

(* What a call is told at the end of its own step, and what it finds.      *)
LEMMA AnswerOwnStep ==
  ASSUME TypeOK, PhaseInv, AnswerInv, PastLookup, NEW c \in Dispatches, Step(c)
  PROVE  LET r == receipt[CommandOf[c]] s == receipt'[CommandOf[c]] IN
         /\ pc'[c] = "replay" => r = s /\ r.status = "accepted" /\ r.thread = ThreadOf[c]
         /\ pc'[c] = "answer" \/ reply'[c] = "accepted" =>
              s.status = "accepted" /\ sequence'[c] = s.sequence
         /\ reply'[c] = "rejected" =>
              sequence'[c] = 0 /\ (s.status = "rejected" \/ Foreign(c)')
         /\ reply'[c] \in Definite =>
              \/ Planning(c) \/ pc[c] \in {"replay", "answer"}
              \/ pc[c] = "lookup" /\ r.status = "rejected"
         /\ pc'[c] = "answer" => Planning(c)
<1> DEFINE r == receipt[CommandOf[c]]
           s == receipt'[CommandOf[c]]
<1>0. c \in Call /\ CommandOf[c] \in Command
  BY DispatchCommand DEF Dispatches
<1> USE <1>0 DEF TypeOK, Reply, Goto, Definite, durable, lock, answers
<1>1. CASE Dispatch(c) \/ EnterLock(c) \/ Plan(c)
  BY <1>1 DEF Dispatch, EnterLock, Plan, PhaseInv
<1>2. CASE LookupReceipt(c)
  BY ZenonT(30), <1>2 DEF LookupReceipt, CanReplay, PhaseInv
<1>3. CASE ReplayReceipt(c) \/ Answer(c)
  BY <1>3 DEF ReplayReceipt, Answer, AnswerInv
<1>4. CASE CommitCommand(c)
  <2>1. pc[c] = "commit" /\ reply[c] = "none"
    BY <1>4 DEF CommitCommand, PhaseInv
  <2>2. CASE r.status = "none"
    BY <1>4, <2>1, <2>2 DEF CommitCommand, Planning
  <2>3. CASE r.status = "accepted"
    BY <1>4, <2>1, <2>3 DEF CommitCommand, Planning
  <2>4. CASE r.status = "rejected"
    BY <1>4, <2>1, <2>4 DEF CommitCommand, Planning
  <2> QED
    BY <2>2, <2>3, <2>4
<1>5. CASE CommitRejected(c)
  <2>1. /\ pc[c] = "reject" /\ pc'[c] = "done" /\ reply'[c] = "rejected" /\ sequence'[c] = 0
        /\ receipt' = IF r.status # "none" THEN receipt
                      ELSE [receipt EXCEPT ![CommandOf[c]] =
                        [status |-> "rejected", thread |-> ThreadOf[c], sequence |-> Len(log)]]
    BY <1>5 DEF CommitRejected
  <2>2. CASE r.status = "none"
    BY <2>1, <2>2 DEF Planning
  <2>3. CASE r.status # "none"
    BY <2>1, <2>3 DEF Planning, PastLookup, Foreign
  <2> QED
    BY <2>2, <2>3
<1>6. CASE StartQueuedRun(c)
  BY <1>6 DEF StartQueuedRun, Dispatches
<1>7. CASE StatementFails(c) \/ Interrupt(c)
  BY <1>7 DEF StatementFails, Interrupt
<1> QED
  BY <1>1, <1>2, <1>3, <1>4, <1>5, <1>6, <1>7 DEF Step, Perform

(* A step changes no receipt, or decides the actor's own command.          *)
LEMMA ReceiptStep ==
  ASSUME TypeOK, NEW c \in Call, Step(c)
  PROVE  \/ receipt' = receipt
         \/ /\ c \in Dispatches /\ Planning(c) /\ ~Planning(c)'
            /\ receipt[CommandOf[c]].status = "none"
            /\ receipt'[CommandOf[c]].status # "none"
            /\ receipt'[CommandOf[c]].thread = ThreadOf[c]
            /\ \A i \in Command : i # CommandOf[c] => receipt'[i] = receipt[i]
<1>1. CASE UNCHANGED durable \/ Begins(c)
  BY <1>1 DEF durable, Begins
<1>2. CASE Accepts(c)
  BY <1>2, PlanOwnStep, DispatchCommand DEF Accepts, Planning, TypeOK
<1>3. CASE Rejects(c)
  BY <1>3, PlanOwnStep, DispatchCommand DEF Rejects, Planning, TypeOK
<1> QED
  BY <1>1, <1>2, <1>3, TablesStep

(* A call told something definite has a decided command, which stays.      *)
LEMMA Decided ==
  ASSUME TypeOK, AnswerInv, Next, NEW c \in Dispatches,
         reply[c] \in Definite \/ pc[c] \in {"replay", "answer"}
  PROVE  /\ receipt[CommandOf[c]].status # "none"
         /\ receipt'[CommandOf[c]] = receipt[CommandOf[c]]
<1>1. receipt[CommandOf[c]].status # "none"
  BY DEF AnswerInv, Definite, Foreign
<1> QED
  BY <1>1, NextTables, TablesGrow, DispatchCommand

(* What callers were told stays what the receipt says.                     *)
LEMMA AnswerStep ==
  ASSUME TypeOK, PhaseInv, AnswerInv, PastLookup, Next
  PROVE  AnswerInv'
<1> SUFFICES ASSUME NEW d \in Dispatches
             PROVE  LET r == receipt'[CommandOf[d]] IN
                    /\ pc'[d] = "replay" => r.status = "accepted" /\ r.thread = ThreadOf[d]
                    /\ pc'[d] = "answer" \/ reply'[d] = "accepted" =>
                         r.status = "accepted" /\ sequence'[d] = r.sequence
                    /\ reply'[d] = "rejected" =>
                         sequence'[d] = 0 /\ (r.status = "rejected" \/ Foreign(d)')
  BY DEF AnswerInv, Dispatches, Starts
<1>0. d \in Call
  BY DEF Dispatches
<1>1. CASE /\ pc'[d] \in {"replay", "answer"} => pc'[d] = pc[d]
           /\ reply'[d] \in Definite => reply'[d] = reply[d]
           /\ pc'[d] = "answer" \/ reply'[d] \in Definite => sequence'[d] = sequence[d]
  BY <1>1, Decided DEF AnswerInv, Foreign, Definite
<1>2. CASE Step(d)
  BY <1>2, AnswerOwnStep
<1>3. ASSUME NEW c \in Call, c # d, Step(c)
      PROVE  pc'[d] = pc[d] /\ reply'[d] = reply[d] /\ sequence'[d] = sequence[d]
  BY <1>0, <1>3, OthersUntouched
<1>4. ASSUME NEW t \in Thread, ProviderWrite(t)
      PROVE  pc'[d] = pc[d] /\ reply'[d] = reply[d] /\ sequence'[d] = sequence[d]
  BY <1>4, WriteEffect DEF answers
<1>5. CASE Crash
  BY <1>0, <1>1, <1>5, CrashEffect DEF Definite
<1> QED
  BY <1>1, <1>2, <1>3, <1>4, <1>5 DEF Next, Step

(* What a call saw at its lookup stays true until it commits.              *)
LEMMA PastStep ==
  ASSUME TypeOK, LockInv, PhaseInv, AnswerInv, PastLookup, Next
  PROVE  PastLookup'
<1> SUFFICES ASSUME NEW e \in Dispatches
             PROVE  /\ Planning(e)' => \/ receipt'[CommandOf[e]].status = "none"
                                       \/ receipt'[CommandOf[e]].thread # ThreadOf[e]
                    /\ \A d \in Dispatches :
                         /\ e # d /\ Twins(e, d)
                         /\ \/ Planning(e)'
                            \/ Foreign(e)' /\ (pc'[e] = "answer" \/ reply'[e] \in Definite)
                         => reply'[d] \notin Definite
  BY DEF PastLookup, Dispatches, Starts, Twins
<1>0. e \in Call /\ e \notin Starts /\ CommandOf[e] \in Command
  BY DispatchCommand DEF Dispatches
<1>1. Planning(e)' => \/ receipt'[CommandOf[e]].status = "none"
                      \/ receipt'[CommandOf[e]].thread # ThreadOf[e]
  <2> SUFFICES ASSUME Planning(e)' PROVE \/ receipt'[CommandOf[e]].status = "none"
                                         \/ receipt'[CommandOf[e]].thread # ThreadOf[e]
    OBVIOUS
  <2>1. CASE Step(e)
    BY <1>0, <2>1, PlanOwnStep, ReceiptStep DEF PastLookup
  <2>2. ASSUME NEW x \in Call, x # e, Step(x)
        PROVE  \/ receipt'[CommandOf[e]].status = "none"
               \/ receipt'[CommandOf[e]].thread # ThreadOf[e]
    <3>1. Planning(e)
      BY <1>0, <2>2, OthersUntouched DEF Planning
    <3>2. Planning(x) => ThreadOf[x] # ThreadOf[e]
      BY <1>0, <2>2, <3>1 DEF LockInv, Holding, Planning
    <3> QED
      BY <1>0, <2>2, <3>1, <3>2, ReceiptStep DEF PastLookup
  <2>3. ASSUME NEW t \in Thread, ProviderWrite(t)
        PROVE  \/ receipt'[CommandOf[e]].status = "none"
               \/ receipt'[CommandOf[e]].thread # ThreadOf[e]
    BY <2>3, WriteEffect DEF PastLookup, Planning
  <2>4. CASE Crash
    BY <1>0, <2>4, CrashEffect DEF Planning
  <2> QED
    BY <2>1, <2>2, <2>3, <2>4 DEF Next, Step
<1>2. ASSUME NEW d \in Dispatches, e # d, Twins(e, d), reply'[d] \in Definite,
             \/ Planning(e)'
             \/ Foreign(e)' /\ (pc'[e] = "answer" \/ reply'[e] \in Definite)
      PROVE  FALSE
  <2>0. d \in Call
    BY DEF Dispatches
  <2> USE DEF Twins
  <2>1. CASE Step(d)
    <3>1. /\ Planning(d) \/ pc[d] \in {"replay", "answer"}
             \/ (pc[d] = "lookup" /\ receipt[CommandOf[d]].status = "rejected")
      BY <1>2, <2>1, AnswerOwnStep
    <3>2. pc'[e] = pc[e] /\ reply'[e] = reply[e]
      BY <1>0, <1>2, <2>0, <2>1, OthersUntouched
    <3>3. ~Holding(e)
      BY <1>0, <1>2, <2>0, <3>1 DEF LockInv, Holding, Planning
    <3>4. Foreign(e)' /\ reply[e] \in Definite
      BY <1>2, <3>2, <3>3 DEF Holding, Planning
    <3>5. Foreign(e) /\ Foreign(d)
      BY <1>2, <3>4, Decided DEF Foreign
    <3> QED
      BY <1>2, <3>1, <3>4, <3>5 DEF PastLookup, AnswerInv, Foreign
  <2>2. CASE Step(e)
    <3>1. reply[d] \in Definite
      BY <1>0, <1>2, <2>0, <2>2, OthersUntouched
    <3>2. receipt[CommandOf[e]].status # "none" /\ (Foreign(e)' => Foreign(e))
      BY <1>2, <3>1, Decided DEF Foreign
    <3>3. ~Planning(e)
      BY <1>2, <3>1 DEF PastLookup
    <3>4. ~Planning(e)'
      BY <1>0, <2>2, <3>2, <3>3, PlanOwnStep
    <3>5. Foreign(e) /\ (pc'[e] = "answer" \/ reply'[e] \in Definite)
      BY <1>2, <3>2, <3>4
    <3>6. pc[e] \in {"replay", "answer"}
          \/ (pc[e] = "lookup" /\ receipt[CommandOf[e]].status = "rejected")
      BY <2>2, <3>3, <3>5, AnswerOwnStep
    <3> QED
      BY <1>2, <3>1, <3>5, <3>6 DEF PastLookup, AnswerInv, Foreign
  <2>3. CASE /\ pc'[e] \in {"answer", "plan", "reject", "commit"} => pc'[e] = pc[e]
             /\ reply'[e] \in Definite => reply'[e] = reply[e]
             /\ reply'[d] = reply[d]
    <3>1. Foreign(e)' => Foreign(e)
      BY <1>2, <2>3, Decided DEF Foreign
    <3> QED
      BY <1>2, <2>3, <3>1 DEF PastLookup, Planning
  <2>4. ASSUME NEW x \in Call, x # e, x # d, Step(x)
        PROVE  pc'[e] = pc[e] /\ reply'[e] = reply[e] /\ reply'[d] = reply[d]
    BY <1>0, <2>0, <2>4, OthersUntouched
  <2>5. ASSUME NEW t \in Thread, ProviderWrite(t)
        PROVE  pc'[e] = pc[e] /\ reply'[e] = reply[e] /\ reply'[d] = reply[d]
    BY <2>5, WriteEffect DEF answers
  <2>6. CASE Crash
    BY <1>0, <1>2, <2>0, <2>3, <2>6, CrashEffect DEF Definite
  <2> QED
    BY <2>1, <2>2, <2>3, <2>4, <2>5, <2>6 DEF Next, Step
<1> QED
  BY <1>1, <1>2

(* After every step a receipt still is that of a call.                     *)
LEMMA OriginStep ==
  ASSUME TypeOK, OriginInv, Next
  PROVE  OriginInv'
<1> SUFFICES ASSUME NEW i \in Command, receipt'[i].status # "none"
             PROVE  \E d \in Dispatches : CommandOf[d] = i /\ ThreadOf[d] = receipt'[i].thread
  BY DEF OriginInv, Dispatches, Starts
<1>1. ASSUME NEW c \in Call, Step(c)
      PROVE  \E d \in Dispatches : CommandOf[d] = i /\ ThreadOf[d] = receipt'[i].thread
  BY <1>1, ReceiptStep DEF OriginInv
<1>2. CASE receipt' = receipt
  BY <1>2 DEF OriginInv
<1> QED
  BY <1>1, <1>2, WriteEffect DEF Next, Step, Crash, durable

(* The strengthened invariant holds in every reachable state.              *)
THEOREM Inductive == Spec => []IInv
<1>1. IInv /\ [Next]_vars => IInv'
  <2> SUFFICES ASSUME IInv, [Next]_vars PROVE IInv'
    OBVIOUS
  <2>1. CASE Next
    BY <2>1, TypeStep, LockStep, PhaseStep, MatchStep, PlanStep, AnswerStep, PastStep,
       OriginStep DEF IInv
  <2>2. CASE UNCHANGED vars
    <3> USE <2>2 DEF vars, durable, lock, answers, IInv
    <3>1. (TypeOK /\ LockInv /\ PhaseInv)'
      BY DEF TypeOK, LockInv, PhaseInv, Holding
    <3>2. (ReceiptsMatchLog /\ PlansAreCurrent /\ OriginInv)'
      BY DEF ReceiptsMatchLog, PlansAreCurrent, OriginInv
    <3>3. (AnswerInv /\ PastLookup)'
      BY DEF AnswerInv, PastLookup, Foreign, Planning, Twins
    <3> QED
      BY <3>1, <3>2, <3>3
  <2> QED
    BY <2>1, <2>2
<1> QED
  BY <1>1, InitIInv, PTL DEF Spec

-----------------------------------------------------------------------------
(* Every variable stays in its type.                                       *)
THEOREM TypeCorrect == Spec => []TypeOK
<1>1. IInv => TypeOK
  BY DEF IInv
<1> QED
  BY <1>1, Inductive, PTL

(* Receipts and event store agree: a command's events are stored exactly   *)
(* once, and exactly when its receipt says accepted (commitCommand).       *)
THEOREM StoredOnce == Spec => []ReceiptsMatchLog
<1>1. IInv => ReceiptsMatchLog
  BY DEF IInv
<1> QED
  BY <1>1, Inductive, PTL

(* What a plan is committed on is what it read, provider events apart      *)
(* (threadDispatch.withLock around plan and commit).                       *)
THEOREM PlannedOnCurrent == Spec => []PlansAreCurrent
<1>1. IInv => PlansAreCurrent
  BY DEF IInv
<1> QED
  BY <1>1, Inductive, PTL

(* Two callers of one command on one thread are told the same outcome.     *)
THEOREM Idempotent == Spec => []SameAnswer
<1>1. IInv => SameAnswer
  <2> SUFFICES ASSUME IInv, NEW c \in Dispatches, NEW d \in Dispatches, Twins(c, d),
                      reply[c] \in Definite, reply[d] \in Definite
               PROVE  reply[c] = reply[d] /\ sequence[c] = sequence[d]
    BY DEF SameAnswer, Twins
  <2>1. Foreign(c) \/ Foreign(d) => c = d
    BY DEF IInv, PastLookup, Twins, Foreign
  <2> QED
    BY <2>1 DEF IInv, AnswerInv, Twins, Foreign, Definite
<1> QED
  BY <1>1, Inductive, PTL

-----------------------------------------------------------------------------
(* Where a command id is used for one thread only, dispatch implements the *)
(* abstract promise: decided once, and nothing but the decision is told.   *)
THEOREM Refinement == Spec => DecidesOnce
<1> DEFINE Verdict == [i \in Command |-> IF receipt[i].status = "none" THEN "open"
                                        ELSE receipt[i].status]
           Told == [c \in Proper |-> IF reply[c] \in {"accepted", "rejected"} THEN reply[c]
                                     ELSE "nothing"]
<1>0. \A c \in Proper : c \in Dispatches /\ c \in Call
  BY DEF Proper, Dispatches
<1>1. Init => Once!Init
  BY <1>0 DEF Init, Once!Init, NoReceipt
<1>2. IInv /\ IInv' /\ [Next]_vars => [Once!Next]_<<Verdict, Told>>
  <2> SUFFICES ASSUME IInv, IInv', Next PROVE [Once!Next]_<<Verdict, Told>>
    BY DEF vars, durable, answers
  <2>0. \A c \in Proper : ~Foreign(c) /\ ~Foreign(c)'
    BY <1>0, DispatchCommand DEF IInv, OriginInv, Foreign, Proper
  <2>1. ASSUME NEW c \in Call, Step(c) PROVE [Once!Next]_<<Verdict, Told>>
    <3>1. \A d \in Call \ {c} : reply'[d] = reply[d]
      BY <2>1, OthersUntouched DEF IInv
    <3>2. reply[c] = "none"
      BY <2>1 DEF IInv, PhaseInv, Step, Perform, Dispatch, EnterLock, LookupReceipt,
         ReplayReceipt, Plan, CommitCommand, CommitRejected, StartQueuedRun, Answer,
         StatementFails, Interrupt, Holding
    <3>3. c \in Proper /\ reply'[c] \in Definite => Verdict'[CommandOf[c]] = reply'[c]
      BY <1>0, <2>0, DispatchCommand DEF IInv, AnswerInv, Definite
    <3>4. \/ Verdict' = Verdict
          \/ /\ Verdict[CommandOf[c]] = "open" /\ CommandOf[c] \in Command
             /\ \E v \in {"accepted", "rejected"} : Verdict' = [Verdict EXCEPT ![CommandOf[c]] = v]
      <4>1. CASE receipt' = receipt
        BY <4>1
      <4>2. CASE receipt' # receipt
        <5> DEFINE i == CommandOf[c]
        <5>1. /\ i \in Command /\ receipt[i].status = "none" /\ receipt'[i].status # "none"
              /\ \A l \in Command : l # i => receipt'[l] = receipt[l]
          BY <2>1, <4>2, ReceiptStep, DispatchCommand DEF IInv
        <5>2. PICK v \in {"accepted", "rejected"} : v = receipt'[i].status
          BY <5>1 DEF IInv, TypeOK
        <5> HIDE DEF i
        <5>3. Verdict' = [Verdict EXCEPT ![i] = v] /\ Verdict[i] = "open"
          BY <5>1, <5>2
        <5> QED
          BY <5>1, <5>3 DEF i
      <4> QED
        BY <4>1, <4>2
    <3> HIDE DEF Verdict
    <3>5. CASE c \in Proper /\ reply'[c] \in Definite
      <4>1. /\ Told[c] = "nothing" /\ Verdict'[CommandOf[c]] # "open"
            /\ Told' = [Told EXCEPT ![c] = Verdict'[CommandOf[c]]]
        BY <1>0, <3>1, <3>2, <3>3, <3>5 DEF Definite
      <4>2. Once!Tell(c)
        BY <4>1 DEF Once!Tell, Verdict
      <4> QED
        BY <3>4, <3>5, <4>2 DEF Once!Next, Once!Decide, Verdict
    <3>6. CASE ~(c \in Proper /\ reply'[c] \in Definite)
      <4>1. Told' = Told
        BY <1>0, <3>1, <3>2, <3>6 DEF Definite
      <4> QED
        BY <3>4, <4>1 DEF Once!Next, Once!Decide, Verdict
    <3> QED
      BY <3>5, <3>6
  <2>2. ASSUME NEW t \in Thread, ProviderWrite(t) PROVE UNCHANGED <<Verdict, Told>>
    BY <2>2, WriteEffect DEF answers
  <2>3. CASE Crash
    <3>1. \A c \in Proper : Told'[c] = Told[c]
      BY <1>0, <2>3, CrashEffect DEF IInv, PhaseInv
    <3>2. UNCHANGED <<Verdict, Told>>
      BY <2>3, <3>1 DEF Crash, durable
    <3> QED
      BY <3>2
  <2> QED
    BY <2>1, <2>2, <2>3 DEF Next, Step
<1> QED
  BY <1>1, <1>2, Inductive, PTL DEF Spec, DecidesOnce, Once!Spec
=============================================================================
