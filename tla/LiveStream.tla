----------------------------- MODULE LiveStream -----------------------------
(***************************************************************************)
(* One client's view of one thread: from the event store through the live  *)
(* hub (EventSink.ts), the bounded live buffer (LiveStreamBudget.ts) and    *)
(* the socket subscription (ws.ts) to the client's projection (client-     *)
(* runtime/src/state/threads.ts), with its first load over HTTP and its    *)
(* caches, across lost connections, overflowing buffers, views that are    *)
(* closed and opened again, and restarts of the server and the client.     *)
(*                                                                         *)
(* Abstractions: an event is its sequence, a commit stores one; a replay   *)
(* is delivered and applied item by item; a bounded snapshot, whose older  *)
(* history is paged, is a snapshot; deletions of the thread and the        *)
(* coalescer of tool updates, a second buffer of the same kind, are left   *)
(* out.                                                                    *)
(***************************************************************************)
EXTENDS Naturals, Sequences, FiniteSetsExt

CONSTANTS
  Thread,
  Viewed,     \* the thread the client looks at
  MaxReplay,  \* THREAD_RESUME_MAX_REPLAY_EVENTS
  MaxItems,   \* LIVE_STREAM_MAX_ITEMS
  MaxEvents,  \* bound: length of the store
  MaxDrops,   \* bound: lost connections, closed views and restarts
  Ordered,    \* events are published in the order of their commits
  Prompt      \* buffered values are applied before an HTTP request is answered

ASSUME StreamAssumption ==
  /\ Viewed \in Thread
  /\ MaxReplay \in Nat /\ MaxItems \in Nat \ {0}
  /\ MaxEvents \in Nat \ {0} /\ MaxDrops \in Nat
  /\ Ordered \in BOOLEAN /\ Prompt \in BOOLEAN

VARIABLES
  log,          \* orchestration_events: whose event each sequence is
  unpublished,  \* committed, not yet published
  phase, hub,   \* the subscription, its PubSub backlog
  load,         \* sequence of the HTTP snapshot on its way, 0 for none
  position, through,  \* replay has reached position, ends at throughSequence
  queue,        \* retained live events
  wire,         \* the batch waiting for its ACK
  inbox,        \* received by the client, not yet applied
  cursor,       \* lastSequence
  applying,     \* it is ahead of the projection by the item that is applied
  view, saved,  \* the projection, as how often each event is in it, and the
                \* cursor retained with it for the next view of the thread
  disk,         \* both in the client's cache
  drops

store == <<log, unpublished>>
server == <<phase, hub, load, position, through, queue>>
kept == <<view, saved, disk>>
client == <<cursor, applying, kept>>
vars == <<store, server, wire, inbox, client, drops>>

Event(n) == [kind |-> "event", sequence |-> n]
Snapshot(n) == [kind |-> "snapshot", sequence |-> n]
Item == [kind : {"event", "snapshot"}, sequence : 1..MaxEvents]

TypeOK ==
  /\ log \in Seq(Thread) /\ Len(log) \in 1..MaxEvents
  /\ unpublished \subseteq DOMAIN log
  /\ phase \in {"none", "loading", "unloaded", "head", "open", "tail", "failed"}
  /\ load \in 0..Len(log)
  /\ hub \in Seq(DOMAIN log)
  /\ position \in 0..Len(log) /\ through \in 0..Len(log)
  /\ queue \in Seq(DOMAIN log)
  /\ wire \in Seq(Item) /\ inbox \in Seq(Item)
  /\ cursor \in 0..Len(log) /\ saved \in 0..Len(log)
  /\ applying \in BOOLEAN
  /\ view \in [1..MaxEvents -> Nat]
  /\ disk \in [cursor : 0..Len(log), view : [1..MaxEvents -> Nat]]
  /\ drops \in 0..MaxDrops

(* What a projection contains that has seen exactly the events up to n.    *)
Prefix(n) ==
  [m \in 1..MaxEvents |-> IF m <= n /\ m \in DOMAIN log /\ log[m] = Viewed THEN 1 ELSE 0]

(* The thread exists; the client knows nothing of it, its cursor is 0.     *)
Init ==
  /\ log = <<Viewed>>
  /\ unpublished = {}
  /\ phase = "none"
  /\ hub = <<>> /\ queue = <<>> /\ wire = <<>> /\ inbox = <<>>
  /\ position = 0 /\ through = 0
  /\ load = 0
  /\ cursor = 0 /\ saved = 0 /\ applying = FALSE
  /\ view = [m \in 1..MaxEvents |-> 0]
  /\ disk = [cursor |-> 0, view |-> view]
  /\ drops = 0

-----------------------------------------------------------------------------
(* The writers.                                                            *)

Commit(t) ==
  /\ Len(log) < MaxEvents
  /\ log' = Append(log, t)
  /\ unpublished' = unpublished \cup {Len(log) + 1}
  /\ UNCHANGED <<server, wire, inbox, client, drops>>

Subscribed == phase \in {"open", "tail"}

(* publishAll, a step of its own: the writer may be switched out after its *)
(* transaction.  Only then can another one overtake it.                    *)
Publish(n) ==
  /\ n \in unpublished
  /\ Ordered => \A m \in unpublished : n <= m
  /\ unpublished' = unpublished \ {n}
  /\ hub' = IF Subscribed THEN Append(hub, n) ELSE hub
  /\ UNCHANGED <<log, phase, load, position, through, queue, wire, inbox, client, drops>>

-----------------------------------------------------------------------------
(* The server's end of the subscription.                                   *)

ViewedIn(from, upto) == {n \in from + 1 .. upto : n \in DOMAIN log /\ log[n] = Viewed}

(* Faulty variants are named for the mistake they make.                    *)
HighWaterIsNext == Max(ViewedIn(0, Len(log))) + 1

(* latestAgentSequence, and the sequence of getThreadSnapshot.             *)
HighWater == Max(ViewedIn(0, Len(log)))

(* Events still to be replayed.                                            *)
Pending == ViewedIn(position, through)

Close == hub' = <<>> /\ queue' = <<>>

(* makeSubscribeInput: a client without a projection loads one over HTTP.  *)
Known == view[1] > 0     \* event 1 creates the thread

StartLoad ==
  /\ phase = "none" /\ ~Known /\ phase' = "loading"
  /\ UNCHANGED <<store, hub, load, position, through, queue, wire, inbox, client, drops>>

AnswerLoad ==
  /\ phase = "loading" /\ load = 0 /\ load' = HighWater
  /\ UNCHANGED <<store, phase, hub, position, through, queue, wire, inbox, client, drops>>

(* An HTTP failure: the socket is asked for a snapshot.                    *)
LoadFails ==
  /\ phase = "loading" /\ phase' = "unloaded" /\ load' = 0
  /\ UNCHANGED <<store, hub, position, through, queue, wire, inbox, client, drops>>

(* subscribeOrchestrationV2Thread: the client resumes after its cursor if  *)
(* it has a projection and the gap is short, in events and in bytes, and   *)
(* gets a snapshot otherwise.                                              *)
Subscribe ==
  /\ phase' = "head"
  /\ through' = HighWater
  /\ \/ /\ phase = "none" /\ Known
        /\ Cardinality(ViewedIn(cursor, HighWater)) <= MaxReplay
        /\ position' = cursor
        /\ UNCHANGED wire
     \/ /\ phase = "unloaded" \/ (phase = "none" /\ Known)
        /\ position' = HighWater /\ wire' = <<Snapshot(HighWater)>>
  /\ UNCHANGED <<store, hub, load, queue, inbox, client, drops>>

(* The first part is delivered: eventStreamFrom subscribes to the hub.     *)
OpenLive ==
  /\ phase = "head" /\ Pending = {} /\ wire = <<>>
  /\ phase' = "open"
  /\ UNCHANGED <<store, hub, load, position, through, queue, wire, inbox, client, drops>>

(* latestSequence, of all threads: the gap since the first part.           *)
ReadHighWater ==
  /\ phase = "open"
  /\ phase' = "tail"
  /\ position' = through /\ through' = Len(log)
  /\ UNCHANGED <<store, hub, load, queue, wire, inbox, client, drops>>

WantedExceptNext(n) == n > through + 1 /\ log[n] = Viewed
Wanted(n) == n > through /\ log[n] = Viewed

(* retain: queued events and the batch in flight share one budget.         *)
BudgetIsSpent == Len(queue) + Len(wire) >= MaxItems

(* The buffer drops what it cannot keep.                                   *)
OverflowDropsEvent ==
  hub' = (IF hub = <<>> THEN hub ELSE Tail(hub)) /\ UNCHANGED <<phase, queue>>

(* overflow fails the subscription; what is in flight was already sent.    *)
Overflow == phase' = "failed" /\ Close

(* The fiber that moves events from the hub to the queue.                  *)
Drain ==
  /\ Subscribed /\ hub # <<>>
  /\ \/ ~Wanted(Head(hub)) /\ hub' = Tail(hub) /\ UNCHANGED <<phase, queue>>
     \/ /\ Wanted(Head(hub)) /\ ~BudgetIsSpent
        /\ queue' = Append(queue, Head(hub)) /\ hub' = Tail(hub)
        /\ UNCHANGED phase
     \/ Wanted(Head(hub)) /\ BudgetIsSpent /\ Overflow
  /\ UNCHANGED <<store, load, position, through, wire, inbox, client, drops>>

(* The next replayed event; the second replay is charged to the budget.    *)
PullReplay ==
  /\ phase \in {"head", "tail"} /\ Pending # {} /\ wire = <<>>
  /\ \/ phase = "tail" /\ BudgetIsSpent /\ Overflow /\ UNCHANGED <<position, wire>>
     \/ /\ phase = "head" \/ ~BudgetIsSpent
        /\ position' = Min(Pending)
        /\ wire' = <<Event(position')>>
        /\ UNCHANGED <<phase, hub, queue>>
  /\ UNCHANGED <<store, load, through, inbox, client, drops>>

(* After the replay, retained events it already held are released ...      *)
DiscardReplayed ==
  /\ phase = "tail" /\ Pending = {} /\ wire = <<>>
  /\ queue # <<>> /\ Head(queue) <= through
  /\ queue' = Tail(queue)
  /\ UNCHANGED <<store, phase, hub, load, position, through, wire, inbox, client, drops>>

(* ... and the others delivered, as many as there are at the time.         *)
PullLive ==
  /\ phase = "tail" /\ Pending = {} /\ wire = <<>>
  /\ \E k \in 1..Len(queue) :
       /\ \A i \in 1..k : queue[i] > through
       /\ wire' = [i \in 1..k |-> Event(queue[i])]
       /\ queue' = SubSeq(queue, k + 1, Len(queue))
  /\ UNCHANGED <<store, phase, hub, load, position, through, inbox, client, drops>>

-----------------------------------------------------------------------------
(* The client.                                                             *)

(* A batch arrives and is acknowledged.                                    *)
Receive ==
  /\ wire # <<>>
  /\ inbox' = inbox \o wire /\ wire' = <<>>
  /\ UNCHANGED <<store, server, client, drops>>

AnyEvent(n) == TRUE
(* applyEventsLocked skips what its projection already holds.              *)
Fresh(n) == n > cursor

(* remember, and the cache that is written for some projections.           *)
Remember ==
  saved' = cursor' /\ disk' \in {disk, [cursor |-> saved', view |-> view']}

(* applyItems, under applyLock: the cursor is set first, then the          *)
(* projection.                                                             *)
Advance ==
  /\ inbox # <<>> /\ ~applying
  /\ LET item == Head(inbox) IN
     IF item.kind = "snapshot" \/ Fresh(item.sequence)
     THEN cursor' = item.sequence /\ applying' = TRUE /\ UNCHANGED inbox
     ELSE inbox' = Tail(inbox) /\ UNCHANGED <<cursor, applying>>
  /\ UNCHANGED <<store, server, wire, kept, drops>>

Apply ==
  /\ applying /\ applying' = FALSE
  /\ inbox' = Tail(inbox)
  /\ \/ Head(inbox).kind = "snapshot" /\ view' = Prefix(cursor)
     \/ Head(inbox).kind = "event" /\ Known /\ view' = [view EXCEPT ![cursor] = @ + 1]
     \/ Head(inbox).kind = "event" /\ ~Known /\ UNCHANGED view
  /\ UNCHANGED cursor /\ Remember
  /\ UNCHANGED <<store, server, wire, drops>>

(* The snapshot from HTTP is applied; its answer was sent after everything *)
(* that earlier subscriptions have left in the buffer.                     *)
InstallLoad ==
  /\ phase = "loading" /\ load # 0 /\ ~applying
  /\ Prompt => inbox = <<>>
  /\ phase' = "none" /\ load' = 0
  /\ cursor' = load /\ view' = Prefix(load) /\ Remember
  /\ UNCHANGED <<store, hub, position, through, queue, wire, inbox, applying, drops>>

(* The client learns of the failure, waits and subscribes again.           *)
Retry ==
  /\ phase = "failed" /\ wire = <<>>
  /\ phase' = "none"
  /\ UNCHANGED <<store, hub, load, position, through, queue, wire, inbox, client, drops>>

Drop == drops < MaxDrops /\ drops' = drops + 1
Unsubscribe == phase' = "none" /\ load' = 0 /\ Close /\ wire' = <<>>

(* The connection is lost or replaced; values the client has buffered may  *)
(* still be applied.                                                       *)
LoseConnection ==
  /\ Drop /\ phase # "none" /\ Unsubscribe
  /\ inbox' \in {inbox, IF applying THEN <<Head(inbox)>> ELSE <<>>}
  /\ UNCHANGED <<store, position, through, client>>

(* The server dies, its writers with it: they publish no more.             *)
RestartServer ==
  /\ Drop /\ Unsubscribe
  /\ unpublished' = {}
  /\ UNCHANGED <<log, position, through, inbox, client>>

(* The view of the thread is closed, at any point, and opened again: it    *)
(* goes on from what is retained in memory ...                             *)
ReopenAtCursor ==
  /\ Drop /\ Unsubscribe /\ inbox' = <<>>
  /\ applying' = FALSE /\ UNCHANGED <<cursor, view>>
  /\ Remember
  /\ UNCHANGED <<store, position, through>>

ReopenView ==
  /\ Drop /\ Unsubscribe /\ inbox' = <<>>
  /\ applying' = FALSE /\ cursor' = saved /\ UNCHANGED view
  /\ Remember
  /\ UNCHANGED <<store, position, through>>

(* ... or, after a restart of the client, in its cache.                    *)
RestartClient ==
  /\ Drop /\ Unsubscribe /\ inbox' = <<>>
  /\ applying' = FALSE /\ cursor' = disk.cursor /\ view' = disk.view
  /\ saved' = disk.cursor /\ UNCHANGED disk
  /\ UNCHANGED <<store, position, through>>

Deliver ==
  \/ StartLoad \/ AnswerLoad \/ LoadFails \/ InstallLoad
  \/ Subscribe \/ OpenLive \/ ReadHighWater \/ Drain \/ PullReplay \/ DiscardReplayed
  \/ PullLive \/ Receive \/ Advance \/ Apply \/ Retry

Next ==
  \/ \E t \in Thread : Commit(t)
  \/ \E n \in 1..MaxEvents : Publish(n)
  \/ Deliver
  \/ LoseConnection \/ RestartServer \/ ReopenView \/ RestartClient

Spec == Init /\ [][Next]_vars

(* Every fiber goes on: writers publish what they committed, both ends of  *)
(* the stream do their next step, a lost connection is replaced.           *)
FairSpec ==
  /\ Spec
  /\ WF_vars(\E n \in 1..MaxEvents : Publish(n))
  /\ WF_vars(StartLoad) /\ WF_vars(AnswerLoad) /\ WF_vars(InstallLoad)
  /\ WF_vars(Subscribe) /\ WF_vars(OpenLive) /\ WF_vars(ReadHighWater)
  /\ WF_vars(Drain) /\ WF_vars(PullReplay) /\ WF_vars(DiscardReplayed)
  /\ WF_vars(PullLive) /\ WF_vars(Receive) /\ WF_vars(Advance) /\ WF_vars(Apply) /\ WF_vars(Retry)

-----------------------------------------------------------------------------
(* Properties.                                                             *)

(* The client's projection holds exactly the thread's events up to the     *)
(* cursor kept with it, each once, in memory and in the cache: none is     *)
(* skipped at the seams between HTTP load, snapshot, replay, live tail and *)
(* the next view, none applied twice after a resubscription.               *)
ClientIsPrefix ==
  view = Prefix(saved) /\ disk.view = Prefix(disk.cursor) /\ (~applying => cursor = saved)

(* Nothing is under way: no gap to replay, nothing published or buffered   *)
(* anywhere between the store and the client's projection.                 *)
Quiet ==
  /\ phase = "tail" /\ Pending = {} /\ unpublished = {}
  /\ hub = <<>> /\ queue = <<>> /\ wire = <<>> /\ inbox = <<>>

(* A live subscription that has come to rest has lost nothing: it could    *)
(* not notice, for no later event need ever come.                          *)
QuietIsComplete == Quiet => view = Prefix(Len(log))

(* A view of the thread never goes back to an older state.                 *)
NeverBackward == [][drops' = drops => saved' >= saved]_vars

(* Every event of the thread arrives, whatever connections or buffers fail *)
(* on the way.                                                             *)
EventsArrive ==
  \A n \in 1..MaxEvents : (n \in DOMAIN log /\ log[n] = Viewed) ~> view[n] = 1
=============================================================================
