--------------------------- MODULE LiveStream_proofs ---------------------------
(***************************************************************************)
(* Proofs about LiveStream for every number of threads, events, items of   *)
(* the live buffer and lost connections.  IInv is the inductive invariant  *)
(* under the hypotheses Ordered and Prompt; its part Places, the types, and *)
(* OnceInv at the end hold without them.                                   *)
(***************************************************************************)
EXTENDS LiveStream, SequenceTheorems, WellFoundedInduction, TLAPS

(* What the server has sent and the client has not applied.                *)
Sent == inbox \o wire
IsViewed(n) == n \in 1..Len(log) /\ log[n] = Viewed
Mark(n) == n = 0 \/ IsViewed(n)

(* Where sequences come from.                                              *)
LogInv ==
  /\ log \in Seq(Thread) /\ Len(log) \in 1..MaxEvents
  /\ unpublished \subseteq 1..Len(log)
  /\ IsViewed(1)
ServerInv ==
  /\ phase \in {"none", "loading", "unloaded", "head", "open", "tail", "failed"}
  /\ position \in 0..Len(log) /\ through \in 0..Len(log)
  /\ hub \in Seq(1..Len(log))
  /\ queue \in Seq(1..Len(log)) /\ \A i \in 1..Len(queue) : IsViewed(queue[i])
  /\ load \in 0..Len(log) /\ Mark(load)
  /\ phase # "loading" => load = 0
  /\ ~Subscribed => hub = <<>> /\ queue = <<>>
SentInv ==
  /\ wire \in Seq(Item) /\ inbox \in Seq(Item)
  /\ \A i \in 1..Len(wire) : IsViewed(wire[i].sequence)
  /\ \A i \in 1..Len(inbox) : IsViewed(inbox[i].sequence)
  /\ phase \in {"none", "loading", "unloaded"} => wire = <<>>
ClientInv ==
  /\ cursor \in 0..Len(log) /\ saved \in 0..Len(log)
  /\ Mark(cursor) /\ Mark(saved)
  /\ applying \in BOOLEAN
  /\ applying => inbox # <<>> /\ cursor = Head(inbox).sequence
  /\ view \in [1..MaxEvents -> Nat]
  /\ disk \in [cursor : 0..Len(log), view : [1..MaxEvents -> Nat]] /\ Mark(disk.cursor)
Places == LogInv /\ ServerInv /\ SentInv /\ ClientInv /\ drops \in 0..MaxDrops

(* What the client will have reached when it has applied the first k items *)
(* of s: an item follows the others if it leaves no gap.                   *)
Reaches(s, k, m) == m <= saved \/ \E j \in 1..k : m <= s[j].sequence
Follows(s, i) ==
  IF s[i].kind = "snapshot"
  THEN saved <= s[i].sequence /\ \A j \in 1..i-1 : s[j].sequence <= s[i].sequence
  ELSE /\ 1 < s[i].sequence
       /\ \A m \in 1..s[i].sequence-1 : log[m] = Viewed => Reaches(s, i-1, m)
ChainInv ==
  /\ \A i \in 1..Len(Sent) : Follows(Sent, i)
  /\ applying /\ Head(inbox).kind = "event" => saved < cursor

(* A snapshot on its way over HTTP is newer than all that is applied first. *)
LoadInv ==
  phase = "loading" /\ load # 0 =>
    saved <= load /\ \A i \in 1..Len(Sent) : Sent[i].sequence <= load

(* A replay has sent everything up to its position, ...                    *)
Reached(m) == Reaches(Sent, Len(Sent), m)
ReplayInv ==
  /\ phase \in {"head", "open", "tail"} => 1 <= position /\ 1 <= through
  /\ phase \in {"head", "tail"} => \A m \in 1..position : log[m] = Viewed => Reached(m)
  /\ phase = "open" => \A m \in 1..through : log[m] = Viewed => Reached(m)

(* ... and what lies behind its end is sent, retained or not yet published, *)
(* in this order.                                                          *)
Live(m) == m \in unpublished \/ \E i \in 1..Len(hub) : hub[i] = m
OrderInv ==
  /\ \A i, j \in 1..Len(queue) : i < j => queue[i] < queue[j]
  /\ \A i, j \in 1..Len(hub) : i < j => hub[i] < hub[j]
  /\ \A i \in 1..Len(queue), j \in 1..Len(hub) : queue[i] < hub[j]
  /\ \A n \in unpublished : /\ \A i \in 1..Len(queue) : queue[i] < n
                            /\ \A i \in 1..Len(hub) : hub[i] < n
Waiting(m) == Live(m) \/ Reached(m) \/ \E i \in 1..Len(queue) : queue[i] = m
TailInv ==
  phase = "tail" => \A m \in through+1..Len(log) : log[m] = Viewed => Waiting(m)
LiveInv == (Subscribed => OrderInv) /\ TailInv

IInv == Places /\ ClientIsPrefix /\ ChainInv /\ LoadInv /\ ReplayInv /\ LiveInv

-----------------------------------------------------------------------------
(* Least and greatest elements.                                            *)
LEMMA Least ==
  ASSUME NEW S, S \subseteq Nat, S # {}
  PROVE  \E m \in S : \A n \in S : m <= n
<1> DEFINE R == OpToRel(<, Nat)
<1>1. IsWellFoundedOn(R, Nat)
  BY NatLessThanWellFounded
<1>2. PICK m \in S : \A n \in S : ~(<<n, m>> \in R)
  <2> HIDE DEF R
  <2> QED
    BY <1>1, WFMin
<1>3. \A n \in S : ~(n < m)
  BY <1>2 DEF OpToRel
<1> QED
  BY <1>3

LEMMA MinIs ==
  ASSUME NEW S, S \subseteq Nat, S # {}
  PROVE  Min(S) \in S /\ \A n \in S : Min(S) <= n
BY Least DEF Min

LEMMA MaxIs ==
  ASSUME NEW S, S # {}, NEW N \in Nat, S \subseteq 0..N
  PROVE  Max(S) \in S /\ \A n \in S : n <= Max(S)
<1> DEFINE T == {N - x : x \in S}
<1>1. T \subseteq Nat /\ T # {}
  <2>1. \A x \in S : N - x \in Nat
    OBVIOUS
  <2>2. PICK x \in S : TRUE
    OBVIOUS
  <2>3. N - x \in T
    OBVIOUS
  <2>4. \A y \in T : y \in Nat
    BY <2>1
  <2> QED
    BY <2>3, <2>4
<1>2. PICK m \in T : \A n \in T : m <= n
  BY <1>1, Least
<1>3. PICK x \in S : m = N - x
  BY <1>2
<1>4. \A y \in S : x >= y
  BY <1>2, <1>3
<1> QED
  BY <1>4 DEF Max

LEMMA HighWaterIs ==
  ASSUME LogInv
  PROVE  IsViewed(HighWater) /\ \A n : IsViewed(n) => n <= HighWater
<1> DEFINE V == ViewedIn(0, Len(log))
<1>1. DOMAIN log = 1..Len(log) /\ Len(log) \in Nat
  BY LenProperties DEF LogInv
<1>2. \A n : n \in V <=> IsViewed(n)
  BY <1>1 DEF ViewedIn, IsViewed
<1>3. V # {} /\ V \subseteq 0..Len(log)
  BY <1>1, <1>2 DEF LogInv, IsViewed
<1>4. Max(V) \in V /\ \A n \in V : n <= Max(V)
  <2> HIDE DEF V
  <2> QED
    BY <1>1, <1>3, MaxIs
<1> QED
  BY <1>2, <1>4 DEF HighWater

LEMMA PendingIs ==
  ASSUME LogInv, position \in 0..Len(log), through \in 0..Len(log)
  PROVE  /\ Pending # {} =>
              /\ IsViewed(Min(Pending)) /\ position < Min(Pending) /\ Min(Pending) <= through
              /\ \A n : IsViewed(n) /\ n < Min(Pending) => n <= position
         /\ Pending = {} => \A n : IsViewed(n) /\ n <= through => n <= position
<1>1. DOMAIN log = 1..Len(log) /\ Len(log) \in Nat
  BY LenProperties DEF LogInv
<1>2. \A n : n \in Pending <=> IsViewed(n) /\ position < n /\ n <= through
  BY <1>1 DEF Pending, ViewedIn, IsViewed
<1>3. Pending \subseteq Nat
  BY <1>1, <1>2 DEF IsViewed
<1>4. Pending # {} => Min(Pending) \in Pending /\ \A n \in Pending : Min(Pending) <= n
  BY <1>3, MinIs
<1>5. \A n : IsViewed(n) => n \in Nat
  BY <1>1 DEF IsViewed
<1> DEFINE P == Pending
           p == Min(P)
<1> HIDE DEF P, p
<1>6. P # {} => p \in P /\ (\A n \in P : p <= n) /\ p \in Nat
  BY <1>3, <1>4 DEF P, p
<1>7. \A n : n \in P <=> IsViewed(n) /\ position < n /\ n <= through
  BY <1>2 DEF P
<1>8. P # {} => \A n : IsViewed(n) /\ n < p => n <= position
  BY <1>1, <1>5, <1>6, <1>7
<1>9. P = {} => \A n : IsViewed(n) /\ n <= through => n <= position
  BY <1>1, <1>5, <1>7
<1> QED
  BY <1>6, <1>7, <1>8, <1>9 DEF P, p

-----------------------------------------------------------------------------
(* Sequences that actions write.                                           *)
LEMMA Grown ==
  ASSUME LogInv, NEW t \in Thread, Commit(t)
  PROVE  /\ LogInv' /\ Len(log') = Len(log) + 1
         /\ \A n \in 1..Len(log) : log'[n] = log[n]
         /\ \A n : IsViewed(n) => IsViewed(n)'
         /\ unpublished' = unpublished \cup {Len(log) + 1}
<1>1. log' = Append(log, t) /\ Len(log) < MaxEvents /\ unpublished' = unpublished \cup {Len(log) + 1}
  BY DEF Commit
<1>2. /\ log' \in Seq(Thread) /\ Len(log') = Len(log) + 1
      /\ \A n \in 1..Len(log) : log'[n] = log[n]
  BY <1>1, AppendProperties DEF LogInv
<1>3. \A n : IsViewed(n) => IsViewed(n)'
  BY <1>2 DEF IsViewed, LogInv
<1>4. Len(log') \in 1..MaxEvents
  BY <1>1, <1>2, StreamAssumption DEF LogInv
<1>5. unpublished' \subseteq 1..Len(log')
  <2> DEFINE l == Len(log)
             m == Len(log')
  <2>1. l \in Nat /\ m = l + 1 /\ \A n \in unpublished : n \in 1..l
    BY <1>2 DEF LogInv
  <2>2. unpublished' = unpublished \cup {l + 1}
    BY <1>1
  <2> HIDE DEF l, m
  <2>3. unpublished' \subseteq 1..m
    BY <2>1, <2>2
  <2> QED
    BY <2>3 DEF m
<1>6. IsViewed(1)'
  BY <1>3 DEF LogInv
<1> QED
  BY <1>1, <1>2, <1>3, <1>4, <1>5, <1>6 DEF LogInv

LEMMA TailItems ==
  ASSUME NEW S, NEW s \in Seq(S), s # <<>>
  PROVE  /\ Tail(s) \in Seq(S) /\ Head(s) = s[1] /\ Len(s) \in Nat /\ 1 <= Len(s)
         /\ Len(Tail(s)) = Len(s) - 1
         /\ \A i \in 1..Len(Tail(s)) : i + 1 \in 1..Len(s) /\ Tail(s)[i] = s[i + 1]
<1>1. Len(s) \in Nat /\ Len(s) # 0
  BY EmptySeq, LenProperties
<1>2. /\ Tail(s) \in Seq(S) /\ Len(Tail(s)) = Len(s) - 1
      /\ \A i \in 1..Len(Tail(s)) : Tail(s)[i] = s[i + 1]
  BY HeadTailProperties
<1>3. Head(s) = s[1]
  OBVIOUS
<1> QED
  BY <1>1, <1>2, <1>3

LEMMA OneItem ==
  ASSUME NEW n \in 1..MaxEvents
  PROVE  /\ <<Event(n)>> \in Seq(Item) /\ <<Snapshot(n)>> \in Seq(Item)
         /\ Event(n).sequence = n /\ Event(n).kind = "event" /\ Event(n) \in Item
         /\ Snapshot(n).sequence = n /\ Snapshot(n).kind = "snapshot"
         /\ Len(<<Event(n)>>) = 1 /\ Len(<<Snapshot(n)>>) = 1
         /\ <<Event(n)>>[1] = Event(n) /\ <<Snapshot(n)>>[1] = Snapshot(n)
<1>1. Event(n) \in Item /\ Snapshot(n) \in Item
  BY DEF Event, Snapshot, Item
<1>2. <<Event(n)>> \in Seq(Item) /\ <<Snapshot(n)>> \in Seq(Item)
  BY <1>1
<1> QED
  BY <1>1, <1>2 DEF Event, Snapshot

LEMMA NoItems ==
  ASSUME NEW S
  PROVE  <<>> \in Seq(S) /\ Len(<<>>) = 0
BY EmptySeq

(* The live events that are delivered, one batch.                          *)
LEMMA BatchIs ==
  ASSUME LogInv, queue \in Seq(1..Len(log)), PullLive
  PROVE  \E k \in 1..Len(queue) :
           /\ phase = "tail" /\ Pending = {} /\ wire = <<>>
           /\ \A i \in 1..k : queue[i] > through
           /\ wire' \in Seq(Item) /\ Len(wire') = k /\ \A i \in 1..k : wire'[i] = Event(queue[i])
           /\ queue' \in Seq(1..Len(log)) /\ Len(queue') = Len(queue) - k
           /\ \A i \in 1..Len(queue') : i + k \in 1..Len(queue) /\ queue'[i] = queue[i + k]
<1>1. PICK k \in 1..Len(queue) :
        /\ \A i \in 1..k : queue[i] > through
        /\ wire' = [i \in 1..k |-> Event(queue[i])]
        /\ queue' = SubSeq(queue, k + 1, Len(queue))
  BY DEF PullLive
<1>2. Len(queue) \in Nat /\ k \in Nat /\ \A i \in 1..Len(queue) : queue[i] \in 1..Len(log)
  BY LenProperties, ElementOfSeq
<1>3. \A i \in 1..k : Event(queue[i]) \in Item
  BY <1>2, OneItem, StreamAssumption DEF LogInv
<1>4. wire' \in [1..k -> Item]
  BY <1>1, <1>3
<1>5. wire' \in Seq(Item)
  BY <1>2, <1>4, SeqDef
<1>6. Len(wire') = k
  <2>1. Len(wire') \in Nat /\ DOMAIN wire' = 1..Len(wire')
    BY <1>5, LenProperties
  <2>2. DOMAIN wire' = 1..k
    BY <1>4
  <2> DEFINE l == Len(wire')
  <2>3. l \in Nat /\ 1..k = 1..l /\ k \in Nat /\ k >= 1
    BY <1>1, <1>2, <2>1, <2>2
  <2> HIDE DEF l
  <2>4. k \in 1..l
    BY <2>3
  <2>5. l \in 1..k
    BY <2>3, <2>4
  <2>6. l = k
    BY <2>3, <2>4, <2>5
  <2> QED
    BY <2>6 DEF l
<1>7. /\ queue' \in Seq(1..Len(log))
      /\ Len(queue') = IF k + 1 <= Len(queue) THEN Len(queue) - (k + 1) + 1 ELSE 0
      /\ \A i \in 1..Len(queue) - (k + 1) + 1 : queue'[i] = queue[(k + 1) + i - 1]
  BY <1>1, <1>2, SubSeqProperties
<1> DEFINE l == Len(queue)
           q == queue'
<1>8. /\ Len(queue') = Len(queue) - k
      /\ \A i \in 1..Len(queue') : i + k \in 1..Len(queue) /\ queue'[i] = queue[i + k]
  <2>1. /\ l \in Nat /\ k \in Nat /\ k \in 1..l
        /\ Len(q) = IF k + 1 <= l THEN l - (k + 1) + 1 ELSE 0
        /\ \A i \in 1..l - (k + 1) + 1 : q[i] = queue[(k + 1) + i - 1]
    BY <1>1, <1>2, <1>7
  <2> HIDE DEF l, q
  <2>2. l - (k + 1) + 1 = l - k /\ l - k \in Nat /\ k <= l
    BY <2>1
  <2>3. Len(q) = l - k
    BY <2>1, <2>2
  <2>4. ASSUME NEW i \in 1..l - k PROVE i + k \in 1..l /\ q[i] = queue[i + k]
    <3>1. i + k \in 1..l /\ (k + 1) + i - 1 = i + k
      BY <2>1, <2>2, <2>4
    <3> QED
      BY <2>1, <2>2, <2>4, <3>1
  <2> QED
    BY <2>3, <2>4 DEF l, q
<1>10. \A i \in 1..k : wire'[i] = Event(queue[i])
  BY <1>1
<1> QED
  BY <1>1, <1>5, <1>6, <1>7, <1>8, <1>10 DEF PullLive

LEMMA SentIs ==
  ASSUME wire \in Seq(Item), inbox \in Seq(Item)
  PROVE  /\ Sent \in Seq(Item) /\ Len(inbox) \in Nat /\ Len(wire) \in Nat
         /\ Len(Sent) = Len(inbox) + Len(wire)
         /\ \A i \in 1..Len(Sent) :
              Sent[i] = IF i <= Len(inbox) THEN inbox[i] ELSE wire[i - Len(inbox)]
BY ConcatProperties, LenProperties DEF Sent

-----------------------------------------------------------------------------
(* Places.                                                                 *)
Idle == {"none", "loading", "unloaded"}

LEMMA SameLog ==
  ASSUME log' = log
  PROVE  /\ \A n : IsViewed(n)' <=> IsViewed(n)
         /\ \A n : Mark(n)' <=> Mark(n)
BY DEF IsViewed, Mark

LEMMA KeptLog == LogInv /\ log' = log /\ unpublished' \subseteq unpublished => LogInv'
BY SameLog DEF LogInv

LEMMA KeptServer == ServerInv /\ UNCHANGED <<log, server>> => ServerInv'
BY SameLog DEF ServerInv, server, Subscribed

LEMMA KeptSent ==
  SentInv /\ UNCHANGED <<log, wire, inbox>> /\ (phase' \in Idle => wire = <<>>) => SentInv'
BY SameLog DEF SentInv, Idle

LEMMA KeptClient == ClientInv /\ UNCHANGED <<log, inbox, client>> => ClientInv'
BY SameLog DEF ClientInv, client, kept

(* The subscription ends.                                                  *)
LEMMA UnsubscribeServer ==
  ASSUME ServerInv, Unsubscribe, UNCHANGED <<log, position, through>>
  PROVE  ServerInv' /\ phase' = "none" /\ wire' = <<>> /\ load' = 0 /\ hub' = <<>> /\ queue' = <<>>
<1>1. phase' = "none" /\ wire' = <<>> /\ load' = 0 /\ hub' = <<>> /\ queue' = <<>>
  BY DEF Unsubscribe, Close
<1>2. hub' \in Seq(1..Len(log)) /\ queue' \in Seq(1..Len(log)) /\ Len(queue') = 0
  BY <1>1, NoItems
<1>3. load' \in 0..Len(log) /\ Mark(load)'
  BY <1>1, LenProperties DEF Mark, ServerInv
<1>4. \A i \in 1..Len(queue') : IsViewed(queue'[i])
  BY <1>2
<1> QED
  BY <1>1, <1>2, <1>3, <1>4, SameLog DEF ServerInv, Subscribed

LEMMA DropStep ==
  ASSUME drops \in 0..MaxDrops, Drop
  PROVE  drops' \in 0..MaxDrops /\ drops' = drops + 1 /\ drops' # drops
BY StreamAssumption DEF Drop

(* The cache that may be written.                                          *)
LEMMA RememberStep ==
  ASSUME ClientInv, Remember, log' = log, cursor' \in 0..Len(log), IsViewed(cursor') \/ cursor' = 0,
         view' \in [1..MaxEvents -> Nat]
  PROVE  /\ saved' = cursor' /\ Mark(saved)' /\ Mark(cursor)'
         /\ disk' \in [cursor : 0..Len(log), view : [1..MaxEvents -> Nat]] /\ Mark(disk'.cursor)
         /\ disk' = disk \/ (disk'.cursor = cursor' /\ disk'.view = view')
BY SameLog DEF Remember, ClientInv, Mark

(* The server's steps.                                                     *)
LEMMA ServerStep ==
  ASSUME LogInv, ServerInv, SentInv,
         \/ StartLoad \/ AnswerLoad \/ LoadFails \/ OpenLive \/ ReadHighWater
         \/ Drain \/ DiscardReplayed \/ Retry \/ \E n \in 1..MaxEvents : Publish(n)
  PROVE  LogInv' /\ ServerInv' /\ UNCHANGED <<log, wire, inbox, client, drops>>
<1>0. /\ DOMAIN log = 1..Len(log) /\ Len(log) \in Nat /\ 0 \in 0..Len(log)
      /\ Len(log) \in 0..Len(log) /\ 1 <= Len(log)
  BY LenProperties DEF LogInv
<1>1. CASE StartLoad \/ LoadFails \/ Retry
  <2>1. /\ UNCHANGED <<store, hub, position, through, queue, wire, inbox, client, drops>>
        /\ ~Subscribed /\ ~Subscribed' /\ phase' \in Idle /\ (phase' # "loading" => load' = 0)
        /\ load' = 0
    BY <1>1 DEF StartLoad, LoadFails, Retry, Subscribed, Idle, ServerInv
  <2> QED
    BY <1>0, <2>1, SameLog, KeptLog DEF store, ServerInv, Idle, Mark
<1>2. CASE AnswerLoad
  <2>1. load' \in 0..Len(log) /\ Mark(load') /\ phase' = "loading"
    BY <1>0, <1>2, HighWaterIs DEF AnswerLoad, Mark, IsViewed
  <2> QED
    BY <1>2, <2>1, SameLog, KeptLog DEF AnswerLoad, store, ServerInv, Subscribed
<1>3. CASE OpenLive \/ ReadHighWater
  <2>1. /\ UNCHANGED <<store, hub, load, queue, wire, inbox, client, drops>>
        /\ phase \in {"head", "open"} /\ phase' \in {"open", "tail"}
        /\ position' \in 0..Len(log) /\ through' \in 0..Len(log)
    BY <1>0, <1>3 DEF OpenLive, ReadHighWater, ServerInv
  <2> QED
    BY <2>1, SameLog, KeptLog DEF store, ServerInv, Subscribed
<1>4. CASE Drain
  <2>1. Subscribed /\ hub # <<>> /\ UNCHANGED <<store, load, position, through, wire, inbox, client, drops>>
    BY <1>4 DEF Drain
  <2>2. /\ Tail(hub) \in Seq(1..Len(log)) /\ Head(hub) \in 1..Len(log)
    BY <2>1, HeadTailProperties DEF ServerInv
  <2>3. CASE hub' = Tail(hub) /\ UNCHANGED <<phase, queue>>
    BY <2>1, <2>2, <2>3, SameLog, KeptLog DEF store, ServerInv, Subscribed
  <2>4. CASE /\ Wanted(Head(hub)) /\ queue' = Append(queue, Head(hub)) /\ hub' = Tail(hub)
             /\ UNCHANGED phase
    <3>1. IsViewed(Head(hub))
      BY <2>2, <2>4 DEF Wanted, IsViewed
    <3>2. /\ queue' \in Seq(1..Len(log)) /\ Len(queue') = Len(queue) + 1 /\ Len(queue) \in Nat
          /\ \A i \in 1..Len(queue) : queue'[i] = queue[i]
          /\ queue'[Len(queue) + 1] = Head(hub)
      BY <2>2, <2>4, AppendProperties, LenProperties DEF ServerInv
    <3>3. \A i \in 1..Len(queue') : IsViewed(queue'[i])
      <4> TAKE i \in 1..Len(queue')
      <4>1. i \in 1..Len(queue) \/ i = Len(queue) + 1
        BY <3>2
      <4> QED
        BY <3>1, <3>2, <4>1 DEF ServerInv
    <3>4. /\ UNCHANGED <<log, unpublished, phase, load, position, through>>
          /\ hub' = Tail(hub)
      BY <2>1, <2>4 DEF store
    <3>5. LogInv'
      BY <3>4, KeptLog
    <3> QED
      BY <2>1, <2>2, <3>2, <3>3, <3>4, <3>5, SameLog DEF ServerInv, Subscribed
  <2>5. CASE Overflow
    <3>1. phase' = "failed" /\ hub' = <<>> /\ queue' = <<>>
      BY <2>5 DEF Overflow, Close
    <3>2. /\ hub' \in Seq(1..Len(log)) /\ queue' \in Seq(1..Len(log))
          /\ \A i \in 1..Len(queue') : IsViewed(queue'[i])
      BY <3>1, NoItems
    <3>3. load = 0
      BY <2>1 DEF ServerInv, Subscribed
    <3> QED
      BY <2>1, <3>1, <3>2, <3>3, SameLog, KeptLog DEF store, ServerInv, Subscribed
  <2> QED
    BY <1>4, <2>3, <2>4, <2>5 DEF Drain
<1>5. CASE DiscardReplayed
  <2>1. /\ phase = "tail" /\ queue # <<>> /\ queue' = Tail(queue)
        /\ UNCHANGED <<store, phase, hub, load, position, through, wire, inbox, client, drops>>
    BY <1>5 DEF DiscardReplayed
  <2>2. queue' \in Seq(1..Len(log)) /\ \A i \in 1..Len(queue') : IsViewed(queue'[i])
    BY <2>1, TailItems DEF ServerInv
  <2> QED
    BY <2>1, <2>2, SameLog, KeptLog DEF store, ServerInv, Subscribed
<1>6. ASSUME NEW n \in 1..MaxEvents, Publish(n) PROVE LogInv' /\ ServerInv'
  <2>1. /\ n \in 1..Len(log) /\ unpublished' \subseteq unpublished
        /\ UNCHANGED <<log, phase, load, position, through, queue>>
        /\ hub' = IF Subscribed THEN Append(hub, n) ELSE hub
    BY <1>6 DEF Publish, LogInv
  <2>2. hub' \in Seq(1..Len(log)) /\ (~Subscribed => hub' = hub)
    BY <2>1, AppendProperties DEF ServerInv
  <2> QED
    BY <2>1, <2>2, SameLog, KeptLog DEF ServerInv, Subscribed
<1>7. ASSUME NEW n \in 1..MaxEvents, Publish(n)
      PROVE  UNCHANGED <<log, wire, inbox, client, drops>>
  BY <1>7 DEF Publish
<1> QED
  BY <1>1, <1>2, <1>3, <1>4, <1>5, <1>6, <1>7
     DEF StartLoad, AnswerLoad, LoadFails, OpenLive, ReadHighWater, Drain, DiscardReplayed, Retry, store

(* What the server sends.                                                  *)
LEMMA SubscribeIs ==
  ASSUME LogInv, SentInv, Subscribe
  PROVE  /\ phase \in Idle /\ phase' = "head" /\ wire = <<>> /\ through' = HighWater
         /\ UNCHANGED <<log, unpublished, hub, load, queue, inbox, client, drops>>
         /\ IsViewed(HighWater) /\ \A n : IsViewed(n) => n <= HighWater
         /\ \/ phase = "none" /\ Known /\ position' = cursor /\ wire' = <<>>
            \/ /\ position' = HighWater /\ wire' = <<Snapshot(HighWater)>>
BY HighWaterIs DEF Subscribe, SentInv, Idle, store

LEMMA PullReplayIs ==
  ASSUME LogInv, ServerInv, PullReplay
  PROVE  /\ phase \in {"head", "tail"} /\ wire = <<>>
         /\ UNCHANGED <<log, unpublished, load, through, inbox, client, drops>>
         /\ \/ phase' = "failed" /\ hub' = <<>> /\ queue' = <<>> /\ UNCHANGED <<position, wire>>
            \/ /\ IsViewed(position') /\ position < position' /\ position' <= through
               /\ \A n : IsViewed(n) /\ n < position' => n <= position
               /\ wire' = <<Event(position')>> /\ UNCHANGED <<phase, hub, queue>>
<1>1. /\ phase \in {"head", "tail"} /\ wire = <<>> /\ Pending # {}
      /\ UNCHANGED <<log, unpublished, load, through, inbox, client, drops>>
  BY DEF PullReplay, store
<1>2. \/ phase' = "failed" /\ hub' = <<>> /\ queue' = <<>> /\ UNCHANGED <<position, wire>>
      \/ position' = Min(Pending) /\ wire' = <<Event(position')>> /\ UNCHANGED <<phase, hub, queue>>
  BY DEF PullReplay, Overflow, Close
<1>3. /\ IsViewed(Min(Pending)) /\ position < Min(Pending) /\ Min(Pending) <= through
      /\ \A n : IsViewed(n) /\ n < Min(Pending) => n <= position
  BY <1>1, PendingIs DEF ServerInv
<1> QED
  BY <1>1, <1>2, <1>3

LEMMA InBounds == LogInv => \A n : IsViewed(n) => n \in 1..MaxEvents /\ n \in 0..Len(log)
BY StreamAssumption DEF LogInv, IsViewed

LEMMA SendStep ==
  ASSUME LogInv, ServerInv, SentInv, ClientInv, Subscribe \/ PullReplay \/ PullLive
  PROVE  LogInv' /\ ServerInv' /\ SentInv' /\ UNCHANGED <<log, inbox, client, drops>>
<1>1. CASE Subscribe
  <2>1. position' \in 0..Len(log) /\ through' \in 0..Len(log)
    BY <1>1, SubscribeIs, InBounds DEF ClientInv
  <2>2. /\ wire' \in Seq(Item)
        /\ \A i \in 1..Len(wire') : IsViewed(wire'[i].sequence)
    <3>1. CASE wire' = <<>>
      BY <3>1, NoItems
    <3>2. CASE wire' = <<Snapshot(HighWater)>>
      <4>1. HighWater \in 1..MaxEvents
        BY <1>1, SubscribeIs, InBounds
      <4>2. wire' \in Seq(Item) /\ Len(wire') = 1 /\ wire'[1].sequence = HighWater
        BY <3>2, <4>1, OneItem
      <4> QED
        BY <1>1, <4>2, SubscribeIs
    <3> QED
      BY <1>1, <3>1, <3>2, SubscribeIs
  <2>3. /\ phase' = "head" /\ hub' = hub /\ queue' = queue /\ load' = load /\ log' = log
        /\ unpublished' = unpublished /\ UNCHANGED <<inbox, client, drops>> /\ phase \in Idle
    BY <1>1, SubscribeIs
  <2>4. load' = 0 /\ hub' = <<>> /\ queue' = <<>>
    BY <1>1, <2>3 DEF ServerInv, Subscribed, Idle, Subscribe
  <2> QED
    BY <2>1, <2>2, <2>3, <2>4, SameLog, KeptLog DEF ServerInv, SentInv, Subscribed
<1>2. CASE PullReplay
  <2>1. /\ phase \in {"head", "tail"} /\ wire = <<>>
        /\ UNCHANGED <<log, unpublished, load, through, inbox, client, drops>>
    BY <1>2, PullReplayIs
  <2>2. CASE phase' = "failed" /\ hub' = <<>> /\ queue' = <<>> /\ UNCHANGED <<position, wire>>
    <3>1. /\ hub' \in Seq(1..Len(log)) /\ queue' \in Seq(1..Len(log))
          /\ \A i \in 1..Len(queue') : IsViewed(queue'[i])
      BY <2>2, NoItems
    <3>2. load = 0
      BY <2>1 DEF ServerInv
    <3> QED
      BY <2>1, <2>2, <3>1, <3>2, SameLog, KeptLog DEF ServerInv, SentInv, Subscribed
  <2>3. CASE IsViewed(position') /\ wire' = <<Event(position')>> /\ UNCHANGED <<phase, hub, queue>>
    <3>1. position' \in 1..MaxEvents /\ position' \in 0..Len(log)
      BY <2>3, InBounds
    <3>2. wire' \in Seq(Item) /\ Len(wire') = 1 /\ wire'[1].sequence = position'
      BY <2>3, <3>1, OneItem
    <3>3. \A i \in 1..Len(wire') : IsViewed(wire'[i].sequence)
      BY <2>3, <3>2
    <3>4. SentInv'
      BY <2>1, <2>3, <3>2, <3>3, SameLog DEF SentInv
    <3> QED
      BY <2>1, <2>3, <3>1, <3>4, SameLog, KeptLog DEF ServerInv, Subscribed
  <2> QED
    BY <1>2, <2>1, <2>2, <2>3, PullReplayIs
<1>3. CASE PullLive
  <2>1. PICK k \in 1..Len(queue) :
          /\ phase = "tail" /\ Pending = {} /\ wire = <<>>
          /\ \A i \in 1..k : queue[i] > through
          /\ wire' \in Seq(Item) /\ Len(wire') = k /\ \A i \in 1..k : wire'[i] = Event(queue[i])
          /\ queue' \in Seq(1..Len(log)) /\ Len(queue') = Len(queue) - k
          /\ \A i \in 1..Len(queue') : i + k \in 1..Len(queue) /\ queue'[i] = queue[i + k]
    BY <1>3, BatchIs DEF ServerInv
  <2>2. UNCHANGED <<log, unpublished, phase, hub, load, position, through, inbox, client, drops>>
    BY <1>3 DEF PullLive, store
  <2>3. Len(queue) \in Nat /\ \A i \in 1..k : i \in 1..Len(queue) /\ IsViewed(queue[i])
    BY <2>1, LenProperties DEF ServerInv
  <2>4. \A i \in 1..Len(wire') : IsViewed(wire'[i].sequence)
    BY <2>1, <2>3, InBounds, OneItem
  <2>5. \A i \in 1..Len(queue') : IsViewed(queue'[i])
    BY <2>1 DEF ServerInv
  <2>6. SentInv'
    BY <2>1, <2>2, <2>4, SameLog DEF SentInv
  <2> QED
    BY <2>1, <2>2, <2>5, <2>6, SameLog, KeptLog DEF ServerInv, Subscribed
<1> QED
  BY <1>1, <1>2, <1>3

(* The client's steps.                                                     *)
LEMMA HeadIs ==
  ASSUME SentInv, inbox # <<>>
  PROVE  /\ Head(inbox) = inbox[1] /\ Head(inbox) \in Item /\ IsViewed(Head(inbox).sequence)
         /\ Len(inbox) \in Nat /\ 1 <= Len(inbox)
         /\ Tail(inbox) \in Seq(Item) /\ Len(Tail(inbox)) = Len(inbox) - 1
         /\ \A i \in 1..Len(Tail(inbox)) : i + 1 \in 1..Len(inbox) /\ Tail(inbox)[i] = inbox[i + 1]
BY TailItems, HeadTailProperties DEF SentInv

LEMMA ReceiveIs ==
  ASSUME SentInv, Receive
  PROVE  /\ inbox' = Sent /\ wire' = <<>> /\ Sent' = Sent
         /\ UNCHANGED <<store, server, client, drops>>
<1>1. inbox' = inbox \o wire /\ wire' = <<>> /\ UNCHANGED <<store, server, client, drops>>
  BY DEF Receive
<1>2. Sent \in Seq(Item)
  BY SentIs DEF SentInv
<1>3. Sent \o <<>> = Sent
  BY <1>2, ConcatEmptySeq
<1> QED
  BY <1>1, <1>3 DEF Sent

LEMMA ClientStep ==
  ASSUME LogInv, ServerInv, SentInv, ClientInv, Receive \/ Advance \/ Apply \/ InstallLoad
  PROVE  LogInv' /\ ServerInv' /\ SentInv' /\ ClientInv' /\ UNCHANGED <<log, drops>>
<1>0. \A n : IsViewed(n) => n \in 0..Len(log) /\ n \in 1..MaxEvents
  BY InBounds
<1>1. CASE Receive
  <2>1. inbox' = Sent /\ wire' = <<>> /\ UNCHANGED <<store, server, client, drops>>
    BY <1>1, ReceiveIs
  <2>2. /\ Sent \in Seq(Item) /\ Len(Sent) = Len(inbox) + Len(wire)
        /\ Len(inbox) \in Nat /\ Len(wire) \in Nat
        /\ \A i \in 1..Len(Sent) : Sent[i] = IF i <= Len(inbox) THEN inbox[i] ELSE wire[i - Len(inbox)]
    BY SentIs DEF SentInv
  <2>3. \A i \in 1..Len(Sent) : IsViewed(Sent[i].sequence)
    <3> TAKE i \in 1..Len(Sent)
    <3>1. i \in 1..Len(inbox) \/ (~(i <= Len(inbox)) /\ i - Len(inbox) \in 1..Len(wire))
      BY <2>2
    <3>2. CASE i \in 1..Len(inbox)
      BY <2>2, <3>2 DEF SentInv
    <3>3. CASE ~(i <= Len(inbox)) /\ i - Len(inbox) \in 1..Len(wire)
      BY <2>2, <3>3 DEF SentInv
    <3> QED
      BY <3>1, <3>2, <3>3
  <2>4. wire' \in Seq(Item) /\ Len(wire') = 0 /\ log' = log
    BY <2>1, NoItems DEF store
  <2>5. SentInv'
    BY <2>1, <2>2, <2>3, <2>4, SameLog DEF SentInv
  <2>6. applying => inbox' # <<>> /\ Head(inbox') = Head(inbox)
    <3> SUFFICES ASSUME applying PROVE inbox' # <<>> /\ Head(inbox') = Head(inbox)
      OBVIOUS
    <3>1. Head(inbox) = inbox[1] /\ 1 <= Len(inbox)
      BY HeadIs DEF ClientInv
    <3>2. 1 \in 1..Len(Sent) /\ Sent[1] = inbox[1] /\ Len(Sent) # 0
      BY <2>2, <3>1
    <3>3. Sent # <<>>
      BY <3>2, NoItems
    <3>4. Head(Sent) = Sent[1]
      BY <2>2, <3>3, TailItems
    <3> QED
      BY <2>1, <3>1, <3>2, <3>3, <3>4
  <2>7. ClientInv'
    BY <2>1, <2>4, <2>6, SameLog DEF ClientInv, client, kept
  <2> QED
    BY <2>1, <2>5, <2>7, KeptLog, KeptServer DEF store
<1>2. CASE Advance
  <2>1. /\ inbox # <<>> /\ ~applying /\ UNCHANGED <<store, server, wire, view, saved, disk, drops>>
        /\ \/ cursor' = Head(inbox).sequence /\ applying' = TRUE /\ inbox' = inbox
           \/ inbox' = Tail(inbox) /\ UNCHANGED <<cursor, applying>>
    BY <1>2 DEF Advance, kept
  <2>2. SentInv'
    <3>1. inbox' \in Seq(Item) /\ \A i \in 1..Len(inbox') : IsViewed(inbox'[i].sequence)
      BY <2>1, HeadIs DEF SentInv
    <3> QED
      BY <2>1, <3>1, SameLog DEF SentInv, store, server
  <2>3. ClientInv'
    <3>1. CASE cursor' = Head(inbox).sequence /\ applying' = TRUE /\ inbox' = inbox
      <4>1. IsViewed(cursor') /\ cursor' \in 0..Len(log)
        BY <1>0, <2>1, <3>1, HeadIs
      <4> QED
        BY <2>1, <3>1, <4>1, SameLog DEF ClientInv, store, Mark
    <3>2. CASE UNCHANGED <<cursor, applying>>
      BY <2>1, <3>2, SameLog DEF ClientInv, store
    <3> QED
      BY <2>1, <3>1, <3>2
  <2> QED
    BY <2>1, <2>2, <2>3, KeptLog, KeptServer DEF store
<1>3. CASE Apply
  <2>1. /\ applying /\ applying' = FALSE /\ inbox' = Tail(inbox) /\ cursor' = cursor /\ Remember
        /\ UNCHANGED <<store, server, wire, drops>> /\ inbox # <<>>
    BY <1>3 DEF Apply, ClientInv
  <2>2. view' \in [1..MaxEvents -> Nat]
    BY <1>0, <1>3 DEF Apply, ClientInv, Prefix
  <2>3. SentInv'
    <3>1. inbox' \in Seq(Item) /\ \A i \in 1..Len(inbox') : IsViewed(inbox'[i].sequence)
      BY <2>1, HeadIs DEF SentInv
    <3> QED
      BY <2>1, <3>1, SameLog DEF SentInv, store, server
  <2>4. cursor' \in 0..Len(log) /\ (IsViewed(cursor') \/ cursor' = 0) /\ log' = log
    BY <2>1 DEF ClientInv, Mark, store
  <2>5. ClientInv'
    BY <2>1, <2>2, <2>4, RememberStep, SameLog DEF ClientInv
  <2> QED
    BY <2>1, <2>3, <2>5, KeptLog, KeptServer DEF store
<1>4. CASE InstallLoad
  <2>1. /\ phase = "loading" /\ phase' = "none" /\ load' = 0 /\ cursor' = load /\ view' = Prefix(load)
        /\ Remember /\ ~applying
        /\ UNCHANGED <<store, hub, position, through, queue, wire, inbox, applying, drops>>
    BY <1>4 DEF InstallLoad
  <2>2. view' \in [1..MaxEvents -> Nat] /\ log' = log
    BY <2>1 DEF Prefix, store
  <2>3. cursor' \in 0..Len(log) /\ (IsViewed(cursor') \/ cursor' = 0)
    BY <2>1 DEF ServerInv, Mark
  <2>4. ClientInv'
    BY <2>1, <2>2, <2>3, RememberStep, SameLog DEF ClientInv
  <2>5. 0 \in 0..Len(log)
    BY LenProperties DEF LogInv
  <2>6. ServerInv'
    BY <2>1, <2>2, <2>5, SameLog DEF ServerInv, Subscribed, Mark
  <2>7. SentInv'
    BY <2>1, <2>2, KeptSent DEF SentInv, Idle
  <2> QED
    BY <2>1, <2>2, <2>4, <2>6, <2>7, KeptLog DEF store
<1> QED
  BY <1>1, <1>2, <1>3, <1>4

(* Lost connections and restarts.                                          *)
LEMMA DropsStep ==
  ASSUME LogInv, ServerInv, SentInv, ClientInv, drops \in 0..MaxDrops,
         LoseConnection \/ RestartServer \/ ReopenView \/ RestartClient
  PROVE  /\ LogInv' /\ ServerInv' /\ SentInv' /\ ClientInv' /\ drops' \in 0..MaxDrops
         /\ drops' = drops + 1 /\ drops' # drops
         /\ phase' = "none" /\ wire' = <<>> /\ log' = log
         /\ Len(inbox') <= Len(inbox)
         /\ \A i \in 1..Len(inbox') : i \in 1..Len(inbox) /\ inbox'[i] = inbox[i]
<1>1. /\ Drop /\ Unsubscribe /\ UNCHANGED <<log, position, through>> /\ unpublished' \subseteq unpublished
  BY DEF LoseConnection, RestartServer, ReopenView, RestartClient, store
<1>2. drops' \in 0..MaxDrops /\ drops' = drops + 1 /\ drops' # drops
  BY <1>1, DropStep
<1>3. ServerInv' /\ phase' = "none" /\ wire' = <<>>
  BY <1>1, UnsubscribeServer
<1>4. Len(inbox) \in Nat
  BY LenProperties DEF SentInv
<1>5. inbox' = inbox \/ inbox' = <<>> \/ (applying /\ inbox' = <<Head(inbox)>>)
  BY DEF LoseConnection, RestartServer, ReopenView, RestartClient
<1>6. /\ inbox' \in Seq(Item) /\ Len(inbox') <= Len(inbox)
      /\ \A i \in 1..Len(inbox') : i \in 1..Len(inbox) /\ inbox'[i] = inbox[i]
  <2>1. CASE inbox' = inbox
    BY <1>4, <2>1 DEF SentInv
  <2>2. CASE inbox' = <<>>
    BY <1>4, <2>2, NoItems
  <2>3. CASE applying /\ inbox' = <<Head(inbox)>>
    <3>1. /\ Head(inbox) = inbox[1] /\ Head(inbox) \in Item /\ 1 <= Len(inbox)
      BY <2>3, HeadIs DEF ClientInv
    <3>2. inbox' \in Seq(Item) /\ Len(inbox') = 1 /\ inbox'[1] = Head(inbox)
      BY <2>3, <3>1
    <3> QED
      BY <1>4, <3>1, <3>2
  <2> QED
    BY <1>5, <2>1, <2>2, <2>3
<1>7. SentInv'
  <2>1. wire' \in Seq(Item) /\ Len(wire') = 0
    BY <1>3, NoItems
  <2> QED
    BY <1>1, <1>3, <1>6, <2>1, SameLog DEF SentInv
<1>8. ClientInv'
  <2>1. CASE LoseConnection \/ RestartServer
    <3>1. UNCHANGED client
      BY <2>1 DEF LoseConnection, RestartServer
    <3>2. applying => inbox' # <<>> /\ Head(inbox') = Head(inbox)
      <4>1. CASE inbox' = inbox
        BY <4>1 DEF ClientInv
      <4>2. CASE applying /\ inbox' = <<Head(inbox)>>
        BY <4>2
      <4>3. applying => inbox' = inbox \/ inbox' = <<Head(inbox)>>
        BY <2>1 DEF LoseConnection, RestartServer
      <4> QED
        BY <4>1, <4>2, <4>3
    <3> QED
      BY <1>1, <3>1, <3>2, SameLog DEF ClientInv, client, kept
  <2>2. CASE ReopenView
    <3>1. applying' = FALSE /\ cursor' = saved /\ view' = view /\ Remember
      BY <2>2 DEF ReopenView
    <3>2. cursor' \in 0..Len(log) /\ (IsViewed(cursor') \/ cursor' = 0) /\ view' \in [1..MaxEvents -> Nat]
      BY <1>1, <3>1, SameLog DEF ClientInv, Mark
    <3> QED
      BY <1>1, <3>1, <3>2, RememberStep, SameLog DEF ClientInv
  <2>3. CASE RestartClient
    <3>1. /\ applying' = FALSE /\ cursor' = disk.cursor /\ view' = disk.view
          /\ saved' = disk.cursor /\ disk' = disk
      BY <2>3 DEF RestartClient
    <3> QED
      BY <1>1, <3>1, SameLog DEF ClientInv
  <2> QED
    BY <2>1, <2>2, <2>3
<1> QED
  BY <1>1, <1>2, <1>3, <1>6, <1>7, <1>8, KeptLog

LEMMA CommitStep ==
  ASSUME Places, NEW t \in Thread, Commit(t)
  PROVE  Places'
<1>1. /\ LogInv' /\ Len(log') = Len(log) + 1 /\ \A n : IsViewed(n) => IsViewed(n)'
      /\ Len(log) \in Nat
  BY Grown, LenProperties DEF Places, LogInv
<1>2. UNCHANGED <<server, wire, inbox, client, drops>>
  BY DEF Commit
<1>3. 1..Len(log) \subseteq 1..Len(log') /\ 0..Len(log) \subseteq 0..Len(log')
  <2> DEFINE l == Len(log)
             m == Len(log')
  <2>1. l \in Nat /\ m = l + 1
    BY <1>1
  <2> HIDE DEF l, m
  <2>2. 1..l \subseteq 1..m /\ 0..l \subseteq 0..m
    BY <2>1
  <2> QED
    BY <2>2 DEF l, m
<1>4. hub \in Seq(1..Len(log')) /\ queue \in Seq(1..Len(log'))
  BY <1>3, SeqMonotonic DEF Places, ServerInv
<1>5. \A n : Mark(n) => Mark(n)'
  BY <1>1 DEF Mark
<1>6. ServerInv'
  BY <1>1, <1>2, <1>3, <1>4, <1>5 DEF Places, ServerInv, server, Subscribed
<1>7. SentInv'
  BY <1>1, <1>2 DEF Places, SentInv, server
<1>8. ClientInv'
  BY <1>1, <1>2, <1>3, <1>5 DEF Places, ClientInv, client, kept
<1> QED
  BY <1>1, <1>2, <1>6, <1>7, <1>8 DEF Places

LEMMA PlacesStep == Places /\ [Next]_vars => Places'
<1> SUFFICES ASSUME Places, [Next]_vars PROVE Places'
  OBVIOUS
<1> USE DEF Places
<1>1. ASSUME NEW t \in Thread, Commit(t) PROVE Places'
  BY <1>1, CommitStep
<1>2. CASE \/ StartLoad \/ AnswerLoad \/ LoadFails \/ OpenLive \/ ReadHighWater
           \/ Drain \/ DiscardReplayed \/ Retry \/ \E n \in 1..MaxEvents : Publish(n)
  <2>1. LogInv' /\ ServerInv' /\ UNCHANGED <<log, wire, inbox, client, drops>>
    BY <1>2, ServerStep
  <2>2. phase' \in Idle => wire = <<>>
    BY <1>2 DEF StartLoad, AnswerLoad, LoadFails, OpenLive, ReadHighWater, Drain, DiscardReplayed,
                Retry, Publish, Overflow, SentInv, Idle
  <2> QED
    BY <2>1, <2>2, KeptSent, KeptClient
<1>3. CASE Subscribe \/ PullReplay \/ PullLive
  BY <1>3, SendStep, KeptClient
<1>4. CASE Receive \/ Advance \/ Apply \/ InstallLoad
  BY <1>4, ClientStep
<1>5. CASE LoseConnection \/ RestartServer \/ ReopenView \/ RestartClient
  BY <1>5, DropsStep
<1>6. CASE UNCHANGED vars
  BY <1>6, KeptLog, KeptServer, KeptSent, KeptClient DEF vars, store, server, SentInv, Idle
<1> QED
  BY <1>1, <1>2, <1>3, <1>4, <1>5, <1>6 DEF Next, Deliver

LEMMA PlacesInit == Init => Places
<1> SUFFICES ASSUME Init PROVE Places
  OBVIOUS
<1> USE DEF Init
<1>1. /\ log \in Seq(Thread) /\ Len(log) = 1 /\ log[1] = Viewed
  BY StreamAssumption
<1>2. LogInv
  BY <1>1, StreamAssumption DEF LogInv, IsViewed
<1>3. <<>> \in Seq(1..Len(log)) /\ <<>> \in Seq(Item) /\ Len(<<>>) = 0
  BY NoItems
<1>4. ServerInv /\ SentInv
  BY <1>1, <1>3 DEF ServerInv, SentInv, Mark, Subscribed
<1>5. ClientInv /\ drops \in 0..MaxDrops
  <2>1. 0 \in 0..Len(log) /\ 0 \in 0..MaxDrops /\ cursor = 0 /\ saved = 0 /\ drops = 0
    BY <1>1, StreamAssumption
  <2>2. view \in [1..MaxEvents -> Nat]
    OBVIOUS
  <2>3. /\ disk \in [cursor : 0..Len(log), view : [1..MaxEvents -> Nat]] /\ disk.cursor = 0
    BY <2>1, <2>2
  <2>4. applying \in BOOLEAN /\ ~applying
    BY Zenon
  <2> QED
    BY <2>1, <2>2, <2>3, <2>4 DEF ClientInv, Mark
<1> QED
  BY <1>2, <1>4, <1>5 DEF Places

(* Everything is where its sequence has a meaning: the buffers hold events *)
(* of the store, and the cursors of the client and of a replay lie in it.  *)
THEOREM TypeCorrect == Spec => []TypeOK
<1>1. Spec => []Places
  BY PlacesInit, PlacesStep, PTL DEF Spec
<1>2. Places => TypeOK
  <2> SUFFICES ASSUME Places PROVE TypeOK
    OBVIOUS
  <2>1. DOMAIN log = 1..Len(log)
    BY LenProperties DEF Places, LogInv
  <2> QED
    BY <2>1 DEF Places, LogInv, ServerInv, SentInv, ClientInv, TypeOK
<1> QED
  BY <1>1, <1>2, PTL

-----------------------------------------------------------------------------
(* What has been sent and not applied, under each step.                    *)
SentKept == \A i \in 1..Len(Sent') : i \in 1..Len(Sent) /\ Sent'[i] = Sent[i]
LogKept == Len(log) <= Len(log') /\ \A n \in 1..Len(log) : log'[n] = log[n]

LEMMA SentFacts ==
  ASSUME Places
  PROVE  /\ Sent \in Seq(Item) /\ Len(inbox) \in Nat /\ Len(wire) \in Nat
         /\ Len(Sent) = Len(inbox) + Len(wire) /\ Len(Sent) \in Nat
         /\ \A i \in 1..Len(Sent) :
              /\ Sent[i] = IF i <= Len(inbox) THEN inbox[i] ELSE wire[i - Len(inbox)]
              /\ Sent[i] \in Item /\ IsViewed(Sent[i].sequence) /\ Sent[i].sequence \in Nat
              /\ Sent[i].sequence \in 1..Len(log)
         /\ inbox # <<>> => 1 \in 1..Len(Sent) /\ Sent[1] = Head(inbox)
         /\ saved \in Nat /\ cursor \in Nat /\ Len(log) \in Nat
<1>1. /\ Sent \in Seq(Item) /\ Len(inbox) \in Nat /\ Len(wire) \in Nat
      /\ Len(Sent) = Len(inbox) + Len(wire)
      /\ \A i \in 1..Len(Sent) :
           Sent[i] = IF i <= Len(inbox) THEN inbox[i] ELSE wire[i - Len(inbox)]
  BY SentIs DEF Places, SentInv
<1>2. Len(Sent) \in Nat /\ Len(log) \in Nat
  BY <1>1, LenProperties DEF Places, LogInv
<1>3. ASSUME NEW i \in 1..Len(Sent)
      PROVE  /\ Sent[i] \in Item /\ IsViewed(Sent[i].sequence) /\ Sent[i].sequence \in Nat
             /\ Sent[i].sequence \in 1..Len(log)
  <2>1. i \in 1..Len(inbox) \/ (~(i <= Len(inbox)) /\ i - Len(inbox) \in 1..Len(wire))
    BY <1>1, <1>2
  <2>2. IsViewed(Sent[i].sequence)
    <3>1. CASE i \in 1..Len(inbox)
      <4>1. Sent[i] = inbox[i]
        BY <1>1, <3>1
      <4> QED
        BY <3>1, <4>1 DEF Places, SentInv
    <3>2. CASE ~(i <= Len(inbox)) /\ i - Len(inbox) \in 1..Len(wire)
      <4>1. Sent[i] = wire[i - Len(inbox)]
        BY <1>1, <3>2
      <4> QED
        BY <3>2, <4>1 DEF Places, SentInv
    <3> QED
      BY <2>1, <3>1, <3>2
  <2>3. Sent[i] \in Item
    BY <1>1, ElementOfSeq
  <2> QED
    BY <1>2, <2>2, <2>3 DEF IsViewed
<1>4. inbox # <<>> => 1 \in 1..Len(Sent) /\ Sent[1] = Head(inbox)
  BY <1>1, HeadIs DEF Places
<1>5. saved \in Nat /\ cursor \in Nat
  BY <1>2 DEF Places, ClientInv
<1> QED
  BY <1>1, <1>2, <1>3, <1>4, <1>5

LEMMA NextSent == Places' => Sent' \in Seq(Item) /\ Len(Sent') \in Nat
BY ConcatProperties, LenProperties DEF Places, SentInv, Sent

LEMMA SentGrows ==
  ASSUME Places, wire = <<>>, inbox' = inbox, wire' \in Seq(Item)
  PROVE  /\ Len(Sent') = Len(Sent) + Len(wire') /\ Len(wire') \in Nat
         /\ \A i \in 1..Len(Sent') :
              \/ i \in 1..Len(Sent) /\ Sent'[i] = Sent[i]
              \/ i - Len(Sent) \in 1..Len(wire') /\ Sent'[i] = wire'[i - Len(Sent)]
         /\ \A i \in 1..Len(Sent) : i \in 1..Len(Sent') /\ Sent'[i] = Sent[i]
         /\ \A i \in 1..Len(wire') :
              Len(Sent) + i \in 1..Len(Sent') /\ Sent'[Len(Sent) + i] = wire'[i]
<1>1. inbox \in Seq(Item) /\ Len(inbox) \in Nat /\ Len(wire') \in Nat
  BY LenProperties DEF Places, SentInv
<1>2. Sent = inbox
  BY <1>1, ConcatEmptySeq DEF Sent
<1>3. /\ Len(Sent') = Len(inbox) + Len(wire')
      /\ \A i \in 1..Len(inbox) + Len(wire') :
           Sent'[i] = IF i <= Len(inbox) THEN inbox[i] ELSE wire'[i - Len(inbox)]
  BY <1>1, ConcatProperties DEF Sent
<1> DEFINE a == Len(inbox)
           b == Len(wire')
           s == Sent'
<1> HIDE DEF a, b, s
<1>4. a \in Nat /\ b \in Nat /\ \A i \in 1..a+b : s[i] = IF i <= a THEN inbox[i] ELSE wire'[i - a]
  BY <1>1, <1>3 DEF a, b, s
<1>5. /\ \A i \in 1..a+b : \/ i \in 1..a /\ s[i] = inbox[i]
                           \/ i - a \in 1..b /\ s[i] = wire'[i - a]
      /\ \A i \in 1..a : i \in 1..a+b /\ s[i] = inbox[i]
  BY <1>4
<1>6. \A i \in 1..b : a + i \in 1..a+b /\ s[a + i] = wire'[i]
  <2> TAKE i \in 1..b
  <2>1. a + i \in 1..a+b /\ ~(a + i <= a) /\ (a + i) - a = i
    BY <1>4
  <2> QED
    BY <1>4, <2>1
<1> QED
  BY <1>1, <1>2, <1>3, <1>5, <1>6 DEF a, b, s

LEMMA SentTail ==
  ASSUME Places, inbox # <<>>, inbox' = Tail(inbox), wire' = wire
  PROVE  /\ Len(Sent') = Len(Sent) - 1
         /\ \A i \in 1..Len(Sent') : i + 1 \in 1..Len(Sent) /\ Sent'[i] = Sent[i + 1]
<1>1. /\ inbox \in Seq(Item) /\ wire \in Seq(Item) /\ Len(inbox) \in Nat /\ Len(wire) \in Nat
      /\ 1 <= Len(inbox)
      /\ Tail(inbox) \in Seq(Item) /\ Len(Tail(inbox)) = Len(inbox) - 1
      /\ \A i \in 1..Len(Tail(inbox)) : i + 1 \in 1..Len(inbox) /\ Tail(inbox)[i] = inbox[i + 1]
  BY HeadIs, LenProperties DEF Places, SentInv
<1>2. /\ Len(Sent') = Len(Tail(inbox)) + Len(wire)
      /\ \A i \in 1..Len(Tail(inbox)) + Len(wire) :
           Sent'[i] = IF i <= Len(Tail(inbox)) THEN Tail(inbox)[i] ELSE wire[i - Len(Tail(inbox))]
  BY <1>1, ConcatProperties DEF Sent
<1>3. /\ Len(Sent) = Len(inbox) + Len(wire)
      /\ \A i \in 1..Len(Sent) : Sent[i] = IF i <= Len(inbox) THEN inbox[i] ELSE wire[i - Len(inbox)]
  BY SentFacts
<1> DEFINE a == Len(inbox)
           b == Len(wire)
           t == Tail(inbox)
           s == Sent
           r == Sent'
<1>4. /\ a \in Nat /\ 1 <= a /\ b \in Nat
      /\ \A i \in 1..a-1 : i + 1 \in 1..a /\ t[i] = inbox[i + 1]
      /\ \A i \in 1..(a-1)+b : r[i] = IF i <= a - 1 THEN t[i] ELSE wire[i - (a - 1)]
      /\ \A i \in 1..a+b : s[i] = IF i <= a THEN inbox[i] ELSE wire[i - a]
  BY <1>1, <1>2, <1>3
<1> HIDE DEF a, b, t, s, r
<1>5. ASSUME NEW i \in 1..(a-1)+b PROVE i + 1 \in 1..a+b /\ r[i] = s[i + 1]
  <2>1. i + 1 \in 1..a+b
    BY <1>4
  <2>2. CASE i <= a - 1
    BY <1>4, <2>1, <2>2
  <2>3. CASE ~(i <= a - 1)
    <3>1. ~(i + 1 <= a) /\ i - (a - 1) = (i + 1) - a
      BY <1>4, <2>3
    <3>2. i \in Nat /\ i + 1 \in Nat
      BY <1>4, <1>5
    <3>3. r[i] = wire[i - (a - 1)]
      BY <1>4, <1>5, <2>3
    <3>4. s[i + 1] = wire[(i + 1) - a]
      BY <1>4, <2>1, <3>1
    <3> QED
      BY <2>1, <3>1, <3>3, <3>4
  <2> QED
    BY <2>1, <2>2, <2>3
<1>6. Len(Sent') = (a - 1) + b /\ Len(Sent) = a + b
  BY <1>1, <1>2, <1>3 DEF a, b
<1>7. (a - 1) + b = (a + b) - 1
  BY <1>4
<1> QED
  BY <1>5, <1>6, <1>7 DEF s, r

LEMMA SentCut ==
  ASSUME Places, Places', wire' = <<>>, Len(inbox') <= Len(inbox),
         \A i \in 1..Len(inbox') : i \in 1..Len(inbox) /\ inbox'[i] = inbox[i]
  PROVE  SentKept
<1>1. inbox' \in Seq(Item)
  BY DEF Places, SentInv
<1>2. Sent' = inbox'
  BY <1>1, ConcatEmptySeq DEF Sent
<1>3. \A i \in 1..Len(inbox) : i \in 1..Len(Sent) /\ Sent[i] = inbox[i]
  BY SentFacts
<1> QED
  BY <1>2, <1>3 DEF SentKept

-----------------------------------------------------------------------------
(* The chain of items.                                                     *)
Unapplied(seen) == applying /\ Head(inbox).kind = "event" => seen < cursor

LEMMA ChainKept ==
  ASSUME Places, Places', ChainInv, SentKept, LogKept, saved' = saved, (Unapplied(saved))'
  PROVE  ChainInv'
<1>1. ASSUME NEW i \in 1..Len(Sent') PROVE Follows(Sent, i)'
  <2>1. i \in 1..Len(Sent) /\ Sent'[i] = Sent[i] /\ Follows(Sent, i)
    BY <1>1 DEF SentKept, ChainInv
  <2>2. Sent[i].sequence \in 1..Len(log) /\ Len(Sent) \in Nat /\ Len(log) \in Nat
    BY <2>1, SentFacts
  <2>3. \A j \in 1..i-1 : Sent'[j] = Sent[j] /\ j \in 1..Len(Sent)
    <3> TAKE j \in 1..i-1
    <3>1. i \in 1..Len(Sent') /\ j \in 1..Len(Sent)
      BY <2>1, <2>2
    <3>2. j \in 1..Len(Sent')
      BY <2>1, <2>2, <3>1, NextSent
    <3> QED
      BY <3>1, <3>2 DEF SentKept
  <2>4. \A m \in 1..Sent[i].sequence-1 : log'[m] = log[m]
    BY <2>2 DEF LogKept
  <2>5. \A m : Reaches(Sent, i-1, m) => Reaches(Sent, i-1, m)'
    BY <2>3 DEF Reaches
  <2> QED
    BY <2>1, <2>3, <2>4, <2>5 DEF Follows
<1> QED
  BY <1>1 DEF ChainInv, Unapplied

(* A batch that leaves no gap behind what was sent before.                 *)
LEMMA ChainGrows ==
  ASSUME Places, Places', ChainInv, log' = log, wire = <<>>, UNCHANGED <<inbox, client>>,
         \A i \in 1..Len(wire') :
           IF wire'[i].kind = "snapshot"
           THEN /\ i = 1 /\ saved <= wire'[i].sequence
                /\ \A j \in 1..Len(Sent) : Sent[j].sequence <= wire'[i].sequence
           ELSE /\ 1 < wire'[i].sequence
                /\ \A m \in 1..wire'[i].sequence-1 : log[m] = Viewed =>
                     Reached(m) \/ \E j \in 1..i-1 : m <= wire'[j].sequence
  PROVE  ChainInv'
<1> DEFINE l == Len(Sent)
<1>1. /\ Len(wire') \in Nat
      /\ \A i \in 1..Len(Sent') :
           \/ i \in 1..l /\ Sent'[i] = Sent[i]
           \/ i - l \in 1..Len(wire') /\ Sent'[i] = wire'[i - l]
      /\ \A i \in 1..l : i \in 1..Len(Sent') /\ Sent'[i] = Sent[i]
      /\ \A i \in 1..Len(wire') : l + i \in 1..Len(Sent') /\ Sent'[l + i] = wire'[i]
  BY SentGrows DEF Places, SentInv
<1>2. l \in Nat /\ saved' = saved
  BY SentFacts DEF client, kept
<1>3. ASSUME NEW i \in 1..Len(Sent') PROVE Follows(Sent, i)'
  <2>0. i \in Nat
    BY <1>3, NextSent
  <2>1. CASE i \in 1..l
    <3>1. Sent'[i] = Sent[i] /\ Follows(Sent, i)
      BY <1>1, <2>1 DEF ChainInv
    <3>2. \A j \in 1..i-1 : Sent'[j] = Sent[j]
      BY <1>1, <1>2, <2>1
    <3>3. \A m : Reaches(Sent, i-1, m) => Reaches(Sent, i-1, m)'
      BY <1>2, <3>2 DEF Reaches
    <3> QED
      BY <1>2, <3>1, <3>2, <3>3 DEF Follows
  <2>2. CASE i - l \in 1..Len(wire') /\ Sent'[i] = wire'[i - l]
    <3> DEFINE p == i - l
    <3>1. p \in 1..Len(wire') /\ Sent'[i] = wire'[p] /\ p \in Nat
      BY <2>2
    <3>2. \A j \in 1..l : j \in 1..i-1 /\ Sent'[j] = Sent[j]
      BY <1>1, <1>2, <2>0, <3>1
    <3>3. \A j \in 1..p-1 : l + j \in 1..i-1 /\ Sent'[l + j] = wire'[j]
      BY <1>1, <1>2, <2>0, <3>1
    <3>4. CASE wire'[p].kind = "snapshot"
      <4>1. p = 1 /\ saved <= wire'[p].sequence
            /\ \A j \in 1..l : Sent[j].sequence <= wire'[p].sequence
        BY <3>1, <3>4
      <4>2. \A j \in 1..i-1 : j \in 1..l
        BY <1>2, <2>0, <4>1
      <4> QED
        BY <1>2, <3>1, <3>2, <3>4, <4>1, <4>2 DEF Follows
    <3>5. CASE wire'[p].kind # "snapshot"
      <4>1. /\ 1 < wire'[p].sequence
            /\ \A m \in 1..wire'[p].sequence-1 : log[m] = Viewed =>
                 Reached(m) \/ \E j \in 1..p-1 : m <= wire'[j].sequence
        BY <3>1, <3>5
      <4>2. \A m : Reached(m) => Reaches(Sent, i-1, m)'
        BY <1>2, <3>2 DEF Reached, Reaches
      <4>3. \A m : (\E j \in 1..p-1 : m <= wire'[j].sequence) => Reaches(Sent, i-1, m)'
        BY <3>3 DEF Reaches
      <4> QED
        BY <3>1, <3>5, <4>1, <4>2, <4>3 DEF Follows
    <3> QED
      BY <3>4, <3>5
  <2> QED
    BY <1>1, <2>1, <2>2
<1>4. Unapplied(saved)'
  BY DEF ChainInv, Unapplied, client, kept
<1> QED
  BY <1>3, <1>4 DEF ChainInv, Unapplied

(* The first item is applied, or has been skipped.                         *)
LEMMA ChainTail ==
  ASSUME Places, Places', ChainInv, log' = log, inbox # <<>>, inbox' = Tail(inbox), wire' = wire,
         saved <= saved', Head(inbox).sequence <= saved',
         saved' = saved \/ saved' = Head(inbox).sequence, ~applying'
  PROVE  /\ ChainInv'
         /\ \A m : m \in Nat /\ Reached(m) => Reached(m)'
<1>1. /\ Len(Sent') = Len(Sent) - 1 /\ Len(Sent) \in Nat /\ saved \in Nat /\ saved' \in Nat
      /\ \A i \in 1..Len(Sent') : i + 1 \in 1..Len(Sent) /\ Sent'[i] = Sent[i + 1]
      /\ 1 \in 1..Len(Sent) /\ Sent[1] = Head(inbox) /\ Sent[1].sequence \in Nat
      /\ \A i \in 1..Len(Sent) : Sent[i].sequence \in Nat
  BY SentTail, SentFacts
<1>2. ASSUME NEW k \in 1..Len(Sent), NEW m \in Nat, Reaches(Sent, k, m)
      PROVE  Reaches(Sent, k-1, m)'
  <2>1. CASE m <= saved \/ m <= Sent[1].sequence
    BY <1>1, <2>1 DEF Reaches
  <2>2. ASSUME NEW j \in 1..k, m <= Sent[j].sequence, j # 1 PROVE Reaches(Sent, k-1, m)'
    <3>1. j - 1 \in 1..k-1 /\ j - 1 \in 1..Len(Sent') /\ (j - 1) + 1 = j
      BY <1>1, <2>2
    <3>2. Sent'[j - 1] = Sent[j]
      BY <1>1, <3>1
    <3> QED
      BY <2>2, <3>1, <3>2 DEF Reaches
  <2> QED
    BY <1>2, <2>1, <2>2 DEF Reaches
<1>3. ASSUME NEW i \in 1..Len(Sent') PROVE Follows(Sent, i)'
  <2>1. i + 1 \in 1..Len(Sent) /\ Sent'[i] = Sent[i + 1] /\ Follows(Sent, i + 1) /\ i \in 1..Len(Sent)
    BY <1>1 DEF ChainInv
  <2>2. (i + 1) - 1 = i /\ i \in Nat
    BY <1>1
  <2>3. CASE Sent[i + 1].kind = "snapshot"
    <3>1. saved <= Sent[i + 1].sequence /\ \A j \in 1..i : Sent[j].sequence <= Sent[i + 1].sequence
      BY <2>1, <2>2, <2>3 DEF Follows
    <3>2. saved' <= Sent'[i].sequence
      BY <1>1, <2>1, <2>2, <3>1
    <3>3. \A j \in 1..i-1 : Sent'[j].sequence <= Sent'[i].sequence
      <4> TAKE j \in 1..i-1
      <4>1. j \in 1..Len(Sent') /\ j + 1 \in 1..i
        BY <1>1, <2>1, <2>2
      <4> QED
        BY <1>1, <2>1, <3>1, <4>1
    <3> QED
      BY <2>1, <2>3, <3>2, <3>3 DEF Follows
  <2>4. CASE Sent[i + 1].kind # "snapshot"
    <3>1. /\ 1 < Sent[i + 1].sequence
          /\ \A m \in 1..Sent[i + 1].sequence-1 : log[m] = Viewed => Reaches(Sent, i, m)
      BY <2>1, <2>2, <2>4 DEF Follows
    <3>2. \A m \in Nat : Reaches(Sent, i, m) => Reaches(Sent, i-1, m)'
      BY <1>2, <2>1
    <3>3. \A m \in 1..Sent'[i].sequence-1 : log'[m] = Viewed => Reaches(Sent, i-1, m)'
      BY <1>1, <2>1, <3>1, <3>2
    <3> QED
      BY <2>1, <2>4, <3>1, <3>3 DEF Follows
  <2> QED
    BY <2>3, <2>4
<1>4. ASSUME NEW m \in Nat, Reached(m) PROVE Reached(m)'
  <2>1. PICK l \in Nat : l = Len(Sent)
    BY <1>1
  <2>2. l \in 1..l /\ l \in 1..Len(Sent)
    BY <1>1, <2>1
  <2>3. Reaches(Sent, l, m)
    BY <1>4, <2>1 DEF Reached
  <2>4. Reaches(Sent, l-1, m)'
    BY <1>2, <2>2, <2>3
  <2> QED
    BY <1>1, <2>1, <2>4 DEF Reached, Reaches
<1> QED
  BY <1>3, <1>4 DEF ChainInv

-----------------------------------------------------------------------------
(* The client's steps on the chain.                                        *)
LEMMA SameSent ==
  ASSUME Sent' = Sent
  PROVE  SentKept /\ (saved <= saved' /\ saved \in Nat /\ saved' \in Nat =>
                        \A m : m \in Nat /\ Reached(m) => Reached(m)')
BY DEF SentKept, Reached, Reaches

LEMMA ServerMoves ==
  ASSUME Places,
         \/ StartLoad \/ AnswerLoad \/ LoadFails \/ OpenLive \/ ReadHighWater
         \/ Drain \/ DiscardReplayed \/ Retry \/ \E n \in 1..MaxEvents : Publish(n)
         \/ \E t \in Thread : Commit(t)
  PROVE  /\ UNCHANGED <<inbox, wire, client, drops>> /\ LogKept
         /\ UNCHANGED <<cursor, applying, view, saved, disk>>
<1>0. Len(log) \in Nat
  BY SentFacts
<1>1. LogKept
  BY <1>0, ServerStep, Grown DEF Places, LogKept
<1>2. UNCHANGED <<inbox, wire, client, drops>>
  BY ServerStep DEF Commit, Places
<1> QED
  BY <1>1, <1>2 DEF client, kept

LEMMA AdvanceIs ==
  ASSUME Places, ClientIsPrefix, Advance
  PROVE  /\ inbox # <<>> /\ ~applying /\ cursor = saved
         /\ UNCHANGED <<log, unpublished, server, wire, view, saved, disk, drops>>
         /\ \/ /\ cursor' = Head(inbox).sequence /\ applying' = TRUE /\ UNCHANGED inbox
               /\ Head(inbox).kind # "snapshot" => saved < cursor'
            \/ /\ inbox' = Tail(inbox) /\ UNCHANGED <<cursor, applying>>
               /\ Head(inbox).kind # "snapshot" /\ Head(inbox).sequence <= saved
<1>1. /\ inbox # <<>> /\ ~applying /\ cursor = saved
      /\ UNCHANGED <<log, unpublished, server, wire, view, saved, disk, drops>>
  BY DEF Advance, ClientIsPrefix, kept, store
<1>2. Head(inbox).sequence \in Nat /\ saved \in Nat
  BY <1>1, SentFacts
<1>3. \/ /\ cursor' = Head(inbox).sequence /\ applying' = TRUE /\ UNCHANGED inbox
         /\ Head(inbox).kind = "snapshot" \/ Head(inbox).sequence > cursor
      \/ /\ inbox' = Tail(inbox) /\ UNCHANGED <<cursor, applying>>
         /\ Head(inbox).kind # "snapshot" /\ ~(Head(inbox).sequence > cursor)
  BY DEF Advance, Fresh
<1> QED
  BY <1>1, <1>2, <1>3

LEMMA ApplyIs ==
  ASSUME Places, ChainInv, Apply
  PROVE  /\ inbox # <<>> /\ applying /\ ~applying' /\ inbox' = Tail(inbox)
         /\ UNCHANGED <<log, unpublished, server, wire, drops, cursor>>
         /\ cursor = Head(inbox).sequence /\ saved' = cursor /\ saved <= saved'
         /\ disk' = disk \/ (disk'.cursor = saved' /\ disk'.view = view')
         /\ \/ Head(inbox).kind = "snapshot" /\ view' = Prefix(cursor)
            \/ /\ Head(inbox).kind = "event" /\ saved < cursor
               /\ 1 < cursor /\ \A m \in 1..cursor-1 : log[m] = Viewed => m <= saved
               /\ \/ Known /\ view' = [view EXCEPT ![cursor] = @ + 1]
                  \/ ~Known
<1>1. /\ inbox # <<>> /\ applying /\ ~applying' /\ inbox' = Tail(inbox)
      /\ UNCHANGED <<log, unpublished, server, wire, drops, cursor>>
      /\ cursor = Head(inbox).sequence /\ saved' = cursor
      /\ disk' \in {disk, [cursor |-> saved', view |-> view']}
  BY DEF Apply, Places, ClientInv, Remember, store
<1>2. 1 \in 1..Len(Sent) /\ Sent[1] = Head(inbox) /\ Follows(Sent, 1) /\ cursor \in Nat /\ saved \in Nat
  BY <1>1, SentFacts DEF ChainInv
<1>3. Head(inbox).kind = "snapshot" => saved <= cursor
  BY <1>1, <1>2 DEF Follows
<1>4. Head(inbox).kind = "event" =>
        saved < cursor /\ 1 < cursor /\ \A m \in 1..cursor-1 : log[m] = Viewed => m <= saved
  BY <1>1, <1>2 DEF Follows, ChainInv, Reaches
<1>5. disk' = disk \/ (disk'.cursor = saved' /\ disk'.view = view')
  BY <1>1
<1> QED
  BY <1>1, <1>2, <1>3, <1>4, <1>5 DEF Apply

LEMMA EmptySent ==
  ASSUME inbox' = <<>>, wire' = <<>>
  PROVE  Sent' = <<>> /\ Len(Sent') = 0
<1>1. <<>> \o <<>> = <<>>
  BY NoItems, ConcatEmptySeq
<1> QED
  BY <1>1, NoItems DEF Sent

LEMMA InstallIs ==
  ASSUME Places, LoadInv, Prompt, InstallLoad
  PROVE  /\ phase' = "none" /\ load' = 0 /\ ~applying /\ ~applying' /\ UNCHANGED <<log, drops, hub, queue>>
         /\ Sent' = <<>> /\ Len(Sent') = 0
         /\ cursor' = load /\ saved' = load /\ view' = Prefix(load) /\ saved <= load
         /\ disk' = disk \/ (disk'.cursor = saved' /\ disk'.view = view')
<1>1. /\ phase = "loading" /\ load # 0 /\ ~applying /\ inbox = <<>>
      /\ phase' = "none" /\ load' = 0 /\ cursor' = load /\ view' = Prefix(load) /\ Remember
      /\ UNCHANGED <<log, drops, hub, queue, wire, inbox, applying>>
  BY DEF InstallLoad, store
<1>2. wire' = <<>> /\ inbox' = <<>>
  BY <1>1 DEF Places, SentInv
<1>3. saved <= load
  BY <1>1 DEF LoadInv
<1> QED
  BY <1>1, <1>2, <1>3, EmptySent DEF Remember

(* The next event of a replay, and the live events after it.               *)
LEMMA LiveFollows ==
  ASSUME Places, ReplayInv, LiveInv, phase = "tail", Pending = {},
         NEW k \in 1..Len(queue), \A i \in 1..k : queue[i] > through
  PROVE  \A i \in 1..k :
           /\ queue[i] \in Nat /\ 1 < queue[i]
           /\ \A m \in 1..queue[i]-1 : log[m] = Viewed =>
                Reached(m) \/ \E j \in 1..i-1 : m <= queue[j]
<1>1. Len(queue) \in Nat /\ \A i \in 1..Len(queue) : queue[i] \in 1..Len(log)
  BY LenProperties, ElementOfSeq DEF Places, ServerInv
<1>2. Len(log) \in Nat /\ through \in Nat /\ position \in Nat
  BY SentFacts DEF Places, ServerInv
<1>3. OrderInv
  BY DEF LiveInv, Subscribed
<1>4. \A i \in 1..k : i \in 1..Len(queue) /\ queue[i] \in Nat /\ queue[i] <= Len(log)
  BY <1>1, <1>2
<1>5. \A i \in 1..Len(hub) : hub[i] \in 1..Len(log)
  BY ElementOfSeq DEF Places, ServerInv
<1>6. \A m \in unpublished : m \in Nat
  BY <1>2 DEF Places, LogInv
<1> TAKE i \in 1..k
<1>7. 1 < queue[i]
  BY <1>2, <1>4 DEF ReplayInv
<1>8. ASSUME NEW m \in 1..queue[i]-1, log[m] = Viewed
      PROVE  Reached(m) \/ \E j \in 1..i-1 : m <= queue[j]
  <2>1. IsViewed(m) /\ m \in Nat /\ m < queue[i] /\ m <= Len(log)
    BY <1>2, <1>4, <1>8 DEF IsViewed
  <2>2. CASE m <= through
    <3>1. m \in 1..position
      <4>1. position \in 0..Len(log) /\ through \in 0..Len(log) /\ LogInv
        BY DEF Places, ServerInv
      <4>2. m <= position
        BY <2>1, <2>2, <4>1, PendingIs
      <4> QED
        BY <1>2, <1>8, <4>2
    <3> QED
      BY <1>8, <3>1 DEF ReplayInv
  <2>3. CASE ~(m <= through)
    <3>1. m \in through+1..Len(log)
      BY <1>2, <2>1, <2>3
    <3>2. m \notin unpublished
      BY <1>3, <1>4, <1>6, <2>1 DEF OrderInv
    <3>3. \A j \in 1..Len(hub) : hub[j] # m
      BY <1>2, <1>3, <1>4, <1>5, <2>1 DEF OrderInv
    <3>4. ASSUME NEW j \in 1..Len(queue), queue[j] = m PROVE j \in 1..i-1 /\ m <= queue[j]
      <4>1. ~(i < j) /\ i # j
        BY <1>1, <1>3, <1>4, <2>1, <3>4 DEF OrderInv
      <4> QED
        BY <1>1, <1>4, <2>1, <3>4, <4>1
    <3> QED
      BY <1>8, <3>1, <3>2, <3>3, <3>4 DEF LiveInv, TailInv, Waiting, Live
  <2> QED
    BY <2>2, <2>3
<1> QED
  BY <1>4, <1>7, <1>8

(* Nothing that is sent leaves a gap.                                      *)
Gapless ==
  \A i \in 1..Len(wire') :
    IF wire'[i].kind = "snapshot"
    THEN /\ i = 1 /\ saved <= wire'[i].sequence
         /\ \A j \in 1..Len(Sent) : Sent[j].sequence <= wire'[i].sequence
    ELSE /\ 1 < wire'[i].sequence
         /\ \A m \in 1..wire'[i].sequence-1 : log[m] = Viewed =>
              Reached(m) \/ \E j \in 1..i-1 : m <= wire'[j].sequence

LEMMA SendIs ==
  ASSUME Places, ReplayInv, LiveInv, Subscribe \/ PullReplay \/ PullLive
  PROVE  /\ UNCHANGED <<log, unpublished, inbox, client, drops>>
         /\ wire' = wire \/ (wire = <<>> /\ wire' \in Seq(Item) /\ Gapless)
<1>1. CASE Subscribe
  <2>1. /\ wire = <<>> /\ UNCHANGED <<log, unpublished, inbox, client, drops>>
        /\ wire' = <<>> \/ wire' = <<Snapshot(HighWater)>>
        /\ IsViewed(HighWater) /\ \A n : IsViewed(n) => n <= HighWater
    BY <1>1, SubscribeIs DEF Places
  <2>2. CASE wire' = <<Snapshot(HighWater)>>
    <3>1. HighWater \in 1..MaxEvents /\ HighWater \in Nat
      BY <2>1, InBounds DEF Places
    <3>2. /\ wire' \in Seq(Item) /\ Len(wire') = 1 /\ wire'[1].kind = "snapshot"
          /\ wire'[1].sequence = HighWater
      BY <2>2, <3>1, OneItem
    <3>3. saved <= HighWater
      BY <2>1, <3>1 DEF Places, ClientInv, Mark
    <3>4. \A j \in 1..Len(Sent) : Sent[j].sequence <= HighWater
      BY <2>1, SentFacts
    <3>5. Gapless
      BY <3>2, <3>3, <3>4 DEF Gapless
    <3> QED
      BY <2>1, <3>2, <3>5
  <2> QED
    BY <2>1, <2>2
<1>2. CASE PullReplay
  <2>1. /\ wire = <<>> /\ UNCHANGED <<log, unpublished, inbox, client, drops>>
        /\ phase \in {"head", "tail"}
        /\ \/ wire' = wire
           \/ /\ IsViewed(position') /\ position < position'
              /\ \A n : IsViewed(n) /\ n < position' => n <= position
              /\ wire' = <<Event(position')>>
    BY <1>2, PullReplayIs DEF Places
  <2>2. CASE /\ IsViewed(position') /\ position < position'
             /\ \A n : IsViewed(n) /\ n < position' => n <= position
             /\ wire' = <<Event(position')>>
    <3>1. position' \in 1..MaxEvents /\ position' \in 0..Len(log) /\ position \in Nat /\ Len(log) \in Nat
      BY <2>2, InBounds, SentFacts DEF Places, ServerInv
    <3>2. /\ wire' \in Seq(Item) /\ Len(wire') = 1 /\ wire'[1].kind = "event"
          /\ wire'[1].sequence = position'
      BY <2>2, <3>1, OneItem
    <3>3. 1 < position'
      BY <2>1, <2>2, <3>1 DEF ReplayInv
    <3>4. ASSUME NEW m \in 1..position'-1, log[m] = Viewed PROVE Reached(m)
      <4>0. m \in 1..Len(log) /\ m < position' /\ m \in Nat
        <5> DEFINE p == position'
                   l == Len(log)
        <5>1. p \in 0..l /\ l \in Nat /\ m \in 1..p-1
          BY <3>1, <3>4
        <5> HIDE DEF p, l
        <5>2. m \in 1..l /\ m < p /\ m \in Nat
          BY <5>1
        <5> QED
          BY <5>2 DEF p, l
      <4>1. IsViewed(m) /\ m < position' /\ m \in Nat
        BY <3>4, <4>0 DEF IsViewed
      <4>2. m \in 1..position
        BY <2>2, <3>1, <3>4, <4>1
      <4> QED
        BY <2>1, <3>4, <4>2 DEF ReplayInv
    <3>5. Gapless
      BY <3>2, <3>3, <3>4 DEF Gapless
    <3> QED
      BY <2>1, <3>2, <3>5
  <2> QED
    BY <2>1, <2>2
<1>3. CASE PullLive
  <2>1. PICK k \in 1..Len(queue) :
          /\ phase = "tail" /\ Pending = {} /\ wire = <<>>
          /\ \A i \in 1..k : queue[i] > through
          /\ wire' \in Seq(Item) /\ Len(wire') = k /\ \A i \in 1..k : wire'[i] = Event(queue[i])
    BY <1>3, BatchIs DEF Places, ServerInv
  <2>2. \A i \in 1..k :
          /\ queue[i] \in Nat /\ 1 < queue[i]
          /\ \A m \in 1..queue[i]-1 : log[m] = Viewed =>
               Reached(m) \/ \E j \in 1..i-1 : m <= queue[j]
    BY <2>1, LiveFollows
  <2>3. \A i \in 1..k : wire'[i].kind # "snapshot" /\ wire'[i].sequence = queue[i]
    BY <2>1 DEF Event
  <2>4. \A i \in 1..k : \A j \in 1..i-1 : j \in 1..k
    <3>1. k \in Nat
      BY <2>1, LenProperties DEF Places, ServerInv
    <3> QED
      BY <3>1
  <2>5. Gapless
    <3>1. ASSUME NEW i \in 1..Len(wire'), wire'[i].kind # "snapshot"
          PROVE  /\ 1 < wire'[i].sequence
                 /\ \A m \in 1..wire'[i].sequence-1 : log[m] = Viewed =>
                      Reached(m) \/ \E j \in 1..i-1 : m <= wire'[j].sequence
      <4>1. i \in 1..k
        BY <2>1, <3>1
      <4>2. wire'[i].sequence = queue[i] /\ \A j \in 1..i-1 : wire'[j].sequence = queue[j]
        BY <2>3, <2>4, <4>1
      <4> QED
        BY <2>2, <4>1, <4>2
    <3>2. \A i \in 1..Len(wire') : wire'[i].kind # "snapshot"
      BY <2>1, <2>3
    <3> QED
      BY <3>1, <3>2 DEF Gapless
  <2> QED
    BY <1>3, <2>1, <2>5 DEF PullLive, store
<1> QED
  BY <1>1, <1>2, <1>3

(* The item being applied stays the first.                                 *)
LEMMA FirstStays ==
  ASSUME Places, applying, Receive \/ LoseConnection \/ RestartServer
  PROVE  Head(inbox') = Head(inbox)
<1>1. CASE Receive
  <2>1. inbox # <<>>
    BY DEF Places, ClientInv
  <2>2. Sent # <<>> /\ Sent[1] = Head(inbox)
    BY <2>1, SentFacts, NoItems
  <2>3. Head(Sent) = Sent[1]
    BY <2>2, SentFacts, TailItems
  <2> QED
    BY <1>1, <2>2, <2>3, ReceiveIs DEF Places
<1>2. CASE LoseConnection \/ RestartServer
  <2>1. inbox' = inbox \/ inbox' = <<Head(inbox)>>
    BY <1>2 DEF LoseConnection, RestartServer
  <2>2. Head(<<Head(inbox)>>) = Head(inbox)
    OBVIOUS
  <2> QED
    BY <2>1, <2>2
<1> QED
  BY <1>1, <1>2

-----------------------------------------------------------------------------
(* Every step keeps the chain.                                             *)
LEMMA ChainStep == IInv /\ Places' /\ Prompt /\ [Next]_vars => ChainInv'
<1> SUFFICES ASSUME IInv, Places', Prompt, [Next]_vars PROVE ChainInv'
  OBVIOUS
<1> USE DEF IInv
<1>0. Unapplied(saved) /\ (log' = log => LogKept)
  BY SentFacts DEF ChainInv, Unapplied, LogKept
<1>s. wire' = wire /\ inbox' = inbox => Sent' = Sent
  BY DEF Sent
<1>k. ASSUME UNCHANGED <<wire, inbox, client>>, LogKept PROVE ChainInv'
  <2>1. SentKept
    BY <1>k, <1>s, SameSent
  <2> QED
    BY <1>0, <1>k, <2>1, ChainKept DEF client, kept, Unapplied
<1>1. CASE \/ StartLoad \/ AnswerLoad \/ LoadFails \/ OpenLive \/ ReadHighWater
           \/ Drain \/ DiscardReplayed \/ Retry \/ \E n \in 1..MaxEvents : Publish(n)
           \/ \E t \in Thread : Commit(t)
  BY <1>1, <1>k, ServerMoves
<1>2. CASE Subscribe \/ PullReplay \/ PullLive
  <2>1. /\ UNCHANGED <<log, unpublished, inbox, client, drops>>
        /\ wire' = wire \/ (wire = <<>> /\ wire' \in Seq(Item) /\ Gapless)
    BY <1>2, SendIs
  <2>2. CASE wire = <<>> /\ Gapless
    BY <2>1, <2>2, ChainGrows DEF Gapless
  <2> QED
    BY <1>0, <1>k, <2>1, <2>2
<1>3. CASE Receive
  <2>1. Sent' = Sent /\ UNCHANGED <<store, client>>
    BY <1>3, ReceiveIs DEF Places
  <2>2. SentKept
    BY <2>1, SameSent
  <2>3. applying' => Head(inbox') = Head(inbox)
    BY <1>3, <2>1, FirstStays DEF client
  <2>4. Unapplied(saved)'
    BY <1>0, <2>1, <2>3 DEF Unapplied, client, kept
  <2> QED
    BY <1>0, <2>1, <2>2, <2>4, ChainKept DEF store, client, kept
<1>4. CASE Advance
  <2>1. CASE applying' = TRUE /\ UNCHANGED inbox /\ (Head(inbox).kind # "snapshot" => saved < cursor')
    <3>1. UNCHANGED <<log, wire, saved>> /\ SentKept
      BY <1>4, <1>s, <2>1, AdvanceIs, SameSent
    <3>2. Unapplied(saved)'
      BY <2>1, <3>1 DEF Unapplied
    <3> QED
      BY <1>0, <3>1, <3>2, ChainKept
  <2>2. CASE inbox' = Tail(inbox) /\ UNCHANGED applying /\ Head(inbox).sequence <= saved
    <3>1. saved \in Nat
      BY SentFacts
    <3> QED
      BY <1>4, <2>2, <3>1, AdvanceIs, ChainTail
  <2> QED
    BY <1>4, <2>1, <2>2, AdvanceIs
<1>5. CASE Apply
  <2>1. cursor \in Nat
    BY SentFacts
  <2> QED
    BY <1>5, <2>1, ApplyIs, ChainTail
<1>6. CASE InstallLoad
  <2>1. Len(Sent') = 0 /\ ~applying'
    BY <1>6, InstallIs
  <2> QED
    BY <2>1 DEF ChainInv
<1>7. CASE LoseConnection \/ RestartServer
  <2>1. SentKept /\ log' = log
    BY <1>7, DropsStep, SentCut DEF Places
  <2>2. UNCHANGED client
    BY <1>7 DEF LoseConnection, RestartServer
  <2>3. applying => Head(inbox') = Head(inbox)
    BY <1>7, FirstStays
  <2>4. Unapplied(saved)'
    BY <1>0, <2>2, <2>3 DEF Unapplied, client, kept
  <2> QED
    BY <1>0, <2>1, <2>2, <2>4, ChainKept DEF client, kept
<1>8. CASE ReopenView \/ RestartClient
  <2>1. inbox' = <<>> /\ wire' = <<>> /\ ~applying'
    BY <1>8 DEF ReopenView, RestartClient, Unsubscribe
  <2> QED
    BY <2>1, EmptySent DEF ChainInv
<1>9. CASE UNCHANGED vars
  BY <1>0, <1>9, <1>k DEF vars, store, server, client
<1> QED
  BY <1>1, <1>2, <1>3, <1>4, <1>5, <1>6, <1>7, <1>8, <1>9 DEF Next, Deliver

-----------------------------------------------------------------------------
(* While a subscription goes on, what has been reached stays reached.      *)
Sending == {"head", "open", "tail"}

LEMMA LogIsKept == Places /\ [Next]_vars => LogKept
<1> SUFFICES ASSUME Places, [Next]_vars PROVE LogKept
  OBVIOUS
<1>1. CASE \E t \in Thread : Commit(t)
  BY <1>1, ServerMoves
<1>2. CASE ~\E t \in Thread : Commit(t)
  <2>1. log' = log
    BY <1>2 DEF Next, Deliver, vars, store, Publish, StartLoad, AnswerLoad, LoadFails, InstallLoad,
      Subscribe, OpenLive, ReadHighWater, Drain, PullReplay, DiscardReplayed, PullLive, Receive,
      Advance, Apply, Retry, LoseConnection, RestartServer, ReopenView, RestartClient
  <2> QED
    BY <2>1, SentFacts DEF LogKept
<1> QED
  BY <1>1, <1>2

LEMMA ReachedStep ==
  ASSUME IInv, Places', [Next]_vars, phase' \in Sending
  PROVE  \A m \in Nat : Reached(m) => Reached(m)'
<1> USE DEF IInv
<1>0. saved \in Nat /\ saved' \in Nat
  <2>1. saved' \in 0..Len(log') /\ Len(log') \in Nat
    BY LenProperties DEF Places, ClientInv, LogInv
  <2> QED
    BY <2>1, SentFacts
<1>k. ASSUME UNCHANGED <<wire, inbox, saved>> PROVE \A m \in Nat : Reached(m) => Reached(m)'
  <2>1. Sent' = Sent /\ saved <= saved'
    BY <1>0, <1>k DEF Sent
  <2> QED
    BY <1>0, <2>1, SameSent
<1>1. CASE \/ StartLoad \/ AnswerLoad \/ LoadFails \/ OpenLive \/ ReadHighWater
           \/ Drain \/ DiscardReplayed \/ Retry \/ \E n \in 1..MaxEvents : Publish(n)
           \/ \E t \in Thread : Commit(t)
  BY <1>1, <1>k, ServerMoves
<1>2. CASE Subscribe \/ PullReplay \/ PullLive
  <2>1. /\ UNCHANGED <<log, unpublished, inbox, client, drops>>
        /\ wire' = wire \/ (wire = <<>> /\ wire' \in Seq(Item))
    BY <1>2, SendIs
  <2>2. CASE wire = <<>> /\ wire' \in Seq(Item)
    <3>1. \A i \in 1..Len(Sent) : i \in 1..Len(Sent') /\ Sent'[i] = Sent[i]
      BY <2>1, <2>2, SentGrows
    <3> QED
      BY <2>1, <3>1 DEF Reached, Reaches, client, kept
  <2> QED
    BY <1>k, <2>1, <2>2 DEF client, kept
<1>3. CASE Receive
  <2>1. Sent' = Sent /\ saved' = saved
    BY <1>3, ReceiveIs DEF Places, client, kept
  <2> QED
    BY <1>0, <2>1, SameSent
<1>4. CASE Advance
  <2>1. CASE UNCHANGED inbox
    BY <1>4, <1>k, <2>1, AdvanceIs
  <2>2. CASE inbox' = Tail(inbox) /\ UNCHANGED applying /\ Head(inbox).sequence <= saved
    BY <1>0, <1>4, <2>2, AdvanceIs, ChainTail
  <2> QED
    BY <1>4, <2>1, <2>2, AdvanceIs
<1>5. CASE Apply
  BY <1>0, <1>5, ApplyIs, ChainTail
<1>6. CASE InstallLoad \/ LoseConnection \/ RestartServer \/ ReopenView \/ RestartClient
  BY <1>6 DEF InstallLoad, LoseConnection, RestartServer, ReopenView, RestartClient, Unsubscribe, Sending
<1>7. CASE UNCHANGED vars
  BY <1>7, <1>k DEF vars, client, kept
<1> QED
  BY <1>1, <1>2, <1>3, <1>4, <1>5, <1>6, <1>7 DEF Next, Deliver

LEMMA StillReplayed ==
  ASSUME IInv, Places', [Next]_vars, UNCHANGED <<phase, position, through>>
  PROVE  ReplayInv'
<1> USE DEF IInv
<1>1. LogKept /\ position \in 0..Len(log) /\ through \in 0..Len(log) /\ Len(log) \in Nat
  BY LogIsKept, SentFacts DEF Places, ServerInv
<1>2. phase \in Sending => \A m \in Nat : Reached(m) => Reached(m)'
  BY ReachedStep
<1>3. /\ \A m \in 1..position : m \in Nat /\ log'[m] = log[m]
      /\ \A m \in 1..through : m \in Nat /\ log'[m] = log[m]
  BY <1>1 DEF LogKept
<1> QED
  BY <1>2, <1>3 DEF ReplayInv, Sending

(* The first part covers all that the client has reached.                  *)
LEMMA FirstPart ==
  ASSUME IInv, Places', Subscribe
  PROVE  ReplayInv'
<1> USE DEF IInv
<1>1. /\ phase' = "head" /\ wire = <<>> /\ through' = HighWater
      /\ UNCHANGED <<log, inbox, client>>
      /\ IsViewed(HighWater) /\ \A n : IsViewed(n) => n <= HighWater
      /\ \/ Known /\ position' = cursor /\ wire' = <<>>
         \/ position' = HighWater /\ wire' = <<Snapshot(HighWater)>>
  BY SubscribeIs DEF Places
<1>2. HighWater \in 1..MaxEvents /\ HighWater \in Nat /\ 1 <= HighWater
  BY <1>1, InBounds DEF Places
<1>3. /\ saved' = saved /\ saved \in Nat /\ cursor \in Nat
      /\ Len(Sent) \in Nat /\ \A i \in 1..Len(Sent) : Sent[i].sequence \in Nat
  BY <1>1, SentFacts DEF client, kept
<1>4. CASE Known /\ position' = cursor /\ wire' = <<>>
  <2>1. Sent' = Sent
    BY <1>1, <1>4 DEF Sent
  <2>2. CASE applying
    <3>1. 1 \in 1..Len(Sent) /\ Sent[1].sequence = cursor /\ IsViewed(cursor)
      BY <2>2, SentFacts, HeadIs DEF Places, ClientInv
    <3>2. \A m \in 1..cursor : Reached(m)'
      BY <1>3, <2>1, <3>1 DEF Reached, Reaches
    <3>3. 1 <= cursor
      BY <3>1, InBounds DEF Places, IsViewed
    <3> QED
      BY <1>1, <1>2, <1>4, <3>2, <3>3 DEF ReplayInv
  <2>3. CASE ~applying
    <3>1. cursor = saved /\ view = Prefix(saved)
      BY <2>3 DEF ClientIsPrefix, Places, ClientInv
    <3>2. view[1] > 0
      BY <1>4 DEF Known
    <3>3. 1 <= saved
      <4>1. view[1] = IF 1 <= saved /\ 1 \in DOMAIN log /\ log[1] = Viewed THEN 1 ELSE 0
        BY <3>1, StreamAssumption DEF Prefix
      <4> QED
        BY <3>2, <4>1
    <3>4. \A m \in 1..cursor : Reached(m)'
      BY <1>3, <3>1 DEF Reached, Reaches
    <3> QED
      BY <1>1, <1>2, <1>4, <3>1, <3>3, <3>4 DEF ReplayInv
  <2> QED
    BY <2>2, <2>3
<1>5. CASE position' = HighWater /\ wire' = <<Snapshot(HighWater)>>
  <2>1. wire' \in Seq(Item) /\ Len(wire') = 1 /\ wire'[1].sequence = HighWater
    BY <1>2, <1>5, OneItem
  <2>2. Len(Sent) + 1 \in 1..Len(Sent') /\ Sent'[Len(Sent) + 1] = wire'[1]
    <3>1. 1 \in 1..Len(wire')
      BY <2>1
    <3> QED
      BY <1>1, <2>1, <3>1, SentGrows
  <2>3. \A m \in 1..HighWater : Reached(m)'
    BY <1>2, <2>1, <2>2 DEF Reached, Reaches
  <2> QED
    BY <1>1, <1>2, <1>5, <2>3 DEF ReplayInv
<1> QED
  BY <1>1, <1>4, <1>5

LEMMA ReplayStep == IInv /\ Places' /\ [Next]_vars => ReplayInv'
<1> SUFFICES ASSUME IInv, Places', [Next]_vars PROVE ReplayInv'
  OBVIOUS
<1> USE DEF IInv
<1>0. /\ position \in Nat /\ through \in Nat /\ Len(log) \in Nat
      /\ position <= Len(log) /\ through <= Len(log) /\ LogInv
  BY SentFacts DEF Places, ServerInv
<1>1. phase' \in Sending => \A m \in Nat : Reached(m) => Reached(m)'
  BY ReachedStep
<1>2. CASE phase' \notin Sending
  BY <1>2 DEF ReplayInv, Sending
<1>3. CASE OpenLive
  <2>1. /\ phase = "head" /\ phase' = "open" /\ Pending = {} /\ UNCHANGED <<log, position, through>>
    BY <1>3 DEF OpenLive, store
  <2>2. ASSUME NEW m \in 1..through, log[m] = Viewed PROVE Reached(m)'
    <3>1. m \in 1..Len(log) /\ m \in Nat /\ m <= through
      BY <1>0, <2>2
    <3>2. m <= position
      BY <1>0, <2>1, <2>2, <3>1, PendingIs DEF IsViewed, Places, ServerInv
    <3>3. m \in 1..position
      BY <1>0, <3>1, <3>2
    <3> QED
      BY <1>1, <2>1, <2>2, <3>1, <3>3 DEF ReplayInv, Sending
  <2> QED
    BY <2>1, <2>2 DEF ReplayInv
<1>4. CASE ReadHighWater
  <2>1. phase = "open" /\ phase' = "tail" /\ position' = through /\ through' = Len(log) /\ log' = log
    BY <1>4 DEF ReadHighWater, store
  <2>2. \A m \in 1..through : m \in Nat
    BY <1>0
  <2>3. 1 <= Len(log)
    BY DEF Places, LogInv
  <2> QED
    BY <1>1, <2>1, <2>2, <2>3 DEF ReplayInv, Sending
<1>5. CASE PullReplay
  <2>1. /\ phase \in {"head", "tail"} /\ wire = <<>>
        /\ UNCHANGED <<log, unpublished, load, through, inbox, client, drops>>
        /\ \/ phase' = "failed"
           \/ /\ IsViewed(position') /\ position < position'
              /\ \A n : IsViewed(n) /\ n < position' => n <= position
              /\ wire' = <<Event(position')>> /\ UNCHANGED <<phase, hub, queue>>
    BY <1>5, PullReplayIs DEF Places
  <2>2. CASE phase' = "failed"
    BY <2>2 DEF ReplayInv
  <2>3. CASE /\ IsViewed(position') /\ position < position'
             /\ \A n : IsViewed(n) /\ n < position' => n <= position
             /\ wire' = <<Event(position')>> /\ UNCHANGED <<phase, hub, queue>>
    <3>1. PICK p : p = position'
      OBVIOUS
    <3>2. p \in 1..MaxEvents /\ p \in 0..Len(log)
      BY <2>3, <3>1, InBounds DEF Places
    <3>3. wire' \in Seq(Item) /\ Len(wire') = 1 /\ wire'[1].sequence = p
      BY <2>3, <3>1, <3>2, OneItem
    <3>4. Len(Sent) + 1 \in 1..Len(Sent') /\ Sent'[Len(Sent) + 1].sequence = p
      <4>1. 1 \in 1..Len(wire')
        BY <3>3
      <4> QED
        BY <2>1, <3>3, <4>1, SentGrows
    <3>5. Reached(p)'
      <4>1. p <= p
        BY <1>0, <3>2
      <4> QED
        BY <3>4, <4>1 DEF Reached, Reaches
    <3>6. ASSUME NEW m \in 1..p, log[m] = Viewed PROVE Reached(m)'
      <4>1. m \in Nat /\ m \in 1..Len(log) /\ (m = p \/ m < p)
        BY <1>0, <3>2, <3>6
      <4>2. CASE m = p
        BY <3>5, <4>2
      <4>3. CASE m < p
        <5>1. m <= position
          BY <2>3, <3>1, <3>6, <4>1, <4>3 DEF IsViewed
        <5>2. m \in 1..position
          BY <1>0, <3>6, <4>1, <5>1
        <5>3. Reached(m)
          BY <2>1, <3>6, <5>2 DEF ReplayInv
        <5> QED
          BY <1>1, <2>1, <2>3, <4>1, <5>3 DEF Sending
      <4> QED
        BY <4>1, <4>2, <4>3
    <3>7. 1 <= p
      BY <1>0, <3>2
    <3> QED
      BY <2>1, <2>3, <3>1, <3>6, <3>7 DEF ReplayInv
  <2> QED
    BY <2>1, <2>2, <2>3
<1>6. CASE \/ (\E t \in Thread : Commit(t)) \/ (\E n \in 1..MaxEvents : Publish(n))
           \/ DiscardReplayed \/ PullLive \/ Receive \/ Advance \/ Apply \/ UNCHANGED vars
  <2>1. UNCHANGED <<phase, position, through>>
    BY <1>6 DEF Commit, Publish, DiscardReplayed, PullLive, Receive, Advance, Apply, vars, server
  <2> QED
    BY <2>1, StillReplayed
<1>7. CASE Drain
  <2>1. phase' = "failed" \/ UNCHANGED <<phase, position, through>>
    BY <1>7 DEF Drain, Overflow
  <2> QED
    BY <1>2, <2>1, StillReplayed DEF Sending
<1>8. CASE \/ StartLoad \/ AnswerLoad \/ LoadFails \/ InstallLoad \/ Retry
           \/ LoseConnection \/ RestartServer \/ ReopenView \/ RestartClient
  <2>1. phase' \notin Sending
    BY <1>8 DEF StartLoad, AnswerLoad, LoadFails, InstallLoad, Retry, LoseConnection, RestartServer,
      ReopenView, RestartClient, Unsubscribe, Sending
  <2> QED
    BY <1>2, <2>1
<1> QED
  BY <1>3, <1>4, <1>5, <1>6, <1>7, <1>8, FirstPart DEF Next, Deliver

-----------------------------------------------------------------------------
(* The snapshot on its way over HTTP.                                      *)
LEMMA LoadStep ==
  ASSUME Places, Places', LoadInv, [Next]_vars
  PROVE  LoadInv'
<1> SUFFICES ASSUME phase' = "loading", load' # 0
             PROVE  saved' <= load' /\ \A i \in 1..Len(Sent') : Sent'[i].sequence <= load'
  BY DEF LoadInv
<1>k. ASSUME phase = "loading", load' = load, UNCHANGED <<wire, inbox, saved>>
      PROVE  saved' <= load' /\ \A i \in 1..Len(Sent') : Sent'[i].sequence <= load'
  <2>1. Sent' = Sent
    BY <1>k DEF Sent
  <2> QED
    BY <1>k, <2>1 DEF LoadInv
<1>1. CASE AnswerLoad
  <2>1. load' = HighWater /\ UNCHANGED <<inbox, wire, saved>>
    BY <1>1 DEF AnswerLoad, client, kept
  <2>2. IsViewed(HighWater) /\ \A n : IsViewed(n) => n <= HighWater
    BY HighWaterIs DEF Places
  <2>3. saved <= HighWater
    <3>1. HighWater \in Nat
      BY <2>2, InBounds DEF Places
    <3> QED
      BY <2>2, <3>1 DEF Places, ClientInv, Mark
  <2>4. Sent' = Sent
    BY <2>1 DEF Sent
  <2>5. \A i \in 1..Len(Sent) : Sent[i].sequence <= HighWater
    BY <2>2, SentFacts
  <2> QED
    BY <2>1, <2>3, <2>4, <2>5
<1>2. CASE StartLoad
  <2>1. phase = "none" /\ load' = load
    BY <1>2 DEF StartLoad
  <2> QED
    BY <2>1 DEF Places, ServerInv
<1>3. CASE (\E t \in Thread : Commit(t)) \/ (\E n \in 1..MaxEvents : Publish(n)) \/ UNCHANGED vars
  <2>1. phase' = phase /\ load' = load /\ UNCHANGED <<wire, inbox, saved>>
    BY <1>3 DEF Commit, Publish, vars, server, client, kept
  <2> QED
    BY <1>k, <2>1
<1>4. CASE Receive
  <2>1. phase' = phase /\ load' = load /\ Sent' = Sent /\ saved' = saved
    BY <1>4, ReceiveIs DEF Places, server, client, kept
  <2> QED
    BY <2>1 DEF LoadInv
<1>t. ASSUME phase = "loading", load' = load, inbox # <<>>, inbox' = Tail(inbox), wire' = wire,
             saved' = saved \/ saved' = Head(inbox).sequence
      PROVE  saved' <= load' /\ \A i \in 1..Len(Sent') : Sent'[i].sequence <= load'
  <2>1. saved <= load /\ \A i \in 1..Len(Sent) : Sent[i].sequence <= load
    BY <1>t DEF LoadInv
  <2>2. 1 \in 1..Len(Sent) /\ Sent[1] = Head(inbox)
    BY <1>t, SentFacts
  <2>3. \A i \in 1..Len(Sent') : i + 1 \in 1..Len(Sent) /\ Sent'[i] = Sent[i + 1]
    BY <1>t, SentTail
  <2> QED
    BY <1>t, <2>1, <2>2, <2>3
<1>5. CASE Advance
  <2>1. phase = "loading" /\ load' = load
    BY <1>5 DEF Advance, server
  <2>2. inbox # <<>> /\ (UNCHANGED inbox \/ inbox' = Tail(inbox)) /\ UNCHANGED <<wire, saved>>
    BY <1>5 DEF Advance, kept
  <2> QED
    BY <1>k, <1>t, <2>1, <2>2
<1>6. CASE Apply
  <2>1. phase = "loading" /\ load' = load
    BY <1>6 DEF Apply, server
  <2>2. /\ inbox # <<>> /\ inbox' = Tail(inbox) /\ wire' = wire
        /\ saved' = Head(inbox).sequence
    BY <1>6 DEF Apply, Remember, Places, ClientInv
  <2> QED
    BY <1>t, <2>1, <2>2
<1>7. CASE \/ LoadFails \/ InstallLoad \/ Subscribe \/ OpenLive \/ ReadHighWater \/ Retry
           \/ LoseConnection \/ RestartServer \/ ReopenView \/ RestartClient
  BY <1>7 DEF LoadFails, InstallLoad, Subscribe, OpenLive, ReadHighWater, Retry, LoseConnection,
    RestartServer, ReopenView, RestartClient, Unsubscribe
<1>8. CASE Drain \/ PullReplay \/ DiscardReplayed \/ PullLive
  BY <1>8 DEF Drain, PullReplay, DiscardReplayed, PullLive, Overflow, Subscribed
<1> QED
  BY <1>1, <1>2, <1>3, <1>4, <1>5, <1>6, <1>7, <1>8 DEF Next, Deliver

-----------------------------------------------------------------------------
(* The projection.                                                         *)
LEMMA PrefixKept ==
  ASSUME Places, Places', LogKept, NEW n \in 0..Len(log)
  PROVE  Prefix(n)' = Prefix(n)
<1>1. /\ DOMAIN log = 1..Len(log) /\ DOMAIN log' = 1..Len(log')
      /\ Len(log) \in Nat /\ Len(log') \in Nat /\ MaxEvents \in Nat
  BY LenProperties, StreamAssumption DEF Places, LogInv
<1>2. Len(log) <= Len(log')
  BY DEF LogKept
<1>3. \A m \in 1..MaxEvents : m <= n =>
        ((m \in DOMAIN log' /\ log'[m] = Viewed) <=> (m \in DOMAIN log /\ log[m] = Viewed))
  BY <1>1, <1>2 DEF LogKept
<1> QED
  BY <1>3 DEF Prefix

(* An event that leaves no gap is all that its projection lacks.           *)
LEMMA PrefixNext ==
  ASSUME Places, NEW c, IsViewed(c), saved < c,
         \A m \in 1..c-1 : log[m] = Viewed => m <= saved
  PROVE  [Prefix(saved) EXCEPT ![c] = @ + 1] = Prefix(c)
<1>1. /\ c \in 1..MaxEvents /\ c \in Nat /\ saved \in Nat /\ MaxEvents \in Nat
      /\ DOMAIN log = 1..Len(log) /\ c \in DOMAIN log /\ log[c] = Viewed
  <2>1. saved \in Nat /\ MaxEvents \in Nat
    BY SentFacts, StreamAssumption
  <2>2. c \in 1..Len(log) /\ log[c] = Viewed
    BY DEF IsViewed
  <2>3. Len(log) \in Nat /\ DOMAIN log = 1..Len(log) /\ Len(log) <= MaxEvents
    BY LenProperties DEF Places, LogInv
  <2> DEFINE l == Len(log)
  <2>4. l \in Nat /\ l <= MaxEvents /\ c \in 1..l
    BY <2>2, <2>3
  <2> HIDE DEF l
  <2>5. c \in 1..MaxEvents /\ c \in Nat
    BY <2>1, <2>4
  <2> QED
    BY <2>1, <2>2, <2>3, <2>5
<1> DEFINE f == [Prefix(saved) EXCEPT ![c] = @ + 1]
<1>2. f[c] = 1
  BY <1>1 DEF Prefix
<1>3. ASSUME NEW m \in 1..MaxEvents, m # c PROVE f[m] = Prefix(c)[m]
  <2>1. f[m] = Prefix(saved)[m]
    BY <1>3 DEF Prefix
  <2>2. m < c \/ c < m
    BY <1>1, <1>3
  <2>3. CASE m < c
    <3>1. m \in 1..c-1 /\ m <= c
      BY <1>1, <1>3, <2>3
    <3> QED
      BY <1>3, <2>1, <3>1 DEF Prefix
  <2>4. CASE c < m
    <3>1. ~(m <= c) /\ ~(m <= saved)
      BY <1>1, <1>3, <2>4
    <3> QED
      BY <1>3, <2>1, <3>1 DEF Prefix
  <2> QED
    BY <2>2, <2>3, <2>4
<1>4. Prefix(c)[c] = 1
  BY <1>1 DEF Prefix
<1>5. \A m \in 1..MaxEvents : f[m] = Prefix(c)[m]
  BY <1>2, <1>3, <1>4
<1> DEFINE g == Prefix(c)
<1>6. f = [m \in 1..MaxEvents |-> f[m]] /\ g = [m \in 1..MaxEvents |-> g[m]]
  BY DEF Prefix
<1>7. \A m \in 1..MaxEvents : f[m] = g[m]
  BY <1>5
<1> HIDE DEF f, g
<1>8. f = g
  BY <1>6, <1>7
<1> QED
  BY <1>8 DEF f, g

LEMMA ViewStep == IInv /\ Places' /\ Prompt /\ [Next]_vars => ClientIsPrefix'
<1> SUFFICES ASSUME IInv, Places', Prompt, [Next]_vars PROVE ClientIsPrefix'
  OBVIOUS
<1> USE DEF IInv
<1>0. /\ LogKept /\ saved \in 0..Len(log) /\ disk.cursor \in 0..Len(log)
      /\ cursor \in 0..Len(log) /\ load \in 0..Len(log)
  BY LogIsKept DEF Places, ClientInv, ServerInv
<1>1. \A n \in 0..Len(log) : Prefix(n)' = Prefix(n)
  BY <1>0, PrefixKept
<1>v. disk' = disk => disk'.view = (Prefix(disk.cursor))'
  <2>1. disk' = disk => (Prefix(disk.cursor))' = Prefix(disk.cursor)
    <3> SUFFICES ASSUME disk' = disk PROVE (Prefix(disk.cursor))' = Prefix(disk.cursor)
      OBVIOUS
    <3>1. PICK d \in 0..Len(log) : d = disk.cursor
      BY <1>0
    <3>2. Prefix(d)' = Prefix(d)
      BY <1>1
    <3> QED
      BY <3>1, <3>2 DEF Prefix
  <2> QED
    BY <2>1 DEF ClientIsPrefix
<1>s. ASSUME NEW n \in 0..Len(log), saved' = n PROVE (Prefix(saved))' = Prefix(n)
  <2>1. Prefix(n)' = Prefix(n)
    BY <1>1
  <2> QED
    BY <1>s, <2>1 DEF Prefix
<1>d. ASSUME view' = Prefix(saved)', disk'.cursor = saved', disk'.view = view'
      PROVE  disk'.view = (Prefix(disk.cursor))'
  BY <1>d DEF Prefix
<1>k. ASSUME UNCHANGED <<view, saved, disk>>, ~applying' => cursor' = saved' PROVE ClientIsPrefix'
  <2>1. view' = (Prefix(saved))'
    BY <1>0, <1>k, <1>s DEF ClientIsPrefix
  <2> QED
    BY <1>k, <1>v, <2>1 DEF ClientIsPrefix
<1>2. CASE \/ StartLoad \/ AnswerLoad \/ LoadFails \/ OpenLive \/ ReadHighWater
           \/ Drain \/ DiscardReplayed \/ Retry \/ (\E n \in 1..MaxEvents : Publish(n))
           \/ (\E t \in Thread : Commit(t))
  BY <1>2, <1>k, ServerMoves DEF ClientIsPrefix
<1>3. CASE \/ Subscribe \/ PullReplay \/ PullLive \/ Receive
           \/ LoseConnection \/ RestartServer \/ UNCHANGED vars
  <2>1. UNCHANGED <<cursor, applying, view, saved, disk>>
    BY <1>3 DEF Subscribe, PullReplay, PullLive, Receive, LoseConnection, RestartServer, vars,
      client, kept
  <2> QED
    BY <1>k, <2>1 DEF ClientIsPrefix
<1>4. CASE Advance
  <2>1. UNCHANGED <<view, saved, disk>> /\ (~applying' => cursor' = saved')
    BY <1>4, AdvanceIs
  <2> QED
    BY <1>k, <2>1
<1>5. CASE Apply
  <2>1. /\ ~applying' /\ cursor' = cursor /\ saved' = cursor
        /\ disk' = disk \/ (disk'.cursor = saved' /\ disk'.view = view')
        /\ cursor = Head(inbox).sequence
    BY <1>5, ApplyIs
  <2>2. view' = Prefix(cursor)
    <3>1. CASE Head(inbox).kind = "event"
      <4>1. /\ saved < cursor /\ 1 < cursor /\ \A m \in 1..cursor-1 : log[m] = Viewed => m <= saved
            /\ (Known /\ view' = [view EXCEPT ![cursor] = @ + 1]) \/ ~Known
        BY <1>5, <3>1, ApplyIs
      <4>2. IsViewed(cursor) /\ cursor \in Nat
        BY <1>5, <2>1, SentFacts, ApplyIs, HeadIs DEF Places
      <4>3. Known
        <5>1. 1 \in 1..cursor-1 /\ log[1] = Viewed /\ 1 \in DOMAIN log
          BY <4>1, <4>2, LenProperties DEF Places, LogInv, IsViewed
        <5>2. 1 <= saved
          BY <4>1, <5>1
        <5>3. view[1] = 1
          BY <5>1, <5>2, StreamAssumption DEF ClientIsPrefix, Prefix
        <5> QED
          BY <5>3 DEF Known
      <4>4. view' = [Prefix(saved) EXCEPT ![cursor] = @ + 1]
        BY <4>1, <4>3 DEF ClientIsPrefix
      <4> QED
        BY <4>1, <4>2, <4>4, PrefixNext
    <3>2. CASE Head(inbox).kind = "snapshot"
      BY <1>5, <3>2, ApplyIs
    <3> QED
      BY <1>5, <3>1, <3>2, ApplyIs
  <2>3. view' = (Prefix(saved))'
    BY <1>0, <1>s, <2>1, <2>2
  <2> QED
    BY <1>d, <1>v, <2>1, <2>3 DEF ClientIsPrefix
<1>6. CASE InstallLoad
  <2>1. /\ cursor' = load /\ saved' = load /\ view' = Prefix(load)
        /\ disk' = disk \/ (disk'.cursor = saved' /\ disk'.view = view')
    BY <1>6, InstallIs
  <2>2. view' = (Prefix(saved))'
    BY <1>0, <1>s, <2>1
  <2> QED
    BY <1>d, <1>v, <2>1, <2>2 DEF ClientIsPrefix
<1>7. CASE ReopenView
  <2>1. /\ cursor' = saved /\ view' = view /\ saved' = saved
        /\ disk' = disk \/ (disk'.cursor = saved' /\ disk'.view = view')
    BY <1>7 DEF ReopenView, Remember
  <2>2. view' = (Prefix(saved))'
    BY <1>0, <1>s, <2>1 DEF ClientIsPrefix
  <2> QED
    BY <1>d, <1>v, <2>1, <2>2 DEF ClientIsPrefix
<1>8. CASE RestartClient
  <2>1. cursor' = disk.cursor /\ view' = disk.view /\ saved' = disk.cursor /\ disk' = disk
    BY <1>8 DEF RestartClient
  <2>2. view' = (Prefix(saved))'
    BY <1>0, <1>s, <2>1 DEF ClientIsPrefix
  <2> QED
    BY <1>v, <2>1, <2>2 DEF ClientIsPrefix
<1> QED
  BY <1>2, <1>3, <1>4, <1>5, <1>6, <1>7, <1>8 DEF Next, Deliver

-----------------------------------------------------------------------------
(* Live events keep the order of their commits.                            *)
LEMMA LiveTypes ==
  ASSUME Places
  PROVE  /\ Len(queue) \in Nat /\ Len(hub) \in Nat /\ Len(log) \in Nat /\ through \in Nat
         /\ \A i \in 1..Len(queue) : queue[i] \in Nat /\ queue[i] <= Len(log) /\ IsViewed(queue[i])
         /\ \A i \in 1..Len(hub) : hub[i] \in Nat /\ hub[i] <= Len(log)
         /\ \A n \in unpublished : n \in Nat /\ n <= Len(log)
         /\ ~Subscribed => Len(hub) = 0 /\ Len(queue) = 0
<1>1. /\ Len(queue) \in Nat /\ Len(hub) \in Nat /\ Len(log) \in Nat /\ through \in Nat
      /\ \A i \in 1..Len(queue) : queue[i] \in 1..Len(log) /\ IsViewed(queue[i])
      /\ \A i \in 1..Len(hub) : hub[i] \in 1..Len(log)
      /\ \A n \in unpublished : n \in 1..Len(log)
  <2>1. /\ queue \in Seq(1..Len(log)) /\ hub \in Seq(1..Len(log))
        /\ log \in Seq(Thread) /\ through \in 0..Len(log)
        /\ \A i \in 1..Len(queue) : IsViewed(queue[i])
        /\ \A n \in unpublished : n \in 1..Len(log)
    BY DEF Places, ServerInv, LogInv
  <2>2. Len(queue) \in Nat /\ Len(hub) \in Nat /\ Len(log) \in Nat /\ through \in Nat
    BY <2>1, LenProperties
  <2>3. \A i \in 1..Len(queue) : queue[i] \in 1..Len(log)
    BY <2>1, ElementOfSeq
  <2>4. \A i \in 1..Len(hub) : hub[i] \in 1..Len(log)
    BY <2>1, ElementOfSeq
  <2> QED
    BY <2>1, <2>2, <2>3, <2>4
<1>2. ~Subscribed => Len(hub) = 0 /\ Len(queue) = 0
  BY NoItems DEF Places, ServerInv
<1> QED
  BY <1>1, <1>2

LEMMA PublishIs ==
  ASSUME Places, NEW n, Publish(n)
  PROVE  /\ n \in unpublished /\ unpublished' = unpublished \ {n}
         /\ Ordered => \A m \in unpublished : n <= m
         /\ UNCHANGED <<log, phase, through, queue>>
         /\ Subscribed => /\ Len(hub') = Len(hub) + 1 /\ hub'[Len(hub) + 1] = n
                          /\ \A i \in 1..Len(hub) : hub'[i] = hub[i]
<1>1. hub \in Seq(1..Len(log)) /\ n \in 1..Len(log)
  BY DEF Publish, Places, ServerInv, LogInv
<1>2. Subscribed => hub' = Append(hub, n)
  BY DEF Publish
<1> QED
  BY <1>1, <1>2, AppendProperties DEF Publish

LEMMA DrainIs ==
  ASSUME Places, Drain
  PROVE  /\ UNCHANGED <<log, unpublished, through>>
         /\ \/ phase' = "failed"
            \/ /\ Subscribed /\ phase' = phase /\ 1 <= Len(hub) /\ Len(hub') = Len(hub) - 1
               /\ \A i \in 1..Len(hub') : i + 1 \in 1..Len(hub) /\ hub'[i] = hub[i + 1]
               /\ \/ ~Wanted(hub[1]) /\ queue' = queue
                  \/ /\ Len(queue') = Len(queue) + 1 /\ queue'[Len(queue) + 1] = hub[1]
                     /\ \A i \in 1..Len(queue) : queue'[i] = queue[i]
<1>1. /\ UNCHANGED <<log, unpublished, through>> /\ Subscribed /\ hub # <<>>
      /\ \/ phase' = "failed"
         \/ /\ hub' = Tail(hub) /\ phase' = phase
            /\ (~Wanted(Head(hub)) /\ queue' = queue) \/ queue' = Append(queue, Head(hub))
  BY DEF Drain, Overflow, store
<1>2. /\ hub \in Seq(1..Len(log)) /\ queue \in Seq(1..Len(log))
  BY DEF Places, ServerInv
<1>3. /\ Head(hub) = hub[1] /\ Len(hub) \in Nat /\ 1 <= Len(hub)
      /\ Len(Tail(hub)) = Len(hub) - 1
      /\ \A i \in 1..Len(Tail(hub)) : i + 1 \in 1..Len(hub) /\ Tail(hub)[i] = hub[i + 1]
  BY <1>1, <1>2, TailItems
<1>4. Head(hub) \in 1..Len(log)
  <2>1. 1 \in 1..Len(hub)
    BY <1>3
  <2> QED
    BY <1>2, <1>3, <2>1, ElementOfSeq
<1>5. /\ Len(Append(queue, Head(hub))) = Len(queue) + 1
      /\ Append(queue, Head(hub))[Len(queue) + 1] = Head(hub)
      /\ \A i \in 1..Len(queue) : Append(queue, Head(hub))[i] = queue[i]
  BY <1>2, <1>4, AppendProperties
<1> QED
  BY <1>1, <1>3, <1>5

LEMMA DiscardIs ==
  ASSUME Places, DiscardReplayed
  PROVE  /\ UNCHANGED <<log, unpublished, through, phase, hub>>
         /\ 1 <= Len(queue) /\ queue[1] <= through /\ Len(queue') = Len(queue) - 1
         /\ \A i \in 1..Len(queue') : i + 1 \in 1..Len(queue) /\ queue'[i] = queue[i + 1]
<1>1. queue # <<>> /\ queue \in Seq(1..Len(log))
  BY DEF DiscardReplayed, Places, ServerInv
<1> QED
  BY <1>1, TailItems DEF DiscardReplayed, store

LEMMA OrderStep == IInv /\ Places' /\ Ordered /\ [Next]_vars /\ Subscribed' => OrderInv'
<1> SUFFICES ASSUME IInv, Places', Ordered, [Next]_vars, Subscribed' PROVE OrderInv'
  OBVIOUS
<1> USE DEF IInv
<1>0. /\ Len(queue) \in Nat /\ Len(hub) \in Nat /\ Len(log) \in Nat
      /\ \A i \in 1..Len(queue) : queue[i] \in Nat /\ queue[i] <= Len(log)
      /\ \A i \in 1..Len(hub) : hub[i] \in Nat /\ hub[i] <= Len(log)
      /\ \A n \in unpublished : n \in Nat /\ n <= Len(log)
      /\ ~Subscribed => Len(hub) = 0 /\ Len(queue) = 0
  BY LiveTypes
<1>1. OrderInv
  <2>1. Subscribed => OrderInv
    BY DEF LiveInv
  <2>2. ~Subscribed => OrderInv
    BY <1>0 DEF OrderInv
  <2> QED
    BY <2>1, <2>2
<1>k. ASSUME UNCHANGED <<queue, hub>>, unpublished' \subseteq unpublished PROVE OrderInv'
  BY <1>1, <1>k DEF OrderInv
<1>2. ASSUME NEW t \in Thread, Commit(t) PROVE OrderInv'
  <2>1. UNCHANGED <<queue, hub>> /\ unpublished' = unpublished \cup {Len(log) + 1}
    BY <1>2 DEF Commit, server
  <2> QED
    BY <1>0, <1>1, <2>1 DEF OrderInv
<1>3. ASSUME NEW n \in 1..MaxEvents, Publish(n) PROVE OrderInv'
  <2>1. /\ n \in unpublished /\ unpublished' = unpublished \ {n} /\ \A m \in unpublished : n <= m
        /\ phase' = phase /\ queue' = queue
    BY <1>3, PublishIs
  <2>2. /\ Len(hub') = Len(hub) + 1 /\ hub'[Len(hub) + 1] = n
        /\ \A i \in 1..Len(hub) : hub'[i] = hub[i]
    BY <1>3, <2>1, PublishIs DEF Subscribed
  <2>3. \A i \in 1..Len(hub') : \/ i \in 1..Len(hub) /\ hub'[i] = hub[i]
                                \/ i = Len(hub) + 1 /\ hub'[i] = n
    BY <1>0, <2>2
  <2>4. \A i, j \in 1..Len(hub') : i < j => hub'[i] < hub'[j]
    <3> TAKE i, j \in 1..Len(hub')
    <3> HAVE i < j
    <3>1. i \in 1..Len(hub) /\ hub'[i] = hub[i]
      BY <1>0, <2>2, <2>3
    <3>2. CASE j \in 1..Len(hub) /\ hub'[j] = hub[j]
      BY <1>1, <3>1, <3>2 DEF OrderInv
    <3>3. CASE hub'[j] = n
      BY <1>1, <2>1, <3>1, <3>3 DEF OrderInv
    <3> QED
      BY <2>3, <3>2, <3>3
  <2>5. \A i \in 1..Len(queue), j \in 1..Len(hub') : queue[i] < hub'[j]
    BY <1>1, <2>1, <2>3 DEF OrderInv
  <2>6. \A m \in unpublished' : n < m /\ m \in unpublished
    BY <1>0, <2>1
  <2>7. \A m \in unpublished' : \A i \in 1..Len(hub') : hub'[i] < m
    BY <1>1, <2>3, <2>6 DEF OrderInv
  <2> QED
    BY <1>1, <2>1, <2>4, <2>5, <2>6, <2>7 DEF OrderInv
<1>4. CASE Drain
  <2>1. /\ unpublished' = unpublished
        /\ 1 <= Len(hub) /\ Len(hub') = Len(hub) - 1
        /\ \A i \in 1..Len(hub') : i + 1 \in 1..Len(hub) /\ hub'[i] = hub[i + 1]
        /\ \/ queue' = queue
           \/ /\ Len(queue') = Len(queue) + 1 /\ queue'[Len(queue) + 1] = hub[1]
              /\ \A i \in 1..Len(queue) : queue'[i] = queue[i]
    BY <1>4, DrainIs DEF Subscribed
  <2>2. \A i, j \in 1..Len(hub') : i < j => hub'[i] < hub'[j]
    <3> TAKE i, j \in 1..Len(hub')
    <3> HAVE i < j
    <3>1. i + 1 \in 1..Len(hub) /\ j + 1 \in 1..Len(hub) /\ i + 1 < j + 1
      BY <1>0, <2>1
    <3> QED
      BY <1>1, <2>1, <3>1 DEF OrderInv
  <2>3. 1 \in 1..Len(hub) /\ \A i \in 1..Len(hub') : hub[1] < hub'[i]
    <3>1. \A i \in 1..Len(hub') : 1 < i + 1
      BY <1>0, <2>1
    <3> QED
      BY <1>0, <1>1, <2>1, <3>1 DEF OrderInv
  <2>4. \A i \in 1..Len(queue') : \/ i \in 1..Len(queue) /\ queue'[i] = queue[i]
                                  \/ i = Len(queue) + 1 /\ queue'[i] = hub[1]
    BY <1>0, <2>1
  <2>5. \A i, j \in 1..Len(queue') : i < j => queue'[i] < queue'[j]
    <3> TAKE i, j \in 1..Len(queue')
    <3> HAVE i < j
    <3>1. i \in 1..Len(queue) /\ queue'[i] = queue[i]
      BY <1>0, <2>1
    <3>2. CASE j \in 1..Len(queue) /\ queue'[j] = queue[j]
      BY <1>1, <3>1, <3>2 DEF OrderInv
    <3>3. CASE queue'[j] = hub[1]
      BY <1>1, <2>3, <3>1, <3>3 DEF OrderInv
    <3> QED
      BY <2>4, <3>2, <3>3
  <2>6. \A i \in 1..Len(queue'), j \in 1..Len(hub') : queue'[i] < hub'[j]
    BY <1>1, <2>1, <2>3, <2>4 DEF OrderInv
  <2>7. \A n \in unpublished : /\ \A i \in 1..Len(queue') : queue'[i] < n
                               /\ \A i \in 1..Len(hub') : hub'[i] < n
    BY <1>1, <2>1, <2>3, <2>4 DEF OrderInv
  <2> QED
    BY <2>1, <2>2, <2>5, <2>6, <2>7 DEF OrderInv
<1>r. ASSUME NEW k \in Nat, UNCHANGED <<hub, unpublished>>, Len(queue') \in Nat,
             \A i \in 1..Len(queue') : i + k \in 1..Len(queue) /\ queue'[i] = queue[i + k]
      PROVE  OrderInv'
  <2>1. \A i, j \in 1..Len(queue') : i < j => queue'[i] < queue'[j]
    <3> TAKE i, j \in 1..Len(queue')
    <3> HAVE i < j
    <3>1. i + k \in 1..Len(queue) /\ j + k \in 1..Len(queue) /\ i + k < j + k
      BY <1>r
    <3> QED
      BY <1>1, <1>r, <3>1 DEF OrderInv
  <2> QED
    BY <1>1, <1>r, <2>1 DEF OrderInv
<1>5. CASE DiscardReplayed
  <2>1. Len(queue') \in Nat
    BY <1>0, <1>5, DiscardIs
  <2> QED
    BY <1>5, <1>r, <2>1, DiscardIs
<1>6. CASE PullLive
  <2>1. PICK k \in 1..Len(queue) :
          /\ Len(queue') = Len(queue) - k
          /\ \A i \in 1..Len(queue') : i + k \in 1..Len(queue) /\ queue'[i] = queue[i + k]
    BY <1>6, BatchIs DEF Places, ServerInv
  <2>2. k \in Nat /\ Len(queue') \in Nat
    BY <1>0, <2>1
  <2>3. UNCHANGED <<hub, unpublished>>
    BY <1>6 DEF PullLive, store
  <2> QED
    BY <1>r, <2>1, <2>2, <2>3
<1>7. CASE \/ StartLoad \/ AnswerLoad \/ LoadFails \/ InstallLoad \/ Subscribe \/ OpenLive \/ Retry
           \/ ReadHighWater \/ Receive \/ Advance \/ Apply \/ UNCHANGED vars
  <2>1. UNCHANGED <<queue, hub, unpublished>>
    BY <1>7 DEF StartLoad, AnswerLoad, LoadFails, InstallLoad, Subscribe, OpenLive, Retry,
      ReadHighWater, Receive, Advance, Apply, vars, store, server
  <2> QED
    BY <1>k, <2>1
<1>8. CASE PullReplay
  <2>1. phase' = "failed" \/ UNCHANGED <<queue, hub, unpublished>>
    BY <1>8, PullReplayIs DEF Places
  <2> QED
    BY <1>k, <2>1 DEF Subscribed
<1>9. CASE LoseConnection \/ RestartServer \/ ReopenView \/ RestartClient
  BY <1>9 DEF LoseConnection, RestartServer, ReopenView, RestartClient, Unsubscribe, Subscribed
<1> QED
  BY <1>2, <1>3, <1>4, <1>5, <1>6, <1>7, <1>8, <1>9 DEF Next, Deliver

(* No live event behind the replay is lost on its way.                     *)
LEMMA TailStep == IInv /\ Places' /\ [Next]_vars => TailInv'
<1> SUFFICES ASSUME IInv, Places', [Next]_vars, phase' = "tail",
                    NEW m \in through'+1..Len(log'), log'[m] = Viewed
             PROVE  Waiting(m)'
  BY DEF TailInv
<1> USE DEF IInv
<1>0. /\ Len(queue) \in Nat /\ Len(hub) \in Nat /\ Len(log) \in Nat /\ through \in Nat
      /\ through' \in Nat /\ Len(log') \in Nat
  BY LiveTypes, LenProperties DEF Places, ServerInv, LogInv
<1>1. m \in Nat /\ through' < m /\ m <= Len(log')
  <2> DEFINE a == through'
             b == Len(log')
  <2>1. a \in Nat /\ b \in Nat /\ m \in a+1..b
    BY <1>0
  <2> HIDE DEF a, b
  <2>2. m \in Nat /\ a < m /\ m <= b
    BY <2>1
  <2> QED
    BY <2>2 DEF a, b
<1>2. Reached(m) => Reached(m)'
  BY <1>1, ReachedStep DEF Sending
<1>w. ASSUME phase = "tail", through' = through, log' = log PROVE Waiting(m)
  BY <1>0, <1>w DEF LiveInv, TailInv
<1>k. ASSUME phase = "tail", through' = through, log' = log, UNCHANGED <<queue, hub, unpublished>>
      PROVE  Waiting(m)'
  BY <1>2, <1>k, <1>w DEF Waiting, Live
<1>3. ASSUME NEW t \in Thread, Commit(t) PROVE Waiting(m)'
  <2>1. /\ UNCHANGED <<queue, hub, phase, through>> /\ unpublished' = unpublished \cup {Len(log) + 1}
        /\ Len(log') = Len(log) + 1 /\ \A n \in 1..Len(log) : log'[n] = log[n]
    BY <1>3, Grown DEF Commit, server, Places
  <2>2. CASE m = Len(log) + 1
    BY <2>1, <2>2 DEF Waiting, Live
  <2>3. CASE m # Len(log) + 1
    <3>1. m \in through+1..Len(log) /\ log[m] = Viewed
      BY <1>0, <1>1, <2>1, <2>3
    <3>2. Waiting(m)
      BY <2>1, <3>1 DEF LiveInv, TailInv
    <3> QED
      BY <1>2, <2>1, <3>2 DEF Waiting, Live
  <2> QED
    BY <2>2, <2>3
<1>4. ASSUME NEW n \in 1..MaxEvents, Publish(n) PROVE Waiting(m)'
  <2>1. UNCHANGED <<log, phase, through, queue>> /\ unpublished' = unpublished \ {n}
    BY <1>4, PublishIs
  <2>2. /\ Len(hub') = Len(hub) + 1 /\ hub'[Len(hub) + 1] = n
        /\ \A i \in 1..Len(hub) : hub'[i] = hub[i]
    BY <1>4, <2>1, PublishIs DEF Subscribed
  <2>3. Waiting(m)
    BY <1>w, <2>1
  <2>4. Len(hub) + 1 \in 1..Len(hub') /\ \A i \in 1..Len(hub) : i \in 1..Len(hub')
    BY <1>0, <2>2
  <2>5. Live(m) => Live(m)'
    BY <2>1, <2>2, <2>4 DEF Live
  <2> QED
    BY <1>2, <2>1, <2>3, <2>5 DEF Waiting
<1>5. CASE Drain
  <2>1. /\ UNCHANGED <<log, unpublished, through, phase>>
        /\ 1 <= Len(hub) /\ Len(hub') = Len(hub) - 1
        /\ \A i \in 1..Len(hub') : i + 1 \in 1..Len(hub) /\ hub'[i] = hub[i + 1]
        /\ \/ ~Wanted(hub[1]) /\ queue' = queue
           \/ /\ Len(queue') = Len(queue) + 1 /\ queue'[Len(queue) + 1] = hub[1]
              /\ \A i \in 1..Len(queue) : queue'[i] = queue[i]
    BY <1>5, DrainIs
  <2>2. Waiting(m) /\ Wanted(m)
    BY <1>0, <1>1, <1>w, <2>1 DEF Wanted
  <2>3. (\E i \in 1..Len(queue) : queue[i] = m) => \E i \in 1..Len(queue') : queue'[i] = m
    BY <1>0, <2>1
  <2>4. ASSUME NEW i \in 1..Len(hub), hub[i] = m PROVE Waiting(m)'
    <3>1. CASE i = 1
      <4>1. Len(queue) + 1 \in 1..Len(queue') /\ queue'[Len(queue) + 1] = m
        BY <1>0, <2>1, <2>2, <2>4, <3>1
      <4> QED
        BY <4>1 DEF Waiting
    <3>2. CASE i # 1
      <4>1. i - 1 \in 1..Len(hub') /\ (i - 1) + 1 = i
        BY <1>0, <2>1, <2>4, <3>2
      <4>2. hub'[i - 1] = m
        BY <2>1, <2>4, <4>1
      <4> QED
        BY <4>1, <4>2 DEF Waiting, Live
    <3> QED
      BY <3>1, <3>2
  <2> QED
    BY <1>2, <2>1, <2>2, <2>3, <2>4 DEF Waiting, Live
<1>6. CASE DiscardReplayed
  <2>1. /\ UNCHANGED <<log, unpublished, through, phase, hub>>
        /\ 1 <= Len(queue) /\ queue[1] <= through /\ Len(queue') = Len(queue) - 1
        /\ \A i \in 1..Len(queue') : i + 1 \in 1..Len(queue) /\ queue'[i] = queue[i + 1]
    BY <1>6, DiscardIs
  <2>2. Waiting(m)
    BY <1>w, <2>1
  <2>3. ASSUME NEW i \in 1..Len(queue), queue[i] = m PROVE \E j \in 1..Len(queue') : queue'[j] = m
    <3>1. i # 1
      BY <1>0, <1>1, <2>1, <2>3
    <3>2. i - 1 \in 1..Len(queue') /\ (i - 1) + 1 = i
      BY <1>0, <2>1, <2>3, <3>1
    <3>3. queue'[i - 1] = m
      BY <2>1, <2>3, <3>2
    <3> QED
      BY <3>2, <3>3
  <2> QED
    BY <1>2, <2>1, <2>2, <2>3 DEF Waiting, Live
<1>7. CASE PullLive
  <2>1. PICK k \in 1..Len(queue) :
          /\ phase = "tail" /\ wire = <<>>
          /\ wire' \in Seq(Item) /\ Len(wire') = k /\ \A i \in 1..k : wire'[i] = Event(queue[i])
          /\ Len(queue') = Len(queue) - k
          /\ \A i \in 1..Len(queue') : i + k \in 1..Len(queue) /\ queue'[i] = queue[i + k]
    BY <1>7, BatchIs DEF Places, ServerInv
  <2>2. UNCHANGED <<log, unpublished, through, hub, inbox>>
    BY <1>7 DEF PullLive, store
  <2>3. Waiting(m)
    BY <1>w, <2>1, <2>2
  <2>4. ASSUME NEW i \in 1..Len(queue), queue[i] = m PROVE Waiting(m)'
    <3>1. CASE i <= k
      <4>1. i \in 1..Len(wire') /\ wire'[i].sequence = m
        BY <1>0, <2>1, <2>4, <3>1 DEF Event
      <4>2. Len(Sent) + i \in 1..Len(Sent') /\ Sent'[Len(Sent) + i].sequence = m
        BY <2>1, <2>2, <4>1, SentGrows
      <4>3. m <= m
        BY <1>1
      <4> QED
        BY <4>2, <4>3 DEF Waiting, Reached, Reaches
    <3>2. CASE ~(i <= k)
      <4>1. i - k \in 1..Len(queue') /\ (i - k) + k = i
        BY <1>0, <2>1, <2>4, <3>2
      <4>2. queue'[i - k] = m
        BY <2>1, <2>4, <4>1
      <4> QED
        BY <4>1, <4>2 DEF Waiting
    <3> QED
      BY <3>1, <3>2
  <2> QED
    BY <1>2, <2>2, <2>3, <2>4 DEF Waiting, Live
<1>8. CASE ReadHighWater
  <2>1. through' = Len(log) /\ log' = log
    BY <1>8 DEF ReadHighWater, store
  <2> QED
    BY <1>0, <1>1, <2>1
<1>9. CASE AnswerLoad \/ Receive \/ Advance \/ Apply \/ UNCHANGED vars
  <2>1. UNCHANGED <<phase, through, log, queue, hub, unpublished>>
    BY <1>9 DEF AnswerLoad, Receive, Advance, Apply, vars, store, server
  <2> QED
    BY <1>k, <2>1
<1>10. CASE PullReplay
  <2>1. phase' = phase /\ UNCHANGED <<through, log, queue, hub, unpublished>>
    BY <1>10, PullReplayIs DEF Places
  <2> QED
    BY <1>k, <2>1
<1>11. CASE \/ StartLoad \/ LoadFails \/ InstallLoad \/ Subscribe \/ OpenLive \/ Retry
            \/ LoseConnection \/ RestartServer \/ ReopenView \/ RestartClient
  BY <1>11 DEF StartLoad, LoadFails, InstallLoad, Subscribe, OpenLive, Retry,
    LoseConnection, RestartServer, ReopenView, RestartClient, Unsubscribe
<1> QED
  BY <1>3, <1>4, <1>5, <1>6, <1>7, <1>8, <1>9, <1>10, <1>11 DEF Next, Deliver

-----------------------------------------------------------------------------
LEMMA EmptyNow == inbox = <<>> /\ wire = <<>> => Len(Sent) = 0
<1>1. <<>> \o <<>> = <<>>
  BY NoItems, ConcatEmptySeq
<1> QED
  BY <1>1, NoItems DEF Sent

LEMMA Start == Init => IInv
<1> SUFFICES ASSUME Init PROVE IInv
  OBVIOUS
<1>1. Places
  BY PlacesInit
<1>2. /\ wire = <<>> /\ inbox = <<>> /\ ~applying /\ phase = "none" /\ saved = 0 /\ cursor = 0
      /\ view = [m \in 1..MaxEvents |-> 0] /\ disk = [cursor |-> 0, view |-> view]
  BY DEF Init
<1>3. Len(Sent) = 0
  BY <1>2, EmptyNow
<1>4. Prefix(0) = [m \in 1..MaxEvents |-> 0]
  BY DEF Prefix
<1>5. ClientIsPrefix
  BY <1>2, <1>4 DEF ClientIsPrefix
<1> QED
  BY <1>1, <1>2, <1>3, <1>5 DEF IInv, ChainInv, LoadInv, ReplayInv, LiveInv, TailInv, Subscribed

LEMMA Step == Ordered /\ Prompt /\ IInv /\ [Next]_vars => IInv'
<1> SUFFICES ASSUME Ordered, Prompt, IInv, [Next]_vars PROVE IInv'
  OBVIOUS
<1>1. Places'
  BY PlacesStep DEF IInv
<1>2. ClientIsPrefix' /\ ChainInv'
  BY <1>1, ViewStep, ChainStep
<1>3. LoadInv' /\ ReplayInv'
  BY <1>1, LoadStep, ReplayStep DEF IInv
<1>4. LiveInv'
  <2>1. Subscribed' => OrderInv'
    BY <1>1, OrderStep
  <2>2. TailInv'
    BY <1>1, TailStep
  <2> QED
    BY <2>1, <2>2 DEF LiveInv
<1> QED
  BY <1>1, <1>2, <1>3, <1>4 DEF IInv

LEMMA Invariant == ASSUME Ordered, Prompt PROVE Spec => []IInv
<1>1. IInv /\ [Next]_vars => IInv'
  BY Step
<1> QED
  BY <1>1, Start, PTL DEF Spec

(* The client's projection holds exactly the events up to the cursor kept  *)
(* with it, wherever connections, buffers, views and processes fail: if    *)
(* events are published in the order of their commits and the client has   *)
(* applied what it buffered when its HTTP snapshot is answered.  The run   *)
(* stream_overtaken shows what happens without the first.                  *)
THEOREM NothingIsSkipped == ASSUME Ordered, Prompt PROVE Spec => []ClientIsPrefix
<1>1. IInv => ClientIsPrefix
  BY DEF IInv
<1> QED
  BY <1>1, Invariant, PTL

(* A live tail at rest has delivered everything: what the buffers have     *)
(* not, the replay has, however writers, hub and budget were interleaved.  *)
THEOREM RestIsComplete == ASSUME Ordered, Prompt PROVE Spec => []QuietIsComplete
<1>1. ASSUME IInv, Quiet PROVE view = Prefix(Len(log))
  <2> USE <1>1 DEF IInv, Quiet
  <2>1. Len(Sent) = 0
    BY EmptyNow
  <2>2. /\ Len(queue) = 0 /\ Len(hub) = 0
        /\ Len(log) \in Nat /\ saved \in Nat /\ through \in Nat /\ position \in Nat
        /\ position \in 0..Len(log) /\ through \in 0..Len(log) /\ LogInv
        /\ DOMAIN log = 1..Len(log)
    BY NoItems, LenProperties, SentFacts DEF Places, ServerInv, LogInv
  <2>3. \A m : Reached(m) => m <= saved
    BY <2>1 DEF Reached, Reaches
  <2>4. ASSUME NEW m \in 1..Len(log), log[m] = Viewed PROVE m <= saved
    <3>1. CASE m <= through
      <4>1. m <= position
        BY <2>2, <2>4, <3>1, PendingIs DEF IsViewed
      <4>2. m \in 1..position
        BY <2>2, <2>4, <4>1
      <4> QED
        BY <2>3, <2>4, <4>2 DEF ReplayInv
    <3>2. CASE ~(m <= through)
      <4>1. m \in through+1..Len(log)
        BY <2>2, <2>4, <3>2
      <4> QED
        BY <2>2, <2>3, <2>4, <4>1 DEF LiveInv, TailInv, Waiting, Live
    <3> QED
      BY <3>1, <3>2
  <2>5. \A m \in 1..MaxEvents : m \in DOMAIN log => m <= Len(log) /\ (log[m] = Viewed => m <= saved)
    BY <2>2, <2>4
  <2>6. Prefix(saved) = Prefix(Len(log))
    BY <2>5 DEF Prefix
  <2> QED
    BY <2>6 DEF ClientIsPrefix
<1>2. IInv => QuietIsComplete
  BY <1>1 DEF QuietIsComplete
<1> QED
  BY <1>2, Invariant, PTL

-----------------------------------------------------------------------------
(* A snapshot is newer than all that the client applies before it, in      *)
(* whatever order events are published.                                    *)
SnapshotInv ==
  \A i \in 1..Len(Sent) : Sent[i].kind = "snapshot" =>
    saved <= Sent[i].sequence /\ \A j \in 1..i-1 : Sent[j].sequence <= Sent[i].sequence

NewerInv ==
  /\ Places /\ SnapshotInv /\ LoadInv
  /\ ~applying => cursor = saved
  /\ Unapplied(saved)

LEMMA SnapshotsKept ==
  ASSUME Places', SnapshotInv, SentKept, saved' = saved
  PROVE  SnapshotInv'
<1> SUFFICES ASSUME NEW i \in 1..Len(Sent'), Sent'[i].kind = "snapshot"
             PROVE  saved <= Sent'[i].sequence /\ \A j \in 1..i-1 : Sent'[j].sequence <= Sent'[i].sequence
  BY DEF SnapshotInv
<1>1. i \in 1..Len(Sent) /\ Sent'[i] = Sent[i]
  BY DEF SentKept
<1>2. \A j \in 1..i-1 : Sent'[j] = Sent[j]
  BY NextSent DEF SentKept
<1> QED
  BY <1>1, <1>2 DEF SnapshotInv

(* The batch on the wire is a snapshot of now, or has none.                *)
LEMMA BatchSnapshots ==
  ASSUME Places, Subscribe \/ PullReplay \/ PullLive
  PROVE  /\ UNCHANGED <<log, inbox, client>>
         /\ \/ wire' = wire
            \/ /\ wire = <<>> /\ wire' \in Seq(Item)
               /\ \A i \in 1..Len(wire') : wire'[i].kind = "snapshot" =>
                    /\ i = 1 /\ saved <= wire'[i].sequence
                    /\ \A j \in 1..Len(Sent) : Sent[j].sequence <= wire'[i].sequence
<1>1. CASE Subscribe
  <2>1. /\ wire = <<>> /\ UNCHANGED <<log, inbox, client>>
        /\ wire' = <<>> \/ wire' = <<Snapshot(HighWater)>>
        /\ IsViewed(HighWater) /\ \A n : IsViewed(n) => n <= HighWater
    BY <1>1, SubscribeIs DEF Places
  <2>2. CASE wire' = <<Snapshot(HighWater)>>
    <3>1. HighWater \in 1..MaxEvents /\ HighWater \in Nat
      BY <2>1, InBounds DEF Places
    <3>2. wire' \in Seq(Item) /\ Len(wire') = 1 /\ wire'[1].sequence = HighWater
      BY <2>2, <3>1, OneItem
    <3>3. saved <= HighWater
      BY <2>1, <3>1 DEF Places, ClientInv, Mark
    <3>4. \A j \in 1..Len(Sent) : Sent[j].sequence <= HighWater
      BY <2>1, SentFacts
    <3> QED
      BY <2>1, <3>2, <3>3, <3>4
  <2> QED
    BY <2>1, <2>2
<1>2. CASE PullReplay
  <2>1. /\ wire = <<>> /\ UNCHANGED <<log, inbox, client>>
        /\ wire' = wire \/ (IsViewed(position') /\ wire' = <<Event(position')>>)
    BY <1>2, PullReplayIs DEF Places
  <2>2. CASE IsViewed(position') /\ wire' = <<Event(position')>>
    <3>1. position' \in 1..MaxEvents
      BY <2>2, InBounds DEF Places
    <3>2. wire' \in Seq(Item) /\ Len(wire') = 1 /\ wire'[1].kind = "event"
      BY <2>2, <3>1, OneItem
    <3> QED
      BY <2>1, <3>2
  <2> QED
    BY <2>1, <2>2
<1>3. CASE PullLive
  <2>1. PICK k \in 1..Len(queue) :
          wire = <<>> /\ wire' \in Seq(Item) /\ Len(wire') = k /\ \A i \in 1..k : wire'[i] = Event(queue[i])
    BY <1>3, BatchIs DEF Places, ServerInv
  <2> QED
    BY <1>3, <2>1 DEF PullLive, store, Event
<1> QED
  BY <1>1, <1>2, <1>3

LEMMA SnapshotsGrow ==
  ASSUME Places, Places', SnapshotInv, Subscribe \/ PullReplay \/ PullLive
  PROVE  SnapshotInv'
<1>1. /\ UNCHANGED <<log, inbox, client>> /\ saved' = saved
      /\ \/ wire' = wire
         \/ /\ wire = <<>> /\ wire' \in Seq(Item)
            /\ \A i \in 1..Len(wire') : wire'[i].kind = "snapshot" =>
                 /\ i = 1 /\ saved <= wire'[i].sequence
                 /\ \A j \in 1..Len(Sent) : Sent[j].sequence <= wire'[i].sequence
  BY BatchSnapshots DEF client, kept
<1>2. CASE wire' = wire
  <2>1. SentKept
    BY <1>1, <1>2, SameSent DEF Sent
  <2> QED
    BY <1>1, <2>1, SnapshotsKept
<1>3. CASE /\ wire = <<>> /\ wire' \in Seq(Item)
           /\ \A i \in 1..Len(wire') : wire'[i].kind = "snapshot" =>
                /\ i = 1 /\ saved <= wire'[i].sequence
                /\ \A j \in 1..Len(Sent) : Sent[j].sequence <= wire'[i].sequence
  <2>1. /\ \A i \in 1..Len(Sent') :
             \/ i \in 1..Len(Sent) /\ Sent'[i] = Sent[i]
             \/ i - Len(Sent) \in 1..Len(wire') /\ Sent'[i] = wire'[i - Len(Sent)]
        /\ \A i \in 1..Len(Sent) : i \in 1..Len(Sent') /\ Sent'[i] = Sent[i]
    BY <1>1, <1>3, SentGrows
  <2>2. Len(Sent) \in Nat /\ Len(Sent') \in Nat
    BY SentFacts, NextSent
  <2> SUFFICES ASSUME NEW i \in 1..Len(Sent'), Sent'[i].kind = "snapshot"
               PROVE  saved <= Sent'[i].sequence /\ \A j \in 1..i-1 : Sent'[j].sequence <= Sent'[i].sequence
    BY <1>1 DEF SnapshotInv
  <2>3. CASE i \in 1..Len(Sent) /\ Sent'[i] = Sent[i]
    <3>1. \A j \in 1..i-1 : Sent'[j] = Sent[j]
      BY <2>1, <2>2, <2>3
    <3> QED
      BY <2>3, <3>1 DEF SnapshotInv
  <2>4. CASE i - Len(Sent) \in 1..Len(wire') /\ Sent'[i] = wire'[i - Len(Sent)]
    <3>1. /\ i - Len(Sent) = 1 /\ saved <= Sent'[i].sequence
          /\ \A j \in 1..Len(Sent) : Sent[j].sequence <= Sent'[i].sequence
      BY <1>3, <2>4
    <3>2. \A j \in 1..i-1 : j \in 1..Len(Sent) /\ Sent'[j] = Sent[j]
      BY <2>1, <2>2, <3>1
    <3> QED
      BY <3>1, <3>2
  <2> QED
    BY <2>1, <2>3, <2>4
<1> QED
  BY <1>1, <1>2, <1>3

LEMMA SnapshotsTail ==
  ASSUME Places, SnapshotInv, inbox # <<>>, inbox' = Tail(inbox), wire' = wire,
         saved' = saved \/ saved' = Head(inbox).sequence
  PROVE  SnapshotInv'
<1>1. /\ Len(Sent') = Len(Sent) - 1 /\ Len(Sent) \in Nat
      /\ \A i \in 1..Len(Sent') : i + 1 \in 1..Len(Sent) /\ Sent'[i] = Sent[i + 1]
      /\ 1 \in 1..Len(Sent) /\ Sent[1] = Head(inbox)
  BY SentTail, SentFacts
<1> SUFFICES ASSUME NEW i \in 1..Len(Sent'), Sent'[i].kind = "snapshot"
             PROVE  saved' <= Sent'[i].sequence /\ \A j \in 1..i-1 : Sent'[j].sequence <= Sent'[i].sequence
  BY DEF SnapshotInv
<1>2. i + 1 \in 1..Len(Sent) /\ Sent'[i] = Sent[i + 1] /\ (i + 1) - 1 = i /\ i \in Nat /\ 1 \in 1..i
  BY <1>1
<1>3. saved <= Sent'[i].sequence /\ \A j \in 1..i : Sent[j].sequence <= Sent'[i].sequence
  BY <1>2 DEF SnapshotInv
<1>4. \A j \in 1..i-1 : j + 1 \in 1..i /\ Sent'[j] = Sent[j + 1]
  BY <1>1, <1>2
<1> QED
  BY <1>1, <1>2, <1>3, <1>4

LEMMA ApplyMoves ==
  ASSUME NewerInv, Apply
  PROVE  /\ inbox # <<>> /\ inbox' = Tail(inbox) /\ wire' = wire /\ ~applying'
         /\ cursor' = cursor /\ saved' = cursor /\ cursor = Head(inbox).sequence /\ saved <= saved'
<1>1. /\ inbox # <<>> /\ inbox' = Tail(inbox) /\ wire' = wire /\ ~applying' /\ applying
      /\ cursor' = cursor /\ saved' = cursor /\ cursor = Head(inbox).sequence
      /\ Head(inbox).kind \in {"event", "snapshot"}
  BY DEF Apply, Remember, NewerInv, Places, ClientInv
<1>2. 1 \in 1..Len(Sent) /\ Sent[1] = Head(inbox) /\ saved \in Nat /\ cursor \in Nat
  BY <1>1, SentFacts DEF NewerInv
<1>3. saved <= cursor
  BY <1>1, <1>2 DEF NewerInv, SnapshotInv, Unapplied
<1> QED
  BY <1>1, <1>3

LEMMA NewerStep == Prompt /\ NewerInv /\ [Next]_vars => NewerInv'
<1> SUFFICES ASSUME Prompt, NewerInv, [Next]_vars PROVE NewerInv'
  OBVIOUS
<1>0. /\ Places /\ Places' /\ SnapshotInv /\ LoadInv'
      /\ ~applying => cursor = saved
      /\ Unapplied(saved)
  BY PlacesStep, LoadStep DEF NewerInv
<1>k. ASSUME UNCHANGED <<wire, inbox, cursor, applying, saved>> PROVE NewerInv'
  <2>1. SentKept
    BY <1>k, SameSent DEF Sent
  <2> QED
    BY <1>0, <1>k, <2>1, SnapshotsKept DEF NewerInv, Unapplied
<1>1. CASE \/ StartLoad \/ AnswerLoad \/ LoadFails \/ OpenLive \/ ReadHighWater
           \/ Drain \/ DiscardReplayed \/ Retry \/ (\E n \in 1..MaxEvents : Publish(n))
           \/ (\E t \in Thread : Commit(t))
  BY <1>0, <1>1, <1>k, ServerMoves
<1>2. CASE Subscribe \/ PullReplay \/ PullLive
  <2>1. SnapshotInv'
    BY <1>0, <1>2, SnapshotsGrow
  <2>2. UNCHANGED <<inbox, cursor, applying, saved>>
    BY <1>2 DEF Subscribe, PullReplay, PullLive, client, kept
  <2> QED
    BY <1>0, <2>1, <2>2 DEF NewerInv, Unapplied
<1>3. CASE Receive
  <2>1. Sent' = Sent /\ UNCHANGED <<cursor, applying, saved>>
    BY <1>0, <1>3, ReceiveIs DEF Places, client, kept
  <2>2. SnapshotInv'
    BY <1>0, <2>1, SameSent, SnapshotsKept
  <2>3. applying => Head(inbox') = Head(inbox)
    BY <1>0, <1>3, FirstStays
  <2> QED
    BY <1>0, <2>1, <2>2, <2>3 DEF NewerInv, Unapplied
<1>4. CASE Advance
  <2>1. inbox # <<>> /\ ~applying /\ cursor = saved /\ UNCHANGED <<wire, saved>>
    BY <1>0, <1>4 DEF Advance, kept
  <2>2. CASE /\ cursor' = Head(inbox).sequence /\ applying' = TRUE /\ UNCHANGED inbox
             /\ Head(inbox).kind = "snapshot" \/ Fresh(Head(inbox).sequence)
    <3>1. SnapshotInv'
      BY <1>0, <2>1, <2>2, SameSent, SnapshotsKept DEF Sent
    <3>2. Unapplied(saved)'
      <4>1. Head(inbox).sequence \in Nat /\ saved \in Nat
        BY <1>0, <2>1, SentFacts
      <4> QED
        BY <2>1, <2>2, <4>1 DEF Unapplied, Fresh
    <3> QED
      BY <1>0, <2>2, <3>1, <3>2 DEF NewerInv
  <2>3. CASE inbox' = Tail(inbox) /\ UNCHANGED <<cursor, applying>>
    <3>1. SnapshotInv'
      BY <1>0, <2>1, <2>3, SnapshotsTail
    <3> QED
      BY <1>0, <2>1, <2>3, <3>1 DEF NewerInv, Unapplied
  <2> QED
    BY <1>4, <2>2, <2>3 DEF Advance
<1>5. CASE Apply
  <2>1. SnapshotInv'
    BY <1>0, <1>5, ApplyMoves, SnapshotsTail
  <2> QED
    BY <1>0, <1>5, <2>1, ApplyMoves DEF NewerInv, Unapplied
<1>6. CASE InstallLoad
  <2>1. Len(Sent') = 0 /\ ~applying' /\ cursor' = saved'
    BY <1>6, InstallIs DEF NewerInv
  <2> QED
    BY <1>0, <2>1 DEF NewerInv, SnapshotInv, Unapplied
<1>7. CASE LoseConnection \/ RestartServer
  <2>1. SentKept
    BY <1>0, <1>7, DropsStep, SentCut DEF Places
  <2>2. UNCHANGED <<cursor, applying, saved>>
    BY <1>7 DEF LoseConnection, RestartServer, client, kept
  <2>3. applying => Head(inbox') = Head(inbox)
    BY <1>0, <1>7, FirstStays
  <2> QED
    BY <1>0, <2>1, <2>2, <2>3, SnapshotsKept DEF NewerInv, Unapplied
<1>8. CASE ReopenView \/ RestartClient
  <2>1. inbox' = <<>> /\ wire' = <<>> /\ ~applying' /\ cursor' = saved'
    BY <1>8 DEF ReopenView, RestartClient, Unsubscribe, Remember
  <2> QED
    BY <1>0, <2>1, EmptySent DEF NewerInv, SnapshotInv, Unapplied
<1>9. CASE UNCHANGED vars
  BY <1>9, <1>k DEF vars, client, kept
<1> QED
  BY <1>1, <1>2, <1>3, <1>4, <1>5, <1>6, <1>7, <1>8, <1>9 DEF Next, Deliver

(* Neither a replay nor a snapshot takes the view back to an older state:  *)
(* only a lost connection, a closed view or a restart may.  The order of   *)
(* publications does not matter.                                           *)
THEOREM NeverBack == ASSUME Prompt PROVE Spec => NeverBackward
<1>1. Init => NewerInv
  <2> SUFFICES ASSUME Init PROVE NewerInv
    OBVIOUS
  <2>1. IInv /\ ~applying /\ cursor = saved /\ Len(Sent) = 0
    BY Start, EmptyNow DEF Init
  <2> QED
    BY <2>1 DEF IInv, NewerInv, SnapshotInv, Unapplied
<1>2. NewerInv /\ [Next]_vars => NewerInv'
  BY NewerStep
<1>3. ASSUME NewerInv, [Next]_vars PROVE [drops' = drops => saved' >= saved]_vars
  <2> SUFFICES ASSUME drops' = drops PROVE saved' >= saved
    OBVIOUS
  <2>1. Places /\ saved \in Nat
    BY <1>3, SentFacts DEF NewerInv
  <2>2. saved' \in Nat
    <3>1. Places'
      BY <1>3, <2>1, PlacesStep
    <3>2. saved' \in 0..Len(log') /\ Len(log') \in Nat
      BY <3>1, LenProperties DEF Places, ClientInv, LogInv
    <3> QED
      BY <3>2
  <2>3. CASE Apply
    BY <1>3, <2>1, <2>2, <2>3, ApplyMoves
  <2>4. CASE InstallLoad
    BY <1>3, <2>1, <2>2, <2>4, InstallIs DEF NewerInv
  <2>5. CASE LoseConnection \/ RestartServer \/ ReopenView \/ RestartClient
    BY <2>1, <2>5, DropsStep DEF Places
  <2>6. CASE \/ (\E t \in Thread : Commit(t)) \/ (\E n \in 1..MaxEvents : Publish(n))
             \/ StartLoad \/ AnswerLoad \/ LoadFails \/ Subscribe \/ OpenLive \/ ReadHighWater \/ Drain
             \/ PullReplay \/ DiscardReplayed \/ PullLive \/ Receive \/ Advance \/ Retry \/ UNCHANGED vars
    <3>1. saved' = saved
      BY <2>6 DEF Commit, Publish, StartLoad, AnswerLoad, LoadFails, Subscribe, OpenLive, ReadHighWater,
        Drain, PullReplay, DiscardReplayed, PullLive, Receive, Advance, Retry, vars, client, kept
    <3> QED
      BY <2>1, <3>1
  <2> QED
    BY <1>3, <2>3, <2>4, <2>5, <2>6 DEF Next, Deliver
<1> QED
  BY <1>1, <1>2, <1>3, PTL DEF Spec, NeverBackward

-----------------------------------------------------------------------------
(* Without any hypothesis an event may be skipped, but none counts twice.  *)
Once(seen, upto) == \A m \in 1..MaxEvents : seen[m] <= 1 /\ (seen[m] = 1 => m <= upto)

(* An event is in the projection at most once, and only if the cursor      *)
(* that is kept with it has passed it: what is delivered again after a     *)
(* resubscription is not applied again.                                    *)
AppliedOnce == Once(view, saved) /\ Once(disk.view, disk.cursor)

OnceInv ==
  /\ Places
  /\ AppliedOnce
  /\ ~applying => cursor = saved
  /\ applying /\ Head(inbox).kind = "event" => saved < cursor

LEMMA OncePrefix == \A n : Once(Prefix(n), n)
BY DEF Once, Prefix

LEMMA OnceKept ==
  ASSUME OnceInv, Places', UNCHANGED <<view, saved, disk, cursor, applying>>,
         applying => Head(inbox') = Head(inbox)
  PROVE  OnceInv'
BY DEF OnceInv, AppliedOnce

LEMMA OnceStep == OnceInv /\ [Next]_vars => OnceInv'
<1> SUFFICES ASSUME OnceInv, [Next]_vars PROVE OnceInv'
  OBVIOUS
<1>0. Places /\ Places' /\ cursor \in Nat /\ saved \in Nat
  BY PlacesStep, SentFacts DEF OnceInv
<1>1. CASE \/ StartLoad \/ AnswerLoad \/ LoadFails \/ OpenLive \/ ReadHighWater
           \/ Drain \/ DiscardReplayed \/ Retry \/ (\E n \in 1..MaxEvents : Publish(n))
           \/ (\E t \in Thread : Commit(t))
  BY <1>0, <1>1, ServerMoves, OnceKept
<1>2. CASE Subscribe \/ PullReplay \/ PullLive \/ UNCHANGED vars
  <2>1. UNCHANGED <<view, saved, disk, cursor, applying, inbox>>
    BY <1>2 DEF Subscribe, PullReplay, PullLive, vars, client, kept
  <2> QED
    BY <1>0, <2>1, OnceKept
<1>3. CASE Receive
  <2>1. UNCHANGED <<view, saved, disk, cursor, applying>>
    BY <1>3 DEF Receive, client, kept
  <2>2. applying => Head(inbox') = Head(inbox)
    BY <1>0, <1>3, FirstStays
  <2> QED
    BY <1>0, <2>1, <2>2, OnceKept
<1>4. CASE Advance
  <2>1. UNCHANGED <<view, saved, disk>> /\ ~applying
    BY <1>4 DEF Advance, kept
  <2>2. \/ cursor' = Head(inbox).sequence /\ applying' /\ UNCHANGED inbox
           /\ (Head(inbox).kind = "snapshot" \/ cursor' > cursor)
        \/ UNCHANGED <<cursor, applying>>
    BY <1>4 DEF Advance, Fresh
  <2> QED
    BY <1>0, <2>1, <2>2 DEF OnceInv, AppliedOnce
<1>5. CASE Apply
  <2>1. /\ applying /\ ~applying' /\ cursor' = cursor /\ saved' = cursor
        /\ disk' \in {disk, [cursor |-> saved', view |-> view']}
        /\ \/ Head(inbox).kind = "snapshot" /\ view' = Prefix(cursor)
           \/ Head(inbox).kind = "event" /\ view' \in {view, [view EXCEPT ![cursor] = @ + 1]}
    BY <1>5 DEF Apply, Remember
  <2>2. Once(view', saved')
    <3>1. CASE Head(inbox).kind = "snapshot" /\ view' = Prefix(cursor)
      BY <2>1, <3>1, OncePrefix
    <3>2. CASE Head(inbox).kind = "event" /\ view' \in {view, [view EXCEPT ![cursor] = @ + 1]}
      <4>1. saved < cursor /\ Once(view, saved) /\ view \in [1..MaxEvents -> Nat]
        BY <2>1, <3>2 DEF OnceInv, AppliedOnce, Places, ClientInv
      <4>2. \A m \in 1..MaxEvents : m # cursor => view'[m] = view[m]
        BY <3>2, <4>1
      <4>3. ASSUME NEW m \in 1..MaxEvents PROVE view'[m] <= 1 /\ (view'[m] = 1 => m <= cursor)
        <5>1. view[m] \in Nat /\ view[m] <= 1 /\ (view[m] = 1 => m <= saved) /\ m \in Nat
          BY <4>1 DEF Once
        <5>2. CASE m = cursor
          <6>1. view[m] = 0
            BY <1>0, <4>1, <5>1, <5>2
          <6>2. [view EXCEPT ![cursor] = @ + 1][m] = view[m] + 1
            BY <4>1, <5>2
          <6>3. view'[m] = 0 \/ view'[m] = 1
            BY <3>2, <6>1, <6>2
          <6> QED
            BY <5>1, <5>2, <6>3
        <5>3. CASE m # cursor
          BY <1>0, <4>1, <4>2, <5>1, <5>3
        <5> QED
          BY <5>2, <5>3
      <4> QED
        BY <2>1, <4>3 DEF Once
    <3> QED
      BY <2>1, <3>1, <3>2
  <2>3. Once(disk'.view, disk'.cursor)
    BY <2>1, <2>2 DEF OnceInv, AppliedOnce
  <2> QED
    BY <1>0, <2>1, <2>2, <2>3 DEF OnceInv, AppliedOnce
<1>6. CASE InstallLoad
  <2>1. /\ ~applying' /\ cursor' = load /\ saved' = load /\ view' = Prefix(load)
        /\ disk' \in {disk, [cursor |-> saved', view |-> view']}
    BY <1>6 DEF InstallLoad, Remember
  <2>2. Once(view', saved') /\ Once(disk'.view, disk'.cursor)
    BY <2>1, OncePrefix DEF OnceInv, AppliedOnce
  <2> QED
    BY <1>0, <2>1, <2>2 DEF OnceInv, AppliedOnce
<1>7. CASE LoseConnection \/ RestartServer
  <2>1. UNCHANGED <<view, saved, disk, cursor, applying>>
    BY <1>7 DEF LoseConnection, RestartServer, client, kept
  <2>2. applying => Head(inbox') = Head(inbox)
    BY <1>7, FirstStays DEF OnceInv
  <2> QED
    BY <1>0, <2>1, <2>2, OnceKept
<1>8. CASE ReopenView \/ RestartClient
  <2>1. /\ ~applying' /\ cursor' = saved'
        /\ \/ view' = view /\ saved' = saved
           \/ view' = disk.view /\ saved' = disk.cursor
        /\ disk' \in {disk, [cursor |-> saved', view |-> view']}
    BY <1>8 DEF ReopenView, RestartClient, Remember
  <2>2. Once(view', saved') /\ Once(disk'.view, disk'.cursor)
    BY <2>1 DEF OnceInv, AppliedOnce
  <2> QED
    BY <1>0, <2>1, <2>2 DEF OnceInv, AppliedOnce
<1> QED
  BY <1>1, <1>2, <1>3, <1>4, <1>5, <1>6, <1>7, <1>8 DEF Next, Deliver

(* AppliedOnce holds whatever the order of publications and however late   *)
(* an HTTP snapshot is: what goes wrong without Ordered and Prompt is that *)
(* events are skipped, never that one is counted twice.                    *)
THEOREM NothingIsDoubled == Spec => []AppliedOnce
<1>1. Init => OnceInv
  <2> SUFFICES ASSUME Init PROVE OnceInv
    OBVIOUS
  <2>1. /\ ~applying /\ saved = 0 /\ cursor = 0
        /\ view = [m \in 1..MaxEvents |-> 0] /\ disk.view = view /\ disk.cursor = 0
    BY DEF Init
  <2> QED
    BY <2>1, PlacesInit DEF OnceInv, AppliedOnce, Once
<1>2. OnceInv => AppliedOnce
  BY DEF OnceInv
<1> QED
  BY <1>1, <1>2, OnceStep, PTL DEF Spec
=============================================================================
