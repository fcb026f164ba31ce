------------------------ MODULE ProviderBridgeProofs ------------------------
(***************************************************************************)
(* Proofs about module ProviderBridge, for any number of consumers and of   *)
(* events, events of any size and queues of any length.                     *)
(***************************************************************************)
EXTENDS ProviderBridge, WellFoundedInduction, TLAPS

Hands == [at : {"unborn", "next", "empty", "write", "exited"}, event : Nat, count : Nat]

BridgeTypes ==
  /\ emitted \in 0..MaxEvents /\ emitting \subseteq Consumers /\ listed \subseteq Consumers
  /\ entrant \subseteq Consumers /\ connected \subseteq Consumers
  /\ client \in [Consumers -> {"away", "waiting", "accepted"}]
  /\ backlog \in Seq(Nat) /\ backlog_dropped_count \in Nat
  /\ queue \in [Consumers -> Seq(Nat)] /\ got \in [Consumers -> Seq(Nat)]
  /\ writer \in [Consumers -> Hands] /\ dropped_count \in [Consumers -> Nat]
  /\ offered \in [Consumers -> Nat] /\ reported \in [Consumers -> Nat]

Increasing(s) == \A i, j \in DOMAIN s : i < j => s[i] < s[j]

(* The last event that may have reached a consumer *)
Latest(c) == IF c \in emitting THEN emitted - 1 ELSE emitted

(* What was received, what is in hand (0 for nothing) and what is queued are  *)
(* ever later events, none later than top.                                    *)
Line(g, h, q, top) ==
  /\ Increasing(g) /\ Increasing(q)
  /\ \A i \in DOMAIN g : g[i] <= top
  /\ \A j \in DOMAIN q : q[j] > 0 /\ q[j] <= top
  /\ \A i \in DOMAIN g, j \in DOMAIN q : g[i] < q[j]
  /\ h # 0 => /\ h <= top
              /\ \A i \in DOMAIN g : g[i] < h
              /\ \A j \in DOMAIN q : h < q[j]

InOrder(c) == Line(got[c], writer[c].event, queue[c], Latest(c))

Accounted(c) ==
  offered[c] = Len(got[c]) + reported[c] + dropped_count[c] + Len(queue[c])
                 + writer[c].count + (IF writer[c].event # 0 THEN 1 ELSE 0)

(* A consumer not yet accepted has been offered nothing. *)
Blank(c) ==
  /\ c \notin emitting /\ c \notin listed /\ c \notin entrant /\ c \notin connected
  /\ writer[c].at = "unborn"
  /\ got[c] = <<>> /\ queue[c] = <<>>
  /\ offered[c] = 0 /\ reported[c] = 0 /\ dropped_count[c] = 0

ConsumerInv(c) ==
  /\ InOrder(c)
  /\ c \in connected => Accounted(c)
  /\ client[c] # "accepted" => Blank(c)
  /\ writer[c].at # "write" => writer[c].event = 0 /\ writer[c].count = 0

BridgeInv ==
  /\ BridgeTypes
  /\ Increasing(backlog) /\ \A i \in DOMAIN backlog : backlog[i] > 0 /\ backlog[i] <= emitted
  /\ emitting # {} => emitted > 0
  /\ listener = "spawn" => \A c \in entrant : writer[c].at = "unborn"
  /\ \A c \in Consumers : ConsumerInv(c)

-----------------------------------------------------------------------------
(* The least of a set of numbers is one of them. *)
LEMMA LeastMember ==
  ASSUME NEW S \in SUBSET Nat, S # {}
  PROVE  Min(S) \in S
<1>1. PICK x \in S : \A y \in S : ~(<<y, x>> \in OpToRel(<, Nat))
  BY NatLessThanWellFounded, WFMin, Zenon
<1>2. \A y \in S : ~(y < x)
  BY <1>1, Zenon DEF OpToRel
<1>3. \A y \in S : x <= y
  BY <1>2
<1> QED BY Zenon, <1>3 DEF Min

(* The end of an increasing sequence, with a greater element after it *)
LEMMA EndAndOne ==
  ASSUME NEW q \in Seq(Nat), Increasing(q), NEW e \in Nat, \A i \in DOMAIN q : q[i] < e,
         NEW n \in 0..Len(q)
  PROVE  LET t == Append(SubSeq(q, n + 1, Len(q)), e)
         IN  /\ t \in Seq(Nat) /\ Len(t) = Len(q) - n + 1 /\ Increasing(t)
             /\ \A j \in DOMAIN t : t[j] = e \/ \E i \in DOMAIN q : t[j] = q[i]
<1> DEFINE u == SubSeq(q, n + 1, Len(q))
           t == Append(u, e)
           m == Len(q) - n
<1>1. Len(q) \in Nat /\ n \in Nat /\ n <= Len(q) /\ m \in Nat /\ Len(q) = n + m
      /\ DOMAIN q = 1..Len(q)
  OBVIOUS
<1>2. u \in Seq(Nat) /\ Len(u) = m /\ \A j \in 1..m : u[j] = q[n + j]
  <2>1. u \in Seq(Nat) /\ Len(u) = Len(q) - n /\ \A j \in 1..Len(q) - n : u[j] = q[n + j]
    OBVIOUS
  <2> QED BY <2>1
<1> HIDE DEF u
<1>3. t \in Seq(Nat) /\ Len(t) = m + 1 /\ t[m + 1] = e /\ \A j \in 1..m : t[j] = u[j]
  BY <1>1, <1>2
<1> HIDE DEF t, m
<1>4. ASSUME NEW j \in 1..m PROVE t[j] = q[n + j] /\ n + j \in DOMAIN q
  BY <1>1, <1>2, <1>3
<1>5. DOMAIN t = 1..m + 1
  BY <1>3
<1>6. Increasing(t)
  <2> SUFFICES ASSUME NEW i \in DOMAIN t, NEW j \in DOMAIN t, i < j PROVE t[i] < t[j]
    BY DEF Increasing
  <2>1. i \in 1..m + 1 /\ j \in 1..m + 1
    BY <1>5
  <2>2. CASE j = m + 1
    <3>1. i \in 1..m
      BY <1>1, <2>1, <2>2
    <3> QED BY <1>3, <1>4, <2>2, <3>1
  <2>3. CASE j # m + 1
    <3>1. i \in 1..m /\ j \in 1..m /\ n + i < n + j
      BY <1>1, <2>1, <2>3
    <3>2. t[i] = q[n + i] /\ t[j] = q[n + j] /\ n + i \in DOMAIN q /\ n + j \in DOMAIN q
      BY <1>4, <3>1
    <3> QED BY <3>1, <3>2 DEF Increasing
  <2> QED BY <2>2, <2>3
<1>7. ASSUME NEW j \in DOMAIN t PROVE t[j] = e \/ \E i \in DOMAIN q : t[j] = q[i]
  <2>1. j = m + 1 \/ j \in 1..m
    BY <1>1, <1>5
  <2> QED BY <1>3, <1>4, <2>1
<1> QED BY <1>3, <1>6, <1>7 DEF t, u, m

(* enqueue_into_queue keeps the order, and counts every event it drops. *)
LEMMA Enqueues ==
  ASSUME BridgeTypes, NEW q \in Seq(Nat), Increasing(q), NEW e \in Events,
         \A i \in DOMAIN q : q[i] < e
  PROVE  /\ Enqueue(q, e).queue \in Seq(Nat) /\ Enqueue(q, e).dropped \in Nat
         /\ Len(Enqueue(q, e).queue) + Enqueue(q, e).dropped = Len(q) + 1
         /\ Increasing(Enqueue(q, e).queue)
         /\ \A j \in DOMAIN Enqueue(q, e).queue :
              Enqueue(q, e).queue[j] = e \/ \E i \in DOMAIN q : Enqueue(q, e).queue[j] = q[i]
<1> DEFINE a == Enqueue(q, e)
           room == {n \in 1..Len(q) : Fits(SubSeq(q, n + 1, Len(q)), e)}
<1>1. e \in Nat /\ EventSize[e] \in Nat /\ queue_max_bytes \in Nat /\ Len(q) \in Nat
  BY BridgeAssumption DEF Events
<1>2. \/ a = [queue |-> q, dropped |-> 1]
      \/ a = [queue |-> Append(q, e), dropped |-> 0]
      \/ a = [queue |-> <<>>, dropped |-> Len(q) + 1]
      \/ room # {} /\ a = [queue |-> Append(SubSeq(q, Min(room) + 1, Len(q)), e), dropped |-> Min(room)]
  <2>1. CASE EventSize[e] > queue_max_bytes
    BY <1>1, <2>1 DEF Enqueue
  <2>2. CASE EventSize[e] <= queue_max_bytes /\ Fits(q, e)
    BY <1>1, <2>2 DEF Enqueue
  <2>3. CASE EventSize[e] <= queue_max_bytes /\ ~Fits(q, e) /\ overflow_policy = "DropNewest"
    BY <1>1, <2>3 DEF Enqueue
  <2>4. CASE EventSize[e] <= queue_max_bytes /\ ~Fits(q, e) /\ overflow_policy # "DropNewest"
    BY <1>1, <2>4 DEF Enqueue
  <2>5. EventSize[e] > queue_max_bytes \/ EventSize[e] <= queue_max_bytes
    BY <1>1
  <2> QED BY <2>1, <2>2, <2>3, <2>4, <2>5, Zenon
<1> HIDE DEF a
<1>3. CASE a = [queue |-> q, dropped |-> 1]
  BY <1>1, <1>3 DEF a
<1>4. ASSUME NEW n \in 0..Len(q),
             a = [queue |-> Append(SubSeq(q, n + 1, Len(q)), e), dropped |-> n]
      PROVE  /\ a.queue \in Seq(Nat) /\ a.dropped \in Nat
             /\ Len(a.queue) + a.dropped = Len(q) + 1
             /\ Increasing(a.queue)
             /\ \A j \in DOMAIN a.queue : a.queue[j] = e \/ \E i \in DOMAIN q : a.queue[j] = q[i]
  <2> DEFINE t == Append(SubSeq(q, n + 1, Len(q)), e)
  <2>1. /\ t \in Seq(Nat) /\ Len(t) = Len(q) - n + 1 /\ Increasing(t)
        /\ \A j \in DOMAIN t : t[j] = e \/ \E i \in DOMAIN q : t[j] = q[i]
    BY Zenon, <1>1, EndAndOne
  <2>2. a.queue = t /\ a.dropped = n
    BY Zenon, <1>4
  <2> HIDE DEF t
  <2>3. n \in Nat /\ Len(q) - n + 1 + n = Len(q) + 1
    BY <1>1
  <2> QED BY <2>1, <2>2, <2>3
<1>5. CASE a = [queue |-> Append(q, e), dropped |-> 0]
  <2>1. Append(q, e) = Append(SubSeq(q, 0 + 1, Len(q)), e)
    BY <1>1
  <2>2. 0 \in 0..Len(q) /\ a = [queue |-> Append(SubSeq(q, 0 + 1, Len(q)), e), dropped |-> 0]
    BY <1>1, <1>5, <2>1
  <2> QED BY <1>4, <2>2 DEF a
<1>6. CASE a = [queue |-> <<>>, dropped |-> Len(q) + 1]
  BY <1>1, <1>6 DEF a, Increasing
<1>7. CASE room # {} /\ a = [queue |-> Append(SubSeq(q, Min(room) + 1, Len(q)), e), dropped |-> Min(room)]
  <2>1. room \in SUBSET Nat /\ room \subseteq 0..Len(q)
    BY <1>1
  <2> HIDE DEF room
  <2>2. Min(room) \in 0..Len(q)
    BY Zenon, <1>7, <2>1, LeastMember
  <2> QED BY Zenon, <1>4, <1>7, <2>2 DEF a
<1> QED BY Zenon, <1>2, <1>3, <1>5, <1>6, <1>7

(* The steps of an event along the line *)
LEMMA LineNoOlder ==
  ASSUME NEW g \in Seq(Nat), NEW h \in Nat, NEW q \in Seq(Nat), NEW top \in Int, NEW later \in Int,
         Line(g, h, q, top), top <= later
  PROVE  Line(g, h, q, later)
BY DEF Line

LEMMA LineLetGo ==
  ASSUME NEW g, NEW h, NEW q, NEW top, Line(g, h, q, top)
  PROVE  Line(g, 0, q, top)
BY DEF Line

LEMMA LineBegun ==
  ASSUME NEW q, NEW top, Increasing(q), \A j \in DOMAIN q : q[j] > 0 /\ q[j] <= top
  PROVE  Line(<<>>, 0, q, top)
BY DEF Line, Increasing

LEMMA LineEnqueued ==
  ASSUME NEW g \in Seq(Nat), NEW h \in Nat, NEW q \in Seq(Nat), NEW e \in Nat, e > 0,
         Line(g, h, q, e - 1), NEW t \in Seq(Nat), Increasing(t),
         \A j \in DOMAIN t : t[j] = e \/ \E i \in DOMAIN q : t[j] = q[i]
  PROVE  Line(g, h, t, e)
<1>1. /\ \A i \in DOMAIN g : g[i] \in Nat /\ g[i] < e
      /\ \A j \in DOMAIN q : q[j] \in Nat /\ q[j] > 0 /\ q[j] < e
  BY DEF Line
<1>2. h # 0 => h < e
  BY DEF Line
<1>3. ASSUME NEW j \in DOMAIN t PROVE t[j] > 0 /\ t[j] <= e
  <2>1. CASE t[j] = e
    BY <2>1
  <2>2. ASSUME NEW i \in DOMAIN q, t[j] = q[i] PROVE t[j] > 0 /\ t[j] <= e
    BY <1>1, <2>2
  <2> QED BY <2>1, <2>2
<1>4. ASSUME NEW i \in DOMAIN g, NEW j \in DOMAIN t PROVE g[i] < t[j]
  BY Zenon, <1>1 DEF Line
<1>5. ASSUME h # 0, NEW j \in DOMAIN t PROVE h < t[j]
  BY <1>2, <1>5 DEF Line
<1> QED BY <1>1, <1>2, <1>3, <1>4, <1>5 DEF Line

LEMMA LineTaken ==
  ASSUME NEW g \in Seq(Nat), NEW q \in Seq(Nat), q # <<>>, NEW top \in Int, Line(g, 0, q, top)
  PROVE  /\ Head(q) \in Nat /\ Head(q) # 0 /\ Tail(q) \in Seq(Nat)
         /\ Len(Tail(q)) \in Nat /\ Len(q) = Len(Tail(q)) + 1
         /\ Line(g, Head(q), Tail(q), top)
<1> DEFINE h == Head(q)
           t == Tail(q)
<1>1. /\ h = q[1] /\ h \in Nat /\ 1 \in DOMAIN q /\ t \in Seq(Nat) /\ Len(t) \in Nat
      /\ Len(q) = Len(t) + 1
  OBVIOUS
<1>2. \A j \in DOMAIN t : t[j] = q[j + 1] /\ j \in Nat /\ 1 < j + 1 /\ j + 1 \in DOMAIN q
  OBVIOUS
<1> HIDE DEF h, t
<1>3. \A i, j \in DOMAIN q : i < j => q[i] < q[j]
  BY DEF Line, Increasing
<1>4. \A j \in DOMAIN t : h < t[j]
  BY Zenon, <1>1, <1>2, <1>3
<1>5. ASSUME NEW i \in DOMAIN t, NEW j \in DOMAIN t, i < j PROVE t[i] < t[j]
  <2>1. i + 1 < j + 1
    BY <1>2, <1>5
  <2> QED BY <1>2, <1>3, <2>1
<1>6. h # 0 /\ h <= top /\ \A i \in DOMAIN g : g[i] < h
  <2>1. \A j \in DOMAIN q : q[j] > 0 /\ q[j] <= top
    BY DEF Line
  <2>2. \A i \in DOMAIN g, j \in DOMAIN q : g[i] < q[j]
    BY DEF Line
  <2>3. h > 0 /\ h <= top
    BY <1>1, <2>1
  <2>4. h # 0
    BY <1>1, <2>3
  <2>5. \A i \in DOMAIN g : g[i] < h
    BY Zenon, <1>1, <2>2
  <2> QED BY Zenon, <2>3, <2>4, <2>5
<1>7. /\ \A j \in DOMAIN t : t[j] > 0 /\ t[j] <= top
      /\ \A i \in DOMAIN g, j \in DOMAIN t : g[i] < t[j]
      /\ Increasing(g) /\ \A i \in DOMAIN g : g[i] <= top
  BY <1>2 DEF Line
<1>8. Line(g, h, t, top)
  BY <1>4, <1>5, <1>6, <1>7 DEF Line, Increasing
<1> QED BY <1>1, <1>6, <1>8 DEF h, t

LEMMA LineWritten ==
  ASSUME NEW g \in Seq(Nat), NEW h \in Nat, h # 0, NEW q \in Seq(Nat), NEW top \in Int,
         Line(g, h, q, top)
  PROVE  Append(g, h) \in Seq(Nat) /\ Len(Append(g, h)) = Len(g) + 1 /\ Line(Append(g, h), 0, q, top)
<1> DEFINE t == Append(g, h)
<1>1. /\ t \in Seq(Nat) /\ Len(t) = Len(g) + 1 /\ Len(g) \in Nat /\ t[Len(g) + 1] = h
      /\ DOMAIN t = 1..Len(g) + 1 /\ DOMAIN g = 1..Len(g) /\ \A i \in DOMAIN g : t[i] = g[i]
  OBVIOUS
<1> HIDE DEF t
<1>2. \A i \in DOMAIN t : i \in DOMAIN g \/ i = Len(g) + 1
  BY <1>1
<1>3. ASSUME NEW i \in DOMAIN t, NEW j \in DOMAIN t, i < j PROVE t[i] < t[j]
  <2>1. i \in DOMAIN g
    BY <1>1, <1>3
  <2>2. CASE j \in DOMAIN g
    BY <1>1, <1>3, <2>1, <2>2 DEF Line, Increasing
  <2>3. CASE j = Len(g) + 1
    BY <1>1, <2>1, <2>3 DEF Line
  <2> QED BY <1>2, <2>2, <2>3
<1>4. \A i \in DOMAIN t : t[i] <= top
  BY Zenon, <1>1, <1>2 DEF Line
<1>5. \A i \in DOMAIN t, j \in DOMAIN q : t[i] < q[j]
  BY Zenon, <1>1, <1>2 DEF Line
<1>6. Line(t, 0, q, top)
  BY <1>3, <1>4, <1>5 DEF Line, Increasing
<1> QED BY <1>1, <1>6 DEF t

-----------------------------------------------------------------------------
(* A step that leaves a consumer, what it got and what waits for it alone *)
LEMMA ConsumerKept ==
  ASSUME BridgeTypes, NEW c \in Consumers, ConsumerInv(c), Latest(c)' >= Latest(c),
         emitted' \in Nat,
         queue'[c] = queue[c], got'[c] = got[c], writer'[c] = writer[c],
         dropped_count'[c] = dropped_count[c], offered'[c] = offered[c],
         reported'[c] = reported[c], c \in connected' => c \in connected,
         client'[c] # "accepted" =>
           /\ client[c] # "accepted"
           /\ c \notin emitting' /\ c \notin listed' /\ c \notin entrant' /\ c \notin connected'
  PROVE  ConsumerInv(c)'
<1>1. /\ queue[c] \in Seq(Nat) /\ got[c] \in Seq(Nat) /\ writer[c].event \in Nat
      /\ Latest(c) \in Int /\ Latest(c)' \in Int
  BY DEF BridgeTypes, Hands, Latest
<1>2. InOrder(c)'
  BY <1>1, LineNoOlder DEF ConsumerInv, InOrder
<1>3. (c \in connected => Accounted(c))'
  BY DEF ConsumerInv, Accounted
<1>4. (client[c] # "accepted" => Blank(c))'
  BY DEF ConsumerInv, Blank
<1> QED BY <1>2, <1>3, <1>4 DEF ConsumerInv

(* A step that changes only who is listed, or about to be *)
LEMMA QueuesKept ==
  ASSUME BridgeInv, UNCHANGED <<emitted, emitting, backlog, backlog_dropped_count, queue, dropped_count, connected,
                     writer, offered, got, reported>>,
         listed' \subseteq Consumers, entrant' \subseteq Consumers,
         client' \in [Consumers -> {"away", "waiting", "accepted"}],
         listener' = "spawn" => listener = "spawn" /\ entrant' = entrant,
         \A c \in Consumers : client'[c] # "accepted" =>
           client[c] # "accepted" /\ c \notin listed' /\ c \notin entrant'
  PROVE  BridgeInv'
<1>1. BridgeTypes'
  BY DEF BridgeInv, BridgeTypes
<1>2. ASSUME NEW c \in Consumers PROVE ConsumerInv(c)'
  <2>1. Latest(c)' = Latest(c) /\ Latest(c) \in Int /\ emitted' \in Nat
    BY DEF Latest, BridgeInv, BridgeTypes
  <2>2. ConsumerInv(c) /\ BridgeTypes
    BY DEF BridgeInv
  <2>3. client[c] # "accepted" => c \notin emitting /\ c \notin connected
    BY <2>2 DEF ConsumerInv, Blank
  <2> QED BY <2>1, <2>2, <2>3, ConsumerKept
<1> QED BY <1>1, <1>2 DEF BridgeInv, Increasing

LEMMA QuietInv ==
  ASSUME BridgeInv,
         \/ stop_accepting \/ BeginDrop \/ StopConsumers \/ JoinConsumers \/ ListenerTop
         \/ ListConsumer \/ Prune \/ UNCHANGED bvars \/ \E c \in Consumers : Connect(c)
  PROVE  BridgeInv'
<1>1. \A c \in Consumers : client[c] # "accepted" => c \notin listed /\ c \notin entrant
  BY DEF BridgeInv, ConsumerInv, Blank
<1>2. /\ listed \subseteq Consumers /\ entrant \subseteq Consumers
      /\ client \in [Consumers -> {"away", "waiting", "accepted"}]
  BY SMTT(30) DEF BridgeInv, BridgeTypes
<1>3. CASE \/ stop_accepting \/ BeginDrop \/ StopConsumers \/ JoinConsumers \/ ListenerTop
           \/ ListConsumer \/ Prune \/ UNCHANGED bvars
  <2>1. /\ UNCHANGED <<emitted, emitting, backlog, backlog_dropped_count, queue, dropped_count, connected,
                       writer, offered, got, reported, client>>
        /\ listed' \subseteq listed \cup entrant /\ entrant' \subseteq entrant
        /\ listener' = "spawn" => listener = "spawn" /\ entrant' = entrant
    BY SMTT(30), <1>3 DEF stop_accepting, BeginDrop, StopConsumers, JoinConsumers, ListenerTop, ListConsumer,
                Prune, bvars, emission, bpeers, bthreads, bqueues, bhistory
  <2> QED BY SMTT(30), <1>1, <1>2, <2>1, QueuesKept
<1>4. ASSUME NEW d \in Consumers, Connect(d)
      PROVE  BridgeInv'
  <2>1. /\ UNCHANGED <<emitted, emitting, backlog, backlog_dropped_count, queue, dropped_count, connected,
                       writer, offered, got, reported, listed, entrant, listener>>
        /\ client' = [client EXCEPT ![d] = "waiting"] /\ client[d] # "accepted"
    BY <1>4 DEF Connect, emission, bthreads, bqueues, bhistory
  <2>2. /\ \A c \in Consumers : client'[c] # "accepted" => client[c] # "accepted"
        /\ client' \in [Consumers -> {"away", "waiting", "accepted"}]
    BY <1>2, <2>1
  <2> QED BY <1>1, <1>2, <2>1, <2>2, QueuesKept
<1> QED BY <1>3, <1>4

(* A new event is later than all there are. *)
LEMMA EmitInv ==
  ASSUME BridgeInv, emit_event
  PROVE  BridgeInv'
<1> DEFINE e == emitted + 1
<1>1. /\ emitted \in Nat /\ e \in Events /\ e \in Nat /\ emitted' = e /\ e \in 0..MaxEvents
      /\ emitting = {} /\ emitting' \subseteq listed /\ BridgeTypes
      /\ UNCHANGED <<listed, queue, dropped_count, connected, client, listener, entrant, writer,
                     offered, got, reported>>
  BY BridgeAssumption DEF emit_event, BridgeInv, BridgeTypes, Events, bpeers, bthreads, bhistory
<1> HIDE DEF e
<1>2. e = emitted + 1
  BY DEF e
<1>3. ASSUME NEW c \in Consumers PROVE ConsumerInv(c)'
  <2>1. ConsumerInv(c)
    BY DEF BridgeInv
  <2>2. Latest(c)' >= Latest(c)
    BY <1>1, <1>2 DEF Latest
  <2>3. client[c] # "accepted" => c \notin listed /\ c \notin entrant /\ c \notin connected
    BY <2>1 DEF ConsumerInv, Blank
  <2> QED BY <1>1, <2>1, <2>2, <2>3, ConsumerKept
<1>4. /\ backlog' \in Seq(Nat) /\ backlog_dropped_count' \in Nat /\ Increasing(backlog')
      /\ \A i \in DOMAIN backlog' : backlog'[i] > 0 /\ backlog'[i] <= e
  <2>1. /\ backlog \in Seq(Nat) /\ backlog_dropped_count \in Nat /\ Increasing(backlog)
        /\ \A i \in DOMAIN backlog : backlog[i] \in Nat /\ backlog[i] > 0 /\ backlog[i] <= emitted
    BY DEF BridgeInv, BridgeTypes
  <2>2. CASE listed = {}
    <3> DEFINE a == Enqueue(backlog, e)
    <3>1. backlog' = a.queue /\ backlog_dropped_count' = backlog_dropped_count + a.dropped
      BY <2>2 DEF emit_event, e
    <3>2. \A i \in DOMAIN backlog : backlog[i] < e
      BY <1>1, <1>2, <2>1
    <3>3. /\ a.queue \in Seq(Nat) /\ a.dropped \in Nat /\ Increasing(a.queue)
          /\ \A j \in DOMAIN a.queue : a.queue[j] = e \/ \E i \in DOMAIN backlog : a.queue[j] = backlog[i]
      BY <1>1, <2>1, <3>2, Enqueues
    <3> HIDE DEF a
    <3>4. \A j \in DOMAIN a.queue : a.queue[j] > 0 /\ a.queue[j] <= e
      <4> SUFFICES ASSUME NEW j \in DOMAIN a.queue PROVE a.queue[j] > 0 /\ a.queue[j] <= e
        OBVIOUS
      <4>1. CASE a.queue[j] = e
        BY <1>1, <1>2, <4>1
      <4>2. CASE \E i \in DOMAIN backlog : a.queue[j] = backlog[i]
        BY <1>1, <1>2, <2>1, <4>2
      <4> QED BY <3>3, <4>1, <4>2
    <3> QED BY <2>1, <3>1, <3>3, <3>4
  <2>3. CASE listed # {}
    <3>1. UNCHANGED <<backlog, backlog_dropped_count>>
      BY <2>3 DEF emit_event
    <3>2. \A i \in DOMAIN backlog : backlog[i] > 0 /\ backlog[i] <= e
      BY <1>1, <1>2, <2>1
    <3> QED BY <2>1, <3>1, <3>2
  <2> QED BY <2>2, <2>3
<1>5. BridgeTypes'
  BY <1>1, <1>4 DEF BridgeTypes
<1>6. emitting' # {} => emitted' > 0
  BY <1>1, <1>2
<1>7. (listener = "spawn" => \A c \in entrant : writer[c].at = "unborn")'
  BY <1>1 DEF BridgeInv
<1> QED BY <1>1, <1>3, <1>4, <1>5, <1>6, <1>7 DEF BridgeInv

(* A step that leaves the driver, the backlog and the listener alone, and     *)
(* changes one consumer                                                       *)
LEMMA OneConsumer ==
  ASSUME BridgeInv, NEW d \in Consumers, BridgeTypes', ConsumerInv(d)',
         UNCHANGED <<emitted, backlog, listed, listener, entrant, client>>,
         emitting' = emitting \/ emitting' = emitting \ {d},
         connected' = connected \/ connected' = connected \ {d},
         writer'[d].at = "unborn" \/ writer[d].at # "unborn",
         \A c \in Consumers \ {d} :
           /\ queue'[c] = queue[c] /\ got'[c] = got[c] /\ writer'[c] = writer[c]
           /\ dropped_count'[c] = dropped_count[c] /\ offered'[c] = offered[c]
           /\ reported'[c] = reported[c]
  PROVE  BridgeInv'
<1>1. ASSUME NEW c \in Consumers, c # d PROVE ConsumerInv(c)'
  <2>1. ConsumerInv(c) /\ BridgeTypes
    BY SMTT(30) DEF BridgeInv
  <2>2. Latest(c)' >= Latest(c) /\ emitted' \in Nat
    <3>1. emitted \in Nat /\ emitted' = emitted
      BY SMTT(30), <2>1 DEF BridgeTypes
    <3>2. c \in emitting' <=> c \in emitting
      BY <1>1
    <3> QED BY <3>1, <3>2 DEF Latest
  <2>3. client[c] # "accepted" =>
          c \notin emitting' /\ c \notin listed /\ c \notin entrant /\ c \notin connected'
    BY <2>1 DEF ConsumerInv, Blank
  <2> QED BY <1>1, <2>1, <2>2, <2>3, ConsumerKept
<1>2. (listener = "spawn" => \A c \in entrant : writer[c].at = "unborn")'
  BY ZenonT(40) DEF BridgeInv, BridgeTypes
<1>3. emitting' # {} => emitted' > 0
  BY DEF BridgeInv
<1>4. (Increasing(backlog) /\ \A i \in DOMAIN backlog : backlog[i] > 0 /\ backlog[i] <= emitted)'
  BY DEF BridgeInv, Increasing
<1>5. \A c \in Consumers : ConsumerInv(c)'
  BY <1>1
<1> QED BY <1>2, <1>3, <1>4, <1>5 DEF BridgeInv

LEMMA Handed ==
  /\ \A w \in {"unborn", "next", "empty", "exited"} :
       At(w) \in Hands /\ At(w).event = 0 /\ At(w).count = 0 /\ At(w).at = w
  /\ \A n \in Nat :
       /\ Frame(n) \in Hands /\ Frame(n).event = n /\ Frame(n).count = 0 /\ Frame(n).at = "write"
       /\ DroppedEvents(n) \in Hands /\ DroppedEvents(n).event = 0 /\ DroppedEvents(n).count = n
       /\ DroppedEvents(n).at = "write"
BY DEF At, Frame, DroppedEvents, Hands

(* The last event, given to one of those that were listed *)
LEMMA EnqueueFrameInv ==
  ASSUME BridgeInv, NEW d \in Consumers, enqueue_consumer_frame(d)
  PROVE  BridgeInv'
<1> DEFINE e == emitted
<1>1. /\ e \in Events /\ e \in Nat /\ d \in emitting /\ emitting' = emitting \ {d} /\ emitted' = e
      /\ BridgeTypes /\ ConsumerInv(d) /\ Latest(d) = e - 1 /\ Latest(d)' = e
      /\ UNCHANGED <<backlog, backlog_dropped_count, listed, listener, entrant, writer, connected, client,
                     got, reported>>
  BY SMTT(30), BridgeAssumption DEF enqueue_consumer_frame, BridgeInv, BridgeTypes, Events, Latest, bthreads, bpeers
<1>2. CASE d \notin connected \ stopping
  <2>1. UNCHANGED <<queue, dropped_count, offered>>
    BY <1>2 DEF enqueue_consumer_frame
  <2>2. client[d] = "accepted"
    BY <1>1 DEF ConsumerInv, Blank
  <2>3. ConsumerInv(d)'
    BY <1>1, <2>1, <2>2, ConsumerKept
  <2>4. BridgeTypes'
    BY SMTT(30), <1>1, <2>1 DEF BridgeTypes
  <2> QED BY <1>1, <2>1, <2>3, <2>4, OneConsumer
<1>3. CASE d \in connected \ stopping
  <2> DEFINE a == Enqueue(queue[d], e)
             q == queue[d]
  <2>1. /\ queue' = [queue EXCEPT ![d] = a.queue]
        /\ dropped_count' = [dropped_count EXCEPT ![d] = @ + a.dropped]
        /\ offered' = [offered EXCEPT ![d] = @ + 1]
    BY <1>3 DEF enqueue_consumer_frame
  <2>2. /\ q \in Seq(Nat) /\ got[d] \in Seq(Nat) /\ writer[d].event \in Nat
        /\ writer[d].count \in Nat /\ dropped_count[d] \in Nat /\ offered[d] \in Nat
        /\ reported[d] \in Nat /\ Line(got[d], writer[d].event, q, e - 1)
    BY SMTT(30), <1>1 DEF BridgeTypes, Hands, ConsumerInv, InOrder
  <2>3. Increasing(q) /\ \A i \in DOMAIN q : q[i] < e
    BY SMTT(30), <1>1, <2>2 DEF Line
  <2>4. /\ a.queue \in Seq(Nat) /\ a.dropped \in Nat /\ Len(a.queue) + a.dropped = Len(q) + 1
        /\ Increasing(a.queue)
        /\ \A j \in DOMAIN a.queue : a.queue[j] = e \/ \E i \in DOMAIN q : a.queue[j] = q[i]
    BY <1>1, <2>2, <2>3, Enqueues
  <2> HIDE DEF a
  <2>5. /\ queue'[d] = a.queue /\ dropped_count'[d] = dropped_count[d] + a.dropped
        /\ offered'[d] = offered[d] + 1
        /\ \A c \in Consumers \ {d} : /\ queue'[c] = queue[c] /\ dropped_count'[c] = dropped_count[c]
                                       /\ offered'[c] = offered[c]
    BY <1>1, <2>1 DEF BridgeTypes
  <2>6. BridgeTypes'
    <3>1. queue' \in [Consumers -> Seq(Nat)]
      BY SMTT(30), <1>1, <2>1, <2>4 DEF BridgeTypes
    <3>2. dropped_count' \in [Consumers -> Nat] /\ offered' \in [Consumers -> Nat]
      <4>1. dropped_count \in [Consumers -> Nat] /\ offered \in [Consumers -> Nat] /\ a.dropped \in Nat
        BY SMTT(30), <1>1, <2>4 DEF BridgeTypes
      <4> QED BY <2>1, <4>1
    <3> QED BY SMTT(30), <1>1, <3>1, <3>2 DEF BridgeTypes
  <2>7. InOrder(d)'
    <3>1. Line(got[d], writer[d].event, a.queue, e)
      <4>1. e \in Nat /\ e > 0
        BY <1>1 DEF Events
      <4> QED BY SMTT(30), <2>2, <2>4, <4>1, LineEnqueued
    <3> QED BY Zenon, <1>1, <2>5, <3>1 DEF InOrder
  <2>8. Accounted(d)'
    <3>1. Accounted(d)
      BY Zenon, <1>1, <1>3 DEF ConsumerInv
    <3> DEFINE one == IF writer[d].event # 0 THEN 1 ELSE 0
               rest == Len(got[d]) + reported[d]
               o == offered[d]
               n == dropped_count[d]
               w == writer[d].count
               l == Len(q)
               k == Len(a.queue)
               m == a.dropped
    <3>2. /\ one \in Nat /\ rest \in Nat /\ l \in Nat /\ k \in Nat
          /\ o \in Nat /\ n \in Nat /\ w \in Nat /\ m \in Nat /\ k + m = l + 1
      BY SMTT(30), <2>2, <2>4
    <3>3. o = rest + n + l + w + one
      BY <3>1 DEF Accounted
    <3> HIDE DEF one, rest, o, n, w, l, k, m
    <3>4. o + 1 = rest + (n + m) + k + w + one
      BY <3>2, <3>3
    <3> QED BY Zenon, <1>1, <2>5, <3>4 DEF Accounted, one, rest, o, n, w, k, m
  <2>9. ConsumerInv(d)'
    BY <1>1, <1>3, <2>7, <2>8 DEF ConsumerInv, Blank
  <2> QED BY <1>1, <2>5, <2>6, <2>9, OneConsumer
<1> QED BY <1>2, <1>3

(* What the thread of a consumer takes from its queue, and writes *)
LEMMA NextFrameInv ==
  ASSUME BridgeInv, NEW d \in Consumers, next_consumer_frame(d) \/ CheckShutdown(d)
  PROVE  BridgeInv'
<1> DEFINE q == queue[d]
<1>1. /\ BridgeTypes /\ ConsumerInv(d) /\ writer[d].at \in {"next", "empty"}
      /\ writer[d].event = 0 /\ writer[d].count = 0
      /\ UNCHANGED <<emitted, emitting, backlog, backlog_dropped_count, listed, listener, entrant,
                     connected, client, offered, got, reported>>
  BY DEF next_consumer_frame, CheckShutdown, BridgeInv, ConsumerInv, emission, bqueues, bpeers, bhistory
<1>2. /\ q \in Seq(Nat) /\ got[d] \in Seq(Nat) /\ dropped_count[d] \in Nat /\ Latest(d)' = Latest(d)
      /\ offered[d] \in Nat /\ reported[d] \in Nat /\ Len(q) \in Nat /\ Len(got[d]) \in Nat
      /\ client[d] = "accepted" /\ Latest(d) \in Int
  BY <1>1 DEF BridgeTypes, Latest, ConsumerInv, Blank
<1>4. Line(got[d], 0, q, Latest(d))
  BY Zenon, <1>1 DEF ConsumerInv, InOrder
<1>3. d \in connected => offered[d] = Len(got[d]) + reported[d] + dropped_count[d] + Len(q) + 0 + 0
  BY ZenonT(40), <1>1 DEF ConsumerInv, Accounted
<1>5. CASE UNCHANGED <<queue, dropped_count>> /\ \E w \in {"empty", "next", "exited"} :
             writer' = [writer EXCEPT ![d] = At(w)]
  <2>1. /\ writer' \in [Consumers -> Hands] /\ writer'[d].event = 0 /\ writer'[d].count = 0
        /\ writer'[d].at # "write" /\ \A c \in Consumers \ {d} : writer'[c] = writer[c]
    BY <1>1, <1>5, Handed DEF BridgeTypes
  <2>2. BridgeTypes'
    BY <1>1, <1>5, <2>1 DEF BridgeTypes
  <2>3. InOrder(d)'
    BY Zenon, <1>1, <1>2, <1>4, <1>5, <2>1 DEF InOrder
  <2>4. (d \in connected => Accounted(d))'
    BY Zenon, <1>1, <1>3, <1>5, <2>1 DEF Accounted
  <2>5. ConsumerInv(d)'
    BY ZenonT(40), <1>1, <1>2, <2>1, <2>3, <2>4 DEF ConsumerInv
  <2> QED BY Zenon, <1>1, <1>5, <2>1, <2>2, <2>5, OneConsumer
<1>6. CASE /\ dropped_count[d] > 0 /\ writer' = [writer EXCEPT ![d] = DroppedEvents(dropped_count[d])]
           /\ dropped_count' = [dropped_count EXCEPT ![d] = 0] /\ UNCHANGED queue
  <2>1. /\ DroppedEvents(dropped_count[d]) \in Hands
        /\ DroppedEvents(dropped_count[d]).event = 0 /\ DroppedEvents(dropped_count[d]).at = "write"
        /\ DroppedEvents(dropped_count[d]).count = dropped_count[d]
    BY Zenon, <1>2, Handed
  <2>2. /\ writer' \in [Consumers -> Hands] /\ writer'[d].event = 0
        /\ writer'[d].count = dropped_count[d]
        /\ writer'[d].at = "write" /\ \A c \in Consumers \ {d} : writer'[c] = writer[c]
    BY <1>1, <1>6, <2>1 DEF BridgeTypes
  <2>3. /\ dropped_count' \in [Consumers -> Nat] /\ dropped_count'[d] = 0
        /\ \A c \in Consumers \ {d} : dropped_count'[c] = dropped_count[c]
    BY <1>1, <1>6 DEF BridgeTypes
  <2>4. BridgeTypes'
    BY SMTT(30), <1>1, <1>6, <2>2, <2>3 DEF BridgeTypes
  <2>5. InOrder(d)'
    BY Zenon, <1>1, <1>2, <1>4, <1>6, <2>2 DEF InOrder
  <2>6. (d \in connected => Accounted(d))'
    BY <1>1, <1>2, <1>3, <1>6, <2>2, <2>3 DEF Accounted
  <2>7. ConsumerInv(d)'
    BY ZenonT(40), <1>1, <1>2, <2>2, <2>5, <2>6 DEF ConsumerInv
  <2> QED BY ZenonT(40), <1>1, <1>6, <2>2, <2>3, <2>4, <2>7, OneConsumer
<1>7. CASE /\ q # <<>> /\ writer' = [writer EXCEPT ![d] = Frame(Head(q))]
           /\ queue' = [queue EXCEPT ![d] = Tail(q)] /\ UNCHANGED dropped_count
  <2> DEFINE h == Head(q)
             t == Tail(q)
  <2>1. /\ h \in Nat /\ h # 0 /\ t \in Seq(Nat) /\ Len(t) \in Nat /\ Len(q) = Len(t) + 1
        /\ Line(got[d], h, t, Latest(d))
    BY <1>2, <1>4, <1>7, LineTaken
  <2> HIDE DEF h, t
  <2>3. Frame(h) \in Hands /\ Frame(h).event = h /\ Frame(h).count = 0 /\ Frame(h).at = "write"
    BY <2>1, Handed
  <2>4. /\ writer' \in [Consumers -> Hands] /\ writer'[d].event = h /\ writer'[d].count = 0
        /\ writer'[d].at = "write" /\ \A c \in Consumers \ {d} : writer'[c] = writer[c]
    BY <1>1, <1>7, <2>3 DEF BridgeTypes, h
  <2>5. /\ queue' \in [Consumers -> Seq(Nat)] /\ queue'[d] = t
        /\ \A c \in Consumers \ {d} : queue'[c] = queue[c]
    BY <1>1, <1>7, <2>1 DEF BridgeTypes, t
  <2>6. BridgeTypes'
    BY SMTT(30), <1>1, <1>7, <2>4, <2>5 DEF BridgeTypes
  <2>7. InOrder(d)'
    BY Zenon, <1>1, <1>2, <2>1, <2>4, <2>5 DEF InOrder
  <2>8. (d \in connected => Accounted(d))'
    <3> DEFINE rest == Len(got[d]) + reported[d] + dropped_count[d]
               o == offered[d]
               l == Len(q)
               k == Len(t)
    <3>1. k \in Nat /\ l = k + 1 /\ h # 0
      BY <2>1
    <3>4. rest \in Nat /\ o \in Nat
      BY <1>2
    <3>2. d \in connected => o = rest + l + 0 + 0
      BY <1>3
    <3> HIDE DEF rest, o, l, k
    <3>3. d \in connected => o = rest + k + 0 + 1
      BY <3>1, <3>2, <3>4
    <3> QED BY Zenon, <1>1, <1>7, <2>4, <2>5, <3>1, <3>3 DEF Accounted, rest, o, k
  <2>9. ConsumerInv(d)'
    BY Zenon, <1>1, <1>2, <2>4, <2>7, <2>8 DEF ConsumerInv
  <2> QED BY Zenon, <1>1, <1>7, <2>4, <2>5, <2>6, <2>9, OneConsumer
<1>8. CASE CheckShutdown(d)
  BY Zenon, <1>5, <1>8 DEF CheckShutdown, bqueues
<1>9. CASE next_consumer_frame(d)
  BY Zenon, <1>2, <1>5, <1>6, <1>7, <1>9 DEF next_consumer_frame
<1> QED BY <1>8, <1>9

LEMMA WriteFrameInv ==
  ASSUME BridgeInv, NEW d \in Consumers, write_frame(d)
  PROVE  BridgeInv'
<1> DEFINE e == writer[d].event
           n == writer[d].count
<1>1. /\ BridgeTypes /\ ConsumerInv(d) /\ writer[d].at = "write"
      /\ UNCHANGED <<emitted, emitting, backlog, backlog_dropped_count, queue, dropped_count, listed,
                     listener, entrant, client, offered>>
  BY DEF write_frame, BridgeInv, emission, bqueues
<1>2. /\ queue[d] \in Seq(Nat) /\ got[d] \in Seq(Nat) /\ Latest(d)' = Latest(d) /\ Latest(d) \in Int
      /\ e \in Nat /\ n \in Nat /\ client[d] = "accepted" /\ reported[d] \in Nat
  BY SMTT(30), <1>1 DEF BridgeTypes, Hands, Latest, ConsumerInv, Blank
<1>3. CASE /\ writer' = [writer EXCEPT ![d] = At("next")]
           /\ got' = [got EXCEPT ![d] = IF e = 0 THEN got[d] ELSE Append(got[d], e)]
           /\ reported' = [reported EXCEPT ![d] = reported[d] + n]
           /\ UNCHANGED <<connected, stopping>>
  <2> DEFINE g == IF e = 0 THEN got[d] ELSE Append(got[d], e)
  <2>1. /\ writer' \in [Consumers -> Hands] /\ writer'[d].event = 0 /\ writer'[d].count = 0
        /\ writer'[d].at = "next" /\ \A c \in Consumers \ {d} : writer'[c] = writer[c]
    BY <1>1, <1>3, Handed DEF BridgeTypes
  <2>2. /\ g \in Seq(Nat) /\ Len(g) = Len(got[d]) + (IF e # 0 THEN 1 ELSE 0)
        /\ Line(g, 0, queue[d], Latest(d))
    <3>1. Line(got[d], e, queue[d], Latest(d))
      BY ZenonT(40), <1>1 DEF ConsumerInv, InOrder
    <3> HIDE DEF e
    <3>2. CASE e = 0
      BY SMTT(30), <1>2, <3>1, <3>2
    <3>3. CASE e # 0
      BY <1>2, <3>1, <3>3, LineWritten
    <3> QED BY Zenon, <3>2, <3>3
  <2> HIDE DEF g
  <2>3. /\ got' \in [Consumers -> Seq(Nat)] /\ got'[d] = g
        /\ \A c \in Consumers \ {d} : got'[c] = got[c]
    BY <1>1, <1>3, <2>2 DEF BridgeTypes, g
  <2>4. /\ reported' \in [Consumers -> Nat] /\ reported'[d] = reported[d] + n
        /\ \A c \in Consumers \ {d} : reported'[c] = reported[c]
    BY <1>1, <1>2, <1>3 DEF BridgeTypes
  <2>5. BridgeTypes'
    BY <1>1, <1>3, <2>1, <2>3, <2>4 DEF BridgeTypes
  <2>6. InOrder(d)'
    BY Zenon, <1>1, <1>2, <2>1, <2>2, <2>3 DEF InOrder
  <2>7. (d \in connected => Accounted(d))'
    <3> DEFINE one == IF e # 0 THEN 1 ELSE 0
               o == offered[d]
               r == reported[d]
               l == Len(got[d])
    <3>1. one \in Nat /\ r \in Nat /\ l \in Nat /\ o \in Nat
      BY <1>1, <1>2 DEF BridgeTypes
    <3>2. d \in connected => o = l + r + dropped_count[d] + Len(queue[d]) + n + one
      BY Zenon, <1>1 DEF ConsumerInv, Accounted
    <3>3. dropped_count[d] \in Nat /\ Len(queue[d]) \in Nat /\ n \in Nat
      BY <1>1, <1>2 DEF BridgeTypes
    <3>4. Len(g) = l + one
      BY <2>2
    <3> DEFINE k == dropped_count[d]
               m == Len(queue[d])
    <3> HIDE DEF one, o, r, l, n, k, m
    <3>5. d \in connected => o = (l + one) + (r + n) + k + m + 0 + 0
      <4>1. d \in connected => o = l + r + k + m + n + one
        BY <3>2 DEF k, m
      <4>2. k \in Nat /\ m \in Nat /\ n \in Nat
        BY SMTT(30), <3>3 DEF k, m
      <4> QED BY <3>1, <4>1, <4>2
    <3> QED BY Zenon, <1>1, <1>3, <2>1, <2>3, <2>4, <3>4, <3>5 DEF Accounted, o, r, k, m
  <2>8. ConsumerInv(d)'
    BY SMTT(30), <1>1, <1>2, <2>1, <2>6, <2>7 DEF ConsumerInv
  <2> QED BY <1>1, <1>3, <2>1, <2>3, <2>4, <2>5, <2>8, OneConsumer
<1>4. CASE /\ writer' = [writer EXCEPT ![d] = At("exited")]
           /\ connected' = connected \ {d}
           /\ UNCHANGED <<got, reported>>
  <2>1. /\ writer' \in [Consumers -> Hands] /\ writer'[d].event = 0 /\ writer'[d].count = 0
        /\ writer'[d].at = "exited" /\ \A c \in Consumers \ {d} : writer'[c] = writer[c]
    BY <1>1, <1>4, Handed DEF BridgeTypes
  <2>2. BridgeTypes'
    BY <1>1, <1>4, <2>1 DEF BridgeTypes
  <2>3. InOrder(d)'
    <3>1. Line(got[d], 0, queue[d], Latest(d))
      BY Zenon, <1>1, LineLetGo DEF ConsumerInv, InOrder
    <3> QED BY Zenon, <1>1, <1>2, <1>4, <2>1, <3>1 DEF InOrder
  <2>4. ConsumerInv(d)'
    BY ZenonT(40), <1>1, <1>2, <1>4, <2>1, <2>3 DEF ConsumerInv
  <2> QED BY <1>1, <1>4, <2>1, <2>2, <2>4, OneConsumer
<1> QED BY <1>3, <1>4 DEF write_frame

(* A consumer is accepted with nothing, or with the backlog. *)
LEMMA AcceptInv ==
  ASSUME BridgeInv, NEW d \in Consumers, Accept(d)
  PROVE  BridgeInv'
<1>1. /\ BridgeTypes /\ Blank(d) /\ ConsumerInv(d)
      /\ entrant' = {d} /\ connected' = connected \cup {d}
      /\ client' = [client EXCEPT ![d] = "accepted"]
      /\ UNCHANGED <<emitted, emitting, listed, writer, got, reported>>
  BY Zenon DEF Accept, BridgeInv, ConsumerInv, Callers, emission
<1>2. /\ Latest(d) = emitted /\ Latest(d)' = emitted /\ emitted \in Nat
      /\ writer[d].event = 0 /\ writer[d].count = 0 /\ writer[d].at = "unborn"
      /\ got[d] = <<>> /\ reported[d] = 0
  BY <1>1 DEF Latest, Blank, BridgeTypes, ConsumerInv
<1>3. /\ queue' \in [Consumers -> Seq(Nat)] /\ dropped_count' \in [Consumers -> Nat]
      /\ offered' \in [Consumers -> Nat] /\ backlog' \in Seq(Nat) /\ backlog_dropped_count' \in Nat
      /\ offered'[d] = Len(queue'[d]) + dropped_count'[d] /\ Increasing(queue'[d])
      /\ \A j \in DOMAIN queue'[d] : queue'[d][j] > 0 /\ queue'[d][j] <= emitted
      /\ Increasing(backlog') /\ \A i \in DOMAIN backlog' : backlog'[i] > 0 /\ backlog'[i] <= emitted
      /\ \A c \in Consumers \ {d} : /\ queue'[c] = queue[c] /\ dropped_count'[c] = dropped_count[c]
                                     /\ offered'[c] = offered[c]
  <2>1. /\ backlog \in Seq(Nat) /\ backlog_dropped_count \in Nat /\ Increasing(backlog)
        /\ \A i \in DOMAIN backlog : backlog[i] > 0 /\ backlog[i] <= emitted
    BY SMTT(30) DEF BridgeInv, BridgeTypes
  <2>2. CASE listed = {}
    <3>1. /\ queue' = [queue EXCEPT ![d] = backlog]
          /\ dropped_count' = [dropped_count EXCEPT ![d] = backlog_dropped_count]
          /\ offered' = [offered EXCEPT ![d] = Len(backlog) + backlog_dropped_count]
          /\ backlog' = <<>> /\ backlog_dropped_count' = 0
      BY <2>2 DEF Accept
    <3>2. Len(backlog) \in Nat
      BY <2>1
    <3>3. /\ dropped_count' \in [Consumers -> Nat] /\ offered' \in [Consumers -> Nat]
          /\ dropped_count'[d] = backlog_dropped_count
          /\ offered'[d] = Len(backlog) + backlog_dropped_count
          /\ \A c \in Consumers \ {d} : dropped_count'[c] = dropped_count[c] /\ offered'[c] = offered[c]
      BY <1>1, <2>1, <3>1, <3>2 DEF BridgeTypes
    <3>4. /\ queue' \in [Consumers -> Seq(Nat)] /\ queue'[d] = backlog
          /\ \A c \in Consumers \ {d} : queue'[c] = queue[c]
      BY <1>1, <2>1, <3>1 DEF BridgeTypes
    <3>5. backlog' \in Seq(Nat) /\ Increasing(backlog') /\ DOMAIN backlog' = {}
      BY <3>1 DEF Increasing
    <3>6. backlog_dropped_count' \in Nat
      BY SMTT(30), <3>1
    <3> QED BY <2>1, <3>3, <3>4, <3>5, <3>6
  <2>3. CASE listed # {}
    <3>1. UNCHANGED <<backlog, backlog_dropped_count, queue, dropped_count, offered>>
      BY ZenonT(40), <2>3 DEF Accept, bqueues
    <3>2. queue[d] = <<>> /\ dropped_count[d] = 0 /\ offered[d] = 0
      BY <1>1 DEF Blank
    <3> QED BY <1>1, <2>1, <3>1, <3>2 DEF BridgeTypes, Increasing
  <2> QED BY Zenon, <2>2, <2>3
<1>4. BridgeTypes'
  BY ZenonT(40), <1>1, <1>3 DEF BridgeTypes
<1>5. ConsumerInv(d)'
  <2>1. InOrder(d)'
    <3>1. got'[d] = <<>> /\ writer'[d].event = 0
      BY SMTT(30), <1>1, <1>2
    <3>2. Line(<<>>, 0, queue'[d], emitted)
      BY <1>3, LineBegun
    <3> QED BY Zenon, <1>2, <3>1, <3>2 DEF InOrder
  <2>2. Accounted(d)'
    <3>1. got'[d] = <<>> /\ reported'[d] = 0 /\ writer'[d].count = 0 /\ writer'[d].event = 0
      BY <1>1, <1>2
    <3>2. dropped_count'[d] \in Nat /\ Len(queue'[d]) \in Nat
      BY <1>3
    <3> QED BY <1>3, <3>1, <3>2 DEF Accounted
  <2>3. client'[d] = "accepted"
    BY SMTT(30), <1>1 DEF BridgeTypes
  <2> QED BY ZenonT(40), <1>1, <1>2, <2>1, <2>2, <2>3 DEF ConsumerInv
<1>6. ASSUME NEW c \in Consumers, c # d PROVE ConsumerInv(c)'
  <2>1. ConsumerInv(c)
    BY DEF BridgeInv
  <2>2. Latest(c)' = Latest(c) /\ Latest(c) \in Int /\ emitted' \in Nat /\ client'[c] = client[c]
    BY <1>1, <1>2, <1>6 DEF Latest, BridgeTypes
  <2>3. client[c] # "accepted" => c \notin emitting /\ c \notin listed /\ c \notin connected
    BY <2>1 DEF ConsumerInv, Blank
  <2> QED BY <1>1, <1>3, <1>6, <2>1, <2>2, <2>3, ConsumerKept
<1>7. \A c \in entrant' : writer'[c].at = "unborn"
  BY <1>1, <1>2
<1>8. emitting' # {} => emitted' > 0
  BY <1>1 DEF BridgeInv
<1>9. emitted' = emitted
  BY <1>1
<1> QED BY ZenonT(40), <1>3, <1>4, <1>5, <1>6, <1>7, <1>8, <1>9 DEF BridgeInv

LEMMA SpawnInv ==
  ASSUME BridgeInv, SpawnConsumer
  PROVE  BridgeInv'
<1>1. PICK d \in entrant :
        \/ /\ writer' = [writer EXCEPT ![d] = At("next")]
           /\ listener' = "list" /\ UNCHANGED <<entrant, connected>>
        \/ /\ listener' = "accept" /\ entrant' = {} /\ connected' = connected \ {d}
           /\ UNCHANGED writer
  BY DEF SpawnConsumer
<1>2. /\ UNCHANGED <<emitted, emitting, listed, backlog, backlog_dropped_count, queue, dropped_count,
                     client, offered, got, reported>>
      /\ d \in Consumers /\ BridgeTypes /\ writer[d].at = "unborn"
  BY SMTT(30) DEF SpawnConsumer, BridgeInv, BridgeTypes, emission, bqueues, bhistory
<1>3. /\ writer' \in [Consumers -> Hands] /\ writer'[d].at # "write"
      /\ writer'[d].event = writer[d].event /\ writer'[d].count = writer[d].count
      /\ \A c \in Consumers \ {d} : writer'[c] = writer[c]
  <2>1. writer[d].event = 0 /\ writer[d].count = 0
    BY <1>2 DEF BridgeInv, ConsumerInv
  <2>2. CASE writer' = [writer EXCEPT ![d] = At("next")]
    BY <1>2, <2>1, <2>2, Handed DEF BridgeTypes
  <2>3. CASE writer' = writer
    BY <1>2, <2>3 DEF BridgeTypes
  <2> QED BY <1>1, <2>2, <2>3
<1>4. entrant' \subseteq entrant /\ connected' \subseteq connected /\ listener' # "spawn"
  BY <1>1
<1>5. BridgeTypes'
  BY <1>2, <1>3, <1>4 DEF BridgeTypes
<1>6. ASSUME NEW c \in Consumers PROVE ConsumerInv(c)'
  <2>1. ConsumerInv(c) /\ Latest(c)' = Latest(c) /\ Latest(c) \in Int /\ emitted' \in Nat
    BY <1>2 DEF BridgeInv, BridgeTypes, Latest
  <2>2. client[c] # "accepted" =>
          c \notin emitting /\ c \notin listed /\ c \notin entrant /\ c \notin connected
    BY ZenonT(40), <2>1 DEF ConsumerInv, Blank
  <2>3. CASE c # d
    <3>1. Latest(c)' >= Latest(c)
      BY <2>1
    <3>2. /\ queue'[c] = queue[c] /\ got'[c] = got[c] /\ writer'[c] = writer[c]
          /\ dropped_count'[c] = dropped_count[c] /\ offered'[c] = offered[c]
          /\ reported'[c] = reported[c] /\ (c \in connected' => c \in connected)
      BY Zenon, <1>2, <1>3, <1>4, <2>3
    <3>3. client'[c] # "accepted" =>
            /\ client[c] # "accepted"
            /\ c \notin emitting' /\ c \notin listed' /\ c \notin entrant' /\ c \notin connected'
      BY Zenon, <1>2, <1>4, <2>2
    <3> QED BY Zenon, <1>2, <2>1, <3>1, <3>2, <3>3, ConsumerKept
  <2>4. CASE c = d
    <3>1. client[c] = "accepted"
      BY <2>2, <2>4
    <3>2. InOrder(c)'
      <4>1. InOrder(c) /\ queue'[c] = queue[c] /\ got'[c] = got[c] /\ writer'[c].event = writer[c].event
        BY Zenon, <1>2, <1>3, <2>1, <2>4 DEF ConsumerInv
      <4> QED BY Zenon, <2>1, <4>1 DEF InOrder
    <3>3. (c \in connected => Accounted(c))'
      BY Zenon, <1>2, <1>3, <1>4, <2>1, <2>4 DEF ConsumerInv, Accounted
    <3>4. writer'[c].event = 0 /\ writer'[c].count = 0
      BY ZenonT(40), <1>2, <1>3, <2>1, <2>4 DEF ConsumerInv
    <3> QED BY Zenon, <1>2, <3>1, <3>2, <3>3, <3>4 DEF ConsumerInv
  <2> QED BY <2>3, <2>4
<1>7. emitting' # {} => emitted' > 0
  BY Zenon, <1>2 DEF BridgeInv
<1>8. (Increasing(backlog) /\ \A i \in DOMAIN backlog : backlog[i] > 0 /\ backlog[i] <= emitted)'
  <2>1. backlog' = backlog /\ emitted' = emitted
    BY Zenon, <1>2
  <2> QED BY Zenon, <2>1 DEF BridgeInv, Increasing
<1> QED BY <1>4, <1>5, <1>6, <1>7, <1>8 DEF BridgeInv

-----------------------------------------------------------------------------
LEMMA BridgeStart ==
  ASSUME BridgeInit
  PROVE  BridgeInv
<1>1. BridgeTypes
  BY BridgeAssumption, Handed DEF BridgeInit, BridgeTypes
<1>2. ASSUME NEW c \in Consumers PROVE ConsumerInv(c)
  <2>1. /\ queue[c] = <<>> /\ got[c] = <<>> /\ writer[c].at = "unborn" /\ writer[c].event = 0
        /\ writer[c].count = 0
    BY Handed DEF BridgeInit
  <2>2. InOrder(c)
    BY <2>1 DEF InOrder, Line, Increasing
  <2>3. Blank(c)
    BY <2>1 DEF Blank, BridgeInit
  <2> QED BY <2>1, <2>2, <2>3 DEF ConsumerInv, Blank
<1> QED BY <1>1, <1>2 DEF BridgeInit, BridgeInv, Increasing

LEMMA BridgeInductive ==
  ASSUME BridgeInv, [BridgeNext]_bvars
  PROVE  BridgeInv'
<1>1. CASE \/ stop_accepting \/ BeginDrop \/ DropStep \/ ListenerTop \/ ListConsumer \/ Prune
           \/ UNCHANGED bvars \/ \E c \in Consumers : Connect(c)
  BY <1>1, QuietInv DEF DropStep
<1>2. CASE emit_event \/ SpawnConsumer
  BY <1>2, EmitInv, SpawnInv
<1>3. ASSUME NEW c \in Consumers, Accept(c) \/ enqueue_consumer_frame(c) \/ ConsumerStep(c)
      PROVE  BridgeInv'
  BY <1>3, AcceptInv, EnqueueFrameInv, NextFrameInv, WriteFrameInv DEF ConsumerStep
<1> QED BY <1>1, <1>2, <1>3 DEF BridgeNext, ListenerStep

(* The order of the events and the count of what is on its way hold           *)
(* throughout.                                                                *)
THEOREM BridgeAlways == BridgeSpec => []BridgeInv
<1>1. BridgeInit => BridgeInv
  BY BridgeStart
<1>2. BridgeInv /\ [BridgeNext]_bvars => BridgeInv'
  BY BridgeInductive
<1> QED BY <1>1, <1>2, PTL DEF BridgeSpec

(* Whatever the limits of the queues and the policy when they overflow, a     *)
(* consumer receives events in order, and while it is connected each one      *)
(* offered to it is received, counted as dropped, or on its way.              *)
THEOREM AccountsForEvents == BridgeSpec => []EventsAccounted
<1>1. BridgeInv => EventsAccounted
  BY Zenon DEF BridgeInv, ConsumerInv, InOrder, Line, Accounted, Increasing, EventsAccounted
<1> QED BY <1>1, BridgeAlways, PTL
=============================================================================
