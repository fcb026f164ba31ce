---------------------------- MODULE AnnounceProofs ----------------------------
(***************************************************************************)
(* Proofs about how announces are limited, for every rate, penalty, cost,   *)
(* capacity and interval: the outgoing queues (AnnounceQueue), the          *)
(* announces held during a burst (IngressControl) and the rate limiter      *)
(* (RateLimit).                                                             *)
(***************************************************************************)
EXTENDS AnnounceQueue, IngressControl, RateLimit, FiniteSetTheorems, TLAPS

-----------------------------------------------------------------------------
(* AnnounceQueue.  The wait of a tracked queue is what is left of the share   *)
(* of the last transmission on its interface, whoever sent it.                *)
CapInv ==
  /\ DOMAIN queues \subseteq Interfaces
  /\ \A i \in DOMAIN queues : queues[i] = [entries |-> queues[i].entries, wait |-> busy[i]]
  /\ busy \in [Interfaces -> Nat]

LEMMA TransmitCap ==
  ASSUME CapInv, NEW i \in Interfaces, NEW c \in Costs, NEW announce,
         queues' = Put(i, Allowed(Queue(i), c)), Transmit(i, c, announce)
  PROVE  CapInv'
<1>1. c \in Nat
  BY AnnounceQueueAssumption
<1>2. busy' = [busy EXCEPT ![i] = c]
  BY DEF Transmit
<1>3. /\ busy' \in [Interfaces -> Nat]
      /\ busy'[i] = c /\ \A j \in Interfaces \ {i} : busy'[j] = busy[j]
  BY <1>1, <1>2 DEF CapInv
<1>4. Allowed(Queue(i), c) = [entries |-> Queue(i).entries, wait |-> c]
  BY DEF Allowed, Queue, NewQueue, CapInv
<1>5. /\ DOMAIN queues' = DOMAIN queues \cup {i} /\ queues'[i] = Allowed(Queue(i), c)
      /\ \A j \in DOMAIN queues \ {i} : queues'[j] = queues[j]
  BY DEF Put
<1>6. \A j \in DOMAIN queues' : queues'[j] = [entries |-> queues'[j].entries, wait |-> busy'[j]]
  BY <1>3, <1>4, <1>5 DEF CapInv
<1> QED BY <1>3, <1>5, <1>6 DEF CapInv

(* A transmission on an interface without a queue leaves the queues alone. *)
LEMMA UntrackedCap ==
  ASSUME CapInv, NEW i \in Interfaces, NEW c \in Costs, NEW announce,
         i \notin DOMAIN queues, queues' = queues, Transmit(i, c, announce)
  PROVE  CapInv'
<1>1. c \in Nat
  BY AnnounceQueueAssumption
<1>2. busy' = [busy EXCEPT ![i] = c]
  BY DEF Transmit
<1>3. busy' \in [Interfaces -> Nat] /\ \A j \in Interfaces \ {i} : busy'[j] = busy[j]
  BY <1>1, <1>2 DEF CapInv
<1> QED BY <1>3 DEF CapInv

LEMMA QueuedCap ==
  ASSUME CapInv, NEW i \in Interfaces, NEW entries, Queue(i).wait > 0,
         queues' = Put(i, [Queue(i) EXCEPT !.entries = entries]), UNCHANGED busy
  PROVE  CapInv'
<1>1. i \in DOMAIN queues
  BY DEF Queue, NewQueue
<1>2. [Queue(i) EXCEPT !.entries = entries] = [entries |-> entries, wait |-> busy[i]]
  BY <1>1 DEF Queue, CapInv
<1>3. /\ DOMAIN queues' = DOMAIN queues /\ queues'[i] = [entries |-> entries, wait |-> busy[i]]
      /\ \A j \in DOMAIN queues \ {i} : queues'[j] = queues[j]
  BY <1>1, <1>2 DEF Put
<1> QED BY <1>3 DEF CapInv

LEMMA TickCap ==
  ASSUME CapInv, NEW c \in [Interfaces -> Costs], Tick(c)
  PROVE  CapInv'
<1> DEFINE sent == {i \in DOMAIN queues : Sends(queues[i])}
<1>1. \A i \in Interfaces : c[i] \in Nat
  BY Zenon, AnnounceQueueAssumption
<1>2. /\ queues' = [i \in Kept(c) |-> Processed(queues[i], c[i])]
      /\ busy' = [i \in Interfaces |-> IF i \in sent THEN c[i] ELSE busy[i]]
  BY DEF Tick
<1>3. Kept(c) \subseteq DOMAIN queues
  BY DEF Kept
<1>4. ASSUME NEW i \in Kept(c)
      PROVE  queues'[i] = [entries |-> queues'[i].entries, wait |-> busy'[i]]
  <2>1. /\ queues[i] = [entries |-> queues[i].entries, wait |-> busy[i]]
        /\ i \in DOMAIN queues /\ i \in Interfaces
    BY <1>3 DEF CapInv
  <2>2. CASE Sends(queues[i])
    <3>1. busy'[i] = c[i]
      BY Zenon, <1>2, <2>1, <2>2
    <3>2. queues'[i] = [entries |-> Others(Fresh(queues[i].entries), Next1(Fresh(queues[i].entries))),
                        wait |-> c[i]]
      BY Zenon, <1>2, <2>1, <2>2 DEF Processed, Allowed
    <3> QED BY <3>1, <3>2
  <2>3. CASE ~Sends(queues[i])
    <3>1. busy'[i] = busy[i]
      BY Zenon, <1>2, <2>1, <2>3
    <3>2. queues'[i] = [entries |-> Fresh(queues[i].entries), wait |-> busy[i]]
      BY <1>2, <2>1, <2>3 DEF Processed
    <3> QED BY <3>1, <3>2
  <2> QED BY <2>2, <2>3
<1>5. busy' \in [Interfaces -> Nat]
  <2> HIDE DEF sent
  <2> QED BY <1>1, <1>2 DEF CapInv
<1> QED BY Zenon, <1>2, <1>3, <1>4, <1>5 DEF CapInv

LEMMA ForgetCap ==
  ASSUME CapInv, NEW gone, Forget(gone), busy' \in [Interfaces -> Nat],
         \A j \in Interfaces \ gone : busy'[j] = busy[j]
  PROVE  CapInv'
<1>1. queues' = [j \in DOMAIN queues \ gone |-> queues[j]]
  BY DEF Forget
<1>2. \A j \in DOMAIN queues' : queues'[j] = queues[j] /\ busy'[j] = busy[j] /\ j \in DOMAIN queues
  BY <1>1 DEF CapInv
<1> QED BY Zenon, <1>1, <1>2 DEF CapInv

LEMMA TimeCap ==
  ASSUME CapInv, TimePasses
  PROVE  CapInv'
<1>1. /\ DOMAIN queues' = DOMAIN queues
      /\ busy' = [i \in Interfaces |-> IF busy[i] > 0 THEN busy[i] - 1 ELSE 0]
  BY DEF TimePasses
<1>2. busy' \in [Interfaces -> Nat]
  BY <1>1 DEF CapInv
<1>3. ASSUME NEW i \in DOMAIN queues
      PROVE  queues'[i] = [entries |-> queues'[i].entries, wait |-> busy'[i]]
  <2>1. queues[i].wait = busy[i] /\ i \in Interfaces
    BY DEF CapInv
  <2>2. PICK x : queues'[i] = [entries |-> x, wait |-> IF queues[i].wait > 0 THEN queues[i].wait - 1 ELSE 0]
    BY Zenon DEF TimePasses
  <2> QED BY <1>1, <2>1, <2>2
<1> QED BY <1>1, <1>2, <1>3 DEF CapInv

(* Before an announce is sent on an interface with a queue, that queue's wait *)
(* is over, and with it the bandwidth the last transmission used is free.     *)
LEMMA SentFree ==
  ASSUME CapInv, [Next]_vars, NEW j \in too_early', j \in DOMAIN queues
  PROVE  UNCHANGED vars
<1>1. queues[j].wait = busy[j] /\ busy[j] \in Nat
  BY DEF CapInv
<1>2. ASSUME NEW i \in Interfaces, NEW c \in Costs, NEW d \in Destinations, NEW h \in Hops,
             GateAnnounce(i, d, h, c)
      PROVE  FALSE
  <2>1. Queue(i).wait = 0 /\ Transmit(i, c, TRUE)
    BY Zenon, <1>2 DEF GateAnnounce
  <2>2. j = i /\ busy[i] > 0
    BY <2>1 DEF Transmit
  <2> QED BY <1>1, <2>1, <2>2 DEF Queue
<1>3. ASSUME NEW i \in Interfaces, NEW c \in Costs, ReservePathRequest(i, c) PROVE FALSE
  BY <1>3 DEF ReservePathRequest, Transmit
<1>4. ASSUME NEW c \in [Interfaces -> Costs], Tick(c) PROVE FALSE
  <2>1. busy[j] > 0 /\ Sends(queues[j])
    BY <1>4 DEF Tick
  <2>2. queues[j].wait = 0
    BY Zenon, <2>1 DEF Sends
  <2> QED BY <1>1, <2>1, <2>2
<1>5. ~\E i \in Interfaces : RemoveInterface(i)
  BY Zenon DEF RemoveInterface, Forget
<1>6. ~DropAnnounceQueues /\ ~TimePasses
  BY Zenon DEF DropAnnounceQueues, Forget, TimePasses
<1> QED BY Zenon, <1>2, <1>3, <1>4, <1>5, <1>6 DEF Next

(* However announces, path requests, ticks and the removal of queues follow   *)
(* each other and whatever they cost, an announce is sent before the          *)
(* bandwidth is free only on an interface whose queue was removed or, for     *)
(* want of room, never kept.                                                  *)
THEOREM EarlyUnqueued == Spec => EarlyOnlyUnqueued
<1>1. Init => CapInv
  BY DEF Init, CapInv
<1>2. ASSUME CapInv, [Next]_vars PROVE CapInv'
  <2>1. ASSUME NEW i \in Interfaces, NEW c \in Costs, NEW d \in Destinations, NEW h \in Hops,
               GateAnnounce(i, d, h, c)
        PROVE  CapInv'
    <3>1. CASE UNCHANGED <<queues, busy>>
      BY Zenon, <1>2, <3>1 DEF CapInv
    <3>2. CASE ~UNCHANGED <<queues, busy>>
      BY Zenon, <1>2, <2>1, <3>2, TransmitCap, QueuedCap DEF GateAnnounce
    <3> QED BY <3>1, <3>2
  <2>2. ASSUME NEW i \in Interfaces, NEW c \in Costs, ReservePathRequest(i, c) PROVE CapInv'
    <3>1. CASE Full(i)
      BY Zenon, <1>2, <2>2, <3>1, UntrackedCap DEF ReservePathRequest, Full
    <3>2. CASE ~Full(i)
      BY Zenon, <1>2, <2>2, <3>2, TransmitCap DEF ReservePathRequest
    <3> QED BY <3>1, <3>2
  <2>3. ASSUME NEW i \in Interfaces, RemoveInterface(i) PROVE CapInv'
    <3>1. /\ busy' \in [Interfaces -> Nat] /\ Forget({i})
          /\ \A j \in Interfaces \ {i} : busy'[j] = busy[j]
      BY <1>2, <2>3 DEF RemoveInterface, CapInv
    <3> QED BY Zenon, <1>2, <3>1, ForgetCap
  <2>4. CASE DropAnnounceQueues
    <3>1. /\ busy' \in [Interfaces -> Nat] /\ Forget(Interfaces) /\ busy' = busy
      BY <1>2, <2>4 DEF DropAnnounceQueues, CapInv
    <3> QED BY Zenon, <1>2, <3>1, ForgetCap
  <2>5. CASE UNCHANGED vars
    BY <1>2, <2>5 DEF CapInv, vars, ghosts
  <2> QED BY Zenon, <1>2, <2>1, <2>2, <2>3, <2>4, <2>5, TickCap, TimeCap DEF Next
<1>3. CapInv /\ [Next]_vars => [\A i \in too_early' : i \notin DOMAIN queues]_vars
  BY Zenon, SentFree
<1> QED BY <1>1, <1>2, <1>3, PTL DEF Spec, EarlyOnlyUnqueued

-----------------------------------------------------------------------------
(* The entries of a queue.  What remove_stale and a transmission leave of      *)
(* them keeps its order (Selection).  Places are numbered by how many come    *)
(* before them, each by another number.                                       *)
LEMMA Places ==
  ASSUME NEW n \in Nat, NEW keep \in SUBSET (1..n)
  PROVE  /\ Cardinality(keep) \in 0..n
         /\ \A k \in 1..Cardinality(keep) : Nth(keep, k) \in keep
         /\ \A k, l \in 1..Cardinality(keep) : Nth(keep, k) = Nth(keep, l) => k = l
<1> DEFINE c == Cardinality(keep)
           before(i) == {j \in keep : j < i}
           rank == [i \in keep |-> Cardinality(before(i))]
<1>1. IsFiniteSet(keep) /\ c \in 0..n
  <2>1. IsFiniteSet(1..n) /\ Cardinality(1..n) = n
    BY FS_Interval
  <2>2. IsFiniteSet(keep) /\ c <= n
    BY Zenon, <2>1, FS_Subset
  <2> QED BY <2>2, FS_CardinalityType
<1>2. \A i : IsFiniteSet(before(i)) /\ Cardinality(before(i)) \in Nat
  BY <1>1, FS_Subset, FS_CardinalityType
<1>3. ASSUME NEW i \in keep, NEW T \in SUBSET keep, before(i) \cup {i} \subseteq T
      PROVE  rank[i] < Cardinality(T)
  <2>1. Cardinality(before(i) \cup {i}) = Cardinality(before(i)) + 1 /\ IsFiniteSet(before(i) \cup {i})
    <3>1. i \notin before(i)
      OBVIOUS
    <3> HIDE DEF before
    <3> QED BY <1>2, <3>1, FS_AddElement
  <2>2. IsFiniteSet(T) /\ Cardinality(T) \in Nat
    BY Zenon, <1>1, FS_Subset, FS_CardinalityType
  <2>3. Cardinality(before(i) \cup {i}) <= Cardinality(T)
    BY <1>3, <2>2, FS_Subset
  <2> QED BY <1>2, <2>1, <2>2, <2>3
<1>4. \A i \in keep : rank[i] \in 0..(c - 1)
  <2> TAKE i \in keep
  <2>1. rank[i] < c
    BY <1>3
  <2> QED BY <1>1, <1>2, <2>1
<1>5. \A i, j \in keep : i < j => rank[i] < rank[j]
  <2> TAKE i \in keep, j \in keep
  <2> HAVE i < j
  <2>1. \A x \in keep : x < i => x < j
    OBVIOUS
  <2> QED BY Zenon, <1>3, <2>1
<1>6. rank \in Injection(keep, 0..(c - 1))
  <2>1. rank \in [keep -> 0..(c - 1)]
    BY <1>4
  <2>2. \A i, j \in keep : rank[i] = rank[j] => i = j
    <3> TAKE i \in keep, j \in keep
    <3> HAVE rank[i] = rank[j]
    <3>1. i \in Nat /\ j \in Nat /\ rank[i] \in Int /\ rank[j] \in Int
      BY <1>4
    <3>2. ~(i < j) /\ ~(j < i)
      BY <1>5, <3>1
    <3> QED BY <3>1, <3>2
  <2> QED BY Zenon, <2>1, <2>2 DEF Injection, IsInjective
<1>7. rank \in Surjection(keep, 0..(c - 1))
  <2>1. IsFiniteSet(0..(c - 1)) /\ Cardinality(0..(c - 1)) = c
    <3> HIDE DEF c
    <3>1. c \in Nat /\ c - 1 \in Int
      BY <1>1
    <3> QED BY <3>1, FS_Interval
  <2> QED BY <1>6, <2>1, FS_Injection
<1>8. ASSUME NEW k \in 1..c PROVE Nth(keep, k) \in keep /\ rank[Nth(keep, k)] = k - 1
  <2>1. k - 1 \in 0..(c - 1)
    BY <1>1
  <2>2. \E i \in keep : rank[i] = k - 1
    BY Zenon, <1>7, <2>1 DEF Surjection
  <2> QED BY <2>2 DEF Nth
<1>9. \A k, l \in 1..c : Nth(keep, k) = Nth(keep, l) => k = l
  <2> HIDE DEF c, rank
  <2> TAKE k \in 1..c, l \in 1..c
  <2> HAVE Nth(keep, k) = Nth(keep, l)
  <2>1. k - 1 = l - 1
    BY Zenon, <1>8
  <2> QED BY <1>1, <2>1
<1> QED BY Zenon, <1>1, <1>8, <1>9

-----------------------------------------------------------------------------
QueuedAnnounces == [dest : Destinations, hops : Hops, age : Nat]

(* What waits in a queue, and the fewest hops offered of it: at most one       *)
(* announce of a destination, which is the best one.                           *)
Waiting(entries, b) ==
  /\ entries \in Seq(QueuedAnnounces) /\ Len(entries) <= MAX_QUEUED_ANNOUNCES
  /\ b \in [Destinations -> 0..None]
  /\ \A k, l \in 1..Len(entries) : entries[k].dest = entries[l].dest => k = l
  /\ \A k \in 1..Len(entries) : entries[k].hops = b[entries[k].dest]
  /\ \A d \in Destinations : b[d] = None \/ \E k \in 1..Len(entries) : entries[k].dest = d

(* best, of what is left of a queue *)
Remaining(entries, b) == [x \in Destinations |-> IF At(entries, x) = {} THEN None ELSE b[x]]

LEMMA NoneNumber == None \in Nat /\ \A h \in Hops : h \in Nat /\ h < None
  BY AnnounceQueueAssumption DEF None

LEMMA EntryTypes ==
  ASSUME NEW s \in Seq(QueuedAnnounces), NEW j \in 1..Len(s)
  PROVE  s[j] \in QueuedAnnounces /\ s[j].dest \in Destinations
<1>1. s[j] \in QueuedAnnounces
  OBVIOUS
<1> QED BY <1>1 DEF QueuedAnnounces

LEMMA SelectedWaits ==
  ASSUME NEW entries, NEW b, Waiting(entries, b), NEW keep \in SUBSET DOMAIN entries
  PROVE  Waiting(Selected(entries, keep), Remaining(Selected(entries, keep), b))
<1> DEFINE t == Selected(entries, keep)
           c == Cardinality(keep)
<1>1. entries \in Seq(QueuedAnnounces) /\ DOMAIN entries = 1..Len(entries) /\ Len(entries) \in Nat
  BY DEF Waiting
<1>2. /\ c \in 0..Len(entries)
      /\ \A k \in 1..c : Nth(keep, k) \in 1..Len(entries)
      /\ \A k, l \in 1..c : Nth(keep, k) = Nth(keep, l) => k = l
  BY <1>1, Places
<1>3. t = [k \in 1..c |-> entries[Nth(keep, k)]]
  BY DEF Selected
<1> HIDE DEF t, c
<1>4. t \in Seq(QueuedAnnounces) /\ Len(t) = c
  BY <1>1, <1>2, <1>3
<1>5. \A k \in 1..Len(t) : t[k] = entries[Nth(keep, k)] /\ t[k] \in QueuedAnnounces
  BY <1>1, <1>2, <1>3, <1>4
<1> DEFINE r == Remaining(t, b)
<1>6. /\ r \in [Destinations -> 0..None]
      /\ \A d \in Destinations : r[d] = IF \E k \in 1..Len(t) : t[k].dest = d THEN b[d] ELSE None
  <2>1. b \in [Destinations -> 0..None]
    BY DEF Waiting
  <2> QED BY <2>1, NoneNumber DEF Remaining, At
<1> HIDE DEF r
<1>7. \A k, l \in 1..Len(t) : t[k].dest = t[l].dest => k = l
  BY <1>2, <1>4, <1>5 DEF Waiting
<1>8. \A k \in 1..Len(t) : t[k].hops = r[t[k].dest]
  <2> TAKE k \in 1..Len(t)
  <2>1. t[k].dest \in Destinations /\ r[t[k].dest] = b[t[k].dest]
    BY <1>5, <1>6 DEF QueuedAnnounces
  <2> QED BY <1>2, <1>4, <1>5, <2>1 DEF Waiting
<1>9. Len(t) <= MAX_QUEUED_ANNOUNCES
  BY <1>1, <1>2, <1>4, AnnounceQueueAssumption DEF Waiting
<1> QED BY <1>4, <1>6, <1>7, <1>8, <1>9 DEF Waiting, t, r

LEMMA SelectedAt ==
  ASSUME NEW entries \in Seq(QueuedAnnounces), NEW keep \in SUBSET DOMAIN entries, NEW x,
         At(Selected(entries, keep), x) # {}
  PROVE  At(entries, x) # {}
<1>1. /\ Cardinality(keep) \in Nat
      /\ \A k \in 1..Cardinality(keep) : Nth(keep, k) \in 1..Len(entries)
  BY Places
<1>2. Len(Selected(entries, keep)) = Cardinality(keep)
  BY <1>1 DEF Selected
<1>3. PICK k \in 1..Cardinality(keep) : Selected(entries, keep)[k].dest = x
  BY <1>2 DEF At
<1> QED BY <1>1, <1>3 DEF Selected, At

LEMMA RemainingTwice ==
  ASSUME NEW f, NEW t, NEW b, \A x : At(t, x) # {} => At(f, x) # {}
  PROVE  Remaining(t, Remaining(f, b)) = Remaining(t, b)
  BY Zenon DEF Remaining

LEMMA TailWaits ==
  ASSUME NEW entries, NEW b, Waiting(entries, b), entries # <<>>
  PROVE  /\ Waiting(Tail(entries), Remaining(Tail(entries), b))
         /\ Len(Tail(entries)) = Len(entries) - 1
         /\ \A x : At(entries, x) = {} => At(Tail(entries), x) = {}
<1> DEFINE t == Tail(entries)
           r == Remaining(t, b)
<1>1. /\ entries \in Seq(QueuedAnnounces) /\ Len(entries) \in Nat \ {0} /\ b \in [Destinations -> 0..None]
      /\ Len(entries) <= MAX_QUEUED_ANNOUNCES /\ MAX_QUEUED_ANNOUNCES \in Nat
  BY AnnounceQueueAssumption DEF Waiting
<1>2. /\ t \in Seq(QueuedAnnounces) /\ Len(t) = Len(entries) - 1 /\ Len(t) \in Nat
      /\ \A k \in 1..Len(t) : t[k] = entries[k + 1] /\ k + 1 \in 1..Len(entries) /\ t[k] \in QueuedAnnounces
  BY <1>1
<1> HIDE DEF t
<1>3. /\ r \in [Destinations -> 0..None]
      /\ \A d \in Destinations : r[d] = IF \E k \in 1..Len(t) : t[k].dest = d THEN b[d] ELSE None
  BY <1>1, NoneNumber DEF Remaining, At
<1> HIDE DEF r
<1>4. \A k, l \in 1..Len(t) : t[k].dest = t[l].dest => k = l
  BY <1>1, <1>2 DEF Waiting
<1>5. \A k \in 1..Len(t) : t[k].hops = r[t[k].dest]
  <2> TAKE k \in 1..Len(t)
  <2>1. t[k].dest \in Destinations /\ r[t[k].dest] = b[t[k].dest]
    BY <1>2, <1>3 DEF QueuedAnnounces
  <2> QED BY <1>2, <2>1 DEF Waiting
<1>6. Waiting(t, r)
  BY <1>1, <1>2, <1>3, <1>4, <1>5 DEF Waiting
<1>7. \A x : At(entries, x) = {} => At(t, x) = {}
  BY Zenon, <1>2 DEF At
<1> QED BY <1>2, <1>6, <1>7 DEF t, r

LEMMA ReplacedWaits ==
  ASSUME NEW entries, NEW b, Waiting(entries, b), NEW k \in 1..Len(entries), NEW e \in QueuedAnnounces,
         e.dest = entries[k].dest, NEW r \in [Destinations -> 0..None], r[e.dest] = e.hops,
         \A x \in Destinations \ {e.dest} : r[x] = b[x]
  PROVE  Waiting([entries EXCEPT ![k] = e], r)
<1> DEFINE t == [entries EXCEPT ![k] = e]
           n == Len(entries)
<1>1. entries \in Seq(QueuedAnnounces) /\ n \in Nat
  BY DEF Waiting
<1>2. /\ t \in Seq(QueuedAnnounces) /\ Len(t) = n /\ t[k] = e
      /\ \A j \in 1..n : j # k => t[j] = entries[j]
      /\ \A j \in 1..n : entries[j].dest \in Destinations
  <2>1. t \in Seq(QueuedAnnounces) /\ Len(t) = n
    BY <1>1
  <2>2. t[k] = e /\ \A j \in 1..n : j # k => t[j] = entries[j]
    BY <1>1
  <2>3. \A j \in 1..n : entries[j].dest \in Destinations
    BY <1>1, EntryTypes
  <2> QED BY <2>1, <2>2, <2>3
<1> HIDE DEF t
<1>3. \A j \in 1..n : t[j].dest = entries[j].dest
  BY <1>2
<1>4. \A j, l \in 1..n : t[j].dest = t[l].dest => j = l
  BY Zenon, <1>3 DEF Waiting
<1>5. \A j \in 1..n : t[j].hops = r[t[j].dest]
  <2>1. \A j \in 1..n : entries[j].hops = b[entries[j].dest]
    BY Zenon DEF Waiting
  <2> QED BY <1>2, <1>3, <1>4, <2>1
<1>6. \A d \in Destinations : r[d] = None \/ \E j \in 1..n : t[j].dest = d
  <2> TAKE d \in Destinations
  <2>1. CASE d = e.dest
    BY <1>2, <2>1
  <2>2. CASE d # e.dest
    <3>1. r[d] = b[d]
      BY <2>2
    <3>2. b[d] = None \/ \E j \in 1..n : entries[j].dest = d
      BY Zenon DEF Waiting
    <3> QED BY Zenon, <1>3, <3>1, <3>2
  <2> QED BY <2>1, <2>2
<1> QED BY <1>2, <1>4, <1>5, <1>6 DEF Waiting, t

LEMMA AppendedWaits ==
  ASSUME NEW s, NEW b, Waiting(s, b), Len(s) < MAX_QUEUED_ANNOUNCES, NEW e \in QueuedAnnounces,
         At(s, e.dest) = {}, NEW r \in [Destinations -> 0..None], r[e.dest] = e.hops,
         \A x \in Destinations \ {e.dest} : r[x] = b[x]
  PROVE  Waiting(Append(s, e), r)
<1> DEFINE t == Append(s, e)
           n == Len(s)
<1>1. s \in Seq(QueuedAnnounces) /\ n \in Nat /\ MAX_QUEUED_ANNOUNCES \in Nat
  BY AnnounceQueueAssumption DEF Waiting
<1>2. /\ t \in Seq(QueuedAnnounces) /\ Len(t) = n + 1 /\ t[n + 1] = e
      /\ \A j \in 1..n : t[j] = s[j]
      /\ \A j \in 1..n : s[j].dest \in Destinations /\ s[j].dest # e.dest
  <2>1. \A j \in 1..n : s[j].dest \in Destinations
    BY <1>1, EntryTypes
  <2>2. \A j \in 1..n : s[j].dest # e.dest
    BY DEF At
  <2>3. t \in Seq(QueuedAnnounces) /\ Len(t) = n + 1 /\ t[n + 1] = e /\ \A j \in 1..n : t[j] = s[j]
    BY <1>1
  <2> QED BY <2>1, <2>2, <2>3
<1> HIDE DEF t
<1>3. \A j \in 1..(n + 1) : j \in 1..n \/ j = n + 1
  BY <1>1
<1>0. /\ \A j, l \in 1..n : s[j].dest = s[l].dest => j = l
      /\ \A j \in 1..n : s[j].hops = b[s[j].dest]
      /\ \A d \in Destinations : b[d] = None \/ \E j \in 1..n : s[j].dest = d
  BY Zenon DEF Waiting
<1>4. \A j, l \in 1..(n + 1) : t[j].dest = t[l].dest => j = l
  <2>1. t[n + 1].dest = e.dest /\ \A j \in 1..n : t[j].dest = s[j].dest /\ t[j].dest # e.dest
    BY <1>2
  <2> QED BY Zenon, <1>0, <1>3, <2>1
<1>5. \A j \in 1..(n + 1) : t[j].hops = r[t[j].dest]
  <2>1. \A j \in 1..n : t[j].hops = r[t[j].dest]
    BY <1>0, <1>2
  <2>2. t[n + 1].hops = r[t[n + 1].dest]
    BY <1>2
  <2> QED BY Zenon, <1>3, <2>1, <2>2
<1>6. \A d \in Destinations : r[d] = None \/ \E j \in 1..(n + 1) : t[j].dest = d
  <2> TAKE d \in Destinations
  <2>1. CASE d = e.dest
    BY <1>1, <1>2, <2>1
  <2>2. CASE d # e.dest
    <3>1. r[d] = b[d]
      BY <2>2
    <3>2. ASSUME NEW j \in 1..n, s[j].dest = d
          PROVE  \E l \in 1..(n + 1) : t[l].dest = d
      BY <1>1, <1>2, <3>2
    <3> QED BY Zenon, <1>0, <3>1, <3>2
  <2> QED BY <2>1, <2>2
<1> QED BY <1>1, <1>2, <1>4, <1>5, <1>6 DEF Waiting, t

(* InterfaceAnnounceQueue::insert *)
LEMMA InsertedWaits ==
  ASSUME NEW entries, NEW b, Waiting(entries, b), NEW d \in Destinations, NEW h \in Hops
  PROVE  LET t == Inserted(entries, [dest |-> d, hops |-> h, age |-> 0])
         IN  Waiting(t, [x \in Destinations |->
               IF At(t, x) = {} THEN None ELSE IF x = d /\ h < b[x] THEN h ELSE b[x]])
<1> DEFINE e == [dest |-> d, hops |-> h, age |-> 0]
           t == Inserted(entries, e)
           r == [x \in Destinations |-> IF At(t, x) = {} THEN None ELSE IF x = d /\ h < b[x] THEN h ELSE b[x]]
<1> SUFFICES Waiting(t, r)
  OBVIOUS
<1>1. /\ e \in QueuedAnnounces /\ e.dest = d /\ e.hops = h
      /\ h \in Nat /\ h < None /\ None \in Nat
      /\ b \in [Destinations -> 0..None]
  BY NoneNumber DEF Waiting, QueuedAnnounces
<1>2. /\ r \in [Destinations -> 0..None]
      /\ \A x \in Destinations :
           r[x] = IF At(t, x) = {} THEN None ELSE IF x = d /\ h < b[x] THEN h ELSE b[x]
  BY <1>1
<1> HIDE DEF r
<1>3. /\ MAX_QUEUED_ANNOUNCES \in Nat /\ 0 < MAX_QUEUED_ANNOUNCES
      /\ entries \in Seq(QueuedAnnounces) /\ Len(entries) \in Nat /\ Len(entries) <= MAX_QUEUED_ANNOUNCES
  BY AnnounceQueueAssumption DEF Waiting
<1>4. CASE At(entries, d) # {}
  <2>1. PICK k \in 1..Len(entries) : entries[k].dest = d
    BY <1>4 DEF At
  <2>2. At(entries, d) = {k}
    BY <2>1 DEF At, Waiting
  <2> HIDE DEF e
  <2>3. (CHOOSE j \in At(entries, e.dest) : \A l \in At(entries, e.dest) : j <= l) = k /\ At(entries, e.dest) # {}
    BY <1>1, <2>2
  <2>4. entries[k].hops = b[d] /\ b[d] \in Nat
    BY <1>1, <2>1 DEF Waiting
  <2> DEFINE new == h < entries[k].hops \/ (h = entries[k].hops /\ entries[k].age > 0)
  <2>5. t = IF new THEN [entries EXCEPT ![k] = e] ELSE entries
    BY Zenon, <1>1, <2>3 DEF Inserted
  <2>6. \A x \in Destinations : At(t, x) = At(entries, x)
    <3>1. Len(t) = Len(entries) /\ \A j \in 1..Len(entries) : t[j].dest = entries[j].dest
      BY <1>1, <1>3, <2>1, <2>5
    <3> QED BY <3>1 DEF At
  <2> HIDE DEF t
  <2>7. \A x \in Destinations : r[x] = IF x = d /\ h < b[x] THEN h ELSE b[x]
    <3> TAKE x \in Destinations
    <3>1. CASE At(entries, x) = {}
      <4>1. b[x] = None /\ x # d
        BY <1>4, <3>1 DEF Waiting, At
      <4> QED BY <1>2, <2>6, <3>1, <4>1
    <3>2. CASE At(entries, x) # {}
      BY <1>2, <2>6, <3>2
    <3> QED BY <3>1, <3>2
  <2>8. CASE new
    <3>1. r[d] = h
      BY <1>1, <2>4, <2>7, <2>8
    <3> QED BY Zenon, <1>1, <1>2, <2>1, <2>5, <2>7, <2>8, <3>1, ReplacedWaits
  <2>9. CASE ~new
    <3>1. ~(h < b[d])
      BY <2>4, <2>9
    <3>2. \A x \in Destinations : r[x] = b[x]
      BY <2>7, <3>1
    <3>3. r = b
      BY <1>1, <1>2, <3>2
    <3> QED BY <2>5, <2>9, <3>3
  <2> QED BY <2>8, <2>9
<1>5. CASE At(entries, d) = {}
  <2> DEFINE full == Len(entries) >= MAX_QUEUED_ANNOUNCES
             s == IF full THEN Tail(entries) ELSE entries
             c == IF full THEN Remaining(s, b) ELSE b
  <2>1. t = Append(s, e)
    BY <1>1, <1>5 DEF Inserted
  <2>2. Waiting(s, c) /\ Len(s) < MAX_QUEUED_ANNOUNCES /\ At(s, d) = {}
    <3>1. CASE full
      <4>1. entries # <<>>
        BY <1>3, <3>1
      <4>2. s = Tail(entries) /\ c = Remaining(Tail(entries), b)
        BY <3>1
      <4>3. Waiting(s, c) /\ Len(s) = Len(entries) - 1 /\ At(s, d) = {}
        BY Zenon, <1>5, <4>1, <4>2, TailWaits
      <4> HIDE DEF s, c
      <4> QED BY <1>3, <4>3
    <3>2. CASE ~full
      BY <1>3, <1>5, <3>2
    <3> QED BY <3>1, <3>2
  <2>3. \A x \in Destinations : c[x] = IF At(s, x) = {} THEN None ELSE b[x]
    BY Zenon DEF Waiting, At, Remaining
  <2>4. c \in [Destinations -> 0..None] /\ s \in Seq(QueuedAnnounces)
    BY <2>2 DEF Waiting
  <2> HIDE DEF s, c, t, e
  <2>5. /\ \A x \in Destinations \ {d} : At(t, x) = {} <=> At(s, x) = {}
        /\ At(t, d) # {}
    <3>1. /\ Len(s) \in Nat /\ Len(t) = Len(s) + 1 /\ t[Len(s) + 1] = e
          /\ \A j \in 1..Len(s) : t[j] = s[j]
      BY <1>1, <2>1, <2>4
    <3>2. \A j \in 1..Len(t) : j \in 1..Len(s) \/ j = Len(s) + 1
      BY <3>1
    <3>3. 1..Len(s) \subseteq 1..Len(t) /\ Len(s) + 1 \in 1..Len(t)
      BY <3>1
    <3> QED BY <1>1, <3>1, <3>2, <3>3 DEF At
  <2>6. r[d] = h /\ \A x \in Destinations \ {d} : r[x] = c[x]
    <3>1. b[d] = None
      BY <1>5 DEF Waiting, At
    <3> QED BY <1>1, <1>2, <2>3, <2>5, <3>1
  <2> QED BY Zenon, <1>1, <1>2, <2>1, <2>2, <2>6, AppendedWaits
<1> QED BY <1>4, <1>5

-----------------------------------------------------------------------------
QueueRecord(q) == q = [entries |-> q.entries, wait |-> q.wait]

QueuesInv ==
  /\ DOMAIN queues \subseteq Interfaces /\ Cardinality(DOMAIN queues) <= MaxInterfaces
  /\ \A i \in DOMAIN queues : QueueRecord(queues[i])
  /\ best = [i \in Interfaces |-> best[i]]
  /\ \A i \in Interfaces : Waiting(Queue(i).entries, best[i])

LEMMA NothingWaits == Waiting(<<>>, [x \in Destinations |-> None])
  BY NoneNumber, AnnounceQueueAssumption DEF Waiting

(* The queue of one interface changes. *)
LEMMA PutQueues ==
  ASSUME QueuesInv, NEW i \in Interfaces, ~Full(i), NEW q, QueueRecord(q), NEW b, Waiting(q.entries, b),
         queues' = Put(i, q), best' = [best EXCEPT ![i] = b]
  PROVE  QueuesInv'
<1>1. DOMAIN queues' = DOMAIN queues \cup {i}
  BY DEF Put
<1>2. DOMAIN queues' \subseteq Interfaces /\ Cardinality(DOMAIN queues') <= MaxInterfaces
  <2>1. IsFiniteSet(DOMAIN queues) /\ Cardinality(DOMAIN queues) \in Nat /\ MaxInterfaces \in Nat
    BY AnnounceQueueAssumption, FS_Subset, FS_CardinalityType DEF QueuesInv
  <2>2. Cardinality(DOMAIN queues') = IF i \in DOMAIN queues THEN Cardinality(DOMAIN queues)
                                      ELSE Cardinality(DOMAIN queues) + 1
    BY <1>1, <2>1, FS_AddElement
  <2> QED BY <1>1, <2>1, <2>2 DEF QueuesInv, Full
<1>3. queues'[i] = q /\ \A j \in DOMAIN queues : j # i => queues'[j] = queues[j]
  BY <1>1 DEF Put
<1>4. best'[i] = b /\ \A j \in Interfaces : j # i => best'[j] = best[j]
  BY DEF QueuesInv
<1>5. best' = [j \in Interfaces |-> best'[j]]
  BY DEF QueuesInv
<1>6. \A j \in DOMAIN queues' : QueueRecord(queues'[j])
  BY <1>1, <1>3 DEF QueuesInv
<1>7. \A j \in Interfaces : Waiting(Queue(j).entries, best[j])'
  <2> TAKE j \in Interfaces
  <2>1. CASE j = i
    BY <1>1, <1>3, <1>4, <2>1 DEF Queue
  <2>2. CASE j # i
    <3>1. Queue(j)' = Queue(j)
      BY <1>1, <1>3, <2>2 DEF Queue
    <3> QED BY <1>4, <2>2, <3>1 DEF QueuesInv
  <2> QED BY <2>1, <2>2
<1> QED BY <1>2, <1>5, <1>6, <1>7 DEF QueuesInv

LEMMA QueueIsRecord ==
  ASSUME QueuesInv, NEW i \in Interfaces
  PROVE  QueueRecord(Queue(i))
  BY DEF QueuesInv, Queue, QueueRecord, NewQueue

(* An announce or a path request is sent. *)
LEMMA AllowedQueues ==
  ASSUME QueuesInv, NEW i \in Interfaces, ~Full(i), NEW c, queues' = Put(i, Allowed(Queue(i), c)), UNCHANGED best
  PROVE  QueuesInv'
<1>1. QueueRecord(Allowed(Queue(i), c)) /\ Allowed(Queue(i), c).entries = Queue(i).entries
  BY QueueIsRecord DEF Allowed, QueueRecord
<1>2. best' = [best EXCEPT ![i] = best[i]]
  BY DEF QueuesInv
<1>3. Waiting(Queue(i).entries, best[i])
  BY DEF QueuesInv
<1> QED BY Zenon, <1>1, <1>2, <1>3, PutQueues

LEMMA GateQueues ==
  ASSUME QueuesInv, NEW i \in Interfaces, NEW d \in Destinations, NEW h \in Hops, NEW c,
         GateAnnounce(i, d, h, c)
  PROVE  QueuesInv'
<1> DEFINE e == [dest |-> d, hops |-> h, age |-> 0]
           q == [Queue(i) EXCEPT !.entries = Inserted(@, e)]
           r == [x \in Destinations |-> IF At(q.entries, x) = {} THEN None
                                        ELSE IF x = d /\ h < best[i][x] THEN h ELSE best[i][x]]
<1>1. CASE UNCHANGED <<queues, best>>
  BY <1>1 DEF QueuesInv, Queue
<1>2. CASE ~Full(i) /\ queues' = Put(i, Allowed(Queue(i), c)) /\ UNCHANGED best
  BY <1>2, AllowedQueues
<1>3. CASE ~Full(i) /\ queues' = Put(i, q) /\ Best(i, q.entries, d, h)
  <2>1. QueueRecord(q) /\ q.entries = Inserted(Queue(i).entries, e)
    BY QueueIsRecord DEF QueueRecord
  <2>2. Waiting(Queue(i).entries, best[i])
    BY DEF QueuesInv
  <2>3. Waiting(q.entries, r)
    BY <2>1, <2>2, InsertedWaits
  <2>4. best' = [best EXCEPT ![i] = r]
    BY <1>3 DEF Best
  <2> HIDE DEF q, r
  <2> QED BY Zenon, <1>3, <2>1, <2>3, <2>4, PutQueues
<1> QED BY Zenon, <1>1, <1>2, <1>3 DEF GateAnnounce

LEMMA ReserveQueues ==
  ASSUME QueuesInv, NEW i \in Interfaces, NEW c, ReservePathRequest(i, c)
  PROVE  QueuesInv'
<1>1. CASE UNCHANGED <<queues, best>>
  BY <1>1 DEF QueuesInv, Queue
<1>2. CASE ~Full(i) /\ queues' = Put(i, Allowed(Queue(i), c)) /\ UNCHANGED best
  BY <1>2, AllowedQueues
<1> QED BY <1>1, <1>2 DEF ReservePathRequest

LEMMA FewerQueues ==
  ASSUME QueuesInv, DOMAIN queues' \subseteq DOMAIN queues
  PROVE  DOMAIN queues' \subseteq Interfaces /\ Cardinality(DOMAIN queues') <= MaxInterfaces
<1>1. /\ IsFiniteSet(DOMAIN queues) /\ Cardinality(DOMAIN queues) \in Nat /\ MaxInterfaces \in Nat
      /\ Cardinality(DOMAIN queues) <= MaxInterfaces
  BY AnnounceQueueAssumption, FS_Subset, FS_CardinalityType DEF QueuesInv
<1>2. Cardinality(DOMAIN queues') <= Cardinality(DOMAIN queues) /\ Cardinality(DOMAIN queues') \in Nat
  BY <1>1, FS_Subset, FS_CardinalityType
<1> QED BY <1>1, <1>2 DEF QueuesInv

LEMMA ProcessedWaits ==
  ASSUME NEW q, NEW b, NEW c, QueueRecord(q), Waiting(q.entries, b)
  PROVE  /\ QueueRecord(Processed(q, c))
         /\ Waiting(Processed(q, c).entries, Remaining(Processed(q, c).entries, b))
<1> DEFINE f == Fresh(q.entries)
           o == Others(f, Next1(f))
           p == Processed(q, c)
<1>1. Waiting(f, Remaining(f, b))
  BY SelectedWaits DEF Fresh
<1>2. Waiting(o, Remaining(o, Remaining(f, b)))
  BY <1>1, SelectedWaits DEF Others
<1>3. Remaining(o, Remaining(f, b)) = Remaining(o, b)
  <2>1. f \in Seq(QueuedAnnounces)
    BY <1>1 DEF Waiting
  <2> HIDE DEF f
  <2>2. \A x : At(o, x) # {} => At(f, x) # {}
    BY <2>1, SelectedAt DEF Others
  <2> HIDE DEF o
  <2> QED BY <2>2, RemainingTwice
<1>4. p = IF Sends(q) THEN Allowed([q EXCEPT !.entries = o], c) ELSE [q EXCEPT !.entries = f]
  BY DEF Processed
<1> HIDE DEF f, o, p
<1>5. QueueRecord(p) /\ p.entries = IF Sends(q) THEN o ELSE f
  BY Zenon, <1>4 DEF Allowed, QueueRecord
<1>6. Waiting(p.entries, Remaining(p.entries, b))
  BY <1>1, <1>2, <1>3, <1>5
<1> QED BY <1>5, <1>6 DEF p

(* Some queues are left, as they were or processed. *)
LEMMA TickQueues ==
  ASSUME QueuesInv, NEW c, Tick(c)
  PROVE  QueuesInv'
<1> DEFINE after(i) == IF i \in DOMAIN queues THEN Processed(queues[i], c[i]).entries ELSE <<>>
<1>1. /\ queues' = [i \in Kept(c) |-> Processed(queues[i], c[i])]
      /\ best' = [i \in Interfaces |-> Remaining(after(i), best[i])]
  BY DEF Tick, Remaining
<1> HIDE DEF after
<1>2. DOMAIN queues' \subseteq DOMAIN queues
  BY <1>1 DEF Kept
<1>3. DOMAIN queues' \subseteq Interfaces /\ Cardinality(DOMAIN queues') <= MaxInterfaces
  BY <1>2, FewerQueues
<1>4. ASSUME NEW i \in DOMAIN queues
      PROVE  /\ QueueRecord(Processed(queues[i], c[i]))
             /\ Waiting(after(i), Remaining(after(i), best[i]))
  <2>1. i \in Interfaces /\ QueueRecord(queues[i]) /\ Waiting(queues[i].entries, best[i])
    BY DEF QueuesInv, Queue
  <2> QED BY <2>1, ProcessedWaits DEF after
<1>5. ASSUME NEW i \in Interfaces \ DOMAIN queues
      PROVE  Waiting(after(i), Remaining(after(i), best[i]))
  <2>1. Remaining(<<>>, best[i]) = [x \in Destinations |-> None]
    BY DEF Remaining, At
  <2> QED BY <2>1, NothingWaits DEF after
<1>6. \A i \in Interfaces : Waiting(Queue(i).entries, best[i])'
  <2> TAKE i \in Interfaces
  <2>1. Queue(i)'.entries = after(i)
    BY <1>1 DEF Queue, NewQueue, Kept, after
  <2>2. best'[i] = Remaining(after(i), best[i])
    BY <1>1
  <2>3. Waiting(after(i), Remaining(after(i), best[i]))
    BY <1>4, <1>5
  <2> QED BY <2>1, <2>2, <2>3
<1>7. \A i \in DOMAIN queues' : QueueRecord(queues'[i])
  BY <1>1, <1>2, <1>4
<1>8. best' = [i \in Interfaces |-> best'[i]]
  BY <1>1
<1> QED BY <1>3, <1>6, <1>7, <1>8 DEF QueuesInv

LEMMA ForgetQueues ==
  ASSUME QueuesInv, NEW gone, Forget(gone)
  PROVE  QueuesInv'
<1>1. /\ queues' = [j \in DOMAIN queues \ gone |-> queues[j]]
      /\ best' = [j \in Interfaces |-> IF j \in gone THEN [x \in Destinations |-> None] ELSE best[j]]
  BY DEF Forget
<1>2. DOMAIN queues' \subseteq DOMAIN queues
  BY <1>1
<1>3. DOMAIN queues' \subseteq Interfaces /\ Cardinality(DOMAIN queues') <= MaxInterfaces
  BY <1>2, FewerQueues
<1>4. \A i \in Interfaces : Waiting(Queue(i).entries, best[i])'
  <2> TAKE i \in Interfaces
  <2>1. CASE i \in gone
    <3>1. Queue(i)'.entries = <<>> /\ best'[i] = [x \in Destinations |-> None]
      BY <1>1, <2>1 DEF Queue, NewQueue
    <3> QED BY <3>1, NothingWaits
  <2>2. CASE i \notin gone
    <3>1. Queue(i)' = Queue(i) /\ best'[i] = best[i]
      BY <1>1, <2>2 DEF Queue
    <3> QED BY <3>1 DEF QueuesInv
  <2> QED BY <2>1, <2>2
<1> QED BY <1>1, <1>3, <1>4 DEF QueuesInv

LEMMA AgedWaits ==
  ASSUME NEW entries, NEW b, Waiting(entries, b), NEW t,
         t = [k \in DOMAIN entries |-> [entries[k] EXCEPT !.age = IF @ < QUEUED_ANNOUNCE_LIFE THEN @ + 1 ELSE @]]
  PROVE  Waiting(t, b)
<1>1. entries \in Seq(QueuedAnnounces) /\ Len(entries) \in Nat /\ DOMAIN entries = 1..Len(entries)
  BY DEF Waiting
<1>2. \A k \in 1..Len(entries) : t[k] \in QueuedAnnounces /\ t[k].dest = entries[k].dest /\ t[k].hops = entries[k].hops
  <2> TAKE k \in 1..Len(entries)
  <2>1. entries[k] \in QueuedAnnounces
    BY <1>1, EntryTypes
  <2> DEFINE e == entries[k]
             a == IF e.age < QUEUED_ANNOUNCE_LIFE THEN e.age + 1 ELSE e.age
  <2>2. t[k] = [e EXCEPT !.age = a]
    BY <1>1
  <2>3. e \in QueuedAnnounces /\ a \in Nat
    BY <2>1 DEF QueuedAnnounces
  <2> HIDE DEF a
  <2> QED BY <2>2, <2>3 DEF QueuedAnnounces
<1>3. t \in Seq(QueuedAnnounces) /\ Len(t) = Len(entries)
  BY <1>1, <1>2
<1> QED BY <1>2, <1>3 DEF Waiting

LEMMA TimeQueues ==
  ASSUME QueuesInv, TimePasses
  PROVE  QueuesInv'
<1>1. DOMAIN queues' = DOMAIN queues /\ best' = best
  BY DEF TimePasses
<1>2. ASSUME NEW i \in DOMAIN queues
      PROVE  QueueRecord(queues'[i]) /\ Waiting(queues'[i].entries, best[i])
  <2>1. i \in Interfaces /\ Waiting(queues[i].entries, best[i])
    BY DEF QueuesInv, Queue
  <2>2. /\ QueueRecord(queues'[i])
        /\ queues'[i].entries = [k \in DOMAIN queues[i].entries |->
             [queues[i].entries[k] EXCEPT !.age = IF @ < QUEUED_ANNOUNCE_LIFE THEN @ + 1 ELSE @]]
    BY Zenon DEF TimePasses, QueueRecord
  <2> QED BY <2>1, <2>2, AgedWaits
<1>3. \A i \in Interfaces : Waiting(Queue(i).entries, best[i])'
  BY <1>1, <1>2 DEF QueuesInv, Queue
<1> QED BY <1>1, <1>2, <1>3 DEF QueuesInv

LEMMA QueuesHold == Spec => []QueuesInv
<1>1. Init => QueuesInv
  <2> SUFFICES ASSUME Init PROVE QueuesInv
    OBVIOUS
  <2>1. DOMAIN queues = {} /\ best = [i \in Interfaces |-> [d \in Destinations |-> None]]
    BY DEF Init
  <2>2. Cardinality(DOMAIN queues) <= MaxInterfaces
    BY <2>1, FS_EmptySet, AnnounceQueueAssumption
  <2>3. \A i \in Interfaces : Queue(i).entries = <<>>
    BY <2>1 DEF Queue, NewQueue
  <2> QED BY <2>1, <2>2, <2>3, NothingWaits DEF QueuesInv
<1>2. ASSUME QueuesInv, [Next]_vars PROVE QueuesInv'
  <2>1. CASE UNCHANGED vars
    BY <1>2, <2>1 DEF QueuesInv, Queue, vars, ghosts
  <2> QED BY Zenon, <1>2, <2>1, GateQueues, ReserveQueues, TickQueues, ForgetQueues, TimeQueues
          DEF Next, RemoveInterface, DropAnnounceQueues
<1> QED BY <1>1, <1>2, PTL DEF Spec

(* Whatever announces and path requests are offered, and however expiry,      *)
(* ticks, and the loss of interfaces come in between: the queues keep their   *)
(* limits, and no destination waits twice in one.                             *)
THEOREM QueuesStayBounded == Spec => []Bounded
<1>1. ASSUME QueuesInv PROVE Bounded
  <2>1. ASSUME NEW i \in DOMAIN queues, NEW d \in Destinations
        PROVE  Cardinality(At(queues[i].entries, d)) <= 1
    <3>1. \A k, l \in At(queues[i].entries, d) : k = l
      BY <1>1 DEF QueuesInv, Queue, Waiting, At
    <3>2. At(queues[i].entries, d) = {} \/ \E k : At(queues[i].entries, d) = {k}
      BY <3>1
    <3>3. Cardinality(At(queues[i].entries, d)) \in {0, 1}
      BY Zenon, <3>2, FS_EmptySet, FS_Singleton
    <3> QED BY <3>3
  <2>2. \A i \in DOMAIN queues : Len(queues[i].entries) <= MAX_QUEUED_ANNOUNCES
    BY <1>1 DEF QueuesInv, Queue, Waiting
  <2> QED BY <1>1, <2>1, <2>2 DEF QueuesInv, Bounded
<1> QED BY <1>1, QueuesHold, PTL

(* The announce that waits for a destination is the one with the fewest hops  *)
(* offered since one began to wait, for every capacity and life of a queue.   *)
THEOREM FewestHopsStay == Spec => []FewestHopsWait
<1>1. ASSUME QueuesInv PROVE FewestHopsWait
  BY <1>1 DEF QueuesInv, Queue, Waiting, At, FewestHopsWait
<1> QED BY <1>1, QueuesHold, PTL

-----------------------------------------------------------------------------
(* RateLimit.  While no announce got through since the block was set, exactly *)
(* one violation too many is counted; the first announce after the block is   *)
(* no violation, and takes it back.                                           *)
RateInv ==
  /\ clock \in Nat /\ last \in Nat /\ rate_violations \in Nat /\ blocked_until \in Nat
  /\ known /\ let_in => rate_violations <= RATE_GRACE
  /\ known /\ ~let_in => rate_violations = RATE_GRACE + 1 /\ blocked_until = BlockedUntil

(* A destination is blocked for one span at a time, for every rate, grace and *)
(* penalty: announces during a block do not prolong it, and the first one     *)
(* after it gets through.                                                     *)
THEOREM BlocksEnd == RlSpec => OneBlockAtATime
<1>1. RlInit => RateInv
  BY DEF RlInit, RateInv
<1>2. ASSUME RateInv, [RlNext]_rlvars PROVE RateInv'
  <2>1. CASE CheckAndUpdate
    BY <1>2, <2>1, RateAssumption DEF CheckAndUpdate, RateInv, Violations, BlockedUntil
  <2>2. CASE CullStale \/ Advance \/ UNCHANGED rlvars
    BY <1>2, <2>2 DEF CullStale, Advance, rlvars, RateInv, BlockedUntil
  <2> QED BY <1>2, <2>1, <2>2 DEF RlNext
<1>3. ASSUME RateInv, [RlNext]_rlvars
      PROVE  [known' /\ blocked_until' # blocked_until => ~known \/ let_in]_rlvars
  <2> SUFFICES ASSUME RlNext, known', blocked_until' # blocked_until, known, ~let_in PROVE FALSE
    BY <1>3
  <2>1. CheckAndUpdate
    BY DEF RlNext, CullStale, Advance
  <2>2. clock > blocked_until /\ Violations > RATE_GRACE
    BY <2>1 DEF CheckAndUpdate
  <2>3. clock - last >= RATE_TARGET
    BY <1>3, <2>2, RateAssumption DEF RateInv, BlockedUntil
  <2> QED BY <1>3, <2>2, <2>3, RateAssumption DEF RateInv, Violations
<1> QED BY <1>1, <1>2, <1>3, PTL DEF RlSpec, OneBlockAtATime

-----------------------------------------------------------------------------
(* IngressControl.  What is left of the wait for a release makes up for what  *)
(* is missing of the penalty since the last burst, and of the interval since  *)
(* the last release.                                                          *)
IngressInv ==
  /\ release_left \in Nat /\ quiet \in [{"burst", "release"} -> Nat]
  /\ IsFiniteSet(DOMAIN held)
  /\ quiet.burst + release_left >= BURST_PENALTY
  /\ quiet.release + release_left >= HELD_RELEASE_INTERVAL

LEMMA ArriveIngress ==
  ASSUME IngressInv, NEW d, NEW hops, ArriveAnnounce(d, hops)
  PROVE  IngressInv' /\ Cardinality(DOMAIN held) <= Cardinality(DOMAIN held')
<1>1. \/ release_left' = release_left /\ quiet' = quiet
      \/ release_left' = BURST_PENALTY /\ quiet' = [quiet EXCEPT !.burst = 0]
  BY DEF ArriveAnnounce
<1>2. /\ release_left' \in Nat /\ quiet' \in [{"burst", "release"} -> Nat]
      /\ quiet'.burst + release_left' >= BURST_PENALTY
      /\ quiet'.release + release_left' >= HELD_RELEASE_INTERVAL
  BY <1>1, IngressAssumption DEF IngressInv
<1>3. DOMAIN held' = DOMAIN held \/ DOMAIN held' = DOMAIN held \cup {d}
  BY DEF ArriveAnnounce
<1>4. IsFiniteSet(DOMAIN held') /\ Cardinality(DOMAIN held) <= Cardinality(DOMAIN held')
  <2>1. IsFiniteSet(DOMAIN held) /\ IsFiniteSet(DOMAIN held \cup {d})
    BY FS_AddElement DEF IngressInv
  <2> QED BY <1>3, <2>1, FS_Subset
<1> QED BY <1>2, <1>4 DEF IngressInv

LEMMA ReleaseIngress ==
  ASSUME IngressInv, Release
  PROVE  /\ IngressInv'
         /\ quiet.burst >= BURST_PENALTY /\ quiet.release >= HELD_RELEASE_INTERVAL
<1>1. quiet.burst >= BURST_PENALTY /\ quiet.release >= HELD_RELEASE_INTERVAL
  BY IngressAssumption DEF IngressInv, Release, ReleaseGuard
<1>2. release_left' = HELD_RELEASE_INTERVAL /\ quiet' = [quiet EXCEPT !.release = 0]
  BY DEF Release
<1>3. PICK d : held' = Restrict(held, DOMAIN held \ {d})
  BY DEF Release
<1>4. IsFiniteSet(DOMAIN held')
  BY <1>3, FS_Subset DEF Restrict, IngressInv
<1> QED BY <1>1, <1>2, <1>4, IngressAssumption DEF IngressInv

LEMMA PassTimeIngress ==
  ASSUME IngressInv, PassTime
  PROVE  IngressInv'
<1>1. /\ release_left' = (IF release_left = 0 THEN 0 ELSE release_left - 1) /\ held' = held
      /\ quiet' = [q \in DOMAIN quiet |-> IF quiet[q] < Longest THEN quiet[q] + 1 ELSE Longest]
  BY DEF PassTime, Less
<1>2. /\ quiet' \in [{"burst", "release"} -> Nat]
      /\ \A q \in {"burst", "release"} :
           quiet'[q] = IF quiet[q] < BURST_PENALTY THEN quiet[q] + 1 ELSE BURST_PENALTY
  BY <1>1, IngressAssumption DEF IngressInv, Longest
<1>3. /\ quiet'.burst + release_left' >= BURST_PENALTY
      /\ quiet'.release + release_left' >= HELD_RELEASE_INTERVAL
  BY <1>1, <1>2, IngressAssumption DEF IngressInv
<1> QED BY <1>1, <1>2, <1>3 DEF IngressInv

(* For every penalty and release interval, a release waits for the whole      *)
(* penalty of the last burst and for the interval since the last release,     *)
(* however bursts begin and end in between.                                   *)
THEOREM ReleasesAreSpaced == IcSpec => ReleasesSpaced
<1>1. IcInit => IngressInv
  <2>1. IsFiniteSet({})
    BY FS_EmptySet
  <2> QED BY <2>1, IngressAssumption DEF IcInit, IngressInv, Longest
<1>2. ASSUME IngressInv, [IcNext]_icvars
      PROVE  /\ IngressInv'
             /\ [Cardinality(DOMAIN held') < Cardinality(DOMAIN held) =>
                   quiet.burst >= BURST_PENALTY /\ quiet.release >= HELD_RELEASE_INTERVAL]_icvars
  <2>1. IsFiniteSet(DOMAIN held) /\ Cardinality(DOMAIN held) \in Nat
    BY <1>2, FS_CardinalityType DEF IngressInv
  <2>2. ASSUME NEW d, NEW hops, ArriveAnnounce(d, hops)
        PROVE  IngressInv' /\ ~(Cardinality(DOMAIN held') < Cardinality(DOMAIN held))
    <3>1. IngressInv' /\ Cardinality(DOMAIN held) <= Cardinality(DOMAIN held')
      BY <1>2, <2>2, ArriveIngress
    <3>2. Cardinality(DOMAIN held') \in Nat
      BY <3>1, FS_CardinalityType DEF IngressInv
    <3> QED BY <2>1, <3>1, <3>2
  <2>3. CASE Release
    BY <1>2, <2>3, ReleaseIngress
  <2>4. CASE PassTime
    <3>1. IngressInv' /\ held' = held
      BY <1>2, <2>4, PassTimeIngress DEF PassTime
    <3> QED BY <2>1, <3>1
  <2>5. CASE UNCHANGED <<release_left, quiet, held>>
    BY <1>2, <2>1, <2>5 DEF IngressInv
  <2>6. CASE \/ ArrivePathRequest \/ UNCHANGED icvars \/ \E d \in Senders : ArriveAwaited(d)
             \/ \E ia \in Levels, pr \in Levels : Swing(ia, pr)
    BY <2>5, <2>6 DEF ArrivePathRequest, icvars, ArriveAwaited, Swing
  <2> QED BY <1>2, <2>2, <2>3, <2>4, <2>6 DEF IcNext
<1> QED BY <1>1, <1>2, PTL DEF IcSpec, ReleasesSpaced
===============================================================================
