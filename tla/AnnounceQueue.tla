---------------------------- MODULE AnnounceQueue ----------------------------
(***************************************************************************)
(* AnnounceQueues: the per-interface queues that hold back propagated       *)
(* announces so that they use no more than a share of each interface's      *)
(* bandwidth.  The interfaces are those with a timing model and a positive  *)
(* announce cap; on the others nothing is held back.                        *)
(*                                                                          *)
(* Time is discrete.  `wait` is announce_allowed_at - now, 0 when an        *)
(* announce is allowed, and `age` of an entry is now - time, up to the life *)
(* of a queued announce.  What one transmission costs (its air time divided *)
(* by the cap) is a member of Costs.  Both callers of gate_announce pass    *)
(* the current time as the time of emission, so that `age` stands for       *)
(* `emitted` as well.                                                       *)
(***************************************************************************)
EXTENDS Selection, Sequences

CONSTANTS
  Interfaces, Destinations, Hops, Costs,
  MAX_QUEUED_ANNOUNCES, QUEUED_ANNOUNCE_LIFE, MaxInterfaces,
  MaxOffers         \* bound: announces and path requests offered

ASSUME AnnounceQueueAssumption ==
  /\ IsFiniteSet(Interfaces) /\ Hops \subseteq 0..255 /\ Costs \subseteq Nat \ {0}
  /\ {MAX_QUEUED_ANNOUNCES, QUEUED_ANNOUNCE_LIFE, MaxInterfaces} \subseteq Nat \ {0}
  /\ MaxOffers \in Nat

VARIABLES
  queues,           \* interface -> entries and wait, for the tracked interfaces
  offers,           \* number of announces and path requests so far
  busy,             \* ghost: for how long the last transmission on each
                    \* interface uses up the announce bandwidth
  too_early,        \* ghost: the interfaces on which the last step sent an
                    \* announce before the bandwidth was free again
  best              \* ghost: fewest hops offered to a queue for a destination
                    \* while an announce of it waits there

ghosts == <<busy, too_early, best>>
vars == <<queues, offers, ghosts>>

NewQueue == [entries |-> <<>>, wait |-> 0]
Queue(i) == IF i \in DOMAIN queues THEN queues[i] ELSE NewQueue
Put(i, q) == [j \in DOMAIN queues \cup {i} |-> IF j = i THEN q ELSE queues[j]]
Full(i) == i \notin DOMAIN queues /\ Cardinality(DOMAIN queues) >= MaxInterfaces

(* Entries by destination. *)
At(entries, d) == {k \in 1..Len(entries) : entries[k].dest = d}
None == 256              \* no hop count, which is a byte

-----------------------------------------------------------------------------
(* Mutant of Inserted: entries are not looked up by destination. *)
InsertedBlindly(entries, e) ==
  Append(IF Len(entries) >= MAX_QUEUED_ANNOUNCES THEN Tail(entries) ELSE entries, e)

(* Mutant of Inserted: the latest announce of a destination waits. *)
InsertedLatest(entries, e) ==
  IF At(entries, e.dest) # {}
    THEN [k \in DOMAIN entries |-> IF k \in At(entries, e.dest) THEN e ELSE entries[k]]
    ELSE Append(IF Len(entries) >= MAX_QUEUED_ANNOUNCES THEN Tail(entries) ELSE entries, e)

(* InterfaceAnnounceQueue::insert: an announce of a destination that waits    *)
(* already takes the waiting one's place if it has fewer hops, or as many and *)
(* is newer; the front of a full queue makes room for a new destination.      *)
Inserted(entries, e) ==
  IF At(entries, e.dest) # {}
    THEN LET k == CHOOSE j \in At(entries, e.dest) : \A l \in At(entries, e.dest) : j <= l
         IN  IF \/ e.hops < entries[k].hops
                \/ e.hops = entries[k].hops /\ entries[k].age > 0
               THEN [entries EXCEPT ![k] = e] ELSE entries
    ELSE Append(IF Len(entries) >= MAX_QUEUED_ANNOUNCES THEN Tail(entries) ELSE entries, e)

(* A transmission on i that costs c, of an announce or of a path request. *)
Transmit(i, c, announce) ==
  /\ busy' = [busy EXCEPT ![i] = c]
  /\ too_early' = IF announce /\ busy[i] > 0 THEN {i} ELSE {}

(* best, when the entries of i change and h hops were offered for d. *)
Best(i, entries, d, h) ==
  best' = [best EXCEPT ![i] = [x \in Destinations |->
    IF At(entries, x) = {} THEN None ELSE IF x = d /\ h < best[i][x] THEN h ELSE best[i][x]]]

(* Mutant of Allowed: the bandwidth used is not accounted for. *)
AllowedFree(q, c) == q

(* announce_allowed_at after a transmission *)
Allowed(q, c) == [q EXCEPT !.wait = c]

(* gate_announce: sent at once if the bandwidth allows, queued otherwise, and *)
(* dropped if the interface would be one more than are tracked.               *)
GateAnnounce(i, d, h, c) ==
  LET e == [dest |-> d, hops |-> h, age |-> 0]
      q == [Queue(i) EXCEPT !.entries = Inserted(@, e)]
  IN  /\ offers < MaxOffers /\ offers' = offers + 1
      /\ \/ Full(i) /\ too_early' = {} /\ UNCHANGED <<queues, busy, best>>
         \/ /\ ~Full(i) /\ Queue(i).wait = 0
            /\ queues' = Put(i, Allowed(Queue(i), c))
            /\ Transmit(i, c, TRUE) /\ UNCHANGED best
         \/ /\ ~Full(i) /\ Queue(i).wait > 0
            /\ queues' = Put(i, q)
            /\ Best(i, q.entries, d, h) /\ too_early' = {} /\ UNCHANGED busy

(* handle_recursive_path_request: skipped on an interface whose queue blocks   *)
(* it, otherwise sent.  Its air time is reserved, but if the interface would   *)
(* be one more than are tracked it is sent and nothing is reserved.            *)
ReservePathRequest(i, c) ==
  /\ offers < MaxOffers /\ offers' = offers + 1
  /\ Queue(i).entries = <<>> /\ Queue(i).wait = 0
  /\ queues' = IF Full(i) THEN queues ELSE Put(i, Allowed(Queue(i), c))
  /\ Transmit(i, c, FALSE) /\ UNCHANGED best

-----------------------------------------------------------------------------
(* remove_stale *)
Fresh(entries) == Selected(entries, {k \in DOMAIN entries : entries[k].age < QUEUED_ANNOUNCE_LIFE})

(* select_next: fewest hops, then longest waiting, then first. *)
Next1(entries) ==
  CHOOSE k \in 1..Len(entries) : \A j \in 1..Len(entries) :
    \/ entries[k].hops < entries[j].hops
    \/ entries[k].hops = entries[j].hops /\ entries[k].age > entries[j].age
    \/ entries[k].hops = entries[j].hops /\ entries[k].age = entries[j].age /\ k <= j

Others(entries, k) == Selected(entries, DOMAIN entries \ {k})

Sends(q) == q.wait = 0 /\ Fresh(q.entries) # <<>>

(* One queue in process_queues; since every transmission costs something, the *)
(* loop sends at most one announce.                                           *)
Processed(q, c) ==
  LET entries == Fresh(q.entries)
  IN  IF Sends(q) THEN Allowed([q EXCEPT !.entries = Others(entries, Next1(entries))], c)
                  ELSE [q EXCEPT !.entries = entries]

(* The interfaces whose queue is not empty after process_queues. *)
Kept(c) == {i \in DOMAIN queues : Processed(queues[i], c[i]).entries # <<>>}

(* process_queues, from the engine's tick: a queue that is empty is removed,  *)
(* and announce_allowed_at with it.                                           *)
Tick(c) ==
  LET sent == {i \in DOMAIN queues : Sends(queues[i])}
      after(i) == IF i \in DOMAIN queues THEN Processed(queues[i], c[i]).entries ELSE <<>>
  IN  /\ queues' = [i \in Kept(c) |-> Processed(queues[i], c[i])]
      /\ busy' = [i \in Interfaces |-> IF i \in sent THEN c[i] ELSE busy[i]]
      /\ too_early' = {i \in sent : busy[i] > 0}
      /\ best' = [i \in Interfaces |-> [x \in Destinations |->
           IF At(after(i), x) = {} THEN None ELSE best[i][x]]]
      /\ UNCHANGED offers

(* The queues of the interfaces in gone are lost. *)
Forget(gone) ==
  /\ queues' = [j \in DOMAIN queues \ gone |-> queues[j]]
  /\ too_early' = {}
  /\ best' = [j \in Interfaces |->
       IF j \in gone THEN [x \in Destinations |-> None] ELSE best[j]]
  /\ UNCHANGED offers

(* remove_interface, from deregister_interface; the interface may come back,  *)
(* with nothing sent on it yet.                                               *)
RemoveInterface(i) == i \in DOMAIN queues /\ Forget({i}) /\ busy' = [busy EXCEPT ![i] = 0]

(* drop_announce_queues, at an operator's request; the bandwidth is as used   *)
(* as before.                                                                 *)
DropAnnounceQueues == queues # <<>> /\ Forget(Interfaces) /\ UNCHANGED busy

TimePasses ==
  /\ \/ \E i \in DOMAIN queues : queues[i].wait > 0 \/ queues[i].entries # <<>>
     \/ \E i \in Interfaces : busy[i] > 0
  /\ queues' = [i \in DOMAIN queues |->
       [entries |-> [k \in DOMAIN queues[i].entries |->
          [queues[i].entries[k] EXCEPT !.age = IF @ < QUEUED_ANNOUNCE_LIFE THEN @ + 1 ELSE @]],
        wait |-> IF queues[i].wait > 0 THEN queues[i].wait - 1 ELSE 0]]
  /\ busy' = [i \in Interfaces |-> IF busy[i] > 0 THEN busy[i] - 1 ELSE 0]
  /\ too_early' = {}
  /\ UNCHANGED <<offers, best>>

Init ==
  /\ queues = [i \in {} |-> NewQueue] /\ offers = 0
  /\ busy = [i \in Interfaces |-> 0] /\ too_early = {}
  /\ best = [i \in Interfaces |-> [d \in Destinations |-> None]]

Next ==
  \/ \E i \in Interfaces, c \in Costs :
       \/ \E d \in Destinations, h \in Hops : GateAnnounce(i, d, h, c)
       \/ ReservePathRequest(i, c)
  \/ \E c \in [Interfaces -> Costs] : Tick(c)
  \/ \E i \in Interfaces : RemoveInterface(i)
  \/ DropAnnounceQueues
  \/ TimePasses

Spec == Init /\ [][Next]_vars

(* The driver ticks and time passes: WF_vars(\E c : Tick(c)), of the ticks    *)
(* that change a queue, and WF_vars(TimePasses), with the conditions they are *)
(* enabled under written out.                                                 *)
TickDue == \E c \in [Interfaces -> Costs] : [i \in Kept(c) |-> Processed(queues[i], c[i])] # queues
TickStep == queues' # queues /\ \E c \in [Interfaces -> Costs] : Tick(c)
TimeDue ==
  \/ \E i \in DOMAIN queues : \/ queues[i].wait > 0
                               \/ \E k \in DOMAIN queues[i].entries : queues[i].entries[k].age < QUEUED_ANNOUNCE_LIFE
  \/ \E i \in Interfaces : busy[i] > 0
Fairness ==
  /\ []<>(~TickDue) \/ []<><<TickStep>>_vars
  /\ []<>(~TimeDue) \/ []<><<TimePasses>>_vars

-----------------------------------------------------------------------------
(* The queues are bounded, in number and each, and a destination never waits  *)
(* twice in one of them, whatever order announces, expiry and transmissions   *)
(* come in.                                                                   *)
Bounded ==
  /\ Cardinality(DOMAIN queues) <= MaxInterfaces
  /\ \A i \in DOMAIN queues :
       /\ Len(queues[i].entries) <= MAX_QUEUED_ANNOUNCES
       /\ \A d \in Destinations : Cardinality(At(queues[i].entries, d)) <= 1

(* The announce that waits for a destination is the one with the fewest hops  *)
(* of all that were offered since it began to wait: propagation takes the     *)
(* shortest path even when it is congested.                                   *)
FewestHopsWait ==
  \A i \in DOMAIN queues, d \in Destinations :
    \A k \in At(queues[i].entries, d) : queues[i].entries[k].hops = best[i][d]

(* An announce is sent before the bandwidth used by the last transmission is  *)
(* free again only on an interface without a queue: as long as a queue is     *)
(* kept, announces, path requests and ticks in any order keep to the cap.     *)
EarlyOnlyUnqueued == [][\A i \in too_early' : i \notin DOMAIN queues]_vars

(* Announces keep to the cap: none is sent while the bandwidth it allows is   *)
(* used up by the transmission before.  (process_queues removes an empty      *)
(* queue, and with it the time at which the next announce is allowed.)        *)
CapKept == too_early = {}

(* When nothing more is offered every queue is drained and removed. *)
Drained == \A i \in Interfaces : (i \in DOMAIN queues) ~> (i \notin DOMAIN queues)
=============================================================================
