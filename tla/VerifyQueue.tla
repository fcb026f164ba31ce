---------------------------- MODULE VerifyQueue -----------------------------
(***************************************************************************)
(* The verification of announces off the driver thread: the driver puts an  *)
(* announce in the AnnounceVerifyQueue, which it shares with the thread     *)
(* rns-verify; the thread takes all that are pending as a batch, checks     *)
(* their signatures one by one without the lock and sends the driver an     *)
(* event for each; the driver takes the announce out of the queue when it   *)
(* handles the event.  Announces whose signature was seen before bypass the *)
(* queue through the AnnounceSignatureCache.                                *)
(*                                                                          *)
(* The key of an announce is its content (destination and random blob) and  *)
(* the neighbour it came from.  The same content from two neighbours has    *)
(* the same signature.                                                      *)
(***************************************************************************)
EXTENDS Integers, FiniteSetsExt, SequencesExt, Functions

CONSTANTS
  Keys,                    \* pairs of a content and a neighbour
  Genuine,                 \* contents whose signature is valid
  Bytes,                   \* content -> pending_bytes
  HopCounts,
  Policies,                \* overflow policies the queue may be made with
  MaxEntries, MaxBytes,
  MaxSignatures,           \* max_entries of the AnnounceSignatureCache
  MaxArrivals              \* bound: announces that arrive

ASSUME VerifyQueueAssumption ==
  /\ \A k \in Keys : Bytes[k[1]] \in Nat \ {0}
  /\ Policies \subseteq {"DropNewest", "DropOldest", "DropWorst"}
  /\ MaxEntries \in Nat \ {0} /\ MaxBytes \in Nat \ {0} /\ MaxSignatures \in Nat

VARIABLES
  overflow_policy,
  pending,                 \* key -> entry
  queued_bytes,
  batch,                   \* what rns-verify has taken and not yet checked
  events,                  \* AnnounceVerified and AnnounceVerifyFailed on their way
  signatures,              \* entries of the AnnounceSignatureCache -> time
  insertion_order,
  arrivals,
  offered,                 \* ghost: key -> hop counts offered since it is in the queue
  count                    \* ghost: key -> how often it was taken in, processed, refused
                           \* and dropped

vqvars == <<overflow_policy, pending, queued_bytes, batch, events, signatures, insertion_order,
            arrivals, offered, count>>

Drop(f, ks) == Restrict(f, DOMAIN f \ ks)

Counted(c, what, ks) == [k \in Keys |-> IF k \in ks THEN [c[k] EXCEPT ![what] = @ + 1] ELSE c[k]]

-----------------------------------------------------------------------------
(* select_eviction_candidate of the default policy: the one with most hops,   *)
(* the newest of those, if the incoming one has fewer.  max_by takes the last *)
(* and min_by the first key of equal ones; times are distinct here.           *)
Candidates(q, hops) ==
  CASE overflow_policy = "DropNewest" -> {}
    [] overflow_policy = "DropOldest" -> {k \in DOMAIN q : \A j \in DOMAIN q : q[k].queued_at <= q[j].queued_at}
    [] OTHER -> {k \in DOMAIN q : /\ hops < q[k].best_hops
                                  /\ \A j \in DOMAIN q : \/ q[j].best_hops < q[k].best_hops
                                                         \/ /\ q[j].best_hops = q[k].best_hops
                                                            /\ q[j].queued_at <= q[k].queued_at}

Weight(q) == SumFunction([k \in DOMAIN q |-> Bytes[k[1]]])

Overflows(q, k) == Cardinality(DOMAIN q) >= MaxEntries \/ Weight(q) + Bytes[k[1]] > MaxBytes

(* The loop that makes room; it may have evicted some when it gives up. *)
RECURSIVE MakeRoom(_, _, _)
MakeRoom(q, k, hops) ==
  IF ~Overflows(q, k) \/ Candidates(q, hops) = {} THEN q
  ELSE MakeRoom(Drop(q, {CHOOSE c \in Candidates(q, hops) : TRUE}), k, hops)

(* Mutant of Enqueued: an entry in flight is left as it is. *)
EnqueuedPendingOnly(q, k, hops) ==
  LET entry == [state |-> "Pending", best_hops |-> hops, queued_at |-> arrivals]
      room == MakeRoom(q, k, hops)
  IN  IF k \in DOMAIN q
      THEN IF hops < q[k].best_hops /\ q[k].state = "Pending" THEN [q EXCEPT ![k] = entry] ELSE q
      ELSE IF Bytes[k[1]] > MaxBytes THEN q
      ELSE IF Overflows(room, k) THEN room
      ELSE [j \in DOMAIN room \union {k} |-> IF j = k THEN entry ELSE room[j]]

(* enqueue: a key already there takes the better hop count, in flight or not. *)
Enqueued(q, k, hops) ==
  LET entry == [state |-> "Pending", best_hops |-> hops, queued_at |-> arrivals]
      room == MakeRoom(q, k, hops)
  IN  IF k \in DOMAIN q
      THEN IF hops < q[k].best_hops THEN [q EXCEPT ![k] = [entry EXCEPT !.state = q[k].state]] ELSE q
      ELSE IF Bytes[k[1]] > MaxBytes THEN q
      ELSE IF Overflows(room, k) THEN room
      ELSE [j \in DOMAIN room \union {k} |-> IF j = k THEN entry ELSE room[j]]

(* queued_bytes as enqueue keeps it up; copies of an announce weigh the same. *)
BytesAfter(q, k, hops) ==
  IF k \in DOMAIN q THEN queued_bytes
  ELSE queued_bytes - Weight(Drop(q, DOMAIN Enqueued(q, k, hops)))
         + IF k \in DOMAIN Enqueued(q, k, hops) THEN Bytes[k[1]] ELSE 0

(* try_enqueue_announce, for an announce that is not a path response *)
HandleInboundAnnounce(k, hops) ==
  /\ arrivals < MaxArrivals /\ arrivals' = arrivals + 1
  /\ IF k[1] \in DOMAIN signatures
     THEN UNCHANGED <<pending, queued_bytes, offered, count>>
     ELSE LET q == Enqueued(pending, k, hops)
          IN  /\ pending' = q
              /\ queued_bytes' = BytesAfter(pending, k, hops)
              /\ offered' = [j \in DOMAIN q |->
                               (IF j \in DOMAIN pending THEN offered[j] ELSE {}) \union IF j = k THEN {hops} ELSE {}]
              /\ count' = Counted(Counted(count, "taken", DOMAIN q \ DOMAIN pending), "dropped", DOMAIN pending \ DOMAIN q)
  /\ UNCHANGED <<overflow_policy, batch, events, signatures, insertion_order>>

-----------------------------------------------------------------------------
(* The thread.  take_pending drops what has been queued for too long, even    *)
(* what is in flight.                                                         *)
TakePending(stale) ==
  LET kept == Restrict(pending, {k \in DOMAIN pending : pending[k].queued_at >= stale})
  IN  /\ batch = <<>>
      /\ pending' = [k \in DOMAIN kept |-> [kept[k] EXCEPT !.state = "InFlight"]]
      /\ queued_bytes' = queued_bytes - Weight(Drop(pending, DOMAIN kept))
      /\ offered' = Restrict(offered, DOMAIN kept)
      /\ batch' = SetToSeq({k \in DOMAIN kept : kept[k].state = "Pending"})
      /\ count' = Counted(count, "dropped", DOMAIN pending \ DOMAIN kept)
      /\ UNCHANGED <<overflow_policy, events, signatures, insertion_order, arrivals>>

(* Mutant of VerifyNext: no event for an announce that is not genuine. *)
VerifyNextSilent ==
  /\ batch # <<>>
  /\ batch' = Tail(batch)
  /\ events' = IF Head(batch)[1] \in Genuine THEN Append(events, [key |-> Head(batch), valid |-> TRUE]) ELSE events
  /\ UNCHANGED <<overflow_policy, pending, queued_bytes, signatures, insertion_order, arrivals, offered, count>>

VerifyNext ==
  /\ batch # <<>>
  /\ batch' = Tail(batch)
  /\ events' = Append(events, [key |-> Head(batch), valid |-> Head(batch)[1] \in Genuine])
  /\ UNCHANGED <<overflow_policy, pending, queued_bytes, signatures, insertion_order, arrivals, offered, count>>

-----------------------------------------------------------------------------
(* AnnounceSignatureCache::insert *)
EvictedSignature == IF Len(insertion_order) >= MaxSignatures THEN {Head(insertion_order)} ELSE {}

InsertSignature(c) ==
  IF MaxSignatures = 0 \/ c \in DOMAIN signatures THEN UNCHANGED <<signatures, insertion_order>>
  ELSE /\ insertion_order' = Append(IF EvictedSignature # {} THEN Tail(insertion_order) ELSE insertion_order, c)
       /\ signatures' = [s \in (DOMAIN signatures \ EvictedSignature) \union {c} |->
                           IF s = c THEN arrivals ELSE signatures[s]]

(* AnnounceSignatureCache::cull, called from the tick *)
CullSignatures(cutoff) ==
  /\ \E s \in DOMAIN signatures : signatures[s] < cutoff
  /\ signatures' = Restrict(signatures, {s \in DOMAIN signatures : signatures[s] >= cutoff})
  /\ insertion_order' = SelectSeq(insertion_order, LAMBDA s : s \in DOMAIN signatures')
  /\ UNCHANGED <<overflow_policy, pending, queued_bytes, batch, events, arrivals, offered, count>>

(* Mutant of HandleVerified: whatever the event says is processed, whether   *)
(* or not the queue still has it.                                             *)
HandleVerifiedAlways ==
  /\ events # <<>>
  /\ LET e == Head(events)
     IN  /\ pending' = Drop(pending, {e.key})
         /\ offered' = Drop(offered, {e.key})
         /\ queued_bytes' = queued_bytes - IF e.key \in DOMAIN pending THEN Bytes[e.key[1]] ELSE 0
         /\ IF e.valid
            THEN InsertSignature(e.key[1]) ELSE UNCHANGED <<signatures, insertion_order>>
         /\ count' = Counted(count, IF e.valid THEN "processed" ELSE "refused", {e.key})
  /\ events' = Tail(events)
  /\ UNCHANGED <<overflow_policy, batch, arrivals>>

(* handle_announce_verified_event, with complete_success and                  *)
(* complete_verified_announce, or complete_failure                            *)
HandleVerified ==
  /\ events # <<>>
  /\ LET e == Head(events)
     IN  /\ pending' = Drop(pending, {e.key})
         /\ offered' = Drop(offered, {e.key})
         /\ queued_bytes' = queued_bytes - IF e.key \in DOMAIN pending THEN Bytes[e.key[1]] ELSE 0
         /\ IF e.valid /\ e.key \in DOMAIN pending
            THEN InsertSignature(e.key[1]) ELSE UNCHANGED <<signatures, insertion_order>>
         /\ count' = Counted(count, IF e.valid THEN "processed" ELSE "refused", {e.key} \intersect DOMAIN pending)
  /\ events' = Tail(events)
  /\ UNCHANGED <<overflow_policy, batch, arrivals>>

VqInit ==
  /\ overflow_policy \in Policies
  /\ pending = <<>> /\ queued_bytes = 0 /\ batch = <<>> /\ events = <<>>
  /\ signatures = <<>> /\ insertion_order = <<>> /\ arrivals = 0 /\ offered = <<>>
  /\ count = [k \in Keys |-> [taken |-> 0, processed |-> 0, refused |-> 0, dropped |-> 0]]

VqNext ==
  \/ \E k \in Keys, hops \in HopCounts : HandleInboundAnnounce(k, hops)
  \/ \E stale \in 0..arrivals : TakePending(stale)
  \/ VerifyNext
  \/ HandleVerified
  \/ \E cutoff \in 1..arrivals : CullSignatures(cutoff)

VqSpec == VqInit /\ [][VqNext]_vqvars

(* Both threads run: rns-verify looks at the queue every 50 ms, and the       *)
(* driver empties its event channel.                                          *)
ThreadDue == \/ \E k \in DOMAIN pending : pending[k].state = "Pending"
             \/ batch # <<>> \/ events # <<>>
ThreadStep == (\E stale \in 0..arrivals : TakePending(stale)) \/ VerifyNext \/ HandleVerified
VqFairness == []<>(~ThreadDue) \/ []<><<ThreadStep>>_vqvars

-----------------------------------------------------------------------------
(* The queue stays within max_entries and max_bytes, and queued_bytes is what *)
(* is in it: through replacement, eviction, staleness and late completions.   *)
QueueWithinLimits ==
  /\ Cardinality(DOMAIN pending) <= MaxEntries
  /\ queued_bytes = Weight(pending)
  /\ queued_bytes <= MaxBytes

(* Each time the queue takes an announce in, it is processed, refused or      *)
(* dropped once: an entry dropped as stale while in flight may be queued and  *)
(* taken again, and two events for its key be on their way, yet it is not     *)
(* processed twice, nor after it was dropped.                                 *)
AccountedFor ==
  \A k \in Keys : count[k].taken = count[k].processed + count[k].refused + count[k].dropped
                                     + IF k \in DOMAIN pending THEN 1 ELSE 0

(* An announce heard several times is processed with its fewest hops, also    *)
(* those heard while its signature was being checked.                         *)
FewestHopsKept == \A k \in DOMAIN pending : pending[k].best_hops = Min(offered[k])

(* The cache knows the signatures it has an order for, once each, of genuine  *)
(* announces only.                                                            *)
SignaturesOrdered ==
  /\ IsInjective(insertion_order) /\ Range(insertion_order) = DOMAIN signatures
  /\ Len(insertion_order) <= MaxSignatures
  /\ DOMAIN signatures \subseteq Genuine

(* Nothing waits for ever: each entry is verified, refused or dropped. *)
QueueEmpties == <>[](pending = <<>>)
=============================================================================
