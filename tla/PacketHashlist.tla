--------------------------- MODULE PacketHashlist ---------------------------
(***************************************************************************)
(* PacketHashlist, the de-duplication table of a transport node: a ring of  *)
(* hashes in the order they came (PacketHashQueue), and a hash set with     *)
(* open addressing and linear probing (PacketHashSet) for the lookups.      *)
(* Removing from the set puts the hashes that follow the freed bucket in    *)
(* again, so that no probe stops short of them.                             *)
(*                                                                          *)
(* The bucket a hash belongs in is a function home that Init leaves open.   *)
(***************************************************************************)
EXTENDS Integers, FiniteSets, SequencesExt

CONSTANTS
  Hashes, MaxSize,
  Homes                   \* bound: the buckets that hashes may belong in

ASSUME PacketHashlistAssumption ==
  MaxSize \in Nat /\ IsFiniteSet(Hashes) /\ Homes \subseteq Nat

VARIABLES
  entries, head, len,     \* PacketHashQueue
  buckets, set_len,       \* PacketHashSet
  home                    \* bucket_index

hashlistvars == <<entries, head, len, buckets, set_len, home>>

NoHash == "none"
Slots == 0..MaxSize - 1

(* bucket_capacity: twice the entries, rounded up to a power of two *)
Capacity ==
  IF MaxSize = 0 THEN 0
  ELSE CHOOSE c \in {2^k : k \in 0..MaxSize + 1} :
         c >= 2 * MaxSize /\ \A k \in 0..MaxSize + 1 : 2^k >= 2 * MaxSize => c <= 2^k
Buckets == 0..Capacity - 1

-----------------------------------------------------------------------------
(* PacketHashSet.  A probe of h looks at the buckets from its home on. *)

Bucket(h, k) == (home[h] + k) % Capacity

(* Where a probe of h ends: at h or at the first empty bucket.  Capacity if   *)
(* there is neither, where the loops of the code would not end.               *)
ProbeEnd(table, h) ==
  LET ends == {k \in Buckets : table[Bucket(h, k)] \in {h, NoHash}}
  IN  IF ends = {} THEN Capacity ELSE CHOOSE k \in ends : \A j \in ends : k <= j

Found(table, h) ==
  /\ Capacity # 0
  /\ table[Bucket(h, ProbeEnd(table, h))] = h

(* insert, of a hash that is not in the table *)
PutIn(table, h) == [table EXCEPT ![Bucket(h, ProbeEnd(table, h))] = h]

(* Mutant of Removed: the hashes that follow are left where they are. *)
RemovedOnly(table, h) == [table EXCEPT ![Bucket(h, ProbeEnd(table, h))] = NoHash]

(* remove: the bucket is emptied, and each hash of the run of full buckets    *)
(* after it is taken out and put in again.                                    *)
Removed(table, h) ==
  LET idx     == Bucket(h, ProbeEnd(table, h))
      nth(k)  == (idx + k) % Capacity
      length  == CHOOSE n \in 0..Capacity - 1 :
                   /\ \A k \in 1..n : table[nth(k)] # NoHash
                   /\ table[nth(n + 1)] = NoHash \/ n = Capacity - 1
      Again(t, k) == PutIn([t EXCEPT ![nth(k)] = NoHash], table[nth(k)])
  IN  FoldLeft(Again, [table EXCEPT ![idx] = NoHash], [k \in 1..length |-> k])

-----------------------------------------------------------------------------
(* PacketHashQueue *)

Tail_(hd, n) == (hd + n) % MaxSize
PushBack(ring, hd, n, h) == [ring EXCEPT ![Tail_(hd, n)] = h]

(* pop_front: where the head is after it *)
PoppedHead == IF len = 1 THEN 0 ELSE (head + 1) % MaxSize

(* The queue as a sequence, the oldest hash first. *)
Contents == [k \in 1..len |-> entries[Tail_(head, k - 1)]]

-----------------------------------------------------------------------------
(* Mutant of Add: a hash that is known is put at the back again. *)
AddRefreshes(h) ==
  /\ MaxSize # 0
  /\ IF len = MaxSize
       THEN /\ entries' = PushBack(entries, PoppedHead, len - 1, h)
            /\ head' = PoppedHead /\ UNCHANGED <<len, set_len>>
            /\ buckets' = PutIn(Removed(buckets, entries[head]), h)
       ELSE /\ entries' = PushBack(entries, head, len, h)
            /\ len' = len + 1 /\ set_len' = set_len + 1 /\ UNCHANGED head
            /\ buckets' = PutIn(buckets, h)
  /\ UNCHANGED home

(* add: nothing for a hash that is known, and the oldest makes room for a new *)
(* one when the queue is full.                                                *)
Add(h) ==
  /\ MaxSize # 0 /\ ~Found(buckets, h)
  /\ IF len = MaxSize
       THEN /\ entries' = PushBack(entries, PoppedHead, len - 1, h)
            /\ head' = PoppedHead /\ UNCHANGED <<len, set_len>>
            /\ buckets' = PutIn(Removed(buckets, entries[head]), h)
       ELSE /\ entries' = PushBack(entries, head, len, h)
            /\ len' = len + 1 /\ set_len' = set_len + 1 /\ UNCHANGED head
            /\ buckets' = PutIn(buckets, h)
  /\ UNCHANGED home

HashlistInit ==
  /\ entries = [k \in Slots |-> NoHash] /\ head = 0 /\ len = 0
  /\ buckets = [b \in Buckets |-> NoHash] /\ set_len = 0
  /\ home \in [Hashes -> Homes \cap Buckets]

HashlistNext == \E h \in Hashes : Add(h)

HashlistSpec == HashlistInit /\ [][HashlistNext]_hashlistvars

-----------------------------------------------------------------------------
(* The table is the window it promises to be: what is_duplicate is asked      *)
(* about is the last MaxSize different hashes, in the order they first came.  *)
Window == INSTANCE DedupWindow WITH retained <- Contents
ImplementsWindow == Window!Spec

(* Queue and set agree, whatever was removed and put in again: a lookup       *)
(* finds the hashes of the queue and no other (a hash that is forgotten too   *)
(* early lets a duplicate through; one that is never forgotten drops packets),*)
(* and the counters are the numbers of hashes (the debug_asserts of add and   *)
(* len).                                                                      *)
LookupsAgree ==
  /\ \A h \in Hashes : Found(buckets, h) <=> h \in Range(Contents)
  /\ Cardinality({b \in Buckets : buckets[b] # NoHash}) = set_len
  /\ set_len = len

(* Every probe meets an empty bucket: contains, insert and remove end. *)
ProbesEnd ==
  \A h \in Hashes : Capacity # 0 =>
    \E k \in Buckets : buckets[Bucket(h, k)] = NoHash
=============================================================================
