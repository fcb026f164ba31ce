----------------------------- MODULE ChannelRing -----------------------------
(***************************************************************************)
(* The receive ring of a channel as the deque the code keeps: emplace_rx    *)
(* inserts by modular distance from the next expected sequence number, and  *)
(* collect_contiguous pops the front while it is the expected one.  Module  *)
(* Channel sees the ring as a set; this module shows that the deque behaves *)
(* as that set does, across the wrap-around of the sequence numbers.        *)
(***************************************************************************)
EXTENDS Integers, Sequences, FiniteSets

CONSTANTS CHANNEL_SEQ_MODULUS, CHANNEL_WINDOW_MAX_FAST

ASSUME RingAssumption ==
  /\ CHANNEL_SEQ_MODULUS \in Nat /\ CHANNEL_WINDOW_MAX_FAST \in Nat
  /\ CHANNEL_SEQ_MODULUS > CHANNEL_WINDOW_MAX_FAST

VARIABLES rx_ring, next_rx_sequence
ringvars == <<rx_ring, next_rx_sequence>>

Seqs == 0..(CHANNEL_SEQ_MODULUS - 1)
Members(ring) == {ring[i] : i \in 1..Len(ring)}

(* sequence.wrapping_sub(next_rx_sequence) *)
Distance(s, next) == (s - next) % CHANNEL_SEQ_MODULUS

IsBehindRxWindow(s) ==
  LET overflow == (next_rx_sequence + CHANNEL_WINDOW_MAX_FAST) % CHANNEL_SEQ_MODULUS
  IN  /\ s < next_rx_sequence
      /\ overflow < next_rx_sequence => s > overflow

(* emplace_rx: in front of the first envelope that is farther away. *)
Emplaced(ring, s) ==
  LET farther == {i \in 1..Len(ring) :
                    Distance(s, next_rx_sequence) < Distance(ring[i], next_rx_sequence)}
      before  == IF farther = {} THEN Len(ring)
                 ELSE (CHOOSE i \in farther : \A j \in farther : i <= j) - 1
  IN  SubSeq(ring, 1, before) \o <<s>> \o SubSeq(ring, before + 1, Len(ring))

(* A mutant of Run: the loop stops when the counter wraps to zero. *)
RunStopsAtWrap(ring) ==
  {n \in 0..Len(ring) :
     /\ \A i \in 1..n : /\ ring[i] = (next_rx_sequence + i - 1) % CHANNEL_SEQ_MODULUS
                        /\ i > 1 => ring[i] # 0
     /\ n < Len(ring) => \/ ring[n + 1] # (next_rx_sequence + n) % CHANNEL_SEQ_MODULUS
                         \/ n > 0 /\ ring[n + 1] = 0}

(* How many envelopes collect_contiguous pops: the front matches so many      *)
(* times in a row, as next_rx_sequence advances with every pop.               *)
Run(ring) ==
  {n \in 0..Len(ring) :
     /\ \A i \in 1..n : ring[i] = (next_rx_sequence + i - 1) % CHANNEL_SEQ_MODULUS
     /\ n < Len(ring) => ring[n + 1] # (next_rx_sequence + n) % CHANNEL_SEQ_MODULUS}

(* receive *)
Receive(s) ==
  IF IsBehindRxWindow(s) \/ s \in Members(rx_ring)
    THEN UNCHANGED <<rx_ring, next_rx_sequence>>
    ELSE LET ring == Emplaced(rx_ring, s)
         IN  \E n \in Run(ring) :
               /\ rx_ring' = SubSeq(ring, n + 1, Len(ring))
               /\ next_rx_sequence' = (next_rx_sequence + n) % CHANNEL_SEQ_MODULUS

RInit == rx_ring = <<>> /\ next_rx_sequence = 0
RNext == \E s \in Seqs : Receive(s)
RSpec == RInit /\ [][RNext]_ringvars

-----------------------------------------------------------------------------
(* The deque does what module Channel says of the set of its members: an      *)
(* accepted envelope joins it, and exactly the unbroken run that starts at    *)
(* the expected sequence number leaves it, across the wrap to zero.           *)
RingAsSet ==
  [][ringvars' # ringvars => \E s \in Seqs, n \in 0..CHANNEL_SEQ_MODULUS :
       LET ahead(i) == (next_rx_sequence + i) % CHANNEL_SEQ_MODULUS
           set == Members(rx_ring) \cup {s}
           run == {ahead(i) : i \in 0..(n - 1)}
       IN  /\ run \subseteq set
           /\ n < CHANNEL_SEQ_MODULUS => ahead(n) \notin set
           /\ next_rx_sequence' = ahead(n)
           /\ Members(rx_ring') = set \ run]_ringvars
=============================================================================
