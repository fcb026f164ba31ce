---------------------------- MODULE ChannelProofs ----------------------------
(***************************************************************************)
(* Proofs about module Channel for every window, number of tries and bound, *)
(* as long as the channel carries too few messages for the sequence numbers *)
(* to come near the wrap-around (ShortLived).  Only the bounds of the       *)
(* window need no such hypothesis.                                          *)
(***************************************************************************)
EXTENDS Channel, FiniteSetTheorems, TLAPS

-----------------------------------------------------------------------------
(* The send window on its own *)
WInv == WTypeOK /\ WindowBounds

LEMMA ModRange ==
  ASSUME NEW x \in Nat, NEW m \in Nat \ {0}
  PROVE  x % m \in 0..(m - 1)
  OBVIOUS

(* Channel::new starts within the bounds, whatever the round-trip time. *)
LEMMA NewWindowInv ==
  ASSUME NewWindow PROVE WInv
  BY WindowAssumption DEF NewWindow, WInv, WTypeOK, WindowBounds, RttClasses

(* packet_delivered keeps the bounds, promotions included. *)
LEMMA WindowDeliveredInv ==
  ASSUME WInv, WindowDelivered PROVE WInv'
<1>1. window' \in Nat /\ 1 <= window' /\ window' <= window_max
  BY DEF WInv, WTypeOK, WindowBounds, WindowDelivered
<1>2. /\ fast_rate_rounds' \in 0..(ROUND_MODULUS - 1)
      /\ medium_rate_rounds' \in 0..(ROUND_MODULUS - 1)
  BY ModRange, WindowAssumption
     DEF WInv, WTypeOK, WindowDelivered, AdaptOnDelivery
<1>3. /\ window_max' \in Nat /\ window_min' \in Nat
      /\ window_max <= window_max' /\ 1 <= window_min'
      /\ window_min' <= window_max'
      /\ window_max' <= CHANNEL_WINDOW_MAX_FAST
  BY WindowAssumption
     DEF WInv, WTypeOK, WindowBounds, WindowDelivered, AdaptOnDelivery, Promote
<1>4. window_flexibility' \in Nat /\ rtt' \in RttClasses
  BY DEF WInv, WTypeOK, WindowDelivered
<1>5. window' <= window_max'
  BY <1>1, <1>3 DEF WInv, WTypeOK
<1> QED BY <1>1, <1>2, <1>3, <1>4, <1>5 DEF WInv, WTypeOK, WindowBounds

(* Any number of retransmissions keeps the bounds. *)
LEMMA WindowTimedOutInv ==
  ASSUME WInv, NEW n \in Nat, WindowTimedOut(n) PROVE WInv'
  BY WindowAssumption
     DEF WInv, WTypeOK, WindowBounds, WindowTimedOut, Min2, Monus

(* The window of a channel is never zero, never above window_max, and         *)
(* window_max never above the limit is_behind_rx_window allows for, under any *)
(* sequence of acknowledgements, retransmissions and changes of the           *)
(* round-trip time.                                                           *)
THEOREM WindowStaysInBounds == WSpec => []WindowBounds
<1>1. NewWindow => WInv
  BY NewWindowInv
<1>2. WInv /\ [WNext]_wvars => WInv'
  <2> SUFFICES ASSUME WInv, [WNext]_wvars PROVE WInv'
    OBVIOUS
  <2>1. CASE WindowDelivered
    BY <2>1, WindowDeliveredInv
  <2>2. CASE \E n \in 1..CHANNEL_WINDOW_MAX_FAST : WindowTimedOut(n)
    BY <2>2, WindowTimedOutInv, WindowAssumption
  <2>3. CASE \E r \in Rtts : SetRtt(r)
    BY <2>3, WindowAssumption DEF WInv, WTypeOK, WindowBounds, SetRtt
  <2>4. CASE UNCHANGED wvars
    BY <2>4 DEF WInv, WTypeOK, WindowBounds, wvars
  <2> QED BY <2>1, <2>2, <2>3, <2>4 DEF WNext
<1>3. WInv => WindowBounds
  BY DEF WInv
<1> QED BY <1>1, <1>2, <1>3, PTL DEF WSpec
-----------------------------------------------------------------------------

ShortLived == MaxMsgs + CHANNEL_WINDOW_MAX_FAST < CHANNEL_SEQ_MODULUS

(* Without wrap-around a message's number is its sequence number. *)
Numbered(ps) ==
  \A p \in ps : p.msg \in Nat /\ p.msg < sent /\ p.sequence = p.msg

TxInv ==
  /\ sent \in Nat /\ sent <= MaxMsgs /\ next_sequence = sent
  /\ Numbered(data) /\ Numbered(proofs) /\ Numbered(pending_channel_packets)
  /\ \A m \in DOMAIN tx_ring : /\ m \in Nat /\ m < sent
                               /\ tx_ring[m] \in [sequence : Nat, tries : Nat]
                               /\ tx_ring[m].sequence = m

(* A ring of envelopes still to be collected, when `from` is expected next. *)
RingFrom(ring, from) ==
  /\ ring = [k \in DOMAIN ring |-> ring[k]]
  /\ \A s \in DOMAIN ring : s \in Nat /\ from <= s /\ s < sent /\ ring[s] = s

RxInv ==
  /\ delivered \in Seq(Nat) /\ Len(delivered) <= sent
  /\ next_rx_sequence = Len(delivered)
  /\ FifoDelivery
  /\ RingFrom(rx_ring, Len(delivered) + 1)

CInv == TxInv /\ RxInv

-----------------------------------------------------------------------------
LEMMA SmallMod ==
  ASSUME NEW x \in Nat, NEW m \in Nat, x < m
  PROVE  x % m = x
  OBVIOUS

LEMMA Constants ==
  /\ CHANNEL_SEQ_MODULUS \in Nat /\ CHANNEL_WINDOW_MAX_FAST \in Nat
  /\ MaxMsgs \in Nat /\ MaxLag \in Nat
  BY ChannelAssumption, WindowAssumption

(* The run at the front of the ring ends at the latest with the last message  *)
(* sent, before the sequence numbers wrap.                                    *)
LEMMA RunBounded ==
  ASSUME ShortLived, TxInv, RxInv, NEW ring, RingFrom(ring, Len(delivered)),
         NEW n \in 0..CHANNEL_SEQ_MODULUS, IsRun(ring, n)
  PROVE  /\ n <= sent - Len(delivered)
         /\ \A i \in 0..n : SeqAfter(next_rx_sequence, i) = Len(delivered) + i
<1> DEFINE L == Len(delivered)
<1>0. /\ L \in Nat /\ next_rx_sequence = L /\ L <= sent /\ sent \in Nat
      /\ sent < CHANNEL_SEQ_MODULUS /\ CHANNEL_SEQ_MODULUS \in Nat /\ n \in Nat
  BY Constants DEF RxInv, TxInv, ShortLived
<1> HIDE DEF L
<1>1. n <= sent - L
  <2> SUFFICES ASSUME n > sent - L PROVE FALSE
    BY <1>0
  <2>1. sent - L \in 0..(n - 1)
    BY <1>0
  <2>2. SeqAfter(L, sent - L) \in DOMAIN ring
    BY <2>1, <1>0 DEF IsRun
  <2>3. L + (sent - L) = sent
    BY <1>0
  <2>4. SeqAfter(L, sent - L) = sent
    BY <2>3, <1>0, SmallMod DEF SeqAfter
  <2> QED BY <2>2, <2>4, <1>0 DEF RingFrom
<1>2. ASSUME NEW i \in 0..n PROVE SeqAfter(next_rx_sequence, i) = L + i
  <2>1. L + i \in Nat /\ L + i < CHANNEL_SEQ_MODULUS
    BY <1>0, <1>1
  <2> QED BY <2>1, <1>0, SmallMod DEF SeqAfter
<1> QED BY <1>1, <1>2 DEF L

(* Appending the numbers that follow keeps a sequence that counts from zero.  *)
LEMMA AppendNumbers ==
  ASSUME NEW d \in Seq(Nat), NEW n \in Nat,
         \A i \in 1..Len(d) : d[i] = i - 1,
         NEW e, e = d \o [i \in 1..n |-> Len(d) + i - 1]
  PROVE  /\ e \in Seq(Nat) /\ Len(e) = Len(d) + n
         /\ \A i \in 1..Len(e) : e[i] = i - 1
<1> DEFINE t == [i \in 1..n |-> Len(d) + i - 1]
<1>1. t \in Seq(Nat) /\ Len(t) = n
  OBVIOUS
<1>2. e \in Seq(Nat) /\ Len(e) = Len(d) + n
  BY <1>1
<1>3. \A i \in 1..Len(e) : e[i] = IF i <= Len(d) THEN d[i] ELSE t[i - Len(d)]
  BY <1>1
<1>4. \A i \in 1..n : t[i] = Len(d) + i - 1
  OBVIOUS
<1> HIDE DEF t
<1>5. ASSUME NEW i \in 1..Len(e) PROVE e[i] = i - 1
  <2>1. CASE i <= Len(d)
    BY <2>1, <1>2, <1>3
  <2>2. CASE i > Len(d)
    <3>1. Len(d) \in Nat /\ i \in Nat /\ ~(i <= Len(d)) /\ i <= Len(d) + n
      BY <2>2, <1>2
    <3>2. i - Len(d) \in 1..n
      BY <3>1
    <3>3. e[i] = t[i - Len(d)]
      BY <3>1, <1>3
    <3>4. t[i - Len(d)] = Len(d) + (i - Len(d)) - 1
      BY <3>2, <1>4
    <3> QED BY <3>1, <3>3, <3>4
  <2> QED BY <2>1, <2>2, <1>2
<1> QED BY <1>2, <1>5

(* What emplace_rx accepts are messages that were not handed over yet. *)
LEMMA EmplacedFrom ==
  ASSUME ShortLived, CInv, NEW m \in Nat, m < sent
  PROVE  RingFrom(Emplaced(m, m), Len(delivered))
<1> DEFINE L == Len(delivered)
<1>0. /\ L \in Nat /\ next_rx_sequence = L /\ L <= sent /\ sent \in Nat
      /\ L + CHANNEL_WINDOW_MAX_FAST < CHANNEL_SEQ_MODULUS
      /\ CHANNEL_SEQ_MODULUS \in Nat /\ CHANNEL_WINDOW_MAX_FAST \in Nat
      /\ RingFrom(rx_ring, L + 1)
  BY Constants DEF CInv, RxInv, TxInv, ShortLived
<1> HIDE DEF L
<1>1. SeqAfter(next_rx_sequence, CHANNEL_WINDOW_MAX_FAST) = L + CHANNEL_WINDOW_MAX_FAST
  BY <1>0, SmallMod DEF SeqAfter
<1>2. IsBehindRxWindow(m) <=> m < L
  BY <1>0, <1>1 DEF IsBehindRxWindow
<1>3. CASE IsBehindRxWindow(m) \/ m \in DOMAIN rx_ring
  <2>1. Emplaced(m, m) = rx_ring
    BY <1>3 DEF Emplaced
  <2>2. RingFrom(rx_ring, L)
    BY <1>0 DEF RingFrom
  <2> QED BY <2>1, <2>2 DEF L
<1>4. CASE ~(IsBehindRxWindow(m) \/ m \in DOMAIN rx_ring)
  <2>1. L <= m
    BY <1>4, <1>2, <1>0
  <2> QED BY <2>1, <1>4, <1>0 DEF Emplaced, RingFrom, L
<1> QED BY <1>3, <1>4

(* receive hands over the next messages in order and keeps a ring of later    *)
(* ones.                                                                      *)
LEMMA ReceiveStep ==
  ASSUME ShortLived, CInv, NEW m \in Nat, m < sent, ChannelReceive(m, m)
  PROVE  \E n \in 0..(sent - Len(delivered)) :
           /\ delivered' = delivered \o [i \in 1..n |-> Len(delivered) + i - 1]
           /\ next_rx_sequence' = Len(delivered) + n
           /\ RingFrom(rx_ring', Len(delivered) + n + 1)
           /\ DOMAIN rx_ring' = DOMAIN Emplaced(m, m) \
                                 (Len(delivered)..(Len(delivered) + n - 1))
<1> DEFINE L == Len(delivered)
           ring == Emplaced(m, m)
<1>0. /\ L \in Nat /\ next_rx_sequence = L /\ L <= sent /\ sent \in Nat
      /\ sent < CHANNEL_SEQ_MODULUS /\ CHANNEL_SEQ_MODULUS \in Nat
  BY Constants DEF CInv, RxInv, TxInv, ShortLived
<1>1. RingFrom(ring, L)
  BY EmplacedFrom
<1>2. PICK n \in 0..CHANNEL_SEQ_MODULUS :
        /\ IsRun(ring, n)
        /\ delivered' = delivered \o
             [i \in 1..n |-> ring[SeqAfter(next_rx_sequence, i - 1)]]
        /\ rx_ring' = [k \in DOMAIN ring \
             {SeqAfter(next_rx_sequence, i) : i \in 0..(n - 1)} |-> ring[k]]
        /\ next_rx_sequence' = SeqAfter(next_rx_sequence, n)
  BY DEF ChannelReceive
<1>3. /\ n <= sent - L
      /\ \A i \in 0..n : SeqAfter(next_rx_sequence, i) = L + i
  BY <1>1, <1>2, RunBounded DEF CInv
<1> HIDE DEF ring, L
<1>4. n \in Nat /\ n < CHANNEL_SEQ_MODULUS /\ n \in 0..(sent - L)
  BY <1>0, <1>2, <1>3
<1>5. \A i \in 1..n : ring[SeqAfter(next_rx_sequence, i - 1)] = L + i - 1
  <2> SUFFICES ASSUME NEW i \in 1..n
               PROVE  ring[SeqAfter(next_rx_sequence, i - 1)] = L + i - 1
    OBVIOUS
  <2>1. i - 1 \in 0..(n - 1) /\ i - 1 \in 0..n
    BY <1>4
  <2>2. SeqAfter(next_rx_sequence, i - 1) \in DOMAIN ring
    BY <2>1, <1>2 DEF IsRun
  <2>3. SeqAfter(next_rx_sequence, i - 1) = L + (i - 1)
    BY <2>1, <1>3
  <2>4. ring[L + (i - 1)] = L + (i - 1)
    BY <2>2, <2>3, <1>1 DEF RingFrom
  <2> QED BY <2>3, <2>4, <1>0
<1>6. delivered' = delivered \o [i \in 1..n |-> L + i - 1]
  BY Zenon, <1>2, <1>5
<1>7. next_rx_sequence' = L + n
  BY <1>2, <1>3, <1>4
<1>8. {SeqAfter(next_rx_sequence, i) : i \in 0..(n - 1)} = L..(L + n - 1)
  <2>1. \A i \in 0..(n - 1) : SeqAfter(next_rx_sequence, i) = L + i
    BY <1>3, <1>4
  <2>2. ASSUME NEW x \in L..(L + n - 1)
        PROVE  \E i \in 0..(n - 1) : SeqAfter(next_rx_sequence, i) = x
    <3>1. x - L \in 0..(n - 1) /\ L + (x - L) = x
      BY <1>0, <1>4
    <3> QED BY <3>1, <2>1
  <2>3. \A i \in 0..(n - 1) : SeqAfter(next_rx_sequence, i) \in L..(L + n - 1)
    BY <2>1, <1>0, <1>4
  <2> QED BY <2>2, <2>3
<1>9. rx_ring' = [k \in DOMAIN ring \ (L..(L + n - 1)) |-> ring[k]]
  BY <1>2, <1>8
<1>10. L + n \notin DOMAIN ring
  <2>1. n \in 0..n
    BY <1>4
  <2> QED BY <2>1, <1>2, <1>3, <1>4 DEF IsRun
<1>11. ASSUME NEW k \in DOMAIN ring \ (L..(L + n - 1))
       PROVE  k \in Nat /\ L + n + 1 <= k /\ k < sent /\ ring[k] = k
  <2>1. k \in Nat /\ L <= k /\ k < sent /\ ring[k] = k
    BY <1>1 DEF RingFrom
  <2> QED BY <2>1, <1>0, <1>4, <1>10
<1>12. RingFrom(rx_ring', L + n + 1) /\ DOMAIN rx_ring' = DOMAIN ring \ (L..(L + n - 1))
  BY <1>9, <1>11 DEF RingFrom
<1> QED BY <1>4, <1>6, <1>7, <1>12 DEF L, ring
-----------------------------------------------------------------------------
LEMMA InitInv == Init => CInv
  BY Constants, ChannelAssumption
     DEF Init, CInv, TxInv, RxInv, Numbered, RingFrom, FifoDelivery

(* A step that leaves the receiver alone and does not lower `sent`. *)
LEMMA RxKept ==
  ASSUME CInv, UNCHANGED <<rx_ring, next_rx_sequence, delivered>>,
         sent' \in Nat, sent <= sent'
  PROVE  RxInv'
  BY DEF CInv, RxInv, TxInv, RingFrom, FifoDelivery

(* A step that leaves the sender and the network alone. *)
LEMMA TxKept ==
  ASSUME CInv, UNCHANGED <<txvars, sent, data, proofs>>
  PROVE  TxInv'
  BY DEF CInv, TxInv, Numbered, txvars

LEMMA SendInv ==
  ASSUME ShortLived, CInv, Send PROVE CInv'
<1>1. /\ sent \in Nat /\ sent < MaxMsgs /\ next_sequence = sent
      /\ sent + 1 < CHANNEL_SEQ_MODULUS /\ CHANNEL_SEQ_MODULUS \in Nat
  BY Constants DEF CInv, TxInv, ShortLived, Send
<1>2. sent' = sent + 1 /\ next_sequence' = sent + 1
  BY <1>1, SmallMod DEF Send, SeqAfter
<1>3. Numbered(data)' /\ Numbered(pending_channel_packets)' /\ Numbered(proofs)'
  BY <1>1, <1>2 DEF CInv, TxInv, Numbered, Send, SendOnLink
<1>4. \A m \in DOMAIN tx_ring' : /\ m \in Nat /\ m < sent'
                                 /\ tx_ring'[m] \in [sequence : Nat, tries : Nat]
                                 /\ tx_ring'[m].sequence = m
  BY <1>1, <1>2 DEF CInv, TxInv, Send, Pushed
<1>5. TxInv'
  BY <1>1, <1>2, <1>3, <1>4, Constants DEF TxInv
<1>6. RxInv'
  BY <1>1, <1>2, RxKept DEF Send, rxvars
<1> QED BY <1>5, <1>6 DEF CInv

(* cancel_send takes back exactly what send had pushed. *)
LEMMA UnemittableKeepsTx ==
  ASSUME CInv, SendUnemittable
  PROVE  /\ next_sequence' = next_sequence
         /\ DOMAIN tx_ring' = DOMAIN tx_ring
         /\ \A m \in DOMAIN tx_ring : tx_ring'[m] = tx_ring[m]
<1>1. /\ sent \in Nat /\ next_sequence = sent
      /\ \A m \in DOMAIN tx_ring : m \in Nat /\ m < sent /\ tx_ring[m].sequence = m
  BY DEF CInv, TxInv
<1>2. /\ DOMAIN Pushed = DOMAIN tx_ring \cup {sent}
      /\ Pushed[sent].sequence = sent
      /\ \A m \in DOMAIN tx_ring : Pushed[m] = tx_ring[m]
  BY <1>1 DEF Pushed
<1>3. Position(Pushed, sent) = {sent}
  BY <1>1, <1>2 DEF Position
<1>4. tx_ring' = [m \in DOMAIN Pushed \ {sent} |-> Pushed[m]]
  BY <1>1, <1>3 DEF SendUnemittable, CancelSend
<1>5. DOMAIN Pushed \ {sent} = DOMAIN tx_ring
  BY <1>1, <1>2
<1>6. next_sequence' = next_sequence
  BY DEF SendUnemittable, CancelSend
<1> QED BY <1>2, <1>4, <1>5, <1>6

LEMMA SendUnemittableInv ==
  ASSUME CInv, SendUnemittable PROVE CInv'
<1>1. TxInv'
  BY Zenon, UnemittableKeepsTx DEF CInv, TxInv, Numbered, SendUnemittable
<1>2. RxInv'
  BY RxKept DEF CInv, TxInv, SendUnemittable, rxvars
<1> QED BY Zenon, <1>1, <1>2 DEF CInv

LEMMA TickInv ==
  ASSUME CInv, NEW expired \in SUBSET DOMAIN tx_ring, Tick(expired) PROVE CInv'
<1>1. sent' = sent /\ next_sequence' = next_sequence /\ proofs' = proofs
  BY DEF Tick
<1>2. \A m \in expired : m \in Nat /\ m < sent /\ tx_ring[m].sequence = m
  BY Zenon DEF CInv, TxInv
<1>3. Numbered(data)' /\ Numbered(pending_channel_packets)'
  BY <1>1, <1>2 DEF CInv, TxInv, Numbered, Tick, SendOnLink
<1>4. \A m \in DOMAIN tx_ring' : /\ m \in DOMAIN tx_ring
                                 /\ tx_ring'[m] \in [sequence : Nat, tries : Nat]
                                 /\ tx_ring'[m].sequence = tx_ring[m].sequence
  <2>1. \A m \in DOMAIN tx_ring : tx_ring[m] \in [sequence : Nat, tries : Nat]
    BY SMTT(30) DEF CInv, TxInv
  <2>2. \/ tx_ring' = [m \in {} |-> tx_ring[m]]
        \/ \E r : tx_ring' = [m \in DOMAIN tx_ring |->
              [sequence |-> tx_ring[m].sequence,
               tries |-> tx_ring[m].tries + (IF m \in r THEN 1 ELSE 0)]]
    BY Zenon DEF Tick
  <2> QED BY <2>1, <2>2
<1>5. TxInv'
  BY Zenon, <1>1, <1>3, <1>4 DEF CInv, TxInv, Numbered
<1>6. RxInv'
  BY SMTT(30), <1>1, RxKept DEF CInv, TxInv, Tick, rxvars
<1> QED BY <1>5, <1>6 DEF CInv

LEMMA HandleProofInv ==
  ASSUME CInv, NEW p, HandleProof(p) PROVE CInv'
<1>1. /\ sent' = sent /\ next_sequence' = next_sequence
      /\ proofs' = proofs /\ data' = data
      /\ pending_channel_packets' \subseteq pending_channel_packets
  BY DEF HandleProof
<1>2. \A m \in DOMAIN tx_ring' : m \in DOMAIN tx_ring /\ tx_ring'[m] = tx_ring[m]
  BY Zenon DEF HandleProof, Without
<1>3. TxInv'
  BY <1>1, <1>2 DEF CInv, TxInv, Numbered
<1>4. RxInv'
  BY <1>1, RxKept DEF CInv, TxInv, HandleProof, rxvars
<1> QED BY <1>3, <1>4 DEF CInv

LEMMA FlushTxInv ==
  ASSUME CInv, FlushTx PROVE CInv'
<1>1. TxInv'
  BY DEF CInv, TxInv, Numbered, FlushTx
<1>2. RxInv'
  BY RxKept DEF CInv, TxInv, FlushTx, rxvars
<1> QED BY <1>1, <1>2 DEF CInv

(* The step of the receiving end, as the service sees it. *)
LEMMA ReceiveInv ==
  ASSUME ShortLived, CInv, NEW m \in Nat, m < sent, ChannelReceive(m, m),
         sent' = sent
  PROVE  /\ RxInv'
         /\ Fifo!FDeliver \/ delivered' = delivered
<1>1. PICK n \in 0..(sent - Len(delivered)) :
         /\ delivered' = delivered \o [i \in 1..n |-> Len(delivered) + i - 1]
         /\ next_rx_sequence' = Len(delivered) + n
         /\ RingFrom(rx_ring', Len(delivered) + n + 1)
  BY Zenon, ReceiveStep
<1>2. /\ delivered \in Seq(Nat) /\ sent \in Nat /\ Len(delivered) <= sent
      /\ \A i \in 1..Len(delivered) : delivered[i] = i - 1
  BY DEF CInv, TxInv, RxInv, FifoDelivery
<1>3. n \in Nat /\ n <= sent - Len(delivered)
  BY <1>2
<1>4. /\ delivered' \in Seq(Nat) /\ Len(delivered') = Len(delivered) + n
      /\ \A i \in 1..Len(delivered') : delivered'[i] = i - 1
  BY SMTT(30), <1>1, <1>2, <1>3, AppendNumbers
<1>5. RingFrom(rx_ring, Len(delivered) + 1)'
  BY <1>1, <1>4 DEF RingFrom
<1>6. RxInv'
  BY <1>1, <1>2, <1>3, <1>4, <1>5 DEF RxInv, FifoDelivery
<1>7. CASE n = 0
  BY <1>1, <1>2, <1>6, <1>7
<1>8. CASE n # 0
  <2>1. n \in 1..(sent - Len(delivered))
    BY <1>2, <1>3, <1>8
  <2> QED BY <1>1, <1>6, <2>1 DEF Fifo!FDeliver
<1> QED BY <1>7, <1>8

LEMMA HandleChannelDataInv ==
  ASSUME ShortLived, CInv, NEW p \in data, HandleChannelData(p)
  PROVE  /\ CInv'
         /\ Fifo!FDeliver \/ UNCHANGED <<sent, delivered>>
<1>1. p.msg \in Nat /\ p.msg < sent /\ p.sequence = p.msg
  BY Zenon DEF CInv, TxInv, Numbered
<1>2. TxInv'
  BY <1>1 DEF CInv, TxInv, Numbered, HandleChannelData, txvars
<1>3. CASE rx_open
  <2>1. ChannelReceive(p.msg, p.msg) /\ sent' = sent
    BY <1>1, <1>3 DEF HandleChannelData
  <2> QED BY <1>1, <1>2, <2>1, ReceiveInv DEF CInv
<1>4. CASE ~rx_open
  <2>1. UNCHANGED <<rx_ring, next_rx_sequence, delivered, sent>>
    BY <1>4 DEF HandleChannelData
  <2>2. RxInv'
    BY SMTT(30), <2>1, RxKept DEF CInv, TxInv
  <2> QED BY <1>2, <2>1, <2>2 DEF CInv
<1> QED BY <1>3, <1>4

LEMMA OpenReceiverInv ==
  ASSUME CInv, OpenReceiver PROVE CInv'
  BY RxKept, TxKept DEF CInv, TxInv, OpenReceiver

LEMMA ReceiverGivesUpInv ==
  ASSUME CInv, ReceiverGivesUp PROVE CInv'
<1>1. TxInv'
  BY TxKept DEF ReceiverGivesUp
<1>2. RxInv'
  BY DEF CInv, RxInv, TxInv, RingFrom, FifoDelivery, ReceiverGivesUp
<1> QED BY <1>1, <1>2 DEF CInv

(* Every step of the channel keeps CInv and is a step of the service. *)
LEMMA StepInv ==
  ASSUME ShortLived, CInv, [Next]_vars
  PROVE  /\ CInv'
         /\ [Fifo!FSend \/ Fifo!FDeliver]_<<sent, delivered>>
<1>1. CASE Send
  <2>1. Fifo!FSend
    BY <1>1 DEF Send, Fifo!FSend
  <2> QED BY <1>1, <2>1, SendInv
<1>2. CASE SendUnemittable
  BY <1>2, SendUnemittableInv DEF SendUnemittable
<1>3. CASE FlushTx
  BY SMTT(30), <1>3, FlushTxInv DEF FlushTx
<1>4. CASE \E expired \in SUBSET DOMAIN tx_ring : Tick(expired)
  BY Zenon, <1>4, TickInv DEF Tick
<1>5. CASE \E p \in proofs : HandleProof(p)
  BY <1>5, HandleProofInv DEF HandleProof
<1>6. CASE \E p \in data : HandleChannelData(p)
  BY <1>6, HandleChannelDataInv
<1>7. CASE OpenReceiver
  BY <1>7, OpenReceiverInv DEF OpenReceiver
<1>8. CASE ReceiverGivesUp
  BY <1>8, ReceiverGivesUpInv DEF ReceiverGivesUp
<1>9. CASE UNCHANGED vars
  <2>1. TxInv'
    BY <1>9, TxKept DEF vars, cvars, txvars
  <2>2. RxInv'
    BY <1>9, RxKept DEF vars, cvars, rxvars, CInv, TxInv
  <2> QED BY <1>9, <2>1, <2>2 DEF CInv, vars, cvars
<1> QED BY <1>1, <1>2, <1>3, <1>4, <1>5, <1>6, <1>7, <1>8, <1>9 DEF Next

(* The channel implements the reliable FIFO service (module ReliableFifo) for *)
(* every window, number of tries and pattern of loss, duplication, reordering,*)
(* flushing and late opening, as long as it carries fewer messages than       *)
(* sequence numbers less a window.                                            *)
THEOREM ChannelImplementsFifo ==
  ASSUME ShortLived PROVE Spec => ImplementsFifo
<1>1. Init => CInv
  BY InitInv
<1>2. Init => Fifo!FInit
  BY DEF Init, Fifo!FInit
<1>3. CInv /\ [Next]_vars =>
        CInv' /\ [Fifo!FSend \/ Fifo!FDeliver]_<<sent, delivered>>
  BY StepInv
<1> QED BY <1>1, <1>2, <1>3, PTL DEF Spec, ImplementsFifo, Fifo!FSpec

(* The receive ring of such a channel only holds messages the application has *)
(* not had yet: receive rejects every late or duplicate packet.               *)
LEMMA RingAhead == ASSUME ShortLived PROVE CInv => RxAhead
<1> SUFFICES ASSUME CInv, NEW s \in DOMAIN rx_ring
             PROVE  rx_ring[s] > Len(delivered)
                    /\ s = rx_ring[s] % CHANNEL_SEQ_MODULUS
  BY DEF RxAhead
<1>1. /\ s \in Nat /\ Len(delivered) + 1 <= s /\ s < sent /\ rx_ring[s] = s
      /\ sent \in Nat /\ sent <= MaxMsgs /\ Len(delivered) \in Nat
  BY DEF CInv, RxInv, TxInv, RingFrom
<1>2. s < CHANNEL_SEQ_MODULUS /\ CHANNEL_SEQ_MODULUS \in Nat
  BY <1>1, Constants DEF ShortLived
<1> QED BY <1>1, <1>2, SmallMod

-----------------------------------------------------------------------------
(* The receiving channel has taken message m. *)
Has(m) == m < Len(delivered) \/ m \in DOMAIN rx_ring

(* What is proved is with the receiver, or was proved unseen, and a message   *)
(* that left the transmit ring was acknowledged or flushed.                   *)
AInv ==
  /\ rx_cleared \/ \A p \in proofs : Has(p.msg) \/ p.msg \in unseen
  /\ acked \subseteq Nat
  /\ rx_cleared \/ \A m \in acked : Has(m) \/ m \in unseen
  /\ closed \/ \A m \in 0..(sent - 1) : m \in DOMAIN tx_ring \cup acked \cup flushed

LEMMA HasKept ==
  ASSUME AInv, UNCHANGED <<rx_cleared, rx_ring, delivered, proofs, acked, unseen>>
  PROVE  /\ rx_cleared' \/ \A p \in proofs' : Has(p.msg)' \/ p.msg \in unseen'
         /\ rx_cleared' \/ \A m \in acked' : Has(m)' \/ m \in unseen'
  BY DEF AInv, Has

(* What receive was given it has afterwards, and it forgets nothing. *)
LEMMA ReceiveHas ==
  ASSUME ShortLived, CInv, NEW m \in Nat, m < sent, ChannelReceive(m, m)
  PROVE  /\ Has(m)'
         /\ \A k \in Nat : Has(k) => Has(k)'
<1>1. PICK n \in 0..(sent - Len(delivered)) :
         /\ delivered' = delivered \o [i \in 1..n |-> Len(delivered) + i - 1]
         /\ DOMAIN rx_ring' = DOMAIN Emplaced(m, m) \
                               (Len(delivered)..(Len(delivered) + n - 1))
  BY Zenon, ReceiveStep
<1>2. /\ delivered \in Seq(Nat) /\ sent \in Nat /\ n \in Nat
      /\ Len(delivered) \in Nat /\ next_rx_sequence = Len(delivered)
      /\ \A i \in 1..Len(delivered) : delivered[i] = i - 1
  BY DEF CInv, TxInv, RxInv, FifoDelivery
<1>3. Len(delivered') = Len(delivered) + n
  BY <1>1, <1>2, AppendNumbers
<1>4. /\ DOMAIN rx_ring \subseteq DOMAIN Emplaced(m, m)
      /\ m < Len(delivered) \/ m \in DOMAIN Emplaced(m, m)
  BY <1>2 DEF Emplaced, IsBehindRxWindow
<1>5. \A k \in Nat : (k \in DOMAIN Emplaced(m, m) \/ k < Len(delivered)) => Has(k)'
  BY <1>1, <1>2, <1>3 DEF Has
<1>6. \A k \in Nat : Has(k) => k \in DOMAIN Emplaced(m, m) \/ k < Len(delivered)
  BY <1>4 DEF Has
<1> QED BY <1>4, <1>5, <1>6

LEMMA AStep ==
  ASSUME ShortLived, CInv, AInv, [Next]_vars
  PROVE  AInv'
<1>0. sent \in Nat /\ \A m \in DOMAIN tx_ring : m \in Nat /\ m < sent
  BY Zenon DEF CInv, TxInv
<1>1. CASE Send
  <2>1. closed' \/ \A m \in 0..(sent' - 1) :
          m \in DOMAIN tx_ring' \cup acked' \cup flushed'
    BY SMTT(30), <1>0, <1>1 DEF AInv, Send, Pushed, lost
  <2> QED BY Zenon, <1>1, <2>1, HasKept DEF AInv, Send, rxvars, lost
<1>2. CASE SendUnemittable
  <2>1. closed' \/ \A m \in 0..(sent' - 1) :
          m \in DOMAIN tx_ring' \cup acked' \cup flushed'
    BY Zenon, <1>2, UnemittableKeepsTx DEF AInv, SendUnemittable, lost
  <2> QED BY Zenon, <1>2, <2>1, HasKept DEF AInv, SendUnemittable, rxvars, lost
<1>3. CASE FlushTx
  <2>1. closed' \/ \A m \in 0..(sent' - 1) :
          m \in DOMAIN tx_ring' \cup acked' \cup flushed'
    BY <1>3 DEF AInv, FlushTx
  <2> QED BY <1>3, <2>1, HasKept DEF AInv, FlushTx, rxvars
<1>4. CASE \E expired \in SUBSET DOMAIN tx_ring : Tick(expired)
  <2>1. closed' \/ \A m \in 0..(sent' - 1) :
          m \in DOMAIN tx_ring' \cup acked' \cup flushed'
    BY SMTT(30), <1>4 DEF AInv, Tick, lost
  <2> QED BY ZenonT(40), <1>4, <2>1, HasKept DEF AInv, Tick, rxvars, lost
<1>5. CASE \E p \in proofs : HandleProof(p)
  <2>1. PICK p \in proofs : HandleProof(p)
    BY <1>5
  <2>2. p.sequence = p.msg
    BY DEF CInv, TxInv, Numbered
  <2>3. \A m \in Position(tx_ring, p.sequence) : m = p.msg
    BY <2>2 DEF Position, CInv, TxInv
  <2>4. acked' \subseteq acked \cup {p.msg}
    BY <2>1, <2>3 DEF HandleProof
  <2>5. closed' \/ \A m \in 0..(sent' - 1) :
          m \in DOMAIN tx_ring' \cup acked' \cup flushed'
    BY Zenon, <2>1 DEF AInv, HandleProof, Without, lost
  <2>6. p.msg \in Nat
    BY Zenon DEF CInv, TxInv, Numbered
  <2> QED BY <2>1, <2>4, <2>5, <2>6 DEF AInv, Has, HandleProof, rxvars, lost
<1>6. CASE \E p \in data : HandleChannelData(p)
  <2>1. PICK p \in data : HandleChannelData(p)
    BY <1>6
  <2>2. p.msg \in Nat /\ p.msg < sent /\ p.sequence = p.msg
    BY SMTT(30) DEF CInv, TxInv, Numbered
  <2>3. /\ Has(p.msg)' \/ p.msg \in unseen'
        /\ \A k \in Nat : Has(k) => Has(k)'
    <3>1. CASE rx_open
      <4>1. ChannelReceive(p.msg, p.msg)
        BY <2>1, <2>2, <3>1 DEF HandleChannelData
      <4> QED BY <2>2, <4>1, ReceiveHas
    <3>2. CASE ~rx_open
      BY <2>1, <3>2 DEF HandleChannelData, Has
    <3> QED BY <3>1, <3>2
  <2>4. unseen \subseteq unseen' /\ proofs' = proofs \cup {p}
    BY <2>1 DEF HandleChannelData
  <2>5. \A q \in proofs : q.msg \in Nat
    BY DEF CInv, TxInv, Numbered
  <2>6. rx_cleared' \/ \A q \in proofs' : Has(q.msg)' \/ q.msg \in unseen'
    BY <2>1, <2>3, <2>4, <2>5 DEF AInv, HandleChannelData
  <2>7. rx_cleared' \/ \A m \in acked' : Has(m)' \/ m \in unseen'
    BY <2>1, <2>3, <2>4 DEF AInv, HandleChannelData
  <2> QED BY <2>1, <2>6, <2>7 DEF AInv, HandleChannelData, txvars
<1>7. CASE OpenReceiver
  BY <1>7, HasKept DEF OpenReceiver, AInv, txvars, lost
<1>8. CASE ReceiverGivesUp
  BY Zenon, <1>8 DEF ReceiverGivesUp, AInv, txvars, lost
<1>9. CASE UNCHANGED vars
  BY <1>9, HasKept DEF AInv, vars, cvars, txvars, rxvars, lost
<1> QED BY <1>1, <1>2, <1>3, <1>4, <1>5, <1>6, <1>7, <1>8, <1>9 DEF Next

(* What waits in the receive ring is ahead of the application,                *)
(* packet_delivered is only called for messages the peer has taken or proved  *)
(* before it had a channel, and the message the application waits for next is *)
(* still being retransmitted while neither end has given up, unless it was    *)
(* flushed or proved unseen: nothing else loses a message or leaves a gap.    *)
THEOREM NothingIsLost ==
  ASSUME ShortLived PROVE Spec => []NothingLost
<1>1. Init => CInv /\ AInv
  <2>1. Init => AInv
    <3>1. 0..(0 - 1) = {}
      OBVIOUS
    <3> QED BY <3>1 DEF Init, AInv
  <2> QED BY <2>1, InitInv
<1>2. CInv /\ AInv /\ [Next]_vars => CInv' /\ AInv'
  BY Zenon, StepInv, AStep
<1>3. CInv /\ AInv => AckedTaken
  <2> SUFFICES ASSUME CInv, AInv, ~rx_cleared, NEW m \in acked, m \notin unseen
               PROVE  m \in {delivered[i] : i \in 1..Len(delivered)}
                            \cup {rx_ring[s] : s \in DOMAIN rx_ring}
    BY DEF AckedTaken, Taken
  <2>1. m \in Nat /\ Has(m)
    BY DEF AInv
  <2>2. CASE m < Len(delivered)
    <3>1. Len(delivered) \in Nat /\ \A i \in 1..Len(delivered) : delivered[i] = i - 1
      BY DEF CInv, RxInv, FifoDelivery
    <3>2. m + 1 \in 1..Len(delivered) /\ delivered[m + 1] = m
      BY <2>1, <2>2, <3>1
    <3> QED BY <3>2
  <2>3. CASE m \in DOMAIN rx_ring
    BY <2>3 DEF CInv, RxInv, RingFrom
  <2> QED BY <2>1, <2>2, <2>3 DEF Has
<1>4. CInv /\ AInv => GapIsRetransmitted
  BY DEF CInv, AInv, RxInv, TxInv, RingFrom, Has, GapIsRetransmitted
<1>5. CInv /\ AInv => NothingLost
  BY <1>3, <1>4, RingAhead DEF NothingLost
<1> QED BY <1>1, <1>2, <1>5, PTL DEF Spec

-----------------------------------------------------------------------------
(* The window of a running channel.  A tick narrows it once per envelope it   *)
(* retransmits, so the argument needs the transmit ring to be finite.         *)
WRInv == WInv /\ IsFiniteSet(DOMAIN tx_ring)

LEMMA TickWindow ==
  ASSUME WRInv, NEW expired \in SUBSET DOMAIN tx_ring, Tick(expired)
  PROVE  WRInv'
<1> DEFINE spent   == {m \in expired : tx_ring[m].tries >= CHANNEL_MAX_TRIES}
           retried == {m \in expired : \A k \in spent : m < k}
<1>1. IsFiniteSet(retried)
  BY Zenon, FS_Subset DEF WRInv
<1>2. Cardinality(retried) \in Nat
  BY SMTT(30), <1>1, FS_CardinalityType
<1>3. WindowTimedOut(Cardinality(retried))
  BY Zenon DEF Tick
<1>4. WInv'
  <2> HIDE DEF retried
  <2> QED BY Zenon, <1>2, <1>3, WindowTimedOutInv DEF WRInv
<1>5. DOMAIN tx_ring' \subseteq DOMAIN tx_ring
  BY Zenon DEF Tick
<1>6. IsFiniteSet(DOMAIN tx_ring')
  BY <1>5, FS_Subset DEF WRInv
<1> QED BY <1>4, <1>6 DEF WRInv

(* Every step but a tick and an acknowledgement leaves the window alone. *)
LEMMA WindowKept ==
  ASSUME WRInv, UNCHANGED wvars, IsFiniteSet(DOMAIN tx_ring')
  PROVE  WRInv'
  BY DEF WRInv, WInv, WTypeOK, WindowBounds, wvars

LEMMA WindowStep ==
  ASSUME WRInv, [Next]_vars
  PROVE  WRInv'
<1>0. IsFiniteSet(DOMAIN tx_ring) /\ IsFiniteSet(DOMAIN tx_ring \cup {sent})
  BY FS_AddElement DEF WRInv
<1>1. CASE Send
  <2>1. DOMAIN tx_ring' = DOMAIN tx_ring \cup {sent} /\ UNCHANGED wvars
    BY Zenon, <1>1 DEF Send, Pushed
  <2> QED BY SMTT(30), <1>0, <2>1, WindowKept
<1>2. CASE SendUnemittable
  <2>1. DOMAIN tx_ring' \subseteq DOMAIN tx_ring \cup {sent} /\ UNCHANGED wvars
    BY <1>2 DEF SendUnemittable, CancelSend, Pushed
  <2> QED BY Zenon, <1>0, <2>1, FS_Subset, WindowKept
<1>3. CASE FlushTx
  <2>1. DOMAIN tx_ring' = {} /\ UNCHANGED wvars
    BY <1>3 DEF FlushTx
  <2> QED BY <2>1, FS_EmptySet, WindowKept
<1>4. CASE \E expired \in SUBSET DOMAIN tx_ring : Tick(expired)
  BY <1>4, TickWindow
<1>5. CASE \E p \in proofs : HandleProof(p)
  <2>1. /\ DOMAIN tx_ring' \subseteq DOMAIN tx_ring
        /\ WindowDelivered \/ UNCHANGED wvars
    BY Zenon, <1>5 DEF HandleProof, Without
  <2>2. IsFiniteSet(DOMAIN tx_ring')
    BY SMTT(30), <1>0, <2>1, FS_Subset
  <2> QED BY <2>1, <2>2, WindowDeliveredInv, WindowKept DEF WRInv
<1>6. CASE (\E p \in data : HandleChannelData(p)) \/ OpenReceiver \/ ReceiverGivesUp
  <2>1. UNCHANGED <<tx_ring, wvars>>
    BY <1>6 DEF HandleChannelData, OpenReceiver, ReceiverGivesUp, txvars
  <2> QED BY Zenon, <1>0, <2>1, WindowKept
<1>7. CASE UNCHANGED vars
  BY <1>0, <1>7, WindowKept DEF vars, cvars, txvars
<1> QED BY <1>1, <1>2, <1>3, <1>4, <1>5, <1>6, <1>7 DEF Next

(* The window of a channel in use never closes and never exceeds what the     *)
(* receiver's is_behind_rx_window allows for, whatever the network loses,     *)
(* duplicates or reorders and however long the channel lives.                 *)
THEOREM ChannelWindowInBounds == Spec => []WindowBounds
<1>1. Init => WRInv
  BY NewWindowInv, FS_EmptySet DEF Init, WRInv
<1>2. WRInv /\ [Next]_vars => WRInv'
  BY WindowStep
<1>3. WRInv => WindowBounds
  BY DEF WRInv, WInv
<1> QED BY <1>1, <1>2, <1>3, PTL DEF Spec
=============================================================================
