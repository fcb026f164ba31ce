------------------------------- MODULE Channel -------------------------------
(***************************************************************************)
(* One direction of a channel over a link: the sending endpoint's           *)
(* rns_core::channel::Channel with the part of rns_net's LinkManager that   *)
(* transmits its envelopes and feeds it the proofs, the receiving           *)
(* endpoint's Channel with the part of LinkManager that hands it decrypted  *)
(* packets and proves them, and a network that loses, duplicates and        *)
(* reorders (the transport's packet filter lets CHANNEL packets through     *)
(* without de-duplication).                                                 *)
(*                                                                          *)
(* Messages are numbered 0, 1, 2, ... in the order in which they reach the  *)
(* wire; the number stands for the payload, so that the properties can tell *)
(* which message an envelope carries.  Envelopes carry the 16-bit sequence  *)
(* number the code puts in them.                                            *)
(*   tx_ring   maps the messages in the transmit ring to their envelope; the*)
(*             deque's order is the order of the numbers (envelopes are     *)
(*             pushed at the back and removed anywhere)                     *)
(*   rx_ring   maps the sequence numbers in the receive ring to the message *)
(*             received with them; the deque's order is the modular distance*)
(*             from next_rx_sequence, which module ChannelRing establishes  *)
(*             for emplace_rx                                               *)
(*   packets   one record per transmission of an envelope; (msg, try) stands*)
(*             for the packet hash, which differs for every transmission    *)
(***************************************************************************)
EXTENDS ChannelWindow, FiniteSets, Sequences

CONSTANTS
  CHANNEL_SEQ_MODULUS, CHANNEL_MAX_TRIES,
  MaxMsgs,          \* bound: messages that reach the wire
  MaxUnemitted,     \* bound: sends whose packet could not be built
  MaxAhead,         \* bound: how far the sender runs ahead of its oldest
                    \* outstanding envelope (its tries run out before that)
  MayFlush,         \* whether the driver may call flush_channel_tx
  MaxLag,           \* bound: how many messages behind the last one collected
                    \* a packet can still arrive
  LateOpen          \* whether channel packets may overtake the LRRTT packet

ASSUME ChannelAssumption ==
  /\ CHANNEL_SEQ_MODULUS \in Nat /\ CHANNEL_SEQ_MODULUS > CHANNEL_WINDOW_MAX_FAST
  /\ CHANNEL_MAX_TRIES \in Nat \ {0}
  /\ MaxMsgs \in Nat /\ MaxUnemitted \in Nat
  /\ MaxLag \in Nat /\ MaxAhead \in Nat /\ MaxAhead < CHANNEL_SEQ_MODULUS
  /\ {MayFlush, LateOpen} \subseteq BOOLEAN

VARIABLES
  tx_ring, next_sequence, pending_channel_packets, unemitted, closed,
  rx_open, rx_ring, next_rx_sequence, rx_cleared,
  data, proofs,
  sent, delivered, acked,
  flushed,          \* ghost: messages flush_channel_tx took from the ring
  unseen            \* ghost: messages proved when there was no channel

txvars == <<tx_ring, next_sequence, pending_channel_packets, unemitted, closed>>
rxvars == <<rx_open, rx_ring, next_rx_sequence, rx_cleared>>
lost   == <<flushed, unseen>>
cvars  == <<txvars, rxvars, data, proofs, sent, delivered, acked, lost>>
vars   == <<cvars, wvars>>

Seqs == 0..(CHANNEL_SEQ_MODULUS - 1)
SeqAfter(s, n) == (s + n) % CHANNEL_SEQ_MODULUS

Packets == [msg : Nat, sequence : Seqs, try : Nat]

(* The ring without one of its envelopes. *)
Without(ring, k) == [j \in DOMAIN ring \ {k} |-> ring[j]]

(* Mutant of Position: takes whatever is at the front of the ring. *)
PositionFront(ring, seq) ==
  {m \in DOMAIN ring : \A k \in DOMAIN ring : m <= k}

(* tx_ring.iter().position(|e| e.sequence == seq): the first envelope of the  *)
(* ring with that sequence number, as a set with at most one member.          *)
Position(ring, seq) ==
  {m \in DOMAIN ring : /\ ring[m].sequence = seq
                       /\ \A k \in DOMAIN ring : ring[k].sequence = seq => m <= k}

-----------------------------------------------------------------------------
(* process_channel_actions, SendOnLink: every transmission is a packet with a *)
(* hash of its own, remembered until its proof arrives.                       *)
SendOnLink(ps) ==
  /\ data' = data \cup ps
  /\ pending_channel_packets' = pending_channel_packets \cup ps

is_ready_to_send == Cardinality(DOMAIN tx_ring) < window

(* The ring after send has pushed the next envelope at its back. *)
Pushed ==
  [m \in DOMAIN tx_ring \cup {sent} |->
     IF m = sent THEN [sequence |-> next_sequence, tries |-> 1] ELSE tx_ring[m]]

(* Mutant of CancelSend: the sequence number is not taken back. *)
CancelSendKeepsSequence(ring, next, seq) ==
  /\ tx_ring' = [m \in DOMAIN ring \ Position(ring, seq) |-> ring[m]]
  /\ next_sequence' = next

(* cancel_send, on a ring and a sequence counter that send has advanced. *)
CancelSend(ring, next, seq) ==
  /\ tx_ring' = [m \in DOMAIN ring \ Position(ring, seq) |-> ring[m]]
  /\ next_sequence' = IF next = SeqAfter(seq, 1) THEN seq ELSE next

(* send_channel_message for a message that fits the link and the packet. *)
Send ==
  /\ sent < MaxMsgs
  /\ \A m \in DOMAIN tx_ring : sent - m < MaxAhead
  /\ is_ready_to_send
  /\ next_sequence' = SeqAfter(next_sequence, 1)
  /\ tx_ring' = Pushed
  /\ SendOnLink({[msg |-> sent, sequence |-> next_sequence, try |-> 1]})
  /\ sent' = sent + 1
  /\ UNCHANGED <<unemitted, closed, rxvars, proofs, delivered, acked, lost, wvars>>

(* send_channel_message for a message within the link's mdu that does not fit *)
(* a packet (the packet limit is the default MTU, the link's may be larger):  *)
(* the envelope is pushed, building the packet fails, and the send is         *)
(* cancelled.  The caller still gets Ok.                                      *)
SendUnemittable ==
  /\ unemitted < MaxUnemitted
  /\ \A m \in DOMAIN tx_ring : sent - m < MaxAhead
  /\ is_ready_to_send
  /\ unemitted' = unemitted + 1
  /\ CancelSend(Pushed, SeqAfter(next_sequence, 1), next_sequence)
  /\ UNCHANGED <<pending_channel_packets, closed,
                 rxvars, data, proofs, sent, delivered, acked, lost, wvars>>

(* tick: the envelopes whose timeout has passed are collected first and then  *)
(* given to packet_timeout one by one in ring order.  An envelope that has    *)
(* used its tries clears both rings and asks for the link to be torn down;    *)
(* the ones after it are then no longer found.  Elapsed time is abstracted:   *)
(* any non-empty set of outstanding envelopes may be found expired.           *)
Tick(expired) ==
  LET spent   == {m \in expired : tx_ring[m].tries >= CHANNEL_MAX_TRIES}
      retried == {m \in expired : \A k \in spent : m < k}
  IN  /\ expired # {}
      /\ SendOnLink({[msg |-> m, sequence |-> tx_ring[m].sequence,
                      try |-> tx_ring[m].tries + 1] : m \in retried})
      /\ WindowTimedOut(Cardinality(retried))
      /\ IF spent = {}
           THEN /\ tx_ring' = [m \in DOMAIN tx_ring |->
                     [sequence |-> tx_ring[m].sequence,
                      tries |-> tx_ring[m].tries + (IF m \in retried THEN 1 ELSE 0)]]
                /\ UNCHANGED closed
           ELSE tx_ring' = [m \in {} |-> tx_ring[m]] /\ closed' = TRUE
      /\ UNCHANGED <<next_sequence, unemitted, rxvars, proofs, sent, delivered, acked, lost>>

(* handle_link_proof: a proof of a remembered packet acknowledges the         *)
(* envelope that has its sequence number, if the ring still holds one.        *)
HandleProof(p) ==
  /\ p \in pending_channel_packets
  /\ pending_channel_packets' = pending_channel_packets \ {p}
  /\ LET found == Position(tx_ring, p.sequence)
     IN  \/ /\ found = {}
            /\ UNCHANGED <<tx_ring, acked, wvars>>
         \/ \E m \in found : /\ tx_ring' = Without(tx_ring, m)
                             /\ acked' = acked \cup {m}
                             /\ WindowDelivered
  /\ UNCHANGED <<next_sequence, unemitted, closed, rxvars, data, proofs,
                 sent, delivered, lost>>

(* flush_channel_tx, called by the driver when a hole punch has completed. *)
FlushTx ==
  /\ MayFlush
  /\ tx_ring # [m \in {} |-> 0]
  /\ tx_ring' = [m \in {} |-> tx_ring[m]]
  /\ flushed' = flushed \cup DOMAIN tx_ring
  /\ UNCHANGED <<next_sequence, pending_channel_packets, unemitted, closed,
                 rxvars, data, proofs, sent, delivered, acked, unseen, wvars>>

-----------------------------------------------------------------------------
(* is_behind_rx_window *)
IsBehindRxWindow(s) ==
  LET overflow == SeqAfter(next_rx_sequence, CHANNEL_WINDOW_MAX_FAST)
  IN  /\ s < next_rx_sequence
      /\ overflow < next_rx_sequence => s > overflow

(* The ring after emplace_rx: unless the sequence number is behind the window *)
(* or already in the ring.                                                    *)
Emplaced(s, m) ==
  IF IsBehindRxWindow(s) \/ s \in DOMAIN rx_ring
    THEN rx_ring
    ELSE [k \in DOMAIN rx_ring \cup {s} |-> IF k = s THEN m ELSE rx_ring[k]]

(* The n envelopes from next_rx_sequence on are in the ring, the next is not. *)
IsRun(ring, n) ==
  /\ \A i \in 0..(n - 1) : SeqAfter(next_rx_sequence, i) \in DOMAIN ring
  /\ n < CHANNEL_SEQ_MODULUS => SeqAfter(next_rx_sequence, n) \notin DOMAIN ring

(* Mutant of ChannelReceive: a run counts as one envelope. *)
ChannelReceiveAdvancesOne(s, m) ==
  LET ring == Emplaced(s, m)
  IN  \E n \in 0..CHANNEL_SEQ_MODULUS :
        /\ IsRun(ring, n)
        /\ delivered' = delivered \o
             [i \in 1..n |-> ring[SeqAfter(next_rx_sequence, i - 1)]]
        /\ rx_ring' = [k \in DOMAIN ring \
             {SeqAfter(next_rx_sequence, i) : i \in 0..(n - 1)} |-> ring[k]]
        /\ next_rx_sequence' = SeqAfter(next_rx_sequence, IF n = 0 THEN 0 ELSE 1)

(* receive, with collect_contiguous: the run at the front of the ring goes to *)
(* the application.                                                           *)
ChannelReceive(s, m) ==
  LET ring == Emplaced(s, m)
  IN  \E n \in 0..CHANNEL_SEQ_MODULUS :
        /\ IsRun(ring, n)
        /\ delivered' = delivered \o
             [i \in 1..n |-> ring[SeqAfter(next_rx_sequence, i - 1)]]
        /\ rx_ring' = [k \in DOMAIN ring \
             {SeqAfter(next_rx_sequence, i) : i \in 0..(n - 1)} |-> ring[k]]
        /\ next_rx_sequence' = SeqAfter(next_rx_sequence, n)

(* handle_link_data, context CHANNEL: the packet goes to the channel, if the  *)
(* link has one yet, and is proved whatever became of it.  The network        *)
(* delivers any packet it was given, in any order and any number of times;    *)
(* losing one is never delivering it.                                         *)
HandleChannelData(p) ==
  /\ p \in data
  /\ p.msg + MaxLag >= Len(delivered)
  /\ IF rx_open THEN ChannelReceive(p.sequence, p.msg)
                ELSE UNCHANGED <<rx_ring, next_rx_sequence, delivered>>
  /\ proofs' = proofs \cup {p}
  /\ unseen' = IF rx_open THEN unseen ELSE unseen \cup {p.msg}
  /\ UNCHANGED <<txvars, rx_open, rx_cleared, data, sent, acked, flushed, wvars>>

(* handle_link_data, context LRRTT: the responder's link becomes active and   *)
(* gets its channel.                                                          *)
OpenReceiver ==
  /\ ~rx_open /\ rx_open' = TRUE
  /\ UNCHANGED <<txvars, rx_ring, next_rx_sequence, rx_cleared, data, proofs,
                 sent, delivered, acked, lost, wvars>>

(* packet_timeout at the receiving end: a message it sends the other way has  *)
(* used its tries, which clears the ring of received envelopes as well.       *)
ReceiverGivesUp ==
  /\ rx_open
  /\ rx_cleared' = TRUE
  /\ rx_ring' = [s \in {} |-> rx_ring[s]]
  /\ UNCHANGED <<txvars, rx_open, next_rx_sequence, data, proofs,
                 sent, delivered, acked, lost, wvars>>

-----------------------------------------------------------------------------
Init ==
  /\ NewWindow
  /\ tx_ring = [m \in {} |-> 0] /\ next_sequence = 0
  /\ pending_channel_packets = {} /\ unemitted = 0 /\ closed = FALSE
  /\ rx_ring = [s \in {} |-> 0] /\ next_rx_sequence = 0
  /\ rx_open = ~LateOpen /\ rx_cleared = FALSE
  /\ data = {} /\ proofs = {}
  /\ sent = 0 /\ delivered = <<>> /\ acked = {} /\ flushed = {} /\ unseen = {}

Next ==
  \/ Send \/ SendUnemittable \/ FlushTx
  \/ \E expired \in SUBSET DOMAIN tx_ring : Tick(expired)
  \/ \E p \in proofs : HandleProof(p)
  \/ \E p \in data : HandleChannelData(p)
  \/ OpenReceiver \/ ReceiverGivesUp

Spec == Init /\ [][Next]_vars

(* The driver ticks the link manager as long as it runs, and an envelope that *)
(* stays in the ring is expired at some tick: its timeout is finite.  Nothing *)
(* is assumed of the network.                                                 *)
Fairness ==
  \A m \in 0..(MaxMsgs - 1) :
    WF_vars(\E expired \in SUBSET DOMAIN tx_ring : m \in expired /\ Tick(expired))

FairSpec == Spec /\ Fairness

-----------------------------------------------------------------------------
TypeOK ==
  /\ WTypeOK
  /\ DOMAIN tx_ring \subseteq 0..(MaxMsgs - 1)
  /\ \A m \in DOMAIN tx_ring :
       tx_ring[m] \in [sequence : Seqs, tries : 1..CHANNEL_MAX_TRIES]
  /\ next_sequence \in Seqs /\ next_rx_sequence \in Seqs
  /\ pending_channel_packets \subseteq Packets
  /\ data \subseteq Packets /\ proofs \subseteq Packets
  /\ unemitted \in 0..MaxUnemitted
  /\ {closed, rx_open, rx_cleared} \subseteq BOOLEAN
  /\ DOMAIN rx_ring \subseteq Seqs
  /\ \A s \in DOMAIN rx_ring : rx_ring[s] \in 0..(MaxMsgs - 1)
  /\ sent \in 0..MaxMsgs
  /\ delivered \in Seq(0..(MaxMsgs - 1))
  /\ acked \cup flushed \cup unseen \subseteq 0..(MaxMsgs - 1)

(* The application receives the messages of the sender in the order sent,     *)
(* none twice and none skipped, whatever is lost, duplicated or reordered:    *)
(* receive, emplace_rx and collect_contiguous.                                *)
FifoDelivery == \A i \in 1..Len(delivered) : delivered[i] = i - 1

(* The receive ring only holds messages the application has not had yet, each *)
(* under the sequence number it will be collected at: receive rejects what is *)
(* behind the window.                                                         *)
RxAhead ==
  \A s \in DOMAIN rx_ring :
    /\ rx_ring[s] > Len(delivered)
    /\ s = rx_ring[s] % CHANNEL_SEQ_MODULUS

(* Given to the application, or waiting in the receive ring for a gap to be   *)
(* filled.                                                                    *)
Taken ==
  {delivered[i] : i \in 1..Len(delivered)} \cup {rx_ring[s] : s \in DOMAIN rx_ring}

(* packet_delivered is only called for a message the receiving channel has    *)
(* taken, or one that was proved before there was a channel to take it.       *)
AckedTaken == rx_cleared \/ acked \subseteq Taken \cup unseen

(* The first message the application waits for is still in the sender's ring, *)
(* so that it is retransmitted, unless one of the ends gave up, this very     *)
(* message was flushed, or it was proved before there was a channel.          *)
GapIsRetransmitted ==
  (Len(delivered) < sent /\ ~closed /\ ~rx_cleared)
    => Len(delivered) \in DOMAIN tx_ring \cup flushed \cup unseen

(* No message is lost between the rings: what waits at the receiver is still  *)
(* to be delivered, what was proved was taken, and what is missing is still   *)
(* retransmitted.                                                             *)
NothingLost == RxAhead /\ AckedTaken /\ GapIsRetransmitted

(* The channel implements the service it offers: every step of it sends one   *)
(* message, hands over the next ones, or is invisible to the applications.    *)
Fifo == INSTANCE ReliableFifo
ImplementsFifo == Fifo!FSpec

(* Every message that reached the wire reaches the application, unless an end *)
(* gives the link up or it, or one before it, was flushed or proved unseen:   *)
(* the retries of tick.                                                       *)
SentDelivered ==
  \A m \in 0..(MaxMsgs - 1) :
    (sent > m) ~> \/ Len(delivered) > m \/ closed \/ rx_cleared
                  \/ \E k \in flushed \cup unseen : k <= m
=============================================================================
