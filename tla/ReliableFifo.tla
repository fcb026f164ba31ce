----------------------------- MODULE ReliableFifo -----------------------------
(***************************************************************************)
(* What a channel promises its application: the messages are handed over in *)
(* the order in which they were sent, none twice and none left out.  Nothing*)
(* is said of packets, sequence numbers, windows or acknowledgements.       *)
(***************************************************************************)
EXTENDS Naturals, Sequences

VARIABLES
  sent,        \* how many messages have been sent; message i is the i-th
  delivered    \* the messages handed to the receiving application

FInit == sent = 0 /\ delivered = <<>>

FSend == sent' = sent + 1 /\ UNCHANGED delivered

(* One call may hand over several messages: a packet that fills a gap frees   *)
(* all that waited behind it.                                                 *)
FDeliver ==
  \E n \in 1..(sent - Len(delivered)) :
    /\ delivered' = delivered \o [i \in 1..n |-> Len(delivered) + i - 1]
    /\ UNCHANGED sent

FSpec == FInit /\ [][FSend \/ FDeliver]_<<sent, delivered>>
=============================================================================
