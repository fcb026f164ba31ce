---------------------------- MODULE ChannelWindow ----------------------------
(***************************************************************************)
(* The adaptive send window of rns_core::channel::Channel.                  *)
(*                                                                          *)
(* A channel may have at most `window` unacknowledged envelopes.  Every     *)
(* acknowledged envelope widens the window by one, up to window_max; every  *)
(* retransmission narrows it by one, down to window_min, and may lower      *)
(* window_max with it.  A run of acknowledgements at a low round-trip time  *)
(* promotes the channel to a faster class with a larger window_max and      *)
(* window_min.                                                              *)
(*                                                                          *)
(* The round-trip time only matters through the thresholds it is compared   *)
(* with, so `rtt` is one of five classes instead of a float.                *)
(***************************************************************************)
EXTENDS Integers

CONSTANTS
  CHANNEL_WINDOW, CHANNEL_WINDOW_MIN, CHANNEL_WINDOW_FLEXIBILITY,
  CHANNEL_WINDOW_MAX_SLOW, CHANNEL_WINDOW_MAX_MEDIUM, CHANNEL_WINDOW_MAX_FAST,
  CHANNEL_WINDOW_MIN_LIMIT_MEDIUM, CHANNEL_WINDOW_MIN_LIMIT_FAST,
  CHANNEL_FAST_RATE_THRESHOLD,
  ROUND_MODULUS,        \* 2^16: the round counters are u16 and wrap
  Rtts                  \* the round-trip classes a run distinguishes

RttClasses == {"zero", "fast", "medium", "slow", "very_slow"}

ASSUME WindowAssumption ==
  /\ CHANNEL_WINDOW \in Nat /\ CHANNEL_WINDOW_MIN \in Nat
  /\ CHANNEL_WINDOW_FLEXIBILITY \in Nat
  /\ CHANNEL_WINDOW_MAX_SLOW \in Nat /\ CHANNEL_WINDOW_MAX_MEDIUM \in Nat
  /\ CHANNEL_WINDOW_MAX_FAST \in Nat
  /\ CHANNEL_WINDOW_MIN_LIMIT_MEDIUM \in Nat
  /\ CHANNEL_WINDOW_MIN_LIMIT_FAST \in Nat
  /\ CHANNEL_FAST_RATE_THRESHOLD \in Nat \ {0}
  /\ ROUND_MODULUS \in Nat /\ ROUND_MODULUS > CHANNEL_FAST_RATE_THRESHOLD
  /\ 1 <= CHANNEL_WINDOW_MIN /\ CHANNEL_WINDOW_MIN <= CHANNEL_WINDOW
  /\ CHANNEL_WINDOW <= CHANNEL_WINDOW_MAX_SLOW
  /\ CHANNEL_WINDOW_MAX_SLOW <= CHANNEL_WINDOW_MAX_MEDIUM
  /\ CHANNEL_WINDOW_MAX_MEDIUM <= CHANNEL_WINDOW_MAX_FAST
  /\ 1 <= CHANNEL_WINDOW_MIN_LIMIT_MEDIUM
  /\ CHANNEL_WINDOW_MIN_LIMIT_MEDIUM <= CHANNEL_WINDOW_MAX_MEDIUM
  /\ 1 <= CHANNEL_WINDOW_MIN_LIMIT_FAST
  /\ CHANNEL_WINDOW_MIN_LIMIT_FAST <= CHANNEL_WINDOW_MAX_FAST
  /\ Rtts \subseteq RttClasses

VARIABLES
  window, window_max, window_min, window_flexibility,
  fast_rate_rounds, medium_rate_rounds, rtt

wvars == <<window, window_max, window_min, window_flexibility,
           fast_rate_rounds, medium_rate_rounds, rtt>>

Min2(a, b) == IF a <= b THEN a ELSE b
Monus(a, b) == IF a >= b THEN a - b ELSE 0

-----------------------------------------------------------------------------
(* Channel::new: a link slower than CHANNEL_RTT_SLOW starts with a window of *)
(* one that can never grow; any other starts in the slow class.              *)
NewWindow ==
  /\ rtt \in Rtts
  /\ fast_rate_rounds = 0 /\ medium_rate_rounds = 0
  /\ IF rtt = "very_slow"
       THEN /\ window = 1 /\ window_max = 1
            /\ window_min = 1 /\ window_flexibility = 1
       ELSE /\ window = CHANNEL_WINDOW /\ window_max = CHANNEL_WINDOW_MAX_SLOW
            /\ window_min = CHANNEL_WINDOW_MIN
            /\ window_flexibility = CHANNEL_WINDOW_FLEXIBILITY

(* set_rtt *)
SetRtt(r) ==
  /\ rtt' = r
  /\ UNCHANGED <<window, window_max, window_min, window_flexibility,
                 fast_rate_rounds, medium_rate_rounds>>

(* A round of the class that promotes to `limit`: the counter is advanced and *)
(* the promotion happens on the delivery that brings it to the threshold.     *)
Promote(rounds, limit, floor) ==
  IF rounds = CHANNEL_FAST_RATE_THRESHOLD /\ window_max < limit
    THEN window_max' = limit /\ window_min' = floor
    ELSE UNCHANGED <<window_max, window_min>>

(* adapt_window_on_delivery.  A fast delivery leaves medium_rate_rounds alone. *)
AdaptOnDelivery ==
  \/ /\ rtt = "zero"
     /\ UNCHANGED <<window_max, window_min, fast_rate_rounds, medium_rate_rounds>>
  \/ /\ rtt = "fast"
     /\ fast_rate_rounds' = (fast_rate_rounds + 1) % ROUND_MODULUS
     /\ Promote(fast_rate_rounds', CHANNEL_WINDOW_MAX_FAST, CHANNEL_WINDOW_MIN_LIMIT_FAST)
     /\ UNCHANGED medium_rate_rounds
  \/ /\ rtt = "medium"
     /\ fast_rate_rounds' = 0
     /\ medium_rate_rounds' = (medium_rate_rounds + 1) % ROUND_MODULUS
     /\ Promote(medium_rate_rounds', CHANNEL_WINDOW_MAX_MEDIUM, CHANNEL_WINDOW_MIN_LIMIT_MEDIUM)
  \/ /\ rtt \in {"slow", "very_slow"}
     /\ fast_rate_rounds' = 0 /\ medium_rate_rounds' = 0
     /\ UNCHANGED <<window_max, window_min>>

(* The window part of packet_delivered. *)
WindowDelivered ==
  /\ window' = IF window < window_max THEN window + 1 ELSE window
  /\ AdaptOnDelivery
  /\ UNCHANGED <<window_flexibility, rtt>>

(* A mutant of WindowTimedOut: the floor is forgotten. *)
WindowTimedOutUnfloored(n) ==
  /\ window' = window - n
  /\ UNCHANGED <<window_max, window_min, window_flexibility,
                 fast_rate_rounds, medium_rate_rounds, rtt>>

(* The window part of n successive packet_timeout retries (one tick may      *)
(* retransmit several envelopes): each narrows the window while it is above   *)
(* window_min, and with it window_max while that exceeds window_min + flex.   *)
WindowTimedOut(n) ==
  LET shrunk == Min2(n, Monus(window, window_min))
  IN  /\ window' = window - shrunk
      /\ window_max' = window_max
           - Min2(shrunk, Monus(window_max, window_min + window_flexibility))
      /\ UNCHANGED <<window_min, window_flexibility,
                     fast_rate_rounds, medium_rate_rounds, rtt>>

-----------------------------------------------------------------------------
(* The window on its own, under any sequence of deliveries and timeouts.      *)
WNext ==
  \/ WindowDelivered
  \/ \E n \in 1..CHANNEL_WINDOW_MAX_FAST : WindowTimedOut(n)
  \/ \E r \in Rtts : SetRtt(r)

WSpec == NewWindow /\ [][WNext]_wvars

WTypeOK ==
  /\ window \in Nat /\ window_max \in Nat /\ window_min \in Nat
  /\ window_flexibility \in Nat
  /\ fast_rate_rounds \in 0..(ROUND_MODULUS - 1)
  /\ medium_rate_rounds \in 0..(ROUND_MODULUS - 1)
  /\ rtt \in RttClasses

(* is_ready_to_send compares with `window`: it never reaches zero (a channel  *)
(* with a zero window could not send again, as only deliveries widen it), and *)
(* no promotion or timeout leaves it above window_max, or window_max above    *)
(* the fast limit the receiver's wrap-around test assumes.                    *)
WindowBounds ==
  /\ 1 <= window /\ window <= window_max
  /\ 1 <= window_min /\ window_min <= window_max
  /\ window_max <= CHANNEL_WINDOW_MAX_FAST
=============================================================================
