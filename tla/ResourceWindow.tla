--------------------------- MODULE ResourceWindow ---------------------------
(***************************************************************************)
(* WindowState of rns_core::resource: how many parts of a resource the      *)
(* receiver asks for at a time.  Unlike the window of a channel it ratchets *)
(* its lower bound up, and window_max may come to lie below window when a   *)
(* link turns out to be very slow.                                          *)
(*                                                                          *)
(* A rate matters only through the thresholds it is compared with: "fast",  *)
(* "normal", "very_slow", or "none" when no time has passed to measure it.  *)
(***************************************************************************)
EXTENDS Integers

CONSTANTS
  RESOURCE_WINDOW, RESOURCE_WINDOW_MIN, RESOURCE_WINDOW_FLEXIBILITY,
  RESOURCE_WINDOW_MAX_SLOW, RESOURCE_WINDOW_MAX_VERY_SLOW, RESOURCE_WINDOW_MAX_FAST,
  RESOURCE_FAST_RATE_THRESHOLD, RESOURCE_VERY_SLOW_RATE_THRESHOLD

RateClasses == {"none", "fast", "normal", "very_slow"}

ASSUME ResourceWindowAssumption ==
  /\ RESOURCE_WINDOW \in Nat /\ RESOURCE_WINDOW_MIN \in Nat \ {0}
  /\ RESOURCE_WINDOW_FLEXIBILITY \in Nat \ {0}
  /\ RESOURCE_WINDOW_MAX_SLOW \in Nat /\ RESOURCE_WINDOW_MAX_VERY_SLOW \in Nat
  /\ RESOURCE_WINDOW_MAX_FAST \in Nat
  /\ RESOURCE_FAST_RATE_THRESHOLD \in Nat /\ RESOURCE_VERY_SLOW_RATE_THRESHOLD \in Nat
  /\ RESOURCE_WINDOW_MIN <= RESOURCE_WINDOW /\ RESOURCE_WINDOW <= RESOURCE_WINDOW_MAX_SLOW
  /\ RESOURCE_WINDOW_MIN <= RESOURCE_WINDOW_MAX_VERY_SLOW
  /\ RESOURCE_WINDOW_MAX_VERY_SLOW <= RESOURCE_WINDOW_MAX_FAST
  /\ RESOURCE_WINDOW_MAX_SLOW <= RESOURCE_WINDOW_MAX_FAST

NewResourceWindow ==
  [window |-> RESOURCE_WINDOW, window_max |-> RESOURCE_WINDOW_MAX_SLOW,
   window_min |-> RESOURCE_WINDOW_MIN, fast_rate_rounds |-> 0, very_slow_rate_rounds |-> 0]

(* Mutant of OnWindowComplete: the lower bound is raised with every window. *)
OnWindowCompleteRatchets(w) ==
  IF w.window >= w.window_max THEN [w EXCEPT !.window_min = @ + 1]
  ELSE [w EXCEPT !.window = @ + 1, !.window_min = @ + 1]

(* on_window_complete *)
OnWindowComplete(w) ==
  IF w.window >= w.window_max THEN w
  ELSE [w EXCEPT !.window = @ + 1,
                 !.window_min = IF w.window + 1 - @ > RESOURCE_WINDOW_FLEXIBILITY - 1 THEN @ + 1 ELSE @]

(* on_timeout *)
OnTimeout(w) ==
  IF w.window <= w.window_min THEN w
  ELSE [w EXCEPT !.window = @ - 1,
                 !.window_max =
                   IF @ <= w.window_min THEN @
                   ELSE IF @ - w.window > RESOURCE_WINDOW_FLEXIBILITY - 1 THEN @ - 2 ELSE @ - 1]

(* update_req_resp_rate *)
UpdateReqRespRate(w, rate) ==
  IF rate # "fast" \/ w.fast_rate_rounds >= RESOURCE_FAST_RATE_THRESHOLD THEN w
  ELSE [w EXCEPT !.fast_rate_rounds = @ + 1,
                 !.window_max = IF w.fast_rate_rounds + 1 = RESOURCE_FAST_RATE_THRESHOLD
                                THEN RESOURCE_WINDOW_MAX_FAST ELSE @]

(* update_data_rate: the same, and a link is found very slow if it was never  *)
(* fast.                                                                      *)
UpdateDataRate(w, rate) ==
  LET f == UpdateReqRespRate(w, rate)
  IN  IF \/ rate # "very_slow" \/ f.fast_rate_rounds # 0
         \/ f.very_slow_rate_rounds >= RESOURCE_VERY_SLOW_RATE_THRESHOLD
      THEN f
      ELSE [f EXCEPT !.very_slow_rate_rounds = @ + 1,
                     !.window_max =
                       IF f.very_slow_rate_rounds + 1 = RESOURCE_VERY_SLOW_RATE_THRESHOLD
                       THEN RESOURCE_WINDOW_MAX_VERY_SLOW ELSE @]

(* The window never closes, never falls below its ratchet and never exceeds   *)
(* the fast limit, which the sender's search for requested parts relies on;   *)
(* window_max never falls so low that usize arithmetic would wrap.            *)
WithinLimits(w) ==
  /\ RESOURCE_WINDOW_MIN <= w.window_min /\ w.window_min <= w.window
  /\ w.window <= RESOURCE_WINDOW_MAX_FAST
  /\ RESOURCE_WINDOW_MIN <= w.window_max /\ w.window_max <= RESOURCE_WINDOW_MAX_FAST
=============================================================================
