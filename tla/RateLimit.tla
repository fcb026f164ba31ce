----------------------------- MODULE RateLimit ------------------------------
(***************************************************************************)
(* The AnnounceRateLimiter for the announces of one destination: announces  *)
(* that come sooner than rate_target after the last one are violations, and *)
(* more violations than the grace block the destination for a while.  The   *)
(* entries of different destinations do not interact.                       *)
(***************************************************************************)
EXTENDS Integers

CONSTANTS
  RATE_TARGET, RATE_GRACE, RATE_PENALTY,
  RATE_TTL,                \* rate_table_ttl of cull_stale
  MaxNow                   \* bound: the clock

ASSUME RateAssumption ==
  RATE_TARGET \in Nat \ {0} /\ RATE_GRACE \in Nat /\ RATE_PENALTY \in Nat /\ RATE_TTL \in Nat

VARIABLES
  clock,
  known,                   \* there is an entry
  last, rate_violations, blocked_until,
  let_in                   \* ghost: an announce got through since the last block was set

rlvars == <<clock, known, last, rate_violations, blocked_until, let_in>>

Violations ==
  IF clock - last < RATE_TARGET THEN rate_violations + 1
  ELSE IF rate_violations = 0 THEN 0 ELSE rate_violations - 1

BlockedUntil == last + RATE_TARGET + RATE_PENALTY

(* Mutant of CheckAndUpdate: a refused announce counts as the last one. *)
CheckAndUpdateMoves ==
  /\ UNCHANGED clock
  /\ IF ~known
     THEN known' = TRUE /\ last' = clock /\ rate_violations' = 0 /\ blocked_until' = 0 /\ let_in' = TRUE
     ELSE IF clock > blocked_until
     THEN /\ rate_violations' = Violations
          /\ last' = clock
          /\ IF Violations > RATE_GRACE THEN blocked_until' = BlockedUntil /\ let_in' = FALSE
             ELSE let_in' = TRUE /\ UNCHANGED blocked_until
          /\ UNCHANGED known
     ELSE last' = clock /\ UNCHANGED <<known, rate_violations, blocked_until, let_in>>

(* check_and_update *)
CheckAndUpdate ==
  /\ UNCHANGED clock
  /\ IF ~known
     THEN known' = TRUE /\ last' = clock /\ rate_violations' = 0 /\ blocked_until' = 0 /\ let_in' = TRUE
     ELSE IF clock > blocked_until
     THEN /\ rate_violations' = Violations
          /\ IF Violations > RATE_GRACE THEN blocked_until' = BlockedUntil /\ let_in' = FALSE /\ UNCHANGED last
             ELSE last' = clock /\ let_in' = TRUE /\ UNCHANGED blocked_until
          /\ UNCHANGED known
     ELSE UNCHANGED <<known, last, rate_violations, blocked_until, let_in>>

(* cull_stale, for a destination without a path *)
CullStale ==
  /\ known /\ clock - last >= RATE_TTL
  /\ known' = FALSE /\ last' = 0 /\ rate_violations' = 0 /\ blocked_until' = 0
  /\ UNCHANGED <<clock, let_in>>

Advance == clock < MaxNow /\ clock' = clock + 1 /\ UNCHANGED <<known, last, rate_violations, blocked_until, let_in>>

RlInit == clock = 1 /\ known = FALSE /\ last = 0 /\ rate_violations = 0 /\ blocked_until = 0 /\ let_in = TRUE

RlNext == CheckAndUpdate \/ CullStale \/ Advance

RlSpec == RlInit /\ [][RlNext]_rlvars

-----------------------------------------------------------------------------
(* A destination is blocked for one span at a time: announces that keep       *)
(* coming while it is blocked do not prolong the block, and the first one     *)
(* after it gets through, so that a block is only ever set after an announce  *)
(* got through.                                                               *)
OneBlockAtATime == [][known' /\ blocked_until' # blocked_until => ~known \/ let_in]_rlvars
=============================================================================
