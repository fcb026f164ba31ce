--------------------------- MODULE IngressControl ---------------------------
(***************************************************************************)
(* What one interface does with a burst of announces and path requests: the *)
(* announces of destinations without a path are held while the burst lasts  *)
(* and released one by one, and path requests are not passed on.  The state *)
(* is per interface and interfaces do not interact.                         *)
(*                                                                          *)
(* The announce and request frequencies are compared with the thresholds    *)
(* only; they are the environment's.  Times are kept as what is left of     *)
(* them: hold_left until now > burst_activated + burst_hold, release_left   *)
(* until now >= held_release.                                               *)
(***************************************************************************)
EXTENDS Integers, FiniteSets, Functions

CONSTANTS
  Senders,                 \* destinations announces come from
  Distances,               \* hop counts of announces
  BURST_HOLD, BURST_PENALTY, HELD_RELEASE_INTERVAL,
  MaxHeld,                 \* max_held_announces
  MaxSwings                \* bound: changes of the frequency

ASSUME IngressAssumption ==
  /\ BURST_HOLD \in Nat /\ BURST_PENALTY \in Nat /\ HELD_RELEASE_INTERVAL \in Nat
  /\ HELD_RELEASE_INTERVAL <= BURST_PENALTY

VARIABLES
  ia_freq, pr_freq,        \* "below", "at" or "above" their threshold
  burst_active, hold_left,
  pr_burst_active, pr_hold_left,
  release_left,
  held,                    \* destination -> hops of the announce held for it
  passed,                  \* destinations with a path
  swings,
  quiet                    \* ghost: time since the last burst and the last release

icvars == <<ia_freq, pr_freq, burst_active, hold_left, pr_burst_active, pr_hold_left, release_left,
            held, passed, swings, quiet>>

Less(n) == IF n = 0 THEN 0 ELSE n - 1
Longest == BURST_PENALTY

(* should_ingress_limit, whose result is the first of the tuple *)
Limit(active, left, freq) ==
  IF active THEN IF freq = "below" /\ left = 0 THEN <<FALSE, FALSE, left>> ELSE <<TRUE, TRUE, left>>
  ELSE IF freq = "above" THEN <<TRUE, TRUE, BURST_HOLD + 1>> ELSE <<FALSE, FALSE, left>>

(* should_hold_announce and hold_announce *)
ArriveAnnounce(d, hops) ==
  LET limited == Limit(burst_active, hold_left, ia_freq)
  IN  /\ d \notin passed
      /\ burst_active' = limited[2] /\ hold_left' = limited[3]
      /\ release_left' = IF limited[2] /\ ~burst_active THEN BURST_PENALTY ELSE release_left
      /\ quiet' = IF limited[2] /\ ~burst_active THEN [quiet EXCEPT !.burst = 0] ELSE quiet
      /\ IF ~limited[1] THEN passed' = passed \union {d} /\ UNCHANGED held
         ELSE /\ held' = IF d \in DOMAIN held \/ Cardinality(DOMAIN held) < MaxHeld
                         THEN [x \in DOMAIN held \union {d} |-> IF x = d THEN hops ELSE held[x]] ELSE held
              /\ UNCHANGED passed
      /\ UNCHANGED <<ia_freq, pr_freq, pr_burst_active, pr_hold_left, swings>>

(* An announce that answers a path request, or that one waits for, is not held. *)
ArriveAwaited(d) ==
  /\ d \notin passed
  /\ passed' = passed \union {d}
  /\ UNCHANGED <<ia_freq, pr_freq, burst_active, hold_left, pr_burst_active, pr_hold_left, release_left, held,
                 swings, quiet>>

(* should_ingress_limit_pr *)
ArrivePathRequest ==
  LET limited == Limit(pr_burst_active, pr_hold_left, pr_freq)
  IN  /\ pr_burst_active' = limited[2] /\ pr_hold_left' = limited[3]
      /\ UNCHANGED <<ia_freq, pr_freq, burst_active, hold_left, release_left, held, passed, swings, quiet>>

-----------------------------------------------------------------------------
(* Mutant of ReleaseGuard: no time is waited for. *)
ReleaseGuardUntimed == held # <<>> /\ ia_freq = "below"

ReleaseGuard == held # <<>> /\ release_left = 0 /\ ia_freq = "below"

(* process_tick_ingress_release: the nearest one is let in. *)
Release ==
  /\ ReleaseGuard
  /\ \E d \in {x \in DOMAIN held : \A y \in DOMAIN held : held[x] <= held[y]} :
       held' = Restrict(held, DOMAIN held \ {d}) /\ passed' = passed \union {d}
  /\ burst_active' = FALSE
  /\ release_left' = HELD_RELEASE_INTERVAL
  /\ quiet' = [quiet EXCEPT !.release = 0]
  /\ UNCHANGED <<ia_freq, pr_freq, hold_left, pr_burst_active, pr_hold_left, swings>>

PassTime ==
  /\ hold_left' = Less(hold_left) /\ pr_hold_left' = Less(pr_hold_left) /\ release_left' = Less(release_left)
  /\ quiet' = [q \in DOMAIN quiet |-> IF quiet[q] < Longest THEN quiet[q] + 1 ELSE Longest]
  /\ UNCHANGED <<ia_freq, pr_freq, burst_active, pr_burst_active, held, passed, swings>>

(* external: the traffic on the interface *)
Swing(ia, pr) ==
  /\ swings < MaxSwings /\ swings' = swings + 1
  /\ ia_freq' = ia /\ pr_freq' = pr
  /\ UNCHANGED <<burst_active, hold_left, pr_burst_active, pr_hold_left, release_left, held, passed, quiet>>

Levels == {"below", "at", "above"}

IcInit ==
  /\ ia_freq \in Levels /\ pr_freq \in Levels
  /\ burst_active = FALSE /\ hold_left = 0 /\ pr_burst_active = FALSE /\ pr_hold_left = 0
  /\ release_left = 0 /\ held = <<>> /\ passed = {} /\ swings = 0
  /\ quiet = [burst |-> Longest, release |-> Longest]

IcNext ==
  \/ \E d \in Senders, hops \in Distances : ArriveAnnounce(d, hops)
  \/ \E d \in Senders : ArriveAwaited(d)
  \/ ArrivePathRequest
  \/ Release
  \/ PassTime
  \/ \E ia \in Levels, pr \in Levels : Swing(ia, pr)

IcSpec == IcInit /\ [][IcNext]_icvars

(* The driver ticks, and time passes. *)
IcFairness ==
  /\ []<>(~ReleaseGuard) \/ []<><<Release>>_icvars
  /\ []<>(release_left = 0) \/ []<><<PassTime>>_icvars

-----------------------------------------------------------------------------
(* A release waits for the whole penalty of the last burst and for the        *)
(* release interval after the last release, even when a burst ended because   *)
(* an announce got through and another began.                                 *)
ReleasesSpaced ==
  [][Cardinality(DOMAIN held') < Cardinality(DOMAIN held) => quiet.burst >= BURST_PENALTY
                                                            /\ quiet.release >= HELD_RELEASE_INTERVAL]_icvars

(* When the announces fall below the threshold for good, everything held gets *)
(* through.                                                                   *)
HeldReleased == <>[](ia_freq = "below") => <>[](held = <<>>)
=============================================================================
