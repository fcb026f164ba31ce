---------------------------- MODULE MCPathTable ----------------------------
(***************************************************************************)
(* Four instances of the path table.  In "operator", which the              *)
(* configuration gives, the paths of one destination are learned from       *)
(* announces over more next hops than are kept, and from an operator; in    *)
(* "tunnel" also from a tunnel.  In "many" there are more destinations than *)
(* fit, and some announces exceed the limit of two hops.  In "failing"      *)
(* paths are marked and expired, of two destinations of which one fits.     *)
(* There is one interface, whose paths expire before the tunnel's copies of *)
(* them do.                                                                 *)
(***************************************************************************)
EXTENDS PathTable

CONSTANTS i1, Two, Three, Pair

VARIABLE part

MCPathLife == i1 :> 1

Tunnel == INSTANCE PathTable WITH NextHops <- Two, Tunnels <- TRUE, TunnelLife <- 1,
                                 InjectedHops <- {}, MaxTime <- 2

Many == INSTANCE PathTable WITH
  NextHops <- Two, Destinations <- Three, Blobs <- {2, 3}, Hops <- {1, 2, 3}, MaxDestinations <- 2,
  MAX_RANDOM_BLOBS <- 1, PreferShorter <- FALSE, InjectedHops <- {}

Failing == INSTANCE PathTable WITH
  NextHops <- Two, Destinations <- Pair, MAX_RANDOM_BLOBS <- 1, PreferShorter <- FALSE,
  MayFail <- TRUE, InjectedHops <- {}

MCInit == part \in {"operator", "tunnel", "many", "failing"} /\ Init

MCNext ==
  /\ UNCHANGED part
  /\ \/ part = "operator" /\ Next
     \/ part = "tunnel" /\ Tunnel!Next
     \/ part = "many" /\ Many!Next
     \/ part = "failing" /\ Failing!Next

MCSpec == MCInit /\ [][MCNext]_<<part, vars>>

(* the instance that the configuration gives, alone *)
GivenSpec == part = "operator" /\ Init /\ [][UNCHANGED part /\ Next]_<<part, vars>>

(* Whatever is learned, restored, culled, truncated and evicted, the tables   *)
(* keep their limits and hold each next hop of a destination once.            *)
TableWellFormed == IF part = "many" THEN Many!WellFormed ELSE WellFormed

(* The primary path is the best one, lowest hops and then most recent, where  *)
(* no failover sets another in its place.                                     *)
BestFirst == part # "failing" => PrimaryIsBest

(* What the node knows of a destination does not go back in time, in the      *)
(* instance that the configuration gives.                                     *)
FreshnessKept == [][part = "operator" => StaysFresh]_vars

(* Destinations and next hops are told apart only by name. *)
MCSymmetry == Permutations(Three) \cup Permutations(Pair) \cup Permutations(Two)
=============================================================================
