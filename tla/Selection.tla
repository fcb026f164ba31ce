------------------------------ MODULE Selection ------------------------------
(***************************************************************************)
(* What Vec::retain and a filter leave of a sequence, from the places that  *)
(* are kept.                                                                *)
(***************************************************************************)
EXTENDS Integers, FiniteSets

(* The k-th of a set of places *)
Nth(keep, k) == CHOOSE i \in keep : Cardinality({j \in keep : j < i}) = k - 1

(* The members of s at the places in keep, in their order *)
Selected(s, keep) == [k \in 1..Cardinality(keep) |-> s[Nth(keep, k)]]
=============================================================================
