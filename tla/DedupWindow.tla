---------------------------- MODULE DedupWindow ----------------------------
(***************************************************************************)
(* What packet de-duplication promises: the last MaxSize different hashes   *)
(* are known, a hash that is known is not moved to the back when it is seen *)
(* again, and the oldest gives way to a new one.                            *)
(***************************************************************************)
EXTENDS Naturals, Sequences, Functions

CONSTANTS Hashes, MaxSize
VARIABLE retained       \* the known hashes, the oldest first

Retain(window, h) ==
  IF MaxSize = 0 \/ h \in Range(window) THEN window
  ELSE Append(IF Len(window) = MaxSize THEN Tail(window) ELSE window, h)

Init == retained = <<>>
Next == \E h \in Hashes : retained' = Retain(retained, h)
Spec == Init /\ [][Next]_retained
=============================================================================
