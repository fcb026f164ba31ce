-------------------------------- MODULE MCLink --------------------------------
(* One link with short intervals.  The responder takes the larger of the      *)
(* round-trip time it measured over the LRPROOF and the LRRTT and the one the *)
(* initiator sent it (handle_lrrtt), so its interval is never the shorter.    *)
EXTENDS Link

CloseIntervals == [e \in Ends |-> IF e = "initiator" THEN 4 ELSE 5]
OwnIntervals == [e \in Ends |-> IF e = "initiator" THEN 2 ELSE 4]
=============================================================================
