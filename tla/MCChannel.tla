------------------------------ MODULE MCChannel ------------------------------
(***************************************************************************)
(* What is carried over a link: one direction of a channel, with limits     *)
(* small enough for every interleaving of a handful of messages, and        *)
(* resource transfers, with scenes that say what is transferred and what    *)
(* goes wrong.  part says which of the two a behaviour is about.            *)
(***************************************************************************)
EXTENDS Channel, ResourceTransfer

One(id, n) == <<[id |-> id, orig |-> id, parts |-> n, segment |-> 1, segments |-> 1]>>
Split(ids, n) ==
  [k \in DOMAIN ids |-> [id |-> ids[k], orig |-> ids[1], parts |-> n, segment |-> k, segments |-> Len(ids)]]

Idle == [transfers |-> <<>>, strategy |-> "all", rates |-> {"none"}, max_faults |-> 0,
         reorder |-> FALSE, hasty |-> FALSE, cancels |-> {}, dies |-> FALSE]
Scene(transfers) == [Idle EXCEPT !.transfers = transfers]

(* One resource: with one window, several, and more hashes than an            *)
(* advertisement holds; at every rate, with packets lost, and reordered.      *)
AtEveryRate == {[Scene(<<One("x", n)>>) EXCEPT !.rates = {"none", "fast", "very_slow"}] : n \in {1, 2, 3, 4, 7, 9}}
Lossy == {[Scene(<<One("x", n)>>) EXCEPT !.max_faults = 2] : n \in {1, 4, 5}}
Reordered == {[Scene(<<One("x", 3)>>) EXCEPT !.max_faults = 1, !.reorder = TRUE]}
LateAnswer == {[Scene(<<One("x", 4)>>) EXCEPT !.strategy = "app", !.max_faults = 2, !.hasty = TRUE]}

(* In segments, two at a time, cancelled, and with an end that goes silent. *)
Segmented == {[Scene(<<Split(<<"x", "y", "z">>, 2)>>) EXCEPT !.strategy = s] : s \in {"all", "app"}}
Together == {[Scene(<<One("x", 3), One("y", 2)>>) EXCEPT !.strategy = s, !.max_faults = 1] : s \in {"all", "app", "none"}}
Interrupted == {[Scene(t) EXCEPT !.cancels = {"a", "b"}, !.dies = TRUE] :
                  t \in {<<One("x", 3), One("y", 2)>>, <<Split(<<"x", "y">>, 1)>>}}

MCScenes ==
  {Idle} \union AtEveryRate \union Lossy \union Reordered \union LateAnswer \union Segmented
    \union Together \union Interrupted

(* In segments, with a packet lost *)
MCSegmentedLossy == {[Scene(<<Split(<<"x", "y">>, 1)>>) EXCEPT !.max_faults = 1]}

VARIABLE part

MCInit ==
  /\ part \in {"channel", "resource"}
  /\ Init /\ ResourceInit
  /\ (part = "channel") <=> (scene = Idle)
  /\ part # "channel" => rtt = "slow"

MCNext ==
  /\ UNCHANGED part
  /\ \/ part = "channel" /\ Next /\ UNCHANGED rvars
     \/ part = "resource" /\ ResourceNext /\ UNCHANGED vars

(* The fairness of the part that does nothing holds. *)
MCSpec == MCInit /\ [][MCNext]_<<part, vars, rvars>> /\ Fairness /\ ResourceFairness
=============================================================================
