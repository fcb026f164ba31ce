---------------------------- MODULE MCForwarding ----------------------------
(***************************************************************************)
(* Instances of Forwarding: networks whose paths are what announces leave.  *)
(***************************************************************************)
EXTENDS Forwarding, TLC

Path(via, hops, iface) == [via |-> via, hops |-> hops, iface |-> iface]

(* A network where no link is up, from A to B *)
Network(members, transport, path_, others) ==
  LET nodes == UNION {members[m] : m \in DOMAIN members}
  IN  [members |-> members, local |-> {}, transport |-> transport, clients |-> {},
       delta |-> [n \in nodes |-> 0], path |-> path_,
       others |-> [n \in nodes |-> IF n \in DOMAIN others THEN others[n] ELSE {}],
       from |-> "A", to |-> "B", sends |-> {"data", "link", "msg"}, answers |-> {"data", "link", "msg"},
       link_table |-> [n \in nodes |-> Empty], links |-> [n \in nodes |-> NoLink], crossed |-> {},
       max_faults |-> 3]

(* A - T1 - T2 - B, where T2 may come to send the other way. *)
Chain == Network(
  [m1 |-> {"A", "T1"}, m2 |-> {"T1", "T2"}, m3 |-> {"T2", "B"}], {"T1", "T2"},
  [A |-> Path("T1", 3, "m1"), T1 |-> Path("T2", 2, "m2"), T2 |-> Path(Dest, 1, "m3"), B |-> NoPath],
  [T1 |-> {NoPath}, T2 |-> {Path("T1", 3, "m2"), NoPath}])

(* The same nodes on one radio channel, where all hear each other. *)
Radio == [Network(
  [m |-> {"A", "T1", "T2", "B"}], {"T1", "T2"},
  [A |-> Path("T1", 3, "m"), T1 |-> Path("T2", 2, "m"), T2 |-> Path(Dest, 1, "m"), B |-> NoPath],
  [T1 |-> {Path(Dest, 1, "m")}, T2 |-> {Path("T1", 3, "m")}])
  EXCEPT !.answers = {}, !.max_faults = 1]

(* The network with its link up, and a message to send on it *)
Entry(next, remaining, received, taken) ==
  LinkId :> [next_hop_interface |-> next, remaining_hops |-> remaining,
             received_interface |-> received, taken_hops |-> taken, validated |-> TRUE]
Linked(network, tables, media) ==
  [network EXCEPT
     !.link_table = [n \in DOMAIN @ |-> IF n \in DOMAIN tables THEN tables[n] ELSE @[n]],
     !.links = [n \in DOMAIN @ |-> IF n \in DOMAIN media
                                    THEN [state |-> "active", iface |-> media[n], tid |-> None] ELSE @[n]],
     !.crossed = DOMAIN network.members, !.sends = {"msg"}]

(* A, T1 and T2 on a radio channel, and B behind T2: T2 hears what A sends    *)
(* before T1 has passed it on.                                                *)
RadioLeg == Network(
  [m |-> {"A", "T1", "T2"}, m3 |-> {"T2", "B"}], {"T1", "T2"},
  [A |-> Path("T1", 3, "m"), T1 |-> Path("T2", 2, "m"), T2 |-> Path(Dest, 1, "m3"), B |-> NoPath],
  [T1 |-> {NoPath}, T2 |-> {Path("T1", 3, "m")}])
RadioLegUp == Linked(RadioLeg, [T1 |-> Entry("m", 2, "m", 1), T2 |-> Entry("m3", 1, "m", 2)],
                     [A |-> "m", B |-> "m3"])

(* A, T1 and B on one channel *)
RadioUp == Linked(
  Network([m |-> {"A", "T1", "B"}], {"T1"},
          [A |-> Path("T1", 2, "m"), T1 |-> Path(Dest, 1, "m"), B |-> NoPath], <<>>),
  [T1 |-> Entry("m", 1, "m", 1)], [A |-> "m", B |-> "m"])

(* A - T = B, with two media between T and B.  The proof of data goes over    *)
(* both, and only one of them brings it back to A.                            *)
Double == [Network(
  [m1 |-> {"A", "T1"}, m2 |-> {"T1", "B"}, m3 |-> {"T1", "B"}], {"T1"},
  [A |-> Path("T1", 2, "m1"), T1 |-> Path(Dest, 1, "m2"), B |-> NoPath],
  [T1 |-> {Path(Dest, 1, "m3")}])
  EXCEPT !.answers = {"link", "msg"}]

(* Clients A and B of two daemons that mask the hops of what comes from them. *)
Shared(delta) == [Network(
  [l1 |-> {"A", "D1"}, m |-> {"D1", "D2"}, l2 |-> {"B", "D2"}], {"D1", "D2"},
  [A |-> Path("D1", 1 + delta, "l1"), D1 |-> Path("D2", 1 + delta, "m"),
   D2 |-> Path(Dest, 0, "l2"), B |-> NoPath],
  [D2 |-> {NoPath}])
  EXCEPT !.local = {"l1", "l2"}, !.clients = {"A", "B"},
         !.delta = [@ EXCEPT !["D1"] = delta, !["D2"] = delta], !.sends = @ \cup {"plain"}]

(* The daemons joined by two media *)
SharedTwice == [Network(
  [l1 |-> {"A", "D1"}, m |-> {"D1", "D2"}, m2 |-> {"D1", "D2"}, l2 |-> {"B", "D2"}], {"D1", "D2"},
  [A |-> NoPath, D1 |-> NoPath, D2 |-> NoPath, B |-> NoPath], <<>>)
  EXCEPT !.local = {"l1", "l2"}, !.clients = {"A", "B"}, !.sends = {"plain"}, !.max_faults = 1]

(* A and B, where B masks the hops of its own destination. *)
MaskedDest == [Network([m |-> {"A", "B"}], {"B"}, [A |-> Path("B", 3, "m"), B |-> NoPath], <<>>)
  EXCEPT !.delta = [A |-> 0, B |-> 2]]

(* Data, or a link and a message on it. *)
OnlyData(network) == [network EXCEPT !.sends = @ \cap {"data", "plain"}]
OnlyLink(network) == [network EXCEPT !.sends = @ \cap {"link", "msg"}]

MCNetworks ==
  {OnlyData(k) : k \in {Chain, Radio, RadioLeg, Double, Shared(0), Shared(2), MaskedDest}}
    \cup {OnlyLink(k) : k \in {Chain, Double, Shared(0), Shared(2)}}
    \cup {RadioLegUp, RadioUp, SharedTwice}
MCMasked == {OnlyLink(MaskedDest)}
=============================================================================
