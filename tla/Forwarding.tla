----------------------------- MODULE Forwarding -----------------------------
(***************************************************************************)
(* Packets crossing a network of nodes that all run TransportEngine: the    *)
(* packet filter, forwarding by the path table, the reverse table that      *)
(* brings proofs back, the link table that carries a link's traffic, the    *)
(* bridging of broadcasts to local clients, and routing of a node's own     *)
(* packets.  handle_inbound and the dispatch of its actions, delivery and   *)
(* the answer to it included, are one step of a node's driver.              *)
(*                                                                          *)
(* A medium joins nodes, and is an interface of each; what is sent over it  *)
(* comes to all others, in any order.  One destination, Dest, is owned by   *)
(* the node net.to; net.from sends to it.  Announces are in other modules:  *)
(* here the paths they leave are given, right, stale or looping.            *)
(***************************************************************************)
EXTENDS Integers, FiniteSets, Sequences, Functions

CONSTANTS
  Networks,      \* the networks, with their path tables, that Init picks from
  HashlistSize        \* entries of a packet hashlist

VARIABLES
  net,                         \* the network (constant)
  path,                        \* path_table of each node: its path to Dest
  hashlist,                    \* packet_hashlist
  link_table, reverse_table,
  air,                         \* the frames on their way
  sent_packets,                \* hashes awaiting proof
  links,                       \* LinkManager: each node's end of the link
  sends, faults,               \* what is still to be sent, faults so far
  crossed,                     \* ghost: the media each packet was sent over
  forwards,                    \* ghost: how often each node passed each on
  carried,                     \* ghost: the media they did it over
  delivered                    \* ghost: what reached applications, how often

fvars == <<net, path, hashlist, link_table, reverse_table, air, sent_packets,
           links, sends, faults, crossed, forwards, carried, delivered>>

None == "none"
Dest == "dest"
LinkId == "link"
Plain == "plain"
Packets == {"data", "data_proof", "lr", "lrproof", "rtt", "msg", "msg_proof", "plain"}
NoPath == [via |-> None, hops |-> 0, iface |-> None]
NoLink == [state |-> "none", iface |-> None, tid |-> None]

LinkFields == {"next_hop_interface", "remaining_hops", "received_interface", "taken_hops", "validated"}

(* What the networks are: data and links go from one node to another; the     *)
(* owner of a destination has no path to it, since it leaves announces of its *)
(* own destinations alone; a link that is up runs where its request went; and *)
(* the hashlists hold the packets that are about.                             *)
Proper(k) ==
  LET nodes == UNION {k.members[m] : m \in DOMAIN k.members}
      Media(e) == {e.next_hop_interface, e.received_interface}
  IN  /\ {k.from, k.to} \subseteq nodes /\ k.from # k.to
      /\ DOMAIN k.path = nodes /\ k.path[k.to] = NoPath /\ k.others[k.to] \subseteq {NoPath}
      /\ DOMAIN k.link_table = nodes
      /\ \A n \in nodes : DOMAIN k.link_table[n] \subseteq (IF n = k.to THEN {} ELSE {LinkId})
      /\ \A n \in nodes : \A l \in DOMAIN k.link_table[n] :
           DOMAIN k.link_table[n][l] = LinkFields /\ Media(k.link_table[n][l]) \subseteq k.crossed
      /\ DOMAIN k.links = nodes
      /\ \A n \in nodes : /\ DOMAIN k.links[n] = DOMAIN NoLink
                          /\ k.links[n].state \in (IF n \in {k.from, k.to} THEN {"none", "active"} ELSE {"none"})

ASSUME ForwardingAssumption ==
  /\ HashlistSize \in Nat /\ Cardinality(Packets) <= HashlistSize
  /\ \A k \in Networks : Proper(k)

Recent == INSTANCE DedupWindow WITH Hashes <- Packets, MaxSize <- HashlistSize, retained <- <<>>
(* packet_hashlist.add of the hash, if any, in a set of at most one *)
Remember(window, hashes) ==
  IF hashes = {} THEN window ELSE Recent!Retain(window, CHOOSE h \in hashes : TRUE)

Packet(type, context, dest, hash) ==
  [type |-> type, context |-> context, dest |-> dest, hash |-> hash, tid |-> None, hops |-> 0]
Data     == Packet("DATA", "none", Dest, "data")
DataProof == Packet("PROOF", "none", "data", "data_proof")
LinkRequest == Packet("LINKREQUEST", "none", Dest, "lr")
LrProof  == Packet("PROOF", "LRPROOF", LinkId, "lrproof")
LrRtt    == Packet("DATA", "LRRTT", LinkId, "rtt")
Message  == Packet("DATA", "CHANNEL", LinkId, "msg")
MessageProof == Packet("PROOF", "none", LinkId, "msg_proof")
Broadcast == Packet("DATA", "none", Plain, "plain")

Nodes == UNION {net.members[m] : m \in DOMAIN net.members}
Empty == [x \in {} |-> x]
With(table, k, e) == [x \in DOMAIN table \cup {k} |-> IF x = k THEN e ELSE table[x]]
Ifaces(n) == {m \in DOMAIN net.members : n \in net.members[m]}
IsLocal(m) == m \in net.local                   \* interface_is_local_client
IsClient(n) == n \in net.clients                \* no identity_hash of its own
Delta(n) == net.delta[n]                        \* local_hops_delta

-----------------------------------------------------------------------------
(* Routing of a node's own packets *)

(* raw_for_interface: on other than local interfaces the hops of an own       *)
(* packet may be masked.                                                      *)
Masked(n, p, m) ==
  IF Delta(n) # 0 /\ p.hops = 0 /\ p.dest # Plain /\ ~IsLocal(m)
  THEN [p EXCEPT !.hops = Delta(n)] ELSE p

(* route_outbound: what is sent, and over which interfaces *)
RouteOutbound(n, p, attached) ==
  LET e == path[n]
      ViaTransport == \/ e.hops > 1
                      \/ e.hops = 1 /\ (e.via # Dest \/ IsLocal(e.iface))
  IN  IF p.dest = Dest /\ e # NoPath
      THEN {<<e.iface, [Masked(n, p, e.iface) EXCEPT !.tid = IF ViaTransport THEN e.via ELSE None]>>}
      ELSE IF attached # None THEN {<<attached, Masked(n, p, attached)>>}
      ELSE {<<m, p>> : m \in Ifaces(n)}

(* SendPacket of the link manager: over the interface the link's packets come *)
(* from, and addressed to the transport they named.                           *)
LinkSends(n, link, p) ==
  RouteOutbound(n, [p EXCEPT !.tid = link.tid], link.iface)

-----------------------------------------------------------------------------
(* Handling of a packet that came in *)

(* prepare_inbound_packet: hops is a byte *)
Counted(p, m) ==
  LET h == (p.hops + 1) % 256
  IN  [p EXCEPT !.hops = IF ~IsLocal(m) THEN h ELSE IF h = 0 THEN 0 ELSE h - 1]

(* Mutant of PacketFilter: no de-duplication. *)
PacketFilterAll(n, p) ==
  /\ p.tid # None /\ ~IsClient(n) => p.tid = n
  /\ p.dest = Plain => p.hops <= 1

(* packet_filter *)
PacketFilter(n, p) ==
  /\ p.tid # None /\ ~IsClient(n) => p.tid = n
  /\ CASE p.context = "CHANNEL" -> TRUE
       [] p.dest = Plain -> p.hops <= 1
       [] OTHER -> p.hash \notin Range(hashlist[n])

(* Mutant of Remembers: link proofs are remembered when they come. *)
RemembersAll(n, p) == TRUE

(* remember_inbound_packet_hash, and the add of handle_link_table_routing *)
Remembers(n, p) ==
  ~(p.dest \in DOMAIN link_table[n] \/ p.context = "LRPROOF")

(* Mutant of Bridged: broadcasts go on over the other networks too. *)
BridgedOn(n, p, m) ==
  IF p.dest # Plain \/ \A i \in Ifaces(n) : ~IsLocal(i) THEN {}
  ELSE {<<i, p>> : i \in Ifaces(n) \ {m}}

(* bridge_plain_broadcast and its dispatch: the packet as it came *)
Bridged(n, p, m) ==
  IF p.dest # Plain \/ \A i \in Ifaces(n) : ~IsLocal(i) THEN {}
  ELSE {<<i, p>> : i \in {j \in Ifaces(n) \ {m} : IsLocal(j) <=> ~IsLocal(m)}}

(* handle_transport_forwarding *)
Forwards(n, p) ==
  ~IsClient(n) /\ p.tid = n /\ p.dest = Dest /\ path[n] # NoPath

ForwardedPacket(n, p, m) ==
  LET e == path[n]
      remaining == IF IsLocal(e.iface) THEN 0 ELSE e.hops
      masks == Delta(n) # 0 /\ IsLocal(m) /\ ~IsLocal(e.iface) /\ p.hops = 0
  IN  [p EXCEPT !.tid = IF remaining > 1 \/ (remaining = 1 /\ e.via # p.dest) THEN e.via ELSE None,
                !.hops = IF masks THEN Delta(n) ELSE @]

(* create_link_entry *)
LinkEntry(n, p, m) ==
  [next_hop_interface |-> path[n].iface, remaining_hops |-> path[n].hops,
   received_interface |-> m, taken_hops |-> p.hops, validated |-> FALSE]

(* create_reverse_entry *)
ReverseEntry(n, m) == [receiving_interface |-> m, outbound_interface |-> path[n].iface]

(* route_via_link_table: the interface a link's packet goes on over.  Its     *)
(* hops say which side it came from.                                          *)
RouteViaLinkTable(entry, p, m) ==
  LET next == entry.next_hop_interface
      received == entry.received_interface
  IN  IF next = received
      THEN IF p.hops \in {entry.remaining_hops, entry.taken_hops} THEN next ELSE None
      ELSE IF m = next /\ p.hops = entry.remaining_hops THEN received
      ELSE IF m = received /\ p.hops = entry.taken_hops THEN next
      ELSE None

(* LocalHopRewrite *)
Rewritten(n, p, m, skip) ==
  IF Delta(n) # 0 /\ IsLocal(m) /\ ~skip THEN [p EXCEPT !.hops = Delta(n)] ELSE p

(* handle_link_table_routing, and the routing of an LRPROOF, which only a     *)
(* transport node does                                                        *)
RoutesLink(n, p) ==
  /\ p.dest \in DOMAIN link_table[n]
  /\ IF p.context = "LRPROOF" THEN n \in net.transport
     ELSE p.type # "LINKREQUEST" /\ ~IsClient(n)

(* Mutant of RoutedOnLink: packets of the initiator follow the path table. *)
RoutedByPath(n, p, m) ==
  LET entry == link_table[n][p.dest]
      out == RouteViaLinkTable(entry, p, m)
  IN  IF ~RoutesLink(n, p) \/ out = None THEN {}
      ELSE {<<IF out = entry.next_hop_interface /\ path[n] # NoPath THEN path[n].iface ELSE out, p>>}

RoutedOnLink(n, p, m) ==
  LET entry == link_table[n][p.dest]
      out == RouteViaLinkTable(entry, p, m)
      skip == IsLocal(entry.next_hop_interface) /\ IsLocal(entry.received_interface)
  IN  IF ~RoutesLink(n, p) \/ out = None THEN {} ELSE {<<out, Rewritten(n, p, m, skip)>>}

(* process_inbound_proof of a regular proof, route_proof_via_reverse: the     *)
(* entry is removed whether or not the proof came from where the packet went. *)
TakesReverse(n, p) ==
  n \in net.transport /\ p.type = "PROOF" /\ p.context # "LRPROOF" /\ p.dest \in DOMAIN reverse_table[n]

RoutedProof(n, p, m) ==
  LET entry == reverse_table[n][p.dest]
  IN  IF ~TakesReverse(n, p) \/ m # entry.outbound_interface THEN {}
      ELSE {<<entry.receiving_interface, Rewritten(n, p, m, IsLocal(entry.receiving_interface))>>}

-----------------------------------------------------------------------------
(* Delivery, and what the node answers to it.  raw is the packet as it came.  *)

OwnsLink(n) == links[n].state # "none"

(* handle_inbound_local_delivery and the deliveries of process_inbound_proof *)
Delivers(n, p) ==
  \/ p.type # "PROOF" /\ (\/ p.dest = Dest /\ n = net.to
                          \/ p.dest = LinkId /\ OwnsLink(n)
                          \/ p.dest = Plain)
  \/ p.type = "PROOF" /\ (p.context = "LRPROOF" => ~(n \in net.transport /\ p.dest \in DOMAIN link_table[n]))

(* The route hint that a link's packet leaves behind *)
Hinted(link, raw, m) ==
  [link EXCEPT !.iface = m,
               !.tid = IF raw.type = "DATA" \/ raw.tid # None THEN raw.tid ELSE @]

(* handle_local_delivery of the link manager: the link after the packet *)
LinkAfter(n, raw, m) ==
  LET link == links[n]
  IN  IF raw.type = "LINKREQUEST" THEN [state |-> "handshake", iface |-> m, tid |-> raw.tid]
      ELSE IF ~OwnsLink(n) \/ raw.dest # LinkId THEN link
      ELSE CASE raw.context = "LRPROOF" ->
                  [Hinted(link, raw, m) EXCEPT !.state = IF @ = "pending" THEN "active" ELSE @]
             [] raw.context = "LRRTT" ->
                  [Hinted(link, raw, m) EXCEPT !.state = IF @ = "handshake" THEN "active" ELSE @]
             [] raw.context = "CHANNEL" -> Hinted(link, raw, m)
             [] OTHER -> link

(* What the node sends in answer: proofs of data and of messages, the link    *)
(* proof in three forms that differ in hops, and the round-trip time.         *)
Answers(n, raw, m) ==
  LET link == LinkAfter(n, raw, m)
  IN  CASE raw.type = "LINKREQUEST" ->
             UNION {LinkSends(n, link, [LrProof EXCEPT !.hops = h]) : h \in {raw.hops, 0, raw.hops + 1}}
        [] raw.type = "DATA" /\ raw.dest = Dest -> RouteOutbound(n, DataProof, None)
        [] raw.context = "LRPROOF" /\ links[n].state = "pending" -> LinkSends(n, link, LrRtt)
        [] raw.context = "CHANNEL" /\ n = net.to -> LinkSends(n, link, MessageProof)
        [] OTHER -> {}

-----------------------------------------------------------------------------
(* What a step sends goes on the air, to every other node of the medium *)
Frames(n, out) ==
  UNION {{[from |-> n, to |-> r, via |-> s[1], packet |-> s[2]] : r \in net.members[s[1]] \ {n}} : s \in out}

(* The ghosts count to two. *)
Capped(k) == IF k > 2 THEN 2 ELSE k
Crossing(out) == [h \in Packets |-> crossed[h] \cup {s[1] : s \in {t \in out : t[2].hash = h}}]

(* handle_inbound and the dispatch of its actions *)
HandleInbound(n, f) ==
  LET m == f.via
      p == Counted(f.packet, m)
      passes == PacketFilter(n, p)
      fwd == IF passes /\ Forwards(n, p) THEN {<<path[n].iface, ForwardedPacket(n, p, m)>>} ELSE {}
      routed == IF passes THEN RoutedOnLink(n, p, m) \cup RoutedProof(n, p, m) ELSE {}
      bridged == IF passes THEN Bridged(n, f.packet, m) ELSE {}
      delivers == passes /\ Delivers(n, p)
      answers == IF delivers THEN Answers(n, f.packet, m) ELSE {}
      out == fwd \cup routed \cup bridged \cup answers
      seen == IF passes /\ (Remembers(n, p) \/ (routed # {} /\ p.context # "LRPROOF"))
              THEN {p.hash} ELSE {}
      taken == delivers /\ CASE p.hash = "data_proof" -> "data" \in sent_packets[n]
                             [] p.hash = "lrproof" -> links[n].state = "pending"
                             [] p.hash = "msg_proof" -> "msg" \in sent_packets[n]
                             [] OTHER -> TRUE
  IN  /\ f \in air /\ f.to = n
      /\ air' = (air \ {f}) \cup Frames(n, out)
      /\ hashlist' = [hashlist EXCEPT ![n] =
                        Remember(Remember(@, seen), {s[2].hash : s \in answers})]
      /\ link_table' = [link_table EXCEPT ![n] =
           IF fwd # {} /\ p.type = "LINKREQUEST" THEN With(@, LinkId, LinkEntry(n, p, m))
           ELSE IF routed # {} /\ p.context = "LRPROOF" THEN [@ EXCEPT ![LinkId].validated = TRUE]
           ELSE @]
      /\ reverse_table' = [reverse_table EXCEPT ![n] =
           IF fwd # {} /\ p.type # "LINKREQUEST" THEN With(@, p.hash, ReverseEntry(n, m))
           ELSE IF passes /\ TakesReverse(n, p) THEN Restrict(@, DOMAIN @ \ {p.dest})
           ELSE @]
      /\ links' = [links EXCEPT ![n] = IF delivers THEN LinkAfter(n, f.packet, m) ELSE @]
      /\ sent_packets' = [sent_packets EXCEPT ![n] =
           CASE delivers /\ p.hash = "data_proof" -> @ \ {"data"}
             [] delivers /\ p.hash = "msg_proof" -> @ \ {"msg"}
             [] OTHER -> @]
      /\ crossed' = Crossing(out)
      /\ forwards' = [forwards EXCEPT ![n][p.hash] = Capped(@ + Cardinality(fwd \cup routed))]
      /\ carried' = [carried EXCEPT ![p.hash] = @ \cup {s[1] : s \in fwd \cup routed}]
      /\ delivered' = IF taken THEN [delivered EXCEPT ![p.hash] = Capped(@ + 1)] ELSE delivered
      /\ UNCHANGED <<net, path, sends, faults>>

-----------------------------------------------------------------------------
(* handle_outbound of what the node itself sends *)
Sent(n, what, out) ==
  /\ what \in sends /\ sends' = sends \ {what}
  /\ air' = air \cup Frames(n, out)
  /\ hashlist' = [hashlist EXCEPT ![n] = Remember(@, {s[2].hash : s \in out})]
  /\ crossed' = Crossing(out)
  /\ UNCHANGED <<net, path, link_table, reverse_table, faults, forwards, carried, delivered>>

(* handle_send_outbound_event *)
SendData(n) ==
  /\ Sent(n, "data", RouteOutbound(n, Data, None))
  /\ sent_packets' = [sent_packets EXCEPT ![n] = @ \cup {"data"}]
  /\ UNCHANGED links

SendBroadcast(n) ==
  /\ Sent(n, "plain", RouteOutbound(n, Broadcast, None))
  /\ UNCHANGED <<links, sent_packets>>

(* Event::CreateLink *)
CreateLink(n) ==
  /\ Sent(n, "link", RouteOutbound(n, LinkRequest, None))
  /\ links' = [links EXCEPT ![n] = [state |-> "pending", iface |-> path[n].iface, tid |-> None]]
  /\ UNCHANGED sent_packets

SendMessage(n) ==
  /\ links[n].state = "active"
  /\ Sent(n, "msg", LinkSends(n, links[n], Message))
  /\ sent_packets' = [sent_packets EXCEPT ![n] = @ \cup {"msg"}]
  /\ UNCHANGED links

-----------------------------------------------------------------------------
(* net.max_faults is the bound of lost frames, culled entries, changed paths. *)
Fault == faults < net.max_faults /\ faults' = faults + 1

Lose(f) ==
  /\ Fault
  /\ air' = air \ {f}
  /\ UNCHANGED <<net, path, hashlist, link_table, reverse_table, sent_packets, links,
                 sends, crossed, forwards, carried, delivered>>

(* cull_reverse_table and cull_link_table, at any time *)
CullTables(n) ==
  /\ Fault
  /\ \/ \E h \in DOMAIN reverse_table[n] :
          reverse_table' = [reverse_table EXCEPT ![n] = Restrict(@, DOMAIN @ \ {h})]
        /\ UNCHANGED link_table
     \/ \E l \in DOMAIN link_table[n] :
          link_table' = [link_table EXCEPT ![n] = Restrict(@, DOMAIN @ \ {l})]
        /\ UNCHANGED reverse_table
  /\ UNCHANGED <<net, path, hashlist, air, sent_packets, links, sends, crossed, forwards, carried, delivered>>

(* The path table learns another path, or loses the one it has. *)
PathChanges(n) ==
  /\ Fault
  /\ path' \in {[path EXCEPT ![n] = e] : e \in net.others[n] \ {path[n]}}
  /\ UNCHANGED <<net, hashlist, link_table, reverse_table, air, sent_packets, links,
                 sends, crossed, forwards, carried, delivered>>

ForwardingInit ==
  /\ net \in Networks
  /\ path = net.path
  /\ hashlist = [n \in Nodes |-> <<>>]
  /\ link_table = net.link_table /\ reverse_table = [n \in Nodes |-> Empty]
  /\ air = {}
  /\ sent_packets = [n \in Nodes |-> {}]
  /\ links = net.links
  /\ sends = net.sends /\ faults = 0
  /\ crossed = [h \in Packets |-> IF h = "lr" THEN net.crossed ELSE {}]
  /\ forwards = [n \in Nodes |-> [h \in Packets |-> 0]] /\ carried = [h \in Packets |-> {}]
  /\ delivered = [h \in Packets |-> 0]

Drive == \E n \in Nodes, f \in air : HandleInbound(n, f)

ForwardingNext ==
  \/ Drive
  \/ SendData(net.from) \/ SendBroadcast(net.from) \/ CreateLink(net.from) \/ SendMessage(net.from)
  \/ \E f \in air : Lose(f)
  \/ \E n \in Nodes : CullTables(n) \/ PathChanges(n)

(* The drivers go on taking frames from their event queues.  DriversRun says  *)
(* it without ENABLED, which is cheaper to check in the large instances:      *)
(* Drive is enabled while a frame is in the air, and a step of it is one that *)
(* sends nothing new and is no fault.                                         *)
DriversRun == []<>(air = {}) \/ []<><<UNCHANGED <<sends, faults>>>>_fvars

ForwardingSpec == ForwardingInit /\ [][ForwardingNext]_fvars /\ DriversRun
WeakForwardingSpec == ForwardingInit /\ [][ForwardingNext]_fvars /\ WF_fvars(Drive)

-----------------------------------------------------------------------------
Once == Packets \ {"lrproof", "msg", "plain"}

(* Whatever the paths say (loops included), whatever is lost and however many *)
(* ways a packet comes by, no node passes it on twice and no application gets *)
(* it twice.  Link proofs, channel packets and broadcasts are not             *)
(* de-duplicated: they are left to the link, the channel and the hop limit.   *)
OnceEach ==
  \A h \in Once : delivered[h] <= 1 /\ \A n \in Nodes : forwards[n][h] <= 1

(* What answers a packet goes back over the media the packet came by, and the *)
(* packets of a link stay on the media its request crossed, although the path *)
(* table may have changed since.                                              *)
AnswersRetrace ==
  /\ carried["data_proof"] \subseteq crossed["data"]
  /\ \A h \in {"lrproof", "rtt", "msg", "msg_proof"} : carried[h] \subseteq crossed["lr"]

(* No packet goes around for ever. *)
Quiesces == <>[](air = {})

(* When nothing fails and the paths are right, data is proved to its sender,  *)
(* links come up at both ends and messages on them are proved.                *)
Answered ==
  [](faults = 0) =>
    /\ "data" \in net.answers => (crossed["data"] # {} ~> delivered["data_proof"] = 1)
    /\ "link" \in net.answers => (crossed["lr"] # {} ~> links[net.from].state = "active"
                                                        /\ links[net.to].state = "active")
    /\ "msg" \in net.answers => (crossed["msg"] # {} ~> delivered["msg_proof"] = 1)

(* When nothing fails, a link that the owner of a destination has accepted    *)
(* comes up: the routing hint taken from the request "can be ... used to      *)
(* preserve multi-hop routing" (ManagedLink::route_transport_id).             *)
AcceptedComesUp ==
  [](faults = 0) => (links[net.to].state = "handshake" ~> links[net.to].state = "active")
=============================================================================
