-------------------------- MODULE ForwardingProofs --------------------------
(***************************************************************************)
(* Proofs about packets that cross a network, for every network: any        *)
(* topology, any paths, right, stale or looping, any losses and changes.    *)
(* No node passes a packet on twice and no application gets it twice; what  *)
(* answers a packet goes back over the media the packet came by.            *)
(***************************************************************************)
EXTENDS Forwarding, FiniteSetTheorems, TLAPS

-----------------------------------------------------------------------------
(* Packets keep their kind wherever they go. *)
Fields == {"type", "context", "dest", "hash", "tid", "hops"}
Alike(q, p) ==
  DOMAIN q = Fields /\ q.type = p.type /\ q.context = p.context /\ q.dest = p.dest /\ q.hash = p.hash
Kinds == {Data, DataProof, LinkRequest, LrProof, LrRtt, Message, MessageProof, Broadcast}
Genuine(p) == \E k \in Kinds : Alike(p, k)

(* A packet's hash tells what it is and where it goes. *)
LEMMA KindFacts ==
  ASSUME NEW p, Genuine(p)
  PROVE  /\ p.hash \in Packets /\ DOMAIN p = Fields
         /\ p.dest = Dest <=> p.hash \in {"data", "lr"}
         /\ p.dest = LinkId <=> p.hash \in {"lrproof", "rtt", "msg", "msg_proof"}
         /\ p.dest = "data" <=> p.hash = "data_proof"
         /\ p.dest = Plain <=> p.hash = "plain"
         /\ p.dest \in {Dest, LinkId, "data", Plain}
         /\ p.type = "LINKREQUEST" <=> p.hash = "lr"
         /\ p.type = "PROOF" <=> p.hash \in {"data_proof", "lrproof", "msg_proof"}
         /\ p.type = "DATA" <=> p.hash \in {"data", "rtt", "msg", "plain"}
         /\ p.context = "CHANNEL" <=> p.hash = "msg"
         /\ p.context = "LRPROOF" <=> p.hash = "lrproof"
  BY DEF Genuine, Kinds, Alike, Packet, Data, DataProof, LinkRequest, LrProof, LrRtt, Message,
         MessageProof, Broadcast, Packets, Dest, LinkId, Plain

LEMMA AlikeGenuine ==
  ASSUME NEW p, NEW q, Genuine(p), Alike(q, p)
  PROVE  Genuine(q)
  BY DEF Genuine, Alike

LEMMA KindGenuine ==
  ASSUME NEW k \in Kinds
  PROVE  Genuine(k) /\ DOMAIN k = Fields
  BY DEF Genuine, Kinds, Alike, Packet, Fields, Data, DataProof, LinkRequest, LrProof, LrRtt, Message,
         MessageProof, Broadcast

LEMMA ChangedAlike ==
  ASSUME NEW p, DOMAIN p = Fields, NEW x, NEW y
  PROVE  /\ Alike(p, p) /\ Alike([p EXCEPT !.hops = x], p) /\ Alike([p EXCEPT !.tid = x], p)
         /\ Alike([p EXCEPT !.tid = x, !.hops = y], p)
  BY DEF Alike, Fields

LEMMA MaskedAlike ==
  ASSUME NEW p, DOMAIN p = Fields, NEW n, NEW m
  PROVE  Alike(Masked(n, p, m), p)
  BY ZenonT(40), ChangedAlike DEF Masked

LEMMA CountedAlike ==
  ASSUME NEW p, DOMAIN p = Fields, NEW m
  PROVE  Alike(Counted(p, m), p)
  BY ZenonT(40), ChangedAlike DEF Counted

LEMMA AlikeTrans ==
  ASSUME NEW p, NEW q, NEW r, Alike(p, q), Alike(q, r)
  PROVE  Alike(p, r)
  BY DEF Alike

LEMMA OutboundAlike ==
  ASSUME NEW n, NEW p, DOMAIN p = Fields, NEW attached, NEW s \in RouteOutbound(n, p, attached)
  PROVE  Alike(s[2], p)
<1> DEFINE e == path[n]
           out == Masked(n, p, e.iface)
<1>1. CASE p.dest = Dest /\ e # NoPath
  <2>1. PICK t : s = <<e.iface, [out EXCEPT !.tid = t]>>
    BY <1>1 DEF RouteOutbound
  <2>2. Alike(out, p) /\ DOMAIN out = Fields
    BY MaskedAlike DEF Alike
  <2>3. Alike([out EXCEPT !.tid = t], out)
    BY Zenon, <2>2, ChangedAlike
  <2>4. s[2] = [out EXCEPT !.tid = t]
    BY <2>1
  <2> QED BY <2>2, <2>3, <2>4, AlikeTrans
<1>2. CASE ~(p.dest = Dest /\ e # NoPath) /\ attached # None
  BY <1>2, MaskedAlike DEF RouteOutbound
<1>3. CASE ~(p.dest = Dest /\ e # NoPath) /\ attached = None
  <2>1. PICK m : s = <<m, p>>
    BY <1>3 DEF RouteOutbound
  <2> QED BY Zenon, <2>1, ChangedAlike
<1> QED BY <1>1, <1>2, <1>3

LEMMA LinkSendsAlike ==
  ASSUME NEW n, NEW p, DOMAIN p = Fields, NEW link, NEW s \in LinkSends(n, link, p)
  PROVE  Alike(s[2], p)
<1> DEFINE q == [p EXCEPT !.tid = link.tid]
<1>1. Alike(q, p) /\ DOMAIN q = Fields
  BY ChangedAlike DEF Alike
<1>2. Alike(s[2], q)
  BY <1>1, OutboundAlike DEF LinkSends
<1> QED BY <1>1, <1>2, AlikeTrans

(* What a node answers to a packet is of one kind. *)
LEMMA AnswersAlike ==
  ASSUME NEW n, NEW raw, Genuine(raw), NEW m
  PROVE  \/ Answers(n, raw, m) = {}
         \/ \A s \in Answers(n, raw, m) : Alike(s[2], LrProof)
         \/ \A s \in Answers(n, raw, m) : Alike(s[2], DataProof)
         \/ \A s \in Answers(n, raw, m) : Alike(s[2], MessageProof)
         \/ links[n].state = "pending" /\ \A s \in Answers(n, raw, m) : Alike(s[2], LrRtt)
<1> DEFINE link == LinkAfter(n, raw, m)
<1>0. /\ {LrProof, DataProof, MessageProof, LrRtt} \subseteq Kinds
      /\ \A k \in {LrProof, DataProof, MessageProof, LrRtt} : DOMAIN k = Fields
  BY KindGenuine DEF Kinds
<1>1. CASE raw.type = "LINKREQUEST"
  <2>1. Answers(n, raw, m) =
          UNION {LinkSends(n, link, [LrProof EXCEPT !.hops = h]) : h \in {raw.hops, 0, raw.hops + 1}}
    BY <1>1, KindFacts DEF Answers
  <2>2. ASSUME NEW s \in Answers(n, raw, m) PROVE Alike(s[2], LrProof)
    <3>1. PICK h : s \in LinkSends(n, link, [LrProof EXCEPT !.hops = h])
      BY Zenon, <2>1
    <3>2. Alike([LrProof EXCEPT !.hops = h], LrProof) /\ DOMAIN [LrProof EXCEPT !.hops = h] = Fields
      BY <1>0, ChangedAlike DEF Alike
    <3>3. Alike(s[2], [LrProof EXCEPT !.hops = h])
      BY <3>1, <3>2, LinkSendsAlike
    <3> QED BY <3>2, <3>3, AlikeTrans
  <2> QED BY <2>2
<1>2. CASE raw.type = "DATA" /\ raw.dest = Dest
  <2>1. Answers(n, raw, m) = RouteOutbound(n, DataProof, None)
    BY <1>2, KindFacts DEF Answers
  <2> QED BY <1>0, <2>1, OutboundAlike
<1>3. CASE ~(raw.type = "LINKREQUEST") /\ ~(raw.type = "DATA" /\ raw.dest = Dest)
           /\ raw.context = "LRPROOF" /\ links[n].state = "pending"
  <2>1. Answers(n, raw, m) = LinkSends(n, link, LrRtt)
    BY <1>3 DEF Answers
  <2> QED BY <1>0, <1>3, <2>1, LinkSendsAlike
<1>4. CASE ~(raw.type = "LINKREQUEST") /\ ~(raw.type = "DATA" /\ raw.dest = Dest)
           /\ ~(raw.context = "LRPROOF" /\ links[n].state = "pending")
           /\ raw.context = "CHANNEL" /\ n = net.to
  <2>1. Answers(n, raw, m) = LinkSends(n, link, MessageProof)
    BY <1>4 DEF Answers
  <2> QED BY <1>0, <2>1, LinkSendsAlike
<1>5. CASE ~(raw.type = "LINKREQUEST") /\ ~(raw.type = "DATA" /\ raw.dest = Dest)
           /\ ~(raw.context = "LRPROOF" /\ links[n].state = "pending")
           /\ ~(raw.context = "CHANNEL" /\ n = net.to)
  <2>1. Answers(n, raw, m) = {}
    BY <1>5 DEF Answers
  <2> QED BY <2>1
<1> QED BY <1>1, <1>2, <1>3, <1>4, <1>5

-----------------------------------------------------------------------------
(* A hashlist with room for all packets forgets none. *)
Windows == {w \in Seq(Packets) : IsInjective(w)}

LEMMA FourFinite ==
  ASSUME NEW a, NEW b, NEW c, NEW d
  PROVE  IsFiniteSet({a, b, c, d})
<1>1. IsFiniteSet({a} \cup {b}) /\ IsFiniteSet({c} \cup {d})
  BY Zenon, FS_Singleton, FS_AddElement
<1>2. {a, b, c, d} = ({a} \cup {b}) \cup ({c} \cup {d})
  OBVIOUS
<1>3. IsFiniteSet(({a} \cup {b}) \cup ({c} \cup {d}))
  BY Zenon, <1>1, FS_Union
<1> QED BY <1>2, <1>3, Zenon

LEMMA PacketsFinite == IsFiniteSet(Packets)
<1>1. Packets = {"data", "data_proof", "lr", "lrproof"} \cup {"rtt", "msg", "msg_proof", "plain"}
  BY DEF Packets
<1> QED BY Zenon, <1>1, FourFinite, FS_Union

LEMMA RoomForOne ==
  ASSUME NEW w \in Windows, NEW h \in Packets \ Range(w)
  PROVE  Len(w) < HashlistSize
<1>1. w \in Injection(1..Len(w), Packets \ {h})
  BY DEF Windows, Injection, Range
<1>2. IsFiniteSet(Packets \ {h}) /\ Cardinality(Packets \ {h}) = Cardinality(Packets) - 1
  BY PacketsFinite, FS_RemoveElement
<1>3. Cardinality(1..Len(w)) <= Cardinality(Packets \ {h})
  BY <1>1, <1>2, FS_Injection
<1>4. Len(w) \in Nat
  BY DEF Windows
<1>6. Cardinality(1..Len(w)) = Len(w)
  <2>1. Cardinality(1..Len(w)) = IF 1 > Len(w) THEN 0 ELSE Len(w) - 1 + 1
    BY <1>4, FS_Interval
  <2> QED BY <1>4, <2>1
<1>5. Cardinality(Packets) \in Nat
  BY PacketsFinite, FS_CardinalityType
<1> QED BY <1>2, <1>3, <1>4, <1>5, <1>6, ForwardingAssumption

LEMMA Retained ==
  ASSUME NEW w \in Windows, NEW h \in Packets
  PROVE  /\ Recent!Retain(w, h) \in Windows
         /\ Range(w) \subseteq Range(Recent!Retain(w, h)) /\ h \in Range(Recent!Retain(w, h))
<1>1. CASE h \in Range(w)
  BY <1>1 DEF Recent!Retain, Recent!Range, Range
<1>2. CASE h \notin Range(w)
  <2>1. Len(w) < HashlistSize /\ w \in Seq(Packets) /\ Len(w) \in Nat
    BY <1>2, RoomForOne DEF Windows
  <2>2. Recent!Retain(w, h) = Append(w, h)
    BY <1>2, <2>1, ForwardingAssumption DEF Recent!Retain, Recent!Range, Range
  <2>3. /\ Append(w, h) \in Seq(Packets) /\ DOMAIN Append(w, h) = 1..(Len(w) + 1)
        /\ \A i \in 1..Len(w) : Append(w, h)[i] = w[i] /\ w[i] \in Range(w)
        /\ Append(w, h)[Len(w) + 1] = h /\ DOMAIN w = 1..Len(w)
    BY <2>1 DEF Range
  <2>4. IsInjective(Append(w, h))
    <3>1. SUFFICES ASSUME NEW i \in 1..(Len(w) + 1), NEW j \in 1..(Len(w) + 1),
                          Append(w, h)[i] = Append(w, h)[j]
                   PROVE  i = j
      BY <2>3 DEF IsInjective
    <3>2. CASE i \in 1..Len(w) /\ j \in 1..Len(w)
      BY <2>3, <3>1, <3>2 DEF Windows, IsInjective
    <3>3. CASE i = Len(w) + 1 \/ j = Len(w) + 1
      BY <1>2, <2>1, <2>3, <3>1, <3>3
    <3> QED BY <2>1, <3>2, <3>3
  <2>5. Range(w) \subseteq Range(Append(w, h)) /\ h \in Range(Append(w, h))
    BY <2>1, <2>3 DEF Range
  <2> QED BY <2>2, <2>3, <2>4, <2>5 DEF Windows
<1> QED BY <1>1, <1>2

LEMMA RememberGrows ==
  ASSUME NEW w \in Windows, NEW H, H \subseteq Packets
  PROVE  Remember(w, H) \in Windows /\ Range(w) \subseteq Range(Remember(w, H))
<1>1. CASE H = {}
  BY <1>1 DEF Remember
<1>2. CASE H # {}
  <2>1. (CHOOSE h \in H : TRUE) \in Packets
    BY <1>2
  <2> QED BY <1>2, <2>1, Retained DEF Remember
<1> QED BY <1>1, <1>2

LEMMA RememberOne ==
  ASSUME NEW w \in Windows, NEW h \in Packets
  PROVE  h \in Range(Remember(w, {h}))
<1>1. (CHOOSE x \in {h} : TRUE) = h
  OBVIOUS
<1> QED BY <1>1, Retained DEF Remember

-----------------------------------------------------------------------------
(* The parts of the inductive invariant.  The owner has no path to itself;    *)
(* hashlists are windows; a frame is on a medium its packet crossed;          *)
Fixed == net \in Networks /\ DOMAIN path = Nodes /\ path[net.to] = NoPath
Remembered == hashlist \in [Nodes -> Windows]
InAir == DOMAIN crossed = Packets
         /\ \A f \in air : Genuine(f.packet) /\ f.via \in crossed[f.packet.hash]

(* the tables name media that the packet which made the entry crossed, and    *)
(* what was carried by them stayed there;                                     *)
IsRoute(e, media) ==
  DOMAIN e = LinkFields /\ e.next_hop_interface \in media /\ e.received_interface \in media
LinkRoutes ==
  /\ DOMAIN link_table = Nodes
  /\ \A n \in Nodes : DOMAIN link_table[n] \subseteq {LinkId}
  /\ \A n \in Nodes : \A l \in DOMAIN link_table[n] : n # net.to /\ IsRoute(link_table[n][l], crossed["lr"])
ReverseRoutes ==
  /\ DOMAIN reverse_table = Nodes
  /\ \A n \in Nodes : DOMAIN reverse_table[n] \subseteq {"data"}
  /\ \A n \in Nodes : \A h \in DOMAIN reverse_table[n] :
       reverse_table[n][h].receiving_interface \in crossed["data"]
Carried == DOMAIN carried = Packets /\ AnswersRetrace

(* only the two ends have the link, and the initiator does not hear its own   *)
(* round-trip time;                                                           *)
Ends ==
  /\ DOMAIN links = Nodes /\ \A n \in Nodes : DOMAIN links[n] = DOMAIN NoLink
  /\ \A n \in Nodes : links[n].state # "none" => n \in {net.from, net.to}
  /\ \A n \in Nodes : links[n].state = "pending" => n = net.from
OwnRtt == \A f \in air : f.packet.hash = "rtt" => "rtt" \in Range(hashlist[net.from])

(* what was passed on or delivered is remembered, or is no longer awaited.    *)
PassedOn ==
  /\ DOMAIN forwards = Nodes /\ \A n \in Nodes : DOMAIN forwards[n] = Packets
  /\ \A n \in Nodes, h \in Once : forwards[n][h] \in 0..1
  /\ \A n \in Nodes, h \in Once : forwards[n][h] # 0 => h \in Range(hashlist[n])
Awaits == /\ DOMAIN sent_packets = Nodes
          /\ \A n \in Nodes : n # net.from => sent_packets[n] = {}
          /\ sends \cap sent_packets[net.from] = {}
Given ==
  /\ DOMAIN delivered = Packets /\ \A h \in Once : delivered[h] \in 0..1
  /\ \A h \in {"data", "lr", "rtt"} : delivered[h] # 0 => h \in Range(hashlist[net.to])
  /\ \A h \in {"data", "msg"} :
       h \in sends \cup sent_packets[net.from] => delivered[IF h = "data" THEN "data_proof" ELSE "msg_proof"] = 0

Routes == Fixed /\ InAir /\ LinkRoutes /\ ReverseRoutes /\ Carried
Counts == Remembered /\ Ends /\ OwnRtt /\ PassedOn /\ Awaits /\ Given

LEMMA NetworkFacts ==
  ASSUME Fixed
  PROVE  /\ Proper(net) /\ net.from \in Nodes /\ net.to \in Nodes /\ net.from # net.to
         /\ net.others[net.to] \subseteq {NoPath}
<1>1. Proper(net)
  BY ForwardingAssumption DEF Fixed
<1> QED BY <1>1 DEF Proper, Nodes

LEMMA InitInv == ForwardingInit => Routes /\ Counts
<1> SUFFICES ASSUME ForwardingInit PROVE Routes /\ Counts
  OBVIOUS
<1>1. net \in Networks /\ Proper(net)
  BY ForwardingAssumption DEF ForwardingInit
<1>2. Fixed
  BY <1>1 DEF ForwardingInit, Fixed, Proper, Nodes
<1>3. InAir /\ Carried /\ ReverseRoutes /\ OwnRtt
  BY DEF ForwardingInit, InAir, Carried, ReverseRoutes, OwnRtt, AnswersRetrace, Empty, Packets
<1>4. crossed["lr"] = net.crossed
  BY DEF ForwardingInit, Packets
<1>5. LinkRoutes
  BY Zenon, <1>1, <1>4 DEF ForwardingInit, LinkRoutes, IsRoute, Proper, Nodes
<1>6. Ends
  BY <1>1 DEF ForwardingInit, Ends, Proper, Nodes
<1>7. <<>> \in Windows
  BY DEF Windows, IsInjective
<1>8. Remembered
  BY <1>7 DEF ForwardingInit, Remembered
<1>9. PassedOn /\ Awaits /\ Given
  BY <1>2, NetworkFacts DEF ForwardingInit, PassedOn, Awaits, Given, Once, Packets
<1> QED BY <1>2, <1>3, <1>5, <1>6, <1>8, <1>9 DEF Routes, Counts

-----------------------------------------------------------------------------
(* The parts of a step that takes a frame, named as in HandleInbound *)
P(f) == Counted(f.packet, f.via)
Passes(n, f) == PacketFilter(n, P(f))
Fwd(n, f) == IF Passes(n, f) /\ Forwards(n, P(f))
             THEN {<<path[n].iface, ForwardedPacket(n, P(f), f.via)>>} ELSE {}
Routed(n, f) == IF Passes(n, f) THEN RoutedOnLink(n, P(f), f.via) \cup RoutedProof(n, P(f), f.via) ELSE {}
Bridge(n, f) == IF Passes(n, f) THEN Bridged(n, f.packet, f.via) ELSE {}
Delivery(n, f) == Passes(n, f) /\ Delivers(n, P(f))
Reply(n, f) == IF Delivery(n, f) THEN Answers(n, f.packet, f.via) ELSE {}
Out(n, f) == Fwd(n, f) \cup Routed(n, f) \cup Bridge(n, f) \cup Reply(n, f)
Seen(n, f) == IF Passes(n, f) /\ (Remembers(n, P(f)) \/ (Routed(n, f) # {} /\ P(f).context # "LRPROOF"))
              THEN {P(f).hash} ELSE {}
Taken(n, f) == Delivery(n, f) /\ CASE P(f).hash = "data_proof" -> "data" \in sent_packets[n]
                                   [] P(f).hash = "lrproof" -> links[n].state = "pending"
                                   [] P(f).hash = "msg_proof" -> "msg" \in sent_packets[n]
                                   [] OTHER -> TRUE

Learned(n, f) == Remember(Remember(hashlist[n], Seen(n, f)), {s[2].hash : s \in Reply(n, f)})
LinkTable(n, f) ==
  IF Fwd(n, f) # {} /\ P(f).type = "LINKREQUEST" THEN With(link_table[n], LinkId, LinkEntry(n, P(f), f.via))
  ELSE IF Routed(n, f) # {} /\ P(f).context = "LRPROOF" THEN [link_table[n] EXCEPT ![LinkId].validated = TRUE]
  ELSE link_table[n]
ReverseTable(n, f) ==
  IF Fwd(n, f) # {} /\ P(f).type # "LINKREQUEST" THEN With(reverse_table[n], P(f).hash, ReverseEntry(n, f.via))
  ELSE IF Passes(n, f) /\ TakesReverse(n, P(f))
       THEN Restrict(reverse_table[n], DOMAIN reverse_table[n] \ {P(f).dest})
  ELSE reverse_table[n]
Link(n, f) == IF Delivery(n, f) THEN LinkAfter(n, f.packet, f.via) ELSE links[n]
Awaiting(n, f) ==
  CASE Delivery(n, f) /\ P(f).hash = "data_proof" -> sent_packets[n] \ {"data"}
    [] Delivery(n, f) /\ P(f).hash = "msg_proof" -> sent_packets[n] \ {"msg"}
    [] OTHER -> sent_packets[n]
Media(n, f) == {s[1] : s \in Fwd(n, f) \cup Routed(n, f)}

LEMMA InboundAir ==
  ASSUME NEW n, NEW f, HandleInbound(n, f)
  PROVE  /\ f \in air /\ air' = (air \ {f}) \cup Frames(n, Out(n, f)) /\ crossed' = Crossing(Out(n, f))
         /\ net' = net /\ path' = path /\ sends' = sends
  BY Zenon DEF HandleInbound, P, Passes, Fwd, Routed, Bridge, Delivery, Reply, Out

LEMMA InboundHashes ==
  ASSUME NEW n, NEW f, HandleInbound(n, f)
  PROVE  hashlist' = [hashlist EXCEPT ![n] = Learned(n, f)]
  BY Zenon DEF HandleInbound, P, Passes, Fwd, Routed, Delivery, Reply, Seen, Learned

LEMMA InboundLinkTable ==
  ASSUME NEW n, NEW f, HandleInbound(n, f)
  PROVE  link_table' = [link_table EXCEPT ![n] = LinkTable(n, f)]
  BY Zenon DEF HandleInbound, P, Passes, Fwd, Routed, LinkTable

LEMMA InboundReverseTable ==
  ASSUME NEW n, NEW f, HandleInbound(n, f)
  PROVE  reverse_table' = [reverse_table EXCEPT ![n] = ReverseTable(n, f)]
  BY Zenon DEF HandleInbound, P, Passes, Fwd, ReverseTable

LEMMA InboundLinks ==
  ASSUME NEW n, NEW f, HandleInbound(n, f)
  PROVE  links' = [links EXCEPT ![n] = Link(n, f)]
  BY Zenon DEF HandleInbound, P, Passes, Delivery, Link

LEMMA InboundAwaiting ==
  ASSUME NEW n, NEW f, HandleInbound(n, f)
  PROVE  sent_packets' = [sent_packets EXCEPT ![n] = Awaiting(n, f)]
  BY Zenon DEF HandleInbound, P, Passes, Delivery, Awaiting

LEMMA InboundForwards ==
  ASSUME NEW n, NEW f, HandleInbound(n, f)
  PROVE  forwards' = [forwards EXCEPT ![n][P(f).hash] = Capped(@ + Cardinality(Fwd(n, f) \cup Routed(n, f)))]
  BY Zenon DEF HandleInbound, P, Passes, Fwd, Routed

LEMMA InboundCarried ==
  ASSUME NEW n, NEW f, HandleInbound(n, f)
  PROVE  carried' = [carried EXCEPT ![P(f).hash] = @ \cup Media(n, f)]
  BY Zenon DEF HandleInbound, P, Passes, Fwd, Routed, Media

LEMMA InboundDelivered ==
  ASSUME NEW n, NEW f, HandleInbound(n, f)
  PROVE  delivered' = IF Taken(n, f) THEN [delivered EXCEPT ![P(f).hash] = Capped(@ + 1)] ELSE delivered
  BY DEF HandleInbound, P, Passes, Delivery, Taken

-----------------------------------------------------------------------------
(* A step that sends genuine packets keeps the frames on media they crossed.  *)
LEMMA AirKept ==
  ASSUME InAir, NEW n, NEW out, \A s \in out : Genuine(s[2]),
         air' \subseteq air \cup Frames(n, out), crossed' = Crossing(out)
  PROVE  /\ InAir' /\ \A h \in Packets : crossed[h] \subseteq crossed'[h]
         /\ \A s \in out : s[1] \in crossed'[s[2].hash]
<1>1. \A h \in Packets : crossed'[h] = crossed[h] \cup {s[1] : s \in {t \in out : t[2].hash = h}}
  BY DEF Crossing
<1>2. ASSUME NEW s \in out PROVE s[1] \in crossed'[s[2].hash]
  <2>1. s[2].hash \in Packets
    BY KindFacts
  <2>2. s \in {t \in out : t[2].hash = s[2].hash}
    OBVIOUS
  <2> QED BY <1>1, <2>1, <2>2
<1>3. ASSUME NEW f \in air' PROVE Genuine(f.packet) /\ f.via \in crossed'[f.packet.hash]
  <2>1. CASE f \in air
    <3>1. Genuine(f.packet) /\ f.via \in crossed[f.packet.hash] /\ f.packet.hash \in Packets
      BY <2>1, KindFacts DEF InAir
    <3> QED BY <1>1, <3>1
  <2>2. CASE f \in Frames(n, out)
    <3>1. PICK s \in out : \E r : f = [from |-> n, to |-> r, via |-> s[1], packet |-> s[2]]
      BY <2>2 DEF Frames
    <3>2. f.via = s[1] /\ f.packet = s[2]
      BY <3>1
    <3> QED BY <1>2, <3>2
  <2> QED BY <2>1, <2>2
<1>4. DOMAIN crossed' = Packets
  BY DEF Crossing
<1> QED BY <1>1, <1>2, <1>3, <1>4 DEF InAir

(* What a frame's packet is like, and what becomes of it *)
LEMMA Incoming ==
  ASSUME InAir, NEW f \in air
  PROVE  /\ Genuine(f.packet) /\ Genuine(P(f)) /\ Alike(P(f), f.packet)
         /\ P(f).hash = f.packet.hash /\ f.via \in crossed[P(f).hash]
<1>1. Genuine(f.packet) /\ f.via \in crossed[f.packet.hash] /\ DOMAIN f.packet = Fields
  BY KindFacts DEF InAir
<1>2. Alike(P(f), f.packet)
  BY <1>1, CountedAlike DEF P
<1> QED BY <1>1, <1>2, AlikeGenuine DEF Alike

LEMMA Onward ==
  ASSUME Routes, NEW n \in Nodes, NEW f \in air
  PROVE  /\ \A s \in Fwd(n, f) : s[1] = path[n].iface /\ Alike(s[2], P(f))
         /\ Fwd(n, f) # {} => P(f).hash \in {"data", "lr"} /\ Passes(n, f) /\ path[n] # NoPath
         /\ \A s \in Routed(n, f) : Alike(s[2], P(f))
         /\ \A s \in Bridge(n, f) : Alike(s[2], P(f))
<1>1. Genuine(P(f)) /\ DOMAIN P(f) = Fields /\ Alike(P(f), f.packet) /\ DOMAIN f.packet = Fields
  BY Incoming, KindFacts DEF Routes
<1>2. \A m : Alike(ForwardedPacket(n, P(f), m), P(f))
  BY ZenonT(40), <1>1, ChangedAlike DEF ForwardedPacket
<1>3. \A m, k : Alike(Rewritten(n, P(f), m, k), P(f))
  BY Zenon, <1>1, ChangedAlike DEF Rewritten
<1>4. \A s \in Fwd(n, f) : s[1] = path[n].iface /\ Alike(s[2], P(f))
  BY <1>2 DEF Fwd
<1>5. Fwd(n, f) # {} => P(f).hash \in {"data", "lr"} /\ Passes(n, f) /\ path[n] # NoPath
  BY <1>1, KindFacts DEF Fwd, Forwards
<1>6. ASSUME NEW s \in Routed(n, f) PROVE Alike(s[2], P(f))
  <2>1. CASE s \in RoutedOnLink(n, P(f), f.via)
    BY <1>3, <2>1 DEF RoutedOnLink
  <2>2. CASE s \in RoutedProof(n, P(f), f.via)
    BY <1>3, <2>2 DEF RoutedProof
  <2> QED BY <2>1, <2>2 DEF Routed
<1>7. ASSUME NEW s \in Bridge(n, f) PROVE Alike(s[2], P(f))
  <2>1. PICK i : s = <<i, f.packet>>
    BY DEF Bridge, Bridged
  <2> QED BY <1>1, <2>1 DEF Alike
<1> QED BY <1>4, <1>5, <1>6, <1>7

(* A packet goes on by one table only, over a medium that table names. *)
LEMMA RoutedBy ==
  ASSUME Routes, NEW n \in Nodes, NEW f \in air
  PROVE  /\ Routed(n, f) # {} => Passes(n, f) /\ P(f).hash \notin {"data", "lr", "plain"}
         /\ \A s \in Routed(n, f) :
              \/ P(f).hash = "data_proof" /\ s[1] \in crossed["data"]
              \/ P(f).dest = LinkId /\ s[1] \in crossed["lr"] /\ LinkId \in DOMAIN link_table[n]
         /\ \A s, t \in Fwd(n, f) \cup Routed(n, f) : s = t
<1>1. Genuine(P(f))
  BY Incoming DEF Routes
<1> DEFINE p == P(f)
<1>2. ASSUME NEW s \in RoutedOnLink(n, p, f.via)
      PROVE  /\ p.dest = LinkId /\ s[1] \in crossed["lr"] /\ LinkId \in DOMAIN link_table[n]
             /\ RoutedOnLink(n, p, f.via) = {s} /\ p.type # "LINKREQUEST"
  <2> DEFINE entry == link_table[n][p.dest]
             out == RouteViaLinkTable(entry, p, f.via)
  <2>1. RoutesLink(n, p) /\ out # None
    BY DEF RoutedOnLink
  <2>2. p.dest \in DOMAIN link_table[n] /\ (p.context # "LRPROOF" => p.type # "LINKREQUEST")
    BY <2>1 DEF RoutesLink
  <2>3. p.dest = LinkId /\ IsRoute(entry, crossed["lr"])
    BY Zenon, <2>2 DEF Routes, LinkRoutes
  <2>4. out \in {entry.next_hop_interface, entry.received_interface}
    BY Zenon, <2>1 DEF RouteViaLinkTable
  <2>5. PICK q : RoutedOnLink(n, p, f.via) = {<<out, q>>}
    BY <2>1 DEF RoutedOnLink
  <2>6. s = <<out, q>> /\ s[1] = out
    BY <2>5
  <2>7. p.type # "LINKREQUEST"
    BY <1>1, <2>3, KindFacts DEF Dest, LinkId
  <2> QED BY <2>2, <2>3, <2>4, <2>5, <2>6, <2>7 DEF IsRoute
<1>3. ASSUME NEW s \in RoutedProof(n, p, f.via)
      PROVE  p.hash = "data_proof" /\ s[1] \in crossed["data"] /\ RoutedProof(n, p, f.via) = {s}
  <2>1. TakesReverse(n, p)
    BY DEF RoutedProof
  <2>2. p.dest \in DOMAIN reverse_table[n]
    BY <2>1 DEF TakesReverse
  <2>3. p.dest = "data" /\ reverse_table[n][p.dest].receiving_interface \in crossed["data"]
    BY <2>2 DEF Routes, ReverseRoutes
  <2>4. PICK q : RoutedProof(n, p, f.via) = {<<reverse_table[n][p.dest].receiving_interface, q>>}
    BY Zenon DEF RoutedProof
  <2> QED BY <1>1, <2>3, <2>4, KindFacts
<1>4. Routed(n, f) # {} => Passes(n, f) /\ Routed(n, f) = RoutedOnLink(n, p, f.via) \cup RoutedProof(n, p, f.via)
  BY DEF Routed
<1>5. p.dest = LinkId => p.hash # "data_proof" /\ p.hash \notin {"data", "lr", "plain"}
  BY <1>1, KindFacts
<1>6. \A s \in Routed(n, f) :
        \/ p.hash = "data_proof" /\ s[1] \in crossed["data"]
        \/ p.dest = LinkId /\ s[1] \in crossed["lr"] /\ LinkId \in DOMAIN link_table[n]
  BY <1>2, <1>3, <1>4
<1>7. Routed(n, f) # {} => p.hash \notin {"data", "lr", "plain"}
  BY <1>5, <1>6
<1>8. \A s, t \in Routed(n, f) : s = t
  BY <1>2, <1>3, <1>4, <1>5
<1>9. \A s, t \in Fwd(n, f) : s = t
  BY DEF Fwd
<1>10. Fwd(n, f) = {} \/ Routed(n, f) = {}
  BY <1>7, Onward
<1> HIDE DEF p
<1> QED BY <1>4, <1>6, <1>7, <1>8, <1>9, <1>10 DEF p

LEMMA AllGenuine ==
  ASSUME Routes, NEW n \in Nodes, NEW f \in air
  PROVE  \A s \in Out(n, f) : Genuine(s[2])
<1>1. Genuine(P(f)) /\ Genuine(f.packet)
  BY Incoming DEF Routes
<1>2. ASSUME NEW s \in Reply(n, f) PROVE Genuine(s[2])
  <2>1. s \in Answers(n, f.packet, f.via)
    BY DEF Reply
  <2>2. \E k \in Kinds : Alike(s[2], k)
    BY <1>1, <2>1, AnswersAlike DEF Kinds
  <2> QED BY <2>2 DEF Genuine
<1> QED BY <1>1, <1>2, Onward, AlikeGenuine DEF Out

-----------------------------------------------------------------------------
(* A frame taken keeps what is carried on its way. *)
LEMMA InboundRoutes ==
  ASSUME Routes, NEW n \in Nodes, NEW f \in air, HandleInbound(n, f)
  PROVE  Routes'
<1> DEFINE h == P(f).hash
<1>1. Genuine(P(f)) /\ h \in Packets /\ f.via \in crossed[h]
  BY Incoming, KindFacts DEF Routes
<1>2. /\ InAir' /\ \A x \in Packets : crossed[x] \subseteq crossed'[x]
      /\ \A s \in Out(n, f) : s[1] \in crossed'[s[2].hash]
  BY InboundAir, AllGenuine, AirKept DEF Routes
<1>3. Nodes' = Nodes /\ net' = net /\ path' = path
  <2>1. net' = net /\ path' = path
    BY InboundAir
  <2> QED BY <2>1 DEF Nodes
<1>4. Fixed'
  BY <1>3 DEF Fixed, Routes
<1>5. {"data", "lr"} \subseteq Packets
  BY DEF Packets
<1>6. Fwd(n, f) # {} => path[n].iface \in crossed'[h] /\ f.via \in crossed'[h] /\ n # net.to
  <2>1. SUFFICES ASSUME NEW s \in Fwd(n, f) PROVE path[n].iface \in crossed'[h] /\ f.via \in crossed'[h] /\ n # net.to
    BY Zenon
  <2>2. s[1] = path[n].iface /\ s[2].hash = h /\ path[n] # NoPath
    BY Onward DEF Alike
  <2>3. s \in Out(n, f)
    BY DEF Out
  <2> QED BY <1>1, <1>2, <2>2, <2>3 DEF Routes, Fixed
<1>7. LinkRoutes'
  <2>0. link_table' = [link_table EXCEPT ![n] = LinkTable(n, f)]
    BY InboundLinkTable
  <2>1. /\ DOMAIN link_table' = Nodes /\ \A k \in Nodes \ {n} : link_table'[k] = link_table[k]
        /\ link_table'[n] = LinkTable(n, f)
    BY <2>0 DEF Routes, LinkRoutes
  <2>2. \A e : IsRoute(e, crossed["lr"]) => IsRoute(e, crossed'["lr"])
    BY <1>2, <1>5 DEF IsRoute
  <2>3. \A k \in Nodes : \A l \in DOMAIN link_table[k] :
           l = LinkId /\ k # net.to /\ IsRoute(link_table[k][l], crossed["lr"])
    BY DEF Routes, LinkRoutes
  <2>4. \A l \in DOMAIN LinkTable(n, f) :
           l = LinkId /\ n # net.to /\ IsRoute(LinkTable(n, f)[l], crossed'["lr"])
    <3>1. CASE Fwd(n, f) # {} /\ P(f).type = "LINKREQUEST"
      <4> DEFINE e == LinkEntry(n, P(f), f.via)
      <4>1. LinkTable(n, f) = With(link_table[n], LinkId, e)
        BY <3>1 DEF LinkTable
      <4>2. h = "lr"
        BY <1>1, <3>1, KindFacts
      <4>3. IsRoute(e, crossed'["lr"])
        <5>1. /\ DOMAIN e = LinkFields /\ e.next_hop_interface = path[n].iface
              /\ e.received_interface = f.via
          BY DEF LinkEntry, LinkFields
        <5> QED BY <1>6, <3>1, <4>2, <5>1 DEF IsRoute
      <4>4. \A l \in DOMAIN link_table[n] : l = LinkId
        BY <2>3
      <4> HIDE DEF e
      <4> QED BY <1>6, <3>1, <4>1, <4>3, <4>4 DEF With
    <3>2. CASE ~(Fwd(n, f) # {} /\ P(f).type = "LINKREQUEST") /\ Routed(n, f) # {} /\ P(f).context = "LRPROOF"
      <4> DEFINE e == link_table[n][LinkId]
      <4>1. LinkTable(n, f) = [link_table[n] EXCEPT ![LinkId].validated = TRUE]
        BY Zenon, <3>2 DEF LinkTable
      <4>2. LinkId \in DOMAIN link_table[n]
        BY <1>1, <3>2, RoutedBy, KindFacts
      <4>3. n # net.to /\ IsRoute(e, crossed["lr"]) /\ DOMAIN link_table[n] = {LinkId}
        BY <2>3, <4>2
      <4>4. DOMAIN LinkTable(n, f) = {LinkId} /\ LinkTable(n, f)[LinkId] = [e EXCEPT !.validated = TRUE]
        BY <4>1, <4>3
      <4>5. IsRoute([e EXCEPT !.validated = TRUE], crossed["lr"])
        BY <4>3 DEF IsRoute, LinkFields
      <4> QED BY Zenon, <2>2, <4>3, <4>4, <4>5
    <3>3. CASE ~(Fwd(n, f) # {} /\ P(f).type = "LINKREQUEST") /\ ~(Routed(n, f) # {} /\ P(f).context = "LRPROOF")
      <4>1. LinkTable(n, f) = link_table[n]
        BY <3>3 DEF LinkTable
      <4> QED BY <2>2, <2>3, <4>1
    <3> QED BY <3>1, <3>2, <3>3
  <2>5. \A k \in Nodes : \A l \in DOMAIN link_table'[k] :
          l = LinkId /\ k # net.to /\ IsRoute(link_table'[k][l], crossed'["lr"])
    BY <2>1, <2>2, <2>3, <2>4
  <2> QED BY <1>3, <2>1, <2>5 DEF LinkRoutes
<1>8. ReverseRoutes'
  <2>0. reverse_table' = [reverse_table EXCEPT ![n] = ReverseTable(n, f)]
    BY InboundReverseTable
  <2>1. /\ DOMAIN reverse_table' = Nodes /\ \A k \in Nodes \ {n} : reverse_table'[k] = reverse_table[k]
        /\ reverse_table'[n] = ReverseTable(n, f)
    BY <2>0 DEF Routes, ReverseRoutes
  <2>2. \A k \in Nodes : \A x \in DOMAIN reverse_table[k] :
           x = "data" /\ reverse_table[k][x].receiving_interface \in crossed'["data"]
    BY <1>2, <1>5 DEF Routes, ReverseRoutes
  <2>3. \A x \in DOMAIN ReverseTable(n, f) :
           x = "data" /\ ReverseTable(n, f)[x].receiving_interface \in crossed'["data"]
    <3>1. CASE Fwd(n, f) # {} /\ P(f).type # "LINKREQUEST"
      <4>1. ReverseTable(n, f) = With(reverse_table[n], h, ReverseEntry(n, f.via))
        BY Zenon, <3>1 DEF ReverseTable
      <4>2. h = "data"
        BY Zenon, <1>1, <3>1, Onward, KindFacts
      <4>3. ReverseEntry(n, f.via).receiving_interface \in crossed'["data"]
        BY <1>6, <3>1, <4>2 DEF ReverseEntry
      <4> QED BY <2>2, <4>1, <4>2, <4>3 DEF With
    <3>2. CASE ~(Fwd(n, f) # {} /\ P(f).type # "LINKREQUEST") /\ Passes(n, f) /\ TakesReverse(n, P(f))
      <4>1. ReverseTable(n, f) = Restrict(reverse_table[n], DOMAIN reverse_table[n] \ {P(f).dest})
        BY <3>2 DEF ReverseTable
      <4> QED BY <2>2, <4>1 DEF Restrict
    <3>3. CASE ~(Fwd(n, f) # {} /\ P(f).type # "LINKREQUEST") /\ ~(Passes(n, f) /\ TakesReverse(n, P(f)))
      <4>1. ReverseTable(n, f) = reverse_table[n]
        BY <3>3 DEF ReverseTable
      <4> QED BY <2>2, <4>1
    <3> QED BY <3>1, <3>2, <3>3
  <2> QED BY <1>3, <2>1, <2>2, <2>3 DEF ReverseRoutes
<1>9. Carried'
  <2>0. carried' = [carried EXCEPT ![h] = @ \cup Media(n, f)]
    BY InboundCarried
  <2>1. /\ DOMAIN carried' = Packets /\ carried'[h] = carried[h] \cup Media(n, f)
        /\ \A x \in Packets \ {h} : carried'[x] = carried[x]
    BY <1>1, <2>0 DEF Routes, Carried
  <2>2. {"data_proof", "lrproof", "rtt", "msg", "msg_proof"} \subseteq Packets
    BY DEF Packets
  <2>3. h \in {"data_proof", "lrproof", "rtt", "msg", "msg_proof"} => Fwd(n, f) = {}
    BY Zenon, Onward
  <2>4. h = "data_proof" => Media(n, f) \subseteq crossed["data"]
    BY <1>1, <2>3, RoutedBy, KindFacts DEF Media
  <2>5. h \in {"lrproof", "rtt", "msg", "msg_proof"} => Media(n, f) \subseteq crossed["lr"]
    BY <1>1, <2>3, RoutedBy, KindFacts DEF Media
  <2>6. carried'["data_proof"] \subseteq crossed'["data"]
    BY <1>2, <1>5, <2>1, <2>2, <2>3, <2>4 DEF Routes, Carried, AnswersRetrace
  <2>7. ASSUME NEW x \in {"lrproof", "rtt", "msg", "msg_proof"} PROVE carried'[x] \subseteq crossed'["lr"]
    BY <1>2, <1>5, <2>1, <2>2, <2>3, <2>5 DEF Routes, Carried, AnswersRetrace
  <2> QED BY <2>1, <2>6, <2>7 DEF Carried, AnswersRetrace
<1> QED BY <1>2, <1>4, <1>7, <1>8, <1>9 DEF Routes

(* A packet that a node takes is new to it, or of a kind that is not          *)
(* de-duplicated; what it passes on or gives to its applications it has seen. *)
LEMMA Novel ==
  ASSUME Routes, NEW n \in Nodes, NEW f \in air, Passes(n, f), P(f).hash \in Once
  PROVE  P(f).hash \notin Range(hashlist[n])
<1>1. Genuine(P(f))
  BY Incoming DEF Routes
<1>2. P(f).context # "CHANNEL" /\ P(f).dest # Plain
  BY Zenon, <1>1, KindFacts DEF Once
<1> QED BY <1>2 DEF Passes, PacketFilter

LEMMA InboundRemembers ==
  ASSUME Routes, Counts, NEW n \in Nodes, NEW f \in air, HandleInbound(n, f)
  PROVE  /\ Remembered' /\ \A k \in Nodes : Range(hashlist[k]) \subseteq Range(hashlist'[k])
         /\ \A h \in Seen(n, f) : h \in Range(hashlist'[n])
         /\ \A s \in Reply(n, f) : s[2].hash = "rtt" => n = net.from /\ "rtt" \in Range(hashlist'[n])
<1> DEFINE w == hashlist[n]
           v == Remember(w, Seen(n, f))
           H == {s[2].hash : s \in Reply(n, f)}
<1>1. hashlist' = [hashlist EXCEPT ![n] = Remember(v, H)] /\ Nodes' = Nodes
  <2>1. hashlist' = [hashlist EXCEPT ![n] = Learned(n, f)] /\ net' = net
    BY InboundHashes, InboundAir
  <2> QED BY <2>1 DEF Nodes, Learned
<1>2. w \in Windows
  BY DEF Counts, Remembered
<1>3. Genuine(P(f)) /\ Genuine(f.packet) /\ P(f).hash \in Packets
  BY Incoming, KindFacts DEF Routes
<1>4. Seen(n, f) \subseteq {P(f).hash}
  BY DEF Seen
<1>5. v \in Windows /\ Range(w) \subseteq Range(v)
  BY Zenon, <1>2, <1>3, <1>4, RememberGrows
<1>6. \A h \in Seen(n, f) : h \in Range(v)
  BY <1>2, <1>3, <1>4, RememberOne DEF Seen
<1>7. \A s \in Reply(n, f) : s \in Out(n, f)
  BY DEF Out
<1>8. H \subseteq Packets
  BY Zenon, <1>7, AllGenuine, KindFacts
<1>9. Remember(v, H) \in Windows /\ Range(v) \subseteq Range(Remember(v, H))
  BY <1>5, <1>8, RememberGrows
<1>10. hashlist'[n] = Remember(v, H) /\ \A k \in Nodes \ {n} : hashlist'[k] = hashlist[k]
  BY <1>1 DEF Counts, Remembered
<1>11. ASSUME NEW s \in Reply(n, f), s[2].hash = "rtt"
       PROVE  n = net.from /\ "rtt" \in Range(Remember(v, H))
  <2>1. Reply(n, f) = Answers(n, f.packet, f.via)
    BY DEF Reply
  <2>2. /\ links[n].state = "pending" /\ \A t \in Reply(n, f) : Alike(t[2], LrRtt)
    <3>1. \A k \in {LrProof, DataProof, MessageProof} : ~Alike(s[2], k)
      BY <1>11 DEF Alike, LrProof, DataProof, MessageProof, Packet
    <3> QED BY Zenon, <1>3, <2>1, <3>1, AnswersAlike
  <2>3. LrRtt.hash = "rtt"
    BY DEF LrRtt, Packet
  <2>4. H = {"rtt"}
    BY <1>11, <2>2, <2>3 DEF Alike
  <2>5. "rtt" \in Packets
    BY Zenon DEF Packets
  <2> QED BY <1>5, <2>2, <2>4, <2>5, RememberOne DEF Counts, Ends
<1>12. Remembered'
  BY <1>1, <1>9 DEF Counts, Remembered
<1> HIDE DEF w, v, H
<1> QED BY <1>5, <1>6, <1>9, <1>10, <1>11, <1>12 DEF w

LEMMA LinkAfterKept ==
  ASSUME NEW n, NEW raw, NEW m, Genuine(raw), DOMAIN links[n] = DOMAIN NoLink
  PROVE  /\ DOMAIN LinkAfter(n, raw, m) = DOMAIN NoLink
         /\ LinkAfter(n, raw, m).state = "pending" => links[n].state = "pending"
         /\ LinkAfter(n, raw, m).state # "none" => raw.hash = "lr" \/ links[n].state # "none"
<1> DEFINE link == links[n]
           hinted == Hinted(link, raw, m)
           after == LinkAfter(n, raw, m)
<1>1. DOMAIN NoLink = {"state", "iface", "tid"}
  BY DEF NoLink
<1>2. DOMAIN hinted = DOMAIN NoLink /\ hinted.state = link.state
  BY <1>1 DEF Hinted
<1>3. raw.type = "LINKREQUEST" => raw.hash = "lr" /\ raw.dest # LinkId
  BY KindFacts
<1>4. CASE raw.type = "LINKREQUEST"
  <2>1. after = [state |-> "handshake", iface |-> m, tid |-> raw.tid]
    BY <1>3, <1>4, KindFacts DEF LinkAfter
  <2> QED BY <1>1, <1>3, <1>4, <2>1
<1>5. CASE raw.type # "LINKREQUEST"
  <2>1. \/ after = link \/ after = hinted
        \/ after = [hinted EXCEPT !.state = IF @ = "pending" THEN "active" ELSE @] /\ OwnsLink(n)
        \/ after = [hinted EXCEPT !.state = IF @ = "handshake" THEN "active" ELSE @] /\ OwnsLink(n)
    BY <1>5 DEF LinkAfter
  <2> HIDE DEF hinted, after
  <2>2. \A x : DOMAIN [hinted EXCEPT !.state = x] = DOMAIN NoLink /\ [hinted EXCEPT !.state = x].state = x
    BY <1>1, <1>2
  <2> QED BY Zenon, <1>2, <2>1, <2>2 DEF OwnsLink, after
<1> QED BY <1>4, <1>5

(* To whom packets are given, who then knows them *)
LEMMA GivenTo ==
  ASSUME Routes, Counts, NEW n \in Nodes, NEW f \in air, Delivery(n, f)
  PROVE  P(f).hash \in {"data", "lr", "rtt"} => n = net.to /\ P(f).hash \in Seen(n, f)
<1>1. Genuine(P(f)) /\ Passes(n, f) /\ Delivers(n, P(f)) /\ P(f).hash = f.packet.hash
  BY Zenon, Incoming DEF Routes, Delivery
<1>2. CASE P(f).hash \in {"data", "lr", "rtt"}
  <2>1. P(f).type # "PROOF" /\ P(f).context # "LRPROOF"
    BY Zenon, <1>1, <1>2, KindFacts
  <2>2. ASSUME P(f).hash \in {"data", "lr"} PROVE n = net.to
    <3>1. P(f).dest = Dest /\ P(f).dest # LinkId /\ P(f).dest # Plain
      BY <1>1, <2>2, KindFacts
    <3> QED BY <1>1, <2>1, <3>1 DEF Delivers
  <2>3. ASSUME P(f).hash = "rtt" PROVE n = net.to
    <3>1. P(f).dest = LinkId /\ P(f).dest # Dest /\ P(f).dest # Plain
      BY <1>1, <2>3, KindFacts
    <3>2. links[n].state # "none"
      BY <1>1, <2>1, <3>1 DEF Delivers, OwnsLink
    <3>3. "rtt" \in Range(hashlist[net.from])
      BY Zenon, <1>1, <2>3 DEF Counts, OwnRtt
    <3>4. "rtt" \notin Range(hashlist[n])
      BY <1>1, <2>3, Novel DEF Once, Packets
    <3> QED BY Zenon, <3>2, <3>3, <3>4 DEF Counts, Ends
  <2>4. n = net.to
    BY <1>2, <2>2, <2>3
  <2>5. DOMAIN link_table[n] = {}
    BY <2>4 DEF Routes, LinkRoutes
  <2>6. Remembers(n, P(f))
    BY <2>1, <2>5 DEF Remembers
  <2> QED BY <1>1, <2>4, <2>6 DEF Seen
<1> QED BY <1>2

LEMMA InboundEnds ==
  ASSUME Routes, Counts, NEW n \in Nodes, NEW f \in air, HandleInbound(n, f)
  PROVE  Ends'
<1>1. net' = net /\ Nodes' = Nodes
  BY InboundAir DEF Nodes
<1>2. links' = [links EXCEPT ![n] = Link(n, f)]
  BY InboundLinks
<1>3. /\ DOMAIN links' = Nodes /\ \A k \in Nodes \ {n} : links'[k] = links[k]
      /\ links'[n] = Link(n, f)
  BY <1>2 DEF Counts, Ends
<1>4. /\ DOMAIN Link(n, f) = DOMAIN NoLink
      /\ Link(n, f).state = "pending" => n = net.from
      /\ Link(n, f).state # "none" => n \in {net.from, net.to}
  <2>1. CASE Delivery(n, f)
    <3>1. Genuine(f.packet) /\ P(f).hash = f.packet.hash
      BY Incoming DEF Routes
    <3>2. Link(n, f) = LinkAfter(n, f.packet, f.via)
      BY Zenon, <2>1 DEF Link
    <3>3. /\ DOMAIN Link(n, f) = DOMAIN NoLink
          /\ Link(n, f).state = "pending" => links[n].state = "pending"
          /\ Link(n, f).state # "none" => P(f).hash = "lr" \/ links[n].state # "none"
      BY <3>1, <3>2, LinkAfterKept DEF Counts, Ends
    <3>4. P(f).hash = "lr" => n = net.to
      BY <2>1, GivenTo
    <3> QED BY <3>3, <3>4 DEF Counts, Ends
  <2>2. CASE ~Delivery(n, f)
    BY <2>2 DEF Link, Counts, Ends
  <2> QED BY <2>1, <2>2
<1> QED BY <1>1, <1>3, <1>4 DEF Ends, Counts

LEMMA InboundOwnRtt ==
  ASSUME Routes, Counts, NEW n \in Nodes, NEW f \in air, HandleInbound(n, f)
  PROVE  OwnRtt'
<1>1. net' = net /\ air' = (air \ {f}) \cup Frames(n, Out(n, f))
  BY InboundAir
<1>2. net.from \in Nodes
  BY NetworkFacts DEF Routes
<1>3. Range(hashlist[net.from]) \subseteq Range(hashlist'[net.from])
  BY <1>2, InboundRemembers
<1>4. SUFFICES ASSUME NEW g \in air', g.packet.hash = "rtt" PROVE "rtt" \in Range(hashlist'[net.from])
  BY <1>1 DEF OwnRtt
<1>5. CASE g \in air
  BY <1>3, <1>4, <1>5 DEF Counts, OwnRtt
<1>6. CASE g \in Frames(n, Out(n, f))
  <2>1. PICK s \in Out(n, f) : \E r : g = [from |-> n, to |-> r, via |-> s[1], packet |-> s[2]]
    BY <1>6 DEF Frames
  <2>2. s[2].hash = "rtt"
    BY <1>4, <2>1
  <2>3. CASE s \in Reply(n, f)
    BY <2>2, <2>3, InboundRemembers
  <2>4. CASE s \notin Reply(n, f)
    <3>1. Alike(s[2], P(f)) /\ P(f).hash = f.packet.hash
      BY Zenon, <2>4, Onward, Incoming DEF Out, Routes
    <3>2. f.packet.hash = "rtt"
      BY Zenon, <2>2, <3>1 DEF Alike
    <3> QED BY Zenon, <1>3, <3>2 DEF Counts, OwnRtt
  <2> QED BY <2>3, <2>4
<1> QED BY <1>1, <1>5, <1>6

LEMMA InboundPassedOn ==
  ASSUME Routes, Counts, NEW n \in Nodes, NEW f \in air, HandleInbound(n, f)
  PROVE  PassedOn'
<1> DEFINE h == P(f).hash
           on == Fwd(n, f) \cup Routed(n, f)
<1>1. Genuine(P(f)) /\ h \in Packets
  BY Incoming, KindFacts DEF Routes
<1>2. net' = net /\ Nodes' = Nodes
  BY InboundAir DEF Nodes
<1>3. forwards' = [forwards EXCEPT ![n][h] = Capped(@ + Cardinality(on))]
  BY Zenon, InboundForwards
<1>4. /\ DOMAIN forwards' = Nodes /\ \A k \in Nodes : DOMAIN forwards'[k] = Packets
      /\ \A k \in Nodes, x \in Packets : k # n \/ x # h => forwards'[k][x] = forwards[k][x]
      /\ forwards'[n][h] = Capped(forwards[n][h] + Cardinality(on))
  BY <1>1, <1>3 DEF Counts, PassedOn
<1>5. Once \subseteq Packets
  BY DEF Once
<1>6. \A k \in Nodes : Range(hashlist[k]) \subseteq Range(hashlist'[k])
  BY Zenon, InboundRemembers
<1>7. ASSUME h \in Once
      PROVE  forwards'[n][h] \in 0..1 /\ (forwards'[n][h] # 0 => h \in Range(hashlist'[n]))
  <2>1. forwards[n][h] \in 0..1 /\ (forwards[n][h] # 0 => h \in Range(hashlist[n]))
    BY Zenon, <1>7 DEF Counts, PassedOn
  <2>2. CASE on = {}
    <3>1. Cardinality(on) = 0
      BY <2>2, FS_EmptySet
    <3> QED BY <1>4, <1>6, <2>1, <3>1 DEF Capped
  <2>3. CASE on # {}
    <3>1. PICK s : on = {s}
      BY <2>3, RoutedBy
    <3>2. Cardinality(on) = 1
      BY Zenon, <3>1, FS_Singleton
    <3>3. Passes(n, f)
      BY Zenon, <2>3, Onward, RoutedBy
    <3>4. forwards[n][h] = 0
      BY <1>7, <2>1, <3>3, Novel
    <3>5. P(f).context # "LRPROOF"
      BY <1>1, <1>7, KindFacts DEF Once
    <3>6. Routed(n, f) = {} => Remembers(n, P(f))
      <4>1. SUFFICES ASSUME Routed(n, f) = {} PROVE P(f).dest \notin DOMAIN link_table[n]
        BY Zenon, <3>5 DEF Remembers
      <4>2. P(f).dest # LinkId
        BY <1>1, <2>3, <4>1, Onward, KindFacts
      <4> QED BY <4>2 DEF Routes, LinkRoutes
    <3>7. h \in Seen(n, f)
      BY <3>3, <3>5, <3>6 DEF Seen
    <3>8. h \in Range(hashlist'[n])
      BY <3>7, InboundRemembers
    <3>9. forwards'[n][h] = 1
      BY <1>4, <3>2, <3>4 DEF Capped
    <3> QED BY <3>8, <3>9
  <2> QED BY <2>2, <2>3
<1>8. ASSUME NEW k \in Nodes, NEW x \in Once, k # n \/ x # h
      PROVE  forwards'[k][x] \in 0..1 /\ (forwards'[k][x] # 0 => x \in Range(hashlist'[k]))
  BY Zenon, <1>4, <1>5, <1>6, <1>8 DEF Counts, PassedOn
<1> HIDE DEF h, on
<1>9. \A k \in Nodes, x \in Once :
        forwards'[k][x] \in 0..1 /\ (forwards'[k][x] # 0 => x \in Range(hashlist'[k]))
  BY <1>7, <1>8
<1> QED BY Zenon, <1>2, <1>4, <1>9 DEF PassedOn

LEMMA InboundGiven ==
  ASSUME Routes, Counts, NEW n \in Nodes, NEW f \in air, HandleInbound(n, f)
  PROVE  Awaits' /\ Given'
<1> DEFINE h == P(f).hash
           from == net.from
<1>1. Genuine(P(f)) /\ h \in Packets
  BY Incoming, KindFacts DEF Routes
<1>2. net' = net /\ Nodes' = Nodes /\ sends' = sends
  BY InboundAir DEF Nodes
<1>3. from \in Nodes /\ net.to \in Nodes
  BY NetworkFacts DEF Routes
<1>4. sent_packets' = [sent_packets EXCEPT ![n] = Awaiting(n, f)]
  BY InboundAwaiting
<1>5. /\ DOMAIN sent_packets' = Nodes /\ sent_packets'[n] = Awaiting(n, f)
      /\ \A k \in Nodes \ {n} : sent_packets'[k] = sent_packets[k]
  BY <1>4 DEF Counts, Awaits
<1>6. /\ Awaiting(n, f) \subseteq sent_packets[n]
      /\ Delivery(n, f) /\ h = "data_proof" => "data" \notin Awaiting(n, f)
      /\ Delivery(n, f) /\ h = "msg_proof" => "msg" \notin Awaiting(n, f)
  BY DEF Awaiting
<1>7. \A k \in Nodes : sent_packets'[k] \subseteq sent_packets[k]
  BY <1>5, <1>6
<1>8. Awaits'
  BY <1>2, <1>3, <1>5, <1>7 DEF Awaits, Counts
<1>9. \A k \in Nodes : Range(hashlist[k]) \subseteq Range(hashlist'[k])
  BY InboundRemembers
<1>10. /\ \A x \in Once : delivered[x] \in 0..1
       /\ \A x \in {"data", "lr", "rtt"} : delivered[x] # 0 => x \in Range(hashlist[net.to])
       /\ "data" \in sends \cup sent_packets[from] => delivered["data_proof"] = 0
       /\ "msg" \in sends \cup sent_packets[from] => delivered["msg_proof"] = 0
  BY DEF Counts, Given
<1>11. Given'
  <2>1. CASE ~Taken(n, f)
    <3>1. delivered' = delivered
      BY Zenon, <2>1, InboundDelivered
    <3>2. /\ \A x \in {"data", "lr", "rtt"} : delivered'[x] # 0 => x \in Range(hashlist'[net.to])
          /\ \A x \in {"data", "msg"} : x \in sends' \cup sent_packets'[from] => x \in sends \cup sent_packets[from]
      BY <1>2, <1>3, <1>7, <1>9, <1>10, <3>1
    <3> QED BY <1>2, <1>10, <3>1, <3>2 DEF Given, Counts
  <2>2. CASE Taken(n, f)
    <3>1. delivered' = [delivered EXCEPT ![h] = Capped(@ + 1)]
      BY Zenon, <2>2, InboundDelivered
    <3>2. /\ DOMAIN delivered' = Packets /\ delivered'[h] = Capped(delivered[h] + 1)
          /\ \A x \in Packets \ {h} : delivered'[x] = delivered[x]
      BY <1>1, <3>1 DEF Counts, Given
    <3>3. Delivery(n, f)
      BY Zenon, <2>2 DEF Taken
    <3>4. ASSUME h \in {"data", "lr", "rtt"} PROVE delivered[h] = 0 /\ h \in Range(hashlist'[net.to])
      <4>1. n = net.to /\ h \in Seen(n, f)
        BY <3>3, <3>4, GivenTo
      <4>2. h \notin Range(hashlist[n])
        BY Zenon, <3>3, <3>4, Novel DEF Delivery, Once, Packets
      <4>3. h \in Range(hashlist'[n])
        BY Zenon, <4>1, InboundRemembers
      <4> QED BY <1>10, <3>4, <4>1, <4>2, <4>3
    <3>5. ASSUME h = "data_proof"
          PROVE  delivered[h] = 0 /\ "data" \notin sends' \cup sent_packets'[from]
      <4>1. "data" \in sent_packets[n]
        BY <2>2, <3>5 DEF Taken
      <4>2. n = from /\ "data" \notin sends
        BY Zenon, <1>3, <4>1 DEF Counts, Awaits
      <4> QED BY <1>2, <1>5, <1>6, <1>10, <3>3, <3>5, <4>1, <4>2
    <3>6. ASSUME h = "msg_proof"
          PROVE  delivered[h] = 0 /\ "msg" \notin sends' \cup sent_packets'[from]
      <4>1. "msg" \in sent_packets[n]
        BY <2>2, <3>6 DEF Taken
      <4>2. n = from /\ "msg" \notin sends
        BY <1>3, <4>1 DEF Counts, Awaits
      <4> QED BY <1>2, <1>5, <1>6, <1>10, <3>3, <3>6, <4>1, <4>2
    <3>7. Once = {"data", "lr", "rtt", "data_proof", "msg_proof"} /\ Once \subseteq Packets
      BY Zenon DEF Once, Packets
    <3>8. \A x \in Once : delivered'[x] \in 0..1
      <4>1. h \in Once => delivered'[h] = 1
        BY <3>2, <3>4, <3>5, <3>6, <3>7 DEF Capped
      <4> QED BY <1>10, <3>2, <3>7, <4>1
    <3>9. ASSUME NEW x \in {"data", "lr", "rtt"}, delivered'[x] # 0 PROVE x \in Range(hashlist'[net.to])
      BY <1>3, <1>9, <1>10, <3>2, <3>4, <3>7, <3>9
    <3>10. "data" \in sends' \cup sent_packets'[from] => delivered'["data_proof"] = 0
      BY <1>2, <1>3, <1>7, <1>10, <3>2, <3>5, <3>7
    <3>11. "msg" \in sends' \cup sent_packets'[from] => delivered'["msg_proof"] = 0
      BY Zenon, <1>2, <1>3, <1>7, <1>10, <3>2, <3>6, <3>7
    <3> HIDE DEF h
    <3> QED BY <1>2, <3>2, <3>8, <3>9, <3>10, <3>11 DEF Given
  <2> QED BY Zenon, <2>1, <2>2
<1> QED BY Zenon, <1>8, <1>11

LEMMA DriveInv ==
  ASSUME Routes, Counts, Drive
  PROVE  Routes' /\ Counts'
  BY InboundRoutes, InboundRemembers, InboundEnds, InboundOwnRtt, InboundPassedOn, InboundGiven
     DEF Drive, Counts

-----------------------------------------------------------------------------
(* What the initiator sends is genuine, and it remembers it. *)
LEMMA SentInv ==
  ASSUME Routes, Counts, NEW what, NEW out, Sent(net.from, what, out),
         \A s \in out : Genuine(s[2]) /\ s[2].hash # "rtt"
  PROVE  /\ Routes' /\ Remembered' /\ OwnRtt' /\ PassedOn' /\ Nodes' = Nodes /\ net' = net
         /\ \A k \in Nodes : Range(hashlist[k]) \subseteq Range(hashlist'[k])
<1> DEFINE n == net.from
           H == {s[2].hash : s \in out}
<1>1. /\ air' = air \cup Frames(n, out) /\ crossed' = Crossing(out)
      /\ net' = net /\ path' = path /\ link_table' = link_table /\ reverse_table' = reverse_table
      /\ forwards' = forwards /\ carried' = carried
      /\ hashlist' = [hashlist EXCEPT ![n] = Remember(@, H)]
  BY DEF Sent
<1>2. Nodes' = Nodes /\ n \in Nodes
  BY Zenon, <1>1, NetworkFacts DEF Nodes, Routes
<1>3. InAir' /\ \A x \in Packets : crossed[x] \subseteq crossed'[x]
  BY Zenon, <1>1, AirKept DEF Routes
<1>4. {"data", "lr"} \subseteq Packets
  BY DEF Packets
<1>5. crossed["data"] \subseteq crossed'["data"] /\ crossed["lr"] \subseteq crossed'["lr"]
  BY <1>3, <1>4
<1>6. Fixed' /\ Carried'
  BY Zenon, <1>1, <1>2, <1>5 DEF Routes, Fixed, Carried, AnswersRetrace
<1>7. LinkRoutes'
  BY Zenon, <1>1, <1>2, <1>5 DEF Routes, LinkRoutes, IsRoute
<1>8. ReverseRoutes'
  BY <1>1, <1>2, <1>5 DEF Routes, ReverseRoutes
<1>9. H \subseteq Packets
  BY KindFacts
<1>10. hashlist[n] \in Windows
  BY Zenon, <1>2 DEF Counts, Remembered
<1>11. Remember(hashlist[n], H) \in Windows /\ Range(hashlist[n]) \subseteq Range(Remember(hashlist[n], H))
  BY Zenon, <1>9, <1>10, RememberGrows
<1> HIDE DEF H
<1>12. Remembered' /\ \A k \in Nodes : Range(hashlist[k]) \subseteq Range(hashlist'[k])
  BY Zenon, <1>1, <1>2, <1>11 DEF Counts, Remembered
<1>13. OwnRtt'
  <2>1. SUFFICES ASSUME NEW g \in air', g.packet.hash = "rtt" PROVE "rtt" \in Range(hashlist'[n])
    BY Zenon, <1>1 DEF OwnRtt
  <2>2. g \notin Frames(n, out)
    BY <2>1 DEF Frames
  <2> QED BY Zenon, <1>1, <1>2, <1>12, <2>1, <2>2 DEF Counts, OwnRtt
<1>14. PassedOn'
  BY ZenonT(40), <1>1, <1>2, <1>12 DEF Counts, PassedOn
<1> QED BY ZenonT(40), <1>1, <1>2, <1>3, <1>6, <1>7, <1>8, <1>12, <1>13, <1>14 DEF Routes

LEMMA SendsGiven ==
  ASSUME Routes, Counts, NEW what, NEW out, Sent(net.from, what, out), Nodes' = Nodes,
         \/ sent_packets' = sent_packets
         \/ sent_packets' = [sent_packets EXCEPT ![net.from] = @ \cup {what}],
         \A k \in Nodes : Range(hashlist[k]) \subseteq Range(hashlist'[k])
  PROVE  Awaits' /\ Given'
<1> DEFINE n == net.from
<1>1. what \in sends /\ sends' = sends \ {what} /\ delivered' = delivered /\ net' = net
  BY ZenonT(40) DEF Sent
<1>2. n \in Nodes /\ net.to \in Nodes
  BY Zenon, NetworkFacts DEF Routes
<1>3. /\ DOMAIN sent_packets' = Nodes /\ \A k \in Nodes \ {n} : sent_packets'[k] = sent_packets[k]
      /\ sent_packets'[n] \subseteq sent_packets[n] \cup {what}
  BY Zenon, <1>2 DEF Counts, Awaits
<1>4. Awaits'
  BY <1>1, <1>2, <1>3 DEF Counts, Awaits
<1>5. \A x : x \in sends' \cup sent_packets'[n] => x \in sends \cup sent_packets[n]
  BY <1>1, <1>3
<1>6. Given'
  BY <1>1, <1>2, <1>5 DEF Counts, Given
<1> QED BY <1>4, <1>6

LEMMA SendsInv ==
  ASSUME Routes, Counts,
         SendData(net.from) \/ SendBroadcast(net.from) \/ CreateLink(net.from) \/ SendMessage(net.from)
  PROVE  Routes' /\ Counts'
<1> DEFINE n == net.from
<1>0. n \in Nodes
  BY NetworkFacts DEF Routes
<1>1. ASSUME NEW k \in {Data, Broadcast, LinkRequest, Message}
      PROVE  /\ DOMAIN k = Fields /\ Genuine(k) /\ k.hash # "rtt"
  <2>1. k \in Kinds /\ k.hash # "rtt"
    BY DEF Kinds, Data, Broadcast, LinkRequest, Message, Packet
  <2> QED BY Zenon, <2>1, KindGenuine
<1>2. ASSUME NEW k \in {Data, Broadcast, LinkRequest, Message}, NEW s, Alike(s[2], k)
      PROVE  Genuine(s[2]) /\ s[2].hash # "rtt"
  <2>1. Genuine(k) /\ k.hash # "rtt"
    BY Zenon, <1>1
  <2> QED BY <1>2, <2>1, AlikeGenuine DEF Alike
<1>3. ASSUME NEW k \in {Data, Broadcast, LinkRequest, Message}, NEW s \in RouteOutbound(n, k, None)
      PROVE  Genuine(s[2]) /\ s[2].hash # "rtt"
  BY Zenon, <1>1, <1>2, OutboundAlike
<1>4. ASSUME NEW s \in LinkSends(n, links[n], Message)
      PROVE  Genuine(s[2]) /\ s[2].hash # "rtt"
  <2>1. Alike(s[2], Message)
    BY <1>1, LinkSendsAlike
  <2> QED BY <1>2, <2>1
<1>5. ASSUME Nodes' = Nodes, net' = net, links' = links PROVE Ends'
  BY Zenon, <1>5 DEF Counts, Ends
<1>6. CASE SendData(n)
  <2>1. Sent(n, "data", RouteOutbound(n, Data, None)) /\ links' = links
        /\ sent_packets' = [sent_packets EXCEPT ![n] = @ \cup {"data"}]
    BY Zenon, <1>6 DEF SendData
  <2>2. /\ Routes' /\ Remembered' /\ OwnRtt' /\ PassedOn' /\ Nodes' = Nodes /\ net' = net
        /\ \A k \in Nodes : Range(hashlist[k]) \subseteq Range(hashlist'[k])
    BY <1>3, <2>1, SentInv
  <2>3. Awaits' /\ Given'
    BY Zenon, <2>1, <2>2, SendsGiven
  <2> QED BY <1>5, <2>1, <2>2, <2>3 DEF Counts
<1>7. CASE SendBroadcast(n)
  <2>1. Sent(n, "plain", RouteOutbound(n, Broadcast, None)) /\ links' = links /\ sent_packets' = sent_packets
    BY Zenon, <1>7 DEF SendBroadcast
  <2>2. /\ Routes' /\ Remembered' /\ OwnRtt' /\ PassedOn' /\ Nodes' = Nodes /\ net' = net
        /\ \A k \in Nodes : Range(hashlist[k]) \subseteq Range(hashlist'[k])
    BY Zenon, <1>3, <2>1, SentInv
  <2>4. Awaits' /\ Given'
    BY Zenon, <2>1, <2>2, SendsGiven
  <2> QED BY <1>5, <2>1, <2>2, <2>4 DEF Counts
<1>8. CASE CreateLink(n)
  <2>1. Sent(n, "link", RouteOutbound(n, LinkRequest, None)) /\ sent_packets' = sent_packets
    BY Zenon, <1>8 DEF CreateLink
  <2>2. /\ Routes' /\ Remembered' /\ OwnRtt' /\ PassedOn' /\ Nodes' = Nodes /\ net' = net
        /\ \A k \in Nodes : Range(hashlist[k]) \subseteq Range(hashlist'[k])
    BY Zenon, <1>3, <2>1, SentInv
  <2>4. Awaits' /\ Given'
    BY Zenon, <2>1, <2>2, SendsGiven
  <2>5. links' = [links EXCEPT ![n] = [state |-> "pending", iface |-> path[n].iface, tid |-> None]]
    BY Zenon, <1>8 DEF CreateLink
  <2>6. Ends'
    BY Zenon, <1>0, <2>2, <2>5 DEF Counts, Ends, NoLink
  <2> QED BY Zenon, <2>2, <2>4, <2>6 DEF Counts
<1>9. CASE SendMessage(n)
  <2>1. Sent(n, "msg", LinkSends(n, links[n], Message)) /\ links' = links
        /\ sent_packets' = [sent_packets EXCEPT ![n] = @ \cup {"msg"}]
    BY <1>9 DEF SendMessage
  <2>2. /\ Routes' /\ Remembered' /\ OwnRtt' /\ PassedOn' /\ Nodes' = Nodes /\ net' = net
        /\ \A k \in Nodes : Range(hashlist[k]) \subseteq Range(hashlist'[k])
    BY Zenon, <1>4, <2>1, SentInv
  <2>3. Awaits' /\ Given'
    BY ZenonT(40), <2>1, <2>2, SendsGiven
  <2> QED BY Zenon, <1>5, <2>1, <2>2, <2>3 DEF Counts
<1> QED BY <1>6, <1>7, <1>8, <1>9

-----------------------------------------------------------------------------
(* Faults lose frames and entries, and change paths other than the owner's.   *)
LEMMA FaultsInv ==
  ASSUME Routes, Counts, NEW n \in Nodes, NEW f,
         Lose(f) \/ CullTables(n) \/ PathChanges(n)
  PROVE  Routes' /\ Counts'
<1>1. /\ net' = net /\ hashlist' = hashlist /\ sent_packets' = sent_packets /\ links' = links
      /\ sends' = sends /\ crossed' = crossed /\ forwards' = forwards /\ carried' = carried
      /\ delivered' = delivered /\ air' \subseteq air
  BY Zenon DEF Lose, CullTables, PathChanges
<1>2. Nodes' = Nodes
  BY <1>1 DEF Nodes
<1>3. Counts'
  BY Zenon, <1>1, <1>2 DEF Counts, Remembered, Ends, OwnRtt, PassedOn, Awaits, Given
<1>4. InAir' /\ Carried'
  BY Zenon, <1>1 DEF Routes, InAir, Carried, AnswersRetrace
<1>5. Fixed'
  <2>1. CASE path' = path
    BY Zenon, <1>1, <1>2, <2>1 DEF Routes, Fixed
  <2>2. CASE path' # path
    <3>1. PathChanges(n)
      BY <2>2 DEF Lose, CullTables
    <3>2. PICK e \in net.others[n] : path' = [path EXCEPT ![n] = e]
      BY <3>1 DEF PathChanges
    <3>3. n = net.to => e = NoPath
      BY <3>2, NetworkFacts DEF Routes
    <3>4. net.to \in Nodes
      BY Zenon, NetworkFacts DEF Routes
    <3> QED BY <1>1, <1>2, <3>2, <3>3, <3>4 DEF Routes, Fixed
  <2> QED BY <2>1, <2>2
<1>6. LinkRoutes'
  <2>1. CASE link_table' = link_table
    BY Zenon, <1>1, <1>2, <2>1 DEF Routes, LinkRoutes
  <2>2. CASE link_table' # link_table
    <3>1. PICK l : link_table' = [link_table EXCEPT ![n] = Restrict(@, DOMAIN @ \ {l})]
      BY Zenon, <2>2 DEF Lose, CullTables, PathChanges
    <3>2. /\ DOMAIN link_table' = Nodes
          /\ \A k \in Nodes : \A x \in DOMAIN link_table'[k] :
               x \in DOMAIN link_table[k] /\ link_table'[k][x] = link_table[k][x]
      BY Zenon, <3>1 DEF Routes, LinkRoutes, Restrict
    <3> QED BY <1>1, <1>2, <3>2 DEF Routes, LinkRoutes
  <2> QED BY <2>1, <2>2
<1>7. ReverseRoutes'
  <2>1. CASE reverse_table' = reverse_table
    BY <1>1, <1>2, <2>1 DEF Routes, ReverseRoutes
  <2>2. CASE reverse_table' # reverse_table
    <3>1. PICK h : reverse_table' = [reverse_table EXCEPT ![n] = Restrict(@, DOMAIN @ \ {h})]
      BY ZenonT(40), <2>2 DEF Lose, CullTables, PathChanges
    <3>2. /\ DOMAIN reverse_table' = Nodes
          /\ \A k \in Nodes : \A x \in DOMAIN reverse_table'[k] :
               x \in DOMAIN reverse_table[k] /\ reverse_table'[k][x] = reverse_table[k][x]
      BY <3>1 DEF Routes, ReverseRoutes, Restrict
    <3> QED BY <1>1, <1>2, <3>2 DEF Routes, ReverseRoutes
  <2> QED BY <2>1, <2>2
<1> QED BY <1>3, <1>4, <1>5, <1>6, <1>7 DEF Routes

LEMMA StepInv ==
  ASSUME Routes, Counts, [ForwardingNext]_fvars
  PROVE  Routes' /\ Counts'
<1>1. CASE UNCHANGED fvars
  <2>1. Nodes' = Nodes
    BY Zenon, <1>1 DEF fvars, Nodes
  <2>2. Routes'
    BY <1>1, <2>1 DEF fvars, Routes, Fixed, InAir, LinkRoutes, ReverseRoutes, Carried, AnswersRetrace
  <2>3. Counts'
    BY Zenon, <1>1, <2>1 DEF fvars, Counts, Remembered, Ends, OwnRtt, PassedOn, Awaits, Given
  <2> QED BY <2>2, <2>3
<1>2. net.from \in Nodes
  BY NetworkFacts DEF Routes
<1> QED BY <1>1, <1>2, DriveInv, SendsInv, FaultsInv DEF ForwardingNext

LEMMA Always == ForwardingInit /\ [][ForwardingNext]_fvars => [](Routes /\ Counts)
<1>1. ASSUME Routes /\ Counts, [ForwardingNext]_fvars PROVE (Routes /\ Counts)'
  BY <1>1, StepInv
<1> QED BY <1>1, InitInv, PTL

(* In every network, whatever the paths say (loops included), whatever is     *)
(* lost and however many ways a packet comes by: no node passes a packet on   *)
(* twice, and no application gets it twice.                                   *)
THEOREM NothingTwice == ForwardingSpec => []OnceEach
<1>1. Counts => OnceEach
  BY DEF Counts, PassedOn, Given, OnceEach
<1> QED BY <1>1, Always, PTL DEF ForwardingSpec

(* In every network, proofs and the packets of a link go over media that the  *)
(* packet they answer crossed, however paths and tables change.               *)
THEOREM AnswersGoBack == ForwardingSpec => []AnswersRetrace
<1>1. Routes => AnswersRetrace
  BY DEF Routes, Carried
<1> QED BY <1>1, Always, PTL DEF ForwardingSpec
=============================================================================
