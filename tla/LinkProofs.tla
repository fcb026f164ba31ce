------------------------------ MODULE LinkProofs ------------------------------
(***************************************************************************)
(* Proofs about module Link for every keepalive interval, timeout, delay    *)
(* and pattern of loss.                                                     *)
(***************************************************************************)
EXTENDS Link, TLAPS

(* Handshake packets go where they belong, and the one LINKREQUEST under way  *)
(* is for a responder that does not have the link yet.                        *)
HandshakeInv ==
  /\ net \subseteq [to : Ends, kind : Kinds, age : Nat]
  /\ state["initiator"] = "None" => state["responder"] = "None"
  /\ \A p \in net : p.kind = "LINKREQUEST" =>
       p.to = "responder" /\ state["initiator"] # "None" /\ state["responder"] = "None"
  /\ \A p, q \in net : p.kind = "LINKREQUEST" /\ q.kind = "LINKREQUEST" => p = q

(* ToldOnce, where no channel reports on its own, with the types it needs. *)
ToldInv ==
  /\ state \in [Ends -> States]
  /\ established \in [Ends -> Nat] /\ closed \in [Ends -> Nat]
  /\ ~ChannelsGiveUp => ToldOnce

LInv == HandshakeInv /\ ToldInv

LEMMA Peers ==
  /\ \A e \in Ends : Peer(e) \in Ends /\ Peer(e) # e
  /\ "initiator" \in Ends /\ "responder" \in Ends /\ "initiator" # "responder"
  BY DEF Peer, Ends

LEMMA InitLInv == Init => LInv
  BY DEF Init, LInv, HandshakeInv, ToldInv, ToldOnce, Ends, States, Over

(* The network after a step that adds no LINKREQUEST. *)
OnlyTraffic ==
  /\ net' \subseteq [to : Ends, kind : Kinds, age : Nat]
  /\ \A p \in net' : p.kind = "LINKREQUEST" => p \in net

LEMMA TakeTraffic ==
  ASSUME LInv, NEW p \in net, NEW out, Take(p, out),
         out \subseteq [to : Ends, kind : Kinds \ {"LINKREQUEST"}, age : Nat]
  PROVE  OnlyTraffic
  BY DEF LInv, HandshakeInv, Take, OnlyTraffic

LEMMA PutTraffic ==
  ASSUME LInv, NEW e \in Ends, NEW kind \in Kinds \ {"LINKREQUEST"},
         Put({Packet(e, kind)})
  PROVE  OnlyTraffic
  BY DEF LInv, HandshakeInv, Put, Packet, OnlyTraffic

(* A step that moves neither end out of "None". *)
LEMMA HandshakeKept ==
  ASSUME LInv, OnlyTraffic, \A e \in Ends : (state[e] = "None") <=> (state'[e] = "None")
  PROVE  HandshakeInv'
  BY Peers DEF LInv, HandshakeInv, OnlyTraffic

LEMMA IgnoreLInv ==
  ASSUME LInv, NEW p \in net, Ignore(p) PROVE LInv'
<1>1. OnlyTraffic /\ UNCHANGED <<state, established, closed>>
  BY TakeTraffic DEF Ignore, told
<1>2. HandshakeInv'
  BY <1>1, HandshakeKept
<1>3. ToldInv'
  BY <1>1 DEF LInv, ToldInv, ToldOnce
<1> QED BY <1>2, <1>3 DEF LInv

LEMMA CreateLinkLInv ==
  ASSUME LInv, CreateLink PROVE LInv'
<1>1. HandshakeInv'
  BY Peers DEF LInv, HandshakeInv, ToldInv, CreateLink, Put, Packet, Kinds
<1>2. ToldInv'
  BY Peers DEF LInv, ToldInv, ToldOnce, CreateLink, told, States, Over
<1> QED BY <1>1, <1>2 DEF LInv

LEMMA HandleLinkrequestLInv ==
  ASSUME LInv, NEW p \in net, HandleLinkrequest(p) PROVE LInv'
<1>1. /\ p.to = "responder" /\ state["responder"] = "None" /\ state["initiator"] # "None"
      /\ \A q \in net : q.kind = "LINKREQUEST" => q = p
  BY DEF LInv, HandshakeInv, HandleLinkrequest
<1>2. net' = (net \ {p}) \cup {Packet("initiator", "LRPROOF")}
  BY <1>1 DEF HandleLinkrequest, Take, Peer
<1>3. state' = [state EXCEPT !["responder"] = "Handshake"]
  BY <1>1 DEF HandleLinkrequest
<1>4. HandshakeInv'
  BY <1>1, <1>2, <1>3, Peers DEF LInv, HandshakeInv, ToldInv, Packet, Kinds
<1>5. ToldInv'
  BY <1>1, <1>3, Peers DEF LInv, ToldInv, ToldOnce, HandleLinkrequest, told, States, Over
<1> QED BY <1>4, <1>5 DEF LInv

(* handle_lrproof and handle_lrrtt, when the engine becomes active. *)
LEMMA ActivateLInv ==
  ASSUME LInv, NEW e \in Ends, state[e] \in {"Pending", "Handshake"},
         Activate(e), OnlyTraffic
  PROVE  LInv'
<1>1. HandshakeInv'
  BY HandshakeKept DEF LInv, ToldInv, Activate
<1>2. ToldInv'
  BY DEF LInv, ToldInv, ToldOnce, Activate, States, Over
<1> QED BY <1>1, <1>2 DEF LInv

LEMMA HandleLrproofLInv ==
  ASSUME LInv, NEW p \in net, HandleLrproof(p) PROVE LInv'
<1>1. p.to \in Ends
  BY DEF LInv, HandshakeInv
<1>2. CASE state[p.to] = "Pending"
  <2>1. Activate(p.to) /\ Take(p, {Packet(Peer(p.to), "LRRTT")})
    BY <1>2 DEF HandleLrproof
  <2>2. OnlyTraffic
    BY <1>1, <2>1, TakeTraffic, Peers DEF Packet, Kinds
  <2> QED BY <1>1, <1>2, <2>1, <2>2, ActivateLInv
<1>3. CASE state[p.to] # "Pending"
  BY <1>3, IgnoreLInv DEF HandleLrproof
<1> QED BY <1>2, <1>3

LEMMA HandleLrrttLInv ==
  ASSUME LInv, NEW p \in net, HandleLrrtt(p) PROVE LInv'
<1>1. p.to \in Ends
  BY DEF LInv, HandshakeInv
<1>2. CASE state[p.to] = "Handshake"
  <2>1. Activate(p.to) /\ Take(p, {})
    BY <1>2 DEF HandleLrrtt
  <2>2. OnlyTraffic
    BY <2>1, TakeTraffic
  <2> QED BY <1>1, <1>2, <2>1, <2>2, ActivateLInv
<1>3. CASE state[p.to] # "Handshake"
  BY <1>3, IgnoreLInv DEF HandleLrrtt
<1> QED BY <1>2, <1>3

(* A stale link that hears from its peer recovers without a new               *)
(* LinkEstablished.                                                           *)
LEMMA RecordInboundLInv ==
  ASSUME LInv, NEW e \in Ends, RecordInbound(e), OnlyTraffic, UNCHANGED told
  PROVE  LInv'
<1>1. HandshakeInv'
  BY HandshakeKept DEF LInv, ToldInv, RecordInbound
<1>2. ToldInv'
  BY DEF LInv, ToldInv, ToldOnce, RecordInbound, told, States, Over
<1> QED BY <1>1, <1>2 DEF LInv

LEMMA HandleKeepaliveLInv ==
  ASSUME LInv, NEW p \in net, HandleKeepalive(p) PROVE LInv'
<1>1. p.to \in Ends
  BY DEF LInv, HandshakeInv
<1>2. CASE Known(p.to)
  <2>1. RecordInbound(p.to) /\ Take(p, {}) /\ UNCHANGED told
    BY <1>2 DEF HandleKeepalive
  <2> QED BY <1>1, <2>1, TakeTraffic, RecordInboundLInv
<1>3. CASE ~Known(p.to)
  BY <1>3, IgnoreLInv DEF HandleKeepalive
<1> QED BY <1>2, <1>3

LEMMA HandleDataLInv ==
  ASSUME LInv, NEW p \in net, HandleData(p) PROVE LInv'
<1>1. p.to \in Ends
  BY DEF LInv, HandshakeInv
<1> DEFINE out == {Packet(Peer(e), "PROOF") : e \in {p.to} \cap {"responder"}}
<1>2. out \subseteq [to : Ends, kind : Kinds \ {"LINKREQUEST"}, age : Nat]
  BY <1>1, Peers DEF Packet, Kinds
<1>3. CASE Known(p.to) /\ state[p.to] # "Pending"
  <2>1. RecordInbound(p.to) /\ Take(p, out) /\ UNCHANGED told
    BY <1>3 DEF HandleData
  <2> HIDE DEF out
  <2>2. OnlyTraffic
    BY <1>2, <2>1, TakeTraffic
  <2> QED BY <1>1, <2>1, <2>2, RecordInboundLInv
<1>4. CASE ~(Known(p.to) /\ state[p.to] # "Pending")
  BY <1>4, IgnoreLInv DEF HandleData
<1> QED BY <1>3, <1>4

LEMMA NoReport == \A e \in Ends : 0 \in ChannelReports(e)
  BY DEF ChannelReports

(* Closing an engine tells the application unless it was closed already. *)
LEMMA CloseLInv ==
  ASSUME LInv, NEW e \in Ends, state[e] \notin {"None", "Removed"}, NEW n \in ChannelReports(e),
         CloseEngine(e, n), NEW s \in Over, state' = [state EXCEPT ![e] = s],
         established' = established, OnlyTraffic
  PROVE  LInv'
<1>1. HandshakeInv'
  BY HandshakeKept DEF LInv, ToldInv, Over
<1>2. n \in Nat /\ (~ChannelsGiveUp => n = 0)
  BY DEF ChannelReports
<1>3. state' \in [Ends -> States] /\ established' \in [Ends -> Nat]
  BY DEF LInv, ToldInv, States, Over
<1>4. closed' \in [Ends -> Nat]
  <2>1. closed[e] + n + (IF state[e] = "Closed" THEN 0 ELSE 1) \in Nat
    BY <1>2 DEF LInv, ToldInv
  <2> QED BY <2>1 DEF LInv, ToldInv, CloseEngine
<1>5. ASSUME ~ChannelsGiveUp PROVE ToldOnce'
  <2>1. closed[e] = IF state[e] = "Closed" THEN 1 ELSE 0
    BY <1>5 DEF LInv, ToldInv, ToldOnce, Over
  <2>2. closed[e] + n + (IF state[e] = "Closed" THEN 0 ELSE 1) = 1
    BY <1>2, <1>5, <2>1
  <2>3. closed' = [closed EXCEPT ![e] = 1]
    BY Zenon, <2>2 DEF CloseEngine
  <2> QED BY <1>5, <2>3 DEF LInv, ToldInv, ToldOnce, States, Over
<1> QED BY <1>1, <1>3, <1>4, <1>5 DEF LInv, ToldInv

LEMMA HandleLinkcloseLInv ==
  ASSUME LInv, NEW p \in net, HandleLinkclose(p) PROVE LInv'
<1>1. p.to \in Ends
  BY DEF LInv, HandshakeInv
<1>2. CASE Known(p.to)
  <2>1. /\ CloseEngine(p.to, 0) /\ Take(p, {}) /\ established' = established
        /\ state' = [state EXCEPT ![p.to] = "Closed"]
    BY <1>2 DEF HandleLinkclose
  <2>2. OnlyTraffic
    BY <2>1, TakeTraffic
  <2> QED BY Zenon, <1>1, <1>2, <2>1, <2>2, CloseLInv, NoReport DEF Known, Over
<1>3. CASE ~Known(p.to)
  BY <1>3, IgnoreLInv DEF HandleLinkclose
<1> QED BY <1>2, <1>3

LEMMA TeardownLinkLInv ==
  ASSUME LInv, NEW e \in Ends, TeardownLink(e) PROVE LInv'
<1>1. OnlyTraffic
  BY PutTraffic, Peers DEF TeardownLink, Kinds
<1> QED BY Zenon, <1>1, CloseLInv, NoReport DEF TeardownLink, Known, Over

LEMMA SendOnLinkLInv ==
  ASSUME LInv, NEW e \in Ends, SendOnLink(e) PROVE LInv'
<1>1. OnlyTraffic /\ UNCHANGED <<state, established, closed>>
  BY PutTraffic, Peers DEF SendOnLink, Kinds, told
<1>2. HandshakeInv'
  BY <1>1, HandshakeKept
<1>3. ToldInv'
  BY <1>1 DEF LInv, ToldInv, ToldOnce
<1> QED BY <1>2, <1>3 DEF LInv

LEMMA TickLInv ==
  ASSUME LInv, NEW e \in Ends, NEW n \in ChannelReports(e), Tick(e, n) PROVE LInv'
<1>1. OnlyTraffic
  <2>1. CASE NeedsKeepalive(e)
    BY <2>1, PutTraffic, Peers DEF Tick, Kinds
  <2>2. CASE ~NeedsKeepalive(e)
    BY <2>2 DEF Tick, OnlyTraffic, LInv, HandshakeInv
  <2> QED BY <2>1, <2>2
<1>2. CASE TickedState(e) = "Closed"
  <2>1. state[e] \notin {"None", "Removed"}
    BY <1>2 DEF TickedState
  <2> QED BY Zenon, <1>1, <1>2, <2>1, CloseLInv DEF Tick, Over
<1>3. CASE TickedState(e) # "Closed"
  <2>1. state' = [state EXCEPT ![e] = TickedState(e)] /\ established' = established
    BY <1>3 DEF Tick
  <2>2. \/ TickedState(e) = state[e]
        \/ state[e] = "Active" /\ TickedState(e) = "Stale"
    BY <1>3 DEF TickedState
  <2>3. HandshakeInv'
    BY <1>1, <2>1, <2>2, HandshakeKept DEF LInv, ToldInv
  <2>4. closed' = [closed EXCEPT ![e] = @ + n] /\ n \in Nat
    BY <1>3 DEF Tick, ChannelReports
  <2>5. closed' \in [Ends -> Nat]
    BY <2>4 DEF LInv, ToldInv
  <2>6. ASSUME ~ChannelsGiveUp PROVE closed' = closed
    <3>1. n = 0 /\ closed[e] \in Nat /\ closed \in [Ends -> Nat]
      BY <2>6 DEF LInv, ToldInv, ChannelReports
    <3> QED BY <2>4, <3>1
  <2>7. ToldInv'
    BY Zenon, <2>1, <2>2, <2>5, <2>6 DEF LInv, ToldInv, ToldOnce, States, Over
  <2> QED BY <2>3, <2>7 DEF LInv
<1> QED BY <1>2, <1>3

LEMMA TimePassesLInv ==
  ASSUME LInv, TimePasses PROVE LInv'
<1>1. UNCHANGED <<state, established, closed>>
  BY DEF TimePasses, told
<1>2. \A p \in net : p \in [to : Ends, kind : Kinds, age : Nat]
  BY DEF LInv, HandshakeInv
<1>3. \A p \in net : /\ [p EXCEPT !.age = @ + 1] \in [to : Ends, kind : Kinds, age : Nat]
                     /\ [p EXCEPT !.age = @ + 1].kind = p.kind
                     /\ [p EXCEPT !.age = @ + 1].to = p.to
  BY <1>2
<1>4. net' = {[p EXCEPT !.age = @ + 1] : p \in net}
  BY DEF TimePasses
<1>5. HandshakeInv'
  BY <1>1, <1>3, <1>4 DEF LInv, HandshakeInv
<1>6. ToldInv'
  BY <1>1 DEF LInv, ToldInv, ToldOnce
<1> QED BY <1>5, <1>6 DEF LInv

LEMMA StepLInv ==
  ASSUME LInv, [Next]_vars PROVE LInv'
<1>1. CASE CreateLink
  BY <1>1, CreateLinkLInv
<1>2. CASE TimePasses
  BY <1>2, TimePassesLInv
<1>3. CASE \E e \in Ends : (\E n \in ChannelReports(e) : Tick(e, n))
                           \/ TeardownLink(e) \/ SendOnLink(e)
  BY <1>3, TickLInv, TeardownLinkLInv, SendOnLinkLInv
<1>4. CASE \E p \in net : Deliver(p) \/ Lose(p)
  <2>1. PICK p \in net : Deliver(p) \/ Lose(p)
    BY <1>4
  <2>2. CASE Lose(p)
    BY <2>2, IgnoreLInv DEF Lose
  <2>3. CASE HandleProof(p)
    BY <2>3, IgnoreLInv DEF HandleProof
  <2> QED BY <2>1, <2>2, <2>3, HandleLinkrequestLInv, HandleLrproofLInv, HandleLrrttLInv,
             HandleKeepaliveLInv, HandleDataLInv, HandleLinkcloseLInv DEF Deliver
<1>5. CASE UNCHANGED vars
  BY <1>5 DEF LInv, HandshakeInv, ToldInv, ToldOnce, vars, told
<1> QED BY <1>1, <1>2, <1>3, <1>4, <1>5 DEF Next

(* Each application hears at most once that its link is established and, when *)
(* the link is over and only then, exactly once that it is closed, for every  *)
(* interval, timeout and delay and whatever the network loses, as long as no  *)
(* channel on the link gives up.                                              *)
THEOREM ApplicationsToldOnce ==
  ASSUME ~ChannelsGiveUp PROVE Spec => []ToldOnce
<1>1. Init => LInv
  BY InitLInv
<1>2. LInv /\ [Next]_vars => LInv'
  BY StepLInv
<1>3. LInv => ToldOnce
  BY DEF LInv, ToldInv
<1> QED BY <1>1, <1>2, <1>3, PTL DEF Spec

(* No step takes an end of a closed link back: a LINKREQUEST, LRPROOF, LRRTT  *)
(* or data packet that arrives late finds a closed engine or no link at all.  *)
THEOREM ClosedLinksStayClosed == Spec => OverForGood
<1>1. Init => LInv
  BY InitLInv
<1>2. LInv /\ [Next]_vars => LInv'
  BY StepLInv
<1>3. LInv /\ [Next]_vars => [\A e \in Ends : state[e] \in Over => state'[e] \in Over]_vars
  <2> SUFFICES ASSUME LInv, Next, NEW e \in Ends, state[e] \in Over
               PROVE  state'[e] \in Over
    OBVIOUS
  <2>0. state \in [Ends -> States] /\ \A p \in net : p.to \in Ends
    BY DEF LInv, ToldInv, HandshakeInv
  <2>1. CASE CreateLink
    BY <2>0, <2>1 DEF CreateLink, Over
  <2>2. CASE TimePasses
    BY <2>2 DEF TimePasses
  <2>3. CASE \E f \in Ends : (\E n \in ChannelReports(f) : Tick(f, n))
                             \/ TeardownLink(f) \/ SendOnLink(f)
    BY <2>0, <2>3 DEF Tick, TickedState, TeardownLink, SendOnLink, Over
  <2>4. CASE \E p \in net : Deliver(p) \/ Lose(p)
    <3>1. PICK p \in net : Deliver(p) \/ Lose(p)
      BY <2>4
    <3>2. CASE Lose(p) \/ HandleProof(p)
      BY <3>2 DEF Lose, HandleProof, Ignore
    <3>3. CASE HandleLinkrequest(p)
      BY <2>0, <3>3 DEF HandleLinkrequest, LInv, HandshakeInv, Over
    <3>4. CASE HandleLrproof(p)
      BY <2>0, <3>4 DEF HandleLrproof, Activate, Ignore, Over
    <3>5. CASE HandleLrrtt(p)
      BY <2>0, <3>5 DEF HandleLrrtt, Activate, Ignore, Over
    <3>6. CASE HandleKeepalive(p)
      BY <2>0, <3>6 DEF HandleKeepalive, RecordInbound, Ignore, Over
    <3>7. CASE HandleData(p)
      BY <2>0, <3>7 DEF HandleData, RecordInbound, Ignore, Over
    <3>8. CASE HandleLinkclose(p)
      BY <2>0, <3>8 DEF HandleLinkclose, Ignore, Over
    <3> QED BY <3>1, <3>2, <3>3, <3>4, <3>5, <3>6, <3>7, <3>8 DEF Deliver
  <2> QED BY <2>1, <2>2, <2>3, <2>4 DEF Next
<1> QED BY <1>1, <1>2, <1>3, PTL DEF Spec, OverForGood

-----------------------------------------------------------------------------
(* How long an end is left with a link whose other end is gone.  In words:    *)
(* what is under way from a peer that is gone has been under way as long as   *)
(* the peer is gone, so that whatever resets the clock of the end that is     *)
(* left does it within MaxDelay; from there its own clock runs, and its tick  *)
(* of this unit has not seen the clock run out.                               *)
Late(e) == IF e \in ticked THEN 0 ELSE 1

Waits(e) ==
  /\ request[e] <= EstablishmentTimeout /\ quiet[e] <= StaleTime(e)
  /\ e \in ticked /\ state[e] \in {"Pending", "Handshake"} => request[e] < EstablishmentTimeout
  /\ e \in ticked /\ state[e] = "Active" => quiet[e] < StaleTime(e)
  /\ state[Peer(e)] \in Over =>
       /\ state[e] \in {"Pending", "Handshake"} => alone[e] <= MaxDelay + request[e]
       /\ state[e] = "Active" => alone[e] <= MaxDelay + quiet[e]
       /\ state[e] = "Stale" => alone[e] <= MaxDelay + StaleTime(e) + Late(e)
       /\ state[e] = "Closed" => alone[e] <= MaxDelay + LongestWait(e) + Late(e)

Silent == {"LINKCLOSE", "PROOF"}

Arrives(p) ==
  /\ p.age <= MaxDelay
  /\ p.kind \notin Silent /\ state[Peer(p.to)] \in Over => alone[p.to] <= p.age

Clocks ==
  /\ request \in [Ends -> Nat] /\ quiet \in [Ends -> Nat] /\ alone \in [Ends -> Nat]

HInv ==
  /\ LInv /\ Clocks
  /\ \A e \in Ends : Waits(e)
  /\ \A p \in net : Arrives(p)

LEMMA Limits ==
  /\ MaxDelay \in Nat /\ EstablishmentTimeout \in Nat /\ 0 < EstablishmentTimeout
  /\ \A e \in Ends : /\ StaleTime(e) \in Nat /\ 0 < StaleTime(e) /\ LongestWait(e) \in Nat
                     /\ StaleTime(e) <= LongestWait(e) /\ EstablishmentTimeout <= LongestWait(e)
<1>1. ASSUME NEW e \in Ends PROVE StaleTime(e) \in Nat /\ 0 < StaleTime(e)
  <2>1. ASSUME NEW m \in Nat \ {0}, NEW n \in Nat \ {0} PROVE m * n \in Nat /\ 0 < m * n
    BY <2>1
  <2>2. LINK_STALE_FACTOR \in Nat \ {0} /\ Keepalive[e] \in Nat \ {0}
    BY LinkAssumption
  <2> QED BY <2>1, <2>2 DEF StaleTime
<1> QED BY <1>1, LinkAssumption DEF LongestWait

(* Nobody new is gone, or the end left behind starts to count. *)
AloneStep(e) ==
  \/ alone'[e] = alone[e] /\ (state'[Peer(e)] \in Over => state[Peer(e)] \in Over)
  \/ alone'[e] = 0

LEMMA WaitsKept ==
  ASSUME HInv, NEW e \in Ends, AloneStep(e), state'[e] = state[e], request'[e] = request[e],
         quiet'[e] = quiet[e], (e \in ticked') = (e \in ticked)
  PROVE  Waits(e)'
<1>1. Waits(e) /\ request[e] \in Nat /\ quiet[e] \in Nat /\ alone[e] \in Nat
  BY DEF HInv, Clocks
<1>2. Late(e)' = Late(e) /\ Late(e) \in Nat
  BY DEF Late
<1>3. CASE alone'[e] = 0
  BY <1>1, <1>2, <1>3, Limits DEF Waits
<1>4. CASE alone'[e] = alone[e] /\ (state'[Peer(e)] \in Over => state[Peer(e)] \in Over)
  BY <1>1, <1>2, <1>4 DEF Waits
<1> QED BY <1>3, <1>4 DEF AloneStep

(* What a step sends, it sends from an end that is not gone, or it is silent. *)
LEMMA ArrivalsKept ==
  ASSUME HInv, \A e \in Ends : AloneStep(e),
         \A p \in net' : \/ p \in net
                         \/ /\ p.to \in Ends /\ p.age = 0
                            /\ p.kind \in Silent \/ state'[Peer(p.to)] \notin Over
  PROVE  \A p \in net' : Arrives(p)'
<1> SUFFICES ASSUME NEW p \in net' PROVE Arrives(p)'
  OBVIOUS
<1>1. CASE p \in net
  <2>1. Arrives(p) /\ p.to \in Ends /\ p.age \in Nat /\ alone[p.to] \in Nat
    BY <1>1 DEF HInv, Clocks, LInv, HandshakeInv
  <2>2. AloneStep(p.to)
    BY <2>1
  <2> QED BY <2>1, <2>2 DEF Arrives, AloneStep
<1>2. CASE /\ p.to \in Ends /\ p.age = 0
           /\ p.kind \in Silent \/ state'[Peer(p.to)] \notin Over
  BY <1>2, Limits DEF Arrives
<1> QED BY <1>1, <1>2

(* A step that leaves the clocks alone and closes nothing *)
LEMMA StillInv ==
  ASSUME HInv, LInv', UNCHANGED <<state, request, quiet, ticked, alone>>,
         \A p \in net' : \/ p \in net
                         \/ /\ p.to \in Ends /\ p.age = 0
                            /\ p.kind \in Silent \/ state[Peer(p.to)] \notin Over
  PROVE  HInv'
<1>1. \A e \in Ends : AloneStep(e)
  BY DEF AloneStep
<1>2. Clocks'
  BY DEF HInv, Clocks
<1>3. \A p \in net' : Arrives(p)'
  BY <1>1, ArrivalsKept
<1>4. \A e \in Ends : Waits(e)'
  BY <1>1, WaitsKept
<1> QED BY <1>2, <1>3, <1>4 DEF HInv

(* A step of one end d that does not end its link *)
LEMMA OneEnd ==
  ASSUME HInv, LInv', Clocks', NEW d \in Ends, Waits(d)', alone' = alone,
         state'[d] \in Over => state[d] \in Over,
         \A e \in Ends \ {d} : /\ state'[e] = state[e] /\ request'[e] = request[e]
                                /\ quiet'[e] = quiet[e] /\ (e \in ticked') = (e \in ticked),
         \A p \in net' : \/ p \in net
                         \/ /\ p.to \in Ends /\ p.age = 0
                            /\ p.kind \in Silent \/ state'[Peer(p.to)] \notin Over
  PROVE  HInv'
<1>1. \A e \in Ends : AloneStep(e)
  BY Peers DEF AloneStep
<1>2. \A p \in net' : Arrives(p)'
  BY SMTT(30), <1>1, ArrivalsKept
<1>3. \A e \in Ends : Waits(e)'
  BY SMTT(30), <1>1, WaitsKept
<1> QED BY <1>2, <1>3 DEF HInv

(* The end d closes. *)
LEMMA OneCloses ==
  ASSUME HInv, LInv', NEW d \in Ends, NEW n, CloseEngine(d, n), Waits(d)', state'[d] \in Over,
         request' = request, quiet' = quiet,
         state[d] # "Removed",
         \A e \in Ends \ {d} : state'[e] = state[e] /\ (e \in ticked') = (e \in ticked),
         \A p \in net' : p \in net \/ (p.to \in Ends /\ p.age = 0 /\ p.kind \in Silent)
  PROVE  HInv'
<1>1. /\ alone' \in [Ends -> Nat] /\ alone'[d] = alone[d]
      /\ alone'[Peer(d)] = (IF state[d] = "Closed" THEN alone[Peer(d)] ELSE 0)
  BY Peers DEF CloseEngine, HInv, Clocks
<1>2. \A e \in Ends : e = d \/ e = Peer(d)
  BY DEF Ends, Peer
<1>3. Peer(Peer(d)) = d
  BY DEF Ends, Peer
<1>4. AloneStep(d)
  BY <1>1, Peers DEF AloneStep
<1>5. AloneStep(Peer(d))
  BY <1>1, <1>3 DEF AloneStep, Over
<1>6. \A e \in Ends : AloneStep(e)
  BY <1>2, <1>4, <1>5
<1>7. \A p \in net' : Arrives(p)'
  BY <1>6, ArrivalsKept
<1>8. \A e \in Ends : Waits(e)'
  BY <1>6, WaitsKept
<1> QED BY <1>1, <1>7, <1>8 DEF HInv, Clocks

(* A word of the peer starts the clock of d again, within MaxDelay of the     *)
(* peer's end.                                                                *)
LEMMA Reached ==
  ASSUME HInv, NEW p \in net, p.kind \notin Silent
  PROVE  /\ p.to \in Ends /\ alone[p.to] \in Nat
         /\ state[Peer(p.to)] \in Over => alone[p.to] <= MaxDelay
<1>1. Arrives(p) /\ p.to \in Ends /\ p.age \in Nat /\ alone[p.to] \in Nat
  BY DEF HInv, Clocks, LInv, HandshakeInv
<1> QED BY <1>1, Limits DEF Arrives

LEMMA IgnoreHInv ==
  ASSUME HInv, NEW p \in net, Ignore(p)
  PROVE  HInv'
<1>1. LInv'
  BY IgnoreLInv DEF HInv
<1> QED BY <1>1, StillInv DEF Ignore, Take, timers

LEMMA CreateLinkHInv ==
  ASSUME HInv, CreateLink
  PROVE  HInv'
<1> DEFINE d == "initiator"
<1>1. LInv' /\ LInv
  BY CreateLinkLInv DEF HInv
<1>2. /\ state' = [state EXCEPT ![d] = "Pending"] /\ request' = [request EXCEPT ![d] = 0]
      /\ quiet' = [quiet EXCEPT ![d] = 0] /\ UNCHANGED <<ticked, alone>>
      /\ net' = net \cup {Packet("responder", "LINKREQUEST")}
      /\ state["responder"] = "None" /\ state \in [Ends -> States]
  BY <1>1 DEF CreateLink, Put, LInv, HandshakeInv, ToldInv
<1>3. Clocks'
  BY Zenon, <1>2 DEF HInv, Clocks
<1>4. /\ state'[d] = "Pending" /\ request'[d] = 0 /\ quiet'[d] = 0 /\ state'[Peer(d)] = "None"
      /\ d \in Ends
  BY <1>2, Peers DEF HInv, Clocks, Peer
<1>5. Waits(d)'
  BY <1>4, Limits DEF Waits, Over
<1>6. \A p \in net' : p \in net \/ (p.to \in Ends /\ p.age = 0 /\ state'[Peer(p.to)] \notin Over)
  BY <1>2, <1>4 DEF Packet, Peer, Ends, Over
<1>7. \A e \in Ends \ {d} : state'[e] = state[e] /\ request'[e] = request[e] /\ quiet'[e] = quiet[e]
  BY SMTT(30), <1>2 DEF HInv, Clocks
<1> QED BY <1>1, <1>2, <1>3, <1>4, <1>5, <1>6, <1>7, OneEnd DEF Over

LEMMA HandleLinkrequestHInv ==
  ASSUME HInv, NEW p \in net, HandleLinkrequest(p)
  PROVE  HInv'
<1> DEFINE d == p.to
<1>1. LInv' /\ LInv
  BY HandleLinkrequestLInv DEF HInv
<1>2. /\ d \in Ends /\ alone[d] \in Nat
      /\ state[Peer(d)] \in Over => alone[d] <= MaxDelay
  BY Reached DEF HandleLinkrequest, Silent
<1>3. /\ state' = [state EXCEPT ![d] = "Handshake"] /\ request' = [request EXCEPT ![d] = 0]
      /\ quiet' = [quiet EXCEPT ![d] = 0] /\ UNCHANGED <<ticked, alone>>
      /\ net' = (net \ {p}) \cup {Packet(Peer(d), "LRPROOF")} /\ state \in [Ends -> States]
  BY <1>1 DEF HandleLinkrequest, Take, LInv, ToldInv
<1>4. Clocks'
  BY Zenon, <1>3 DEF HInv, Clocks
<1>5. /\ state'[d] = "Handshake" /\ request'[d] = 0 /\ quiet'[d] = 0
      /\ state'[Peer(d)] = state[Peer(d)] /\ Peer(Peer(d)) = d
  BY <1>2, <1>3, Peers DEF HInv, Clocks, Peer, Ends
<1>6. Waits(d)'
  BY <1>2, <1>3, <1>5, Limits DEF Waits
<1>7. \A q \in net' : q \in net \/ (q.to \in Ends /\ q.age = 0 /\ state'[Peer(q.to)] \notin Over)
  BY <1>2, <1>3, <1>5, Peers DEF Packet, Over
<1>8. \A e \in Ends \ {d} : state'[e] = state[e] /\ request'[e] = request[e] /\ quiet'[e] = quiet[e]
  BY Zenon, <1>3 DEF HInv, Clocks
<1> QED BY <1>1, <1>2, <1>3, <1>4, <1>5, <1>6, <1>7, <1>8, OneEnd DEF Over

LEMMA ActivateHInv ==
  ASSUME HInv, LInv', NEW p \in net, p.kind \in {"LRPROOF", "LRRTT"}, Activate(p.to),
         NEW out, Take(p, out), out \subseteq {Packet(Peer(p.to), "LRRTT")}
  PROVE  HInv'
<1> DEFINE d == p.to
<1>1. LInv
  BY DEF HInv
<1>2. /\ d \in Ends /\ alone[d] \in Nat
      /\ state[Peer(d)] \in Over => alone[d] <= MaxDelay
  BY Reached DEF Silent
<1>3. /\ state' = [state EXCEPT ![d] = "Active"] /\ request' = request
      /\ quiet' = [quiet EXCEPT ![d] = 0] /\ UNCHANGED <<ticked, alone>>
      /\ net' = (net \ {p}) \cup out /\ state \in [Ends -> States]
  BY <1>1 DEF Activate, Take, LInv, ToldInv
<1>4. Clocks'
  BY Zenon, <1>3 DEF HInv, Clocks
<1>5. /\ state'[d] = "Active" /\ quiet'[d] = 0 /\ request'[d] = request[d]
      /\ state'[Peer(d)] = state[Peer(d)] /\ Peer(Peer(d)) = d
  BY SMTT(30), <1>2, <1>3, Peers DEF HInv, Clocks, Peer, Ends
<1>6. Waits(d)'
  <2>1. request[d] <= EstablishmentTimeout
    BY <1>2 DEF HInv, Waits
  <2> QED BY <1>2, <1>3, <1>5, <2>1, Limits DEF Waits
<1>7. \A q \in net' : q \in net \/ (q.to \in Ends /\ q.age = 0 /\ state'[Peer(q.to)] \notin Over)
  BY <1>2, <1>3, <1>5, Peers DEF Packet, Over
<1>8. \A e \in Ends \ {d} : state'[e] = state[e] /\ request'[e] = request[e] /\ quiet'[e] = quiet[e]
  BY Zenon, <1>3 DEF HInv, Clocks
<1> QED BY <1>1, <1>2, <1>3, <1>4, <1>5, <1>6, <1>7, <1>8, OneEnd DEF Over

LEMMA RecordInboundHInv ==
  ASSUME HInv, LInv', NEW p \in net, p.kind \notin Silent, RecordInbound(p.to),
         UNCHANGED <<request, ticked, alone>>,
         NEW out, Take(p, out), \A q \in out : q.to \in Ends /\ q.age = 0 /\ q.kind \in Silent
  PROVE  HInv'
<1> DEFINE d == p.to
<1>1. LInv
  BY SMTT(30) DEF HInv
<1>2. /\ d \in Ends /\ alone[d] \in Nat
      /\ state[Peer(d)] \in Over => alone[d] <= MaxDelay
  BY Reached
<1>3. /\ state' = [state EXCEPT ![d] = IF @ = "Stale" THEN "Active" ELSE @]
      /\ quiet' = [quiet EXCEPT ![d] = 0]
      /\ net' = (net \ {p}) \cup out /\ state \in [Ends -> States]
  BY <1>1 DEF RecordInbound, Take, LInv, ToldInv
<1>4. Clocks'
  BY Zenon, <1>3 DEF HInv, Clocks
<1>5. /\ state'[d] = (IF state[d] = "Stale" THEN "Active" ELSE state[d]) /\ quiet'[d] = 0
      /\ request'[d] = request[d] /\ state'[Peer(d)] = state[Peer(d)]
  BY <1>2, <1>3, Peers DEF HInv, Clocks
<1>6. Waits(d)'
  <2>1. Waits(d) /\ Late(d)' = Late(d) /\ request[d] \in Nat
    BY Zenon, <1>2 DEF HInv, Late, Clocks
  <2>2. CASE state[d] \in {"Active", "Stale"}
    <3>1. /\ state'[d] = "Active" /\ quiet'[d] = 0 /\ request'[d] <= EstablishmentTimeout
          /\ 0 < StaleTime(d) /\ StaleTime(d) \in Nat
          /\ state'[Peer(d)] \in Over => alone'[d] <= MaxDelay
      BY Zenon, <1>2, <1>5, <2>1, <2>2, Limits DEF Waits
    <3> QED BY <1>2, <3>1, Limits DEF Waits
  <2>3. CASE state[d] \notin {"Active", "Stale"}
    BY <1>2, <1>5, <2>1, <2>3, Limits DEF Waits
  <2> QED BY <2>2, <2>3
<1>7. \A e \in Ends \ {d} : state'[e] = state[e] /\ request'[e] = request[e] /\ quiet'[e] = quiet[e]
  BY <1>3 DEF HInv, Clocks
<1>8. \A q \in net' : q \in net \/ (q.to \in Ends /\ q.age = 0 /\ q.kind \in Silent)
  BY <1>3
<1> QED BY <1>1, <1>2, <1>4, <1>5, <1>6, <1>7, <1>8, OneEnd DEF Over

(* LINKCLOSE of the peer, or of the application *)
LEMMA ClosedHInv ==
  ASSUME HInv, LInv', NEW d \in Ends, Known(d), CloseEngine(d, 0),
         state' = [state EXCEPT ![d] = "Closed"], UNCHANGED <<request, quiet, ticked>>,
         \A p \in net' : p \in net \/ (p.to \in Ends /\ p.age = 0 /\ p.kind \in Silent)
  PROVE  HInv'
<1>1. state \in [Ends -> States] /\ state[d] \in States
  BY DEF HInv, LInv, ToldInv
<1>2. /\ state'[d] = "Closed" /\ state'[Peer(d)] = state[Peer(d)]
      /\ \A e \in Ends \ {d} : state'[e] = state[e]
  BY <1>1, Peers
<1>3. alone'[d] = alone[d] /\ alone[d] \in Nat /\ request[d] \in Nat /\ quiet[d] \in Nat
  BY SMTT(30), Peers DEF CloseEngine, HInv, Clocks
<1>4. Waits(d)'
  <2>1. Waits(d) /\ Late(d)' = Late(d) /\ Late(d) \in Nat
    BY DEF HInv, Late
  <2>2. state[d] \in {"Pending", "Handshake", "Active", "Stale", "Closed"}
    BY <1>1 DEF Known, States
  <2> QED BY <1>2, <1>3, <2>1, <2>2, Limits DEF Waits
<1> QED BY <1>2, <1>4, OneCloses DEF Known, Over

LEMMA SendOnLinkHInv ==
  ASSUME HInv, NEW e \in Ends, SendOnLink(e)
  PROVE  HInv'
<1>1. LInv'
  BY SendOnLinkLInv DEF HInv
<1>2. Peer(Peer(e)) = e
  BY DEF Peer, Ends
<1>3. \A p \in net' : p \in net \/ (p.to \in Ends /\ p.age = 0 /\ state[Peer(p.to)] \notin Over)
  BY <1>2, Peers DEF SendOnLink, Put, Packet, Over
<1> QED BY <1>1, <1>3, StillInv DEF SendOnLink, timers

LEMMA TickHInv ==
  ASSUME HInv, NEW d \in Ends, NEW n \in ChannelReports(d), Tick(d, n)
  PROVE  HInv'
<1>1. LInv' /\ LInv
  BY TickLInv DEF HInv
<1>2. /\ d \notin ticked /\ ticked' = ticked \cup {d} /\ request' = request /\ quiet' = quiet
      /\ state' = [state EXCEPT ![d] = IF TickedState(d) = "Closed" THEN "Removed" ELSE TickedState(d)]
      /\ state \in [Ends -> States]
  BY <1>1 DEF Tick, LInv, ToldInv
<1>3. /\ state'[d] = (IF TickedState(d) = "Closed" THEN "Removed" ELSE TickedState(d))
      /\ state'[Peer(d)] = state[Peer(d)]
      /\ \A e \in Ends \ {d} : state'[e] = state[e]
  BY <1>2, Peers
<1>4. Waits(d) /\ Late(d) = 1 /\ Late(d)' = 0 /\ d \in ticked'
  BY <1>2 DEF HInv, Late
<1>5. alone[d] \in Nat /\ request[d] \in Nat /\ quiet[d] \in Nat
  BY DEF HInv, Clocks
<1>6. CASE TickedState(d) = "Closed"
  <2>1. CloseEngine(d, n) /\ state[d] # "Removed" /\ state'[d] = "Removed"
    BY Zenon, <1>3, <1>6 DEF Tick, TickedState
  <2>2. ~NeedsKeepalive(d) /\ net' = net
    BY Zenon, <1>6 DEF Tick, NeedsKeepalive
  <2>3. Waits(d)'
    BY <1>2, <1>4, <2>1 DEF Waits
  <2> QED BY <1>1, <1>2, <1>3, <2>1, <2>2, <2>3, OneCloses DEF Over
<1>7. CASE TickedState(d) # "Closed"
  <2>1. alone' = alone /\ state'[d] = TickedState(d)
    BY <1>3, <1>7 DEF Tick
  <2>2. Clocks'
    BY <1>2, <2>1 DEF HInv, Clocks
  <2>3. Waits(d)'
    <3>1. CASE state[d] \in {"Pending", "Handshake"}
      <4>1. request[d] < EstablishmentTimeout /\ state'[d] = state[d]
        BY SMTT(30), <1>5, <1>7, <2>1, <3>1, Limits DEF TickedState
      <4> QED BY <1>2, <1>3, <1>4, <2>1, <3>1, <4>1 DEF Waits
    <3>2. CASE state[d] = "Active" /\ quiet[d] >= StaleTime(d)
      <4>1. state'[d] = "Stale"
        BY SMTT(30), <2>1, <3>2 DEF TickedState
      <4> QED BY <1>2, <1>3, <1>4, <1>5, <2>1, <3>2, <4>1, Limits DEF Waits
    <3>3. CASE state[d] = "Active" /\ quiet[d] < StaleTime(d)
      <4>1. state'[d] = "Active"
        BY SMTT(30), <1>5, <2>1, <3>3, Limits DEF TickedState
      <4> QED BY <1>2, <1>3, <1>4, <2>1, <3>3, <4>1 DEF Waits
    <3>4. CASE state[d] \in {"None", "Removed"}
      <4>1. state'[d] \in {"None", "Removed"}
        BY <2>1, <3>4 DEF TickedState
      <4> QED BY <1>2, <1>4, <4>1 DEF Waits
    <3>5. state[d] \notin {"Stale", "Closed"} /\ state[d] \in States
      BY <1>2, <1>7 DEF TickedState
    <3>6. quiet[d] >= StaleTime(d) \/ quiet[d] < StaleTime(d)
      BY <1>5, Limits
    <3> QED BY Zenon, <3>1, <3>2, <3>3, <3>4, <3>5, <3>6 DEF States
  <2>4. state'[d] \in Over => state[d] \in Over
    BY <1>7, <2>1 DEF TickedState, Over
  <2>5. \A p \in net' : p \in net \/ (p.to \in Ends /\ p.age = 0 /\ state'[Peer(p.to)] \notin Over)
    <3>1. CASE NeedsKeepalive(d)
      <4>1. Peer(Peer(d)) = d /\ state'[d] = "Active"
        BY <2>1, <3>1 DEF NeedsKeepalive, Peer, Ends
      <4> QED BY <3>1, <4>1, Peers DEF Tick, Put, Packet, Over
    <3>2. CASE ~NeedsKeepalive(d)
      BY <3>2 DEF Tick
    <3> QED BY <3>1, <3>2
  <2> QED BY <1>1, <1>2, <1>3, <2>1, <2>2, <2>3, <2>4, <2>5, OneEnd
<1> QED BY <1>6, <1>7

(* Time passes: the clocks and the age of what is under way grow together     *)
(* with the time the peer is gone, and a clock that runs out does so at an    *)
(* end that has not ticked yet.                                               *)
LEMMA TimePassesHInv ==
  ASSUME HInv, TimePasses
  PROVE  HInv'
<1>1. LInv' /\ LInv
  BY TimePassesLInv DEF HInv
<1>2. state' = state /\ ticked = Ends /\ ticked' = {}
  BY DEF TimePasses
<1>3. ASSUME NEW e \in Ends
      PROVE  /\ request'[e] = (IF request[e] < EstablishmentTimeout THEN request[e] + 1 ELSE request[e])
             /\ quiet'[e] = (IF quiet[e] < StaleTime(e) THEN quiet[e] + 1 ELSE quiet[e])
             /\ alone'[e] = alone[e] + 1 \/ alone'[e] = alone[e]
             /\ request[e] \in Nat /\ quiet[e] \in Nat /\ alone[e] \in Nat
  BY DEF TimePasses, Older, HInv, Clocks
<1>4. Clocks'
  <2>1. /\ DOMAIN request' = Ends /\ DOMAIN quiet' = Ends /\ DOMAIN alone' = Ends
        /\ request' = [e \in Ends |-> request'[e]] /\ quiet' = [e \in Ends |-> quiet'[e]]
        /\ alone' = [e \in Ends |-> alone'[e]]
    BY DEF TimePasses, Older
  <2>2. \A e \in Ends : request'[e] \in Nat /\ quiet'[e] \in Nat /\ alone'[e] \in Nat
    BY <1>3
  <2> QED BY <2>1, <2>2 DEF Clocks
<1>5. ASSUME NEW e \in Ends PROVE Waits(e)'
  <2>1. Waits(e) /\ e \in ticked /\ e \notin ticked' /\ Late(e) = 0 /\ Late(e)' = 1
    BY SMTT(30), <1>2 DEF HInv, Late
  <2>2. request'[e] <= EstablishmentTimeout /\ quiet'[e] <= StaleTime(e)
    BY SMTT(30), <1>3, <2>1, Limits DEF Waits
  <2>3. CASE state[e] \in {"Pending", "Handshake"}
    BY SMTT(30), <1>2, <1>3, <2>1, <2>2, <2>3, Limits DEF Waits
  <2>4. CASE state[e] = "Active"
    BY SMTT(30), <1>2, <1>3, <2>1, <2>2, <2>4, Limits DEF Waits
  <2>5. CASE state[e] = "Stale"
    BY SMTT(30), <1>2, <1>3, <2>1, <2>2, <2>5, Limits DEF Waits
  <2>6. CASE state[e] = "Closed"
    BY SMTT(30), <1>2, <1>3, <2>1, <2>2, <2>6, Limits DEF Waits
  <2>7. CASE state[e] \notin {"Pending", "Handshake", "Active", "Stale", "Closed"}
    BY <1>2, <2>1, <2>2, <2>7 DEF Waits
  <2> QED BY <2>3, <2>4, <2>5, <2>6, <2>7
<1>6. ASSUME NEW p \in net PROVE Arrives([p EXCEPT !.age = @ + 1])'
  <2> DEFINE q == [p EXCEPT !.age = @ + 1]
  <2>1. p \in [to : Ends, kind : Kinds, age : Nat] /\ Arrives(p) /\ p.age < MaxDelay
    BY <1>1 DEF HInv, LInv, HandshakeInv, TimePasses
  <2>2. q.to = p.to /\ q.kind = p.kind /\ q.age = p.age + 1 /\ p.age \in Nat /\ p.to \in Ends
    BY <2>1
  <2> HIDE DEF q
  <2>3. Arrives(q)'
    BY <1>2, <1>3, <2>1, <2>2, Limits DEF Arrives
  <2> QED BY <2>3 DEF q
<1>7. \A p \in net' : Arrives(p)'
  BY <1>6 DEF TimePasses
<1> QED BY <1>1, <1>4, <1>5, <1>7 DEF HInv

LEMMA StepHInv ==
  ASSUME HInv, [Next]_vars
  PROVE  HInv'
<1>1. LInv /\ LInv'
  BY StepLInv DEF HInv
<1>2. CASE CreateLink \/ TimePasses
  BY <1>2, CreateLinkHInv, TimePassesHInv
<1>3. ASSUME NEW e \in Ends, NEW n \in ChannelReports(e), Tick(e, n) PROVE HInv'
  BY <1>3, TickHInv
<1>4. ASSUME NEW e \in Ends, TeardownLink(e) PROVE HInv'
  <2>1. \A p \in net' : p \in net \/ (p.to \in Ends /\ p.age = 0 /\ p.kind \in Silent)
    BY <1>4, Peers DEF TeardownLink, Put, Packet, Silent
  <2> QED BY Zenon, <1>1, <1>4, <2>1, ClosedHInv DEF TeardownLink, timers
<1>5. ASSUME NEW e \in Ends, SendOnLink(e) PROVE HInv'
  BY <1>5, SendOnLinkHInv
<1>6. ASSUME NEW p \in net, Ignore(p) PROVE HInv'
  BY Zenon, <1>6, IgnoreHInv
<1>7. ASSUME NEW p \in net, HandleLrproof(p) \/ HandleLrrtt(p) PROVE HInv'
  BY <1>1, <1>6, <1>7, ActivateHInv DEF HandleLrproof, HandleLrrtt
<1>8. ASSUME NEW p \in net, HandleKeepalive(p) PROVE HInv'
  BY <1>1, <1>6, <1>8, RecordInboundHInv DEF HandleKeepalive, Silent
<1>9. ASSUME NEW p \in net, HandleData(p) PROVE HInv'
  <2> DEFINE out == {Packet(Peer(e), "PROOF") : e \in {p.to} \cap {"responder"}}
  <2>1. p.to \in Ends
    BY <1>1 DEF LInv, HandshakeInv
  <2>2. \A q \in out : q.to \in Ends /\ q.age = 0 /\ q.kind \in Silent
    BY <2>1, Peers DEF Packet, Silent
  <2>3. \/ RecordInbound(p.to) /\ Take(p, out) /\ UNCHANGED <<request, ticked, alone>>
        \/ Ignore(p)
    BY <1>9 DEF HandleData
  <2>4. p.kind \notin Silent
    BY <1>9 DEF HandleData, Silent
  <2> HIDE DEF out
  <2> QED BY <1>1, <1>6, <2>2, <2>3, <2>4, RecordInboundHInv
<1>10. ASSUME NEW p \in net, HandleLinkclose(p) PROVE HInv'
  <2>1. p.to \in Ends
    BY <1>1 DEF LInv, HandshakeInv
  <2> QED BY <1>1, <1>6, <1>10, <2>1, ClosedHInv DEF HandleLinkclose, Take, timers
<1>11. ASSUME NEW p \in net, Deliver(p) \/ Lose(p) PROVE HInv'
  BY <1>6, <1>7, <1>8, <1>9, <1>10, <1>11, HandleLinkrequestHInv DEF Deliver, Lose, HandleProof
<1>12. CASE UNCHANGED vars
  BY <1>1, <1>12, StillInv DEF vars, timers
<1> QED BY <1>2, <1>3, <1>4, <1>5, <1>11, <1>12 DEF Next

LEMMA InitHInv ==
  ASSUME Init
  PROVE  HInv
<1>1. LInv
  BY InitLInv
<1>2. Clocks /\ net = {}
  BY DEF Init, Clocks
<1>3. ASSUME NEW e \in Ends PROVE Waits(e)
  BY <1>3, Limits, Peers DEF Init, Waits, Over
<1> QED BY <1>1, <1>2, <1>3 DEF HInv

(* No end keeps a link whose other end is gone for longer than the delay of   *)
(* the network, its own timeout and one tick interval, whatever the network   *)
(* loses, for every keepalive interval (not the same at both ends), timeout   *)
(* and delay, and whatever the channels of the link report.                   *)
THEOREM HalfOpenLinksEnd == Spec => []HalfOpenBounded
<1>1. Init => HInv
  BY InitHInv
<1>2. HInv /\ [Next]_vars => HInv'
  BY StepHInv
<1>3. HInv => HalfOpenBounded
  <2> SUFFICES ASSUME HInv, NEW e \in Ends, Known(e), state[Peer(e)] \in Over
               PROVE  alone[e] <= Patience(e)
    BY DEF HalfOpenBounded
  <2>1. /\ Waits(e) /\ Late(e) \in {0, 1} /\ request[e] \in Nat /\ quiet[e] \in Nat /\ alone[e] \in Nat
        /\ state[e] \in {"Pending", "Handshake", "Active", "Stale", "Closed"}
    BY DEF HInv, Clocks, Late, LInv, ToldInv, Known, States
  <2> QED BY <2>1, Limits DEF Waits, Patience
<1> QED BY <1>1, <1>2, <1>3, PTL DEF Spec
=============================================================================
