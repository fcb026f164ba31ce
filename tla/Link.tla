-------------------------------- MODULE Link --------------------------------
(***************************************************************************)
(* The life of one link: the LinkEngine of the initiator and of the         *)
(* responder with the LinkManager handlers that drive them, from            *)
(* LINKREQUEST to removal, over a network that delays packets and may lose  *)
(* them.  The transport drops duplicates of the packets modelled here, but  *)
(* not of KEEPALIVE, whose handling is idempotent, nor of LRPROOF, which    *)
(* the responder may send in up to three forms: only one of them is         *)
(* modelled, since the initiator takes none when it is not pending.         *)
(* Left out is what a direct connection does to the link, which counts as   *)
(* inbound traffic and sets another round-trip time and MTU.                *)
(*                                                                          *)
(* Time is discrete and its unit is the driver's tick interval: both nodes  *)
(* tick once in every unit, in any order with the deliveries.  The engine's *)
(* time stamps are kept as ages, cut off where the code can no longer tell  *)
(* the difference:                                                          *)
(*   request  now - request_time                                            *)
(*   quiet    now - max(last_inbound, last_proof, activated_at)             *)
(*   kept     now - last_keepalive                                          *)
(***************************************************************************)
EXTENDS Integers, FiniteSets

CONSTANTS
  Keepalive,          \* keepalive_interval of each end: computed from the
                      \* round-trip time each end measures for itself
  LINK_STALE_FACTOR,
  EstablishmentTimeout,
  MaxDelay,           \* bound: how long the network holds a packet
  Lossy,              \* whether the network loses packets
  MayTeardown,        \* whether the applications may tear the link down
  Talkers,            \* the ends whose application sends data all the time
  ChannelsGiveUp      \* whether a channel message may use up its tries

Ends == {"initiator", "responder"}
Peer(e) == IF e = "initiator" THEN "responder" ELSE "initiator"

ASSUME LinkAssumption ==
  /\ Keepalive \in [Ends -> Nat \ {0}]
  /\ LINK_STALE_FACTOR \in Nat \ {0} /\ EstablishmentTimeout \in Nat \ {0}
  /\ MaxDelay \in Nat
  /\ Lossy \in BOOLEAN /\ MayTeardown \in BOOLEAN
  /\ Talkers \subseteq Ends /\ ChannelsGiveUp \in BOOLEAN

VARIABLES
  state,             \* LinkState of each end; "None" before, "Removed" after
                     \* the link is in the manager's table
  request, quiet, kept,
  net,               \* packets under way: destination end, kind and age
  ticked, spoke,     \* the ends that have ticked, and whose application has
                     \* sent data, in the current unit of time
  established,       \* how often each end's application was told
  closed,            \* LinkEstablished and LinkClosed
  alone              \* ghost: how long the peer has been closed, up to a limit

timers == <<request, quiet, kept>>
told   == <<established, closed>>
vars   == <<state, timers, net, ticked, spoke, told, alone>>

States == {"None", "Pending", "Handshake", "Active", "Stale", "Closed", "Removed"}
Kinds  == {"LINKREQUEST", "LRPROOF", "LRRTT", "KEEPALIVE", "LINKCLOSE", "DATA", "PROOF"}
Over   == {"Closed", "Removed"}

StaleTime(e) == LINK_STALE_FACTOR * Keepalive[e]

(* The longest an end waits for a word of its peer. *)
LongestWait(e) ==
  IF StaleTime(e) > EstablishmentTimeout THEN StaleTime(e) ELSE EstablishmentTimeout

(* How long an end may outlive its peer: packets under way, its own silence   *)
(* or establishment timeout, and one more unit from stale to closed, or from  *)
(* closed to removed.                                                         *)
Patience(e) == MaxDelay + LongestWait(e) + 1

Packet(e, kind) == [to |-> e, kind |-> kind, age |-> 0]
Put(ps) == net' = net \cup ps

-----------------------------------------------------------------------------
(* The handlers that take a packet: it leaves the network, `out` enters.      *)
Take(p, out) == p \in net /\ net' = (net \ {p}) \cup out

(* The link is in the manager's table. *)
Known(e) == state[e] \notin {"None", "Removed"}

(* create_link *)
CreateLink ==
  /\ state["initiator"] = "None"
  /\ state' = [state EXCEPT !["initiator"] = "Pending"]
  /\ request' = [request EXCEPT !["initiator"] = 0]
  /\ quiet' = [quiet EXCEPT !["initiator"] = 0]
  /\ kept' = [kept EXCEPT !["initiator"] = 0]
  /\ Put({Packet("responder", "LINKREQUEST")})
  /\ UNCHANGED <<ticked, spoke, told, alone>>

(* handle_linkrequest: the responder's engine starts in Handshake. *)
HandleLinkrequest(p) ==
  /\ p.kind = "LINKREQUEST"
  /\ state' = [state EXCEPT ![p.to] = "Handshake"]
  /\ request' = [request EXCEPT ![p.to] = 0]
  /\ quiet' = [quiet EXCEPT ![p.to] = 0]
  /\ kept' = [kept EXCEPT ![p.to] = 0]
  /\ Take(p, {Packet(Peer(p.to), "LRPROOF")})
  /\ UNCHANGED <<ticked, spoke, told, alone>>

(* The engine becomes active and the application hears of it. *)
Activate(e) ==
  /\ state' = [state EXCEPT ![e] = "Active"]
  /\ quiet' = [quiet EXCEPT ![e] = 0]
  /\ established' = [established EXCEPT ![e] = @ + 1]
  /\ UNCHANGED <<request, kept, closed, ticked, spoke, alone>>

(* A packet nobody acts on. *)
Ignore(p) == Take(p, {}) /\ UNCHANGED <<state, timers, ticked, spoke, told, alone>>

(* Mutant of HandleLrproof: the engine does not check that it is Pending. *)
HandleLrproofAnyState(p) ==
  /\ p.kind = "LRPROOF"
  /\ Activate(p.to) /\ Take(p, {Packet(Peer(p.to), "LRRTT")})

(* handle_lrproof *)
HandleLrproof(p) ==
  /\ p.kind = "LRPROOF"
  /\ IF state[p.to] = "Pending"
       THEN Activate(p.to) /\ Take(p, {Packet(Peer(p.to), "LRRTT")})
       ELSE Ignore(p)

(* handle_link_data, context LRRTT *)
HandleLrrtt(p) ==
  /\ p.kind = "LRRTT"
  /\ IF state[p.to] = "Handshake" THEN Activate(p.to) /\ Take(p, {}) ELSE Ignore(p)

(* Mutant of RecordInbound: traffic revives any link. *)
RecordInboundRevives(e) ==
  /\ quiet' = [quiet EXCEPT ![e] = 0]
  /\ state' = [state EXCEPT ![e] = "Active"]

(* record_inbound: a stale link recovers. *)
RecordInbound(e) ==
  /\ quiet' = [quiet EXCEPT ![e] = 0]
  /\ state' = [state EXCEPT ![e] = IF @ = "Stale" THEN "Active" ELSE @]

(* handle_link_data, context KEEPALIVE: no reply, on purpose. *)
HandleKeepalive(p) ==
  /\ p.kind = "KEEPALIVE"
  /\ IF Known(p.to)
       THEN /\ RecordInbound(p.to) /\ Take(p, {})
            /\ UNCHANGED <<request, kept, ticked, spoke, told, alone>>
       ELSE Ignore(p)

(* handle_link_data, any data context: an engine without session keys cannot  *)
(* decrypt; only the end that owns the destination can prove the packet       *)
(* (build_link_packet_proof).                                                 *)
HandleData(p) ==
  /\ p.kind = "DATA"
  /\ IF Known(p.to) /\ state[p.to] # "Pending"
       THEN /\ RecordInbound(p.to)
            /\ Take(p, {Packet(Peer(e), "PROOF") : e \in {p.to} \cap {"responder"}})
            /\ UNCHANGED <<request, kept, ticked, spoke, told, alone>>
       ELSE Ignore(p)

(* handle_link_proof: the channel may be told, the engine is not; record_proof*)
(* has no caller.                                                             *)
HandleProof(p) == p.kind = "PROOF" /\ Ignore(p)

(* The engine closes, and the application hears of it if it was not closed    *)
(* yet, besides the n reports of its channel; `alone` of the peer starts to   *)
(* count.                                                                     *)
CloseEngine(e, n) ==
  /\ closed' = [closed EXCEPT ![e] = @ + n + (IF state[e] = "Closed" THEN 0 ELSE 1)]
  /\ alone' = [alone EXCEPT ![Peer(e)] = IF state[e] = "Closed" THEN @ ELSE 0]

(* handle_link_data, context LINKCLOSE *)
HandleLinkclose(p) ==
  /\ p.kind = "LINKCLOSE"
  /\ IF Known(p.to)
       THEN /\ CloseEngine(p.to, 0) /\ Take(p, {})
            /\ state' = [state EXCEPT ![p.to] = "Closed"]
            /\ UNCHANGED <<timers, ticked, spoke, established>>
       ELSE Ignore(p)

(* teardown_link: LINKCLOSE is sent whatever the state of the engine. *)
TeardownLink(e) ==
  /\ MayTeardown /\ Known(e)
  /\ CloseEngine(e, 0)
  /\ state' = [state EXCEPT ![e] = "Closed"]
  /\ Put({Packet(Peer(e), "LINKCLOSE")})
  /\ UNCHANGED <<timers, ticked, spoke, established>>

(* send_on_link *)
SendOnLink(e) ==
  /\ e \in Talkers /\ state[e] = "Active"
  /\ e \notin spoke /\ spoke' = spoke \cup {e}
  /\ Put({Packet(Peer(e), "DATA")})
  /\ UNCHANGED <<state, timers, ticked, told, alone>>

-----------------------------------------------------------------------------
(* Mutant of TickedState: a stale link is never closed. *)
TickedStateStaleForever(e) ==
  CASE state[e] \in {"Pending", "Handshake"} /\ request[e] >= EstablishmentTimeout -> "Closed"
    [] state[e] = "Active" /\ quiet[e] >= StaleTime(e) -> "Stale"
    [] OTHER -> state[e]

(* Mutant of TickedState: only the initiator's request times out. *)
TickedStateNoHandshakeTimeout(e) ==
  CASE state[e] = "Pending" /\ request[e] >= EstablishmentTimeout -> "Closed"
    [] state[e] = "Active" /\ quiet[e] >= StaleTime(e) -> "Stale"
    [] state[e] = "Stale" -> "Closed"
    [] OTHER -> state[e]

(* LinkEngine::tick *)
TickedState(e) ==
  CASE state[e] \in {"Pending", "Handshake"} /\ request[e] >= EstablishmentTimeout -> "Closed"
    [] state[e] = "Active" /\ quiet[e] >= StaleTime(e) -> "Stale"
    [] state[e] = "Stale" -> "Closed"
    [] OTHER -> state[e]

(* needs_keepalive, after the engine's tick *)
NeedsKeepalive(e) ==
  /\ TickedState(e) = "Active"
  /\ quiet[e] >= Keepalive[e] /\ kept[e] >= Keepalive[e]

(* The LinkClosed reports the channel of an established link may make in a    *)
(* tick: process_channel_actions turns the channel's TeardownLink into the    *)
(* report and does nothing else, so that the engine stays as it is.           *)
ChannelReports(e) ==
  IF ChannelsGiveUp /\ Known(e) /\ established[e] = 1 /\ closed[e] = 0
    THEN {0, 1} ELSE {0}

(* LinkManager::tick: the engine ticks, a keepalive goes out if one is due,   *)
(* the channel ticks, and a closed link is removed in the same pass.  A       *)
(* timeout tells only the own application, not the peer.                      *)
Tick(e, n) ==
  /\ e \notin ticked /\ ticked' = ticked \cup {e}
  /\ state' = [state EXCEPT ![e] =
       IF TickedState(e) = "Closed" THEN "Removed" ELSE TickedState(e)]
  /\ IF TickedState(e) = "Closed" 
       THEN CloseEngine(e, n)
       ELSE closed' = [closed EXCEPT ![e] = @ + n] /\ UNCHANGED alone
  /\ IF NeedsKeepalive(e)
       THEN Put({Packet(Peer(e), "KEEPALIVE")}) /\ kept' = [kept EXCEPT ![e] = 0]
       ELSE UNCHANGED <<net, kept>>
  /\ UNCHANGED <<request, quiet, spoke, established>>

(* An age grows up to the largest value the code compares it with. *)
Older(age, limit) == [e \in Ends |-> IF age[e] < limit[e] THEN age[e] + 1 ELSE age[e]]

(* A unit of time passes: both nodes have ticked, the talkers have sent, and  *)
(* no packet is held back longer than the network may.                        *)
TimePasses ==
  /\ ticked = Ends /\ ticked' = {}
  /\ \A e \in Talkers : state[e] = "Active" => e \in spoke
  /\ spoke' = {}
  /\ \A p \in net : p.age < MaxDelay
  /\ net' = {[p EXCEPT !.age = @ + 1] : p \in net}
  /\ request' = Older(request, [e \in Ends |-> EstablishmentTimeout])
  /\ quiet' = Older(quiet, [e \in Ends |-> StaleTime(e)])
  /\ kept' = Older(kept, Keepalive)
  /\ alone' = [e \in Ends |-> IF state[Peer(e)] \in Over /\ alone[e] <= Patience(e)
                                THEN alone[e] + 1 ELSE alone[e]]
  /\ UNCHANGED <<state, told>>

Lose(p) == Lossy /\ Ignore(p)

Init ==
  /\ state = [e \in Ends |-> "None"]
  /\ request = [e \in Ends |-> 0] /\ quiet = request /\ kept = request
  /\ net = {} /\ ticked = {} /\ spoke = {}
  /\ established = [e \in Ends |-> 0] /\ closed = established
  /\ alone = request

Deliver(p) ==
  \/ HandleLinkrequest(p) \/ HandleLrproof(p) \/ HandleLrrtt(p)
  \/ HandleKeepalive(p) \/ HandleData(p) \/ HandleProof(p) \/ HandleLinkclose(p)

Next ==
  \/ CreateLink \/ TimePasses
  \/ \E e \in Ends : \/ \E n \in ChannelReports(e) : Tick(e, n)
                      \/ TeardownLink(e) \/ SendOnLink(e)
  \/ \E p \in net : Deliver(p) \/ Lose(p)

Spec == Init /\ [][Next]_vars

(* Time passes, the driver ticks, the talkers talk and the network does not   *)
(* hold a packet longer than it may; what it loses is its own choice.         *)
FairSpec ==
  /\ Spec
  /\ WF_vars(TimePasses) /\ \A e \in Ends : WF_vars(\E n \in ChannelReports(e) : Tick(e, n))
  /\ WF_vars(\E e \in Talkers : SendOnLink(e))
  /\ WF_vars(\E p \in net : p.age = MaxDelay /\ (Deliver(p) \/ Lose(p)))

-----------------------------------------------------------------------------
TypeOK ==
  /\ state \in [Ends -> States]
  /\ request \in [Ends -> 0..EstablishmentTimeout]
  /\ \A e \in Ends : quiet[e] \in 0..StaleTime(e) /\ kept[e] \in 0..Keepalive[e]
  /\ \A e \in Ends : alone[e] \in 0..(Patience(e) + 1)
  /\ net \subseteq [to : Ends, kind : Kinds, age : 0..MaxDelay]
  /\ ticked \subseteq Ends /\ spoke \subseteq Talkers
  /\ established \in [Ends -> 0..1] /\ closed \in [Ends -> 0..3]

(* An application hears that its link is established at most once and before  *)
(* it hears, exactly once, that it is closed, however LRPROOF, LRRTT, a       *)
(* teardown, the peer's LINKCLOSE, a timeout and the recovery of a stale link *)
(* race with each other.                                                      *)
ToldOnce ==
  \A e \in Ends :
    /\ closed[e] = (IF state[e] \in Over THEN 1 ELSE 0)
    /\ established[e] <= 1
    /\ state[e] \in {"Active", "Stale"} => established[e] = 1
    /\ state[e] \in {"None", "Pending", "Handshake"} => established[e] = 0

(* No end is left with a link whose other end is gone: whether LINKCLOSE, the *)
(* LRPROOF or the LRRTT was lost or the peer timed out without a word, the    *)
(* silence closes this end within its patience.                               *)
HalfOpenBounded ==
  \A e \in Ends : Known(e) /\ state[Peer(e)] \in Over => alone[e] <= Patience(e)

(* A closed link stays closed: no late packet of the handshake and no traffic *)
(* under way revives it.                                                      *)
OverForGood ==
  [][\A e \in Ends : state[e] \in Over => state'[e] \in Over]_vars

(* Every link that is asked for is established or closed in the end. *)
Settles ==
  \A e \in Ends :
    (state[e] \in {"Pending", "Handshake"}) ~> (state[e] \in {"Active", "Stale"} \cup Over)

(* A link nobody tears down, on a network that loses nothing, is not closed:  *)
(* keepalives and traffic keep it up.                                         *)
StaysUp == \A e \in Ends : established[e] = 1 => closed[e] = 0
=============================================================================
