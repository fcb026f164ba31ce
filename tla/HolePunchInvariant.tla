-------------------------- MODULE HolePunchInvariant --------------------------
(***************************************************************************)
(* The inductive invariant of module HolePunch, and that the steps of the   *)
(* punch threads, the close of the link and the handlers of signals keep    *)
(* it.  HolePunchProofs has the other steps and the theorems.               *)
(***************************************************************************)
EXTENDS HolePunch, TLAPS

SessionStates == Waiting \cup {"Idle", "Connected", "Failed"}
SessionRecords ==
  [state : SessionStates, initiator : BOOLEAN, handle : BOOLEAN]
Threads ==
  [status : {"none", "unstarted", "running", "succeeded", "failed"}, we_got_ack : BOOLEAN,
   they_got_ack : BOOLEAN]
Signals ==
  [type : {"UPGRADE_REQUEST", "UPGRADE_ACCEPT", "UPGRADE_REJECT", "UPGRADE_READY"}, session : Nat]

HpTypes ==
  /\ sessions = [p \in Peers |-> sessions[p]]
  /\ \A p \in Peers : sessions[p] \in [DOMAIN sessions[p] -> SessionRecords]
  /\ proposer \in Seq(Peers) /\ Len(proposer) <= MaxSessions
  /\ link_to_session \in [Peers -> Nat]
  /\ cooled \in [Peers -> SUBSET Nat] /\ probing \in [Peers -> SUBSET Nat]
  /\ chan \in [Peers -> Seq(Signals)]
  /\ threads \in [Peers -> [Ids -> Threads]]
  /\ up \in [Peers -> BOOLEAN]
  /\ outcomes \in [Peers -> [Ids -> Seq({"established", "failed"})]]

(* Every session id in use was made by a proposal; only its proposer is the   *)
(* initiator.                                                                 *)
SessionsRight ==
  \A p \in Peers :
    /\ cooled[p] \subseteq DOMAIN proposer /\ probing[p] \subseteq DOMAIN proposer
    /\ \A s \in Ids : threads[p][s].status # "none" => s \in DOMAIN proposer
    /\ \A s \in DOMAIN sessions[p] :
         /\ s \in DOMAIN proposer
         /\ sessions[p][s].initiator => proposer[s] = p
         /\ State(p, s) = "Discovering" /\ ~sessions[p][s].initiator => proposer[s] = Other(p)

(* Peer p knows nothing of session s. *)
Fresh(p, s) == ~Has(p, s) /\ s \notin probing[p] /\ s \notin cooled[p]
      /\ outcomes[p][s] = <<>>

(* A READY is under way only when its sender punches.  The request of a       *)
(* session is sent once, when its proposer has probed, to a peer that knows   *)
(* nothing of it.                                                             *)
SignalsRight ==
  \A p \in Peers : \A i \in DOMAIN chan[p] :
    LET s == chan[p][i].session
    IN  /\ s \in DOMAIN proposer
        /\ chan[p][i].type = "UPGRADE_READY" => threads[Other(p)][s].status # "none"
        /\ chan[p][i].type = "UPGRADE_REQUEST" =>
             /\ proposer[s] = Other(p) /\ s \notin probing[Other(p)]
             /\ Fresh(p, s)
             /\ \A j \in DOMAIN chan[p] : chan[p][j] = chan[p][i] => j = i

NotYetAsked ==
  \A p \in Peers, s \in Ids :
    /\ s \notin DOMAIN proposer => outcomes[p][s] = <<>>
    /\ s \in DOMAIN proposer /\ proposer[s] = Other(p) /\ s \in probing[Other(p)] => Fresh(p, s)

(* OneOutcome of every session in a table, linked or not, and why a session   *)
(* that may be displaced has had its outcome.                                 *)
ToldWhenOver ==
  \A p \in Peers :
    /\ \A s \in Ids : Len(outcomes[p][s]) <= 1
    /\ \A s \in DOMAIN sessions[p] :
         /\ outcomes[p][s] = <<>> <=> State(p, s) \in Waiting
         /\ s \in probing[p] => State(p, s) = "Discovering"
         /\ s = link_to_session[p] /\ s \in cooled[p] => State(p, s) \notin Waiting
    /\ \A s \in DOMAIN proposer :
         up[p] /\ proposer[s] = p /\ ~Has(p, s) => outcomes[p][s] # <<>>

HpInv ==
  HpTypes /\ SessionsRight /\ SignalsRight /\ NotYetAsked /\ ToldWhenOver /\ PunchAfterPeer

LEMMA TwoPeers ==
  /\ \A p \in Peers : Other(p) \in Peers /\ Other(p) # p /\ Other(Other(p)) = p
  /\ \A p, q \in Peers : q = p \/ q = Other(p)
  BY DEF Peers, Other

LEMMA InitHpInv == HpInit => HpInv
<1> SUFFICES ASSUME HpInit PROVE HpInv
  OBVIOUS
<1> USE HolePunchAssumption, TwoPeers DEF HpInit
<1>1. HpTypes
  BY DEF HpTypes, Threads, NoThread
<1>2. SessionsRight /\ SignalsRight
  BY DEF SessionsRight, SignalsRight, NoThread
<1>3. NotYetAsked /\ ToldWhenOver
  BY DEF NotYetAsked, ToldWhenOver, Fresh, Has
<1>4. PunchAfterPeer
  BY DEF PunchAfterPeer
<1> QED BY <1>1, <1>2, <1>3, <1>4 DEF HpInv

LEMMA Proposed ==
  ASSUME HpTypes
  PROVE  /\ DOMAIN proposer = 1..Len(proposer) /\ Len(proposer) \in Nat
         /\ DOMAIN proposer \subseteq Ids /\ DOMAIN proposer \subseteq Nat \ {0}
         /\ \A s \in DOMAIN proposer : proposer[s] \in Peers
  BY HolePunchAssumption DEF HpTypes, Ids

(* Steps of the punch threads: none starts or is forgotten. *)
LEMMA ThreadSteps ==
  ASSUME HpInv, UNCHANGED <<mgrvars, chan, probing, up, proposer>>,
         threads' \in [Peers -> [Ids -> Threads]],
         \A q \in Peers, x \in Ids :
           threads'[q][x].status = "none" <=> threads[q][x].status = "none"
  PROVE  HpInv'
<1> USE Proposed DEF HpInv, mgrvars
<1>1. HpTypes' /\ SessionsRight'
  BY Zenon DEF HpTypes, SessionsRight, State
<1>2. SignalsRight'
  BY TwoPeers DEF SignalsRight, Fresh, Has
<1>3. NotYetAsked' /\ ToldWhenOver'
  BY DEF NotYetAsked, ToldWhenOver, Fresh, Has, State
<1>4. PunchAfterPeer'
  BY TwoPeers DEF PunchAfterPeer
<1> QED BY <1>1, <1>2, <1>3, <1>4

LEMMA PunchedKeeps ==
  ASSUME HpTypes, NEW p \in Peers, NEW s \in Ids, NEW t \in Threads, t.status = "running",
         threads[p][s].status = "running", Punched(p, s, t)
  PROVE  /\ threads' \in [Peers -> [Ids -> Threads]]
         /\ \A q \in Peers, x \in Ids :
              threads'[q][x].status = "none" <=> threads[q][x].status = "none"
<1> DEFINE new == IF t.we_got_ack /\ t.they_got_ack THEN [t EXCEPT !.status = "succeeded"] ELSE t
<1>1. new \in Threads /\ new.status # "none"
  BY DEF Threads
<1>2. threads' = [threads EXCEPT ![p][s] = new]
  BY DEF Punched
<1> HIDE DEF new
<1> QED BY <1>1, <1>2 DEF HpTypes

LEMMA ReceivePunchInv ==
  ASSUME HpInv, NEW p \in Peers, NEW s \in Ids, ReceivePunch(p, s) PROVE HpInv'
<1>1. HpTypes /\ threads[p][s] \in Threads
  BY DEF HpInv, HpTypes
<1> DEFINE t == [threads[p][s] EXCEPT !.they_got_ack = TRUE]
<1>2. t \in Threads /\ t.status = "running" /\ threads[p][s].status = "running" /\ Punched(p, s, t)
  BY Zenon, <1>1 DEF ReceivePunch, Threads
<1> HIDE DEF t
<1> QED BY <1>1, <1>2, PunchedKeeps, ThreadSteps DEF ReceivePunch

LEMMA ReceiveAckInv ==
  ASSUME HpInv, NEW p \in Peers, NEW s \in Ids, ReceiveAck(p, s) PROVE HpInv'
<1>1. HpTypes /\ threads[p][s] \in Threads
  BY DEF HpInv, HpTypes
<1> DEFINE t == [threads[p][s] EXCEPT !.we_got_ack = TRUE]
<1>2. t \in Threads /\ t.status = "running" /\ threads[p][s].status = "running" /\ Punched(p, s, t)
  BY Zenon, <1>1 DEF ReceiveAck, Threads
<1> HIDE DEF t
<1> QED BY <1>1, <1>2, PunchedKeeps, ThreadSteps DEF ReceiveAck

LEMMA PunchEndsInv ==
  ASSUME HpInv, NEW p \in Peers, NEW s \in Ids, PunchEnds(p, s) PROVE HpInv'
<1>1. /\ threads' \in [Peers -> [Ids -> Threads]]
      /\ \A q \in Peers, x \in Ids :
           threads'[q][x].status = "none" <=> threads[q][x].status = "none"
  <2>1. threads[p][s] \in Threads /\ threads[p][s].status = "running"
    BY DEF HpInv, HpTypes, PunchEnds
  <2> DEFINE t == [threads[p][s] EXCEPT !.status = "failed"]
  <2>2. t \in Threads /\ t.status # "none" /\ threads' = [threads EXCEPT ![p][s] = t]
    BY <2>1 DEF PunchEnds, Threads
  <2> HIDE DEF t
  <2> QED BY <2>1, <2>2 DEF HpInv, HpTypes
<1> QED BY <1>1, ThreadSteps DEF PunchEnds

-----------------------------------------------------------------------------
(* The signals under way after a step of p that takes d of its own and may    *)
(* send one more.                                                             *)
Moved(p, d, new) ==
  \A q \in Peers : \A i \in DOMAIN chan'[q] :
    LET k == IF q = p THEN i + d ELSE i
    IN  \/ k \in DOMAIN chan[q] /\ chan'[q][i] = chan[q][k]
        \/ q = Other(p) /\ i = Len(chan[q]) + 1 /\ chan'[q][i] = new

LEMMA NoReplyMoves ==
  ASSUME HpTypes, NEW p \in Peers, chan[p] # <<>>, NoReply(p), NEW new
  PROVE  chan' \in [Peers -> Seq(Signals)] /\ Moved(p, 1, new)
  BY TwoPeers DEF HpTypes, NoReply, Moved

LEMMA ReplyMoves ==
  ASSUME HpTypes, NEW p \in Peers, chan[p] # <<>>, NEW type, NEW s,
         [type |-> type, session |-> s] \in Signals, Reply(p, type, s)
  PROVE  chan' \in [Peers -> Seq(Signals)] /\ Moved(p, 1, [type |-> type, session |-> s])
<1> DEFINE new == [type |-> type, session |-> s]
<1>1. CASE NoReply(p)
  BY <1>1, NoReplyMoves
<1>2. CASE chan' = [chan EXCEPT ![p] = Tail(@), ![Other(p)] = Append(@, new)]
  <2>1. /\ chan'[p] = Tail(chan[p]) /\ chan'[Other(p)] = Append(chan[Other(p)], new)
        /\ chan' = [q \in Peers |-> chan'[q]]
    BY Zenon, <1>2, TwoPeers DEF HpTypes
  <2>2. new \in Signals
    OBVIOUS
  <2> HIDE DEF new
  <2>3. /\ chan[p] \in Seq(Signals) /\ chan[Other(p)] \in Seq(Signals)
        /\ chan'[p] \in Seq(Signals) /\ chan'[Other(p)] \in Seq(Signals)
    BY <2>1, <2>2, TwoPeers DEF HpTypes
  <2>4. chan' \in [Peers -> Seq(Signals)]
    BY Zenon, <2>1, <2>3, TwoPeers
  <2>5. \A i \in DOMAIN chan'[p] : i + 1 \in DOMAIN chan[p] /\ chan'[p][i] = chan[p][i + 1]
    BY <2>1, <2>3
  <2>6. \A i \in DOMAIN chan'[Other(p)] :
          \/ i \in DOMAIN chan[Other(p)] /\ chan'[Other(p)][i] = chan[Other(p)][i]
          \/ i = Len(chan[Other(p)]) + 1 /\ chan'[Other(p)][i] = new
    BY <2>1, <2>2, <2>3
  <2>7. Moved(p, 1, new)
    BY <2>5, <2>6, TwoPeers DEF Moved
  <2> QED BY <2>4, <2>7 DEF new
<1> QED BY <1>1, <1>2 DEF Reply, NoReply

LEMMA SignalMoves ==
  ASSUME HpTypes, NEW p \in Peers, NEW type, NEW s,
         [type |-> type, session |-> s] \in Signals, Signal(p, type, s)
  PROVE  chan' \in [Peers -> Seq(Signals)] /\ Moved(p, 0, [type |-> type, session |-> s])
<1> DEFINE new == [type |-> type, session |-> s]
<1>1. CASE UNCHANGED chan
  BY <1>1 DEF HpTypes, Moved
<1>2. CASE chan' = [chan EXCEPT ![Other(p)] = Append(@, new)]
  <2>2. new \in Signals
    OBVIOUS
  <2> HIDE DEF new
  <2>3. chan' \in [Peers -> Seq(Signals)] 
    BY <1>2, <2>2, TwoPeers DEF HpTypes
  <2>4. Moved(p, 0, new)
    BY <1>2, <2>2, TwoPeers DEF HpTypes, Moved
  <2> QED BY <2>3, <2>4 DEF new
<1> QED BY <1>1, <1>2 DEF Signal

(* What keeps the signals right: those that stay still are, and so is the new *)
(* one, which is no second request.                                           *)
LEMMA SignalsStayRight ==
  ASSUME HpTypes, HpTypes', SignalsRight, NEW p \in Peers, NEW d \in {0, 1}, NEW new \in Signals,
         Moved(p, d, new),
         \A x \in DOMAIN proposer : x \in DOMAIN proposer' /\ proposer'[x] = proposer[x],
         \A q \in Peers, x \in Ids :
           threads[q][x].status # "none" => threads'[q][x].status # "none",
         \A q \in Peers, x \in Ids : \A i \in DOMAIN chan[q] :
           chan[q][i] = [type |-> "UPGRADE_REQUEST", session |-> x] /\ (q = p => i > d) =>
             Fresh(q, x)' /\ x \notin probing'[Other(q)],
         new.session \in DOMAIN proposer,
         new.type = "UPGRADE_READY" => threads'[p][new.session].status # "none",
         new.type = "UPGRADE_REQUEST" =>
           /\ proposer[new.session] = p /\ new.session \notin probing'[p]
           /\ Fresh(Other(p), new.session)'
           /\ \A i \in DOMAIN chan[Other(p)] : chan[Other(p)][i] # new
  PROVE  SignalsRight'
<1> SUFFICES ASSUME NEW q \in Peers, NEW i \in DOMAIN chan'[q], NEW x, x = chan'[q][i].session
             PROVE  /\ x \in DOMAIN proposer'
                    /\ chan'[q][i].type = "UPGRADE_READY" => threads'[Other(q)][x].status # "none"
                    /\ chan'[q][i].type = "UPGRADE_REQUEST" =>
                         /\ proposer'[x] = Other(q) /\ x \notin probing'[Other(q)]
                         /\ Fresh(q, x)'
                         /\ \A j \in DOMAIN chan'[q] : chan'[q][j] = chan'[q][i] => j = i
  BY DEF SignalsRight, Fresh, Has
<1>0. DOMAIN chan[q] = 1..Len(chan[q]) /\ DOMAIN chan'[q] = 1..Len(chan'[q]) /\ Len(chan[q]) \in Nat
  BY DEF HpTypes
<1> DEFINE k(j) == IF q = p THEN j + d ELSE j
<1>1. \A j \in DOMAIN chan'[q] :
        \/ k(j) \in DOMAIN chan[q] /\ chan'[q][j] = chan[q][k(j)]
        \/ q = Other(p) /\ j = Len(chan[q]) + 1 /\ chan'[q][j] = new
  BY DEF Moved
<1>2. CASE k(i) \in DOMAIN chan[q] /\ chan'[q][i] = chan[q][k(i)]
  <2>1. q = p => k(i) > d
    BY <1>0
  <2>2. x \in DOMAIN proposer /\ x \in Ids /\ chan[q][k(i)] \in Signals
    <3>1. x \in DOMAIN proposer
      BY <1>2 DEF SignalsRight
    <3>2. chan[q] \in Seq(Signals)
      BY DEF HpTypes
    <3> HIDE DEF k
    <3>3. chan[q][k(i)] \in Signals
      BY <1>2, <3>2
    <3> QED BY <3>1, <3>3, Proposed
  <2>3. chan'[q][i].type = "UPGRADE_READY" => threads'[Other(q)][x].status # "none"
    BY <1>2, <2>2, TwoPeers DEF SignalsRight
  <2>4. ASSUME chan'[q][i].type = "UPGRADE_REQUEST", NEW j \in DOMAIN chan'[q],
               chan'[q][j] = chan'[q][i]
        PROVE  j = i
    <3>0. \A m \in DOMAIN chan[q] : chan[q][m] = chan[q][k(i)] => m = k(i)
      BY <1>2, <2>4 DEF SignalsRight
    <3>1. CASE k(j) \in DOMAIN chan[q] /\ chan'[q][j] = chan[q][k(j)]
      <4>1. k(j) = k(i)
        BY <1>2, <2>4, <3>0, <3>1
      <4> QED BY <4>1, <1>0
    <3>2. CASE q = Other(p) /\ chan'[q][j] = new
      BY <1>2, <2>4, <3>2
    <3> QED BY <1>1, <3>1, <3>2
  <2>5. ASSUME chan'[q][i].type = "UPGRADE_REQUEST"
        PROVE  proposer'[x] = Other(q) /\ x \notin probing'[Other(q)] /\ Fresh(q, x)'
    <3>1. chan[q][k(i)] = [type |-> "UPGRADE_REQUEST", session |-> x]
      BY <1>2, <2>2, <2>5 DEF Signals
    <3>2. proposer[x] = Other(q)
      BY <1>2, <2>5 DEF SignalsRight
    <3> QED BY Zenon, <1>2, <2>1, <2>2, <3>1, <3>2
  <2> QED BY <1>2, <2>2, <2>3, <2>4, <2>5
<1>3. CASE q = Other(p) /\ i = Len(chan[q]) + 1 /\ chan'[q][i] = new
  <2>1. \A j \in DOMAIN chan'[q] : new.type = "UPGRADE_REQUEST" /\ chan'[q][j] = new => j = i
    BY <1>0, <1>1, <1>3, TwoPeers
  <2>2. Other(q) = p /\ x = new.session
    BY <1>3, TwoPeers
  <2>3. new.type = "UPGRADE_REQUEST" => Fresh(q, x)'
    BY <1>3, <2>2
  <2> QED BY <1>3, <2>1, <2>2, <2>3
<1> QED BY <1>1, <1>2, <1>3

LEMMA SendNothing ==
  ASSUME HpInv, UNCHANGED chan,
         \A x \in DOMAIN proposer : x \in DOMAIN proposer' /\ proposer'[x] = proposer[x],
         \A q \in Peers, x \in Ids :
            threads[q][x].status # "none" => threads'[q][x].status # "none",
         \A q \in Peers, x \in DOMAIN proposer : Fresh(q, x) => Fresh(q, x)',
         \A q \in Peers, x \in DOMAIN proposer : x \in probing'[q] => x \in probing[q]
  PROVE  SignalsRight'
<1>1. DOMAIN proposer \subseteq Ids
  BY Proposed DEF HpInv
<1> QED BY <1>1, TwoPeers DEF HpInv, SignalsRight

LEMMA CooldownPassesInv ==
  ASSUME HpInv, NEW p \in Peers, CooldownPasses(p) PROVE HpInv'
<1>0. /\ UNCHANGED <<sessions, link_to_session, outcomes, chan, probing, threads, up, proposer>>
      /\ cooled' \in [Peers -> SUBSET Nat]
      /\ cooled'[p] = DOMAIN sessions[p]
      /\ \A q \in Peers : q # p => cooled'[q] = cooled[q]
  <2>1. DOMAIN sessions[p] \in SUBSET Nat
    BY Proposed DEF HpInv, SessionsRight
  <2> QED BY Zenon, <2>1 DEF HpInv, HpTypes, CooldownPasses
<1>1. HpTypes'
  BY Zenon, <1>0 DEF HpInv, HpTypes
<1>2. SessionsRight'
  BY <1>0 DEF HpInv, SessionsRight, State
<1>3. \A q \in Peers, x \in Ids : Fresh(q, x) => Fresh(q, x)'
  BY Zenon, <1>0 DEF Fresh, Has
<1>4. SignalsRight'
  BY Zenon, <1>0, <1>3, Proposed, SendNothing DEF HpInv
<1>5. NotYetAsked'
  BY <1>0, <1>3, TwoPeers DEF HpInv, NotYetAsked
<1>6. ToldWhenOver'
  BY <1>0 DEF HpInv, ToldWhenOver, CooldownPasses, Has, State, Linked
<1>7. PunchAfterPeer'
  BY <1>0 DEF HpInv, PunchAfterPeer
<1> QED BY <1>1, <1>2, <1>4, <1>5, <1>6, <1>7 DEF HpInv

(* One peer's table of sessions is replaced. *)
LEMMA NewTable ==
  ASSUME HpTypes, NEW p \in Peers, NEW table, table \in [DOMAIN table -> SessionRecords],
         sessions' = [sessions EXCEPT ![p] = table]
  PROVE  /\ sessions' = [q \in Peers |-> sessions'[q]]
         /\ sessions'[p] = table /\ sessions'[Other(p)] = sessions[Other(p)]
         /\ \A q \in Peers : sessions'[q] \in [DOMAIN sessions'[q] -> SessionRecords]
  BY Zenon, TwoPeers DEF HpTypes

(* The link goes down at p, and sessions of p are forgotten. *)
LEMMA DownInv ==
  ASSUME HpInv, NEW p \in Peers, NEW table, table \in [DOMAIN table -> SessionRecords],
         \A x \in DOMAIN table : x \in DOMAIN sessions[p] /\ table[x] = sessions[p][x],
         sessions' = [sessions EXCEPT ![p] = table], up' = [up EXCEPT ![p] = FALSE],
         link_to_session' = [link_to_session EXCEPT ![p] = 0],
         UNCHANGED <<cooled, outcomes, chan, probing, threads, acks, proposer>>
  PROVE  HpInv'
<1>0. /\ sessions' = [q \in Peers |-> sessions'[q]]
      /\ sessions'[p] = table /\ sessions'[Other(p)] = sessions[Other(p)]
      /\ \A q \in Peers : sessions'[q] \in [DOMAIN sessions'[q] -> SessionRecords]
  BY Zenon, NewTable DEF HpInv
<1>1. \A q \in Peers : \A x \in DOMAIN sessions'[q] :
        x \in DOMAIN sessions[q] /\ sessions'[q][x] = sessions[q][x]
  BY Zenon, <1>0, TwoPeers
<1>2. /\ ~up'[p] /\ link_to_session'[p] = 0
      /\ up'[Other(p)] = up[Other(p)]
      /\ link_to_session'[Other(p)] = link_to_session[Other(p)]
      /\ up' \in [Peers -> BOOLEAN] /\ link_to_session' \in [Peers -> Nat]
  BY Zenon, TwoPeers DEF HpInv, HpTypes
<1>3. HpTypes'
  BY Zenon, <1>0, <1>2 DEF HpInv, HpTypes
<1>4. SessionsRight'
  BY <1>1 DEF HpInv, SessionsRight, State
<1>5. \A q \in Peers, x \in Ids : Fresh(q, x) => Fresh(q, x)'
  BY Zenon, <1>1 DEF Fresh, Has
<1>6. SignalsRight'
  BY Zenon, <1>5, Proposed, SendNothing DEF HpInv
<1>7. NotYetAsked'
  BY <1>5, TwoPeers DEF HpInv, NotYetAsked
<1>8. ToldWhenOver'
  <2>1. \A q \in Peers : \A x \in DOMAIN sessions'[q] : x # 0
    BY <1>1, Proposed DEF HpInv, SessionsRight
  <2>2. \A q \in Peers : up'[q] => q = Other(p)
    BY Zenon, <1>2, TwoPeers
  <2>3. \A q \in Peers, x \in Ids : Len(outcomes'[q][x]) <= 1
    BY DEF HpInv, ToldWhenOver
  <2>4. \A q \in Peers : \A x \in DOMAIN sessions'[q] :
          /\ outcomes'[q][x] = <<>> <=> State(q, x)' \in Waiting
          /\ x \in probing'[q] => State(q, x)' = "Discovering"
    BY <1>1 DEF HpInv, ToldWhenOver, State
  <2>5. \A q \in Peers : \A x \in DOMAIN sessions'[q] :
          x = link_to_session'[q] /\ x \in cooled'[q] => State(q, x)' \notin Waiting
    BY <1>1, <1>2, <2>1, TwoPeers DEF HpInv, ToldWhenOver, State
  <2>6. \A q \in Peers : \A x \in DOMAIN proposer' :
          up'[q] /\ proposer'[x] = q /\ ~Has(q, x)' => outcomes'[q][x] # <<>>
    BY <1>0, <1>2, <2>2 DEF HpInv, ToldWhenOver, Has
  <2> QED BY Zenon, <2>3, <2>4, <2>5, <2>6 DEF ToldWhenOver
<1>9. PunchAfterPeer'
  BY DEF HpInv, PunchAfterPeer
<1> QED BY <1>3, <1>4, <1>6, <1>7, <1>8, <1>9 DEF HpInv

LEMMA LinkClosedInv ==
  ASSUME HpInv, NEW p \in Peers, LinkClosed(p) PROVE HpInv'
<1> DEFINE table == Without(p, link_to_session[p])
<1>1. /\ table \in [DOMAIN table -> SessionRecords]
      /\ \A x \in DOMAIN table : x \in DOMAIN sessions[p] /\ table[x] = sessions[p][x]
  BY DEF HpInv, HpTypes, Without
<1> QED BY Zenon, <1>1, DownInv DEF LinkClosed

LEMMA AbortAllSessionsInv ==
  ASSUME HpInv, NEW p \in Peers, AbortAllSessions(p) PROVE HpInv'
<1> DEFINE table == [s \in {} |-> 0]
<1>1. table \in [DOMAIN table -> SessionRecords] /\ DOMAIN table = {}
  OBVIOUS
<1> QED BY Zenon, <1>1, DownInv DEF AbortAllSessions

LEMMA AtMostOne ==
  ASSUME NEW m \in Nat, NEW n \in Nat, m <= 1, n = m \/ n = 1
  PROVE  n <= 1
  OBVIOUS

(* One session's record is replaced. *)
Updated(p, s, rec) ==
  /\ sessions' = [q \in Peers |-> sessions'[q]]
  /\ \A q \in Peers : DOMAIN sessions'[q] = DOMAIN sessions[q]
  /\ \A q \in Peers : sessions'[q] \in [DOMAIN sessions'[q] -> SessionRecords]
  /\ sessions'[p][s] = rec
  /\ \A q \in Peers : \A x \in DOMAIN sessions[q] :
       q # p \/ x # s => sessions'[q][x] = sessions[q][x]

LEMMA UpdateOne ==
  ASSUME HpTypes, NEW p \in Peers, NEW s \in DOMAIN sessions[p], NEW rec \in SessionRecords,
         sessions' = [sessions EXCEPT ![p][s] = rec]
  PROVE  Updated(p, s, rec)
<1> DEFINE table == [sessions[p] EXCEPT ![s] = rec]
<1>1. table \in [DOMAIN table -> SessionRecords] /\ DOMAIN table = DOMAIN sessions[p]
  BY DEF HpTypes
<1>2. table[s] = rec /\ \A x : x # s => table[x] = sessions[p][x]
  OBVIOUS
<1>3. sessions' = [sessions EXCEPT ![p] = table]
  OBVIOUS
<1> HIDE DEF table
<1>4. /\ sessions' = [q \in Peers |-> sessions'[q]]
      /\ sessions'[p] = table /\ sessions'[Other(p)] = sessions[Other(p)]
      /\ \A q \in Peers : sessions'[q] \in [DOMAIN sessions'[q] -> SessionRecords]
  BY Zenon, <1>1, <1>3, NewTable
<1>5. \A q \in Peers : DOMAIN sessions'[q] = DOMAIN sessions[q]
  BY <1>1, <1>4, TwoPeers
<1> QED BY <1>2, <1>4, <1>5, TwoPeers DEF Updated

(* A waiting session goes on, or stops waiting and its application is told. *)
LEMMA AdvanceKeeps ==
  ASSUME HpInv, NEW p \in Peers, NEW s \in Ids, NEW rec \in SessionRecords,
         Updated(p, s, rec), s \in DOMAIN sessions[p],
         State(p, s) \in Waiting, rec.state # "Discovering",
         rec.initiator => sessions[p][s].initiator,
         IF rec.state \in Waiting THEN UNCHANGED outcomes ELSE Tell(p, s, "failed"),
         \A q \in Peers, x \in Ids : q # p \/ x # s => threads'[q][x] = threads[q][x],
         threads'[p][s].status # "none" =>
            threads[p][s].status # "none" \/ threads[Other(p)][s].status # "none"
              \/ proposer[s] # p,
         threads[p][s].status # "none" => threads'[p][s].status # "none",
         \A q \in Peers : probing'[q] \subseteq probing[q], s \notin probing'[p],
         UNCHANGED <<link_to_session, cooled, up, proposer>>
  PROVE  /\ outcomes' \in [Peers -> [Ids -> Seq({"established", "failed"})]]
         /\ \A q \in Peers, x \in Ids : Fresh(q, x) => Fresh(q, x)'
         /\ SessionsRight' /\ NotYetAsked' /\ ToldWhenOver' /\ PunchAfterPeer'
<1>0. /\ outcomes' \in [Peers -> [Ids -> Seq({"established", "failed"})]]
      /\ \A q \in Peers, x \in Ids : q # p \/ x # s => outcomes'[q][x] = outcomes[q][x]
      /\ outcomes[p][s] = <<>> /\ Len(outcomes'[p][s]) <= 1
      /\ outcomes'[p][s] = <<>> <=> rec.state \in Waiting
  <2>1. outcomes[p][s] = <<>> /\ outcomes \in [Peers -> [Ids -> Seq({"established", "failed"})]]
    BY DEF HpInv, ToldWhenOver, HpTypes
  <2>2. CASE rec.state \in Waiting
    BY <2>1, <2>2
  <2>3. CASE rec.state \notin Waiting
    <3>1. outcomes' = [outcomes EXCEPT ![p][s] = <<"failed">>]
      BY <2>1, <2>3 DEF Tell
    <3> QED BY <2>1, <2>3, <3>1
  <2> QED BY <2>2, <2>3
<1>0a. \A q \in Peers, x \in Ids : q # p \/ x # s => outcomes'[q][x] = outcomes[q][x]
  BY Zenon, <1>0
<1>0b. outcomes'[p][s] = <<>> <=> rec.state \in Waiting
  BY Zenon, <1>0
<1>2. SessionsRight'
  <2> SUFFICES ASSUME NEW q \in Peers
               PROVE  /\ \A x \in Ids : threads'[q][x].status # "none" => x \in DOMAIN proposer
                      /\ \A x \in DOMAIN sessions'[q] :
                           /\ x \in DOMAIN proposer
                           /\ sessions'[q][x].initiator => proposer[x] = q
                           /\ sessions'[q][x].state = "Discovering" /\ ~sessions'[q][x].initiator
                                => proposer[x] = Other(q)
    BY DEF HpInv, SessionsRight, State
  <2>1. s \in DOMAIN proposer
    BY Zenon DEF HpInv, SessionsRight
  <2>2. \A x \in Ids : threads'[q][x].status # "none" => x \in DOMAIN proposer
    BY <2>1 DEF HpInv, SessionsRight
  <2>3. \A x \in DOMAIN sessions[q] : q # p \/ x # s => sessions'[q][x] = sessions[q][x]
    BY Zenon DEF Updated
  <2>4. DOMAIN sessions'[q] = DOMAIN sessions[q] /\ sessions'[p][s] = rec
    BY Zenon DEF Updated
  <2> QED BY <2>2, <2>3, <2>4 DEF HpInv, SessionsRight, State
<1>3. \A q \in Peers, x \in Ids : Fresh(q, x) => Fresh(q, x)'
  BY Zenon, <1>0a DEF Fresh, Has, Updated
<1>5. NotYetAsked'
  <2>1. s \in DOMAIN proposer
    BY Zenon DEF HpInv, SessionsRight
  <2>2. \A q \in Peers, x \in Ids : x \notin DOMAIN proposer => outcomes'[q][x] = <<>>
    BY <1>0a, <2>1 DEF HpInv, NotYetAsked
  <2>3. \A q \in Peers, x \in Ids :
          x \in DOMAIN proposer /\ proposer[x] = Other(q) /\ x \in probing[Other(q)] => Fresh(q, x)'
    BY Zenon, <1>3, TwoPeers DEF HpInv, NotYetAsked
  <2> QED BY Zenon, <2>2, <2>3, TwoPeers DEF NotYetAsked
<1>6. ToldWhenOver'
  <2> SUFFICES ASSUME NEW q \in Peers
               PROVE  /\ \A x \in Ids : Len(outcomes'[q][x]) <= 1
                      /\ \A x \in DOMAIN sessions'[q] :
                           /\ outcomes'[q][x] = <<>> <=> sessions'[q][x].state \in Waiting
                           /\ x \in probing'[q] => sessions'[q][x].state = "Discovering"
                           /\ x = link_to_session[q] /\ x \in cooled[q]
                                => sessions'[q][x].state \notin Waiting
                      /\ \A x \in DOMAIN proposer :
                           up[q] /\ proposer[x] = q /\ x \notin DOMAIN sessions'[q]
                             => outcomes'[q][x] # <<>>
    BY DEF ToldWhenOver, State, Has
  <2>1. \A x \in DOMAIN sessions[q] : q # p \/ x # s => sessions'[q][x] = sessions[q][x]
    BY Zenon DEF Updated
  <2>2. DOMAIN sessions'[q] = DOMAIN sessions[q] /\ sessions'[p][s] = rec
    BY Zenon DEF Updated
  <2>3. ASSUME NEW x \in Ids PROVE Len(outcomes'[q][x]) <= 1
    <3>1. Len(outcomes[q][x]) \in Nat /\ Len(outcomes[q][x]) <= 1
      BY DEF HpInv, ToldWhenOver, HpTypes
    <3>2. CASE q # p \/ x # s
      BY Zenon, <1>0a, <3>1, <3>2
    <3>3. CASE q = p /\ x = s
      BY Zenon, <1>0, <3>3
    <3> QED BY Zenon, <3>2, <3>3
  <2>4. ~(s = link_to_session[p] /\ s \in cooled[p])
    BY DEF HpInv, ToldWhenOver
  <2>5. \A x \in DOMAIN sessions[q] :
          /\ outcomes'[q][x] = <<>> <=> sessions'[q][x].state \in Waiting
          /\ x \in probing'[q] => sessions'[q][x].state = "Discovering"
          /\ x = link_to_session[q] /\ x \in cooled[q] => sessions'[q][x].state \notin Waiting
    <3> SUFFICES ASSUME NEW x \in DOMAIN sessions[q]
                 PROVE  /\ outcomes'[q][x] = <<>> <=> sessions'[q][x].state \in Waiting
                        /\ x \in probing'[q] => sessions'[q][x].state = "Discovering"
                        /\ x = link_to_session[q] /\ x \in cooled[q]
                             => sessions'[q][x].state \notin Waiting
      BY Zenon
    <3>1. CASE q = p /\ x = s
      BY Zenon, <1>0b, <2>2, <2>4, <3>1
    <3>2. CASE q # p \/ x # s
      <4>1. x \in Ids
        BY Proposed DEF HpInv, SessionsRight
      <4>2. outcomes'[q][x] = outcomes[q][x] /\ sessions'[q][x] = sessions[q][x]
        BY Zenon, <1>0a, <2>1, <3>2, <4>1
      <4>3. x \in probing'[q] => x \in probing[q]
        BY Zenon
      <4>4. /\ outcomes[q][x] = <<>> <=> sessions[q][x].state \in Waiting
            /\ x \in probing[q] => sessions[q][x].state = "Discovering"
            /\ x = link_to_session[q] /\ x \in cooled[q] => sessions[q][x].state \notin Waiting
        BY Zenon DEF HpInv, ToldWhenOver, State
      <4> QED BY Zenon, <4>2, <4>3, <4>4
    <3> QED BY Zenon, <3>1, <3>2
  <2>6. \A x \in DOMAIN proposer :
          up[q] /\ proposer[x] = q /\ x \notin DOMAIN sessions[q] => outcomes'[q][x] # <<>>
    <3> SUFFICES ASSUME NEW x \in DOMAIN proposer, up[q], proposer[x] = q, x \notin DOMAIN sessions[q]
                 PROVE  outcomes'[q][x] # <<>>
      OBVIOUS
    <3>1. outcomes[q][x] # <<>>
      BY DEF HpInv, ToldWhenOver, Has
    <3>2. x \in Ids /\ (q # p \/ x # s)
      BY Proposed DEF HpInv
    <3> QED BY Zenon, <1>0a, <3>1, <3>2
  <2> QED BY Zenon, <2>2, <2>3, <2>5, <2>6
<1>7. PunchAfterPeer'
  <2>1. \A x \in DOMAIN proposer : x \in Ids /\ proposer[x] \in Peers
    BY Proposed DEF HpInv
  <2> QED BY <2>1, TwoPeers DEF HpInv, PunchAfterPeer
<1> QED BY Zenon, <1>0, <1>2, <1>3, <1>5, <1>6, <1>7

LEMMA Requested ==
  ASSUME HpInv
  PROVE  \A q \in Peers, x \in Ids : \A i \in DOMAIN chan[q] :
           chan[q][i] = [type |-> "UPGRADE_REQUEST", session |-> x] =>
             Fresh(q, x) /\ x \notin probing[Other(q)] /\ proposer[x] = Other(q)
  BY DEF HpInv, SignalsRight

(* A handler of p takes a signal, answers nothing, and moves the session on. *)
LEMMA EnterInv ==
  ASSUME HpInv, NEW p \in Peers, NEW s \in Ids, NEW rec \in SessionRecords,
         Updated(p, s, rec), s \in DOMAIN sessions[p],
         State(p, s) \in Waiting \ {"Discovering"}, rec.state # "Discovering",
         rec.initiator => sessions[p][s].initiator,
         chan[p] # <<>>, NoReply(p),
         IF rec.state \in Waiting THEN UNCHANGED outcomes ELSE Tell(p, s, "failed"),
         threads' \in [Peers -> [Ids -> Threads]],
         \A q \in Peers, x \in Ids : q # p \/ x # s => threads'[q][x] = threads[q][x],
         threads'[p][s].status # "none" =>
            threads[p][s].status # "none" \/ threads[Other(p)][s].status # "none",
         threads[p][s].status # "none" => threads'[p][s].status # "none",
         UNCHANGED <<link_to_session, cooled, probing, acks, up, proposer>>
  PROVE  HpInv'
<1>1. s \notin probing[p]
  BY Zenon DEF HpInv, ToldWhenOver
<1>2. /\ outcomes' \in [Peers -> [Ids -> Seq({"established", "failed"})]]
      /\ \A q \in Peers, x \in Ids : Fresh(q, x) => Fresh(q, x)'
      /\ SessionsRight' /\ NotYetAsked' /\ ToldWhenOver' /\ PunchAfterPeer'
  BY <1>1, AdvanceKeeps, TwoPeers
<1> DEFINE none == [type |-> "UPGRADE_ACCEPT", session |-> s]
<1>3. /\ none \in Signals /\ s \in DOMAIN proposer /\ Moved(p, 1, none)
      /\ chan' \in [Peers -> Seq(Signals)] /\ none.type = "UPGRADE_ACCEPT" /\ none.session = s
  BY Zenon, NoReplyMoves, Proposed DEF HpInv, HpTypes, Signals, SessionsRight
<1> HIDE DEF none
<1>4. HpTypes'
  BY Zenon, <1>2, <1>3 DEF HpInv, HpTypes, Updated
<1>5. \A q \in Peers, x \in Ids : \A i \in DOMAIN chan[q] :
         chan[q][i] = [type |-> "UPGRADE_REQUEST", session |-> x] =>
           Fresh(q, x)' /\ x \notin probing'[Other(q)]
  BY Zenon, <1>2, Requested
<1>6. \A q \in Peers, x \in Ids :
        threads[q][x].status # "none" => threads'[q][x].status # "none"
  BY Zenon
<1>7. SignalsRight'
  BY Zenon, <1>3, <1>4, <1>5, <1>6, SignalsStayRight DEF HpInv
<1> QED BY Zenon, <1>2, <1>4, <1>7 DEF HpInv

(* A signal of p is taken, and at most answered. *)
LEMMA AnswerInv ==
  ASSUME HpInv, NEW p \in Peers, NEW new \in Signals, Moved(p, 1, new),
         chan' \in [Peers -> Seq(Signals)],
         new.type \in {"UPGRADE_ACCEPT", "UPGRADE_REJECT"}, new.session \in DOMAIN proposer,
         UNCHANGED <<mgrvars, probing, threads, up, proposer>>
  PROVE  HpInv'
<1>1. HpTypes'
  BY Zenon DEF HpInv, HpTypes, mgrvars
<1>2. SessionsRight'
  BY DEF HpInv, SessionsRight, State, mgrvars
<1>3. \A q \in Peers, x \in Ids : Fresh(q, x) => Fresh(q, x)'
  BY Zenon DEF Fresh, Has, mgrvars
<1>4. SignalsRight'
  <2>1. \A q \in Peers, x \in Ids : \A i \in DOMAIN chan[q] :
           chan[q][i] = [type |-> "UPGRADE_REQUEST", session |-> x] =>
             Fresh(q, x)' /\ x \notin probing'[Other(q)]
    BY Zenon, <1>3, Requested, TwoPeers
  <2> QED BY <1>1, <2>1, SignalsStayRight DEF HpInv
<1>5. NotYetAsked'
  BY <1>3, TwoPeers DEF HpInv, NotYetAsked, mgrvars
<1>6. ToldWhenOver'
  BY DEF HpInv, ToldWhenOver, State, Has, mgrvars
<1>7. PunchAfterPeer'
  BY DEF HpInv, PunchAfterPeer, mgrvars
<1> QED BY <1>1, <1>2, <1>4, <1>5, <1>6, <1>7 DEF HpInv

LEMMA SignalKnown ==
  ASSUME HpInv, NEW p \in Peers, NEW s \in Ids, NEW type, Received(p, type, s)
  PROVE  /\ chan[p] # <<>> /\ s \in DOMAIN proposer
         /\ type = "UPGRADE_READY" => threads[Other(p)][s].status # "none"
         /\ type = "UPGRADE_REQUEST" =>
              /\ proposer[s] = Other(p) /\ s \notin probing[Other(p)] /\ Fresh(p, s)
              /\ \A j \in DOMAIN chan[p] :
                   chan[p][j] = [type |-> "UPGRADE_REQUEST", session |-> s] => j = 1
<1>1. chan[p] # <<>> /\ chan[p] \in Seq(Signals) /\ Head(chan[p]) = [type |-> type, session |-> s]
  BY DEF Received, HpInv, HpTypes
<1>2. 1 \in DOMAIN chan[p] /\ chan[p][1] = [type |-> type, session |-> s]
  BY <1>1
<1>3. chan[p][1].type = type /\ chan[p][1].session = s
  BY <1>2
<1> QED BY <1>1, <1>2, <1>3 DEF HpInv, SignalsRight

LEMMA DropInv ==
  ASSUME HpInv, NEW p \in Peers, NEW s \in Ids, NEW type, Received(p, type, s), NoReply(p),
         UNCHANGED <<mgrvars, probing, threads, up, proposer>>
  PROVE  HpInv'
<1> DEFINE none == [type |-> "UPGRADE_ACCEPT", session |-> s]
<1>1. none \in Signals /\ none.type = "UPGRADE_ACCEPT" /\ none.session = s
  BY HolePunchAssumption DEF Signals, Ids
<1>2. chan[p] # <<>> /\ s \in DOMAIN proposer
  BY Zenon, SignalKnown
<1> HIDE DEF none
<1>3. chan' \in [Peers -> Seq(Signals)] /\ Moved(p, 1, none)
  BY <1>2, NoReplyMoves DEF HpInv
<1> QED BY <1>1, <1>2, <1>3, AnswerInv

LEMMA RejectUpgradeRequestInv ==
  ASSUME HpInv, NEW p \in Peers, NEW s \in Ids, RejectUpgradeRequest(p, s) PROVE HpInv'
<1> DEFINE new == [type |-> "UPGRADE_REJECT", session |-> s]
<1>1. new \in Signals /\ new.type = "UPGRADE_REJECT" /\ new.session = s
  BY HolePunchAssumption DEF Signals, Ids
<1>2. chan[p] # <<>> /\ s \in DOMAIN proposer
  BY Zenon, SignalKnown DEF RejectUpgradeRequest
<1>3. chan' \in [Peers -> Seq(Signals)] /\ Moved(p, 1, new)
  BY <1>1, <1>2, ReplyMoves DEF HpInv, RejectUpgradeRequest
<1> HIDE DEF new
<1> QED BY <1>1, <1>2, <1>3, AnswerInv DEF RejectUpgradeRequest

LEMMA HandleUpgradeAcceptInv ==
  ASSUME HpInv, NEW p \in Peers, NEW s \in Ids, HandleUpgradeAccept(p, s) PROVE HpInv'
<1>1. CASE Expects(p, s, "Proposing")
  <2>1. /\ HpTypes /\ chan[p] # <<>> /\ s \in DOMAIN sessions[p]
        /\ sessions[p][s] \in SessionRecords /\ State(p, s) = "Proposing"
    <3>1. chan[p] # <<>>
      BY Zenon, SignalKnown DEF HandleUpgradeAccept
    <3>2. HpTypes /\ s \in DOMAIN sessions[p] /\ State(p, s) = "Proposing"
      BY <1>1 DEF HpInv, Expects, Has
    <3> QED BY <3>1, <3>2 DEF HpTypes
  <2> DEFINE rec == [sessions[p][s] EXCEPT !.state = "WaitingReady"]
  <2>2. /\ rec \in SessionRecords /\ rec.state = "WaitingReady"
        /\ rec.initiator = sessions[p][s].initiator
    BY <2>1 DEF SessionRecords, SessionStates, Waiting
  <2>3. sessions' = [sessions EXCEPT ![p][s] = rec]
    BY <1>1 DEF HandleUpgradeAccept, Enter
  <2> HIDE DEF rec
  <2>4. Updated(p, s, rec)
    BY Zenon, <2>1, <2>2, <2>3, UpdateOne
  <2>5. threads \in [Peers -> [Ids -> Threads]]
    BY <2>1 DEF HpTypes
  <2> QED BY <2>1, <2>2, <2>4, <2>5, EnterInv DEF HandleUpgradeAccept, Waiting
<1>2. CASE ~Expects(p, s, "Proposing")
  BY <1>2, DropInv DEF HandleUpgradeAccept, mgrvars
<1> QED BY <1>1, <1>2

LEMMA HandleUpgradeRejectInv ==
  ASSUME HpInv, NEW p \in Peers, NEW s \in Ids, HandleUpgradeReject(p, s) PROVE HpInv'
<1>1. CASE Expects(p, s, "Proposing")
  <2>1. /\ HpTypes /\ chan[p] # <<>> /\ s \in DOMAIN sessions[p]
        /\ sessions[p][s] \in SessionRecords /\ State(p, s) = "Proposing"
    <3>1. chan[p] # <<>>
      BY Zenon, SignalKnown DEF HandleUpgradeReject
    <3>2. HpTypes /\ s \in DOMAIN sessions[p] /\ State(p, s) = "Proposing"
      BY <1>1 DEF HpInv, Expects, Has
    <3> QED BY <3>1, <3>2 DEF HpTypes
  <2> DEFINE rec == [sessions[p][s] EXCEPT !.state = "Failed"]
  <2>2. /\ rec \in SessionRecords /\ rec.state = "Failed"
        /\ rec.initiator = sessions[p][s].initiator
    BY <2>1 DEF SessionRecords, SessionStates
  <2>3. sessions' = [sessions EXCEPT ![p][s] = rec] /\ Tell(p, s, "failed")
    BY <1>1 DEF HandleUpgradeReject, Enter
  <2> HIDE DEF rec
  <2>4. Updated(p, s, rec)
    BY Zenon, <2>1, <2>2, <2>3, UpdateOne
  <2>5. threads \in [Peers -> [Ids -> Threads]]
    BY <2>1 DEF HpTypes
  <2> QED BY <2>1, <2>2, <2>3, <2>4, <2>5, EnterInv DEF HandleUpgradeReject, Waiting
<1>2. CASE ~Expects(p, s, "Proposing")
  BY <1>2, DropInv DEF HandleUpgradeReject, mgrvars
<1> QED BY <1>1, <1>2

(* The session and its thread once the engine punches. *)
LEMMA StartedAs ==
  ASSUME HpTypes, NEW p \in Peers, NEW s \in Ids, s \in DOMAIN sessions[p],
         NEW rec \in SessionRecords, rec.state = "Punching",
         rec.initiator = sessions[p][s].initiator, sessions' = [sessions EXCEPT ![p][s] = rec],
         NEW new \in Threads, new.status # "none", threads' = [threads EXCEPT ![p][s] = new]
  PROVE  /\ \E r \in SessionRecords :
              /\ Updated(p, s, r) /\ r.state = "Punching"
              /\ r.initiator = sessions[p][s].initiator
         /\ threads' \in [Peers -> [Ids -> Threads]] /\ threads'[p][s].status # "none"
         /\ \A q \in Peers, x \in Ids : q # p \/ x # s => threads'[q][x] = threads[q][x]
<1>1. Updated(p, s, rec)
  BY ZenonT(40), UpdateOne
<1>2. /\ threads' \in [Peers -> [Ids -> Threads]] /\ threads'[p][s].status # "none"
      /\ \A q \in Peers, x \in Ids : q # p \/ x # s => threads'[q][x] = threads[q][x]
  BY DEF HpTypes
<1> QED BY <1>1, <1>2

(* What StartPunch does to the session and its thread, started or not. *)
LEMMA Started ==
  ASSUME HpTypes, NEW p \in Peers, NEW s \in Ids, s \in DOMAIN sessions[p], StartPunch(p, s)
  PROVE  /\ \E rec \in SessionRecords :
              /\ Updated(p, s, rec) /\ rec.state = "Punching"
              /\ rec.initiator = sessions[p][s].initiator
         /\ threads' \in [Peers -> [Ids -> Threads]] /\ threads'[p][s].status # "none"
         /\ \A q \in Peers, x \in Ids : q # p \/ x # s => threads'[q][x] = threads[q][x]
<1>1. sessions[p][s] \in SessionRecords
  BY DEF HpTypes
<1>2. CASE /\ sessions' = [sessions EXCEPT ![p][s].state = "Punching", ![p][s].handle = TRUE]
           /\ threads' = [threads EXCEPT ![p][s] = [NoThread EXCEPT !.status = "running"]]
  <2> DEFINE rec == [sessions[p][s] EXCEPT !.state = "Punching", !.handle = TRUE]
             new == [NoThread EXCEPT !.status = "running"]
  <2>1. /\ rec \in SessionRecords /\ rec.state = "Punching"
        /\ rec.initiator = sessions[p][s].initiator
    BY Zenon, <1>1 DEF SessionRecords, SessionStates, Waiting
  <2>2. sessions' = [sessions EXCEPT ![p][s] = rec]
    BY Zenon, <1>1, <1>2 DEF HpTypes, SessionRecords
  <2>3. new \in Threads /\ new.status # "none" /\ threads' = [threads EXCEPT ![p][s] = new]
    BY Zenon, <1>2 DEF NoThread, Threads
  <2> HIDE DEF rec, new
  <2> QED BY Zenon, <2>1, <2>2, <2>3, StartedAs
<1>3. CASE /\ sessions' = [sessions EXCEPT ![p][s].state = "Punching"]
           /\ threads' = [threads EXCEPT ![p][s] = [NoThread EXCEPT !.status = "unstarted"]]
  <2> DEFINE rec == [sessions[p][s] EXCEPT !.state = "Punching"]
             new == [NoThread EXCEPT !.status = "unstarted"]
  <2>1. /\ rec \in SessionRecords /\ rec.state = "Punching"
        /\ rec.initiator = sessions[p][s].initiator
    BY Zenon, <1>1 DEF SessionRecords, SessionStates, Waiting
  <2>2. sessions' = [sessions EXCEPT ![p][s] = rec]
    BY Zenon, <1>1, <1>3 DEF HpTypes, SessionRecords
  <2>3. new \in Threads /\ new.status # "none" /\ threads' = [threads EXCEPT ![p][s] = new]
    BY Zenon, <1>3 DEF NoThread, Threads
  <2> HIDE DEF rec, new
  <2> QED BY Zenon, <2>1, <2>2, <2>3, StartedAs
<1> QED BY Zenon, <1>2, <1>3 DEF StartPunch, Enter

LEMMA HandleUpgradeReadyInv ==
  ASSUME HpInv, NEW p \in Peers, NEW s \in Ids, HandleUpgradeReady(p, s) PROVE HpInv'
<1>1. CASE Expects(p, s, "WaitingReady")
  <2>1. /\ HpTypes /\ chan[p] # <<>> /\ s \in DOMAIN sessions[p]
        /\ State(p, s) = "WaitingReady" /\ threads[Other(p)][s].status # "none"
    BY Zenon, <1>1, SignalKnown DEF HpInv, HandleUpgradeReady, Expects, Has
  <2>2. PICK rec \in SessionRecords : /\ Updated(p, s, rec) /\ rec.state = "Punching"
                                      /\ rec.initiator = sessions[p][s].initiator
    BY <1>1, <2>1, Started DEF HandleUpgradeReady
  <2>3. /\ threads' \in [Peers -> [Ids -> Threads]] /\ threads'[p][s].status # "none"
        /\ \A q \in Peers, x \in Ids : q # p \/ x # s => threads'[q][x] = threads[q][x]
    BY Zenon, <1>1, <2>1, Started DEF HandleUpgradeReady
  <2> QED BY Zenon, <2>1, <2>2, <2>3, EnterInv DEF HandleUpgradeReady, Waiting
<1>2. CASE ~Expects(p, s, "WaitingReady")
  BY <1>2, DropInv DEF HandleUpgradeReady, mgrvars
<1> QED BY <1>1, <1>2


=============================================================================
