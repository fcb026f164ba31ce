--------------------------- MODULE HolePunchProofs ---------------------------
(***************************************************************************)
(* Proofs about module HolePunch, for every number of sessions and every    *)
(* choice of who proposes, who may reject and whether signals are refused.  *)
(***************************************************************************)
EXTENDS HolePunchInvariant

(* A session of p is made, in place of an older one o or beside it, with a     *)
(* probe of its own.                                                          *)
LEMMA MadeInv ==
  ASSUME HpInv, HpTypes', NEW p \in Peers, NEW s \in Ids, NEW o,
         o \in DOMAIN sessions[p] => o \in cooled[p] /\ o = link_to_session[p],
         Fresh(p, s),
         DOMAIN sessions'[p] = (DOMAIN sessions[p] \ {o}) \cup {s},
         sessions'[p][s].state = "Discovering",
         proposer'[s] = IF sessions'[p][s].initiator THEN p ELSE Other(p),
         \A x \in DOMAIN sessions[p] \ {o} : sessions'[p][x] = sessions[p][x],
         sessions'[Other(p)] = sessions[Other(p)],
         \A x \in DOMAIN proposer : x \in DOMAIN proposer' /\ proposer'[x] = proposer[x],
         DOMAIN proposer' = DOMAIN proposer \cup {s},
         proposer'[s] = p => s \notin DOMAIN proposer,
         proposer'[s] = Other(p) => s \in DOMAIN proposer /\ s \notin probing[Other(p)],
         link_to_session'[p] = s, link_to_session'[Other(p)] = link_to_session[Other(p)],
         probing'[p] = probing[p] \cup {s}, probing'[Other(p)] = probing[Other(p)],
         UNCHANGED <<cooled, threads, up, outcomes>>
  PROVE  SessionsRight' /\ NotYetAsked' /\ ToldWhenOver' /\ PunchAfterPeer'
<1> USE TwoPeers, Proposed DEF HpInv
<1>0. /\ s \notin DOMAIN sessions[p] /\ s \notin probing[p] /\ s \notin cooled[p]
      /\ outcomes[p][s] = <<>>
  BY DEF Fresh, Has
<1>1. SessionsRight'
  BY <1>0 DEF SessionsRight, State
<1>2. NotYetAsked'
  BY <1>0 DEF NotYetAsked, Fresh, Has, SessionsRight
<1>3. ToldWhenOver'
  <2> SUFFICES ASSUME NEW q \in Peers
               PROVE  /\ \A x \in Ids : Len(outcomes[q][x]) <= 1
                      /\ \A x \in DOMAIN sessions'[q] :
                           /\ outcomes[q][x] = <<>> <=> sessions'[q][x].state \in Waiting
                           /\ x \in probing'[q] => sessions'[q][x].state = "Discovering"
                           /\ x = link_to_session'[q] /\ x \in cooled[q]
                                => sessions'[q][x].state \notin Waiting
                      /\ \A x \in DOMAIN proposer' :
                           up[q] /\ proposer'[x] = q /\ x \notin DOMAIN sessions'[q]
                             => outcomes[q][x] # <<>>
    BY DEF ToldWhenOver, State, Has
  <2>1. \A x \in Ids : Len(outcomes[q][x]) <= 1
    BY DEF ToldWhenOver
  <2>2. \A x \in DOMAIN sessions'[q] :
          /\ outcomes[q][x] = <<>> <=> sessions'[q][x].state \in Waiting
          /\ x \in probing'[q] => sessions'[q][x].state = "Discovering"
          /\ x = link_to_session'[q] /\ x \in cooled[q] => sessions'[q][x].state \notin Waiting
    <3>1. CASE q = p
      BY <1>0, <3>1 DEF ToldWhenOver, State, Waiting
    <3>2. CASE q = Other(p)
      BY <3>2 DEF ToldWhenOver, State
    <3> QED BY ZenonT(40), <3>1, <3>2
  <2>3. \A x \in DOMAIN proposer' :
          up[q] /\ proposer'[x] = q /\ x \notin DOMAIN sessions'[q] => outcomes[q][x] # <<>>
    <3>1. CASE q = p
      <4>1. o \in DOMAIN sessions[p] => outcomes[p][o] # <<>>
        BY DEF ToldWhenOver
      <4> QED BY <1>0, <3>1, <4>1 DEF ToldWhenOver, Has
    <3>2. CASE q = Other(p)
      BY <3>2 DEF ToldWhenOver, Has
    <3> QED BY ZenonT(40), <3>1, <3>2
  <2> QED BY <2>1, <2>2, <2>3
<1>4. PunchAfterPeer'
  BY <1>0 DEF PunchAfterPeer, SessionsRight
<1> QED BY <1>1, <1>2, <1>3, <1>4

LEMMA ProposeInv ==
  ASSUME HpInv, NEW p \in Peers, Propose(p) PROVE HpInv'
<1> USE TwoPeers, Proposed DEF HpInv
<1> DEFINE s == Len(proposer) + 1
           o == link_to_session[p]
           table == [x \in (DOMAIN sessions[p] \ {o}) \cup {s} |->
                       IF x = s THEN NewSession(TRUE) ELSE sessions[p][x]]
<1>1. /\ s \in Ids /\ s \notin DOMAIN proposer /\ DOMAIN proposer' = DOMAIN proposer \cup {s}
      /\ proposer'[s] = p /\ \A x \in DOMAIN proposer : proposer'[x] = proposer[x]
      /\ proposer' \in Seq(Peers) /\ Len(proposer') = s /\ s \in Nat
  <2>1. s \in Ids /\ proposer' = Append(proposer, p) /\ proposer \in Seq(Peers)
    BY DEF Propose, HpTypes
  <2> QED BY <2>1
<1>2. table \in [DOMAIN table -> SessionRecords] /\ sessions' = [sessions EXCEPT ![p] = table]
  BY DEF HpTypes, Propose, SessionRecords, SessionStates, Waiting, NewSession
<1>3. /\ DOMAIN table = (DOMAIN sessions[p] \ {o}) \cup {s}
      /\ table[s].state = "Discovering" /\ table[s].initiator
  BY DEF NewSession
<1>4. s \notin DOMAIN sessions[p] 
  BY <1>1 DEF SessionsRight
<1>5. \A x \in DOMAIN sessions[p] \ {o} : table[x] = sessions[p][x]
  BY Zenon, <1>4
<1> HIDE DEF table, s
<1>6. /\ sessions' = [q \in Peers |-> sessions'[q]]
      /\ sessions'[p] = table /\ sessions'[Other(p)] = sessions[Other(p)]
      /\ \A q \in Peers : sessions'[q] \in [DOMAIN sessions'[q] -> SessionRecords]
  BY Zenon, <1>2, NewTable
<1>7. /\ link_to_session' = [link_to_session EXCEPT ![p] = s]
      /\ probing' = [probing EXCEPT ![p] = @ \cup {s}]
      /\ UNCHANGED <<cooled, chan, threads, up, outcomes>>
  BY DEF Propose, s
<1>8. HpTypes'
  <2>1. link_to_session' \in [Peers -> Nat] /\ probing' \in [Peers -> SUBSET Nat]
    BY <1>1, <1>7 DEF HpTypes
  <2>2. proposer' \in Seq(Peers) /\ Len(proposer') <= MaxSessions
    BY <1>1 DEF Ids
  <2>3. /\ cooled' \in [Peers -> SUBSET Nat] /\ chan' \in [Peers -> Seq(Signals)]
        /\ threads' \in [Peers -> [Ids -> Threads]] /\ up' \in [Peers -> BOOLEAN]
        /\ outcomes' \in [Peers -> [Ids -> Seq({"established", "failed"})]]
    BY Zenon, <1>7 DEF HpTypes
  <2> HIDE TwoPeers, Proposed DEF HpInv
  <2> QED BY Zenon, <1>6, <2>1, <2>2, <2>3 DEF HpTypes
<1>9. Fresh(p, s) 
  BY <1>1, <1>4 DEF Fresh, Has, SessionsRight, NotYetAsked
<1>10. o \in DOMAIN sessions[p] => o \in cooled[p]
  BY DEF Propose, Linked, Has
<1>11. /\ link_to_session'[p] = s /\ link_to_session'[Other(p)] = link_to_session[Other(p)]
       /\ probing'[p] = probing[p] \cup {s} /\ probing'[Other(p)] = probing[Other(p)]
  BY <1>7 DEF HpTypes
<1>12. SessionsRight' /\ NotYetAsked' /\ ToldWhenOver' /\ PunchAfterPeer'
  <2>1. /\ o \in DOMAIN sessions[p] => o \in cooled[p] /\ o = link_to_session[p]
        /\ proposer'[s] = IF sessions'[p][s].initiator THEN p ELSE Other(p)
        /\ proposer'[s] = p => s \notin DOMAIN proposer
        /\ proposer'[s] = Other(p) => s \in DOMAIN proposer /\ s \notin probing[Other(p)]
    BY <1>1, <1>3, <1>6, <1>10
  <2>2. /\ DOMAIN sessions'[p] = (DOMAIN sessions[p] \ {o}) \cup {s}
        /\ sessions'[p][s].state = "Discovering" /\ sessions'[Other(p)] = sessions[Other(p)]
        /\ \A x \in DOMAIN sessions[p] \ {o} : sessions'[p][x] = sessions[p][x]
    BY <1>3, <1>5, <1>6
  <2>3. /\ \A x \in DOMAIN proposer : x \in DOMAIN proposer' /\ proposer'[x] = proposer[x]
        /\ DOMAIN proposer' = DOMAIN proposer \cup {s}
        /\ UNCHANGED <<cooled, threads, up, outcomes>>
    BY <1>1, <1>7
  <2> HIDE TwoPeers, Proposed DEF HpInv
  <2>4. s \in Ids /\ HpInv
    BY <1>1
  <2> QED BY <1>8, <1>9, <1>11, <2>1, <2>2, <2>3, <2>4, MadeInv
<1>13. SignalsRight'
  <2>1. \A q \in Peers, x \in DOMAIN proposer : Fresh(q, x) => Fresh(q, x)'
    BY <1>1, <1>3, <1>6, <1>7, <1>11 DEF Fresh, Has
  <2>2. \A q \in Peers, x \in DOMAIN proposer : x \in probing'[q] => x \in probing[q]
    BY <1>1, <1>11
  <2> QED BY <1>1, <1>7, <2>1, <2>2, SendNothing
<1> QED BY <1>8, <1>12, <1>13

LEMMA HandleUpgradeRequestInv ==
  ASSUME HpInv, NEW p \in Peers, NEW s \in Ids, HandleUpgradeRequest(p, s) PROVE HpInv'
<1> USE TwoPeers, Proposed DEF HpInv
<1> DEFINE new == [type |-> "UPGRADE_ACCEPT", session |-> s]
           table == With(p, s, NewSession(FALSE))
<1>1. /\ chan[p] # <<>> /\ s \in DOMAIN proposer /\ proposer[s] = Other(p)
      /\ s \notin probing[Other(p)] /\ Fresh(p, s)
      /\ \A j \in DOMAIN chan[p] : chan[p][j] = [type |-> "UPGRADE_REQUEST", session |-> s] => j = 1
  BY SignalKnown DEF HandleUpgradeRequest
<1>2. new \in Signals /\ new.type = "UPGRADE_ACCEPT" /\ new.session = s
  BY <1>1 DEF Signals
<1>3. chan' \in [Peers -> Seq(Signals)] /\ Moved(p, 1, new)
  BY <1>1, <1>2, ReplyMoves DEF HandleUpgradeRequest
<1>4. table \in [DOMAIN table -> SessionRecords] /\ sessions' = [sessions EXCEPT ![p] = table]
  BY DEF HpTypes, HandleUpgradeRequest, With, SessionRecords, SessionStates, Waiting, NewSession
<1>5. /\ DOMAIN table = DOMAIN sessions[p] \cup {s}
      /\ table[s].state = "Discovering" /\ ~table[s].initiator
  BY DEF NewSession, With
<1>6. \A x \in DOMAIN sessions[p] : table[x] = sessions[p][x]
  BY Zenon, <1>1 DEF With, Fresh, Has
<1> HIDE DEF table, new
<1>7. /\ sessions' = [q \in Peers |-> sessions'[q]]
      /\ sessions'[p] = table /\ sessions'[Other(p)] = sessions[Other(p)]
      /\ \A q \in Peers : sessions'[q] \in [DOMAIN sessions'[q] -> SessionRecords]
  BY Zenon, <1>4, NewTable
<1>8. /\ link_to_session' = [link_to_session EXCEPT ![p] = s]
      /\ probing' = [probing EXCEPT ![p] = @ \cup {s}]
      /\ UNCHANGED <<cooled, threads, up, proposer, outcomes>>
  BY DEF HandleUpgradeRequest
<1>9. HpTypes'
  <2>1. s \in Nat
    BY <1>1
  <2>2. link_to_session' \in [Peers -> Nat] /\ probing' \in [Peers -> SUBSET Nat]
    BY <1>8, <2>1 DEF HpTypes
  <2> QED BY <1>3, <1>7, <1>8, <2>2 DEF HpTypes
<1>10. /\ link_to_session'[p] = s /\ link_to_session'[Other(p)] = link_to_session[Other(p)]
       /\ probing'[p] = probing[p] \cup {s} /\ probing'[Other(p)] = probing[Other(p)]
  BY <1>8 DEF HpTypes
<1>11. 0 \notin DOMAIN sessions[p]
  BY DEF SessionsRight
<1>12. SessionsRight' /\ NotYetAsked' /\ ToldWhenOver' /\ PunchAfterPeer'
  <2>1. /\ 0 \in DOMAIN sessions[p] => 0 \in cooled[p] /\ 0 = link_to_session[p]
        /\ proposer'[s] = IF sessions'[p][s].initiator THEN p ELSE Other(p)
        /\ proposer'[s] = p => s \notin DOMAIN proposer
        /\ proposer'[s] = Other(p) => s \in DOMAIN proposer /\ s \notin probing[Other(p)]
    BY <1>1, <1>5, <1>7, <1>8, <1>11
  <2>2. /\ DOMAIN sessions'[p] = (DOMAIN sessions[p] \ {0}) \cup {s}
        /\ sessions'[p][s].state = "Discovering" /\ sessions'[Other(p)] = sessions[Other(p)]
        /\ \A x \in DOMAIN sessions[p] \ {0} : sessions'[p][x] = sessions[p][x]
    BY <1>5, <1>6, <1>7, <1>11
  <2>3. /\ \A x \in DOMAIN proposer : x \in DOMAIN proposer' /\ proposer'[x] = proposer[x]
        /\ DOMAIN proposer' = DOMAIN proposer \cup {s}
        /\ UNCHANGED <<cooled, threads, up, outcomes>>
    BY <1>1, <1>8
  <2> HIDE TwoPeers, Proposed DEF HpInv
  <2>4. Fresh(p, s) /\ HpInv
    BY <1>1
  <2> QED BY <1>9, <1>10, <2>1, <2>2, <2>3, <2>4, MadeInv
<1>13. SignalsRight'
  <2>1. \A q \in Peers, x \in Ids : Fresh(q, x) /\ x # s => Fresh(q, x)'
    BY <1>5, <1>7, <1>8, <1>10 DEF Fresh, Has
  <2>2. \A q \in Peers, x \in Ids : \A i \in DOMAIN chan[q] :
          chan[q][i] = [type |-> "UPGRADE_REQUEST", session |-> x] /\ (q = p => i > 1) =>
             Fresh(q, x) /\ x # s /\ x \notin probing'[Other(q)]
    BY <1>1, <1>10, Requested
  <2> QED BY ZenonT(40), <1>1, <1>2, <1>3, <1>8, <1>9, <2>1, <2>2, SignalsStayRight
<1> QED BY <1>9, <1>12, <1>13

LEMMA FewerProbes ==
  ASSUME HpInv, probing' \in [Peers -> SUBSET Nat],
         \A q \in Peers : probing'[q] \subseteq probing[q],
         UNCHANGED <<sessions, link_to_session, cooled, outcomes, chan, threads, up, proposer>>
  PROVE  HpInv'
<1> USE TwoPeers, Proposed DEF HpInv
<1>1. HpTypes'
  BY DEF HpTypes
<1>2. SessionsRight'
  BY DEF SessionsRight, State
<1>3. \A q \in Peers, x \in Ids : Fresh(q, x) => Fresh(q, x)'
  BY DEF Fresh, Has
<1>4. SignalsRight'
  BY <1>1, <1>3, SendNothing
<1>5. NotYetAsked'
  BY <1>3 DEF NotYetAsked
<1>6. ToldWhenOver'
  BY DEF ToldWhenOver, State, Has
<1>7. PunchAfterPeer'
  BY DEF PunchAfterPeer
<1> QED BY <1>1, <1>2, <1>4, <1>5, <1>6, <1>7

LEMMA ProbedRecord ==
  ASSUME HpTypes, NEW p \in Peers, NEW s \in DOMAIN sessions[p],
         sessions' = [sessions EXCEPT ![p][s].state = "Proposing"]
  PROVE  sessions' = [sessions EXCEPT ![p][s] =
                        [sessions[p][s] EXCEPT !.state = "Proposing"]]
<1>1. sessions[p][s] \in SessionRecords
  BY DEF HpTypes
<1> QED BY Zenon, <1>1 DEF HpTypes, SessionRecords

LEMMA ResetRecord ==
  ASSUME HpTypes, NEW p \in Peers, NEW s \in DOMAIN sessions[p],
         sessions' = [sessions EXCEPT ![p][s].state = "Idle", ![p][s].initiator = FALSE]
  PROVE  sessions' = [sessions EXCEPT ![p][s] =
                        [sessions[p][s] EXCEPT !.state = "Idle", !.initiator = FALSE]]
<1>1. sessions[p][s] \in SessionRecords
  BY DEF HpTypes
<1> QED BY Zenon, <1>1 DEF HpTypes, SessionRecords

LEMMA HandleProbeFailedInv ==
  ASSUME HpInv, NEW p \in Peers, NEW s \in Ids, HandleProbeFailed(p, s) PROVE HpInv'
<1> USE TwoPeers, Proposed DEF HpInv
<1>1. /\ s \in probing[p] /\ probing' \in [Peers -> SUBSET Nat]
      /\ s \notin probing'[p] /\ \A q \in Peers : probing'[q] \subseteq probing[q]
      /\ UNCHANGED <<link_to_session, cooled, chan, threads, up, proposer>>
  BY DEF HandleProbeFailed, HpTypes
<1>2. CASE Has(p, s)
  <2>1. sessions[p][s] \in SessionRecords /\ s \in DOMAIN sessions[p] /\ State(p, s) = "Discovering"
    BY <1>1, <1>2 DEF HpTypes, Has, ToldWhenOver
  <2> DEFINE rec == [sessions[p][s] EXCEPT !.state = "Idle", !.initiator = FALSE]
  <2>2. rec \in SessionRecords /\ rec.state = "Idle" /\ ~rec.initiator
    BY Zenon, <2>1 DEF SessionRecords, SessionStates
  <2>3. sessions' = [sessions EXCEPT ![p][s] = rec] /\ Tell(p, s, "failed")
    <3>1. /\ sessions' = [sessions EXCEPT ![p][s].state = "Idle", ![p][s].initiator = FALSE]
          /\ Tell(p, s, "failed")
      BY <1>2 DEF HandleProbeFailed
    <3> QED BY Zenon, <2>1, <3>1, ResetRecord
  <2> HIDE DEF rec
  <2>4. Updated(p, s, rec)
    BY Zenon, <2>1, <2>2, <2>3, UpdateOne
  <2>5. /\ outcomes' \in [Peers -> [Ids -> Seq({"established", "failed"})]]
        /\ \A q \in Peers, x \in Ids : Fresh(q, x) => Fresh(q, x)'
        /\ SessionsRight' /\ NotYetAsked' /\ ToldWhenOver' /\ PunchAfterPeer'
    BY <1>1, <2>1, <2>2, <2>3, <2>4, AdvanceKeeps DEF Waiting
  <2>6. HpTypes'
    BY <1>1, <2>4, <2>5 DEF HpTypes, Updated
  <2>7. SignalsRight'
    BY <1>1, <2>5, <2>6, SendNothing
  <2> QED BY <2>5, <2>6, <2>7
<1>3. CASE ~Has(p, s)
  <2>1. UNCHANGED <<sessions, outcomes>>
    BY <1>3 DEF HandleProbeFailed
  <2> QED BY <1>1, <2>1, FewerProbes
<1> QED BY <1>2, <1>3

LEMMA HandleProbeResultInv ==
  ASSUME HpInv, NEW p \in Peers, NEW s \in Ids, HandleProbeResult(p, s) PROVE HpInv'
<1> USE TwoPeers, Proposed DEF HpInv
<1>1. /\ s \in probing[p] /\ probing' \in [Peers -> SUBSET Nat]
      /\ s \notin probing'[p] /\ \A q \in Peers : probing'[q] \subseteq probing[q]
      /\ UNCHANGED <<link_to_session, cooled, outcomes, up, proposer>>
  BY DEF HandleProbeResult, HpTypes
<1>2. CASE Has(p, s) /\ State(p, s) = "Discovering" /\ sessions[p][s].initiator
  <2>1. sessions[p][s] \in SessionRecords /\ s \in DOMAIN sessions[p]
    BY <1>2 DEF HpTypes, Has
  <2> DEFINE rec == [sessions[p][s] EXCEPT !.state = "Proposing"]
             new == [type |-> "UPGRADE_REQUEST", session |-> s]
  <2>2. rec \in SessionRecords /\ rec.state = "Proposing"
    BY Zenon, <2>1 DEF SessionRecords, SessionStates, Waiting
  <2>3. /\ sessions' = [sessions EXCEPT ![p][s] = rec]
        /\ Signal(p, "UPGRADE_REQUEST", s) /\ UNCHANGED threads
    <3>1. /\ sessions' = [sessions EXCEPT ![p][s].state = "Proposing"]
          /\ Signal(p, "UPGRADE_REQUEST", s) /\ UNCHANGED threads
      BY <1>2 DEF HandleProbeResult, Enter
    <3> QED BY Zenon, <2>1, <3>1, ProbedRecord
  <2>4. new \in Signals /\ new.type = "UPGRADE_REQUEST" /\ new.session = s
    BY <2>1 DEF Signals, SessionsRight
  <2>5. chan' \in [Peers -> Seq(Signals)] /\ Moved(p, 0, new)
    BY <2>3, <2>4, SignalMoves
  <2> HIDE DEF rec
  <2>6. Updated(p, s, rec)
    BY ZenonT(40), <2>1, <2>2, <2>3, UpdateOne
  <2>7. /\ \A q \in Peers, x \in Ids : Fresh(q, x) => Fresh(q, x)'
        /\ SessionsRight' /\ NotYetAsked' /\ ToldWhenOver' /\ PunchAfterPeer'
    BY <1>1, <1>2, <2>1, <2>2, <2>3, <2>6, AdvanceKeeps DEF Waiting
  <2>8. HpTypes'
    BY <1>1, <2>3, <2>5, <2>6 DEF HpTypes, Updated
  <2>9. s \in DOMAIN proposer /\ proposer[s] = p
    BY <1>2, <2>1 DEF SessionsRight
  <2>10. Fresh(Other(p), s)
    BY <1>1, <2>9 DEF NotYetAsked
  <2>11. \A i \in DOMAIN chan[Other(p)] : chan[Other(p)][i] # new
    BY <1>1, Requested
  <2> HIDE DEF new
  <2>12. \A q \in Peers, x \in Ids : \A i \in DOMAIN chan[q] :
           chan[q][i] = [type |-> "UPGRADE_REQUEST", session |-> x] =>
             Fresh(q, x)' /\ x \notin probing'[Other(q)]
    BY <1>1, <2>7, Requested
  <2>13. SignalsRight'
    BY ZenonT(40), <1>1, <2>3, <2>4, <2>5, <2>7, <2>8, <2>9, <2>10, <2>11, <2>12, SignalsStayRight
  <2> QED BY <2>7, <2>8, <2>13
<1>3. CASE Has(p, s) /\ State(p, s) = "Discovering" /\ ~sessions[p][s].initiator
  <2>1. s \in DOMAIN sessions[p] /\ Signal(p, "UPGRADE_READY", s) /\ StartPunch(p, s)
    BY <1>3 DEF HandleProbeResult, Has
  <2> DEFINE new == [type |-> "UPGRADE_READY", session |-> s]
  <2>2. PICK rec \in SessionRecords : /\ Updated(p, s, rec) /\ rec.state = "Punching"
                                      /\ rec.initiator = sessions[p][s].initiator
    BY <2>1, Started
  <2>3. /\ threads' \in [Peers -> [Ids -> Threads]] /\ threads'[p][s].status # "none"
        /\ \A q \in Peers, x \in Ids : q # p \/ x # s => threads'[q][x] = threads[q][x]
    BY <2>1, Started
  <2>4. new \in Signals /\ new.type = "UPGRADE_READY" /\ new.session = s
    BY <2>1 DEF Signals, SessionsRight
  <2>5. chan' \in [Peers -> Seq(Signals)] /\ Moved(p, 0, new)
    BY <2>1, <2>4, SignalMoves
  <2>6. s \in DOMAIN proposer /\ proposer[s] # p
    BY SMTT(30), <1>3, <2>1 DEF SessionsRight
  <2> HIDE DEF new
  <2>7. /\ \A q \in Peers, x \in Ids : Fresh(q, x) => Fresh(q, x)'
        /\ SessionsRight' /\ NotYetAsked' /\ ToldWhenOver' /\ PunchAfterPeer'
    <3>1. /\ State(p, s) \in Waiting /\ rec.state # "Discovering" /\ rec.state \in Waiting
          /\ rec.initiator => sessions[p][s].initiator
      BY Zenon, <1>3, <2>2 DEF Waiting
    <3>2. /\ threads[p][s].status # "none" => threads'[p][s].status # "none"
          /\ threads'[p][s].status # "none" =>
               threads[p][s].status # "none" \/ threads[Other(p)][s].status # "none"
                 \/ proposer[s] # p
      BY Zenon, <2>3, <2>6
    <3>3. IF rec.state \in Waiting THEN UNCHANGED outcomes ELSE Tell(p, s, "failed")
      BY Zenon, <1>1, <3>1
    <3>4. /\ \A q \in Peers : probing'[q] \subseteq probing[q]
          /\ s \notin probing'[p] /\ UNCHANGED <<link_to_session, cooled, up, proposer>>
      BY Zenon, <1>1
    <3>5. Updated(p, s, rec) /\ s \in DOMAIN sessions[p] /\ HpInv
      BY Zenon, <2>1, <2>2
    <3>6. \A q \in Peers, x \in Ids : q # p \/ x # s => threads'[q][x] = threads[q][x]
      BY Zenon, <2>3
    <3> HIDE TwoPeers, Proposed DEF HpInv
    <3> QED BY <3>1, <3>2, <3>3, <3>4, <3>5, <3>6, AdvanceKeeps
  <2>8. HpTypes'
    BY ZenonT(40), <1>1, <2>2, <2>3, <2>5 DEF HpTypes, Updated
  <2>9. \A q \in Peers, x \in Ids : \A i \in DOMAIN chan[q] :
           chan[q][i] = [type |-> "UPGRADE_REQUEST", session |-> x] =>
             Fresh(q, x)' /\ x \notin probing'[Other(q)]
    BY <1>1, <2>7, Requested
  <2>10. \A q \in Peers, x \in Ids :
           threads[q][x].status # "none" => threads'[q][x].status # "none"
    BY <2>3
  <2>11. SignalsRight'
    BY ZenonT(40), <1>1, <2>3, <2>4, <2>5, <2>6, <2>8, <2>9, <2>10, SignalsStayRight
  <2> QED BY <2>7, <2>8, <2>11
<1>4. CASE ~(Has(p, s) /\ State(p, s) = "Discovering")
  <2>1. UNCHANGED <<sessions, chan, threads>>
    BY <1>4 DEF HandleProbeResult
  <2> QED BY ZenonT(40), <1>1, <2>1, FewerProbes
<1> QED BY <1>2, <1>3, <1>4

(* The state TickSessions gives the link's session. *)
Ticked(p, expired) ==
  LET s == link_to_session[p]
  IN  IF TimesOut(AfterPunch(p, s)) /\ expired THEN "Failed" ELSE AfterPunch(p, s)

LEMMA TickedState ==
  ASSUME HpTypes, NEW p \in Peers, Linked(p), NEW expired, NEW st, st = Ticked(p, expired),
         NEW was, was = State(p, link_to_session[p])
  PROVE  /\ st \in SessionStates
         /\ st # was => was \in Waiting /\ (st = "Failed" \/ (st = "Connected" /\ was = "Punching"))
<1>1. was \in SessionStates
  BY DEF HpTypes, Linked, Has, State, SessionRecords
<1> QED BY <1>1 DEF Ticked, AfterPunch, TimesOut, SessionStates, Waiting

(* The effect of a tick of p. *)
LEMMA TickEffect ==
  ASSUME HpInv, NEW p \in Peers, NEW ok, NEW expired, TickSessions(p, ok, expired),
         NEW s, s = link_to_session[p], NEW st, st = Ticked(p, expired)
  PROVE  /\ sessions' = [q \in Peers |-> sessions'[q]]
         /\ \A q \in Peers : sessions'[q] \in [DOMAIN sessions'[q] -> SessionRecords]
         /\ sessions'[Other(p)] = sessions[Other(p)]
         /\ DOMAIN sessions'[p] \subseteq DOMAIN sessions[p]
         /\ \A x \in DOMAIN sessions'[p] : x # s => sessions'[p][x] = sessions[p][x]
         /\ \A x \in DOMAIN sessions[p] \ {s} :
              x \notin DOMAIN sessions'[p] => State(p, x) = "Failed"
         /\ s \in DOMAIN sessions'[p] =>
              /\ sessions'[p][s].state = st /\ sessions'[p][s].initiator = sessions[p][s].initiator
         /\ s \in DOMAIN sessions[p] /\ s \notin DOMAIN sessions'[p] => st = "Failed"
         /\ \A x \in DOMAIN sessions'[p] : sessions'[p][x].state # "Failed"
         /\ s \notin DOMAIN sessions'[p] => link_to_session'[p] = 0
         /\ link_to_session' \in [Peers -> Nat] /\ link_to_session'[p] \in {s, 0}
         /\ link_to_session'[Other(p)] = link_to_session[Other(p)]
<1> USE TwoPeers, Proposed DEF HpInv
<1> DEFINE l == link_to_session[p]
           now == IF TimesOut(AfterPunch(p, l)) /\ expired THEN "Failed" ELSE AfterPunch(p, l)
           rec == [sessions[p][l] EXCEPT !.state = now, !.handle = @ /\ ~Finished(p, l)]
           after == IF Linked(p) THEN With(p, l, rec) ELSE sessions[p]
           left == {x \in DOMAIN after : after[x].state # "Failed"}
           table == [x \in left |-> after[x]]
<1>1. /\ sessions' = [sessions EXCEPT ![p] = table]
      /\ link_to_session' = [link_to_session EXCEPT ![p] = IF @ \in left THEN @ ELSE 0]
  BY Zenon DEF TickSessions
<1>1a. s = l /\ st = now
  BY DEF Ticked
<1> HIDE DEF l, now
<1> USE <1>1a
<1>2. Linked(p) => /\ s \in DOMAIN sessions[p] /\ rec \in SessionRecords /\ rec.state = st
                   /\ rec.initiator = sessions[p][s].initiator
  <2>1. Linked(p) => s \in DOMAIN sessions[p] /\ sessions[p][s] \in SessionRecords
    BY DEF Linked, Has, HpTypes
  <2>2. Linked(p) => st \in SessionStates
    BY Zenon, TickedState
  <2> QED BY Zenon, <2>1, <2>2 DEF SessionRecords
<1>3. ~Linked(p) => s \notin DOMAIN sessions[p]
  BY SMTT(30) DEF Linked, Has
<1> HIDE DEF rec
<1>4. /\ DOMAIN after = DOMAIN sessions[p]
      /\ \A x \in DOMAIN sessions[p] : x # s => after[x] = sessions[p][x]
      /\ s \in DOMAIN sessions[p] => after[s] = rec
  <2>1. CASE Linked(p)
    BY <1>2, <2>1 DEF With
  <2>2. CASE ~Linked(p)
    BY <1>3, <2>2
  <2> QED BY <2>1, <2>2
<1> HIDE DEF after
<1>5. \A x \in DOMAIN sessions[p] : after[x] \in SessionRecords
  <2>1. \A x \in DOMAIN sessions[p] : sessions[p][x] \in SessionRecords
    BY DEF HpTypes
  <2> QED BY <1>2, <1>3, <1>4, <2>1
<1>6. table \in [DOMAIN table -> SessionRecords] /\ DOMAIN table = left
  BY Zenon, <1>4, <1>5
<1>7. \A x \in left : table[x] = after[x]
  OBVIOUS
<1> HIDE DEF table
<1>8. /\ sessions' = [q \in Peers |-> sessions'[q]]
      /\ sessions'[p] = table /\ sessions'[Other(p)] = sessions[Other(p)]
      /\ \A q \in Peers : sessions'[q] \in [DOMAIN sessions'[q] -> SessionRecords]
  BY ZenonT(40), <1>1, <1>6, NewTable
<1>9. /\ DOMAIN sessions'[p] \subseteq DOMAIN sessions[p]
      /\ \A x \in DOMAIN sessions'[p] : x # s => sessions'[p][x] = sessions[p][x]
      /\ \A x \in DOMAIN sessions[p] \ {s} :
           x \notin DOMAIN sessions'[p] => State(p, x) = "Failed"
      /\ \A x \in DOMAIN sessions'[p] : sessions'[p][x].state # "Failed"
  BY <1>4, <1>6, <1>7, <1>8 DEF State
<1>10. /\ s \in DOMAIN sessions'[p] =>
            /\ sessions'[p][s].state = st /\ sessions'[p][s].initiator = sessions[p][s].initiator
       /\ s \in DOMAIN sessions[p] /\ s \notin DOMAIN sessions'[p] => st = "Failed"
  BY <1>2, <1>3, <1>4, <1>6, <1>7, <1>8
<1>11. /\ s \notin DOMAIN sessions'[p] => link_to_session'[p] = 0
       /\ link_to_session' \in [Peers -> Nat] /\ link_to_session'[p] \in {s, 0}
       /\ link_to_session'[Other(p)] = link_to_session[Other(p)]
  <2>1. link_to_session' = [link_to_session EXCEPT ![p] = IF s \in left THEN s ELSE 0]
    BY ZenonT(40), <1>1
  <2>2. link_to_session \in [Peers -> Nat] /\ s \in Nat
    BY DEF HpTypes, l
  <2>3. left = DOMAIN sessions'[p]
    BY <1>6, <1>8
  <2> HIDE DEF left
  <2> QED BY <2>1, <2>2, <2>3
<1> QED BY <1>8, <1>9, <1>10, <1>11

LEMMA TickOutcome ==
  ASSUME HpInv, NEW p \in Peers, NEW ok, NEW expired, TickSessions(p, ok, expired),
         NEW s, s = link_to_session[p], NEW st, st = Ticked(p, expired)
  PROVE  /\ outcomes' \in [Peers -> [Ids -> Seq({"established", "failed"})]]
         /\ \A q \in Peers, x \in Ids : q # p \/ x # s => outcomes'[q][x] = outcomes[q][x]
         /\ ~Linked(p) \/ st = State(p, s) => UNCHANGED outcomes
         /\ Linked(p) /\ st # State(p, s) => outcomes'[p][s] # <<>> /\ Len(outcomes'[p][s]) = 1
<1> USE TwoPeers, Proposed DEF HpInv
<1>1. CASE ~Linked(p) \/ st = State(p, s)
  BY Zenon, <1>1 DEF TickSessions, Ticked, HpTypes
<1>2. CASE Linked(p) /\ st # State(p, s)
  <2>1. s \in Ids /\ State(p, s) \in Waiting
    BY <1>2, TickedState DEF Linked, Has, SessionsRight
  <2>2. outcomes[p][s] = <<>>
    BY <1>2, <2>1 DEF ToldWhenOver, Linked, Has
  <2>3. PICK o \in {"established", "failed"} : Tell(p, s, o)
    BY Zenon, <1>2 DEF TickSessions, Ticked
  <2>4. outcomes' = [outcomes EXCEPT ![p][s] = <<o>>]
    BY <2>2, <2>3 DEF Tell
  <2>5. outcomes \in [Peers -> [Ids -> Seq({"established", "failed"})]]
    BY DEF HpTypes
  <2>6. outcomes'[p][s] = <<o>>
    BY <2>1, <2>4, <2>5
  <2>7. outcomes' \in [Peers -> [Ids -> Seq({"established", "failed"})]]
    BY <2>1, <2>4, <2>5
  <2>8. \A q \in Peers, x \in Ids : q # p \/ x # s => outcomes'[q][x] = outcomes[q][x]
    BY <2>1, <2>4, <2>5
  <2> QED BY <1>2, <2>6, <2>7, <2>8
<1> QED BY <1>1, <1>2

LEMMA TickSessionsInv ==
  ASSUME HpInv, NEW p \in Peers, NEW ok, NEW expired, TickSessions(p, ok, expired) PROVE HpInv'
<1> USE TwoPeers, Proposed DEF HpInv
<1> DEFINE s == link_to_session[p]
           st == Ticked(p, expired)
           was == State(p, s)
<1>1. /\ \A q \in Peers, x \in Ids : q # p \/ x # s => outcomes'[q][x] = outcomes[q][x]
      /\ Linked(p) /\ st # was => outcomes'[p][s] # <<>> /\ Len(outcomes'[p][s]) = 1
      /\ ~Linked(p) \/ st = was => UNCHANGED outcomes
  BY TickOutcome
<1>2. Linked(p) => /\ st \in SessionStates
                   /\ st # was =>
                        was \in Waiting /\ (st = "Failed" \/ (st = "Connected" /\ was = "Punching"))
  BY TickedState
<1>3. UNCHANGED <<cooled, chan, probing, threads, up, proposer>>
  BY Zenon DEF TickSessions
<1>4. /\ DOMAIN sessions'[p] \subseteq DOMAIN sessions[p]
      /\ \A x \in DOMAIN sessions'[p] : x # s => sessions'[p][x] = sessions[p][x]
      /\ \A x \in DOMAIN sessions[p] \ {s} :
           x \notin DOMAIN sessions'[p] => State(p, x) = "Failed"
      /\ s \in DOMAIN sessions'[p] =>
           /\ sessions'[p][s].state = st /\ sessions'[p][s].initiator = sessions[p][s].initiator
      /\ s \in DOMAIN sessions[p] /\ s \notin DOMAIN sessions'[p] => st = "Failed"
      /\ \A x \in DOMAIN sessions'[p] : sessions'[p][x].state # "Failed"
  BY TickEffect
<1>5. /\ sessions'[Other(p)] = sessions[Other(p)]
      /\ s \notin DOMAIN sessions'[p] => link_to_session'[p] = 0
      /\ link_to_session'[p] \in {s, 0} /\ link_to_session'[Other(p)] = link_to_session[Other(p)]
  BY ZenonT(40), TickEffect
<1>6. HpTypes'
  BY <1>3, TickEffect, TickOutcome DEF HpTypes
<1>7. Linked(p) <=> s \in DOMAIN sessions[p]
  BY Zenon DEF Linked, Has
<1> HIDE DEF s, st
<1>8. SessionsRight'
  <2> SUFFICES ASSUME NEW q \in Peers, NEW x \in DOMAIN sessions'[q]
               PROVE  /\ x \in DOMAIN proposer
                      /\ sessions'[q][x].initiator => proposer[x] = q
                      /\ sessions'[q][x].state = "Discovering" /\ ~sessions'[q][x].initiator
                           => proposer[x] = Other(q)
    BY ZenonT(40), <1>3 DEF SessionsRight, State
  <2>1. CASE q = Other(p)
    BY SMTT(30), <1>5, <2>1 DEF SessionsRight, State
  <2>2. CASE q = p /\ x # s
    BY <1>4, <2>2 DEF SessionsRight, State
  <2>3. CASE q = p /\ x = s
    <3>1. x \in DOMAIN sessions[p] /\ (st = "Discovering" => was = "Discovering")
      BY ZenonT(40), <1>2, <1>4, <1>7, <2>3
    <3> QED BY <1>4, <2>3, <3>1 DEF SessionsRight, State
  <2> QED BY Zenon, <2>1, <2>2, <2>3
<1>9. \A q \in Peers, x \in Ids : Fresh(q, x) => Fresh(q, x)'
  <2> SUFFICES ASSUME NEW q \in Peers, NEW x \in Ids, Fresh(q, x)
               PROVE  outcomes'[q][x] = <<>> /\ x \notin DOMAIN sessions'[q]
    BY Zenon, <1>3 DEF Fresh, Has
  <2>1. x \notin DOMAIN sessions'[q]
    BY Zenon, <1>4, <1>5 DEF Fresh, Has
  <2>2. outcomes'[q][x] = outcomes[q][x]
    BY <1>1, <1>7 DEF Fresh, Has
  <2> QED BY <2>1, <2>2 DEF Fresh
<1>10. SignalsRight'
  BY Zenon, <1>3, <1>6, <1>9, SendNothing
<1>11. NotYetAsked'
  <2>1. \A q \in Peers, x \in Ids : x \notin DOMAIN proposer => outcomes'[q][x] = <<>>
    <3>1. s \in DOMAIN sessions[p] => s \in DOMAIN proposer
      BY Zenon DEF SessionsRight
    <3> QED BY <1>1, <1>7, <3>1 DEF NotYetAsked
  <2>2. \A q \in Peers, x \in Ids :
          x \in DOMAIN proposer /\ proposer[x] = Other(q) /\ x \in probing[Other(q)] => Fresh(q, x)'
    BY Zenon, <1>9 DEF NotYetAsked
  <2> QED BY Zenon, <1>3, <2>1, <2>2 DEF NotYetAsked
<1>12. ToldWhenOver'
  <2> SUFFICES ASSUME NEW q \in Peers
               PROVE  /\ \A x \in Ids : Len(outcomes'[q][x]) <= 1
                      /\ \A x \in DOMAIN sessions'[q] :
                           /\ outcomes'[q][x] = <<>> <=> sessions'[q][x].state \in Waiting
                           /\ x \in probing[q] => sessions'[q][x].state = "Discovering"
                           /\ x = link_to_session'[q] /\ x \in cooled[q]
                                => sessions'[q][x].state \notin Waiting
                      /\ \A x \in DOMAIN proposer :
                           up[q] /\ proposer[x] = q /\ x \notin DOMAIN sessions'[q]
                             => outcomes'[q][x] # <<>>
    BY <1>3 DEF ToldWhenOver, State, Has
  <2>1. ASSUME NEW x \in Ids PROVE Len(outcomes'[q][x]) <= 1
    <3>1. Len(outcomes[q][x]) <= 1
      BY Zenon DEF ToldWhenOver
    <3>2. Len(outcomes'[q][x]) = Len(outcomes[q][x]) \/ Len(outcomes'[q][x]) = 1
      BY <1>1
    <3>3. Len(outcomes[q][x]) \in Nat /\ Len(outcomes'[q][x]) \in Nat
      BY SMTT(30), <1>6 DEF HpTypes
    <3> QED BY Zenon, <3>1, <3>2, <3>3, AtMostOne
  <2>2. ASSUME NEW x \in DOMAIN sessions'[q]
        PROVE  /\ outcomes'[q][x] = <<>> <=> sessions'[q][x].state \in Waiting
               /\ x \in probing[q] => sessions'[q][x].state = "Discovering"
               /\ x = link_to_session'[q] /\ x \in cooled[q] => sessions'[q][x].state \notin Waiting
    <3>0. x \in DOMAIN sessions[q] /\ x \in Ids /\ x # 0
      BY ZenonT(40), <1>4, <1>5 DEF SessionsRight
    <3>1. /\ outcomes[q][x] = <<>> <=> State(q, x) \in Waiting
          /\ x \in probing[q] => State(q, x) = "Discovering"
          /\ x = link_to_session[q] /\ x \in cooled[q] => State(q, x) \notin Waiting
      BY ZenonT(40), <3>0 DEF ToldWhenOver
    <3>2. CASE q = Other(p) \/ x # s
      BY SMTT(30), <1>1, <1>4, <1>5, <3>0, <3>1, <3>2 DEF State, s
    <3>3. CASE q = p /\ x = s
      <4>1. sessions'[q][x].state = st /\ State(q, x) = was /\ Linked(p) /\ x = link_to_session[q]
        BY <1>4, <1>7, <3>0, <3>3 DEF s
      <4>2. CASE st = was
        <5>1. outcomes'[q][x] = outcomes[q][x]
          BY Zenon, <1>1, <4>2
        <5> QED BY ZenonT(40), <3>1, <4>1, <4>2, <5>1
      <4>3. CASE st # was
        <5>1. outcomes'[q][x] # <<>>
          BY SMTT(30), <1>1, <3>3, <4>1, <4>3
        <5>2. st \notin Waiting /\ st # "Failed" => x \notin probing[q]
          BY Zenon, <1>2, <3>1, <4>1, <4>3
        <5>3. st \notin Waiting
          BY Zenon, <1>2, <4>1, <4>3 DEF Waiting
        <5>4. st # "Failed"
          BY Zenon, <1>4, <3>3, <4>1
        <5> QED BY Zenon, <4>1, <5>1, <5>2, <5>3, <5>4
      <4> QED BY Zenon, <4>2, <4>3
    <3> QED BY <3>2, <3>3
  <2>3. ASSUME NEW x \in DOMAIN proposer, up[q], proposer[x] = q, x \notin DOMAIN sessions'[q]
        PROVE  outcomes'[q][x] # <<>>
    <3>1. x \notin DOMAIN sessions[q] => outcomes[q][x] # <<>>
      BY Zenon, <2>3 DEF ToldWhenOver, Has
    <3>2. x \in DOMAIN sessions[q] => (outcomes[q][x] = <<>> <=> State(q, x) \in Waiting)
      BY Zenon DEF ToldWhenOver
    <3>3. CASE q = Other(p) \/ x # s
      <4>1. x \in DOMAIN sessions[q] => State(q, x) = "Failed"
        BY <1>4, <1>5, <2>3, <3>3
      <4>2. outcomes'[q][x] = outcomes[q][x]
        BY Zenon, <1>1, <3>3
      <4> QED BY ZenonT(40), <3>1, <3>2, <4>1, <4>2 DEF Waiting
    <3>4. CASE q = p /\ x = s
      BY ZenonT(40), <1>1, <1>2, <1>4, <1>7, <2>3, <3>1, <3>2, <3>4 DEF Waiting
    <3> QED BY <3>3, <3>4
  <2> QED BY Zenon, <2>1, <2>2, <2>3
<1>13. PunchAfterPeer'
  BY <1>3 DEF PunchAfterPeer
<1> QED BY Zenon, <1>6, <1>8, <1>10, <1>11, <1>12, <1>13

LEMMA HpInductive == HpInv /\ [HpNext]_hpvars => HpInv'
<1> SUFFICES ASSUME HpInv, [HpNext]_hpvars PROVE HpInv'
  OBVIOUS
<1>1. CASE UNCHANGED hpvars
  <2>1. /\ UNCHANGED sessions /\ UNCHANGED link_to_session /\ UNCHANGED cooled
        /\ UNCHANGED outcomes /\ UNCHANGED chan /\ UNCHANGED probing
        /\ UNCHANGED threads /\ UNCHANGED up /\ UNCHANGED proposer
    BY <1>1 DEF hpvars, mgrvars
  <2>2. HpTypes' /\ PunchAfterPeer'
    BY Zenon, <2>1 DEF HpInv, HpTypes, PunchAfterPeer
  <2>3. SessionsRight'
    BY ZenonT(40), <2>1 DEF HpInv, SessionsRight, State
  <2>4. SignalsRight' /\ NotYetAsked'
    BY SMTT(30), <2>1 DEF HpInv, SignalsRight, NotYetAsked, Fresh, Has
  <2>5. ToldWhenOver'
    BY <2>1 DEF HpInv, ToldWhenOver, Has, State
  <2> QED BY <2>2, <2>3, <2>4, <2>5 DEF HpInv
<1>2. CASE HpNext
  <2> SUFFICES ASSUME NEW p \in Peers,
                      \/ Propose(p) \/ CooldownPasses(p) \/ LinkClosed(p) \/ AbortAllSessions(p)
                      \/ \E ok, expired \in BOOLEAN : TickSessions(p, ok, expired)
                      \/ \E s \in Ids : \/ HandleSignal(p, s) \/ ProbeEnds(p, s)
                                        \/ ReceivePunch(p, s) \/ ReceiveAck(p, s) \/ PunchEnds(p, s)
               PROVE  HpInv'
    BY <1>2 DEF HpNext
  <2>1. CASE Propose(p) \/ CooldownPasses(p) \/ LinkClosed(p) \/ AbortAllSessions(p)
    BY <2>1, ProposeInv, CooldownPassesInv, LinkClosedInv, AbortAllSessionsInv
  <2>2. ASSUME NEW ok \in BOOLEAN, NEW expired \in BOOLEAN, TickSessions(p, ok, expired)
        PROVE  HpInv'
    BY <2>2, TickSessionsInv
  <2>3. ASSUME NEW s \in Ids, HandleSignal(p, s) PROVE HpInv'
    BY <2>3, HandleUpgradeRequestInv, RejectUpgradeRequestInv, HandleUpgradeAcceptInv,
       HandleUpgradeRejectInv, HandleUpgradeReadyInv DEF HandleSignal
  <2>4. ASSUME NEW s \in Ids, ProbeEnds(p, s) PROVE HpInv'
    BY <2>4, HandleProbeResultInv, HandleProbeFailedInv DEF ProbeEnds
  <2>5. ASSUME NEW s \in Ids, ReceivePunch(p, s) \/ ReceiveAck(p, s) \/ PunchEnds(p, s) PROVE HpInv'
    BY <2>5, ReceivePunchInv, ReceiveAckInv, PunchEndsInv
  <2> QED BY <2>1, <2>2, <2>3, <2>4, <2>5
<1> QED BY <1>1, <1>2

(* The inductive invariant of the upgrade holds throughout. *)
THEOREM HpAlways == HpSpec => []HpInv
  BY InitHpInv, HpInductive, PTL DEF HpSpec

(* PunchAfterPeer, for every number of sessions. *)
THEOREM PunchesAfterPeer == HpSpec => []PunchAfterPeer
<1>1. HpInv => PunchAfterPeer
  BY DEF HpInv
<1> QED BY <1>1, HpAlways, PTL

(* OneOutcome, for every number of sessions. *)
THEOREM HearsOneOutcome == HpSpec => []OneOutcome
<1>1. HpInv => OneOutcome
  BY DEF HpInv, ToldWhenOver, OneOutcome, Linked, Has
<1> QED BY <1>1, HpAlways, PTL
=============================================================================
