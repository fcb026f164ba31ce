------------------------------ MODULE HolePunch ------------------------------
(***************************************************************************)
(* The upgrade of a link to a direct UDP connection: the HolePunchManager   *)
(* and HolePunchEngine of the two peers of one link, the probe workers and  *)
(* punch threads they start, the signals they exchange over the link's      *)
(* channel, and the punch and acknowledgement datagrams.                    *)
(*                                                                          *)
(* A session id stands for the random id of a proposal, fresh each time,    *)
(* and for the punch token derived from it.  Signals arrive in order or, if *)
(* the channel's window is full when they are sent, never; datagrams arrive *)
(* in any order, late, repeatedly or never.                                 *)
(*                                                                          *)
(* The timeouts of the engine (10 s in each state) and of the punch thread  *)
(* are not measured: any waiting session may be found expired at a tick.    *)
(* The cooldown of 60 s is longer than the four timeouts of a session       *)
(* together, so that it cannot pass while the session is still waiting.     *)
(*                                                                          *)
(* Left out: handle_upgrade_complete, since no code sends UPGRADE_COMPLETE; *)
(* proposals that fail, as all do on a node without a probe server (and     *)
(* drop the link's older session); and the close that is reported while the *)
(* link lasts, when its channel gives up.                                   *)
(***************************************************************************)
EXTENDS Integers, Sequences

CONSTANTS
  MaxSessions,      \* bound: proposals made, by both peers together
  Proposers,        \* the peers whose application proposes upgrades
  MayReject,        \* the peers whose policy may be Reject
  ChannelRefuses,   \* whether a signal may meet a full channel window
  ThreadsFail,      \* whether a punch thread may fail to start
  CloseBefore       \* bound: the link may close while fewer sessions were made

Peers == {"a", "b"}
Other(p) == IF p = "a" THEN "b" ELSE "a"
Ids == 1..MaxSessions

ASSUME HolePunchAssumption ==
  /\ MaxSessions \in Nat \ {0}
  /\ Proposers \subseteq Peers /\ MayReject \subseteq Peers
  /\ {ChannelRefuses, ThreadsFail} \subseteq BOOLEAN /\ CloseBefore \in Nat

VARIABLES
  sessions,         \* of each peer: session id -> engine state, role, punch
                    \* handle held
  link_to_session,  \* of each peer: the link's session, 0 for none
  cooled,           \* of each peer: sessions made more than 60 s ago
  chan,             \* signals on their way to each peer
  probing,          \* of each peer: sessions with a probe worker
  threads,          \* of each peer: session id -> punch thread
  acks,             \* acknowledgements on their way to each peer
  up,               \* whether each peer still has the link
  proposer,         \* session id -> the peer that proposed it
  outcomes          \* of each peer: session id -> what its application heard

mgrvars == <<sessions, link_to_session, cooled, outcomes>>
hpvars == <<mgrvars, chan, probing, threads, acks, up, proposer>>

Waiting == {"Discovering", "Proposing", "WaitingReady", "Punching"}
NoThread == [status |-> "none", we_got_ack |-> FALSE, they_got_ack |-> FALSE]

Has(p, s) == s \in DOMAIN sessions[p]
State(p, s) == sessions[p][s].state
Linked(p) == Has(p, link_to_session[p])

-----------------------------------------------------------------------------
(* send_channel_message for a signal; an error is dropped by the driver. *)
Signal(p, type, s) ==
  \/ /\ up[p]
     /\ chan' = [chan EXCEPT ![Other(p)] = Append(@, [type |-> type, session |-> s])]
  \/ (ChannelRefuses \/ ~up[p]) /\ UNCHANGED chan

(* The engine of session s goes to a state. *)
Enter(p, s, st) == sessions' = [sessions EXCEPT ![p][s].state = st]

(* on_direct_connect_established, on_direct_connect_failed *)
Tell(p, s, outcome) == outcomes' = [outcomes EXCEPT ![p][s] = Append(@, outcome)]

NewSession(initiator) ==
  [state |-> "Discovering", initiator |-> initiator, handle |-> FALSE]

(* The sessions of p with one more, or a fresh one in place of s. *)
With(p, s, rec) ==
  [x \in DOMAIN sessions[p] \cup {s} |-> IF x = s THEN rec ELSE sessions[p][x]]

Without(p, s) == [x \in DOMAIN sessions[p] \ {s} |-> sessions[p][x]]

(* The session's engine punches and its thread is started, on the socket of   *)
(* the probe.  The thread may fail to start, because the peer's endpoint is   *)
(* no address or the system refuses: the engine is left punching all the      *)
(* same, and the peer is told nothing.                                        *)
StartPunch(p, s) ==
  \/ /\ sessions' = [sessions EXCEPT ![p][s].state = "Punching", ![p][s].handle = TRUE]
     /\ threads' = [threads EXCEPT ![p][s] = [NoThread EXCEPT !.status = "running"]]
  \/ /\ ThreadsFail
     /\ Enter(p, s, "Punching")
     /\ threads' = [threads EXCEPT ![p][s] = [NoThread EXCEPT !.status = "unstarted"]]

-----------------------------------------------------------------------------
(* propose: rate limited by the session the link has; an older session of the *)
(* link is dropped, its threads run on.                                       *)
Propose(p) ==
  LET s == Len(proposer) + 1
  IN  /\ p \in Proposers /\ up[p] /\ s \in Ids
      /\ Linked(p) => link_to_session[p] \in cooled[p]
      /\ proposer' = Append(proposer, p)
      /\ sessions' = [sessions EXCEPT ![p] =
           [x \in (DOMAIN @ \ {link_to_session[p]}) \cup {s} |->
              IF x = s THEN NewSession(TRUE) ELSE sessions[p][x]]]
      /\ link_to_session' = [link_to_session EXCEPT ![p] = s]
      /\ probing' = [probing EXCEPT ![p] = @ \cup {s}]
      /\ UNCHANGED <<cooled, chan, threads, acks, up, outcomes>>

(* The next signal for p. *)
Received(p, type, s) ==
  /\ up[p] /\ chan[p] # <<>>
  /\ Head(chan[p]) = [type |-> type, session |-> s]

(* chan without the signal p takes, and with its answer if there is one. *)
Reply(p, type, s) ==
  \/ chan' = [chan EXCEPT ![p] = Tail(@),
                          ![Other(p)] = Append(@, [type |-> type, session |-> s])]
  \/ ChannelRefuses /\ chan' = [chan EXCEPT ![p] = Tail(@)]
NoReply(p) == chan' = [chan EXCEPT ![p] = Tail(@)]

(* handle_signal, UPGRADE_REQUEST: an engine is made for the new session      *)
(* whatever session the link has already; that one is left in the table.      *)
HandleUpgradeRequest(p, s) ==
  /\ Received(p, "UPGRADE_REQUEST", s)
  /\ Reply(p, "UPGRADE_ACCEPT", s)
  /\ sessions' = [sessions EXCEPT ![p] = With(p, s, NewSession(FALSE))]
  /\ link_to_session' = [link_to_session EXCEPT ![p] = s]
  /\ probing' = [probing EXCEPT ![p] = @ \cup {s}]
  /\ UNCHANGED <<cooled, threads, acks, up, proposer, outcomes>>

(* handle_signal, UPGRADE_REQUEST under the policy Reject *)
RejectUpgradeRequest(p, s) ==
  /\ p \in MayReject
  /\ Received(p, "UPGRADE_REQUEST", s)
  /\ Reply(p, "UPGRADE_REJECT", s)
  /\ UNCHANGED <<mgrvars, probing, threads, acks, up, proposer>>

(* The engine of the link's session waits, as initiator, for this signal. *)
Expects(p, s, st) ==
  /\ link_to_session[p] = s /\ Has(p, s)
  /\ State(p, s) = st /\ sessions[p][s].initiator

(* handle_upgrade_accept *)
HandleUpgradeAccept(p, s) ==
  /\ Received(p, "UPGRADE_ACCEPT", s) /\ NoReply(p)
  /\ IF Expects(p, s, "Proposing") THEN Enter(p, s, "WaitingReady") ELSE UNCHANGED sessions
  /\ UNCHANGED <<link_to_session, cooled, outcomes, probing, threads, acks, up, proposer>>

(* handle_upgrade_reject *)
HandleUpgradeReject(p, s) ==
  /\ Received(p, "UPGRADE_REJECT", s) /\ NoReply(p)
  /\ IF Expects(p, s, "Proposing") THEN Enter(p, s, "Failed") /\ Tell(p, s, "failed")
                                   ELSE UNCHANGED <<sessions, outcomes>>
  /\ UNCHANGED <<link_to_session, cooled, probing, threads, acks, up, proposer>>

(* Mutant of HandleUpgradeReady: the session id of the signal is not compared. *)
HandleUpgradeReadyAnySession(p, s) ==
  /\ Received(p, "UPGRADE_READY", s) /\ NoReply(p)
  /\ IF Linked(p) /\ Expects(p, link_to_session[p], "WaitingReady")
       THEN StartPunch(p, link_to_session[p]) ELSE UNCHANGED <<sessions, threads>>
  /\ UNCHANGED <<link_to_session, cooled, outcomes, probing, acks, up, proposer>>

(* handle_upgrade_ready: the initiator punches. *)
HandleUpgradeReady(p, s) ==
  /\ Received(p, "UPGRADE_READY", s) /\ NoReply(p)
  /\ IF Expects(p, s, "WaitingReady") THEN StartPunch(p, s) ELSE UNCHANGED <<sessions, threads>>
  /\ UNCHANGED <<link_to_session, cooled, outcomes, probing, acks, up, proposer>>

-----------------------------------------------------------------------------
(* handle_probe_result: the initiator sends its request, the responder its    *)
(* address, and punches at once.                                              *)
HandleProbeResult(p, s) ==
  /\ s \in probing[p] /\ probing' = [probing EXCEPT ![p] = @ \ {s}]
  /\ IF Has(p, s) /\ State(p, s) = "Discovering"
       THEN \/ /\ sessions[p][s].initiator
               /\ Enter(p, s, "Proposing")
               /\ Signal(p, "UPGRADE_REQUEST", s)
               /\ UNCHANGED threads
            \/ /\ ~sessions[p][s].initiator
               /\ Signal(p, "UPGRADE_READY", s)
               /\ StartPunch(p, s)
       ELSE UNCHANGED <<sessions, chan, threads>>
  /\ UNCHANGED <<link_to_session, cooled, outcomes, acks, up, proposer>>

(* Mutant of HandleProbeFailed: the engine is not reset. *)
HandleProbeFailedNoReset(p, s) ==
  /\ s \in probing[p] /\ probing' = [probing EXCEPT ![p] = @ \ {s}]
  /\ IF Has(p, s) THEN Tell(p, s, "failed") ELSE UNCHANGED outcomes
  /\ UNCHANGED <<sessions, link_to_session, cooled, chan, threads, acks, up, proposer>>

(* handle_probe_failed: the engine is reset to Idle, in a session that stays  *)
(* in the table; the peer is told nothing.                                    *)
HandleProbeFailed(p, s) ==
  /\ s \in probing[p] /\ probing' = [probing EXCEPT ![p] = @ \ {s}]
  /\ IF Has(p, s)
       THEN /\ sessions' = [sessions EXCEPT ![p][s].state = "Idle", ![p][s].initiator = FALSE]
            /\ Tell(p, s, "failed")
       ELSE UNCHANGED <<sessions, outcomes>>
  /\ UNCHANGED <<link_to_session, cooled, chan, threads, acks, up, proposer>>

(* run_udp_punch: a valid punch of the peer is acknowledged, and a thread     *)
(* that has acknowledged and was acknowledged is done.                        *)
Punched(p, s, thread) ==
  threads' = [threads EXCEPT ![p][s] =
    IF thread.we_got_ack /\ thread.they_got_ack
      THEN [thread EXCEPT !.status = "succeeded"] ELSE thread]

ReceivePunch(p, s) ==
  /\ threads[p][s].status = "running" /\ threads[Other(p)][s].status \notin {"none", "unstarted"}
  /\ Punched(p, s, [threads[p][s] EXCEPT !.they_got_ack = TRUE])
  /\ acks' = [acks EXCEPT ![Other(p)] = @ \cup {s}]
  /\ UNCHANGED <<mgrvars, chan, probing, up, proposer>>

ReceiveAck(p, s) ==
  /\ threads[p][s].status = "running" /\ s \in acks[p]
  /\ Punched(p, s, [threads[p][s] EXCEPT !.we_got_ack = TRUE])
  /\ UNCHANGED <<mgrvars, chan, probing, acks, up, proposer>>

(* The thread's ten seconds are over, or it finds itself cancelled. *)
PunchEnds(p, s) ==
  /\ threads[p][s].status = "running"
  /\ threads' = [threads EXCEPT ![p][s].status = "failed"]
  /\ UNCHANGED <<mgrvars, chan, probing, acks, up, proposer>>

-----------------------------------------------------------------------------
(* tick, first half: the result of a finished punch thread.  An interface     *)
(* that cannot be started (~ok) leaves the engine connected all the same.     *)
Finished(p, s) == sessions[p][s].handle /\ threads[p][s].status # "running"

AfterPunch(p, s) ==
  IF Finished(p, s) /\ State(p, s) = "Punching"
    THEN IF threads[p][s].status = "succeeded" THEN "Connected" ELSE "Failed"
    ELSE State(p, s)

(* HolePunchEngine::tick: the states that time out. *)
TimesOut(st) == st \in Waiting

(* tick: of the waiting sessions only the one the link names is looked at.    *)
(* Its finished thread is reaped, then its engine may time out; every failed  *)
(* session is removed.                                                        *)
TickSessions(p, ok, expired) ==
  LET s      == link_to_session[p]
      st     == IF TimesOut(AfterPunch(p, s)) /\ expired THEN "Failed" ELSE AfterPunch(p, s)
      after  == IF Linked(p) THEN With(p, s, [sessions[p][s] EXCEPT
                                                !.state = st, !.handle = @ /\ ~Finished(p, s)])
                ELSE sessions[p]
      left   == {x \in DOMAIN after : after[x].state # "Failed"}
  IN  /\ sessions' = [sessions EXCEPT ![p] = [x \in left |-> after[x]]]
      /\ link_to_session' = [link_to_session EXCEPT ![p] = IF @ \in left THEN @ ELSE 0]
      /\ IF ~Linked(p) \/ st = State(p, s) THEN UNCHANGED outcomes
         ELSE Tell(p, s, IF st = "Connected" /\ ok THEN "established" ELSE "failed")
      /\ UNCHANGED <<cooled, chan, probing, threads, acks, up, proposer>>

(* Sixty seconds without a new session, at a peer that is not waiting. *)
CooldownPasses(p) ==
  /\ Linked(p) => State(p, link_to_session[p]) \notin Waiting
  /\ cooled[p] # DOMAIN sessions[p]
  /\ cooled' = [cooled EXCEPT ![p] = DOMAIN sessions[p]]
  /\ UNCHANGED <<sessions, link_to_session, outcomes, chan, probing, threads, acks, up, proposer>>

(* link_closed *)
LinkClosed(p) ==
  /\ Len(proposer) < CloseBefore /\ up[p] /\ up' = [up EXCEPT ![p] = FALSE]
  /\ sessions' = [sessions EXCEPT ![p] = Without(p, link_to_session[p])]
  /\ link_to_session' = [link_to_session EXCEPT ![p] = 0]
  /\ UNCHANGED <<cooled, outcomes, chan, probing, threads, acks, proposer>>

(* abort_all_sessions, when a stopping node has torn its links down *)
AbortAllSessions(p) ==
  /\ Len(proposer) < CloseBefore /\ up[p] /\ up' = [up EXCEPT ![p] = FALSE]
  /\ sessions' = [sessions EXCEPT ![p] = [s \in {} |-> 0]]
  /\ link_to_session' = [link_to_session EXCEPT ![p] = 0]
  /\ UNCHANGED <<cooled, outcomes, chan, probing, threads, acks, proposer>>

-----------------------------------------------------------------------------
HpInit ==
  /\ sessions = [p \in Peers |-> [s \in {} |-> 0]]
  /\ link_to_session = [p \in Peers |-> 0]
  /\ cooled = [p \in Peers |-> {}] /\ probing = cooled /\ acks = cooled
  /\ chan = [p \in Peers |-> <<>>]
  /\ threads = [p \in Peers |-> [s \in Ids |-> NoThread]]
  /\ up = [p \in Peers |-> TRUE]
  /\ proposer = <<>>
  /\ outcomes = [p \in Peers |-> [s \in Ids |-> <<>>]]

HandleSignal(p, s) ==
  \/ HandleUpgradeRequest(p, s) \/ RejectUpgradeRequest(p, s) \/ HandleUpgradeAccept(p, s)
  \/ HandleUpgradeReject(p, s) \/ HandleUpgradeReady(p, s)

ProbeEnds(p, s) == HandleProbeResult(p, s) \/ HandleProbeFailed(p, s)

HpNext ==
  \E p \in Peers :
    \/ Propose(p) \/ CooldownPasses(p) \/ LinkClosed(p) \/ AbortAllSessions(p)
    \/ \E ok, expired \in BOOLEAN : TickSessions(p, ok, expired)
    \/ \E s \in Ids : \/ HandleSignal(p, s) \/ ProbeEnds(p, s)
                      \/ ReceivePunch(p, s) \/ ReceiveAck(p, s) \/ PunchEnds(p, s)

HpSpec == HpInit /\ [][HpNext]_hpvars

(* The driver ticks for ever, so that every timeout is found to have passed:  *)
(* weak fairness of TickSessions(p, ok, TRUE) where it has something to       *)
(* change in the link's session.                                              *)
HpDue(p) ==
  /\ Linked(p)
  /\ LET st == AfterPunch(p, link_to_session[p])
     IN  TimesOut(st) \/ st # State(p, link_to_session[p])

TimeoutNoticed(p) == HpDue(p) /\ \E ok \in BOOLEAN : TickSessions(p, ok, TRUE)

HpFairSpec == HpSpec /\ \A p \in Peers : WF_hpvars(TimeoutNoticed(p))

-----------------------------------------------------------------------------
(* The initiator turns to punching in a session only when the responder has:  *)
(* the READY of an older session, sent late by a responder that has gone on   *)
(* to a new one, does not start it against a peer that is still probing.      *)
(* (The responder's own thread may have failed to start, and its READY goes   *)
(* out all the same.)                                                         *)
PunchAfterPeer ==
  \A s \in DOMAIN proposer :
    threads[proposer[s]][s].status # "none" => threads[Other(proposer[s])][s].status # "none"

(* The application of a peer hears one outcome for each session of its link,  *)
(* when the session stops waiting and not before; a session it proposed is    *)
(* not forgotten without one while the link lasts.                            *)
OneOutcome ==
  \A p \in Peers :
    /\ \A s \in Ids : Len(outcomes[p][s]) <= 1
    /\ Linked(p) => LET s == link_to_session[p]
                    IN  outcomes[p][s] = <<>> <=> State(p, s) \in Waiting
    /\ \A s \in DOMAIN proposer :
         up[p] /\ proposer[s] = p /\ ~Has(p, s) => outcomes[p][s] # <<>>

(* The link's session waits: it is to connect, fail, be displaced by the      *)
(* peer's, or be dropped, whatever is lost or refused.                        *)
LinkWaits(p, s) == Linked(p) /\ link_to_session[p] = s /\ State(p, s) \in Waiting

(* Every session stops waiting: it connects, fails or is dropped. *)
SessionsEnd ==
  \A p \in Peers, s \in Ids :
    (Has(p, s) /\ State(p, s) \in Waiting) ~> ~(Has(p, s) /\ State(p, s) \in Waiting)
=============================================================================
