------------------------------- MODULE MCDaemon -------------------------------
(***************************************************************************)
(* Three parts of a running node that share no state, in one model: the     *)
(* upgrade of a link to a direct connection, the supervisor with rnsd, and  *)
(* the provider bridge.  part says which of them a behaviour is about.      *)
(***************************************************************************)
EXTENDS HolePunch, Supervisor, ProviderBridge

VARIABLE part

allvars == <<part, hpvars, supvars, bvars>>

MCInit ==
  /\ part \in {"upgrade", "supervisor", "bridge"}
  /\ HpInit /\ SupInit /\ BridgeInit
  /\ part # "supervisor" => script = <<>>
  /\ part # "bridge" => overflow_policy = "DropOldest"

(* The peers of an upgrade are alike: the one that proposes first is called a. *)
MCNext ==
  \/ part = "upgrade" /\ HpNext /\ (proposer' # <<>> => proposer'[1] = "a")
       /\ UNCHANGED <<part, supvars, bvars>>
  \/ part = "supervisor" /\ SupNext /\ UNCHANGED <<part, hpvars, bvars>>
  \/ part = "bridge" /\ BridgeNext /\ UNCHANGED <<part, hpvars, supvars>>

(* The fairness of the parts.  Since only one of them does anything, an       *)
(* action of each may share a condition, which says without ENABLED that the  *)
(* action is weakly fair.                                                     *)
StepDue ==
  CASE part = "upgrade" -> HpDue("a")
    [] part = "supervisor" -> SupervisorDue
    [] part = "bridge" -> ThreadsDue
Step ==
  CASE part = "upgrade" -> \E ok \in BOOLEAN : TickSessions("a", ok, TRUE)
    [] part = "supervisor" -> SupervisorStep
    [] part = "bridge" -> ThreadsStep
OtherDue == CASE part = "upgrade" -> HpDue("b") [] part = "supervisor" -> TimeDue [] OTHER -> FALSE
OtherStep ==
  CASE part = "upgrade" -> \E ok \in BOOLEAN : TickSessions("b", ok, TRUE)
    [] part = "supervisor" -> TimeGoesBy
    [] OTHER -> FALSE
MCFairness ==
  /\ []<>(~StepDue) \/ []<><<Step>>_allvars
  /\ []<>(~OtherDue) \/ []<><<OtherStep>>_allvars

MCSpec == MCInit /\ [][MCNext]_allvars /\ MCFairness

UpgradeSpec ==
  part = "upgrade" /\ MCInit /\ [][MCNext]_allvars /\ \A p \in Peers : WF_hpvars(TimeoutNoticed(p))

(* What was asked to end ends, whatever fails meanwhile, and never stays      *)
(* unended: the session a link names, a supervisor that got a signal, a       *)
(* bridge that is being dropped.                                              *)
Unended(p, s) ==
  CASE part = "upgrade" -> LinkWaits(p, s)
    [] part = "supervisor" -> signalled /\ ~Ended
    [] part = "bridge" -> dropping \in {"listener", "consumers"}
Ends == \A p \in Peers, s \in Ids : []<>(~Unended(p, s))

MCSpecs == <<"rnsd", "statsd">>
Do(kind, role) == [kind |-> kind, role |-> role]
MCScripts ==
  {<<>>, <<Do("stop", "statsd"), Do("start", "statsd")>>, <<Do("restart", "rnsd"), Do("restart", "statsd")>>,
   <<Do("stop", "rnsd"), Do("restart", "other")>>}
MCSize == [e \in Events |-> IF e = 3 THEN 2 ELSE 1]
=============================================================================
