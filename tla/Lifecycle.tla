------------------------------ MODULE Lifecycle ------------------------------
(***************************************************************************)
(* How the driver of a node drains and stops                                *)
(* (rns-net/src/driver/lifecycle.rs), and which events it refuses           *)
(* meanwhile (driver/events.rs).                                            *)
(*                                                                          *)
(* work says what drain_status still counts: "open" are the links, with the  *)
(* resource transfers and hole-punch sessions on them, "queued" the frames   *)
(* in interface writers and the events for hook providers.                   *)
(***************************************************************************)
EXTENDS Naturals

CONSTANTS DrainTimeout,     \* the timeout of BeginDrain, in units of time
          WorkKinds         \* the kinds of work followed

ASSUME DrainAssumption == DrainTimeout \in Nat /\ WorkKinds \subseteq {"open", "queued"}

LifecycleStates == {"active", "draining", "stopping", "stopped"}

VARIABLES lifecycle_state, drain_left, work

drivervars == <<lifecycle_state, drain_left, work>>

NoDeadline == DrainTimeout + 1

NewDriver == lifecycle_state = "active" /\ drain_left = NoDeadline /\ work = {}

StartDriver == lifecycle_state' = "active" /\ drain_left' = NoDeadline /\ work' = {}

is_draining == lifecycle_state = "draining"

(* Event::CreateLink, SendRequest, SendResource, ProposeDirectConnect,        *)
(* SendOutbound and others: each is refused while the node drains.            *)
Admits == ~is_draining /\ lifecycle_state # "stopped"
Admit ==
  /\ Admits
  /\ \E k \in WorkKinds : work' = work \cup {k}
  /\ UNCHANGED <<lifecycle_state, drain_left>>

(* What a peer or a hook starts is not refused: a link request that arrives   *)
(* on an interface that is up, a frame to forward, an event to emit.          *)
Arrive ==
  /\ lifecycle_state # "stopped"
  /\ \E k \in WorkKinds : work' = work \cup {k}
  /\ UNCHANGED <<lifecycle_state, drain_left>>

Finish ==
  /\ \E k \in work : work' = work \ {k}
  /\ UNCHANGED <<lifecycle_state, drain_left>>

begin_drain ==
  /\ IF lifecycle_state \in {"active", "draining"}
     THEN lifecycle_state' = "draining" /\ drain_left' = DrainTimeout
     ELSE UNCHANGED <<lifecycle_state, drain_left>>
  /\ UNCHANGED work

(* cancel_all_resources, teardown_all_links, the tick of the link manager and *)
(* abort_all_sessions end what is open, and may queue frames that tell peers. *)
TornDown == {work \ {"open"}, {"queued"} \cap WorkKinds}

enforce_drain_deadline ==
  /\ is_draining /\ drain_left = 0
  /\ lifecycle_state' = "stopping"
  /\ work' \in TornDown
  /\ UNCHANGED drain_left

(* The writers get DEFAULT_LINK_TEARDOWN_FLUSH to send the frames queued, and *)
(* may not send them all.                                                     *)
graceful_shutdown ==
  /\ lifecycle_state # "stopped"
  /\ lifecycle_state' = "stopped"
  /\ work' \in TornDown \cup {{}}
  /\ UNCHANGED drain_left

drain_complete == is_draining => work = {}

(* drain_complete_for_shutdown, of the status the supervisor reads *)
CompleteForShutdown == drain_complete \/ drain_left = 0

DriverStep == Admit \/ Arrive \/ Finish \/ enforce_drain_deadline
=============================================================================
