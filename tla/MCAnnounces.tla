---------------------------- MODULE MCAnnounces -----------------------------
(***************************************************************************)
(* What a transport node keeps for announces and packets, table by table:   *)
(* part says which of them a behaviour is about, and the others stay as     *)
(* they are.                                                                *)
(***************************************************************************)
EXTENDS AnnounceQueue, PathRequests, VerifyQueue, IngressControl, RateLimit, PacketHashlist, ChannelRing

(* Selected is what a filter leaves, here of up to five places. *)
ASSUME SelectionFilters ==
  \A n \in 0..5 : \A keep \in SUBSET (1..n) :
    LET places == [k \in 1..n |-> k]
    IN  Selected(places, keep) = SelectSeq(places, LAMBDA k : k \in keep)

VARIABLE part

Parts == {"queue", "requests", "verify", "ingress", "rate", "hashlist", "ring"}

allvars == <<part, vars, prvars, vqvars, icvars, rlvars, hashlistvars, ringvars>>

MCInit ==
  /\ part \in Parts
  /\ Init /\ PrInit /\ VqInit /\ IcInit /\ RlInit /\ HashlistInit /\ RInit
  /\ part # "verify" => overflow_policy = "DropWorst"
  /\ part # "ingress" => ia_freq = "below" /\ pr_freq = "below"
  /\ part # "hashlist" => \A h \in Hashes : home[h] = 2

MCNext ==
  /\ UNCHANGED part
  /\ \/ part = "queue" /\ Next /\ UNCHANGED <<prvars, vqvars, icvars, rlvars, hashlistvars, ringvars>>
     \/ part = "requests" /\ PrNext /\ UNCHANGED <<vars, vqvars, icvars, rlvars, hashlistvars, ringvars>>
     \/ part = "verify" /\ VqNext /\ UNCHANGED <<vars, prvars, icvars, rlvars, hashlistvars, ringvars>>
     \/ part = "ingress" /\ IcNext /\ UNCHANGED <<vars, prvars, vqvars, rlvars, hashlistvars, ringvars>>
     \/ part = "rate" /\ RlNext /\ UNCHANGED <<vars, prvars, vqvars, icvars, hashlistvars, ringvars>>
     \/ part = "hashlist" /\ HashlistNext /\ UNCHANGED <<vars, prvars, vqvars, icvars, rlvars, ringvars>>
     \/ part = "ring" /\ RNext /\ UNCHANGED <<vars, prvars, vqvars, icvars, rlvars, hashlistvars>>

(* The fairness of each table; that of a table which stays empty holds.       *)
(* Since only one table is not empty this is, with fewer alternatives for TLC *)
(* to combine, Fairness /\ PrFairness /\ VqFairness /\ IcFairness.             *)
StepDue ==
  CASE part = "queue" -> TickDue
    [] part = "requests" -> TransmitDue
    [] part = "verify" -> ThreadDue
    [] part = "ingress" -> ReleaseGuard
    [] OTHER -> FALSE
Step ==
  CASE part = "queue" -> TickStep
    [] part = "requests" -> TransmitStep
    [] part = "verify" -> ThreadStep
    [] part = "ingress" -> Release
    [] OTHER -> FALSE
ClockDue == CASE part = "queue" -> TimeDue [] part = "ingress" -> release_left > 0 [] OTHER -> FALSE
ClockStep == CASE part = "queue" -> TimePasses [] part = "ingress" -> PassTime [] OTHER -> FALSE

MCFairness ==
  /\ []<>(~StepDue) \/ []<><<Step>>_allvars
  /\ []<>(~ClockDue) \/ []<><<ClockStep>>_allvars

(* Every table stays within its limits whatever is offered: the announces     *)
(* kept for transmission and for verification in bytes, the packet hashes in  *)
(* buckets, so that probes end.                                               *)
TablesBounded == RetentionBounded /\ QueueWithinLimits /\ ProbesEnd

(* Where one set is kept twice, for lookup and in order of age (packet        *)
(* hashes, signatures), the two agree.                                        *)
TablesAgree == LookupsAgree /\ SignaturesOrdered

(* When nothing more arrives, nothing waits for ever: queues are sent and     *)
(* removed, announces sent, verified or dropped, and held ones released.      *)
RunsEmpty == Drained /\ AnnouncesDrain /\ QueueEmpties /\ HeldReleased

MCSpec == MCInit /\ [][MCNext]_allvars /\ MCFairness

(* The outgoing queues by themselves. *)
QueueSpec == part = "queue" /\ MCInit /\ [][MCNext]_allvars

Announce(d, h, i, relayed, response) ==
  [dest |-> d, hops |-> h, iface |-> i, relayed |-> relayed, response |-> response]
MCReceived ==
  {Announce("d", 1, "j", FALSE, FALSE), Announce("d", 2, "i", TRUE, FALSE),
   Announce("d", 3, "i", TRUE, TRUE), Announce("e", 1, "j", FALSE, FALSE)}
MCRequests == {<<"d", 1, "i">>, <<"d", 2, "j">>}
MCKeys == {<<"a", "m">>, <<"a", "n">>, <<"b", "m">>, <<"c", "m">>}
MCBytes == [c \in {"a", "b", "c"} |-> IF c = "a" THEN 2 ELSE 1]
=============================================================================
