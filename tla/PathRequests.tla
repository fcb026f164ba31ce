---------------------------- MODULE PathRequests ----------------------------
(***************************************************************************)
(* What a transport node does with announces and path requests: an accepted *)
(* announce waits in announce_table to be rebroadcast, a path request puts  *)
(* an answer for the requesting interface in its place and the announce     *)
(* aside in held_announces, and a request for an unknown destination is     *)
(* passed on and remembered until an announce answers it.                   *)
(*                                                                          *)
(* Time passes between any two steps: an entry is due, or expired, when the *)
(* step says so; `now` counts the steps that set a timestamp.  Which path   *)
(* an announce is accepted for is decided in PathTable, and how announces   *)
(* and requests are limited in IngressControl: both are left open here.     *)
(***************************************************************************)
EXTENDS Integers, FiniteSets, SequencesExt

CONSTANTS
  Ports,
  Roaming,                 \* interfaces in roaming mode
  Announces,               \* that arrive: records with dest, hops, iface, relayed, response
  Requests,                \* path requests that arrive: destination, tag and interface
  PATHFINDER_R, LOCAL_REBROADCASTS_MAX,
  MaxTags,                 \* max_discovery_pr_tags
  MaxRetained,             \* entries announce_table_max_bytes has room for
  MaxTime                  \* bound: announces and path requests handled

VARIABLES
  announce_table, held_announces,  \* destination -> entry
  paths,                   \* destination -> interface and hops of its primary path
  discovery,               \* destination -> requesting interface (discovery_path_requests)
  pr_tags,                 \* discovery_pr_tags
  verifying,               \* announces whose signature is being checked
  now,
  asked, answered,         \* ghosts: requests taken up and answers sent, by destination
                           \* and interface
  handled                  \* ghost: the requests handled, in order

prvars == <<announce_table, held_announces, paths, discovery, pr_tags, verifying, now, asked, answered, handled>>

Nowhere == "all"           \* not attached to one interface

Without(f, d) == [x \in DOMAIN f \ {d} |-> f[x]]
With(f, d, e) == [x \in DOMAIN f \union {d} |-> IF x = d THEN e ELSE f[x]]

(* An announce to be rebroadcast, and the answer to a path request. *)
Rebroadcast(hops) ==
  [retries |-> 0, hops |-> hops, local_rebroadcasts |-> 0, attached |-> Nowhere, stamp |-> now, sends |-> 0]
Answer(hops, i) == [Rebroadcast(hops) EXCEPT !.retries = PATHFINDER_R, !.attached = i]

-----------------------------------------------------------------------------
(* Retention.  A pair <<announce_table, held_announces>> goes through each.   *)

CullExpired(t, old) ==
  LET kept(f) == [d \in {x \in DOMAIN f : f[x].stamp >= old} |-> f[d]]
  IN  <<kept(t[1]), kept(t[2])>>

Retained(t) == Cardinality(DOMAIN t[1]) + Cardinality(DOMAIN t[2])

(* oldest_retained_announce: a held one goes first among equals. *)
WithoutOldest(t) ==
  LET stamps(f) == {f[d].stamp : d \in DOMAIN f}
      oldest == CHOOSE s \in stamps(t[1]) \union stamps(t[2]) :
                  \A r \in stamps(t[1]) \union stamps(t[2]) : s <= r
      of(f) == CHOOSE d \in DOMAIN f : f[d].stamp = oldest
  IN  IF oldest \in stamps(t[2]) THEN <<t[1], Without(t[2], of(t[2]))>>
      ELSE <<Without(t[1], of(t[1])), t[2]>>

(* Mutant of WithinCap: announces put aside are not counted. *)
WithinCapTableOnly(t) == IF Cardinality(DOMAIN t[1]) > MaxRetained THEN WithoutOldest(t) ELSE t

(* enforce_announce_retention_cap; every step adds one entry at most. *)
WithinCap(t) == IF Retained(t) > MaxRetained THEN WithoutOldest(t) ELSE t

InsertAnnounce(t, d, e) == WithinCap(<<With(t[1], d, e), t[2]>>)
InsertHeld(t, d, e) == WithinCap(<<t[1], With(t[2], d, e)>>)

-----------------------------------------------------------------------------
(* announce_received_from: another node is heard to rebroadcast the announce  *)
(* that waits here, or one of its neighbours is.                              *)
Overheard(f, d, hops, early) ==
  IF d \notin DOMAIN f THEN f
  ELSE LET e == f[d]
           same == hops - 1 = e.hops
           counted == IF same THEN [f EXCEPT ![d].local_rebroadcasts = @ + 1] ELSE f
       IN  IF \/ same /\ e.retries > 0 /\ e.local_rebroadcasts + 1 >= LOCAL_REBROADCASTS_MAX
              \/ hops - 1 = e.hops + 1 /\ e.retries > 0 /\ early
           THEN Without(f, d) ELSE counted

(* process_verified_announce.  Unless the announce is rejected (blackholed,   *)
(* too far, or refused by the path decision) the path is stored, the announce *)
(* waits to be rebroadcast if it answers no request and is not rate limited,  *)
(* and a waiting request is answered with it.                                 *)
Outcomes(a) == {"rejected", "accepted"} \union (IF a.response THEN {} ELSE {"rate_blocked"})

AfterAnnounce(t, a, outcome) ==
  LET t1 == IF a.response \/ outcome = "rate_blocked" THEN t
            ELSE InsertAnnounce(t, a.dest, Rebroadcast(a.hops))
  IN  IF a.dest \in DOMAIN discovery THEN InsertAnnounce(t1, a.dest, Answer(a.hops, discovery[a.dest])) ELSE t1

ProcessVerified(t, a, outcome, old) ==
  IF outcome = "rejected"
  THEN announce_table' = t[1] /\ held_announces' = t[2] /\ UNCHANGED <<paths, discovery>>
  ELSE LET after == AfterAnnounce(CullExpired(t, old), a, outcome)
       IN  /\ announce_table' = after[1] /\ held_announces' = after[2]
           /\ paths' = With(paths, a.dest, [iface |-> a.iface, hops |-> a.hops])
           /\ discovery' = Without(discovery, a.dest)

Heard(a, early) == IF a.relayed THEN Overheard(announce_table, a.dest, a.hops, early) ELSE announce_table

Arrival == now < MaxTime /\ now' = now + 1

(* try_enqueue_announce: a signature seen before, or a path response, is      *)
(* processed at once; others wait for the verifying thread.                   *)
HandleAnnounce(a, outcome, early, old) ==
  /\ Arrival
  /\ ProcessVerified(<<Heard(a, early), held_announces>>, a, outcome, old)
  /\ UNCHANGED <<pr_tags, verifying, asked, answered, handled>>

EnqueueAnnounce(a, early) ==
  /\ Arrival
  /\ ~a.response
  /\ announce_table' = Heard(a, early)
  /\ verifying' = verifying \union {a}
  /\ UNCHANGED <<held_announces, paths, discovery, pr_tags, asked, answered, handled>>

(* complete_verified_announce, or AnnounceVerifyFailed *)
Verified(a, outcome, old) ==
  /\ verifying' = verifying \ {a}
  /\ ProcessVerified(<<announce_table, held_announces>>, a, outcome, old)
  /\ UNCHANGED <<pr_tags, now, asked, answered, handled>>

-----------------------------------------------------------------------------
(* insert_discovery_pr_tag, of a tag not yet in the list *)
Remembered(request) == Append(IF Len(pr_tags) >= MaxTags THEN Tail(pr_tags) ELSE pr_tags, request)

(* handle_known_path_request: the waiting announce is put aside. *)
PutAside(t, d, e, old) ==
  LET culled == CullExpired(t, old)
      apart == IF d \in DOMAIN t[1] THEN InsertHeld(<<Without(culled[1], d), culled[2]>>, d, t[1][d]) ELSE t
  IN  InsertAnnounce(CullExpired(apart, old), d, e)

HandleKnownPathRequest(d, i, old) ==
  /\ IF i \in Roaming /\ paths[d].iface = i
     THEN UNCHANGED <<announce_table, held_announces, asked>>
     ELSE LET t == PutAside(<<announce_table, held_announces>>, d, Answer(paths[d].hops, i), old)
          IN  /\ announce_table' = t[1] /\ held_announces' = t[2]
              /\ asked' = [asked EXCEPT ![d, i] = @ + 1]
  /\ UNCHANGED discovery

(* handle_discovery_path_request: the request is passed on to the interfaces  *)
(* in sent, none unless the mode of the interface and the limits allow it.  A *)
(* later request replaces one that waits.                                     *)
HandleDiscoveryPathRequest(d, i, sent) ==
  /\ i \notin sent
  /\ discovery' = IF sent = {} THEN discovery ELSE With(discovery, d, i)
  /\ asked' = IF sent = {} THEN asked ELSE [asked EXCEPT ![d, i] = @ + 1]
  /\ UNCHANGED <<announce_table, held_announces>>

(* handle_path_request *)
HandlePathRequest(d, tag, i, sent, old) ==
  /\ Arrival
  /\ ~Contains(pr_tags, <<d, tag>>)
  /\ pr_tags' = Remembered(<<d, tag>>)
  /\ handled' = Append(handled, <<d, tag>>)
  /\ IF d \in DOMAIN paths THEN sent = {} /\ HandleKnownPathRequest(d, i, old)
     ELSE HandleDiscoveryPathRequest(d, i, sent)
  /\ UNCHANGED <<paths, verifying, answered>>

-----------------------------------------------------------------------------
Spent(e) == e.retries >= LOCAL_REBROADCASTS_MAX \/ e.retries > PATHFINDER_R

(* Mutant of Transmitted: an announce put aside stays there when it returns.  *)
TransmittedCopies(t, due) ==
  LET sent == [d \in DOMAIN t[1] |->
                 IF d \in due THEN [t[1][d] EXCEPT !.retries = @ + 1, !.sends = @ + 1] ELSE t[1][d]]
  IN  <<[d \in {x \in DOMAIN sent : x \in due \/ ~Spent(t[1][x])} |->
           IF d \in due \intersect DOMAIN t[2] THEN t[2][d] ELSE sent[d]], t[2]>>

(* process_pending_announces: what is spent goes, what is due is sent, and    *)
(* makes room for the announce that was put aside for it.                     *)
Transmitted(t, due) ==
  LET sent == [d \in DOMAIN t[1] |->
                 IF d \in due THEN [t[1][d] EXCEPT !.retries = @ + 1, !.sends = @ + 1] ELSE t[1][d]]
  IN  <<[d \in {x \in DOMAIN sent : x \in due \/ ~Spent(t[1][x])} |->
           IF d \in due \intersect DOMAIN t[2] THEN t[2][d] ELSE sent[d]],
        [d \in DOMAIN t[2] \ due |-> t[2][d]]>>

Due(t, due) == due \subseteq {d \in DOMAIN t[1] : ~Spent(t[1][d])}

(* tick: process_tick_pending_announces and, of the tables, the requests that *)
(* nothing has answered in time.                                              *)
TickAnnounces(due, old, forgotten) ==
  LET t == CullExpired(<<announce_table, held_announces>>, old)
  IN  /\ Due(t, due)
      /\ announce_table' = Transmitted(t, due)[1]
      /\ held_announces' = Transmitted(t, due)[2]
      /\ answered' = [p \in DOMAIN answered |->
                        IF p[1] \in due /\ t[1][p[1]].attached = p[2] THEN answered[p] + 1 ELSE answered[p]]
      /\ discovery' = [d \in DOMAIN discovery \ forgotten |-> discovery[d]]
      /\ UNCHANGED <<paths, pr_tags, verifying, now, asked, handled>>

PrInit ==
  /\ announce_table = <<>> /\ held_announces = <<>> /\ paths = <<>> /\ discovery = <<>>
  /\ pr_tags = <<>> /\ verifying = {} /\ now = 0 /\ handled = <<>>
  /\ asked = [p \in {a.dest : a \in Announces} \X Ports |-> 0]
  /\ answered = asked

Olds == {0, now}

PrNext ==
  \/ \E a \in Announces : \E outcome \in Outcomes(a), early \in {FALSE, a.relayed}, old \in Olds :
       HandleAnnounce(a, outcome, early, old)
  \/ \E a \in Announces : \E early \in {FALSE, a.relayed} : EnqueueAnnounce(a, early)
  \/ \E a \in verifying : \E outcome \in Outcomes(a), old \in Olds : Verified(a, outcome, old)
  \/ \E r \in Requests, sent \in SUBSET Ports, old \in Olds : HandlePathRequest(r[1], r[2], r[3], sent, old)
  \/ \E due \in SUBSET DOMAIN announce_table, old \in Olds, forgotten \in SUBSET DOMAIN discovery :
       TickAnnounces(due, old, forgotten)

PrSpec == PrInit /\ [][PrNext]_prvars

(* The driver ticks, and what is to be sent becomes due. *)
Tables == <<announce_table, held_announces>>
Unsent == {d \in DOMAIN announce_table : ~Spent(announce_table[d])}
TransmitDue == Transmitted(Tables, Unsent) # Tables
TransmitStep == Tables' # Tables /\ TickAnnounces(Unsent, 0, {})
PrFairness == []<>(~TransmitDue) \/ []<><<TransmitStep>>_prvars

-----------------------------------------------------------------------------
Entries == {announce_table[d] : d \in DOMAIN announce_table} \union {held_announces[d] : d \in DOMAIN held_announces}

(* An announce is rebroadcast PATHFINDER_R + 1 times at most and an answer    *)
(* sent once, however often path requests put them aside and the tick brings  *)
(* them back; no request is answered twice; and a request that is passed on   *)
(* in circles is handled once among any MaxTags + 1 requests.                 *)
TransmissionsBounded ==
  /\ \A e \in Entries : e.sends <= IF e.attached = Nowhere THEN PATHFINDER_R + 1 ELSE 1
  /\ \A p \in DOMAIN asked : answered[p] <= asked[p]
  /\ \A j \in DOMAIN handled, k \in DOMAIN handled :
       (j < k /\ handled[j] = handled[k]) => k - j > MaxTags

(* What is kept for transmission stays within announce_table_max_bytes. *)
RetentionBounded == Retained(<<announce_table, held_announces>>) <= MaxRetained

(* Everything that waits to be sent is sent or dropped: table and held        *)
(* announces never keep each other alive.                                     *)
AnnouncesDrain == <>[](announce_table = <<>>)
=============================================================================
