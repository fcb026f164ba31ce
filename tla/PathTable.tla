------------------------------ MODULE PathTable ------------------------------
(***************************************************************************)
(* The path table of a transport node: for each destination a PathSet of    *)
(* alternative paths, learned from announces, restored from a tunnel that   *)
(* is attached again, put in by an operator, failed over, expired, culled   *)
(* and evicted.                                                             *)
(*                                                                          *)
(* A random blob is a number.  Its emission time is half of it, so that     *)
(* announces may share one.  Announces reach the node in any order, late    *)
(* and repeatedly, over any next hop, and, since their signatures may be    *)
(* verified after the interface they came from is gone, from any interface. *)
(*                                                                          *)
(* Left out: tables without a limit, where upsert_path_destination culls    *)
(* nothing, and the limit on the destinations a tunnel keeps.  A tunnel is  *)
(* attached to a registered interface, and its paths are restored in some   *)
(* fixed order.                                                             *)
(***************************************************************************)
EXTENDS Integers, FiniteSets, SequencesExt

CONSTANTS
  Destinations, NextHops, Interfaces,
  Blobs, Hops,          \* what an announce may carry
  PathLife,             \* interface -> life of a path learned from it
  PATHFINDER_E,         \* life of a path from an interface no longer registered
  TunnelLife,           \* TUNNEL_TIMEOUT and TUNNEL_PATH_TIMEOUT
  MaxPaths,             \* max_paths_per_destination
  MaxDestinations,      \* max_path_destinations
  PATHFINDER_M, MAX_RANDOM_BLOBS,
  PreferShorter,        \* prefer_shorter_path
  Tunnels,              \* whether interfaces carry the tunnel
  MayFail,              \* whether paths are marked unresponsive
  InjectedHops,         \* hops of the paths an operator may inject
  MaxTime               \* bound on the clock

ASSUME PathTableAssumption ==
  /\ Blobs \subseteq Nat /\ Hops \subseteq Nat \ {0}
  /\ PathLife \in [Interfaces -> Nat \ {0}] /\ {PATHFINDER_E, TunnelLife} \subseteq Nat \ {0}
  /\ {MaxPaths, MaxDestinations, MAX_RANDOM_BLOBS} \subseteq Nat \ {0}
  /\ {PATHFINDER_M, MaxTime} \subseteq Nat
  /\ {PreferShorter, Tunnels, MayFail} \subseteq BOOLEAN /\ InjectedHops \subseteq Hops
  /\ IsFiniteSet(Destinations) /\ IsFiniteSet(Interfaces)

VARIABLES
  now,
  interfaces,           \* the registered interfaces
  path_table,           \* destination -> its paths, the primary first
  path_states,          \* destination -> "responsive" or "unresponsive"
  tunnel,               \* paths of the tunnel by destination, and its expiry;
                        \* NoTunnel if it is not known
  carriers,             \* the interfaces whose tunnel_id is the tunnel's
  marked                \* ghost: destination -> the next hop marked unresponsive

vars == <<now, interfaces, path_table, path_states, tunnel, carriers, marked>>
tunnelvars == <<tunnel, carriers>>

NoTunnel == [expires |-> 0 - 1, paths |-> <<>>]

Emitted(blob) == blob \div 2

(* timebase_from_random_blobs *)
Timebase(blobs) ==
  LET times == {Emitted(blobs[k]) : k \in DOMAIN blobs}
  IN  IF times = {} THEN 0 ELSE CHOOSE t \in times : \A u \in times : u <= t

Known(d) == d \in DOMAIN path_table
Primary(d) == path_table[d][1]
AllBlobs(paths) == FlattenSeq([k \in DOMAIN paths |-> paths[k].blobs])
Via(paths, nh) == {k \in DOMAIN paths : paths[k].next_hop = nh}
Map(table, d, x) == [y \in DOMAIN table \cup {d} |-> IF y = d THEN x ELSE table[y]]
Minus(table, gone) == [y \in DOMAIN table \ gone |-> table[y]]

-----------------------------------------------------------------------------
(* PathSet *)

(* sort: lowest hops, then most recent; a stable sort *)
Before(paths, j, i) ==
  \/ paths[j].hops < paths[i].hops
  \/ paths[j].hops = paths[i].hops /\ paths[j].timestamp > paths[i].timestamp
  \/ paths[j].hops = paths[i].hops /\ paths[j].timestamp = paths[i].timestamp /\ j < i
Sort(paths) ==
  [k \in DOMAIN paths |-> paths[CHOOSE i \in DOMAIN paths :
     Cardinality({j \in DOMAIN paths : Before(paths, j, i)}) = k - 1]]

(* Mutant of Upsert: the paths are not cut down to their number. *)
UpsertUntruncated(paths, entry) ==
  Sort(IF Via(paths, entry.next_hop) # {}
         THEN [k \in DOMAIN paths |-> IF k \in Via(paths, entry.next_hop) THEN entry ELSE paths[k]]
         ELSE Append(paths, entry))

(* Mutant of Upsert: the paths are not sorted again. *)
UpsertUnsorted(paths, entry) ==
  IF Via(paths, entry.next_hop) # {}
    THEN [k \in DOMAIN paths |-> IF k \in Via(paths, entry.next_hop) THEN entry ELSE paths[k]]
    ELSE SubSeq(Append(paths, entry), 1, IF Len(paths) < MaxPaths THEN Len(paths) + 1 ELSE MaxPaths)

Upsert(paths, entry) ==
  LET all == Sort(IF Via(paths, entry.next_hop) # {}
                    THEN [k \in DOMAIN paths |->
                            IF k \in Via(paths, entry.next_hop) THEN entry ELSE paths[k]]
                    ELSE Append(paths, entry))
  IN  SubSeq(all, 1, IF Len(all) < MaxPaths THEN Len(all) ELSE MaxPaths)

(* failover(false) *)
Failover(paths) == Append(Tail(paths), Head(paths))

(* expire_all *)
ExpireAll(paths) == [k \in DOMAIN paths |-> [paths[k] EXCEPT !.timestamp = 0, !.expires = 0]]

PathsOf(table) == UNION {{table[d][k] : k \in DOMAIN table[d]} : d \in DOMAIN table}

(* The table without the paths in gone and without destinations that are left *)
(* with none: cull_path_table, drop_all_via, drop_paths_for_interface.        *)
Retained(table, gone) ==
  LET left(d) == SelectSeq(table[d], LAMBDA p : p \notin gone)
      kept    == {d \in DOMAIN table : left(d) # <<>>}
  IN  [d \in kept |-> left(d)]

Culled(table) ==
  Retained(table, {p \in PathsOf(table) : p.expires < now \/ p.iface \notin interfaces})

-----------------------------------------------------------------------------
(* oldest_path_destination: the primary with the earliest timestamp, then the *)
(* most hops; which of several equals is a matter of their hashes.            *)
Oldest(table) ==
  {d \in DOMAIN table : \A x \in DOMAIN table :
     \/ table[d][1].timestamp < table[x][1].timestamp
     \/ table[d][1].timestamp = table[x][1].timestamp /\ table[d][1].hops >= table[x][1].hops}

(* The outcomes of upsert_path_destination, on a record of the table and the  *)
(* states.  A new destination makes room for itself: the table is culled, and *)
(* if it is still full its oldest destination is evicted.  (It is never more  *)
(* than full, so that one eviction is enough.)                                *)
UpsertPath(st, d, entry) ==
  LET table == Culled(st.table)
  IN  IF d \in DOMAIN st.table
        THEN {[st EXCEPT !.table = Map(@, d, Upsert(@[d], entry))]}
        ELSE IF Cardinality(DOMAIN table) < MaxDestinations
        THEN {[st EXCEPT !.table = Map(table, d, <<entry>>)]}
        ELSE {[table |-> Map(Minus(table, {x}), d, <<entry>>), states |-> Minus(st.states, {x})] :
                x \in Oldest(table)}

Install(outcomes) ==
  \E st \in outcomes : path_table' = st.table /\ path_states' = st.states

-----------------------------------------------------------------------------
(* should_update_path, for an announce over the next hop of a known path *)
ShouldUpdatePath(old, blob, hops, unresponsive) ==
  LET new  == \A k \in DOMAIN old.blobs : old.blobs[k] # blob
      base == Timebase(old.blobs)
  IN  \/ PreferShorter /\ hops < old.hops
      \/ new /\ Emitted(blob) > base
      \/ Emitted(blob) = base /\ unresponsive
      \/ hops > old.hops /\ now >= old.expires /\ new

(* decide_announce_multipath: the announce is accepted. *)
Decide(d, blob, hops, nh) ==
  /\ hops <= PATHFINDER_M
  /\ Known(d) =>
       IF Via(path_table[d], nh) # {}
         THEN \E k \in Via(path_table[d], nh) :
                ShouldUpdatePath(path_table[d][k], blob, hops,
                                 d \in DOMAIN path_states /\ path_states[d] = "unresponsive")
         ELSE LET seen == AllBlobs(path_table[d])
              IN  /\ \A k \in DOMAIN seen : seen[k] # blob
                  /\ Emitted(blob) >= Timebase(seen)

(* Mutant of Remembered: only the announce's own blob. *)
RememberedAlone(d, blob, nh) == <<blob>>

(* random_blobs of the new path: those of the path it replaces, and its own *)
Remembered(d, blob, nh) ==
  LET old == IF Known(d) /\ Via(path_table[d], nh) # {}
               THEN path_table[d][CHOOSE k \in Via(path_table[d], nh) : TRUE].blobs ELSE <<>>
      all == Append(old, blob)
  IN  IF \E k \in DOMAIN old : old[k] = blob THEN old
      ELSE SubSeq(all, IF Len(all) > MAX_RANDOM_BLOBS THEN Len(all) - MAX_RANDOM_BLOBS + 1 ELSE 1, Len(all))

(* TunnelTable::cull: expired paths of the tunnel, and the expired tunnel *)
CulledTunnel ==
  IF tunnel.expires < now THEN NoTunnel
  ELSE [tunnel EXCEPT !.paths = [d \in {x \in DOMAIN @ : now <= @[x].timestamp + TunnelLife} |-> @[d]]]

(* Mutant of AnnounceStates: the state of the old path is kept. *)
AnnounceStatesKept(states, d) == states

(* path_states.remove, once the path is stored *)
AnnounceStates(states, d) == Minus(states, {d})

(* compute_path_expires *)
PathExpires(i) == now + IF i \in interfaces THEN PathLife[i] ELSE PATHFINDER_E

(* The path an announce makes. *)
Entry(d, blob, hops, nh, i) ==
  [next_hop |-> nh, hops |-> hops, iface |-> i, timestamp |-> now,
   expires |-> PathExpires(i), blobs |-> Remembered(d, blob, nh)]

(* The outcomes of storing the path of an accepted announce. *)
Learned(d, entry) ==
  UpsertPath([table |-> path_table,
              states |-> IF Known(d) THEN path_states ELSE AnnounceStates(path_states, d)],
             d, entry)

(* process_verified_announce, for an announce that is not blackholed *)
Announce(d, blob, hops, nh, i) ==
  LET entry == Entry(d, blob, hops, nh, i)
      Stored(table) == IF Via(table[d], nh) = {} THEN <<>> ELSE entry.blobs
  IN  /\ Decide(d, blob, hops, nh)
      /\ \E st \in Learned(d, entry) :
           /\ path_table' = st.table
           /\ path_states' = AnnounceStates(st.states, d)
           /\ tunnel' = IF i \notin carriers \/ CulledTunnel = NoTunnel
                          THEN IF i \in carriers THEN CulledTunnel ELSE tunnel
                          ELSE [expires |-> now + TunnelLife,
                                paths |-> Map(CulledTunnel.paths, d,
                                              [entry EXCEPT !.blobs = Stored(st.table)])]
      /\ marked' = Minus(marked, {d})
      /\ UNCHANGED <<now, interfaces, carriers>>

-----------------------------------------------------------------------------
(* handle_tunnel: which path of the tunnel goes back into the table *)
ShouldRestore(st, d, p) ==
  IF d \in DOMAIN st.table
    THEN /\ p.hops <= st.table[d][1].hops \/ st.table[d][1].expires < now
         /\ Timebase(p.blobs) >= Timebase(st.table[d][1].blobs)
    ELSE now < p.expires

(* handle_tunnel: the tunnel is new, or attached again to interface i *)
HandleTunnel(i) ==
  LET one(st, d) ==
        IF ShouldRestore(st, d, tunnel.paths[d])
          THEN UpsertPath(st, d, [tunnel.paths[d] EXCEPT !.iface = i]) ELSE {st}
      after[D \in SUBSET DOMAIN tunnel.paths] ==
        IF D = {} THEN {[table |-> path_table, states |-> path_states]}
        ELSE LET d == CHOOSE x \in D : TRUE
             IN  UNION {one(st, d) : st \in after[D \ {d}]}
  IN  /\ Tunnels /\ i \in interfaces
      /\ Install(after[DOMAIN tunnel.paths])
      /\ tunnel' = [tunnel EXCEPT !.expires = now + TunnelLife]
      /\ carriers' = carriers \cup {i}
      /\ UNCHANGED <<now, interfaces, marked>>

(* inject_path *)
InjectPath(d, nh, hops, i) ==
  /\ hops \in InjectedHops /\ i \in interfaces
  /\ Install(UpsertPath([table |-> path_table, states |-> path_states], d,
       [next_hop |-> nh, hops |-> hops, iface |-> i, timestamp |-> now,
        expires |-> PathExpires(i), blobs |-> <<>>]))
  /\ UNCHANGED <<now, interfaces, tunnelvars, marked>>

(* mark_path_unresponsive, unless called for a boundary interface: the next   *)
(* path takes over, or the only one is marked.                                *)
MarkPathUnresponsive(d) ==
  /\ MayFail
  /\ IF Known(d) /\ Len(path_table[d]) > 1
       THEN /\ path_table' = [path_table EXCEPT ![d] = Failover(@)]
            /\ path_states' = Minus(path_states, {d}) /\ marked' = Minus(marked, {d})
       ELSE /\ path_states' = Map(path_states, d, "unresponsive")
            /\ marked' = IF Known(d) THEN Map(marked, d, Primary(d).next_hop) ELSE Minus(marked, {d})
            /\ UNCHANGED path_table
  /\ UNCHANGED <<now, interfaces, tunnelvars>>

(* mark_path_responsive *)
MarkPathResponsive(d) ==
  /\ MayFail
  /\ path_states' = Map(path_states, d, "responsive") /\ marked' = Minus(marked, {d})
  /\ UNCHANGED <<now, interfaces, path_table, tunnelvars>>

(* expire_path *)
ExpirePath(d) ==
  /\ MayFail /\ Known(d)
  /\ path_table' = [path_table EXCEPT ![d] = ExpireAll(@)]
  /\ UNCHANGED <<now, interfaces, path_states, tunnelvars, marked>>

(* drop_path; the destination's state stays. *)
DropPath(d) ==
  /\ Known(d) /\ path_table' = Minus(path_table, {d})
  /\ UNCHANGED <<now, interfaces, path_states, tunnelvars, marked>>

(* drop_all_via *)
DropAllVia(nh) ==
  /\ path_table' = Retained(path_table, {p \in PathsOf(path_table) : p.next_hop = nh})
  /\ path_table' # path_table
  /\ UNCHANGED <<now, interfaces, path_states, tunnelvars, marked>>

(* drop_paths_for_interface, when the shared instance goes away *)
DropPathsForInterface(i) ==
  /\ path_table' = Retained(path_table, {p \in PathsOf(path_table) : p.iface = i})
  /\ path_table' # path_table
  /\ path_states' = Minus(path_states, DOMAIN path_table \ DOMAIN path_table')
  /\ UNCHANGED <<now, interfaces, tunnelvars, marked>>

(* deregister_interface and register_interface *)
DeregisterInterface(i) ==
  /\ i \in interfaces /\ interfaces' = interfaces \ {i} /\ carriers' = carriers \ {i}
  /\ UNCHANGED <<now, path_table, path_states, tunnel, marked>>
RegisterInterface(i) ==
  /\ i \notin interfaces /\ interfaces' = interfaces \cup {i}
  /\ UNCHANGED <<now, path_table, path_states, tunnelvars, marked>>

(* cull_tick_tables, some time after the last *)
Tick ==
  /\ now < MaxTime /\ now' = now + 1
  /\ UNCHANGED <<interfaces, carriers, marked>>
  /\ LET table == Culled(path_table)
     IN  \/ UNCHANGED <<path_table, path_states, tunnel>>
         \/ /\ path_table' = table
            /\ path_states' = Minus(path_states, DOMAIN path_states \ DOMAIN table)
            /\ tunnel' = CulledTunnel

-----------------------------------------------------------------------------
Init ==
  /\ now = 0 /\ interfaces = Interfaces
  /\ path_table = <<>> /\ path_states = <<>> /\ marked = <<>>
  /\ tunnel = NoTunnel /\ carriers = {}

Next ==
  \/ \E d \in Destinations, hops \in Hops, nh \in NextHops, i \in Interfaces :
       \/ \E blob \in Blobs : Announce(d, blob, hops, nh, i)
       \/ InjectPath(d, nh, hops, i)
  \/ \E d \in Destinations : \/ MarkPathUnresponsive(d) \/ MarkPathResponsive(d)
                             \/ ExpirePath(d) \/ DropPath(d)
  \/ \E nh \in NextHops : DropAllVia(nh)
  \/ \E i \in Interfaces : \/ HandleTunnel(i) \/ DropPathsForInterface(i)
                           \/ DeregisterInterface(i) \/ RegisterInterface(i)
  \/ Tick

Spec == Init /\ [][Next]_vars

-----------------------------------------------------------------------------
(* Whatever is learned, restored, culled and evicted, the table holds no more *)
(* destinations than it may, none without a path, and for each no more paths  *)
(* than it may, over different next hops.                                     *)
WellFormed ==
  /\ Cardinality(DOMAIN path_table) <= MaxDestinations
  /\ \A d \in DOMAIN path_table :
       /\ Len(path_table[d]) \in 1..MaxPaths
       /\ \A nh \in NextHops : Cardinality(Via(path_table[d], nh)) <= 1

(* The primary path is the best: lowest hops, then most recent. *)
PrimaryIsBest ==
  \A d \in DOMAIN path_table : \A k \in DOMAIN path_table[d] :
    \/ Primary(d).hops < path_table[d][k].hops
    \/ /\ Primary(d).hops = path_table[d][k].hops
       /\ Primary(d).timestamp >= path_table[d][k].timestamp

(* An unresponsive state is about the path it was given to: a path learned    *)
(* later, after the marked one was dropped, culled or replaced, is not held   *)
(* to be unresponsive.                                                        *)
StateOfItsPath ==
  \A d \in DOMAIN path_states \cap DOMAIN path_table :
    path_states[d] = "unresponsive" =>
      \E k \in DOMAIN path_table[d] :
        d \in DOMAIN marked /\ path_table[d][k].next_hop = marked[d]

(* What the node knows of a destination does not go back in time: a step      *)
(* that leaves the destination all its next hops leaves it an announce        *)
(* emitted no earlier than any it had.  Only an operator may take it back.    *)
StaysFresh ==
  \A d \in DOMAIN path_table \cap DOMAIN path_table' :
    (\A k \in DOMAIN path_table[d] : Via(path_table'[d], path_table[d][k].next_hop) # {})
    => \/ Timebase(AllBlobs(path_table'[d])) >= Timebase(AllBlobs(path_table[d]))
       \/ \E nh \in NextHops, hops \in Hops, i \in Interfaces : InjectPath(d, nh, hops, i)
=============================================================================
