--------------------------- MODULE ProviderBridge ---------------------------
(***************************************************************************)
(* The bridge that streams hook events to provider processes                *)
(* (rns-net/src/provider_bridge.rs): the driver emits events, a listener    *)
(* thread accepts consumers and removes the disconnected ones, and each     *)
(* consumer has a thread that writes its queue to its socket.  Every step   *)
(* is what one thread does between two locks.                               *)
(*                                                                          *)
(* Events are numbered in the order they are emitted; a frame is an event,  *)
(* or the count of those dropped.                                           *)
(***************************************************************************)
EXTENDS Integers, Sequences, Functions, FiniteSetsExt

CONSTANTS Consumers,          \* bound: the clients that connect
          MaxEvents,          \* bound: how many events are emitted
          EventSize,          \* the encoded length of each
          queue_max_events, queue_max_bytes

Events == 1..MaxEvents

ASSUME BridgeAssumption ==
  /\ MaxEvents \in Nat /\ EventSize \in [Events -> Nat]
  /\ queue_max_events \in Nat /\ queue_max_bytes \in Nat

VARIABLES overflow_policy,  \* of the configuration
          emitted,        \* how many events have been emitted
          emitting,       \* the consumers the driver has yet to give the last one to
          accepting, shutdown,
          listed,         \* state.consumers
          backlog, backlog_dropped_count,
          queue, dropped_count,   \* of each consumer
          connected,              \* the consumers whose flag is set
          stopping,               \* the consumers whose shutdown flag is set
          client,         \* of each: "away", "waiting" at the socket, "accepted"
          listener,       \* where its thread is
          entrant,        \* the consumer it is about to list
          writer,         \* of each: the frame its thread has in hand, or where it is
          dropping,       \* where Drop is
          offered, got, reported  \* history, of each: events offered, received, told dropped

bqueues == <<backlog, backlog_dropped_count, queue, dropped_count>>
bhistory == <<offered, got, reported>>
emission == <<overflow_policy, emitted, emitting>>
gate == <<accepting, shutdown>>
bpeers == <<connected, stopping, client>>
bthreads == <<listener, entrant, writer, dropping>>
bvars == <<emission, gate, listed, bqueues, bpeers, bthreads, bhistory>>

At(where) == [at |-> where, event |-> 0, count |-> 0]
Frame(e) == [at |-> "write", event |-> e, count |-> 0]
DroppedEvents(n) == [at |-> "write", event |-> 0, count |-> n]

-----------------------------------------------------------------------------
QueuedBytes(q) == FoldFunction(LAMBDA e, n : EventSize[e] + n, 0, q)
Fits(q, e) == Len(q) < queue_max_events /\ QueuedBytes(q) + EventSize[e] <= queue_max_bytes

EnqueueCountsOne(q, e) ==   \* mutant: an overflow counts as one event
  LET room == {n \in 0..Len(q) : Fits(SubSeq(q, n + 1, Len(q)), e)}
  IN  IF room = {} THEN [queue |-> <<>>, dropped |-> 1]
      ELSE [queue |-> Append(SubSeq(q, Min(room) + 1, Len(q)), e),
            dropped |-> IF 0 \in room THEN 0 ELSE 1]

(* enqueue_into_queue, enqueue_consumer_state: the queue after event e, and   *)
(* how many events it has dropped.                                            *)
Enqueue(q, e) ==
  CASE EventSize[e] > queue_max_bytes -> [queue |-> q, dropped |-> 1]
    [] EventSize[e] <= queue_max_bytes /\ Fits(q, e) -> [queue |-> Append(q, e), dropped |-> 0]
    [] EventSize[e] <= queue_max_bytes /\ ~Fits(q, e) /\ overflow_policy = "DropNewest" ->
         [queue |-> q, dropped |-> 1]
    [] OTHER ->
         LET room == {n \in 1..Len(q) : Fits(SubSeq(q, n + 1, Len(q)), e)}
         IN  IF room = {} THEN [queue |-> <<>>, dropped |-> Len(q) + 1]
             ELSE [queue |-> Append(SubSeq(q, Min(room) + 1, Len(q)), e), dropped |-> Min(room)]

(* emit_event, under the lock: to the backlog, or on to those now listed. *)
emit_event ==
  /\ dropping = "no" /\ emitting = {} /\ emitted < MaxEvents
  /\ emitted' = emitted + 1
  /\ IF listed = {}
     THEN LET after == Enqueue(backlog, emitted + 1)
          IN  /\ backlog' = after.queue
              /\ backlog_dropped_count' = backlog_dropped_count + after.dropped
              /\ UNCHANGED emitting
     ELSE emitting' = listed /\ UNCHANGED <<backlog, backlog_dropped_count>>
  /\ UNCHANGED <<overflow_policy, gate, listed, queue, dropped_count, bpeers,
                 bthreads, bhistory>>

(* enqueue_consumer_frame, for one of them *)
enqueue_consumer_frame(c) ==
  /\ c \in emitting
  /\ emitting' = emitting \ {c}
  /\ IF c \in connected \ stopping
     THEN LET after == Enqueue(queue[c], emitted)
          IN  /\ queue' = [queue EXCEPT ![c] = after.queue]
              /\ dropped_count' = [dropped_count EXCEPT ![c] = @ + after.dropped]
              /\ offered' = [offered EXCEPT ![c] = @ + 1]
     ELSE UNCHANGED <<queue, dropped_count, offered>>
  /\ UNCHANGED <<overflow_policy, emitted, gate, listed, backlog,
                 backlog_dropped_count, bpeers, bthreads, got, reported>>

stop_accepting ==
  /\ dropping = "no" /\ accepting
  /\ accepting' = FALSE
  /\ UNCHANGED <<emission, shutdown, listed, bqueues, bpeers, bthreads, bhistory>>
-----------------------------------------------------------------------------
(* The listener thread, provider_bridge_loop.  It waits while the bridge does *)
(* not accept; a round that finds nothing to do is left out.                  *)
Callers == {c \in Consumers : client[c] = "waiting"}
ListenerWakes == shutdown \/ (accepting /\ (Callers # {} \/ ~(listed \subseteq connected)))
ListenerTop ==
  /\ listener = "top" /\ ListenerWakes
  /\ listener' = IF shutdown THEN "final" ELSE "accept"
  /\ UNCHANGED <<emission, gate, listed, bqueues, bpeers, entrant, writer, dropping,
                 bhistory>>

(* A consumer is accepted and, when none is listed, takes over the backlog. *)
Accept(c) ==
  /\ listener = "accept" /\ c \in Callers
  /\ listener' = "spawn" /\ entrant' = {c}
  /\ client' = [client EXCEPT ![c] = "accepted"] /\ connected' = connected \cup {c}
  /\ IF listed = {}
     THEN /\ queue' = [queue EXCEPT ![c] = backlog]
          /\ dropped_count' = [dropped_count EXCEPT ![c] = backlog_dropped_count]
          /\ offered' = [offered EXCEPT ![c] = Len(backlog) + backlog_dropped_count]
          /\ backlog' = <<>> /\ backlog_dropped_count' = 0
     ELSE UNCHANGED <<bqueues, offered>>
  /\ UNCHANGED <<emission, gate, listed, stopping, writer, dropping, got, reported>>

(* spawn_consumer_thread: when it fails the connection, and what it took      *)
(* over, are lost.                                                            *)
SpawnConsumer ==
  /\ listener = "spawn"
  /\ \E c \in entrant :
       \/ /\ writer' = [writer EXCEPT ![c] = At("next")]
          /\ listener' = "list" /\ UNCHANGED <<entrant, connected>>
       \/ /\ listener' = "accept" /\ entrant' = {} /\ connected' = connected \ {c}
          /\ UNCHANGED writer
  /\ UNCHANGED <<emission, gate, listed, bqueues, stopping, client, dropping,
                 bhistory>>

ListConsumer ==
  /\ listener = "list"
  /\ listed' = listed \cup entrant /\ entrant' = {} /\ listener' = "accept"
  /\ UNCHANGED <<emission, gate, bqueues, bpeers, writer, dropping, bhistory>>

(* Nobody waits at the socket: prune_disconnected_consumers, which joins      *)
(* their threads, and once more on the way out.                               *)
Prune ==
  /\ \/ /\ listener = "accept" /\ Callers = {}
        /\ listener' = IF shutdown THEN "final" ELSE "top"
     \/ listener = "final" /\ listener' = "exited"
  /\ listed' = listed \cap connected
  /\ UNCHANGED <<emission, gate, bqueues, bpeers, entrant, writer, dropping, bhistory>>

ListenerStep ==
  ListenerTop \/ SpawnConsumer \/ ListConsumer \/ Prune \/ \E c \in Consumers : Accept(c)

-----------------------------------------------------------------------------
(* The thread of a consumer.  next_consumer_frame tells of dropped events     *)
(* first; when it finds nothing the thread looks at the flag under a new      *)
(* lock, and waits.                                                           *)
next_consumer_frame(c) ==
  /\ writer[c].at = "next"
  /\ IF dropped_count[c] > 0
     THEN /\ writer' = [writer EXCEPT ![c] = DroppedEvents(dropped_count[c])]
          /\ dropped_count' = [dropped_count EXCEPT ![c] = 0] /\ UNCHANGED queue
     ELSE IF queue[c] # <<>>
     THEN /\ writer' = [writer EXCEPT ![c] = Frame(Head(queue[c]))]
          /\ queue' = [queue EXCEPT ![c] = Tail(@)] /\ UNCHANGED dropped_count
     ELSE writer' = [writer EXCEPT ![c] = At("empty")] /\ UNCHANGED <<queue, dropped_count>>
  /\ UNCHANGED <<emission, gate, listed, backlog, backlog_dropped_count, bpeers,
                 listener, entrant, dropping, bhistory>>

WriterWakes(c) == c \in stopping \/ queue[c] # <<>> \/ dropped_count[c] > 0
CheckShutdown(c) ==
  /\ writer[c].at = "empty" /\ WriterWakes(c)
  /\ writer' = [writer EXCEPT ![c] = At(IF c \in stopping THEN "exited" ELSE "next")]
  /\ UNCHANGED <<emission, gate, listed, bqueues, bpeers, listener, entrant, dropping,
                 bhistory>>

(* write_frame fails when the client has closed, and when it does not read    *)
(* for the write timeout.                                                     *)
write_frame(c) ==
  /\ writer[c].at = "write"
  /\ \/ /\ writer' = [writer EXCEPT ![c] = At("next")]
        /\ got' = [got EXCEPT ![c] = IF writer[c].event = 0 THEN @ ELSE Append(@, writer[c].event)]
        /\ reported' = [reported EXCEPT ![c] = @ + writer[c].count]
        /\ UNCHANGED <<connected, stopping>>
     \/ /\ writer' = [writer EXCEPT ![c] = At("exited")]
        /\ connected' = connected \ {c} /\ stopping' = stopping \cup {c}
        /\ UNCHANGED <<got, reported>>
  /\ UNCHANGED <<emission, gate, listed, bqueues, client, listener, entrant, dropping,
                 offered>>

ConsumerStep(c) == next_consumer_frame(c) \/ CheckShutdown(c) \/ write_frame(c)

-----------------------------------------------------------------------------
Connect(c) ==
  /\ client[c] = "away" /\ dropping # "done"
  /\ client' = [client EXCEPT ![c] = "waiting"]
  /\ UNCHANGED <<emission, gate, listed, bqueues, connected, stopping, bthreads,
                 bhistory>>

(* Drop, by the driver: it tells the listener, joins it, tells the consumers  *)
(* and joins them.                                                            *)
BeginDrop ==
  /\ dropping = "no" /\ emitting = {}
  /\ dropping' = "listener" /\ shutdown' = TRUE /\ accepting' = FALSE
  /\ UNCHANGED <<emission, listed, bqueues, bpeers, listener, entrant, writer,
                 bhistory>>

StopConsumers ==
  /\ dropping = "listener" /\ listener = "exited"
  /\ dropping' = "consumers" /\ stopping' = stopping \cup listed /\ listed' = {}
  /\ UNCHANGED <<emission, gate, bqueues, connected, client, listener, entrant,
                 writer, bhistory>>

JoinConsumers ==
  /\ dropping = "consumers" /\ \A c \in Consumers : writer[c].at \in {"unborn", "exited"}
  /\ dropping' = "done"
  /\ UNCHANGED <<emission, gate, listed, bqueues, bpeers, listener, entrant, writer,
                 bhistory>>

BridgeInit ==
  /\ overflow_policy \in {"DropNewest", "DropOldest"}
  /\ emitted = 0 /\ emitting = {} /\ accepting = TRUE /\ shutdown = FALSE
  /\ listed = {} /\ backlog = <<>> /\ backlog_dropped_count = 0
  /\ queue = [c \in Consumers |-> <<>>] /\ dropped_count = [c \in Consumers |-> 0]
  /\ connected = {} /\ stopping = {} /\ client = [c \in Consumers |-> "away"]
  /\ listener = "top" /\ entrant = {} /\ writer = [c \in Consumers |-> At("unborn")]
  /\ dropping = "no"
  /\ offered = [c \in Consumers |-> 0] /\ got = [c \in Consumers |-> <<>>]
  /\ reported = [c \in Consumers |-> 0]

DropStep == StopConsumers \/ JoinConsumers

BridgeNext ==
  \/ emit_event \/ stop_accepting \/ BeginDrop \/ DropStep \/ ListenerStep
  \/ \E c \in Consumers : \/ enqueue_consumer_frame(c) \/ ConsumerStep(c) \/ Connect(c)

(* Every thread goes on when it can; since none of them spins, one condition  *)
(* serves for all.                                                            *)
ThreadsStep == DropStep \/ ListenerStep \/ \E c \in Consumers : ConsumerStep(c)
ThreadsDue ==
  \/ dropping = "listener" /\ listener = "exited"
  \/ dropping = "consumers" /\ \A c \in Consumers : writer[c].at \in {"unborn", "exited"}
  \/ listener \notin {"top", "exited"}
  \/ listener = "top" /\ ListenerWakes
  \/ \E c \in Consumers :
       writer[c].at \in {"next", "write"} \/ (writer[c].at = "empty" /\ WriterWakes(c))

BridgeSpec == BridgeInit /\ [][BridgeNext]_bvars /\ WF_bvars(ThreadsStep)

-----------------------------------------------------------------------------
(* A consumer that stays connected receives events in the order they were     *)
(* emitted, and every event offered to it, with those it took over from the   *)
(* backlog, is received, or counted in a report of dropped events, or still   *)
(* on its way.                                                                *)
EventsAccounted ==
  \A c \in Consumers :
    /\ \A i, j \in DOMAIN got[c] : i < j => got[c][i] < got[c][j]
    /\ c \in connected =>
         offered[c] = Len(got[c]) + reported[c] + dropped_count[c] + Len(queue[c])
                        + writer[c].count + (IF writer[c].event # 0 THEN 1 ELSE 0)
=============================================================================
