-------------------------- MODULE ResourceTransfer --------------------------
(***************************************************************************)
(* Resources over one active link: the ResourceSenders of one end ("a"),    *)
(* the ResourceReceivers of the other ("b"), and the LinkManager handlers   *)
(* that feed them the packets of the link.                                  *)
(*                                                                          *)
(* A resource is advertised with the first segment of its hashmap.  The     *)
(* receiver requests a window of parts by their hashes, and says so when it *)
(* has run out of hashes; the sender answers with parts and a hashmap       *)
(* update.  The last part makes the receiver assemble, deliver and prove.   *)
(* A resource too large for one advertisement is split: its segments are    *)
(* resources of their own, advertised one after the proof of the other.     *)
(*                                                                          *)
(* The hash of part i of resource id is <<id, i>>.  A scene says what is    *)
(* sent, by which strategy it is accepted and which faults there may be;    *)
(* faults (a lost packet, a timeout that expires while packets are under    *)
(* way) are counted and bounded by the scene's max_faults.                  *)
(***************************************************************************)
EXTENDS ResourceWindow, FiniteSetsExt, SequencesExt

CONSTANTS
  RESOURCE_HASHMAP_MAX_LEN,   \* hashes in one hashmap segment
  RESOURCE_MAX_RETRIES, RESOURCE_MAX_ADV_RETRIES,
  ProofRetries,               \* the 3 of handle_request
  Scenes                      \* set of records: transfers, strategy, rates, max_faults,
                              \* reorder, hasty, cancels, dies

VARIABLES
  scene,
  unsent,           \* transfers the application has not started
  outgoing,         \* outgoing_resources of "a"
  outgoing_splits,  \* their original hashes
  incoming,         \* incoming_resources of "b"
  incoming_splits,  \* original hash -> [completed, data]
  wire,             \* wire[n]: the packets under way to n
  dead,             \* nothing is carried any more
  cancels,          \* ends that may still cancel everything
  faults,
  told              \* told[n]: what the application at n was told, in order

rvars == <<scene, unsent, outgoing, outgoing_splits, incoming, incoming_splits, wire, dead, cancels, faults, told>>

RESOURCE_COLLISION_GUARD_SIZE == 2 * RESOURCE_WINDOW_MAX_FAST + RESOURCE_HASHMAP_MAX_LEN

NoHash == <<"none", 0>>
Over == {"Complete", "Failed", "Rejected"}
IsSplit(res) == res.segments > 1

(* Packets *)
Adv(res) == [type |-> "adv", res |-> res]
Req(exhausted, last, hashes) == [type |-> "req", exhausted |-> exhausted, last |-> last, hashes |-> hashes]
Part(hash) == [type |-> "part", hash |-> hash]
Hmu(segment, hashes) == [type |-> "hmu", segment |-> segment, hashes |-> hashes]
Prf(id) == [type |-> "prf", id |-> id]
Signal(type) == [type |-> type]

-----------------------------------------------------------------------------
(* ResourceSender *)

NewSender(res) ==
  [res |-> res, status |-> "Queued", sent |-> {}, min_height |-> 0, retries |-> RESOURCE_MAX_RETRIES]

Advertised(s) == [s EXCEPT !.status = "Advertised", !.retries = RESOURCE_MAX_ADV_RETRIES]

(* The indices in which a sender looks for a hash. *)
SearchRange(s) ==
  s.min_height .. Min({s.min_height + RESOURCE_COLLISION_GUARD_SIZE, s.res.parts}) - 1

(* build_hmu: the index after the last hash the receiver knows, or the end of *)
(* the search.                                                                *)
HashmapEnd(s, last) ==
  LET found == {i \in SearchRange(s) : <<s.res.id, i>> = last}
  IN  IF found # {} THEN Min(found) + 1
      ELSE IF SearchRange(s) = {} THEN s.min_height ELSE Max(SearchRange(s)) + 1

(* Mutant of MinHeight: the lower end of the search follows the hashmap.      *)
MinHeightAtEnd(part_index) == IF part_index > 0 THEN part_index - 1 ELSE 0

MinHeight(part_index) ==
  IF part_index > RESOURCE_WINDOW_MAX_FAST THEN part_index - 1 - RESOURCE_WINDOW_MAX_FAST ELSE 0

(* The hashes of one segment of the hashmap. *)
HashmapSegment(res, segment) ==
  LET first == segment * RESOURCE_HASHMAP_MAX_LEN
      end   == Min({first + RESOURCE_HASHMAP_MAX_LEN, res.parts})
  IN  IF end <= first THEN <<>> ELSE [i \in 1..(end - first) |-> <<res.id, first + i - 1>>]

(* handle_request: the sender after the request, and the packets it answers.  *)
HandleRequest(s, m) ==
  LET wanted == {i \in SearchRange(s) : <<s.res.id, i>> \in m.hashes}
      end    == HashmapEnd(s, m.last)
      hmu    == IF m.exhausted /\ end % RESOURCE_HASHMAP_MAX_LEN = 0
                THEN <<Hmu(end \div RESOURCE_HASHMAP_MAX_LEN,
                           HashmapSegment(s.res, end \div RESOURCE_HASHMAP_MAX_LEN))>>
                ELSE <<>>
      sent   == s.sent \union wanted
      all    == Cardinality(sent) >= s.res.parts
  IN  IF s.status = "Failed" THEN [sender |-> s, out |-> <<>>]
      ELSE [sender |-> [s EXCEPT !.status = IF all THEN "AwaitingProof" ELSE "Transferring",
                                 !.retries = IF all THEN ProofRetries ELSE RESOURCE_MAX_RETRIES,
                                 !.sent = sent,
                                 !.min_height = IF m.exhausted THEN MinHeight(end) ELSE @],
            out |-> [k \in 1..Cardinality(wanted) |->
                       Part(<<s.res.id, CHOOSE i \in wanted : Cardinality({j \in wanted : j < i}) = k - 1>>)]
                    \o hmu]

(* Mutant of SenderTimesOut: the advertisement is repeated for ever. *)
SenderInsists(s) ==
  IF s.status = "Transferring" THEN [s EXCEPT !.status = "Failed"]
  ELSE [s EXCEPT !.retries = IF @ = 0 THEN RESOURCE_MAX_ADV_RETRIES ELSE @ - 1]

(* tick of a sender whose timeout has expired; a transfer has one long wait,  *)
(* the other states retry, though only the advertisement is sent again.       *)
SenderTimesOut(s) ==
  IF s.status = "Transferring" \/ s.retries = 0 THEN [s EXCEPT !.status = "Failed"]
  ELSE [s EXCEPT !.retries = @ - 1]

-----------------------------------------------------------------------------
(* ResourceReceiver *)

Indices(r) == 0..(r.res.parts - 1)

(* from_advertisement, with the first segment of the hashmap *)
NewReceiver(res) ==
  [res |-> res, status |-> "None",
   parts |-> [i \in 0..(res.parts - 1) |-> NoHash],
   hashmap |-> [i \in 0..(res.parts - 1) |->
                  IF i < RESOURCE_HASHMAP_MAX_LEN THEN <<res.id, i>> ELSE NoHash],
   waiting_for_hmu |-> FALSE, outstanding |-> 0, retries |-> RESOURCE_MAX_RETRIES,
   responded |-> FALSE, win |-> NewResourceWindow]

(* consecutive_completed_height + 1: the first part still missing *)
FirstMissing(r) == Min({i \in Indices(r) : r.parts[i] = NoHash} \union {r.res.parts})
HashmapHeight(r) == Cardinality({i \in Indices(r) : r.hashmap[i] # NoHash})
AllReceived(r) == \A i \in Indices(r) : r.parts[i] # NoHash

(* request_next: nothing while a hashmap update is awaited. *)
RequestNext(r) ==
  LET window == FirstMissing(r) .. Min({FirstMissing(r) + r.win.window, r.res.parts}) - 1
      gaps   == {i \in window : r.parts[i] = NoHash /\ r.hashmap[i] = NoHash}
      asked  == {i \in window : r.parts[i] = NoHash /\ \A g \in gaps : i < g}
  IN  IF r.status = "Failed" \/ r.waiting_for_hmu THEN [receiver |-> r, out |-> <<>>]
      ELSE [receiver |-> [r EXCEPT !.outstanding = Cardinality(asked), !.responded = FALSE,
                                   !.waiting_for_hmu = gaps # {}],
            out |-> <<Req(gaps # {}, IF gaps = {} THEN NoHash ELSE r.hashmap[HashmapHeight(r) - 1],
                          {r.hashmap[i] : i \in asked})>>]

Accepted(r) == RequestNext([r EXCEPT !.status = "Transferring"])

(* Mutant of TakenAt: the search is one short of a window. *)
TakenAtShort(r, hash) ==
  LET start == Max({FirstMissing(r) - 1, 0})
  IN  {i \in Indices(r) : start <= i /\ i < start + r.win.window - 1 /\ r.hashmap[i] = hash}

(* Where a part fits.  The search starts at the last consecutive part, one    *)
(* before the first one requested, and is a window long.                      *)
TakenAt(r, hash) ==
  LET start == Max({FirstMissing(r) - 1, 0})
  IN  {i \in Indices(r) : start <= i /\ i < start + r.win.window /\ r.hashmap[i] = hash}

(* receive_part.  acted: some action came of it, so that no other receiver is *)
(* offered the part.                                                          *)
ReceivePart(r, hash, rates) ==
  LET w0 == IF r.responded THEN r.win ELSE UpdateReqRespRate(r.win, rates[1])
      r0 == [r EXCEPT !.retries = RESOURCE_MAX_RETRIES, !.responded = TRUE,
                      !.status = "Transferring", !.win = w0]
      at == TakenAt(r0, hash)
      matched == at # {} /\ r.parts[Min(at)] = NoHash
      r1 == IF matched THEN [r0 EXCEPT !.parts[Min(at)] = hash, !.outstanding = Max({@ - 1, 0})] ELSE r0
      next == RequestNext([r1 EXCEPT !.win = UpdateDataRate(OnWindowComplete(@), rates[2])])
  IN  IF AllReceived(r1) THEN [receiver |-> r1, out |-> <<>>, acted |-> TRUE]
      ELSE IF r1.outstanding = 0
      THEN [receiver |-> next.receiver, out |-> next.out, acted |-> matched \/ next.out # <<>>]
      ELSE [receiver |-> r1, out |-> <<>>, acted |-> matched]

(* handle_hashmap_update, which takes the update of any resource. *)
HandleHashmapUpdate(r, m) ==
  LET first == m.segment * RESOURCE_HASHMAP_MAX_LEN
      r1 == [r EXCEPT !.retries = RESOURCE_MAX_RETRIES, !.waiting_for_hmu = FALSE,
                      !.hashmap = [i \in Indices(r) |->
                         IF first <= i /\ i < first + Len(m.hashes) THEN m.hashes[i - first + 1] ELSE @[i]]]
  IN  IF r.status = "Failed" THEN [receiver |-> r, out |-> <<>>] ELSE RequestNext(r1)

(* tick of a receiver whose timeout has expired *)
ReceiverTimesOut(r) ==
  IF r.retries = 0 THEN [receiver |-> [r EXCEPT !.status = "Failed"], out |-> <<>>]
  ELSE RequestNext([r EXCEPT !.win = OnTimeout(@), !.retries = @ - 1, !.waiting_for_hmu = FALSE])

-----------------------------------------------------------------------------
(* The LinkManager of either end *)

(* What is sent to n after the packets already under way. *)
Sent(w, n, packets) == IF dead THEN w ELSE [w EXCEPT ![n] = @ \o packets]
SendTo(n, packets) == wire' = Sent(wire, n, packets)

Tell(n, events) == told' = [told EXCEPT ![n] = @ \o events]
Event(what, data) == [what |-> what, data |-> data]

Unfinished(resources) == SelectSeq(resources, LAMBDA x : x.status \notin Over)

(* The packets the wire can deliver next to n, and those of one type. *)
Ahead(n) == IF scene.reorder THEN DOMAIN wire[n] ELSE {i \in {1} : wire[n] # <<>>}

OfType(n, type) == {i \in Ahead(n) : wire[n][i].type = type}

(* Packet i is taken off the wire to n, and answered. *)
Delivers(n, i, answer) ==
  wire' = Sent([wire EXCEPT ![n] = RemoveAt(@, i)], IF n = "a" THEN "b" ELSE "a", answer)

(* build_resource_senders and start_resource_senders: the first segment is    *)
(* advertised, the others wait for its proof.                                 *)
SendResource ==
  /\ unsent # <<>>
  /\ LET segments == Head(unsent)
         senders  == [k \in DOMAIN segments |->
                        IF k = 1 THEN Advertised(NewSender(segments[1])) ELSE NewSender(segments[k])]
     IN  /\ outgoing' = outgoing \o senders
         /\ outgoing_splits' = IF IsSplit(segments[1]) THEN outgoing_splits \union {segments[1].orig}
                               ELSE outgoing_splits
         /\ SendTo("b", <<Adv(segments[1])>>)
  /\ unsent' = Tail(unsent)
  /\ UNCHANGED <<scene, incoming, incoming_splits, dead, cancels, faults, told>>

(* handle_resource_adv, and accept_resource with the answer of the            *)
(* application, which the driver asks for in the same step.  Every            *)
(* advertisement that is not refused makes a new receiver.                    *)
HandleResourceAdv(i, accept) ==
  LET res == wire["b"][i].res
      new == NewReceiver(res)
      follows == res.orig \in DOMAIN incoming_splits /\ incoming_splits[res.orig].completed + 1 = res.segment
      taken == CASE res.segment > 1 -> follows
                 [] scene.strategy = "none" -> FALSE
                 [] OTHER -> TRUE
      asks == res.segment = 1 /\ scene.strategy = "app"
      all == Append(incoming, new)
      idx == IF asks THEN Min({k \in DOMAIN all : all[k].res.id = res.id}) ELSE Len(all)
      fresh == (res.orig :> [completed |-> 0, data |-> <<>>])
  IN  /\ accept \/ (asks /\ taken)
      /\ IF ~taken
         THEN /\ Delivers("b", i, <<Signal("rcl")>>)
              /\ UNCHANGED <<incoming, incoming_splits>>
         ELSE IF ~accept
         THEN /\ Delivers("b", i, <<Signal("rcl")>>)
              /\ incoming' = [all EXCEPT ![idx].status = "Rejected"]
              /\ UNCHANGED incoming_splits
         ELSE /\ Delivers("b", i, Accepted(all[idx]).out)
              /\ incoming' = [all EXCEPT ![idx] = Accepted(all[idx]).receiver]
              /\ incoming_splits' = CASE ~IsSplit(res) \/ res.segment > 1 -> incoming_splits
                                      [] asks -> incoming_splits @@ fresh
                                      [] OTHER -> fresh @@ incoming_splits
      /\ UNCHANGED <<scene, unsent, outgoing, outgoing_splits, dead, cancels, faults, told>>

(* handle_resource_req: the senders are tried in turn until one acts, those   *)
(* before it are touched by the request all the same.                         *)
HandleResourceReq(i) ==
  LET m == wire["a"][i]
      tried(k) == ~(IsSplit(outgoing[k].res) /\ outgoing[k].status = "Queued")
      result == [k \in DOMAIN outgoing |->
                   IF tried(k) THEN HandleRequest(outgoing[k], m) ELSE [sender |-> outgoing[k], out |-> <<>>]]
      acting == {k \in DOMAIN outgoing : result[k].out # <<>>}
      last == Min(acting \union {Len(outgoing)})
  IN  /\ Delivers("a", i, IF acting = {} THEN <<>> ELSE result[last].out)
      /\ outgoing' = [k \in DOMAIN outgoing |-> IF k <= last THEN result[k].sender ELSE outgoing[k]]
      /\ UNCHANGED <<scene, unsent, outgoing_splits, incoming, incoming_splits, dead, cancels, faults, told>>

(* handle_resource_hmu *)
HandleResourceHmu(i) ==
  LET m == wire["b"][i]
      result == [k \in DOMAIN incoming |-> HandleHashmapUpdate(incoming[k], m)]
      acting == {k \in DOMAIN incoming : result[k].out # <<>>}
      last == Min(acting \union {Len(incoming)})
  IN  /\ Delivers("b", i, IF acting = {} THEN <<>> ELSE result[last].out)
      /\ incoming' = [k \in DOMAIN incoming |-> IF k <= last THEN result[k].receiver ELSE incoming[k]]
      /\ UNCHANGED <<scene, unsent, outgoing, outgoing_splits, incoming_splits, dead, cancels, faults, told>>

(* assemble, and what handle_resource_part makes of a segment: parts of       *)
(* another resource do not decrypt.  A segment adds to what was collected,    *)
(* and the last one delivers it.                                              *)
Intact(r) == \A i \in Indices(r) : r.parts[i] = <<r.res.id, i>>

(* Mutant of Collected: a segment replaces those before it. *)
CollectedLast(res) == [completed |-> res.segment, data |-> <<res.id>>]

Collected(res) ==
  IF res.orig \in DOMAIN incoming_splits
  THEN [completed |-> res.segment, data |-> Append(incoming_splits[res.orig].data, res.id)]
  ELSE [completed |-> 0, data |-> <<>>]

HandleResourcePart(i, rates) ==
  LET m == wire["b"][i]
      offered(k) == incoming[k].status \notin Over
      result == [k \in DOMAIN incoming |->
                   IF offered(k) THEN ReceivePart(incoming[k], m.hash, rates)
                   ELSE [receiver |-> incoming[k], out |-> <<>>, acted |-> FALSE]]
      acting == {k \in DOMAIN incoming : result[k].acted}
      last == Min(acting \union {Len(incoming)})
      after == [k \in DOMAIN incoming |-> IF k <= last THEN result[k].receiver ELSE incoming[k]]
      res == after[last].res
      known == res.orig \in DOMAIN incoming_splits
      final == res.segment = res.segments
  IN  IF acting = {} \/ ~AllReceived(after[last])
      THEN /\ Delivers("b", i, IF acting = {} THEN <<>> ELSE result[last].out)
           /\ incoming' = after
           /\ UNCHANGED <<scene, unsent, outgoing, outgoing_splits, incoming_splits, dead, cancels, faults, told>>
      ELSE IF ~Intact(after[last])
      THEN /\ Delivers("b", i, <<>>)
           /\ incoming' = [after EXCEPT ![last].status = "Failed"]
           /\ Tell("b", <<Event("failed", <<>>)>>)
           /\ UNCHANGED <<scene, unsent, outgoing, outgoing_splits, incoming_splits, dead, cancels, faults>>
      ELSE /\ Delivers("b", i, <<Prf(res.id)>>)
           /\ incoming' = [after EXCEPT ![last].status = "Complete"]
           /\ Tell("b", CASE ~IsSplit(res) -> <<Event("received", <<res.id>>)>>
                          [] IsSplit(res) /\ final /\ known -> <<Event("received", Collected(res).data)>>
                          [] OTHER -> <<>>)
           /\ incoming_splits' = IF ~IsSplit(res) \/ ~known THEN incoming_splits
                                 ELSE IF final
                                 THEN [o \in DOMAIN incoming_splits \ {res.orig} |-> incoming_splits[o]]
                                 ELSE [incoming_splits EXCEPT ![res.orig] = Collected(res)]
           /\ UNCHANGED <<scene, unsent, outgoing, outgoing_splits, dead, cancels, faults>>

(* handle_resource_prf: completes the sender it names and advertises the next *)
(* segment, or reports the whole transfer.                                    *)
HandleResourcePrf(i) ==
  LET named == {k \in DOMAIN outgoing : outgoing[k].res.id = wire["a"][i].id /\ outgoing[k].status # "Failed"}
      k == Min(named)
      res == outgoing[k].res
      done == [outgoing EXCEPT ![k].status = "Complete"]
      next == {j \in DOMAIN outgoing : outgoing[j].res.orig = res.orig /\ outgoing[j].res.segment = res.segment + 1}
      more == res.segment < res.segments
      follows == more /\ res.orig \in outgoing_splits /\ next # {}
  IN  IF named = {}
      THEN /\ Delivers("a", i, <<>>)
           /\ outgoing' = Unfinished(outgoing)
           /\ UNCHANGED <<scene, unsent, outgoing_splits, incoming, incoming_splits, dead, cancels, faults, told>>
      ELSE /\ Delivers("a", i, IF follows THEN <<Adv(outgoing[Min(next)].res)>> ELSE <<>>)
           /\ outgoing' = Unfinished(IF follows THEN [done EXCEPT ![Min(next)] = Advertised(@)] ELSE done)
           /\ outgoing_splits' = IF more THEN outgoing_splits ELSE outgoing_splits \ {res.orig}
           /\ Tell("a", IF more THEN <<>> ELSE <<Event("completed", res.orig)>>)
           /\ UNCHANGED <<scene, unsent, incoming, incoming_splits, dead, cancels, faults>>

(* handle_resource_icl: the other end cancels, all transfers are taken back.  *)
HandleResourceIcl(i) ==
  /\ Delivers("b", i, <<>>)
  /\ Tell("b", [k \in DOMAIN Unfinished(incoming) |-> Event("failed", <<>>)])
  /\ incoming' = <<>>
  /\ incoming_splits' = <<>>
  /\ UNCHANGED <<scene, unsent, outgoing, outgoing_splits, dead, cancels, faults>>

(* handle_resource_rcl: the other end refuses one, all are given up.          *)
HandleResourceRcl(i) ==
  /\ Delivers("a", i, <<>>)
  /\ Tell("a", [k \in DOMAIN outgoing |-> Event("failed", outgoing[k].res.orig)])
  /\ outgoing' = <<>>
  /\ outgoing_splits' = {}
  /\ UNCHANGED <<scene, unsent, incoming, incoming_splits, dead, cancels, faults>>

-----------------------------------------------------------------------------
(* LinkManager::tick.  A timeout is longer than an answer takes: one that     *)
(* expires while packets are under way is one of the scene's faults.  Once    *)
(* requests have come a sender is to wait for all the retries of a receiver,  *)
(* unless the scene makes it hasty.                                           *)

Quiet == wire["a"] = <<>> /\ wire["b"] = <<>>

WaitingSenders == {k \in DOMAIN outgoing : outgoing[k].status \in {"Advertised", "Transferring", "AwaitingProof"}}
WaitingReceivers == {k \in DOMAIN incoming : incoming[k].status = "Transferring"}

Impatient ==
  {k \in WaitingSenders : \/ outgoing[k].status = "Advertised" \/ scene.hasty
                          \/ Quiet /\ (dead \/ WaitingReceivers = {})}

Expires ==
  \/ Quiet /\ UNCHANGED faults
  \/ ~Quiet /\ faults < scene.max_faults /\ faults' = faults + 1

(* The senders: those that are late retry or fail, and what is over is        *)
(* dropped, with the splits no sender belongs to.                             *)
TickSenders(late) ==
  LET ticked == [k \in DOMAIN outgoing |-> IF k \in late THEN SenderTimesOut(outgoing[k]) ELSE outgoing[k]]
      failed == SelectSeq(ticked, LAMBDA s : s.status = "Failed")
      again == SelectSeq(ticked, LAMBDA s : s.status = "Advertised" /\ \E k \in late : outgoing[k].res = s.res)
  IN  /\ late # {} /\ Expires
      /\ outgoing' = Unfinished(ticked)
      /\ outgoing_splits' = {o \in outgoing_splits : \E k \in DOMAIN outgoing' : outgoing'[k].res.orig = o}
      /\ SendTo("b", [k \in DOMAIN again |-> Adv(again[k].res)])
      /\ Tell("a", [k \in DOMAIN failed |-> Event("failed", failed[k].res.orig)])
      /\ UNCHANGED <<scene, unsent, incoming, incoming_splits, dead, cancels>>

(* The receivers; a tick without a late one only drops what is over. *)
TickReceivers(late) ==
  LET ticked == [k \in DOMAIN incoming |->
                   IF k \in late THEN ReceiverTimesOut(incoming[k]) ELSE [receiver |-> incoming[k], out |-> <<>>]]
      after == [k \in DOMAIN incoming |-> ticked[k].receiver]
      requests == FlattenSeq([k \in DOMAIN incoming |-> ticked[k].out])
      failed == {k \in late : after[k].status = "Failed"}
  IN  /\ IF late = {} THEN UNCHANGED faults /\ Unfinished(incoming) # incoming ELSE Expires
      /\ incoming' = Unfinished(after)
      /\ SendTo("a", requests)
      /\ Tell("b", [k \in 1..Cardinality(failed) |-> Event("failed", <<>>)])
      /\ UNCHANGED <<scene, unsent, outgoing, outgoing_splits, incoming_splits, dead, cancels>>

(* cancel_all_resources at either end *)
CancelAllResources(n) ==
  /\ n \in cancels
  /\ cancels' = cancels \ {n}
  /\ IF n = "a"
     THEN /\ SendTo("b", [k \in DOMAIN outgoing |-> Signal("icl")])
          /\ outgoing' = <<>> /\ outgoing_splits' = {}
          /\ UNCHANGED <<incoming, incoming_splits>>
     ELSE /\ SendTo("a", [k \in DOMAIN incoming |-> Signal("rcl")])
          /\ incoming' = <<>> /\ incoming_splits' = <<>>
          /\ UNCHANGED <<outgoing, outgoing_splits>>
  /\ UNCHANGED <<scene, unsent, dead, faults, told>>

-----------------------------------------------------------------------------
(* The network *)

LosePacket(n, i) ==
  /\ i \in Ahead(n) /\ faults < scene.max_faults
  /\ faults' = faults + 1
  /\ wire' = [wire EXCEPT ![n] = RemoveAt(@, i)]
  /\ UNCHANGED <<scene, unsent, outgoing, outgoing_splits, incoming, incoming_splits, dead, cancels, told>>

(* From now on nothing arrives any more. *)
GoSilent ==
  /\ scene.dies /\ ~dead
  /\ dead' = TRUE
  /\ wire' = [n \in {"a", "b"} |-> <<>>]
  /\ UNCHANGED <<scene, unsent, outgoing, outgoing_splits, incoming, incoming_splits, cancels, faults, told>>

Handle ==
  \/ \E i \in OfType("b", "adv"), accept \in BOOLEAN : HandleResourceAdv(i, accept)
  \/ \E i \in OfType("a", "req") : HandleResourceReq(i)
  \/ \E i \in OfType("b", "hmu") : HandleResourceHmu(i)
  \/ \E i \in OfType("b", "part"), r1, r2 \in scene.rates : HandleResourcePart(i, <<r1, r2>>)
  \/ \E i \in OfType("a", "prf") : HandleResourcePrf(i)
  \/ \E i \in OfType("b", "icl") : HandleResourceIcl(i)
  \/ \E i \in OfType("a", "rcl") : HandleResourceRcl(i)

ResourceInit ==
  /\ scene \in Scenes
  /\ unsent = scene.transfers /\ cancels = scene.cancels
  /\ outgoing = <<>> /\ outgoing_splits = {}
  /\ incoming = <<>> /\ incoming_splits = <<>>
  /\ wire = [n \in {"a", "b"} |-> <<>>]
  /\ told = [n \in {"a", "b"} |-> <<>>]
  /\ dead = FALSE /\ faults = 0

ResourceNext ==
  \/ SendResource
  \/ Handle
  \/ \E late \in SUBSET Impatient : TickSenders(late)
  \/ \E late \in SUBSET WaitingReceivers : TickReceivers(late)
  \/ \E n \in {"a", "b"} : CancelAllResources(n)
  \/ \E n \in {"a", "b"} : \E i \in Ahead(n) : LosePacket(n, i)
  \/ GoSilent

ResourceSpec == ResourceInit /\ [][ResourceNext]_rvars

(* The driver handles what arrives and ticks both ends.  Each line is weak    *)
(* fairness, with the enabling condition written out.                         *)
SendersLate == Quiet /\ Impatient # {}
ReceiversLate == (Quiet /\ WaitingReceivers # {}) \/ Unfinished(incoming) # incoming

ResourceFairness ==
  /\ []<>(unsent = <<>>)
  /\ []<>Quiet \/ []<><<Handle>>_rvars
  /\ []<>(~SendersLate) \/ []<><<\E late \in SUBSET Impatient : TickSenders(late)>>_rvars
  /\ []<>(~ReceiversLate) \/ []<><<\E late \in SUBSET WaitingReceivers : TickReceivers(late)>>_rvars

-----------------------------------------------------------------------------
(* Properties *)

Transfers == {scene.transfers[k] : k \in DOMAIN scene.transfers}
Ids(transfer) == [k \in DOMAIN transfer |-> transfer[k].id]
Received(transfer) == \E k \in DOMAIN told["b"] : told["b"][k] = Event("received", Ids(transfer))
Completed(transfer) == \E k \in DOMAIN told["a"] : told["a"][k] = Event("completed", transfer[1].orig)

(* What on_resource_completed reports was handed to the application of the    *)
(* other end, whole and in order: handle_resource_prf is reached only through *)
(* an assembly that delivered.                                                *)
ProvedIsDelivered == \A t \in Transfers : Completed(t) => Received(t)

(* What on_resource_received hands over is what was sent: every segment once, *)
(* in order.                                                                  *)
DeliversWhatWasSent ==
  \A k \in DOMAIN told["b"] :
    told["b"][k].what = "received" => \E t \in Transfers : told["b"][k].data = Ids(t)

(* The sender looks for requested parts in a range of its own reckoning       *)
(* (receiver_min_consecutive_height): with packets in order it always holds   *)
(* every part the receiver may ask for next.                                  *)
RequestsAreFound ==
  \A k \in DOMAIN outgoing, j \in WaitingReceivers :
    LET s == outgoing[k]  r == incoming[j]
        asks == {i \in Indices(r) : /\ FirstMissing(r) <= i /\ i < FirstMissing(r) + r.win.window
                                    /\ r.hashmap[i] # NoHash}
    IN  (s.res = r.res /\ ~scene.reorder) => asks \subseteq SearchRange(s)

(* Whatever completes, times out and is measured, in any order, the window of *)
(* a receiver stays between its limits, and its upper limit is the one of a   *)
(* rate class (on_window_complete, on_timeout, update_*_rate).                *)
WindowsWithinLimits == \A k \in DOMAIN incoming : WithinLimits(incoming[k].win)

(* Transfers over a link that lives, to a receiver that accepts, arrive and   *)
(* their senders learn of it.  One alone, of one segment, arrives despite the *)
(* scene's faults as well.                                                    *)
Sure ==
  /\ scene.strategy = "all" /\ scene.cancels = {} /\ ~scene.dies /\ ~scene.hasty
  /\ scene.max_faults = 0 \/ Transfers \subseteq {t \in {Head(scene.transfers)} : Len(t) = 1}
Arrives ==
  Sure => <>(\A t \in Transfers : Received(t) /\ (scene.max_faults = 0 => Completed(t)))

(* When the other end has gone silent, both ends give up what is under way.   *)
NothingWaits == WaitingSenders = {} /\ WaitingReceivers = {}
SilenceIsNoticed == dead ~> (dead /\ NothingWaits)
=============================================================================
