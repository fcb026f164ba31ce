-------------------------- MODULE SupervisorProofs --------------------------
(***************************************************************************)
(* Proofs about module Supervisor, for every set of roles, every script of  *)
(* commands, every limit of restarts and every timeout.                     *)
(***************************************************************************)
EXTENDS Supervisor, WellFoundedInduction, TLAPS

Stopping == {"drain", "wait", "terminate", "grace"}
Published == [status : {"running", "stopped", "failed"}, ready : BOOLEAN, pid : Nat]
Files == [status : {"none", "ready", "draining"}, pid : Nat]

SupTypes ==
  /\ children \in Seq(Roles) /\ IsInjective(children)
  /\ pid \in [Roles -> Nat] /\ spawned \in Nat
  /\ processes \in [Roles -> Published]
  /\ ready_file \in [Sidecars -> Files]
  /\ left \subseteq Roles

(* What is alive is the last process spawned for its role, and managed; what  *)
(* is published as running is managed under its pid; readiness files and what *)
(* was read in them come from the process they name.                          *)
Known ==
  /\ \A a \in alive : a[1] \in Roles /\ a = Process(a[1])
  /\ \A r \in Roles :
       /\ Process(r) \in alive => pid[r] # NoPid
       /\ Process(r) \in alive /\ pc # "failed" => Managed(r)
       /\ processes[r].status = "running" =>
            Managed(r) /\ processes[r].pid = pid[r] /\ pid[r] # NoPid
  /\ \A r \in Sidecars :
       /\ processes[r].status = "running" /\ processes[r].ready => Process(r) \in wrote_ready
       /\ ready_file[r].pid # NoPid => <<r, ready_file[r].pid>> \in wrote_ready
       /\ ready_file[r].status = "ready" => ready_file[r].pid # NoPid

(* What the place in run says of the children: none is spawned twice, one to  *)
(* be spawned again has no process, and those a shutdown has still to         *)
(* terminate are all there are.                                               *)
Placed ==
  /\ pc = "start" => Len(children) < Len(Specs) /\ \A i \in DOMAIN children : children[i] = Specs[i]
  /\ pc = "respawn" => job.role \in Roles /\ Managed(job.role) /\ Process(job.role) \notin alive
  /\ pc \in Stopping => job.kind \in {"stop", "restart", "shutdown", "exhausted"}
  /\ pc \in Stopping /\ job.kind \in {"stop", "restart"} => left = {job.role} /\ Managed(job.role)
  /\ pc \in Stopping /\ job.kind \in {"shutdown", "exhausted"} =>
       left \subseteq Range(children) /\ \A a \in alive : a[1] \in left
  /\ pc = "grace" => left # {}
  /\ pc = "returned" => alive = {}

SupInv == SupTypes /\ Known /\ Placed

-----------------------------------------------------------------------------
(* The least of a set of numbers is one of them. *)
LEMMA MinMember ==
  ASSUME NEW S \in SUBSET Nat, S # {}
  PROVE  Min(S) \in S
<1>1. PICK x \in S : \A y \in S : ~(<<y, x>> \in OpToRel(<, Nat))
  BY NatLessThanWellFounded, WFMin, Zenon
<1>2. \A y \in S : ~(y < x)
  BY <1>1, Zenon DEF OpToRel
<1>3. \A y \in S : x <= y
  BY <1>2
<1> QED BY Zenon, <1>3 DEF Min

(* Taking one element out of a sequence without repetitions *)
LEMMA RemoveOne ==
  ASSUME NEW S, NEW s \in Seq(S), IsInjective(s), NEW i \in DOMAIN s
  PROVE  LET t == SubSeq(s, 1, i - 1) \o SubSeq(s, i + 1, Len(s))
         IN  t \in Seq(S) /\ IsInjective(t) /\ Range(t) = Range(s) \ {s[i]}
<1> DEFINE u == SubSeq(s, 1, i - 1)
           v == SubSeq(s, i + 1, Len(s))
           t == u \o v
<1>1. i \in 1..Len(s) /\ Len(s) \in Nat
  OBVIOUS
<1>2. u \in Seq(S) /\ Len(u) = i - 1 /\ \A j \in 1..i - 1 : u[j] = s[j]
  BY <1>1
<1>3. v \in Seq(S) /\ Len(v) = Len(s) - i /\ \A j \in 1..Len(s) - i : v[j] = s[i + j]
  BY <1>1
<1>4. t = u \o v
  OBVIOUS
<1> HIDE DEF t, u, v
<1>5. t \in Seq(S) /\ Len(t) = Len(s) - 1
  BY <1>1, <1>2, <1>3, <1>4
<1>6. \A j \in 1..Len(t) : t[j] = IF j < i THEN s[j] ELSE s[j + 1]
  <2> SUFFICES ASSUME NEW j \in 1..Len(t) PROVE t[j] = IF j < i THEN s[j] ELSE s[j + 1]
    OBVIOUS
  <2>1. CASE j < i
    <3>1. j \in 1..Len(u) /\ j \in 1..i - 1
      BY <1>1, <1>2, <1>5, <2>1
    <3>2. t[j] = u[j]
      BY <1>2, <1>3, <1>4, <3>1
    <3> QED BY <1>2, <2>1, <3>1, <3>2
  <2>2. CASE ~(j < i)
    <3>1. t[j] = v[j - (i - 1)] /\ j - (i - 1) \in 1..Len(s) - i
      BY <1>1, <1>2, <1>3, <1>4, <1>5, <2>2
    <3>2. v[j - (i - 1)] = s[i + (j - (i - 1))]
      BY <1>3, <3>1
    <3>3. i + (j - (i - 1)) = j + 1
      BY <1>1, <1>5
    <3> QED BY <2>2, <3>1, <3>2, <3>3
  <2> QED BY <2>1, <2>2
<1>7. \A j \in DOMAIN t : \E k \in DOMAIN s : k # i /\ t[j] = s[k] /\ (k = IF j < i THEN j ELSE j + 1)
  BY <1>1, <1>5, <1>6
<1>8. IsInjective(t)
  BY <1>1, <1>5, <1>7 DEF IsInjective
<1>9. Range(t) \subseteq Range(s) \ {s[i]}
  BY <1>7 DEF IsInjective, Range
<1>10. Range(s) \ {s[i]} \subseteq Range(t)
  <2> SUFFICES ASSUME NEW k \in DOMAIN s, k # i PROVE \E j \in DOMAIN t : t[j] = s[k]
    BY DEF Range
  <2>1. CASE k < i
    BY <1>1, <1>5, <1>6, <2>1
  <2>2. CASE k > i
    <3>1. k - 1 \in DOMAIN t /\ t[k - 1] = s[k]
      BY <1>1, <1>5, <1>6, <2>2
    <3> QED BY <3>1
  <2> QED BY <1>1, <2>1, <2>2
<1> QED BY <1>5, <1>8, <1>9, <1>10 DEF t, u, v

(* Children are stopped in the order of their priorities, rnsd the last. *)
LEMMA StopOrder ==
  ASSUME left \subseteq Roles, left # {}
  PROVE  NextToStop \in left /\ (NextToStop = "rnsd" => left = {"rnsd"})
<1> DEFINE prio == shutdown_priority
<1>1. prio["statsd"] = 0 /\ prio["sentineld"] = 1 /\ prio["rnsd"] = 2
      /\ DOMAIN prio = {"statsd", "sentineld", "rnsd"}
  BY DEF shutdown_priority
<1> HIDE DEF prio
<1>2. left \subseteq {"statsd", "sentineld", "rnsd"}
  BY <1>1, SpecsAssumption DEF Roles, Range, prio
<1>3. \E r \in left : \A q \in left : prio[r] <= prio[q]
  <2>1. CASE "statsd" \in left
    BY <1>1, <1>2, <2>1
  <2>2. CASE "statsd" \notin left /\ "sentineld" \in left
    BY <1>1, <1>2, <2>2
  <2>3. CASE left = {"rnsd"}
    BY <1>1, <2>3
  <2> QED BY Zenon, <1>2, <2>1, <2>2, <2>3
<1>4. NextToStop \in left /\ \A q \in left : prio[NextToStop] <= prio[q]
  BY <1>3 DEF NextToStop, prio
<1>5. NextToStop = "rnsd" => \A q \in left : q = "rnsd"
  BY <1>1, <1>2, <1>4
<1> QED BY <1>4, <1>5, Zenon

-----------------------------------------------------------------------------
(* The records a status is published as *)
LEMMA Marks ==
  ASSUME NEW p \in Published, NEW n \in Nat
  PROVE  /\ mark_running(p, n) \in Published /\ mark_stopped(p) \in Published
         /\ mark_failed(p) \in Published
         /\ mark_running(p, n).pid = n /\ mark_running(p, n).ready = FALSE
         /\ mark_stopped(p).status = "stopped" /\ mark_failed(p).status = "failed"
BY Zenon DEF Published, mark_running, mark_stopped, mark_failed, NoPid

(* Nothing is said of the children in these places. *)
LEMMA Idle ==
  ASSUME pc' \in {"top", "check", "failed"}
  PROVE  Placed'
BY DEF Placed, Stopping

(* A step that changes no child and nothing published *)
LEMMA ChildrenKept ==
  ASSUME SupInv, UNCHANGED <<procs, processes, files>>, left' \subseteq Roles,
         pc # "failed" \/ pc' = "failed"
  PROVE  SupTypes' /\ Known'
<1> USE DEF SupInv, SupTypes, Known, Managed, Process, procs, files
<1>1. SupTypes'
  OBVIOUS
<1>2. Known'
  BY Zenon
<1> QED BY <1>1, <1>2

(* A step outside the supervisor by which processes may exit and a readiness  *)
(* file may be cleared                                                        *)
LEMMA MayExit ==
  ASSUME SupInv, UNCHANGED <<pc, job, left, children, pid, spawned, processes, wrote_ready>>,
         alive' \subseteq alive,
         \/ UNCHANGED ready_file
         \/ \E r \in Sidecars : ready_file' = [ready_file EXCEPT ![r] = NoFile]
  PROVE  SupInv'
<1>1. \A r \in Sidecars : ready_file'[r] = ready_file[r] \/ ready_file'[r] = NoFile
  BY DEF SupInv, SupTypes
<1>2. NoFile \in Files /\ NoFile.pid = NoPid /\ NoFile.status = "none"
  BY DEF Files, NoFile, NoPid
<1>3. SupTypes'
  BY <1>2 DEF SupInv, SupTypes
<1>4. Known'
  <2>1. \A a \in alive' : a[1] \in Roles /\ a = Process(a[1])'
    BY DEF SupInv, Known, Process
  <2>2. ASSUME NEW r \in Roles
        PROVE  (/\ Process(r) \in alive => pid[r] # NoPid
                /\ Process(r) \in alive /\ pc # "failed" => Managed(r)
                /\ processes[r].status = "running" =>
                     Managed(r) /\ processes[r].pid = pid[r] /\ pid[r] # NoPid)'
    BY DEF SupInv, Known, Process, Managed
  <2>3. ASSUME NEW r \in Sidecars
        PROVE  (/\ processes[r].status = "running" /\ processes[r].ready => Process(r) \in wrote_ready
                /\ ready_file[r].pid # NoPid => <<r, ready_file[r].pid>> \in wrote_ready
                /\ ready_file[r].status = "ready" => ready_file[r].pid # NoPid)'
    <3>1. CASE ready_file'[r] = ready_file[r]
      BY <3>1 DEF SupInv, Known, Process
    <3>2. CASE ready_file'[r] = NoFile
      BY Zenon, <3>2, <1>2 DEF SupInv, Known, Process
    <3> QED BY <1>1, <3>1, <3>2
  <2> QED BY <2>1, <2>2, <2>3 DEF Known
<1>5. Placed'
  BY DEF SupInv, Placed, Managed, Process, Stopping
<1> QED BY <1>3, <1>4, <1>5 DEF SupInv

(* spawn_child keeps what is known when the role has no process. *)
LEMMA SpawnKnown ==
  ASSUME SupInv, NEW r \in Roles, NEW next, pc # "failed", Process(r) \notin alive,
         spawn_child(r, processes[r], next), UNCHANGED <<left, files>>
  PROVE  SupTypes' /\ Known' /\ pc' \in {next, "failed"}
<1>1. processes[r] \in Published /\ spawned + 1 \in Nat
  BY DEF SupInv, SupTypes
<1>2. CASE /\ spawned' = spawned + 1
           /\ children' = IF Managed(r) THEN children ELSE Append(children, r)
           /\ pid' = [pid EXCEPT ![r] = spawned + 1]
           /\ alive' = alive \cup {<<r, spawned + 1>>}
           /\ processes' = [processes EXCEPT ![r] = mark_running(processes[r], spawned + 1)]
           /\ pc' = next
  <2> DEFINE m == mark_running(processes[r], spawned + 1)
  <2>1. m \in Published /\ m.pid = spawned + 1 /\ m.ready = FALSE
    BY Zenon, <1>1, Marks
  <2> HIDE DEF m
  <2>2. children' \in Seq(Roles) /\ IsInjective(children')
    BY <1>2 DEF SupInv, SupTypes, Managed, IsInjective, Range
  <2>3. \A q \in Roles : Managed(q) \/ q = r => Managed(q)'
    <3>1. CASE Managed(r)
      BY <1>2, <3>1 DEF Managed
    <3>2. CASE ~Managed(r)
      <4>1. children' = Append(children, r) /\ children \in Seq(Roles)
        BY <1>2, <3>2 DEF SupInv, SupTypes
      <4> QED BY <4>1 DEF Managed, Range
    <3> QED BY <3>1, <3>2
  <2>4. /\ pid' \in [Roles -> Nat] /\ pid'[r] = spawned + 1 /\ spawned + 1 # NoPid
        /\ \A q \in Roles : q # r => pid'[q] = pid[q]
    BY <1>1, <1>2 DEF SupInv, SupTypes, NoPid
  <2>5. /\ processes' \in [Roles -> Published] /\ processes'[r] = m
        /\ \A q \in Roles : q # r => processes'[q] = processes[q]
    BY <1>2, <2>1 DEF SupInv, SupTypes, m
  <2>6. SupTypes'
    BY <1>1, <1>2, <2>2, <2>4, <2>5 DEF SupInv, SupTypes, files
  <2>7. \A a \in alive' : a[1] \in Roles /\ a = <<a[1], pid'[a[1]]>>
    BY <1>2, <2>4 DEF SupInv, Known, Process
  <2>8. ASSUME NEW q \in Roles, <<q, pid'[q]>> \in alive'
        PROVE  pid'[q] # NoPid /\ Managed(q)'
    BY <1>2, <2>3, <2>4, <2>8 DEF SupInv, Known, Process
  <2>9. ASSUME NEW q \in Roles, processes'[q].status = "running"
        PROVE  Managed(q)' /\ processes'[q].pid = pid'[q] /\ pid'[q] # NoPid
    BY <1>2, <2>1, <2>3, <2>4, <2>5, <2>9 DEF SupInv, Known
  <2>10. ASSUME NEW q \in Sidecars, processes'[q].status = "running", processes'[q].ready
         PROVE  <<q, pid'[q]>> \in wrote_ready'
    BY Zenon, <2>1, <2>4, <2>5, <2>10 DEF SupInv, Known, Process, files, Sidecars
  <2>11. Known'
    BY Zenon, <2>7, <2>8, <2>9, <2>10 DEF SupInv, Known, Process, files
  <2> QED BY <1>2, <2>6, <2>11
<1>3. CASE /\ processes' = [processes EXCEPT ![r] = mark_failed(processes[r])]
           /\ pc' = "failed"
           /\ UNCHANGED <<spawned, children, pid, alive>>
  <2>1. /\ processes' \in [Roles -> Published] /\ processes'[r].status = "failed"
        /\ \A q \in Roles : q # r => processes'[q] = processes[q]
    BY Zenon, <1>1, <1>3, Marks DEF SupInv, SupTypes
  <2>2. SupTypes'
    BY <1>3, <2>1 DEF SupInv, SupTypes, files
  <2>3. \A q \in Roles : processes'[q].status = "running" => processes'[q] = processes[q]
    BY <2>1
  <2>4. Known'
    BY <1>3, <2>3 DEF SupInv, Known, Process, Managed, files, Sidecars
  <2> QED BY <1>3, <2>2, <2>4
<1> QED BY <1>2, <1>3 DEF spawn_child

(* What follows terminate_child, the child having exited *)
LEMMA TerminatedInv ==
  ASSUME SupInv, pc \in Stopping, NEW r \in left, Terminated(r),
         alive' \subseteq alive, Process(r) \notin alive',
         UNCHANGED <<job, pid, spawned, files>>
  PROVE  SupInv'
<1>1. r \in Roles /\ pc # "failed"
  BY DEF SupInv, SupTypes, Stopping
<1>2. /\ processes' \in [Roles -> Published] /\ processes'[r].status = "stopped"
      /\ \A q \in Roles : q # r => processes'[q] = processes[q]
  BY Zenon, <1>1, Marks DEF SupInv, SupTypes, Terminated
<1>3. /\ children' \in Seq(Roles) /\ IsInjective(children')
      /\ \A q \in Roles : q # r /\ Managed(q) => Managed(q)'
  <2>1. CASE job.kind = "stop"
    <3> DEFINE i == CHOOSE i \in DOMAIN children : children[i] = r
    <3>1. r = job.role /\ Managed(job.role)
      BY <2>1 DEF SupInv, Placed
    <3>2. i \in DOMAIN children /\ children[i] = r
      BY <3>1 DEF Managed, Range
    <3>3. children' = SubSeq(children, 1, i - 1) \o SubSeq(children, i + 1, Len(children))
      BY <2>1 DEF Terminated, ChildrenWithout
    <3> HIDE DEF i
    <3>4. children' \in Seq(Roles) /\ IsInjective(children') /\ Range(children') = Range(children) \ {r}
      BY <3>2, <3>3, RemoveOne DEF SupInv, SupTypes
    <3> QED BY <3>4 DEF Managed
  <2>2. CASE job.kind # "stop"
    BY <2>2 DEF SupInv, SupTypes, Terminated, Managed
  <2> QED BY <2>1, <2>2
<1>4. SupTypes'
  BY <1>2, <1>3 DEF SupInv, SupTypes, Terminated, files
<1>5. \A a \in alive' : a[1] \in Roles /\ a = Process(a[1])' /\ a[1] # r
  BY DEF SupInv, Known, Process
<1>6. Known'
  <2>1. ASSUME NEW q \in Roles, Process(q)' \in alive'
        PROVE  pid'[q] # NoPid /\ Managed(q)'
    <3>1. Process(q)' = Process(q) /\ q # r
      BY <2>1 DEF Process
    <3>2. Process(q) \in alive
      BY <2>1, <3>1
    <3> QED BY <1>1, <1>3, <3>1, <3>2 DEF SupInv, Known
  <2>2. ASSUME NEW q \in Roles, processes'[q].status = "running"
        PROVE  /\ q # r /\ processes'[q] = processes[q]
               /\ Managed(q)' /\ processes'[q].pid = pid'[q] /\ pid'[q] # NoPid
    BY <1>2, <1>3, <2>2 DEF SupInv, Known
  <2>3. ASSUME NEW q \in Sidecars, processes'[q].status = "running", processes'[q].ready
        PROVE  Process(q)' \in wrote_ready'
    BY ZenonT(40), <2>2, <2>3 DEF SupInv, Known, Process, files, Sidecars
  <2> QED BY <1>5, <2>1, <2>2, <2>3 DEF SupInv, Known, files
<1>7. Placed'
  <2>1. CASE job.kind = "restart"
    <3>1. r = job.role /\ Managed(job.role)
      BY <2>1 DEF SupInv, Placed
    <3>2. pc' = "respawn" /\ children' = children
      BY <2>1 DEF Terminated
    <3> QED BY <1>1, <3>1, <3>2 DEF Placed, Process, Managed, Stopping
  <2>2. CASE job.kind = "stop"
    <3>1. pc' = "check"
      BY <2>2 DEF Terminated
    <3> QED BY <3>1, Idle
  <2>3. CASE job.kind \in {"shutdown", "exhausted"}
    <3>1. pc' = "terminate" /\ children' = children /\ left' = left \ {r}
      BY <2>3 DEF Terminated
    <3>2. left \subseteq Range(children) /\ \A a \in alive : a[1] \in left
      BY <2>3 DEF SupInv, Placed
    <3>3. \A a \in alive' : a[1] \in left'
      BY <1>5, <3>1, <3>2
    <3> QED BY <2>3, <3>1, <3>2, <3>3 DEF Placed, Stopping
  <2> QED BY <2>1, <2>2, <2>3 DEF SupInv, Placed
<1> QED BY <1>4, <1>6, <1>7 DEF SupInv

(* refresh_readiness keeps the statuses, and shows a child ready only when    *)
(* the file is its own.                                                       *)
LEMMA Refreshed ==
  ASSUME SupInv
  PROVE  /\ refresh_readiness \in [Roles -> Published]
         /\ \A r \in Roles : /\ refresh_readiness[r].status = processes[r].status
                             /\ refresh_readiness[r].pid = processes[r].pid
         /\ \A r \in Sidecars :
              processes[r].status = "running" /\ refresh_readiness[r].ready => Process(r) \in wrote_ready
<1>1. ASSUME NEW r \in Roles, NEW b \in BOOLEAN
      PROVE  LET p == [processes[r] EXCEPT !.ready = b]
             IN  p \in Published /\ p.status = processes[r].status
                 /\ p.pid = processes[r].pid /\ p.ready = b
  BY Zenon DEF SupInv, SupTypes, Published
<1>2. ASSUME NEW r \in Roles
      PROVE  /\ refresh_readiness[r] \in Published
             /\ refresh_readiness[r].status = processes[r].status
             /\ refresh_readiness[r].pid = processes[r].pid
             /\ refresh_readiness[r].ready = (r \in Sidecars /\ Probed(r))
  <2> DEFINE b == r \in Sidecars /\ Probed(r)
  <2>1. refresh_readiness[r] = [processes[r] EXCEPT !.ready = b]
    BY DEF refresh_readiness
  <2>2. b \in BOOLEAN
    OBVIOUS
  <2> HIDE DEF b
  <2>3. /\ refresh_readiness[r] \in Published
        /\ refresh_readiness[r].status = processes[r].status
        /\ refresh_readiness[r].pid = processes[r].pid
        /\ refresh_readiness[r].ready = b
    BY <1>1, <2>1, <2>2
  <2> QED BY <2>3 DEF b
<1>3. refresh_readiness \in [Roles -> Published]
  BY <1>2 DEF refresh_readiness
<1>4. ASSUME NEW r \in Sidecars, processes[r].status = "running", Probed(r)
      PROVE  Process(r) \in wrote_ready
  <2>1. processes[r].pid = pid[r] /\ pid[r] # NoPid
    BY <1>4 DEF SupInv, Known, Sidecars
  <2>2. ready_file[r].pid = pid[r]
    BY <1>4, <2>1 DEF Probed
  <2> QED BY <2>1, <2>2 DEF SupInv, Known, Process
<1> QED BY Zenon, <1>2, <1>3, <1>4 DEF Sidecars

-----------------------------------------------------------------------------
(* The children are spawned in the order of specs, each once. *)
LEMMA StartInv ==
  ASSUME SupInv, Start
  PROVE  SupInv'
<1> DEFINE n == Len(children) + 1
           r == Specs[n]
<1>1. /\ Len(children) \in Nat /\ n \in 1..Len(Specs) /\ r \in Roles
      /\ \A i \in 1..Len(children) : children[i] = Specs[i]
  BY SpecsAssumption DEF SupInv, SupTypes, Placed, Start, Roles, Range
<1>2. ~Managed(r)
  <2>1. DOMAIN children = 1..Len(children) /\ DOMAIN Specs = 1..Len(Specs) /\ Len(Specs) \in Nat
    BY SpecsAssumption DEF SupInv, SupTypes
  <2> HIDE DEF n
  <2>2. SUFFICES ASSUME NEW i \in DOMAIN children, children[i] = r PROVE FALSE
    BY DEF Managed, Range
  <2>3. Specs[i] = Specs[n] /\ i \in DOMAIN Specs /\ n \in DOMAIN Specs /\ i # n
    BY <1>1, <2>1, <2>2 DEF n
  <2> QED BY <2>3, SpecsAssumption DEF IsInjective
<1>3. Process(r) \notin alive /\ pc # "failed"
  BY <1>1, <1>2 DEF SupInv, Known, Start
<1>4. SupTypes' /\ Known' /\ pc' \in {IF r = Specs[Len(Specs)] THEN "top" ELSE "start", "failed"}
  BY Zenon, <1>1, <1>3, SpawnKnown DEF Start
<1>5. CASE pc' = "start"
  <2>1. children' = Append(children, r) /\ r # Specs[Len(Specs)]
    BY <1>2, <1>4, <1>5 DEF Start, spawn_child
  <2>2. n # Len(Specs)
    BY <2>1
  <2>3. n < Len(Specs)
    BY <1>1, <2>2, SpecsAssumption
  <2>4. Len(children') = n /\ \A i \in 1..n : children'[i] = Specs[i]
    BY <1>1, <2>1 DEF SupInv, SupTypes
  <2>5. Placed'
    BY <1>4, <1>5, <2>3, <2>4 DEF Placed, Stopping, SupTypes
  <2> QED BY <1>4, <2>5 DEF SupInv
<1>6. CASE pc' # "start"
  BY <1>4, <1>6, Idle DEF SupInv
<1> QED BY <1>5, <1>6

(* The commands *)
LEMMA CommandInv ==
  ASSUME SupInv, NoCommand \/ UnknownProcess \/ start_process
  PROVE  SupInv'
<1>1. CASE NoCommand \/ UnknownProcess
  <2>1. /\ pc = "top" /\ pc' \in {"check", "failed"} /\ left' = left
        /\ UNCHANGED <<procs, processes, files>>
    BY <1>1 DEF NoCommand, UnknownProcess, Command, procs
  <2> QED BY <2>1, ChildrenKept, Idle DEF SupInv, SupTypes
<1>2. CASE start_process
  <2> DEFINE r == Head(control).role
  <2>1. pc = "top" /\ r \in Roles /\ UNCHANGED <<left, files, termed>>
    BY <1>2 DEF start_process, Command
  <2>2. CASE Managed(r)
    <3>1. pc' = "check" /\ UNCHANGED <<procs, processes>>
      BY <1>2, <2>1, <2>2 DEF start_process, procs
    <3> QED BY <2>1, <3>1, ChildrenKept, Idle DEF SupInv, SupTypes
  <2>3. CASE ~Managed(r)
    <3>1. Process(r) \notin alive
      BY <2>1, <2>3 DEF SupInv, Known
    <3>2. spawn_child(r, processes[r], "check")
      BY <1>2, <2>3 DEF start_process
    <3> HIDE DEF r
    <3>3. SupTypes' /\ Known' /\ pc' \in {"check", "failed"}
      BY Zenon, <2>1, <3>1, <3>2, SpawnKnown
    <3> QED BY <3>3, Idle DEF SupInv
  <2> QED BY <2>2, <2>3
<1> QED BY <1>1, <1>2

(* The steps to the first terminate_child *)
LEMMA StopBegins ==
  ASSUME SupInv, StopRequested \/ stop_process
  PROVE  SupInv'
<1>1. CASE StopRequested
  <2>1. /\ pc = "top" /\ pc' = "drain" /\ job'.kind = "shutdown" /\ left' = Range(children)
        /\ UNCHANGED <<procs, processes, files>>
    BY <1>1 DEF StopRequested
  <2>2. left' \subseteq Roles
    BY <2>1 DEF SupInv, SupTypes, Range
  <2>3. \A a \in alive : a[1] \in Range(children)
    BY <2>1 DEF SupInv, Known, Managed
  <2>4. Placed'
    BY <2>1, <2>3 DEF Placed, Stopping, procs
  <2> QED BY <2>1, <2>2, <2>4, ChildrenKept DEF SupInv
<1>2. CASE stop_process
  <2> DEFINE c == Head(control)
  <2>1. /\ pc = "top" /\ c.kind \in {"stop", "restart"} /\ c.role \in Roles
        /\ UNCHANGED <<procs, processes, files>>
    BY <1>2 DEF stop_process, Command, procs
  <2>2. CASE Managed(c.role)
    <3>1. pc' = "drain" /\ job' = c /\ left' = {c.role}
      BY <1>2, <2>2 DEF stop_process
    <3> HIDE DEF c
    <3>2. Placed'
      BY <2>1, <2>2, <3>1 DEF Placed, Stopping, Managed, procs
    <3> QED BY <2>1, <3>1, <3>2, ChildrenKept DEF SupInv
  <2>3. CASE ~Managed(c.role)
    <3>1. pc' = "check" /\ left' = left
      BY <1>2, <2>3 DEF stop_process
    <3> QED BY <2>1, <3>1, ChildrenKept, Idle DEF SupInv, SupTypes
  <2> QED BY <2>2, <2>3
<1> QED BY <1>1, <1>2

LEMMA DrainInv ==
  ASSUME SupInv, drain_rnsd \/ wait_for_rnsd_drain \/ AllTerminated
  PROVE  SupInv'
<1>1. /\ pc \in Stopping /\ UNCHANGED <<job, left, procs, processes, files>>
      /\ pc' \in {"wait", "terminate"} \/ (pc' = "returned" /\ left = {} /\ pc = "terminate")
  BY DEF drain_rnsd, wait_for_rnsd_drain, AllTerminated, Stopping
<1>2. SupTypes' /\ Known'
  BY <1>1, ChildrenKept DEF SupInv, SupTypes, Stopping
<1>3. Placed'
  BY ZenonT(40), <1>1 DEF SupInv, Placed, Stopping, Managed, procs
<1> QED BY <1>2, <1>3 DEF SupInv

(* A step that changes no child, and shows no more as running and ready *)
LEMMA PublishedKnown ==
  ASSUME SupInv, UNCHANGED <<children, pid, alive, files>>, pc # "failed",
         \A q \in Roles : processes'[q].status = "running" =>
           processes[q].status = "running" /\ processes'[q].pid = processes[q].pid,
         \A q \in Sidecars : processes'[q].status = "running" /\ processes'[q].ready =>
           Process(q) \in wrote_ready
  PROVE  Known'
<1>1. \A a \in alive' : a[1] \in Roles /\ a = Process(a[1])'
  BY DEF SupInv, Known, Process
<1>2. ASSUME NEW q \in Roles
      PROVE  (/\ Process(q) \in alive => pid[q] # NoPid /\ Managed(q)
              /\ processes[q].status = "running" =>
                   Managed(q) /\ processes[q].pid = pid[q] /\ pid[q] # NoPid)'
  BY DEF SupInv, Known, Process, Managed
<1>3. ASSUME NEW q \in Sidecars
      PROVE  (/\ processes[q].status = "running" /\ processes[q].ready => Process(q) \in wrote_ready
              /\ ready_file[q].pid # NoPid => <<q, ready_file[q].pid>> \in wrote_ready
              /\ ready_file[q].status = "ready" => ready_file[q].pid # NoPid)'
  BY SMTT(30) DEF SupInv, Known, Process, files
<1> QED BY <1>1, <1>2, <1>3 DEF Known

(* terminate_child, to the exit of the child *)
LEMMA TerminateInv ==
  ASSUME SupInv, terminate_child \/ PollExit
  PROVE  SupInv'
<1> DEFINE r == NextToStop
<1>1. pc \in Stopping /\ left # {} /\ UNCHANGED <<job, pid, spawned, files>>
  BY DEF SupInv, Placed, terminate_child, PollExit, Stopping
<1>2. r \in left /\ r \in Roles
  BY <1>1, StopOrder DEF SupInv, SupTypes
<1>3. ~Running(r) => Process(r) \notin alive
  BY <1>1, <1>2 DEF SupInv, Known, Running, Stopping
<1>4. CASE terminate_child
  <2>1. CASE Running(r)
    <3>1. pc' = "grace" /\ UNCHANGED <<left, children, processes, alive>>
      BY <1>4, <2>1 DEF terminate_child
    <3>2. SupTypes' /\ Known'
      BY <1>1, <3>1 DEF SupInv, SupTypes, Known, Managed, Process, files, Stopping
    <3>3. Placed'
      BY <1>1, <3>1 DEF SupInv, Placed, Stopping, Managed
    <3> QED BY <3>2, <3>3 DEF SupInv
  <2>2. CASE ~Running(r)
    <3>1. Terminated(r) /\ alive' = alive
      BY <1>4, <2>2 DEF terminate_child
    <3> QED BY <1>1, <1>2, <1>3, <2>2, <3>1, TerminatedInv
  <2> QED BY <2>1, <2>2
<1>5. CASE PollExit
  <2>1. CASE ~Running(r) /\ Terminated(r) /\ alive' = alive
    BY <1>1, <1>2, <1>3, <2>1, TerminatedInv
  <2>2. CASE Gone(r) /\ Terminated(r)
    <3>1. alive' = alive \ {Process(r)}
      BY <2>2 DEF Gone
    <3> HIDE DEF r
    <3> QED BY <1>1, <1>2, <2>2, <3>1, TerminatedInv
  <2>3. CASE processes' = Observed(r) /\ UNCHANGED <<pc, left, children, alive>>
    <3>1. processes' = processes \/ processes' = [processes EXCEPT ![r].ready = FALSE]
      BY <2>3 DEF Observed
    <3>2. [processes[r] EXCEPT !.ready = FALSE] \in Published
      BY Zenon, <1>2 DEF SupInv, SupTypes, Published
    <3> HIDE DEF r
    <3>3. processes' \in [Roles -> Published]
      BY Zenon, <1>2, <3>1, <3>2 DEF SupInv, SupTypes
    <3>4. \A q \in Roles :
            /\ processes'[q].status = processes[q].status
            /\ processes'[q].pid = processes[q].pid
            /\ processes'[q].ready = processes[q].ready \/ processes'[q].ready = FALSE
      <4> DEFINE o == [processes[r] EXCEPT !.ready = FALSE]
      <4>1. o.status = processes[r].status /\ o.pid = processes[r].pid /\ o.ready = FALSE
        BY <1>2 DEF SupInv, SupTypes, Published
      <4>2. \A q \in Roles : processes'[q] = processes[q] \/ (q = r /\ processes'[q] = o)
        BY ZenonT(40), <1>2, <3>1 DEF SupInv, SupTypes
      <4> HIDE DEF o
      <4> QED BY <4>1, <4>2, Zenon
    <3>5. SupTypes'
      BY <1>1, <2>3, <3>3 DEF SupInv, SupTypes, files
    <3>6. Known'
      <4>1. \A q \in Sidecars : processes'[q].status = "running" /\ processes'[q].ready =>
              Process(q) \in wrote_ready
        BY Zenon, <3>4 DEF SupInv, Known, Sidecars
      <4>2. UNCHANGED <<children, pid, alive, files>> /\ pc # "failed"
        BY <1>1, <2>3 DEF Stopping
      <4>3. \A q \in Roles : processes'[q].status = "running" =>
              processes[q].status = "running" /\ processes'[q].pid = processes[q].pid
        BY SMTT(30), <3>4
      <4> QED BY <4>1, <4>2, <4>3, PublishedKnown, Zenon
    <3>7. Placed'
      BY <1>1, <2>3 DEF SupInv, Placed, Stopping, Managed, Process
    <3> QED BY <3>5, <3>6, <3>7 DEF SupInv
  <2> QED BY <1>5, <2>1, <2>2, <2>3 DEF PollExit
<1> QED BY <1>4, <1>5

LEMMA RespawnInv ==
  ASSUME SupInv, Respawn
  PROVE  SupInv'
<1>1. /\ job.role \in Roles /\ Process(job.role) \notin alive /\ pc # "failed"
      /\ spawn_child(job.role, processes[job.role], IF job.kind = "restart" THEN "check" ELSE "top")
      /\ UNCHANGED <<left, files>>
  BY DEF SupInv, Placed, Respawn
<1>2. SupTypes' /\ Known' /\ pc' \in {IF job.kind = "restart" THEN "check" ELSE "top", "failed"}
  BY <1>1, SpawnKnown
<1> QED BY <1>2, Idle DEF SupInv

(* The exit of a child is followed by its spawn, or by the end of all. *)
LEMMA CheckExitsInv ==
  ASSUME SupInv, CheckExits
  PROVE  SupInv'
<1> DEFINE exited == {i \in DOMAIN children : ~Running(children[i])}
           r == children[Min(exited)]
<1>1. pc = "check" /\ UNCHANGED <<procs, files>>
  BY DEF CheckExits
<1>2. CASE exited = {}
  <2>1. pc' = "top" /\ processes' = refresh_readiness /\ left' = left
    BY SMTT(30), <1>2 DEF CheckExits
  <2>2. SupTypes'
    BY <1>1, <2>1, Refreshed DEF SupInv, SupTypes, procs, files
  <2>3. Known'
    <3>1. UNCHANGED <<children, pid, alive, files>> /\ pc # "failed"
      BY <1>1 DEF procs
    <3>2. \A q \in Roles : processes'[q].status = "running" =>
            processes[q].status = "running" /\ processes'[q].pid = processes[q].pid
      BY <2>1, Refreshed
    <3>3. \A q \in Sidecars : processes'[q].status = "running" /\ processes'[q].ready =>
            Process(q) \in wrote_ready
      BY <2>1, Refreshed DEF Sidecars
    <3> QED BY <3>1, <3>2, <3>3, PublishedKnown, Zenon
  <2> QED BY SMTT(30), <2>1, <2>2, <2>3, Idle DEF SupInv
<1>3. CASE exited # {}
  <2>1. Min(exited) \in exited
    <3>1. exited \in SUBSET Nat
      BY DEF SupInv, SupTypes
    <3> HIDE DEF exited
    <3> QED BY <1>3, <3>1, MinMember
  <2>2. r \in Roles /\ Managed(r) /\ ~Running(r)
    <3> DEFINE i == Min(exited)
    <3>1. i \in DOMAIN children /\ ~Running(children[i])
      BY <2>1
    <3> HIDE DEF i
    <3>2. children[i] \in Roles /\ Managed(children[i])
      BY <3>1 DEF SupInv, SupTypes, Managed, Range
    <3> QED BY <3>1, <3>2 DEF i
  <2>3. Process(r) \notin alive
    BY SMTT(30), <2>2 DEF Running
  <2>4. /\ processes' = [refresh_readiness EXCEPT ![r] = mark_stopped(refresh_readiness[r])]
        /\ \/ pc' = "respawn" /\ job' = [kind |-> "crashed", role |-> r] /\ left' = left
           \/ /\ pc' = "terminate" /\ job' = [kind |-> "exhausted", role |-> r]
              /\ left' = Range(children)
    BY <1>3, <2>2, Refreshed DEF CheckExits
  <2> HIDE DEF r
  <2>5. /\ processes' \in [Roles -> Published] /\ processes'[r].status = "stopped"
        /\ \A q \in Roles : q # r => processes'[q] = refresh_readiness[q]
    BY ZenonT(40), <2>2, <2>4, Refreshed, Marks
  <2>6. left' \subseteq Roles
    BY <2>4 DEF SupInv, SupTypes, Range
  <2>7. SupTypes'
    BY <1>1, <2>5, <2>6 DEF SupInv, SupTypes, procs, files
  <2>8. Known'
    <3>1. \A q \in Roles : processes'[q].status = "running" =>
            /\ q # r /\ processes[q].status = "running" /\ processes'[q].pid = processes[q].pid
            /\ processes'[q] = refresh_readiness[q]
      BY <2>5, Refreshed
    <3>2. \A q \in Sidecars : processes'[q].status = "running" /\ processes'[q].ready =>
            Process(q) \in wrote_ready
      BY <3>1, Refreshed DEF Sidecars
    <3> QED BY <1>1, <3>1, <3>2, PublishedKnown DEF procs
  <2>9. Placed'
    <3>1. CASE pc' = "respawn"
      BY SMTT(30), <1>1, <2>2, <2>3, <2>4, <3>1 DEF Placed, Managed, Process, Stopping, procs
    <3>2. CASE pc' = "terminate"
      <4>1. job'.kind = "exhausted" /\ left' = Range(children') /\ alive' = alive
        BY <1>1, <2>4, <3>2 DEF procs
      <4>2. \A a \in alive : a[1] \in Range(children)
        BY <1>1 DEF SupInv, Known, Managed
      <4> QED BY <1>1, <3>2, <4>1, <4>2 DEF Placed, Stopping, procs
    <3> QED BY SMTT(30), <2>4, <3>1, <3>2
  <2> QED BY <2>7, <2>8, <2>9 DEF SupInv
<1> QED BY SMTT(30), <1>2, <1>3

(* A sidecar reports ready, or draining, in its file. *)
LEMMA MarkFileInv ==
  ASSUME SupInv, NEW r \in Sidecars, MarkReady(r) \/ MarkDraining(r)
  PROVE  SupInv'
<1>1. /\ UNCHANGED <<steps, procs, processes>> /\ r \in Roles
      /\ Process(r) \in alive /\ pid[r] # NoPid /\ pid[r] \in Nat
  BY SMTT(30) DEF MarkReady, MarkDraining, Alive, Sidecars, SupInv, SupTypes, Known
<1>2. /\ ready_file' \in [Sidecars -> Files] /\ ready_file'[r].pid = pid[r]
      /\ \A q \in Sidecars : q # r => ready_file'[q] = ready_file[q]
  <2>1. ready_file \in [Sidecars -> Files]
    BY SMTT(30) DEF SupInv, SupTypes
  <2>2. CASE MarkReady(r)
    <3>1. [status |-> "ready", pid |-> pid[r]] \in Files
      BY SMTT(30), <1>1 DEF Files
    <3> QED BY SMTT(30), <2>1, <2>2, <3>1 DEF MarkReady
  <2>3. CASE MarkDraining(r)
    <3> DEFINE f == [ready_file[r] EXCEPT !.status = "draining"]
    <3>1. ready_file' = [ready_file EXCEPT ![r] = f]
      BY <2>3 DEF MarkDraining
    <3>2. f \in Files /\ f.pid = pid[r]
      BY <2>1, <2>3 DEF MarkDraining, Files
    <3> HIDE DEF f
    <3> QED BY <2>1, <3>1, <3>2
  <2> QED BY <2>2, <2>3
<1>3. /\ Process(r) \in wrote_ready'
      /\ \A q \in Sidecars, n \in Nat : q # r /\ <<q, n>> \in wrote_ready => <<q, n>> \in wrote_ready'
  BY <1>1 DEF MarkReady, MarkDraining, SupInv, Known, Process
<1>4. SupTypes'
  BY SMTT(30), <1>1, <1>2 DEF SupInv, SupTypes, steps, procs
<1>5. ASSUME NEW q \in Sidecars
      PROVE  (/\ processes[q].status = "running" /\ processes[q].ready => Process(q) \in wrote_ready
              /\ ready_file[q].pid # NoPid => <<q, ready_file[q].pid>> \in wrote_ready
              /\ ready_file[q].status = "ready" => ready_file[q].pid # NoPid)'
  <2>1. ready_file[q].pid \in Nat /\ pid[q] \in Nat
    BY DEF SupInv, SupTypes, Files, Sidecars
  <2>2. CASE q = r
    BY <1>1, <1>2, <1>3, <2>2 DEF Process, procs
  <2>3. CASE q # r
    BY SMTT(30), <1>1, <1>2, <1>3, <2>1, <2>3 DEF SupInv, Known, Process, procs
  <2> QED BY <2>2, <2>3
<1>6. Known'
  BY SMTT(30), <1>1, <1>5 DEF SupInv, Known, Managed, Process, steps, procs
<1>7. Placed'
  BY <1>1 DEF SupInv, Placed, Managed, Process, steps, procs
<1> QED BY <1>4, <1>6, <1>7 DEF SupInv

LEMMA SupStart ==
  ASSUME SupInit
  PROVE  SupInv
<1>1. NoFile \in Files /\ NoFile.pid = NoPid /\ NoFile.status = "none"
  BY DEF Files, NoFile, NoPid
<1>2. SupTypes
  BY SMTT(30), <1>1 DEF SupInit, SupTypes, Published, NoPid, IsInjective
<1>3. Known
  BY SMTT(30), <1>1 DEF SupInit, Known, NoPid, Sidecars
<1>4. Placed
  BY SpecsAssumption DEF SupInit, Placed, Stopping
<1> QED BY <1>2, <1>3, <1>4 DEF SupInv

LEMMA SupInductive ==
  ASSUME SupInv, [SupNext]_supvars
  PROVE  SupInv'
<1>1. CASE SupervisorStep
  BY <1>1, StartInv, CommandInv, StopBegins, DrainInv, TerminateInv, RespawnInv, CheckExitsInv
     DEF SupervisorStep
<1>2. CASE StopSignal \/ Issue \/ DriverRuns \/ TimeGoesBy \/ UNCHANGED supvars
  <2>1. UNCHANGED <<pc, job, left, children, pid, spawned, processes, wrote_ready, alive, ready_file>>
    BY <1>2 DEF StopSignal, Issue, DriverRuns, TimeGoesBy, supvars, steps, procs, files
  <2> QED BY SMTT(30), <2>1, MayExit
<1>3. CASE StopRnsd \/ \E r \in Roles : Crash(r)
  <2>1. /\ UNCHANGED <<pc, job, left, children, pid, spawned, processes, wrote_ready, ready_file>>
        /\ alive' \subseteq alive
    BY <1>3 DEF StopRnsd, Crash, Gone, steps, files
  <2> QED BY <2>1, MayExit
<1>4. ASSUME NEW r \in Sidecars, ClearFile(r) \/ ExitSidecar(r)
      PROVE  SupInv'
  <2>1. /\ UNCHANGED <<pc, job, left, children, pid, spawned, processes, wrote_ready>>
        /\ alive' \subseteq alive /\ ready_file' = [ready_file EXCEPT ![r] = NoFile]
    BY <1>4 DEF ClearFile, ExitSidecar, Gone, steps, procs
  <2> QED BY Zenon, <2>1, MayExit
<1>5. ASSUME NEW r \in Sidecars, MarkReady(r) \/ MarkDraining(r)
      PROVE  SupInv'
  BY <1>5, MarkFileInv
<1> QED BY <1>1, <1>2, <1>3, <1>4, <1>5 DEF SupNext

(* What is known of the children, and of where run is, holds throughout. *)
THEOREM SupAlways == SupSpec => []SupInv
<1>1. SupInit => SupInv
  BY SupStart
<1>2. SupInv /\ [SupNext]_supvars => SupInv'
  BY SupInductive
<1> QED BY <1>1, <1>2, PTL DEF SupSpec

(* The supervisor knows what runs, whatever it is told to start, stop and     *)
(* restart, however its children exit, and however often: no role has two     *)
(* processes, and what is published as running and ready is its own child,    *)
(* which reported so.                                                         *)
THEOREM KnowsItsChildren == SupSpec => []ChildrenKnown
<1>1. SupInv => ChildrenKnown
  <2> SUFFICES ASSUME SupInv PROVE ChildrenKnown
    OBVIOUS
  <2>1. \A p, q \in alive : p[1] = q[1] => p = q
    BY DEF SupInv, Known, Process
  <2> QED BY Zenon, <2>1 DEF SupInv, Known, ChildrenKnown
<1> QED BY <1>1, SupAlways, PTL

(* A shutdown leaves no process, and stops rnsd when its sidecars have exited,*)
(* whatever roles there are and however long each takes to exit.              *)
THEOREM ShutdownStopsAll == SupSpec => []StopsAll
<1>1. SupInv => StopsAll
  <2> SUFFICES ASSUME SupInv PROVE StopsAll
    OBVIOUS
  <2>1. pc = "returned" => alive = {}
    BY DEF SupInv, Placed
  <2>2. ASSUME job.kind \in {"shutdown", "exhausted"}, pc = "grace", NextToStop = "rnsd"
        PROVE  alive \subseteq {Process("rnsd")}
    <3>1. left = {"rnsd"} /\ \A a \in alive : a[1] \in left
      BY <2>2, StopOrder DEF SupInv, SupTypes, Placed, Stopping
    <3> QED BY SMTT(30), <3>1 DEF SupInv, Known
  <2> QED BY <2>1, <2>2 DEF StopsAll
<1> QED BY <1>1, SupAlways, PTL

=============================================================================
