----------------------------- MODULE Supervisor -----------------------------
(***************************************************************************)
(* The supervisor of rns-server (rns-server/src/supervisor.rs and           *)
(* supervisor/): it spawns rnsd and its sidecars, restarts them on command  *)
(* and when they exit, publishes their status (rns-ctl/src/state.rs), and   *)
(* on a signal drains rnsd and terminates all.                              *)
(*                                                                          *)
(* A process is a role and the number of its spawn, its pid.  rnsd carries  *)
(* the driver of Lifecycle; a sidecar keeps a readiness file                *)
(* (rns-cli/src/readiness.rs).                                              *)
(***************************************************************************)
EXTENDS Lifecycle, Sequences, Functions, FiniteSetsExt

CONSTANTS Specs,                     \* the roles to run, in the order of specs
          MAX_UNEXPECTED_RESTARTS,
          TERMINATE_GRACE_POLLS,
          Scripts                    \* bound: the sequences of commands that are issued

Roles == Range(Specs)
Sidecars == Roles \ {"rnsd"}
NoPid == 0

shutdown_priority == [statsd |-> 0, sentineld |-> 1, rnsd |-> 2]

ASSUME SpecsAssumption ==
  Specs \in Seq(DOMAIN shutdown_priority) /\ Specs # <<>> /\ IsInjective(Specs)

VARIABLES pc,           \* where run_with_started_hook is
          job,          \* the command, or the end of run, it works on
          left,         \* the roles still to terminate
          grace,        \* polls left before SIGKILL
          wait_left,    \* time left in wait_for_rnsd_drain
          children,     \* the roles of the managed children, in order
          pid,          \* the pid of each one's last child
          alive,        \* the processes that have not exited
          termed,       \* those sent SIGTERM
          spawned,      \* how many have been spawned
          processes,    \* the status published for each role
          attempts,     \* unexpected_restart_counts
          ready_file,   \* what the file of each sidecar says, and by which pid
          wrote_ready,  \* history: processes that have reported ready
          control,      \* the queue of control commands
          script,       \* the commands still to be issued
          signalled     \* whether SIGTERM or SIGINT has come

steps == <<pc, job, left, grace, wait_left>>
procs == <<children, pid, alive, termed, spawned>>
files == <<ready_file, wrote_ready>>
inputs == <<control, script, signalled>>
supvars == <<steps, procs, processes, attempts, files, inputs, drivervars>>

NoFile == [status |-> "none", pid |-> NoPid]
NoJob == [kind |-> "none", role |-> "rnsd"]

Managed(r) == r \in Range(children)
ChildrenWithout(r) ==
  LET i == CHOOSE i \in DOMAIN children : children[i] = r
  IN  SubSeq(children, 1, i - 1) \o SubSeq(children, i + 1, Len(children))
Process(r) == <<r, pid[r]>>
Running(r) == Managed(r) /\ Process(r) \in alive

-----------------------------------------------------------------------------
(* mark_process_running, mark_process_stopped, mark_process_failed_spawn      *)
mark_running(p, n) == [p EXCEPT !.status = "running", !.ready = FALSE, !.pid = n]
mark_stopped(p) == [p EXCEPT !.status = "stopped", !.ready = FALSE, !.pid = NoPid]
mark_failed(p) == [p EXCEPT !.status = "failed", !.ready = FALSE, !.pid = NoPid]

(* The process of role r ends, and rnsd's driver with it. *)
Gone(r) ==
  /\ alive' = alive \ {Process(r)} /\ termed' = termed \ {Process(r)}
  /\ IF r = "rnsd" THEN StartDriver ELSE UNCHANGED drivervars

(* spawn_child: when it fails, run returns the error and leaves the other     *)
(* children to themselves.                                                    *)
spawn_child(r, p, next) ==
  \/ /\ spawned' = spawned + 1
     /\ children' = IF Managed(r) THEN children ELSE Append(children, r)
     /\ pid' = [pid EXCEPT ![r] = spawned + 1]
     /\ alive' = alive \cup {<<r, spawned + 1>>}
     /\ processes' = [processes EXCEPT ![r] = mark_running(p, spawned + 1)]
     /\ pc' = next
  \/ /\ processes' = [processes EXCEPT ![r] = mark_failed(p)]
     /\ pc' = "failed"
     /\ UNCHANGED <<spawned, children, pid, alive>>

(* The children are spawned in the order of specs; then the loop begins.      *)
Start ==
  /\ pc = "start"
  /\ LET r == Specs[Len(children) + 1]
     IN  spawn_child(r, processes[r], IF r = Specs[Len(Specs)] THEN "top" ELSE "start")
  /\ UNCHANGED <<job, left, grace, wait_left, termed, attempts, files, inputs, drivervars>>

(* The top of the loop: a signal goes before a command.                       *)
StopRequested ==
  /\ pc = "top" /\ signalled
  /\ pc' = "drain" /\ job' = [kind |-> "shutdown", role |-> "rnsd"]
  /\ left' = Range(children)
  /\ UNCHANGED <<grace, wait_left, procs, processes, attempts, files, inputs, drivervars>>

NoCommand ==
  /\ pc = "top" /\ ~signalled /\ control = <<>>
  /\ pc' = "check" /\ job' = NoJob
  /\ UNCHANGED <<left, grace, wait_left, procs, processes, attempts, files, inputs, drivervars>>

Command(kinds) ==
  /\ pc = "top" /\ ~signalled /\ control # <<>> /\ Head(control).kind \in kinds
  /\ control' = Tail(control)
  /\ UNCHANGED <<grace, wait_left, termed, attempts, files, script, signalled>>

(* A name that is no role, or has no spec: run returns the error. *)
UnknownProcess ==
  /\ Command({"start", "stop", "restart"}) /\ Head(control).role \notin Roles
  /\ pc' = "failed"
  /\ UNCHANGED <<job, left, children, pid, alive, spawned, processes, drivervars>>

start_process ==
  /\ Command({"start"}) /\ Head(control).role \in Roles
  /\ LET r == Head(control).role
     IN  IF Managed(r)
         THEN pc' = "check" /\ UNCHANGED <<children, pid, alive, spawned, processes>>
         ELSE spawn_child(r, processes[r], "check")
  /\ UNCHANGED <<job, left, drivervars>>

(* restart_process and stop_process leave a role without a child alone, and   *)
(* drain rnsd first.                                                          *)
stop_process ==
  /\ Command({"stop", "restart"}) /\ Head(control).role \in Roles
  /\ LET r == Head(control).role
     IN  IF Managed(r)
         THEN pc' = "drain" /\ job' = Head(control) /\ left' = {r}
         ELSE pc' = "check" /\ UNCHANGED <<job, left>>
  /\ UNCHANGED <<children, pid, alive, spawned, processes, drivervars>>

-----------------------------------------------------------------------------
(* drain_role, drain_rnsd: the RPC fails when rnsd does not answer it.        *)
drain_rnsd ==
  /\ pc = "drain"
  /\ \/ /\ job.role = "rnsd" /\ Running("rnsd") /\ lifecycle_state # "stopped"
        /\ begin_drain
        /\ pc' = "wait" /\ wait_left' = DrainTimeout
     \/ pc' = "terminate" /\ UNCHANGED <<wait_left, drivervars>>
  /\ UNCHANGED <<job, left, grace, procs, processes, attempts, files, inputs>>

(* wait_for_rnsd_drain, to the poll that ends it *)
DrainWaitOverPolled == Running("rnsd") /\ CompleteForShutdown  \* mutant: no deadline of its own
DrainWaitOver == wait_left = 0 \/ (Running("rnsd") /\ CompleteForShutdown)
wait_for_rnsd_drain ==
  /\ pc = "wait"
  /\ DrainWaitOver
  /\ pc' = "terminate" /\ wait_left' = 0
  /\ UNCHANGED <<job, left, grace, procs, processes, attempts, files, inputs, drivervars>>

(* terminate_children takes the children in the order of their priorities.    *)
NextToStop == CHOOSE r \in left : \A q \in left : shutdown_priority[r] <= shutdown_priority[q]

(* What follows terminate_child for the child of role r: restart_process,     *)
(* stop_process, or the next of terminate_children.                           *)
Terminated(r) ==
  /\ processes' = [processes EXCEPT ![r] = mark_stopped(@)]
  /\ left' = left \ {r}
  /\ pc' = CASE job.kind = "restart" -> "respawn"
             [] job.kind = "stop" -> "check"
             [] OTHER -> "terminate"
  /\ children' = IF job.kind = "stop" THEN ChildrenWithout(r) ELSE children

terminate_child ==
  /\ pc = "terminate" /\ left # {}
  /\ IF Running(NextToStop)
     THEN /\ termed' = termed \cup {Process(NextToStop)}
          /\ pc' = "grace" /\ grace' = TERMINATE_GRACE_POLLS
          /\ UNCHANGED <<left, children, processes>>
     ELSE Terminated(NextToStop) /\ UNCHANGED <<termed, grace>>
  /\ UNCHANGED <<job, wait_left, pid, alive, spawned, attempts, files, inputs, drivervars>>

(* observe_sidecar_draining *)
Observed(r) ==
  IF r \in Sidecars /\ ready_file[r] = [status |-> "draining", pid |-> processes[r].pid]
  THEN [processes EXCEPT ![r].ready = FALSE] ELSE processes

PollExitSpares ==           \* mutant: no SIGKILL after the last poll
  /\ pc = "grace"
  /\ IF Running(NextToStop) /\ grace > 0
     THEN /\ grace' = grace - 1 /\ processes' = Observed(NextToStop)
          /\ UNCHANGED <<pc, left, children>>
     ELSE Terminated(NextToStop) /\ grace' = 0
  /\ UNCHANGED <<job, wait_left, pid, alive, termed, spawned, attempts, files, inputs, drivervars>>

(* A poll: the child has exited, has more time, or is killed. *)
PollExit ==
  /\ pc = "grace"
  /\ LET r == NextToStop
     IN  \/ ~Running(r) /\ Terminated(r) /\ grace' = 0 /\ UNCHANGED <<alive, termed, drivervars>>
         \/ /\ Running(r) /\ grace > 0
            /\ grace' = grace - 1 /\ processes' = Observed(r)
            /\ UNCHANGED <<pc, left, children, alive, termed, drivervars>>
         \/ Running(r) /\ grace = 0 /\ Gone(r) /\ Terminated(r) /\ UNCHANGED grace
  /\ UNCHANGED <<job, wait_left, pid, spawned, attempts, files, inputs>>

(* The spawn that ends restart_process and restart_unexpected_exit *)
Respawn ==
  /\ pc = "respawn"
  /\ spawn_child(job.role, processes[job.role], IF job.kind = "restart" THEN "check" ELSE "top")
  /\ UNCHANGED <<job, left, grace, wait_left, termed, attempts, files, inputs, drivervars>>

AllTerminated ==
  /\ pc = "terminate" /\ left = {}
  /\ pc' = "returned"
  /\ UNCHANGED <<job, left, grace, wait_left, procs, processes, attempts, files, inputs, drivervars>>

(* probe_ready_file: the file must be of the process whose pid is published,  *)
(* if one is.                                                                 *)
ProbedAnyPid(r) == ready_file[r].status = "ready"  \* mutant: the pid is not compared
Probed(r) ==
  /\ ready_file[r].status = "ready"
  /\ processes[r].pid \in {NoPid, ready_file[r].pid}

(* The probe of rnsd, which connects to its socket, is left out. *)
refresh_readiness ==
  [r \in Roles |-> [processes[r] EXCEPT !.ready = r \in Sidecars /\ Probed(r)]]

(* refresh_readiness, then check_exits, of which the first to have exited is  *)
(* taken: restart_unexpected_exit, or the end of run.                         *)
CheckExits ==
  /\ pc = "check"
  /\ LET exited == {i \in DOMAIN children : ~Running(children[i])}
         r == children[Min(exited)]
     IN  IF exited = {}
         THEN pc' = "top" /\ processes' = refresh_readiness /\ UNCHANGED <<job, left, attempts>>
         ELSE /\ processes' = [refresh_readiness EXCEPT ![r] = mark_stopped(@)]
              /\ IF attempts[r] < MAX_UNEXPECTED_RESTARTS
                 THEN /\ attempts' = [attempts EXCEPT ![r] = @ + 1]
                      /\ pc' = "respawn" /\ job' = [kind |-> "crashed", role |-> r]
                      /\ UNCHANGED left
                 ELSE /\ pc' = "terminate" /\ job' = [kind |-> "exhausted", role |-> r]
                      /\ left' = Range(children)
                      /\ UNCHANGED attempts
  /\ UNCHANGED <<grace, wait_left, procs, files, inputs, drivervars>>

SupervisorStep ==
  \/ Start \/ StopRequested \/ NoCommand \/ UnknownProcess \/ start_process \/ stop_process
  \/ drain_rnsd \/ wait_for_rnsd_drain \/ terminate_child \/ PollExit \/ AllTerminated
  \/ Respawn \/ CheckExits

Ended == pc \in {"returned", "failed"}

-----------------------------------------------------------------------------
(* While run lasts, a process may exit at any time, and leave its file; one   *)
(* that was sent SIGTERM may stop as it should.                               *)
Alive(r) == ~Ended /\ Process(r) \in alive

Crash(r) ==
  /\ Alive(r) /\ Gone(r)
  /\ UNCHANGED <<steps, children, pid, spawned, processes, attempts, files, inputs>>

(* rnsd: node.shutdown(), then the end of the process *)
StopRnsd ==
  /\ Alive("rnsd") /\ Process("rnsd") \in termed
  /\ \/ graceful_shutdown /\ UNCHANGED <<alive, termed>>
     \/ lifecycle_state = "stopped" /\ Gone("rnsd")
  /\ UNCHANGED <<steps, children, pid, spawned, processes, attempts, files, inputs>>

(* A sidecar clears the file it finds, reports ready, reports draining after  *)
(* SIGTERM, and clears the file as it exits.                                  *)
ClearFile(r) ==
  /\ Alive(r) /\ ready_file[r].pid \notin {NoPid, pid[r]}
  /\ ready_file' = [ready_file EXCEPT ![r] = NoFile]
  /\ UNCHANGED <<steps, procs, processes, attempts, wrote_ready, inputs, drivervars>>

MarkReady(r) ==
  /\ Alive(r) /\ ready_file[r] = NoFile
  /\ ready_file' = [ready_file EXCEPT ![r] = [status |-> "ready", pid |-> pid[r]]]
  /\ wrote_ready' = {p \in wrote_ready : p[1] # r} \cup {Process(r)}
  /\ UNCHANGED <<steps, procs, processes, attempts, inputs, drivervars>>

MarkDraining(r) ==
  /\ Alive(r) /\ Process(r) \in termed /\ ready_file[r] = [status |-> "ready", pid |-> pid[r]]
  /\ ready_file' = [ready_file EXCEPT ![r].status = "draining"]
  /\ UNCHANGED <<steps, procs, processes, attempts, wrote_ready, inputs, drivervars>>

ExitSidecar(r) ==
  /\ Alive(r) /\ Process(r) \in termed /\ Gone(r)
  /\ ready_file' = [ready_file EXCEPT ![r] = NoFile]
  /\ UNCHANGED <<steps, children, pid, spawned, processes, attempts, wrote_ready, inputs>>

StopSignal ==
  /\ pc # "start" /\ ~Ended /\ ~signalled
  /\ signalled' = TRUE
  /\ UNCHANGED <<steps, procs, processes, attempts, files, control, script, drivervars>>

Issue ==
  /\ pc # "start" /\ ~Ended /\ script # <<>>
  /\ script' = Tail(script) /\ control' = Append(control, Head(script))
  /\ UNCHANGED <<steps, procs, processes, attempts, files, signalled, drivervars>>

DriverRuns ==
  /\ Alive("rnsd") /\ DriverStep
  /\ UNCHANGED <<steps, procs, processes, attempts, files, inputs>>

(* One clock for the two deadlines *)
TimeDue == ~Ended /\ (wait_left > 0 \/ drain_left \in 1..DrainTimeout)
TimeGoesBy ==
  /\ TimeDue
  /\ wait_left' = IF wait_left > 0 THEN wait_left - 1 ELSE 0
  /\ drain_left' = IF drain_left \in 1..DrainTimeout THEN drain_left - 1 ELSE drain_left
  /\ UNCHANGED <<pc, job, left, grace, procs, processes, attempts, files, inputs,
                 lifecycle_state, work>>

SupInit ==
  /\ pc = "start" /\ job = NoJob /\ left = {} /\ grace = 0 /\ wait_left = 0
  /\ children = <<>> /\ pid = [r \in Roles |-> NoPid] /\ alive = {} /\ termed = {} /\ spawned = 0
  /\ processes = [r \in Roles |-> [status |-> "stopped", ready |-> FALSE, pid |-> NoPid]]
  /\ attempts = [r \in Roles |-> 0]
  /\ ready_file = [r \in Sidecars |-> NoFile] /\ wrote_ready = {}
  /\ control = <<>> /\ script \in Scripts /\ signalled = FALSE
  /\ NewDriver

SupNext ==
  \/ SupervisorStep \/ StopSignal \/ Issue \/ StopRnsd \/ DriverRuns \/ TimeGoesBy
  \/ \E r \in Roles : Crash(r)
  \/ \E r \in Sidecars : ClearFile(r) \/ MarkReady(r) \/ MarkDraining(r) \/ ExitSidecar(r)

(* The loop goes on, and time with it. *)
SupervisorDue == ~Ended /\ (pc = "wait" => DrainWaitOver)

SupSpec == SupInit /\ [][SupNext]_supvars /\ WF_supvars(SupervisorStep) /\ WF_supvars(TimeGoesBy)

-----------------------------------------------------------------------------
(* What the supervisor knows is what runs: a role never has two processes,    *)
(* a process it does not know is not published as running, what it publishes  *)
(* as running is its child, and a sidecar is published as ready only when it  *)
(* reported so itself, not on its predecessor's word.                         *)
ChildrenKnown ==
  /\ \A p, q \in alive : p[1] = q[1] => p = q
  /\ \A r \in Roles :
       /\ processes[r].status = "running" => Managed(r) /\ processes[r].pid = pid[r]
       /\ Process(r) \in alive /\ pc # "failed" => Managed(r)
       /\ r \in Sidecars /\ processes[r].status = "running" /\ processes[r].ready =>
            Process(r) \in wrote_ready

(* When run ends without an error it leaves no process, and rnsd, which its   *)
(* sidecars use to the end, is told to stop when they have exited.            *)
StopsAll ==
  /\ pc = "returned" => alive = {}
  /\ job.kind \in {"shutdown", "exhausted"} /\ pc = "grace" /\ NextToStop = "rnsd" =>
       alive \subseteq {Process("rnsd")}
=============================================================================
