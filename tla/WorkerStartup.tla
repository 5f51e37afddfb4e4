---------------------------- MODULE WorkerStartup ----------------------------
(***************************************************************************)
(* WorkerSupervisor.start() (phyai/server/worker_supervisor.py): from      *)
(* CREATED through STARTING to RUNNING or FAILED, with the first part of   *)
(* the worker processes.  start() runs in one thread; its callers          *)
(* (_SharedManager) never let it overlap with close().                     *)
(*                                                                         *)
(* The thread spawns the workers in order, then waits on pipes and         *)
(* sentinels until every worker said HELLO and READY.  A process may fail  *)
(* to spawn, raise, crash, or take longer than startup_timeout_s.          *)
(***************************************************************************)
EXTENDS Integers, Sequences, FiniteSets

CONSTANTS
  WorkerCount,  \* workers of this node, numbered in spawn order
  MaxFaults     \* bound: faults in a behaviour

Worker == 1..WorkerCount

ASSUME CountAssumption == WorkerCount \in Nat \ {0} /\ MaxFaults \in Nat

VARIABLES
  state,     \* _state
  pc,        \* where start() is
  spawned,   \* workers with an entry in _handles, always a prefix
  handle,    \* startup_state of each handle
  ready,     \* objects wait() reported: pipes still to read, sentinels
  late,      \* the startup deadline has passed
  wpc,       \* where each process is
  pipe,      \* what it sent and nobody read
  faults

vars == <<state, pc, spawned, handle, ready, late, wpc, pipe, faults>>
procVars == <<wpc, pipe>>

Exited == {"exit", "killed"}
Alive(w) == wpc[w] \notin Exited \cup {"none"}

NothingReady == [pipes |-> {}, sentinels |-> {}]

Init ==
  /\ state = "created" /\ pc = "idle" /\ spawned = 0
  /\ handle = [w \in Worker |-> "new"]
  /\ ready = NothingReady /\ late = FALSE
  /\ wpc = [w \in Worker |-> "none"]
  /\ pipe = [w \in Worker |-> <<>>]
  /\ faults = 0

InjectFault == faults < MaxFaults /\ faults' = faults + 1

-----------------------------------------------------------------------------
(* start().                                                                *)

Start ==
  /\ pc = "idle" /\ state = "created"
  /\ state' = "starting" /\ pc' = "spawn"
  /\ UNCHANGED <<spawned, handle, ready, late, procVars, faults>>

(* process.start() for the next placement. *)
Spawn ==
  /\ pc = "spawn" /\ spawned < WorkerCount
  /\ spawned' = spawned + 1
  /\ wpc' = [wpc EXCEPT ![spawned + 1] = "boot"]
  /\ UNCHANGED <<state, pc, handle, ready, late, pipe, faults>>

(* process.start() raises; the worker gets no handle. *)
SpawnFails ==
  /\ pc = "spawn" /\ spawned < WorkerCount /\ InjectFault
  /\ pc' = "abort"
  /\ UNCHANGED <<state, spawned, handle, ready, late, procVars>>

Spawned ==
  /\ pc = "spawn" /\ spawned = WorkerCount
  /\ pc' = "await"
  /\ UNCHANGED <<state, spawned, handle, ready, late, procVars, faults>>

AllReady_Greeted == \A w \in Worker : handle[w] # "new"

(* The loop condition of _wait_until_ready. *)
AllReady == \A w \in Worker : handle[w] = "ready"

AwaitExpired_Restarts ==
  /\ pc = "await" /\ ~AllReady /\ late
  /\ late' = FALSE
  /\ UNCHANGED <<state, pc, spawned, handle, ready, procVars, faults>>

(* The deadline is looked at before every wait(). *)
AwaitExpired ==
  /\ pc = "await" /\ ~AllReady /\ late
  /\ pc' = "abort"
  /\ UNCHANGED <<state, spawned, handle, ready, late, procVars, faults>>

(* wait() on pipes and sentinels. *)
Await ==
  LET pipes     == {w \in Worker : pipe[w] # <<>> \/ ~Alive(w)}
      sentinels == {w \in Worker : ~Alive(w)} IN
  /\ pc = "await" /\ ~AllReady /\ ~late /\ pipes # {}
  /\ ready' = [pipes |-> pipes, sentinels |-> sentinels]
  /\ pc' = "read"
  /\ UNCHANGED <<state, spawned, handle, late, procVars, faults>>

(* What _handle_startup_message accepts, and the state it leads to. *)
Handshake == {<<"new", "hello">>, <<"hello", "ready">>}

(* One message from the pipe of a worker that wait() reported. *)
Read(w) ==
  /\ pc = "read" /\ w \in ready.pipes
  /\ ready' = [ready EXCEPT !.pipes = @ \ {w}]
  /\ IF pipe[w] = <<>>
     THEN pc' = "abort" /\ UNCHANGED <<handle, pipe>>
     ELSE /\ pipe' = [pipe EXCEPT ![w] = Tail(@)]
          /\ IF <<handle[w], Head(pipe[w])>> \in Handshake
             THEN handle' = [handle EXCEPT ![w] = Head(pipe[w])] /\ UNCHANGED pc
             ELSE pc' = "abort" /\ UNCHANGED handle
  /\ UNCHANGED <<state, spawned, late, wpc, faults>>

DeadWorker_Reported == ready.sentinels # {}

(* A sentinel that wait() reported, or an exit code that is there by now. *)
DeadWorker == ready.sentinels # {} \/ \E w \in Worker : ~Alive(w)

CheckSentinels ==
  /\ pc = "read" /\ ready.pipes = {}
  /\ pc' = IF DeadWorker THEN "abort" ELSE "await"
  /\ ready' = NothingReady
  /\ UNCHANGED <<state, spawned, handle, late, procVars, faults>>

(* RUNNING; the monitor thread takes over. *)
Launch ==
  /\ pc = "await" /\ AllReady
  /\ state' = "running" /\ pc' = "done"
  /\ UNCHANGED <<spawned, handle, ready, late, procVars, faults>>

(* The workers the error path has to end: those it started. *)
Started == 1..spawned

(* _shutdown_workers(force=True, handles=started), then FAILED. *)
Abort ==
  /\ pc = "abort"
  /\ wpc' = [w \in Worker |-> IF w \in Started /\ Alive(w) THEN "killed" ELSE wpc[w]]
  /\ state' = "failed" /\ pc' = "done"
  /\ UNCHANGED <<spawned, handle, ready, late, pipe, faults>>

(* The clock passes startup_timeout_s. *)
Expire ==
  /\ state = "starting" /\ ~late /\ late' = TRUE
  /\ UNCHANGED <<state, pc, spawned, handle, ready, procVars, faults>>

-----------------------------------------------------------------------------
(* The worker process until it waits for its first command.                *)

WorkerSays(w, from, message, to) ==
  /\ wpc[w] = from
  /\ wpc' = [wpc EXCEPT ![w] = to]
  /\ pipe' = [pipe EXCEPT ![w] = Append(@, message)]
  /\ UNCHANGED <<state, pc, spawned, handle, ready, late>>

WorkerHello(w) == WorkerSays(w, "boot", "hello", "startup") /\ UNCHANGED faults

(* The factory has built the runtime. *)
WorkerReady(w) == WorkerSays(w, "startup", "ready", "serve") /\ UNCHANGED faults

(* The factory raises. *)
WorkerRaises(w) == WorkerSays(w, "startup", "error", "exit") /\ InjectFault

WorkerCrashes(w) ==
  /\ Alive(w) /\ InjectFault
  /\ wpc' = [wpc EXCEPT ![w] = "exit"]
  /\ UNCHANGED <<state, pc, spawned, handle, ready, late, pipe>>

-----------------------------------------------------------------------------
Starting == \/ Spawn \/ Spawned \/ AwaitExpired \/ Await \/ CheckSentinels
            \/ Launch \/ Abort \/ \E w \in Worker : Read(w)

Terminated == pc = "done" /\ UNCHANGED vars

Next == \/ Start \/ Starting \/ SpawnFails \/ Expire
        \/ \E w \in Worker : \/ WorkerHello(w) \/ WorkerReady(w)
                             \/ WorkerRaises(w) \/ WorkerCrashes(w)
        \/ Terminated

Spec == Init /\ [][Next]_vars

(* The thread is scheduled and time passes; nothing is assumed of workers. *)
FairSpec == Spec /\ WF_vars(Starting) /\ WF_vars(Expire)

-----------------------------------------------------------------------------
(* Every variable has its type. *)
TypeOK ==
  /\ state \in {"created", "starting", "running", "failed"}
  /\ pc \in {"idle", "spawn", "await", "read", "abort", "done"}
  /\ spawned \in 0..WorkerCount
  /\ handle \in [Worker -> {"new", "hello", "ready"}]
  /\ ready \in [pipes : SUBSET Worker, sentinels : SUBSET Worker]
  /\ late \in BOOLEAN
  /\ wpc \in [Worker -> {"none", "boot", "startup", "serve"} \cup Exited]
  /\ pipe \in [Worker -> Seq({"hello", "ready", "error"})]
  /\ faults \in 0..MaxFaults

(* RUNNING hands the monitor what it expects: every worker has reached its *)
(* command loop (it may have died since), and no startup message is left   *)
(* in a pipe, where the monitor would take it for a failure.               *)
RunningIsClean ==
  state = "running" => \A w \in Worker : wpc[w] \in {"serve", "exit"} /\ pipe[w] = <<>>

(* A failed start() leaves no process behind. *)
FailedStartIsClean == state = "failed" => \A w \in Worker : ~Alive(w)

(* A worker that is dead while start() still reads messages, the last      *)
(* READY among them, keeps it from reporting RUNNING, although wait()      *)
(* reported only what was dead before.                                     *)
DeathIsNoticed ==
  [](pc = "read" /\ (\E w \in Worker : ~Alive(w)) => [](state # "running"))

(* start() returns or raises, even if no worker ever says a word. *)
StartReturns == state = "starting" ~> state \in {"running", "failed"}

(* start() leaves nothing half done: RUNNING means workers in their      *)
(* command loop and empty pipes, FAILED means no process, however        *)
(* spawns, handshakes, deaths and the timeout are ordered.               *)
StartIsClean == TypeOK /\ RunningIsClean /\ FailedStartIsClean

=============================================================================
