-------------------------- MODULE WorkerSupervisor --------------------------
(***************************************************************************)
(* The parent-side supervisor of the GPU worker processes                  *)
(* (phyai/server/worker_supervisor.py) from the moment start() has         *)
(* returned, together with the worker processes; WorkerStartup models the  *)
(* way there.                                                              *)
(*                                                                         *)
(* Threads of the parent: the monitor, any number of callers of submit(),  *)
(* any number of callers of close().  They share the request table under   *)
(* _state_lock (each critical section is one action), the pipes under      *)
(* _send_lock, and a one-shot shutdown.  A worker may crash, hang, raise   *)
(* (each counted in faults) or be slow (timedOut, expired).                *)
(***************************************************************************)
EXTENDS Integers, Sequences, FiniteSets, SequencesExt

CONSTANTS
  Worker,           \* worker ids of the plan, numbered in rank order
  Replica,          \* replica ids
  ReplicaOf,        \* the replica each worker is a rank of
  OutputOf,         \* the output rank of each replica
  Client,           \* threads that call submit()
  Closer,           \* threads that call close()
  Monitor,          \* the monitor thread
  None,             \* no thread, no request
  MaxRequest,       \* bound: requests submitted in a behaviour
  MaxFaults,        \* bound: injected faults in a behaviour
  PipeSlots,        \* payload messages a pipe's kernel buffer holds unread
  ExecutionTimeout  \* whether execution_timeout_s is set

ReqId    == 1..MaxRequest
Thread   == Client \cup Closer \cup {Monitor}
Ranks(r) == {w \in Worker : ReplicaOf[w] = r}

ASSUME PlanAssumption ==
  /\ Worker \subseteq Nat
  /\ ReplicaOf \in [Worker -> Replica]
  /\ OutputOf \in [Replica -> Worker]
  /\ \A r \in Replica : ReplicaOf[OutputOf[r]] = r

ASSUME ThreadAssumption ==
  /\ Client \cap Closer = {}
  /\ Monitor \notin Client \cup Closer
  /\ None \notin Thread \cup Worker \cup Replica \cup Nat

ASSUME BoundAssumption ==
  /\ MaxRequest \in Nat /\ MaxFaults \in Nat /\ PipeSlots \in Nat
  /\ ExecutionTimeout \in BOOLEAN

VARIABLES
  (* guarded by _state_lock *)
  state,        \* _state
  failed,       \* _failure is not None
  nextId,       \* the next value of _request_ids
  pending,      \* keys of _pending
  req,          \* the _PendingRequest of every id handed out
  inflight,     \* _inflight
  (* other shared objects *)
  future,       \* what the caller's Future of each request holds
  sendLock,     \* holder of _send_lock
  shutOwner,    \* the thread that set _shutdown_started
  shutComplete, \* _shutdown_complete; the connections are closed
  monitorStop,  \* _monitor_stop
  (* local to a thread *)
  pc,           \* where each thread is
  send,         \* the request a submit() sends and the ranks still to reach
  held,         \* futures taken out of _pending and not resolved yet
  force,        \* the force argument of _shutdown_workers
  mon,          \* the monitor's readable and watched connections, its message
  (* processes and pipes *)
  wpc,          \* where each worker process is
  toWorker,     \* messages written by the parent and not read yet
  toParent,     \* messages written by the worker and not read yet
  seen,         \* requests each worker has taken from its pipe
  (* environment *)
  faults,       \* injected faults so far
  timedOut,     \* shutdown_timeout_s expired
  expired       \* requests whose deadline has passed

lifeVars  == <<state, failed>>
tableVars == <<nextId, pending, req, inflight>>
shutVars  == <<shutOwner, shutComplete, monitorStop>>
localVars == <<send, held, force>>
pipeVars  == <<toWorker, toParent>>
procVars  == <<wpc, pipeVars, seen>>
envVars   == <<faults, timedOut, expired>>
vars == <<lifeVars, tableVars, future, sendLock, shutVars, pc, localVars, mon,
          procVars, envVars>>

-----------------------------------------------------------------------------
(* Values.                                                                 *)

Lifecycle == {"running", "stopping", "stopped", "failed"}
Closing   == {"stopping", "stopped"}
Done      == {"result", "error"}
Exited    == {"exit0", "exit1"}

Message(type, q) == [type |-> type, req |-> q]
Shutdown == Message("shutdown", None)
Error    == Message("error", None)
Stopped  == Message("stopped", None)
ParentMessage == [type : {"execute"}, req : ReqId] \cup {Shutdown}
WorkerMessage == [type : {"result"}, req : ReqId] \cup {Error, Stopped}

NoRequest == [replica |-> None, remaining |-> {}, output |-> FALSE]
NoSend    == [req |-> None, ranks |-> {}]

ClientPc  == {"idle", "lock", "put", "sending", "fail", "resolve", "shutWait", "reap"}
CloserPc  == {"idle", "resolve", "shutWait", "shutSend", "shutJoin", "reap",
              "closeFinal", "done"}
MonitorPc == {"top", "drain", "record", "complete", "fail", "resolve", "shutWait",
              "reap", "exit"}
WorkerPc  == {"idle", "exec", "hung", "send", "stop"} \cup Exited

Goto(t, label) == pc' = [pc EXCEPT ![t] = label]

Alive(w)  == wpc[w] \notin Exited
Broken(w) == shutComplete \/ ~Alive(w)

(* The next rank a loop over the placements reaches. *)
FirstRank(S) == CHOOSE w \in S : \A v \in S : w <= v

(* A payload that overflows the kernel buffer is written while the reader  *)
(* takes it: send() returns once at most PipeSlots messages are unread.    *)
Flushed(pipe) == Len(pipe) <= PipeSlots

(* A process that dies in the middle of a write leaves a truncated message.*)
CutOff(w) == IF wpc[w] = "send" /\ ~Flushed(toParent[w])
             THEN Front(toParent[w]) ELSE toParent[w]

Executes(w) == Last(seen[w])
Took(w, q)  == \E i \in DOMAIN seen[w] : seen[w][i] = q

-----------------------------------------------------------------------------
(* start() has returned: every worker reported READY, the monitor runs.    *)
Init ==
  /\ state = "running" /\ failed = FALSE
  /\ nextId = 1 /\ pending = {}
  /\ req = [q \in ReqId |-> NoRequest]
  /\ inflight = [r \in Replica |-> 0]
  /\ future = [q \in ReqId |-> "none"]
  /\ sendLock = None
  /\ shutOwner = None /\ shutComplete = FALSE /\ monitorStop = FALSE
  /\ pc = [t \in Thread |-> IF t = Monitor THEN "top" ELSE "idle"]
  /\ send = [c \in Client |-> NoSend]
  /\ held = [t \in Thread |-> {}]
  /\ force = [t \in Thread |-> FALSE]
  /\ mon = [ready |-> {}, watched |-> Worker, worker |-> None, req |-> None]
  /\ wpc = [w \in Worker |-> "idle"]
  /\ toWorker = [w \in Worker |-> <<>>]
  /\ toParent = [w \in Worker |-> <<>>]
  /\ seen = [w \in Worker |-> <<>>]
  /\ faults = 0 /\ timedOut = FALSE /\ expired = {}

-----------------------------------------------------------------------------
(* submit().                                                               *)

(* A request is admitted only while RUNNING. *)
Admits == state = "running"

(* The critical section of submit().  *)
Submit(c, r) ==
  LET q == nextId IN
  /\ pc[c] = "idle" /\ Admits /\ nextId <= MaxRequest
  /\ nextId' = nextId + 1
  /\ pending' = pending \cup {q}
  /\ req' = [req EXCEPT ![q] = [replica |-> r, remaining |-> Ranks(r), output |-> FALSE]]
  /\ inflight' = [inflight EXCEPT ![r] = @ + 1]
  /\ future' = [future EXCEPT ![q] = "running"]
  /\ send' = [send EXCEPT ![c] = [req |-> q, ranks |-> Ranks(r)]]
  /\ Goto(c, "lock")
  /\ UNCHANGED <<lifeVars, sendLock, shutVars, held, force, mon, procVars, envVars>>

SendLock_Unlocked(c) ==
  /\ pc[c] = "lock" /\ sendLock' = c /\ Goto(c, "put")
  /\ UNCHANGED <<lifeVars, tableVars, future, shutVars, localVars, mon, procVars,
                 envVars>>

(* Enter the _send_lock section, which spans every rank of the replica.  *)
SendLock(c) ==
  /\ pc[c] = "lock" /\ sendLock = None
  /\ sendLock' = c /\ Goto(c, "put")
  /\ UNCHANGED <<lifeVars, tableVars, future, shutVars, localVars, mon, procVars,
                 envVars>>

(* The send to the next rank has returned; after the last one the lock is  *)
(* released and submit() returns its future.                               *)
AfterSend(c) ==
  LET left == send[c].ranks \ {FirstRank(send[c].ranks)} IN
  IF left = {}
  THEN sendLock' = None /\ send' = [send EXCEPT ![c] = NoSend] /\ Goto(c, "idle")
  ELSE /\ send' = [send EXCEPT ![c].ranks = left] /\ Goto(c, "put")
       /\ UNCHANGED sendLock

(* connection.send(command) to the next rank; a payload that does not fit  *)
(* leaves the thread blocked in it.                                        *)
SendPut(c) ==
  LET w == FirstRank(send[c].ranks) IN
  /\ pc[c] = "put" /\ ~Broken(w)
  /\ toWorker' = [toWorker EXCEPT ![w] = Append(@, Message("execute", send[c].req))]
  /\ IF Flushed(toWorker'[w]) THEN AfterSend(c)
                              ELSE Goto(c, "sending") /\ UNCHANGED <<sendLock, send>>
  /\ UNCHANGED <<lifeVars, tableVars, future, shutVars, held, force, mon, wpc,
                 toParent, seen, envVars>>

SendReturn(c) ==
  /\ pc[c] = "sending" /\ Flushed(toWorker[FirstRank(send[c].ranks)])
  /\ AfterSend(c)
  /\ UNCHANGED <<lifeVars, tableVars, future, shutVars, held, force, mon, procVars,
                 envVars>>

(* The send raises: the lock is released on the way to _mark_failed.  *)
SendAborts(c) ==
  /\ sendLock' = None /\ send' = [send EXCEPT ![c] = NoSend] /\ Goto(c, "fail")
  /\ UNCHANGED <<lifeVars, tableVars, future, shutVars, held, force, mon, procVars,
                 timedOut, expired>>

SendBroken(c) ==
  /\ pc[c] \in {"put", "sending"} /\ Broken(FirstRank(send[c].ranks))
  /\ SendAborts(c) /\ UNCHANGED faults

InjectFault == faults < MaxFaults /\ faults' = faults + 1

(* The payload cannot be pickled; nothing of it reaches a pipe. *)
SendUnpicklable(c) ==
  /\ pc[c] = "put" /\ send[c].ranks = Ranks(req[send[c].req].replica)
  /\ InjectFault /\ SendAborts(c)

-----------------------------------------------------------------------------
(* _mark_failed and close(): under the lock the pending futures are taken  *)
(* out of the table, outside it they are resolved.                         *)

TakePending_KeepsInflight(t) ==
  /\ held' = [held EXCEPT ![t] = pending]
  /\ pending' = {} /\ UNCHANGED <<nextId, req, inflight>>

TakePending_KeepsPending(t) ==
  /\ held' = [held EXCEPT ![t] = pending]
  /\ inflight' = [r \in Replica |-> 0] /\ UNCHANGED <<nextId, req, pending>>

TakePending_ClearsFirst(t) ==
  /\ held' = [held EXCEPT ![t] = {}]
  /\ pending' = {} /\ inflight' = [r \in Replica |-> 0] /\ UNCHANGED <<nextId, req>>

TakePending(t) ==
  /\ held' = [held EXCEPT ![t] = pending]
  /\ pending' = {}
  /\ inflight' = [r \in Replica |-> 0]
  /\ UNCHANGED <<nextId, req>>

ReturnPc(t) == CASE t \in Client -> "idle"
                 [] t \in Closer -> "closeFinal"
                 [] OTHER        -> "top"

Ended == state \in {"failed", "stopped"}

(* _mark_failed; the first failure wins.  What the monitor would still do  *)
(* in its iteration after a failure has no effect in FAILED and STOPPED,   *)
(* so it goes back to the top of its loop.                                 *)
MarkFailed(t) ==
  /\ pc[t] = "fail"
  /\ IF Ended
     THEN Goto(t, ReturnPc(t)) /\ UNCHANGED <<lifeVars, tableVars, held, force>>
     ELSE /\ state' = "failed" /\ failed' = TRUE
          /\ TakePending(t)
          /\ force' = [force EXCEPT ![t] = TRUE]
          /\ Goto(t, "resolve")
  /\ UNCHANGED <<future, sendLock, shutVars, send, mon, procVars, envVars>>

(* close(); in CREATED it only moves to STOPPED (WorkerStartup). *)
CloseBegin(t) ==
  /\ pc[t] = "idle"
  /\ IF state = "stopped"
     THEN Goto(t, "done") /\ UNCHANGED <<state, tableVars, held, force>>
     ELSE /\ state' = IF state = "failed" THEN "failed" ELSE "stopping"
          /\ TakePending(t)
          /\ force' = [force EXCEPT ![t] = state = "failed"]
          /\ Goto(t, "resolve")
  /\ UNCHANGED <<failed, future, sendLock, shutVars, send, mon, procVars, envVars>>

(* set_exception on the futures taken, _monitor_stop.set(), in close() a   *)
(* join of the monitor that gives up after a second, then the entry of     *)
(* _shutdown_workers, whose first caller owns the shutdown.                *)
FailHeld(t) ==
  /\ future' = [q \in ReqId |-> IF q \in held[t] /\ future[q] \notin Done
                                THEN "error" ELSE future[q]]
  /\ held' = [held EXCEPT ![t] = {}]

Resolve(t) ==
  /\ pc[t] = "resolve" /\ FailHeld(t)
  /\ monitorStop' = TRUE
  /\ IF shutOwner = None
     THEN shutOwner' = t /\ Goto(t, IF force[t] THEN "reap" ELSE "shutSend")
     ELSE Goto(t, "shutWait") /\ UNCHANGED shutOwner
  /\ UNCHANGED <<lifeVars, tableVars, sendLock, shutComplete, send, force, mon,
                 procVars, envVars>>

(* The end of close(). *)
CloseFinal(t) ==
  /\ pc[t] = "closeFinal"
  /\ state' = IF failed THEN "failed" ELSE "stopped"
  /\ Goto(t, "done")
  /\ UNCHANGED <<failed, tableVars, future, sendLock, shutVars, localVars, mon,
                 procVars, envVars>>

-----------------------------------------------------------------------------
(* _shutdown_workers.                                                      *)

(* A submit() is blocked in connection.send with the send lock held. *)
SendBlocked ==
  \E c \in Client : /\ sendLock = c /\ pc[c] = "sending"
                    /\ ~Flushed(toWorker[FirstRank(send[c].ranks)])

ShutdownWait_Returns(t) ==
  /\ pc[t] = "shutWait" /\ Goto(t, ReturnPc(t))
  /\ UNCHANGED <<lifeVars, tableVars, future, sendLock, shutVars, localVars, mon,
                 procVars, envVars>>

(* _shutdown_complete.wait(timeout).  The timeout exceeds every bounded    *)
(* step of the owner, so it expires only while the owner waits for the     *)
(* send lock of a blocked submit().                                        *)
ShutdownWait(t) ==
  /\ pc[t] = "shutWait"
  /\ shutComplete \/ (pc[shutOwner] = "shutSend" /\ SendBlocked)
  /\ Goto(t, ReturnPc(t))
  /\ UNCHANGED <<lifeVars, tableVars, future, sendLock, shutVars, localVars, mon,
                 procVars, envVars>>

(* A ShutdownRequest to every live worker, under _send_lock.  The message  *)
(* is small and no write is in progress: its send does not block.          *)
ShutdownSend(t) ==
  /\ pc[t] = "shutSend" /\ sendLock = None
  /\ toWorker' = [w \in Worker |-> IF Alive(w) THEN Append(toWorker[w], Shutdown)
                                               ELSE toWorker[w]]
  /\ Goto(t, "shutJoin")
  /\ UNCHANGED <<lifeVars, tableVars, future, sendLock, shutVars, localVars, mon,
                 wpc, toParent, seen, envVars>>

Kill_TerminateOnly(S) ==
  /\ wpc' = [w \in Worker |-> IF w \in S /\ Alive(w) /\ wpc[w] # "hung"
                              THEN "exit1" ELSE wpc[w]]
  /\ toParent' = [w \in Worker |-> IF w \in S THEN CutOff(w) ELSE toParent[w]]
  /\ UNCHANGED <<toWorker, seen>>

(* terminate(), then kill(): the processes of S that are left are gone. *)
Kill(S) ==
  /\ wpc' = [w \in Worker |-> IF w \in S /\ Alive(w) THEN "exit1" ELSE wpc[w]]
  /\ toParent' = [w \in Worker |-> IF w \in S THEN CutOff(w) ELSE toParent[w]]
  /\ UNCHANGED <<toWorker, seen>>

ReleaseWaiters_Forgotten == UNCHANGED shutComplete

(* The connections are closed and _shutdown_complete is set. *)
ReleaseWaiters == shutComplete' = TRUE

(* Join for at most shutdown_timeout_s, note a worker that did not exit    *)
(* with code 0, terminate() and kill() the rest, close the connections and *)
(* release the waiters.  A forced shutdown starts at terminate().          *)
Reap(t) ==
  /\ pc[t] \in {"shutJoin", "reap"}
  /\ IF pc[t] = "shutJoin"
     THEN /\ failed' = (failed \/ \E w \in Worker : wpc[w] # "exit0")
          /\ timedOut' = (timedOut \/ \E w \in Worker : Alive(w))
     ELSE UNCHANGED <<failed, timedOut>>
  /\ Kill(Worker)
  /\ ReleaseWaiters
  /\ Goto(t, ReturnPc(t))
  /\ UNCHANGED <<state, tableVars, future, sendLock, shutOwner, monitorStop,
                 localVars, mon, faults, expired>>

-----------------------------------------------------------------------------
(* _monitor_loop.                                                          *)

(* Stop, or a wait() on connections another thread closed, which raises.  *)
MonitorExit ==
  /\ pc[Monitor] = "top"
  /\ monitorStop \/ shutComplete \/ mon.watched = {}
  /\ Goto(Monitor, "exit")
  /\ UNCHANGED <<lifeVars, tableVars, future, sendLock, shutVars, localVars, mon,
                 procVars, envVars>>

(* wait() on connections and sentinels; a wait that times out with nothing *)
(* to do is a stuttering step.                                             *)
MonitorWait ==
  LET readable == {w \in mon.watched : toParent[w] # <<>> \/ ~Alive(w)} IN
  /\ pc[Monitor] = "top" /\ ~monitorStop /\ ~shutComplete
  /\ readable # {} \/ expired \cap pending # {}
  /\ mon' = [mon EXCEPT !.ready = readable]
  /\ Goto(Monitor, "drain")
  /\ UNCHANGED <<lifeVars, tableVars, future, sendLock, shutVars, localVars,
                 procVars, envVars>>

(* recv() fails: the worker's end, or ours, is closed. *)
MonitorEof(w) ==
  /\ pc[Monitor] = "drain" /\ w \in mon.ready
  /\ shutComplete \/ toParent[w] = <<>>
  /\ mon' = [mon EXCEPT !.ready = @ \ {w}, !.watched = @ \ {w}]
  /\ IF state \in Closing THEN UNCHANGED pc ELSE Goto(Monitor, "fail")
  /\ UNCHANGED <<lifeVars, tableVars, future, sendLock, shutVars, localVars,
                 procVars, envVars>>

(* recv() one message and dispatch it (_handle_runtime_message): the state *)
(* is looked at here, before _record_result takes the lock again.          *)
MonitorRecv(w) ==
  LET m == Head(toParent[w]) IN
  /\ pc[Monitor] = "drain" /\ w \in mon.ready
  /\ ~shutComplete /\ toParent[w] # <<>>
  /\ toParent' = [toParent EXCEPT ![w] = Tail(@)]
  /\ IF m.type = "result" /\ state \notin Closing
     THEN /\ mon' = [mon EXCEPT !.ready = @ \ {w}, !.worker = w, !.req = m.req]
          /\ Goto(Monitor, "record")
     ELSE /\ mon' = [mon EXCEPT !.ready = @ \ {w}]
          /\ Goto(Monitor, IF m.type = "error" \/ state \notin Closing
                           THEN "fail" ELSE "drain")
  /\ UNCHANGED <<lifeVars, tableVars, future, sendLock, shutVars, localVars, wpc,
                 toWorker, seen, envVars>>

(* _record_result refuses unknown, duplicate and misrouted results.  *)
Acceptable(w, q) ==
  /\ q \in pending
  /\ w \in req[q].remaining
  /\ ReplicaOf[w] = req[q].replica

RecordReject ==
  /\ pc[Monitor] = "record" /\ ~Acceptable(mon.worker, mon.req)
  /\ Goto(Monitor, "fail")
  /\ mon' = [mon EXCEPT !.worker = None, !.req = None]
  /\ UNCHANGED <<lifeVars, tableVars, future, sendLock, shutVars, localVars,
                 procVars, envVars>>

Left_OutputSuffices(w, q) ==
  IF w = OutputOf[req[q].replica] THEN {} ELSE req[q].remaining \ {w}

(* The ranks whose answer is still missing after the one of w. *)
Left(w, q) == req[q].remaining \ {w}

(* The rank's answer is noted; with the last one, and the output rank's    *)
(* among them, the request leaves the table.                               *)
RecordResult ==
  LET w == mon.worker
      q == mon.req
      left   == Left(w, q)
      answer == req[q].output \/ w = OutputOf[req[q].replica] IN
  /\ pc[Monitor] = "record" /\ Acceptable(w, q)
  /\ req' = [req EXCEPT ![q].remaining = left, ![q].output = answer]
  /\ IF left = {} /\ answer
     THEN /\ pending' = pending \ {q}
          /\ inflight' = [inflight EXCEPT ![req[q].replica] = @ - 1]
          /\ Goto(Monitor, "complete") /\ UNCHANGED mon
     ELSE /\ Goto(Monitor, IF left = {} THEN "fail" ELSE "drain")
          /\ mon' = [mon EXCEPT !.worker = None, !.req = None]
          /\ UNCHANGED <<pending, inflight>>
  /\ UNCHANGED <<lifeVars, nextId, future, sendLock, shutVars, localVars, procVars,
                 envVars>>

(* set_result, outside the lock. *)
Complete ==
  /\ pc[Monitor] = "complete"
  /\ future' = [future EXCEPT ![mon.req] = "result"]
  /\ Goto(Monitor, "drain")
  /\ mon' = [mon EXCEPT !.worker = None, !.req = None]
  /\ UNCHANGED <<lifeVars, tableVars, sendLock, shutVars, localVars, procVars,
                 envVars>>

Overdue_Ignored == FALSE

(* _check_request_deadlines *)
Overdue == expired \cap pending # {}

(* End of an iteration: sentinels, then deadlines, unless closing. *)
MonitorSweep ==
  /\ pc[Monitor] = "drain" /\ mon.ready = {}
  /\ Goto(Monitor, IF /\ state \notin Closing
                      /\ Overdue \/ \E w \in mon.watched : ~Alive(w)
                   THEN "fail" ELSE "top")
  /\ UNCHANGED <<lifeVars, tableVars, future, sendLock, shutVars, localVars, mon,
                 procVars, envVars>>

-----------------------------------------------------------------------------
(* The loop of a worker process (_worker_main).  The parent closes its end *)
(* of a pipe only after the process is gone, so recv() meets no EOF here.  *)

Emit(w, m) == toParent' = [toParent EXCEPT ![w] = Append(@, m)]

ParentIdle == UNCHANGED <<lifeVars, tableVars, future, sendLock, shutVars, pc,
                          localVars, mon>>

WorkerRecv(w) ==
  LET m == Head(toWorker[w]) IN
  /\ wpc[w] = "idle" /\ toWorker[w] # <<>>
  /\ toWorker' = [toWorker EXCEPT ![w] = Tail(@)]
  /\ IF m.type = "execute"
     THEN /\ wpc' = [wpc EXCEPT ![w] = "exec"]
          /\ seen' = [seen EXCEPT ![w] = Append(@, m.req)]
     ELSE wpc' = [wpc EXCEPT ![w] = "stop"] /\ UNCHANGED seen
  /\ ParentIdle /\ UNCHANGED <<toParent, envVars>>

(* execute() returns and the result is sent.  The ranks of a replica meet  *)
(* in collectives, so every rank must have entered the request; only the   *)
(* output rank's result carries a payload that can overflow the pipe.      *)
WorkerResult(w) ==
  /\ wpc[w] = "exec" /\ \A v \in Ranks(ReplicaOf[w]) : Took(v, Executes(w))
  /\ Emit(w, Message("result", Executes(w)))
  /\ wpc' = [wpc EXCEPT ![w] = IF w = OutputOf[ReplicaOf[w]] /\ ~Flushed(toParent'[w])
                               THEN "send" ELSE "idle"]
  /\ ParentIdle /\ UNCHANGED <<toWorker, seen, envVars>>

WorkerSent(w) ==
  /\ wpc[w] = "send" /\ Flushed(toParent[w])
  /\ wpc' = [wpc EXCEPT ![w] = "idle"]
  /\ ParentIdle /\ UNCHANGED <<pipeVars, seen, envVars>>

WorkerStop_Echo(w) ==
  /\ wpc[w] = "stop"
  /\ wpc' = [wpc EXCEPT ![w] = "exit0"] /\ Emit(w, Shutdown)
  /\ ParentIdle /\ UNCHANGED <<toWorker, seen, envVars>>

(* After a ShutdownRequest: runtime.close(), WorkerStopped, exit code 0.  *)
WorkerStop(w) ==
  /\ wpc[w] = "stop"
  /\ wpc' = [wpc EXCEPT ![w] = "exit0"] /\ Emit(w, Stopped)
  /\ ParentIdle /\ UNCHANGED <<toWorker, seen, envVars>>

(* execute(), the pickling of its result or runtime.close() raises. *)
WorkerRaises(w) ==
  /\ wpc[w] \in {"exec", "stop"} /\ InjectFault
  /\ wpc' = [wpc EXCEPT ![w] = "exit1"] /\ Emit(w, Error)
  /\ ParentIdle /\ UNCHANGED <<toWorker, seen, timedOut, expired>>

(* Processes die without a word: one that crashes, or all of them when the *)
(* thread that called start() ends (PR_SET_PDEATHSIG is per thread).       *)
WorkersCrash(S) ==
  /\ \A w \in S : Alive(w)
  /\ InjectFault /\ Kill(S)
  /\ ParentIdle /\ UNCHANGED <<timedOut, expired>>

(* execute() never returns. *)
WorkerHang(w) ==
  /\ wpc[w] = "exec" /\ InjectFault
  /\ wpc' = [wpc EXCEPT ![w] = "hung"]
  /\ ParentIdle /\ UNCHANGED <<pipeVars, seen, timedOut, expired>>

(* The clock passes the deadline of a request. *)
Expire(q) ==
  /\ ExecutionTimeout /\ q \in pending \ expired
  /\ expired' = expired \cup {q}
  /\ ParentIdle /\ UNCHANGED <<procVars, faults, timedOut>>

-----------------------------------------------------------------------------
Sending(c)  == SendLock(c) \/ SendPut(c) \/ SendReturn(c) \/ SendBroken(c)
Shutting(t) == \/ MarkFailed(t) \/ Resolve(t) \/ ShutdownWait(t)
               \/ ShutdownSend(t) \/ Reap(t) \/ CloseFinal(t)
Monitoring  == \/ MonitorExit \/ MonitorWait \/ MonitorSweep
               \/ RecordReject \/ RecordResult \/ Complete
               \/ \E w \in Worker : MonitorEof(w) \/ MonitorRecv(w)
Working(w)  == WorkerRecv(w) \/ WorkerResult(w) \/ WorkerSent(w) \/ WorkerStop(w)
Failing     == \/ \E w \in Worker : WorkerRaises(w) \/ WorkerHang(w)
               \/ \E S \in {{w} : w \in Worker} \cup {Worker} : WorkersCrash(S)

(* The end of a deployment; everywhere else someone can move. *)
Terminated ==
  /\ \A t \in Closer : pc[t] = "done"
  /\ \A c \in Client : pc[c] = "idle"
  /\ pc[Monitor] = "exit" /\ \A w \in Worker : ~Alive(w)
  /\ UNCHANGED vars

Next == \/ \E c \in Client : \/ \E r \in Replica : Submit(c, r)
                             \/ Sending(c) \/ SendUnpicklable(c)
        \/ \E t \in Closer : CloseBegin(t)
        \/ \E t \in Thread : Shutting(t)
        \/ Monitoring
        \/ \E w \in Worker : Working(w)
        \/ Failing
        \/ \E q \in ReqId : Expire(q)
        \/ Terminated

Spec == Init /\ [][Next]_vars

(* Threads of the parent and healthy processes are scheduled, clocks       *)
(* advance; nobody has to call submit() or close(), and faults need not    *)
(* happen.                                                                 *)
Fairness ==
  /\ WF_vars(Monitoring)
  /\ \A c \in Client : WF_vars(Sending(c))
  /\ \A t \in Thread : WF_vars(Shutting(t))
  /\ \A w \in Worker : WF_vars(Working(w))
  /\ \A q \in ReqId : WF_vars(Expire(q))

FairSpec == Spec /\ Fairness

-----------------------------------------------------------------------------
(* The promise to the callers.  The outcome of a request is decided under  *)
(* _state_lock, before the Future is touched.                              *)

StatusOf(q) ==
  IF q >= nextId THEN "none"
  ELSE IF q \in pending THEN "waiting"
  ELSE IF future[q] = "result" \/ (pc[Monitor] = "complete" /\ mon.req = q) THEN "ok"
  ELSE "unavailable"

Service == INSTANCE FailFastService
             WITH Request <- ReqId, open <- state = "running",
                  status <- [q \in ReqId |-> StatusOf(q)]

(* The supervisor implements the fail-fast service: submit() accepts only  *)
(* while RUNNING, and _mark_failed and close() fail every pending request  *)
(* in the same critical section that ends RUNNING.                         *)
ImplementsService == Service!Spec

-----------------------------------------------------------------------------
(* Properties.                                                             *)

TableType ==
  /\ state \in Lifecycle
  /\ nextId \in 1..(MaxRequest + 1)
  /\ pending \subseteq ReqId
  /\ req \in [ReqId -> [replica : Replica \cup {None}, remaining : SUBSET Worker,
                        output : BOOLEAN]]
  /\ inflight \in [Replica -> Int]
  /\ future \in [ReqId -> {"none", "running"} \cup Done]

PcType ==
  /\ pc \in [Thread -> ClientPc \cup CloserPc \cup MonitorPc]
  /\ \A c \in Client : pc[c] \in ClientPc
  /\ \A t \in Closer : pc[t] \in CloserPc
  /\ pc[Monitor] \in MonitorPc

ThreadType ==
  /\ sendLock \in Client \cup {None}
  /\ shutOwner \in Thread \cup {None}
  /\ send \in [Client -> [req : ReqId \cup {None}, ranks : SUBSET Worker]]
  /\ held \in [Thread -> SUBSET ReqId]
  /\ force \in [Thread -> BOOLEAN]
  /\ mon \in [ready : SUBSET Worker, watched : SUBSET Worker,
              worker : Worker \cup {None}, req : ReqId \cup {None}]

ProcessType ==
  /\ wpc \in [Worker -> WorkerPc]
  /\ toWorker \in [Worker -> Seq(ParentMessage)]
  /\ toParent \in [Worker -> Seq(WorkerMessage)]
  /\ seen \in [Worker -> Seq(ReqId)]
  /\ faults \in 0..MaxFaults /\ expired \subseteq ReqId

FlagType ==
  /\ failed \in BOOLEAN /\ shutComplete \in BOOLEAN /\ monitorStop \in BOOLEAN
  /\ timedOut \in BOOLEAN

(* Every variable has its type: the attributes of WorkerSupervisor and the *)
(* state of its threads, pipes and processes.                              *)
TypeOK == TableType /\ PcType /\ ThreadType /\ ProcessType /\ FlagType

(* _inflight, which the dispatcher routes by, counts exactly the pending   *)
(* requests of each replica, whatever failed or was closed in between.     *)
InflightAccounting ==
  \A r \in Replica :
    inflight[r] = Cardinality({q \in pending : req[q].replica = r})

(* A request waits in the table only while the supervisor is RUNNING:      *)
(* whatever ends that state takes every pending future along.              *)
PendingOnlyWhileRunning == pending # {} => state = "running"

(* The threads that hold the only reference to the future of q. *)
Holders(q) == {t \in Thread : q \in held[t]}
              \cup {t \in {Monitor} : pc[t] = "complete" /\ mon.req = q}

(* Every unresolved future is reachable from exactly one place, the table  *)
(* or one thread about to resolve it: none is forgotten by submit(),       *)
(* _record_result, _mark_failed or close(), and no two resolve the same.   *)
NoLostFuture ==
  \A q \in ReqId :
    /\ future[q] = "running" <=> (q \in pending \/ Holders(q) # {})
    /\ q \in pending => Holders(q) = {}
    /\ \A t, u \in Holders(q) : t = u

(* A resolved future never changes; setting it again would raise           *)
(* InvalidStateError in the monitor or in a caller.                        *)
ResolvedOnce ==
  [][\A q \in ReqId : future[q] \in Done => future'[q] = future[q]]_future

(* A caller sees a result only after every rank of the replica took the    *)
(* request from its pipe, finished it, and had its answer read: nothing of *)
(* the request is left in a process or in a pipe.                          *)
ResultFromAllRanks ==
  \A q \in ReqId : future[q] = "result" =>
    \A w \in Ranks(req[q].replica) :
      /\ Took(w, q)
      /\ wpc[w] \in {"exec", "hung"} => Executes(w) # q
      /\ \A i \in DOMAIN toParent[w] : toParent[w][i].req # q

(* The ranks of a replica take requests in the same order, however many    *)
(* threads call submit() at once; they would deadlock in their collectives *)
(* otherwise.                                                              *)
RanksAgree ==
  \A v, w \in Worker : ReplicaOf[v] = ReplicaOf[w] =>
    IsPrefix(seen[v], seen[w]) \/ IsPrefix(seen[w], seen[v])


(* When a close() has returned no worker process is left running. *)
ClosedMeansDead ==
  \A t \in Closer : pc[t] = "done" => \A w \in Worker : ~Alive(w)

(* As long as no worker misbehaved and no timeout expired the monitor      *)
(* reports no worker failure: a close() during a request is not one.       *)
NoSpuriousFailure ==
  faults = 0 /\ ~timedOut /\ expired = {} => pc[Monitor] # "resolve"

(* Every submitted request is eventually answered, by a result or an error,*)
(* although workers die or hang (execution_timeout_s set) and close() may  *)
(* come at any moment.                                                     *)
RequestsResolve ==
  \A q \in ReqId : future[q] = "running" ~> future[q] \in Done

(* A close() that was called returns. *)
CloseTerminates ==
  \A t \in Closer : pc[t] # "idle" ~> pc[t] = "done"

(* After a failure every worker process is eventually gone. *)
FailureReapsWorkers == state = "failed" ~> \A w \in Worker : ~Alive(w)

=============================================================================
