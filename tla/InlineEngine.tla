---------------------------- MODULE InlineEngine ----------------------------
(***************************************************************************)
(* An engine in the calling process: InlineExecutor over EngineCore behind *)
(* the facade of phyai/engine.py, Engine.  Requests reach the core through *)
(* the executor; rollouts and weight updates of trainers bypass it.  The   *)
(* facade refuses every call once close() was called; its flag and the     *)
(* executor's are set one after the other and are one variable here.       *)
(***************************************************************************)
EXTENDS InlineExecutor, EngineCore

CONSTANTS MaxCalls   \* bound: calls of trainers, those that end an update apart

ASSUME TrainerAssumption ==
  /\ Trainer \cap Thread = {} /\ CoreThread = Trainer \cup Thread
  /\ GivenVersion \subseteq Nat /\ MaxCalls \in Nat

VARIABLES calls   \* calls of trainers so far

engineVars == <<vars, coreVars, calls>>

EngineInit == Init /\ CoreInit /\ calls = 0

(* A thread of the executor calls core.step() or core.close(). *)
Enter(t) ==
  /\ pc[t] \in {"exec", "core"}
  /\ CoreCall(t, IF pc[t] = "exec" THEN "step" ELSE "close")
  /\ UNCHANGED <<vars, calls>>

(* ... and is back. *)
Return(t) ==
  /\ cpc[t] = "over" /\ CoreReturns(t)
  /\ CoreGoto(t, "out")
  /\ UNCHANGED <<modelLock, update, version, coreShut, entryOpen, session, weights, calls>>

(* A trainer calls the facade. No thread runs a rollout during an update,  *)
(* since it would wait for itself.                                         *)
TrainerCall(t, call) ==
  /\ ~closed /\ CoreCall(t, call)
  /\ call = "step" => update \notin Open
  /\ \/ calls < MaxCalls /\ calls' = calls + 1
     \/ call \in {"finish", "abort"} /\ update \in Open /\ UNCHANGED calls
  /\ UNCHANGED vars

Ends(t) == update \in Open /\ (TrainerCall(t, "finish") \/ TrainerCall(t, "abort"))

Running(t) == CoreStep(t) /\ UNCHANGED <<vars, calls>>

(* Everybody is back home. *)
Terminated ==
  /\ closed /\ \A t \in Closer : pc[t] = "done"
  /\ \A t \in Stepper : pc[t] = "idle"
  /\ pc[WorkerThread] \in {"none", "exit"} /\ \A t \in Trainer : cpc[t] = "out"
  /\ UNCHANGED engineVars

Outside == UNCHANGED <<coreVars, calls>>

EngineNext ==
  \/ Requests /\ Outside
  \/ Own /\ Outside
  \/ \E t \in Thread : Enter(t) \/ Return(t)
  \/ \E t \in Trainer, call \in Calls \ {"close"} : TrainerCall(t, call)
  \/ \E t \in CoreThread : Running(t)
  \/ Terminated

EngineSpec == EngineInit /\ [][EngineNext]_engineVars

(* What thread t does next, in the executor or in the core. *)
Moves(t) ==
  \/ t \in Stepper /\ Waiting(t) /\ Outside
  \/ t = WorkerThread /\ Working /\ Outside
  \/ t \in Closer /\ Closing(t) /\ Outside
  \/ Enter(t) \/ Return(t) \/ Running(t)

(* Threads are scheduled, what the plugin executes ends, and the           *)
(* controller, which "owns the update transaction", finishes or aborts     *)
(* what it began.                                                          *)
EngineFairness ==
  /\ \A t \in Thread : WF_engineVars(Moves(t))
  /\ \A t \in Trainer : WF_engineVars(Running(t)) /\ WF_engineVars(Ends(t))

FairEngine == EngineSpec /\ EngineFairness

-----------------------------------------------------------------------------
(* An item ahead of i in the queue whose step() is gone: nobody takes it,  *)
(* and nobody may overtake it.                                             *)
AbandonedAhead(i) ==
  \E j \in ToSet(queue) : j < i /\ ~Async(j) /\ \A t \in Stepper : item[t] # j

(* close() came during an update while a request waits for the end of it:  *)
(* the facade refuses finish and abort, and the core, which would abort    *)
(* the update, is closed only after the request.                           *)
Stuck ==
  /\ closed /\ update \in Open /\ \A t \in Trainer : cpc[t] \in {"out", "step"}
  /\ \E t \in Thread : cpc[t] = "step"

(* Request i is accepted and not answered: its future is open, or its      *)
(* step() has not returned.                                                *)
Unanswered(i) == future[i] \in {"pending", "running"} \/ \E t \in Stepper : item[t] = i

(* Every accepted request ends: its future is resolved or cancelled, or    *)
(* its step() returns; no wakeup is lost between the threads, and no lock  *)
(* is left behind by an update.  The exceptions are a request behind the   *)
(* item of an interrupted step(), and the engine that is stuck.            *)
RequestsEnd ==
  \A i \in Item : Unanswered(i) ~> ~Unanswered(i) \/ AbandonedAhead(i) \/ Stuck

(* Every call of a trainer returns, whatever fails, is aborted or closed;  *)
(* only a rollout can be caught in an engine that is stuck.                *)
TrainersReturn ==
  \A t \in Trainer : cpc[t] # "out" ~> cpc[t] = "out" \/ (cpc[t] = "step" /\ Stuck)

(* A close() that was called returns, also past an interrupted step(), and *)
(* during an update, unless a request waits for the end of that.           *)
CloseReturns ==
  \A t \in Closer : pc[t] \in {"drain", "cancel", "join", "core"} ~> pc[t] = "done" \/ Stuck

(* Every request, every call of a trainer and every close() of the       *)
(* engine comes to an end, but for the two cases named above.            *)
CallsReturn == RequestsEnd /\ TrainersReturn /\ CloseReturns

=============================================================================
