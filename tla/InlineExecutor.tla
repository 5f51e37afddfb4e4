--------------------------- MODULE InlineExecutor ---------------------------
(***************************************************************************)
(* The executor that runs a replica in the calling process                 *)
(* (phyai/server/executor.py, InlineExecutor; ExternalExecutor only masks  *)
(* the result).  Callers of step() run the core themselves, futures of     *)
(* submit() are run by one lazily started worker thread, both in the order *)
(* of one queue.  Everything is guarded by one condition variable: each    *)
(* action is a section between two points where a thread releases it, and  *)
(* waiting is the set of threads inside condition.wait().                  *)
(***************************************************************************)
EXTENDS Integers, Sequences, FiniteSets, SequencesExt

CONSTANTS
  Stepper,        \* threads that call step()
  Closer,         \* threads that call close()
  WorkerThread,   \* the thread of _worker_loop
  MaxItem,        \* bound: requests accepted in a behaviour
  MaxInterrupts   \* bound: exceptions raised in a waiting step()

Item   == 1..MaxItem
Thread == Stepper \cup Closer \cup {WorkerThread}

ASSUME ThreadAssumption ==
  /\ Stepper \cap Closer = {} /\ WorkerThread \notin Stepper \cup Closer
  /\ {MaxItem, MaxInterrupts} \subseteq Nat

VARIABLES
  queue,      \* _queue, the items as numbers in order of acceptance
  active,     \* _active
  closed,     \* _closed
  coreClosed, \* core.close() has been called
  nextItem,   \* the number the next accepted item gets
  future,     \* the future of each item; "sync" for the item of a step()
  waiting,    \* threads inside condition.wait()
  pc,         \* where each thread is
  item,       \* the item a thread works on, 0 if none
  queued,     \* close(): the items taken out of the queue
  interrupts  \* exceptions raised so far

sharedVars == <<active, closed, coreClosed>>
vars == <<queue, sharedVars, nextItem, future, waiting, pc, item, queued, interrupts>>

StepperPc == {"idle", "turn", "exec"}
CloserPc  == {"idle", "drain", "cancel", "join", "core", "done"}
WorkerPc  == {"none", "loop", "claim", "exec", "settled", "exit"}
FutureState == {"none", "sync", "pending", "running", "done", "cancelled"}

Goto(t, label) == pc' = [pc EXCEPT ![t] = label]

Init ==
  /\ queue = <<>> /\ active = FALSE /\ closed = FALSE /\ coreClosed = FALSE
  /\ nextItem = 1 /\ future = [i \in Item |-> "none"]
  /\ waiting = {}
  /\ pc = [t \in Thread |-> IF t = WorkerThread THEN "none" ELSE "idle"]
  /\ item = [t \in Thread |-> 0]
  /\ queued = [t \in Closer |-> {}]
  /\ interrupts = 0

-----------------------------------------------------------------------------
(* step().                                                                 *)

NotifyAll == waiting' = {}

(* Enqueue, notify, and the first test of the waiting loop.  *)
StepCall(t) ==
  LET i == nextItem IN
  /\ pc[t] = "idle" /\ ~closed /\ nextItem <= MaxItem
  /\ nextItem' = nextItem + 1
  /\ future' = [future EXCEPT ![i] = "sync"]
  /\ item' = [item EXCEPT ![t] = i]
  /\ IF ~active /\ queue = <<>>
     THEN active' = TRUE /\ Goto(t, "exec") /\ NotifyAll /\ UNCHANGED queue
     ELSE /\ queue' = Append(queue, i) /\ Goto(t, "turn") /\ waiting' = {t}
          /\ UNCHANGED active
  /\ UNCHANGED <<closed, coreClosed, queued, interrupts>>

MyTurn(t) == ~active /\ queue # <<>> /\ Head(queue) = item[t]

(* Awake in the waiting loop: take the turn, give up, or wait again. *)
StepTurn(t) ==
  /\ pc[t] = "turn" /\ t \notin waiting
  /\ \/ /\ MyTurn(t)
        /\ queue' = Tail(queue) /\ active' = TRUE /\ Goto(t, "exec")
        /\ UNCHANGED <<waiting, item>>
     \/ /\ ~MyTurn(t) /\ closed
        /\ queue' = RemoveFirst(queue, item[t])
        /\ item' = [item EXCEPT ![t] = 0] /\ Goto(t, "idle")
        /\ UNCHANGED <<active, waiting>>
     \/ /\ ~MyTurn(t) /\ ~closed
        /\ waiting' = waiting \cup {t}
        /\ UNCHANGED <<queue, active, item, pc>>
  /\ UNCHANGED <<closed, coreClosed, nextItem, future, queued, interrupts>>

Unwound(t) == waiting \ {t}

(* An exception such as KeyboardInterrupt is raised in condition.wait():   *)
(* step() ends, and its item stays in the queue.                           *)
StepInterrupt(t) ==
  /\ pc[t] = "turn" /\ t \in waiting /\ interrupts < MaxInterrupts
  /\ interrupts' = interrupts + 1
  /\ waiting' = Unwound(t)
  /\ item' = [item EXCEPT ![t] = 0] /\ Goto(t, "idle")
  /\ UNCHANGED <<queue, sharedVars, nextItem, future, queued>>

Release_Silent(t) == active' = FALSE /\ item' = [item EXCEPT ![t] = 0] /\ UNCHANGED waiting

(* The core is free again. *)
Release(t) == active' = FALSE /\ item' = [item EXCEPT ![t] = 0] /\ NotifyAll

(* core.step() returned or raised. *)
StepDone(t) ==
  /\ pc[t] = "exec" /\ Release(t) /\ Goto(t, "idle")
  /\ UNCHANGED <<queue, closed, coreClosed, nextItem, future, queued, interrupts>>

-----------------------------------------------------------------------------
(* submit() and the worker thread.                                         *)

Submit ==
  /\ ~closed /\ nextItem <= MaxItem
  /\ nextItem' = nextItem + 1
  /\ queue' = Append(queue, nextItem)
  /\ future' = [future EXCEPT ![nextItem] = "pending"]
  /\ IF pc[WorkerThread] = "none" THEN Goto(WorkerThread, "loop") ELSE UNCHANGED pc
  /\ NotifyAll
  /\ UNCHANGED <<sharedVars, item, queued, interrupts>>

Async(i) == future[i] # "sync"

WorkerTakes_AnyAsync(k) == ~active /\ Async(queue[k])

(* The worker takes the head of the queue, if it belongs to a submit(). *)
WorkerTakes(k) == ~active /\ k = 1 /\ Async(queue[k])

WorkerLoop ==
  LET w       == WorkerThread
      over    == closed /\ ~active /\ queue = <<>>
      takable == {k \in DOMAIN queue : WorkerTakes(k)} IN
  /\ pc[w] = "loop" /\ w \notin waiting
  /\ \/ /\ over
        /\ Goto(w, "exit") /\ UNCHANGED <<queue, active, item, waiting>>
     \/ \E k \in takable :
          /\ queue' = RemoveAt(queue, k) /\ active' = TRUE
          /\ item' = [item EXCEPT ![w] = queue[k]] /\ Goto(w, "claim")
          /\ UNCHANGED waiting
     \/ /\ ~over /\ takable = {}
        /\ waiting' = waiting \cup {w} /\ UNCHANGED <<queue, active, item, pc>>
  /\ UNCHANGED <<closed, coreClosed, nextItem, future, queued, interrupts>>

(* set_running_or_notify_cancel(): a cancelled request is skipped. *)
WorkerClaim ==
  LET w == WorkerThread IN
  /\ pc[w] = "claim"
  /\ IF future[item[w]] = "cancelled"
     THEN Goto(w, "settled") /\ UNCHANGED future
     ELSE future' = [future EXCEPT ![item[w]] = "running"] /\ Goto(w, "exec")
  /\ UNCHANGED <<queue, sharedVars, nextItem, waiting, item, queued, interrupts>>

(* set_result or set_exception. *)
WorkerResult ==
  LET w == WorkerThread IN
  /\ pc[w] = "exec"
  /\ future' = [future EXCEPT ![item[w]] = "done"]
  /\ Goto(w, "settled")
  /\ UNCHANGED <<queue, sharedVars, nextItem, waiting, item, queued, interrupts>>

WorkerRelease ==
  /\ pc[WorkerThread] = "settled" /\ Release(WorkerThread)
  /\ Goto(WorkerThread, "loop")
  /\ UNCHANGED <<queue, closed, coreClosed, nextItem, future, queued, interrupts>>

(* The caller cancels a future that does not run yet. *)
Cancel(i) ==
  /\ future[i] = "pending"
  /\ future' = [future EXCEPT ![i] = "cancelled"]
  /\ UNCHANGED <<queue, sharedVars, nextItem, waiting, pc, item, queued, interrupts>>

-----------------------------------------------------------------------------
(* close().  (One called from a done callback, in the worker thread, waits *)
(* for itself and is left out.)                                            *)

(* close() waits for the request that is being executed. *)
Drained == ~active

CloseCall(t) ==
  /\ pc[t] = "idle"
  /\ IF closed
     THEN Goto(t, "done") /\ UNCHANGED <<queue, closed, queued, waiting>>
     ELSE /\ closed' = TRUE
          /\ queued' = [queued EXCEPT ![t] = ToSet(queue)]
          /\ queue' = <<>>
          /\ IF Drained THEN Goto(t, "cancel") /\ NotifyAll
                        ELSE Goto(t, "drain") /\ waiting' = {t}
  /\ UNCHANGED <<active, coreClosed, nextItem, future, item, interrupts>>

CloseDrain(t) ==
  /\ pc[t] = "drain" /\ t \notin waiting
  /\ IF Drained THEN Goto(t, "cancel") /\ UNCHANGED waiting
                ELSE waiting' = waiting \cup {t} /\ UNCHANGED pc
  /\ UNCHANGED <<queue, sharedVars, nextItem, future, item, queued, interrupts>>

CancelQueued_Forgotten(t) == UNCHANGED future

CancelQueued(t) ==
  future' = [i \in Item |-> IF i \in queued[t] /\ future[i] = "pending"
                            THEN "cancelled" ELSE future[i]]

CloseCancel(t) ==
  /\ pc[t] = "cancel" /\ CancelQueued(t)
  /\ queued' = [queued EXCEPT ![t] = {}]
  /\ Goto(t, "join")
  /\ UNCHANGED <<queue, sharedVars, nextItem, waiting, item, interrupts>>

(* worker.join.  The worker is past its last request, so its exit beats    *)
(* the five seconds of the join.                                           *)
CloseJoin(t) ==
  /\ pc[t] = "join"
  /\ pc[WorkerThread] \in {"none", "exit"}
  /\ coreClosed' = TRUE
  /\ Goto(t, "core")
  /\ UNCHANGED <<queue, active, closed, nextItem, future, waiting, item, queued, interrupts>>

(* core.close() returned. *)
CloseDone(t) ==
  /\ pc[t] = "core" /\ Goto(t, "done")
  /\ UNCHANGED <<queue, sharedVars, nextItem, future, waiting, item, queued, interrupts>>

-----------------------------------------------------------------------------
(* What a thread does by itself once it was called, and the points at      *)
(* which it comes back from the core.                                      *)
Waiting(t)  == StepTurn(t)
Working     == WorkerLoop \/ WorkerClaim \/ WorkerRelease
Closing(t)  == CloseDrain(t) \/ CloseCancel(t) \/ CloseJoin(t)

CoreReturns(t) ==
  \/ t \in Stepper /\ StepDone(t)
  \/ t = WorkerThread /\ WorkerResult
  \/ t \in Closer /\ CloseDone(t)

Requests == \/ \E t \in Stepper : StepCall(t) \/ StepInterrupt(t)
            \/ Submit \/ \E i \in Item : Cancel(i)
            \/ \E t \in Closer : CloseCall(t)

Own == (\E t \in Stepper : Waiting(t)) \/ Working \/ (\E t \in Closer : Closing(t))

Next == Requests \/ Own \/ \E t \in Thread : CoreReturns(t)

Spec == Init /\ [][Next]_vars

-----------------------------------------------------------------------------
(* Every variable has its type, and a thread is listed as waiting only at  *)
(* one of the three condition.wait().                                      *)
TypeOK ==
  /\ queue \in Seq(Item) /\ active \in BOOLEAN
  /\ closed \in BOOLEAN /\ coreClosed \in BOOLEAN
  /\ nextItem \in 1..(MaxItem + 1)
  /\ future \in [Item -> FutureState]
  /\ waiting \subseteq {t \in Thread : pc[t] \in {"turn", "loop", "drain"}}
  /\ pc \in [Thread -> StepperPc \cup CloserPc \cup WorkerPc]
  /\ \A t \in Stepper : pc[t] \in StepperPc
  /\ \A t \in Closer : pc[t] \in CloserPc
  /\ pc[WorkerThread] \in WorkerPc
  /\ item \in [Thread -> Item \cup {0}]
  /\ queued \in [Closer -> SUBSET Item] /\ interrupts \in 0..MaxInterrupts

(* Threads between taking an item and releasing the core. *)
Users == {t \in Stepper \cup {WorkerThread} : item[t] # 0 /\ pc[t] # "turn"}

(* The core is entered by one thread at a time, and _active says by        *)
(* whether: step() in caller threads and the worker thread exclude each    *)
(* other.                                                                  *)
OneAtATime ==
  /\ \A t, u \in Users : t = u
  /\ active <=> Users # {}

(* "Enter the core in FIFO order": whatever waits was accepted after what  *)
(* is being executed, for step() and submit() alike.                       *)
FifoOrder ==
  \A t \in Users : \A k \in DOMAIN queue : item[t] < queue[k]

(* core.close() is called with nobody in the core, and nobody enters it    *)
(* afterwards.                                                             *)
NoUseAfterClose == coreClosed => \A t \in Thread : pc[t] # "exec"

(* When close() has returned no future is left that nobody will resolve.   *)
ClosedSettlesFutures ==
  coreClosed => \A i \in Item : future[i] \notin {"pending", "running"}

(* step() in caller threads and the worker thread of submit() take       *)
(* turns: one at a time is in the core, in the order in which requests   *)
(* were accepted.                                                        *)
TurnsCorrect == TypeOK /\ OneAtATime /\ FifoOrder

(* close() of the executor ends it: nobody is in the core any more and   *)
(* no future is left behind.                                             *)
CloseCorrect == NoUseAfterClose /\ ClosedSettlesFutures

=============================================================================
