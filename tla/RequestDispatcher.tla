------------------------- MODULE RequestDispatcher -------------------------
(***************************************************************************)
(* Routing over the replicas of a managed deployment: RequestDispatcher    *)
(* (phyai/server/dispatcher.py) over the MultiprocessExecutors that share  *)
(* one worker supervisor (phyai/server/executor.py).  The supervisor is    *)
(* what its callers see of it: a lifecycle state and a load per replica    *)
(* (WorkerSupervisor and WorkerStartup model the inside).                  *)
(*                                                                         *)
(* A caller of submit() reads the health, then the load, then the load     *)
(* again of one executor after the other without a lock, so the reads are  *)
(* actions of their own.                                                   *)
(***************************************************************************)
EXTENDS Integers, FiniteSets, FiniteSetsExt

CONSTANTS
  ReplicaCount,  \* number of executors
  Client,        \* threads that call submit() or step()
  Starter,       \* threads that call setup()
  Closer,        \* threads that call close()
  None,          \* no thread
  MaxRequest,    \* bound: calls of submit() in a behaviour
  MaxCompletions,\* bound: requests that complete in a behaviour
  MaxFaults      \* bound: failures of the supervisor in a behaviour

Replica == 1..ReplicaCount
Thread  == Client \cup Starter \cup Closer

ASSUME CountAssumption ==
  /\ ReplicaCount \in Nat \ {0}
  /\ MaxRequest \in Nat /\ MaxCompletions \in Nat /\ MaxFaults \in Nat
ASSUME ThreadAssumption ==
  /\ Client \cap Starter = {} /\ Client \cap Closer = {} /\ Starter \cap Closer = {}
  /\ None \notin Thread /\ IsFiniteSet(Client)

VARIABLES
  (* RequestDispatcher *)
  cursor,     \* the executor the next round-robin starts at
  closed,     \* _closed
  started,    \* _started
  setupLock,  \* holder of _setup_lock
  (* MultiprocessExecutor and _SharedManager *)
  exClosed,   \* executors that are closed
  remaining,  \* references left
  shStarted,  \* the shared manager was started
  shClosed,   \* the shared manager is closed
  shLock,     \* holder of its lock
  (* the worker supervisor *)
  mgr,        \* its state
  load,       \* its inflight
  (* threads *)
  pc, idx,    \* where a thread is, and at which executor
  sel,        \* what a caller of _select has read
  (* history *)
  calls, completions, faults,
  skipped     \* selections in a row that passed over a replica eligible in each

dispVars == <<cursor, closed, started, setupLock>>
execVars == <<exClosed, remaining, shStarted, shClosed, shLock>>
mgrVars  == <<mgr, load>>
histVars == <<calls, completions, faults, skipped>>
vars == <<dispVars, execVars, mgrVars, pc, idx, sel, histVars>>

ClientPc  == {"idle", "health", "minimum", "eligible", "pick", "asserted",
              "submit", "start", "shared", "starting", "send"}
StarterPc == {"idle", "start", "shared", "starting", "started", "setupFailed",
              "close", "release", "managerClose", "ready", "raised"}
CloserPc  == {"idle", "close", "release", "managerClose", "done"}

NoSelection == [candidates |-> {}, minimum |-> 0, eligible |-> {}]

Goto(t, label) == pc' = [pc EXCEPT ![t] = label]
At(t, r) == idx' = [idx EXCEPT ![t] = r]

Init ==
  /\ cursor = 1 /\ closed = FALSE /\ started = FALSE /\ setupLock = None
  /\ exClosed = {} /\ remaining = ReplicaCount
  /\ shStarted = FALSE /\ shClosed = FALSE /\ shLock = None
  /\ mgr = "created" /\ load = [r \in Replica |-> 0]
  /\ pc = [t \in Thread |-> "idle"] /\ idx = [t \in Thread |-> 1]
  /\ sel = [c \in Client |-> NoSelection]
  /\ calls = 0 /\ completions = 0 /\ faults = 0
  /\ skipped = [r \in Replica |-> 0]

-----------------------------------------------------------------------------
(* _select.                                                                *)

(* MultiprocessExecutor.healthy and inflight. *)
Healthy(r)  == r \notin exClosed /\ mgr \in {"created", "starting", "running"}
Inflight(r) == IF r \in exClosed THEN 0 ELSE load[r]

(* The closed flag is read once; what follows does not look at it again. *)
SubmitBegin(c) ==
  /\ pc[c] = "idle" /\ ~closed /\ calls < MaxRequest
  /\ calls' = calls + 1
  /\ sel' = [sel EXCEPT ![c] = NoSelection]
  /\ Goto(c, "health") /\ At(c, 1)
  /\ UNCHANGED <<dispVars, execVars, mgrVars, completions, faults, skipped>>

ReadHealth(c) ==
  LET r == idx[c]
      candidates == sel[c].candidates \cup {x \in {r} : Healthy(x)} IN
  /\ pc[c] = "health"
  /\ sel' = [sel EXCEPT ![c].candidates = candidates]
  /\ IF r < ReplicaCount THEN At(c, r + 1) /\ UNCHANGED pc
     ELSE /\ Goto(c, IF candidates = {} THEN "idle" ELSE "minimum")
          /\ At(c, IF candidates = {} THEN 1 ELSE Min(candidates))
  /\ UNCHANGED <<dispVars, execVars, mgrVars, histVars>>

(* The candidate after r in a loop over the candidates. *)
Following(c, r) == {x \in sel[c].candidates : x > r}

Least_Greater(a, b) == Max({a, b})

Least(a, b) == Min({a, b})

(* minimum = min(executor.inflight for executor in candidates) *)
ReadMinimum(c) ==
  LET r == idx[c]
      first == r = Min(sel[c].candidates) IN
  /\ pc[c] = "minimum"
  /\ sel' = [sel EXCEPT ![c].minimum =
               IF first THEN Inflight(r) ELSE Least(@, Inflight(r))]
  /\ IF Following(c, r) # {} THEN At(c, Min(Following(c, r))) /\ UNCHANGED pc
                             ELSE At(c, Min(sel[c].candidates)) /\ Goto(c, "eligible")
  /\ UNCHANGED <<dispVars, execVars, mgrVars, histVars>>

Minimal(c, r) == Inflight(r) = sel[c].minimum

(* The load of each candidate is read a second time. *)
ReadEligible(c) ==
  LET r == idx[c] IN
  /\ pc[c] = "eligible"
  /\ sel' = [sel EXCEPT ![c].eligible = @ \cup {x \in {r} : Minimal(c, x)}]
  /\ IF Following(c, r) # {} THEN At(c, Min(Following(c, r))) /\ UNCHANGED pc
                             ELSE At(c, 1) /\ Goto(c, "pick")
  /\ UNCHANGED <<dispVars, execVars, mgrVars, histVars>>

After_Stays(r) == r

After(r) == (r % ReplicaCount) + 1

(* The first eligible executor at or after the cursor. *)
Chosen(c) ==
  LET from(k) == ((cursor - 1 + k) % ReplicaCount) + 1
      offset  == Min({k \in 0..(ReplicaCount - 1) : from(k) \in sel[c].eligible}) IN
  from(offset)

Pick(c) ==
  /\ pc[c] = "pick" /\ sel[c].eligible # {}
  /\ cursor' = After(Chosen(c))
  /\ skipped' = [r \in Replica |->
                   IF r \in sel[c].eligible \ {Chosen(c)} THEN skipped[r] + 1 ELSE 0]
  /\ Goto(c, "submit") /\ At(c, Chosen(c))
  /\ UNCHANGED <<closed, started, setupLock, execVars, mgrVars, sel,
                 calls, completions, faults>>

(* raise AssertionError; the caller gets it in a failed future. *)
PickAsserts(c) ==
  /\ pc[c] = "pick" /\ sel[c].eligible = {}
  /\ Goto(c, "asserted")
  /\ UNCHANGED <<dispVars, execVars, mgrVars, idx, sel, histVars>>

AssertReturns(c) ==
  /\ pc[c] = "asserted" /\ Goto(c, "idle")
  /\ UNCHANGED <<dispVars, execVars, mgrVars, idx, sel, histVars>>

-----------------------------------------------------------------------------
(* MultiprocessExecutor.submit and start; _SharedManager.start.            *)

(* Where a start() of the executor at idx[t] leads. *)
Proceed(t) ==
  CASE t \in Client -> Goto(t, "send") /\ UNCHANGED idx
    [] t \in Starter /\ idx[t] < ReplicaCount -> At(t, idx[t] + 1) /\ Goto(t, "start")
    [] OTHER -> Goto(t, "started") /\ UNCHANGED idx

Abort(t) == Goto(t, IF t \in Client THEN "idle" ELSE "setupFailed") /\ UNCHANGED idx

(* The check of _closed in submit(); start() repeats it. *)
ExecutorSubmit(c) ==
  /\ pc[c] = "submit"
  /\ Goto(c, IF idx[c] \in exClosed THEN "idle" ELSE "start")
  /\ UNCHANGED <<dispVars, execVars, mgrVars, idx, sel, histVars>>

ExecutorStart(t) ==
  /\ pc[t] = "start"
  /\ IF idx[t] \in exClosed THEN Abort(t) ELSE Goto(t, "shared") /\ UNCHANGED idx
  /\ UNCHANGED <<dispVars, execVars, mgrVars, sel, histVars>>

MayStart_Unchecked == TRUE

MayStart == ~shClosed

(* The lock is held while the manager starts; a second start() of the      *)
(* manager, after the first one failed, raises.                            *)
SharedStart(t) ==
  /\ pc[t] = "shared" /\ shLock = None
  /\ \/ /\ ~MayStart \/ (~shStarted /\ mgr # "created")
        /\ Abort(t) /\ UNCHANGED <<shLock, mgr>>
     \/ /\ MayStart /\ shStarted
        /\ Proceed(t) /\ UNCHANGED <<shLock, mgr>>
     \/ /\ MayStart /\ ~shStarted /\ mgr = "created"
        /\ shLock' = t /\ mgr' = "starting"
        /\ Goto(t, "starting") /\ UNCHANGED idx
  /\ UNCHANGED <<dispVars, exClosed, remaining, shStarted, shClosed, load, sel,
                 histVars>>

StartSucceeds(t) ==
  /\ pc[t] = "starting"
  /\ mgr' = "running" /\ shStarted' = TRUE /\ shLock' = None
  /\ Proceed(t)
  /\ UNCHANGED <<dispVars, exClosed, remaining, shClosed, load, sel, histVars>>

StartFails(t) ==
  /\ pc[t] = "starting" /\ faults < MaxFaults
  /\ faults' = faults + 1
  /\ mgr' = "failed" /\ shLock' = None
  /\ Abort(t)
  /\ UNCHANGED <<dispVars, exClosed, remaining, shStarted, shClosed, load, sel, calls,
                 completions, skipped>>

(* WorkerSupervisor.submit *)
ManagerSubmit(c) ==
  /\ pc[c] = "send"
  /\ load' = IF mgr = "running" THEN [load EXCEPT ![idx[c]] = @ + 1] ELSE load
  /\ Goto(c, "idle")
  /\ UNCHANGED <<dispVars, execVars, mgr, idx, sel, histVars>>

-----------------------------------------------------------------------------
(* setup().                                                                *)

SetupBegin(t) ==
  /\ pc[t] = "idle" /\ setupLock = None
  /\ IF closed \/ started
     THEN Goto(t, IF closed THEN "raised" ELSE "ready") /\ UNCHANGED <<setupLock, idx>>
     ELSE setupLock' = t /\ At(t, 1) /\ Goto(t, "start")
  /\ UNCHANGED <<cursor, closed, started, execVars, mgrVars, sel, histVars>>

SetupDone(t) ==
  /\ pc[t] = "started"
  /\ started' = TRUE /\ setupLock' = None /\ Goto(t, "ready")
  /\ UNCHANGED <<cursor, closed, execVars, mgrVars, idx, sel, histVars>>

(* A failed setup closes every executor, whether it was started or not. *)
SetupFailed(t) ==
  /\ pc[t] = "setupFailed"
  /\ closed' = TRUE /\ At(t, ReplicaCount) /\ Goto(t, "close")
  /\ UNCHANGED <<cursor, started, setupLock, execVars, mgrVars, sel, histVars>>

-----------------------------------------------------------------------------
(* close(), and MultiprocessExecutor.close in reverse order.               *)

CloseBegin(t) ==
  /\ pc[t] = "idle" /\ setupLock = None
  /\ IF closed
     THEN Goto(t, "done") /\ UNCHANGED <<closed, setupLock, idx>>
     ELSE /\ setupLock' = t /\ closed' = TRUE
          /\ At(t, ReplicaCount) /\ Goto(t, "close")
  /\ UNCHANGED <<cursor, started, execVars, mgrVars, sel, histVars>>

CloseExecutor(t) ==
  /\ pc[t] = "close"
  /\ exClosed' = exClosed \cup {idx[t]}
  /\ Goto(t, "release")
  /\ UNCHANGED <<dispVars, remaining, shStarted, shClosed, shLock, mgrVars, idx, sel,
                 histVars>>

(* On to the previous executor, or out of the setup lock. *)
CloseNext(t) ==
  IF idx[t] > 1
  THEN At(t, idx[t] - 1) /\ Goto(t, "close") /\ UNCHANGED setupLock
  ELSE /\ setupLock' = None /\ Goto(t, IF t \in Starter THEN "raised" ELSE "done")
       /\ UNCHANGED idx

LastReference == remaining = 1

Release(t) ==
  /\ pc[t] = "release" /\ shLock = None
  /\ remaining' = remaining - 1
  /\ IF LastReference /\ ~shClosed
     THEN shClosed' = TRUE /\ Goto(t, "managerClose") /\ UNCHANGED <<idx, setupLock>>
     ELSE CloseNext(t) /\ UNCHANGED shClosed
  /\ UNCHANGED <<cursor, closed, started, exClosed, shStarted, shLock, mgrVars, sel,
                 histVars>>

(* WorkerSupervisor.close: pending requests are failed. *)
ManagerClose(t) ==
  /\ pc[t] = "managerClose"
  /\ mgr' = IF mgr = "failed" THEN "failed" ELSE "stopped"
  /\ load' = [r \in Replica |-> 0]
  /\ CloseNext(t)
  /\ UNCHANGED <<cursor, closed, started, execVars, sel, histVars>>

-----------------------------------------------------------------------------
(* The supervisor on its own: a request completes, a worker dies.          *)

ManagerCompletes(r) ==
  /\ load[r] > 0 /\ completions < MaxCompletions
  /\ completions' = completions + 1
  /\ load' = [load EXCEPT ![r] = @ - 1]
  /\ UNCHANGED <<dispVars, execVars, mgr, pc, idx, sel, calls, faults, skipped>>

ManagerFails ==
  /\ mgr = "running" /\ faults < MaxFaults
  /\ faults' = faults + 1
  /\ mgr' = "failed" /\ load' = [r \in Replica |-> 0]
  /\ UNCHANGED <<dispVars, execVars, pc, idx, sel, calls, completions, skipped>>

-----------------------------------------------------------------------------
Selecting(c) == \/ ReadHealth(c) \/ ReadMinimum(c) \/ ReadEligible(c) \/ Pick(c)
                \/ PickAsserts(c) \/ AssertReturns(c)
                \/ ExecutorSubmit(c) \/ ManagerSubmit(c)
Starting(t)  == ExecutorStart(t) \/ SharedStart(t) \/ StartSucceeds(t)
Settling(t)  == \/ SetupDone(t) \/ SetupFailed(t)
                \/ CloseExecutor(t) \/ Release(t) \/ ManagerClose(t)

Terminated ==
  /\ closed /\ \A t \in Starter \cup Closer : pc[t] \in {"ready", "raised", "done"}
  /\ \A c \in Client : pc[c] = "idle"
  /\ UNCHANGED vars

Next == \/ \E c \in Client : SubmitBegin(c) \/ Selecting(c)
        \/ \E t \in Thread : Starting(t) \/ StartFails(t) \/ Settling(t)
        \/ \E t \in Starter : SetupBegin(t)
        \/ \E t \in Closer : CloseBegin(t)
        \/ \E r \in Replica : ManagerCompletes(r)
        \/ ManagerFails
        \/ Terminated

Spec == Init /\ [][Next]_vars

-----------------------------------------------------------------------------
(* Every variable has its type, and a thread is at a point of its own call. *)
TypeOK ==
  /\ cursor \in Replica /\ closed \in BOOLEAN /\ started \in BOOLEAN
  /\ setupLock \in Starter \cup Closer \cup {None}
  /\ exClosed \subseteq Replica /\ remaining \in 0..ReplicaCount
  /\ shStarted \in BOOLEAN /\ shClosed \in BOOLEAN /\ shLock \in Thread \cup {None}
  /\ mgr \in {"created", "starting", "running", "stopped", "failed"}
  /\ load \in [Replica -> 0..MaxRequest]
  /\ pc \in [Thread -> ClientPc \cup StarterPc \cup CloserPc] /\ idx \in [Thread -> Replica]
  /\ \A t \in Thread : /\ t \in Client => pc[t] \in ClientPc
                       /\ t \in Starter => pc[t] \in StarterPc
                       /\ t \in Closer => pc[t] \in CloserPc
  /\ sel \in [Client -> [candidates : SUBSET Replica, minimum : 0..MaxRequest,
                         eligible : SUBSET Replica]]
  /\ calls \in 0..MaxRequest /\ completions \in 0..MaxCompletions /\ faults \in 0..MaxFaults
  /\ skipped \in [Replica -> 0..MaxRequest]

(* "ties rotate round-robin": among replicas that stay equally loaded none *)
(* is passed over by a whole round, however the callers interleave.        *)
TiesRotate == \A r \in Replica : skipped[r] < ReplicaCount

(* "the one with the fewest requests in flight": until something completes *)
(* or close() takes replicas away, two loads differ by no more than the    *)
(* number of callers, each of which may act on loads that are out of date. *)
Balanced ==
  completions = 0 /\ ~closed =>
    \A r, s \in Replica : load[r] - load[s] <= Cardinality(Client)

(* Once a close() or a failed setup() has returned, the supervisor is      *)
(* closed or failed for good: a submit() that passed its check before, and *)
(* starts the workers lazily, cannot bring them up behind it.              *)
ClosedStaysClosed ==
  (\E t \in Starter \cup Closer : pc[t] \in {"raised", "done"})
    => mgr \in {"stopped", "failed"}

(* The references of the shared supervisor count the executors that are    *)
(* not closed yet: it is closed with the last one, never before.           *)
ReferencesCounted ==
  /\ remaining = ReplicaCount - Cardinality(exClosed)
                 + Cardinality({t \in Thread : pc[t] = "release"})
  /\ shClosed <=> remaining = 0

(* A healthy replica that was found is selected: the AssertionError at the *)
(* end of _select is unreachable.                                          *)
NoAssertion == \A c \in Client : pc[c] # "asserted"

(* The supervisor that executors share lives as long as one of them is   *)
(* open and not longer: whichever of setup(), submit() and close() of    *)
(* several threads comes between two steps of another, it is closed with *)
(* the last one and not started again.                                   *)
LifecycleCorrect == TypeOK /\ ClosedStaysClosed /\ ReferencesCounted

=============================================================================
