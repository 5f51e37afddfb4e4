--------------------------- MODULE LeRobotSession ---------------------------
(***************************************************************************)
(* One LeRobot client's session at the gateway                             *)
(* (phyai-gateway/phyai_gateway/adapters/lerobot.py).  The client's four   *)
(* calls run on threads of a pool: Ready replaces the session object,      *)
(* SendPolicyInstructions its setup, SendObservations leaves an            *)
(* observation in it, and GetActions waits for one and sends it to a       *)
(* model.  Payloads are decoded, and the model is called, outside the      *)
(* session's lock.                                                         *)
(*                                                                         *)
(* A step is a section under the lock.  The lookup of the session and the  *)
(* read of its setup are one step: a reset between them only makes the     *)
(* call fail.  Objects are compared by identity, so a session, a setup and *)
(* an observation is a number in the order they are made.                  *)
(***************************************************************************)
EXTENDS Integers, FiniteSets

CONSTANTS
  Setter, Sender, Getter,          \* threads in each of the calls
  MaxSession, MaxSetup, MaxObs     \* bounds: objects ever made

ASSUME SessionAssumption == {MaxSession, MaxSetup, MaxObs} \subseteq Nat

None  == 0
NoObs == [id |-> None, setup |-> None]
Free  == [phase |-> "idle", session |-> None, obs |-> NoObs]

VARIABLES
  current,   \* the session object in _sessions, None before Ready
  session,   \* each _SessionState made: [setup, pending, closed]
  made,      \* setups and observations made: [setup, obs]
  setting,   \* SendPolicyInstructions: the session it looked up
  sending,   \* SendObservations: [session, setup] it looked up
  getting,   \* GetActions: [phase, session, obs]
  gone,      \* getters whose context is no longer active
  callback,  \* <<getter, session>> whose wake_on_cancel() has yet to run
  answered   \* observations whose actions were returned (not in the code)

vars == <<current, session, made, setting, sending, getting, gone, callback, answered>>

Fresh == [setup |-> None, pending |-> NoObs, closed |-> FALSE]

Init ==
  /\ current = None
  /\ session = [g \in 1..MaxSession |-> Fresh]
  /\ made = [setup |-> 0, obs |-> 0]
  /\ setting = [h \in Setter |-> None]
  /\ sending = [h \in Sender |-> [session |-> None, setup |-> None]]
  /\ getting = [h \in Getter |-> Free]
  /\ gone = {} /\ callback = {} /\ answered = {}

-----------------------------------------------------------------------------
(* condition.notify_all(): those who wait on session g wake up.            *)
WakeAll(g) ==
  [h \in Getter |-> IF getting[h].phase = "asleep" /\ getting[h].session = g
                    THEN [getting[h] EXCEPT !.phase = "awake"] ELSE getting[h]]

Asleep(g) == {h \in Getter : getting[h].phase = "asleep" /\ getting[h].session = g}

Reset_Silent(g) == getting

(* Ready(): what it wakes of the session it closes. *)
Reset(g) == WakeAll(g)

Ready ==
  /\ current < MaxSession
  /\ current' = current + 1
  /\ session' = IF current = None THEN session
                ELSE [session EXCEPT ![current] = [Fresh EXCEPT !.closed = TRUE]]
  /\ getting' = Reset(current)
  /\ UNCHANGED <<made, setting, sending, gone, callback, answered>>

(* SendPolicyInstructions(): decoding starts. *)
BeginSetup(h) ==
  /\ setting[h] = None /\ current # None
  /\ setting' = [setting EXCEPT ![h] = current]
  /\ UNCHANGED <<current, session, made, sending, getting, gone, callback, answered>>

Cleared_Kept(s, setup) == [s EXCEPT !.setup = setup]

(* A new setup drops the observation made under the old one. *)
Cleared(s, setup) == [s EXCEPT !.setup = setup, !.pending = NoObs]

InstallSetup(h) ==
  LET g == setting[h] IN
  /\ g # None /\ ~session[g].closed /\ made.setup < MaxSetup
  /\ made' = [made EXCEPT !.setup = @ + 1]
  /\ session' = [session EXCEPT ![g] = Cleared(@, made.setup + 1)]
  /\ setting' = [setting EXCEPT ![h] = None]
  /\ UNCHANGED <<current, sending, getting, gone, callback, answered>>

(* The payload is refused, or the session was reset meanwhile. *)
AbortSetup(h) ==
  /\ setting[h] # None
  /\ setting' = [setting EXCEPT ![h] = None]
  /\ UNCHANGED <<current, session, made, sending, getting, gone, callback, answered>>

HasSetup(g) == session[g].setup # None

(* SendObservations(): the stream is read and decoded with the setup. *)
BeginObservation(h) ==
  /\ sending[h].session = None /\ current # None /\ HasSetup(current)
  /\ sending' = [sending EXCEPT ![h] = [session |-> current, setup |-> session[current].setup]]
  /\ UNCHANGED <<current, session, made, setting, getting, gone, callback, answered>>

(* condition.notify(): one of the waiters, if there is any, wakes up. *)
Published(g) ==
  IF Asleep(g) = {} THEN {getting}
  ELSE {[getting EXCEPT ![h].phase = "awake"] : h \in Asleep(g)}

Current_Open(g, setup) == ~session[g].closed

(* The session is still the one, and the setup the object, it started with. *)
Current(g, setup) == ~session[g].closed /\ session[g].setup = setup

PublishObservation(h) ==
  LET g == sending[h].session IN
  /\ g # None /\ Current(g, sending[h].setup) /\ made.obs < MaxObs
  /\ made' = [made EXCEPT !.obs = @ + 1]
  /\ session' = [session EXCEPT ![g].pending = [id |-> made.obs + 1, setup |-> sending[h].setup]]
  /\ getting' \in Published(g)
  /\ sending' = [sending EXCEPT ![h] = [session |-> None, setup |-> None]]
  /\ UNCHANGED <<current, setting, gone, callback, answered>>

(* The stream is refused, or the setup changed meanwhile. *)
AbortObservation(h) ==
  /\ sending[h].session # None
  /\ sending' = [sending EXCEPT ![h] = [session |-> None, setup |-> None]]
  /\ UNCHANGED <<current, session, made, setting, getting, gone, callback, answered>>

-----------------------------------------------------------------------------
(* GetActions(): the session is looked up and the callback added.  (gRPC   *)
(* also runs it after an answer, which only wakes threads that go back to  *)
(* sleep.)                                                                 *)
BeginGet(h) ==
  /\ getting[h].phase = "idle" /\ current # None /\ \A p \in callback : p[1] # h
  /\ getting' = [getting EXCEPT ![h] = [Free EXCEPT !.phase = "awake", !.session = current]]
  /\ gone' = gone \ {h}
  /\ UNCHANGED <<current, session, made, setting, sending, callback, answered>>

Taken(s) == [s EXCEPT !.pending = NoObs]

(* The predicate of wait_for() holds: the call is given up, or takes the   *)
(* observation.                                                            *)
Leave(h) ==
  LET g == getting[h].session IN
  /\ getting[h].phase \in {"awake", "late"}
  /\ \/ /\ h \in gone \/ session[g].closed
        /\ getting' = [getting EXCEPT ![h] = Free]
        /\ UNCHANGED session
     \/ /\ h \notin gone /\ ~session[g].closed /\ session[g].pending # NoObs
        /\ getting' = [getting EXCEPT ![h].phase = "inferring", ![h].obs = session[g].pending]
        /\ session' = [session EXCEPT ![g] = Taken(@)]
  /\ UNCHANGED <<current, made, setting, sending, gone, callback, answered>>

(* It does not: the thread sleeps until it is notified or, after two       *)
(* seconds, returns no actions.                                            *)
Sleep(h) ==
  LET g == getting[h].session IN
  /\ getting[h].phase \in {"awake", "late"}
  /\ h \notin gone /\ ~session[g].closed /\ session[g].pending = NoObs
  /\ getting' = [getting EXCEPT ![h] =
       IF getting[h].phase = "late" THEN Free ELSE [@ EXCEPT !.phase = "asleep"]]
  /\ UNCHANGED <<current, session, made, setting, sending, gone, callback, answered>>

Timeout(h) ==
  /\ getting[h].phase = "asleep"
  /\ getting' = [getting EXCEPT ![h].phase = "late"]
  /\ UNCHANGED <<current, session, made, setting, sending, gone, callback, answered>>

(* External: the client gives the call up; gRPC runs its callbacks later. *)
Cancel(h) ==
  /\ getting[h].phase # "idle" /\ h \notin gone
  /\ gone' = gone \cup {h} /\ callback' = callback \cup {<<h, getting[h].session>>}
  /\ UNCHANGED <<current, session, made, setting, sending, getting, answered>>

WakeOnCancel_Own(h, g) ==
  IF getting[h].phase = "asleep" THEN [getting EXCEPT ![h].phase = "awake"] ELSE getting

(* wake_on_cancel() of a call, which may have ended, on its session. *)
WakeOnCancel(h, g) == WakeAll(g)

RunCallback(h, g) ==
  /\ <<h, g>> \in callback
  /\ getting' = WakeOnCancel(h, g)
  /\ callback' = callback \ {<<h, g>>}
  /\ UNCHANGED <<current, session, made, setting, sending, gone, answered>>

(* infer() answered; the actions are returned if they are still wanted. *)
Answer(h) ==
  LET x == getting[h] IN
  /\ x.phase = "inferring" /\ Current(x.session, x.obs.setup)
  /\ answered' = answered \cup {x.obs.id}
  /\ getting' = [getting EXCEPT ![h] = Free]
  /\ UNCHANGED <<current, session, made, setting, sending, gone, callback>>

(* The call failed, or the setup changed meanwhile. *)
AbortAnswer(h) ==
  /\ getting[h].phase = "inferring"
  /\ getting' = [getting EXCEPT ![h] = Free]
  /\ UNCHANGED <<current, session, made, setting, sending, gone, callback, answered>>

-----------------------------------------------------------------------------
Get(h) == Leave(h) \/ Sleep(h) \/ Answer(h) \/ AbortAnswer(h)

Next ==
  \/ Ready
  \/ \E h \in Setter : BeginSetup(h) \/ InstallSetup(h) \/ AbortSetup(h)
  \/ \E h \in Sender : BeginObservation(h) \/ PublishObservation(h) \/ AbortObservation(h)
  \/ \E h \in Getter : BeginGet(h) \/ Get(h) \/ Timeout(h) \/ Cancel(h)
  \/ \E h \in Getter, g \in 1..MaxSession : RunCallback(h, g)

(* A thread that is awake goes on, infer() ends by its deadline and gRPC   *)
(* runs its callbacks.  That the timeout of the wait comes is not assumed: *)
(* nothing below may depend on it.                                         *)
Spec ==
  /\ Init /\ [][Next]_vars
  /\ \A h \in Getter : WF_vars(Get(h))
  /\ \A h \in Getter, g \in 1..MaxSession : WF_vars(RunCallback(h, g))

-----------------------------------------------------------------------------
(* Properties.                                                             *)

Obs == {NoObs} \cup [id : 1..MaxObs, setup : 1..MaxSetup]

(* Every variable has its type: an observation has the setup it was        *)
(* decoded with.                                                           *)
TypeOK ==
  /\ current \in 0..MaxSession
  /\ session \in [1..MaxSession -> [setup : 0..MaxSetup, pending : Obs, closed : BOOLEAN]]
  /\ made \in [setup : 0..MaxSetup, obs : 0..MaxObs]
  /\ setting \in [Setter -> 0..MaxSession]
  /\ sending \in [Sender -> [session : 0..MaxSession, setup : 0..MaxSetup]]
  /\ getting \in [Getter -> [phase : {"idle", "awake", "asleep", "late", "inferring"},
                              session : 0..MaxSession, obs : Obs]]
  /\ gone \subseteq Getter /\ callback \subseteq Getter \X (1..MaxSession)
  /\ answered \subseteq 1..MaxObs

(* The observation that waits in a session was decoded with the setup the  *)
(* session has now, and only the newest session holds one.                 *)
PendingMatchesSetup ==
  \A g \in 1..MaxSession : session[g].pending # NoObs =>
    g = current /\ session[g].pending.setup = session[g].setup

(* An observation is used once: it waits, is being inferred by one call,   *)
(* or has been answered.                                                   *)
ObservationUsedOnce ==
  \A i \in 1..MaxObs :
    Cardinality({g \in 1..MaxSession : session[g].pending.id = i})
      + Cardinality({h \in Getter : getting[h].obs.id = i})
      + Cardinality({i} \cap answered) <= 1

(* No wakeup is lost: while an observation waits and a call sleeps on its  *)
(* session, some other call is awake to take it, or a callback is about to *)
(* wake the sleeper.  notify() wakes one thread, which may be a cancelled  *)
(* one that leaves the observation where it is.                            *)
WakeupNotLost ==
  \A g \in 1..MaxSession : session[g].pending # NoObs /\ Asleep(g) # {} =>
    \/ \E h \in Getter : getting[h].session = g /\ getting[h].phase \in {"awake", "late"}
    \/ \E h \in Getter : <<h, g>> \in callback

(* Actions are returned only to the session that is in place, under the    *)
(* setup their observation was decoded with: never those of a robot that   *)
(* has been restarted or set up anew while the model ran.                  *)
AnswersCurrent ==
  [][\A h \in Getter : answered' # answered /\ getting[h].phase = "inferring"
                         /\ getting'[h] = Free =>
       getting[h].session = current /\ getting[h].obs.setup = session[current].setup]_vars

(* A call that waits when its session is reset, or its client gives up,    *)
(* ends, without the help of the timeout.                                  *)
WaitersReleased ==
  \A h \in Getter :
    (getting[h].phase = "asleep" /\ (h \in gone \/ session[getting[h].session].closed))
      ~> getting[h].phase = "idle"

(* An observation is used at most once, and under the setup it was       *)
(* decoded with: SendObservations and GetActions release the lock while  *)
(* they decode, wait and infer.                                          *)
ObservationsCorrect == TypeOK /\ PendingMatchesSetup /\ ObservationUsedOnce

=============================================================================
