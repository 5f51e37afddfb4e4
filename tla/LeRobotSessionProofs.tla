------------------------ MODULE LeRobotSessionProofs ------------------------
(***************************************************************************)
(* The session of a LeRobot client proved for any number of threads,       *)
(* sessions, setups and observations: an observation is used once and      *)
(* under its own setup (ObservationsCorrect), no wakeup of a waiting       *)
(* GetActions is lost (WakeupNotLost), and actions are returned only to    *)
(* the robot they were computed for (AnswersCurrent).                      *)
(***************************************************************************)
EXTENDS LeRobotSession, FiniteSetTheorems, TLAPS

(* Ready() closes the session it replaces: the newest one alone is open,   *)
(* and those to come are as they will be made.                             *)
SessionsInv ==
  \A g \in 1..MaxSession :
    /\ session[g].closed <=> g < current
    /\ session[g].closed => session[g].pending = NoObs
    /\ g > current => session[g] = Fresh

(* What the calls keep while they are outside the lock: a session that was *)
(* made, the setup they decode with, the observation they infer on.        *)
CallsInv ==
  /\ \A h \in Setter : setting[h] <= current
  /\ \A h \in Sender :
       /\ sending[h].session <= current
       /\ sending[h].session # None => sending[h].setup # None
  /\ \A h \in Getter :
       /\ getting[h].session <= current
       /\ getting[h].phase # "idle" => getting[h].session # None
       /\ getting[h].obs # NoObs <=> getting[h].phase = "inferring"

(* An observation is in one place: it waits in a session, is held by a     *)
(* call, or is answered; and its number was handed out.                    *)
PlacesInv ==
  /\ \A g \in 1..MaxSession : session[g].pending.id <= made.obs
  /\ \A h \in Getter : getting[h].obs.id <= made.obs
  /\ \A i \in answered : i <= made.obs
  /\ \A g \in 1..MaxSession : session[g].pending # NoObs =>
       /\ session[g].pending.id \notin answered
       /\ \A h \in Getter : getting[h].obs.id # session[g].pending.id
  /\ \A h \in Getter : getting[h].obs # NoObs =>
       /\ getting[h].obs.id \notin answered
       /\ \A k \in Getter : getting[k].obs.id = getting[h].obs.id => k = h

(* A call that sleeps although its client is gone has its callback still   *)
(* to come; and while an observation waits, beside the sleepers there is   *)
(* a call that will take it, not merely one that is awake, or a callback.  *)
WakeInv ==
  /\ \A h \in Getter : getting[h].phase = "asleep" /\ h \in gone =>
       <<h, getting[h].session>> \in callback
  /\ \A g \in 1..MaxSession : session[g].pending # NoObs /\ Asleep(g) # {} =>
       \/ \E h \in Getter : /\ getting[h].session = g /\ h \notin gone
                            /\ getting[h].phase \in {"awake", "late"}
       \/ \E h \in Getter : <<h, g>> \in callback

SessionInv ==
  TypeOK /\ SessionsInv /\ CallsInv /\ PendingMatchesSetup /\ PlacesInv /\ WakeInv

Phases == {"idle", "awake", "asleep", "late", "inferring"}
Getting == [phase : Phases, session : 0..MaxSession, obs : Obs]
State == [setup : 0..MaxSetup, pending : Obs, closed : BOOLEAN]

-----------------------------------------------------------------------------
(* An observation that is there has a number and a setup; NoObs has none.  *)
LEMMA ObsIs ==
  /\ NoObs \in Obs /\ NoObs.id = 0 /\ NoObs.setup = 0
  /\ \A o \in Obs : /\ o.id \in Nat /\ o.setup \in Nat
                     /\ o # NoObs => o.id \in 1..MaxObs /\ o.setup \in 1..MaxSetup
  /\ \A i \in 1..MaxObs, s \in 1..MaxSetup :
       LET o == [id |-> i, setup |-> s] IN o \in Obs /\ o # NoObs /\ o.id = i /\ o.setup = s
  BY SessionAssumption DEF Obs, NoObs, None

(* The same of one observation.                                            *)
LEMMA ObsIds ==
  ASSUME NEW o \in Obs
  PROVE  /\ o.id \in Nat /\ o.setup \in Nat /\ (o = NoObs => o.id = 0)
         /\ o # NoObs => o.id \in 1..MaxObs /\ o.id # 0
  BY SessionAssumption DEF Obs, NoObs, None

(* The parts of the records the calls keep.                                *)
LEMMA Fields ==
  ASSUME TypeOK
  PROVE  /\ current \in Nat /\ made.obs \in Nat /\ made.setup \in Nat
         /\ \A g \in 1..MaxSession : /\ session[g] \in State /\ session[g].pending \in Obs
                                      /\ session[g].setup \in Nat /\ session[g].closed \in BOOLEAN
         /\ \A h \in Setter : setting[h] \in Nat
         /\ \A h \in Sender : sending[h].session \in Nat /\ sending[h].setup \in Nat
         /\ \A h \in Getter : /\ getting[h] \in Getting /\ getting[h].session \in Nat
                               /\ getting[h].obs \in Obs /\ getting[h].phase \in Phases
  BY SessionAssumption DEF TypeOK, State, Getting, Phases

(* A thread that is outside a call holds nothing, and a session that was   *)
(* just made is empty and open.                                            *)
LEMMA FreshIs ==
  /\ Free \in Getting /\ Free.phase = "idle" /\ Free.session = None /\ Free.obs = NoObs
  /\ Fresh \in State /\ Fresh.setup = None /\ Fresh.pending = NoObs /\ Fresh.closed = FALSE
  BY ObsIs, SessionAssumption DEF Free, Fresh, Getting, State, Phases, None

(* Before the first call nothing was made.                                 *)
LEMMA SessionInvInit == Init => SessionInv
<1> SUFFICES ASSUME Init PROVE SessionInv
  OBVIOUS
<1> USE SessionAssumption, FreshIs, ObsIs DEF Init
<1>1. /\ \A g \in 1..MaxSession : session[g] = Fresh
      /\ \A h \in Getter : getting[h] = Free
      /\ \A h \in Sender : sending[h].session = None /\ sending[h].setup = None
      /\ \A h \in Setter : setting[h] = None
      /\ made.obs = 0
  OBVIOUS
<1>2. TypeOK
  <2>1. session \in [1..MaxSession -> State] /\ getting \in [Getter -> Getting]
    OBVIOUS
  <2>2. made \in [setup : 0..MaxSetup, obs : 0..MaxObs] /\ setting \in [Setter -> 0..MaxSession]
    BY DEF None
  <2>3. sending \in [Sender -> [session : 0..MaxSession, setup : 0..MaxSetup]]
    BY DEF None
  <2> QED
    BY <2>1, <2>2, <2>3 DEF TypeOK, State, Getting, Phases, None
<1>3. SessionsInv /\ CallsInv /\ PendingMatchesSetup
  BY <1>1 DEF SessionsInv, CallsInv, PendingMatchesSetup, None
<1>4. PlacesInv
  BY <1>1 DEF PlacesInv
<1>5. WakeInv
  BY <1>1 DEF WakeInv
<1> QED
  BY <1>2, <1>3, <1>4, <1>5 DEF SessionInv

(* Where an observation is depends on what the sessions and the calls      *)
(* hold, not on where the calls are.                                       *)
LEMMA PlacesKept ==
  ASSUME PlacesInv, UNCHANGED <<session, made, answered>>,
         \A h \in Getter : getting'[h].obs = getting[h].obs
  PROVE  PlacesInv'
  BY DEF PlacesInv

-----------------------------------------------------------------------------
(* Steps outside the lock of SendPolicyInstructions and SendObservations.  *)
LEMMA InvByDecoding ==
  ASSUME SessionInv,
         \/ \E h \in Setter : BeginSetup(h) \/ AbortSetup(h)
         \/ \E h \in Sender : BeginObservation(h) \/ AbortObservation(h)
         \/ UNCHANGED vars
  PROVE  SessionInv'
<1> USE SessionAssumption DEF SessionInv
<1>1. UNCHANGED <<current, session, made, getting, gone, callback, answered>>
  BY DEF BeginSetup, AbortSetup, BeginObservation, AbortObservation, vars
<1>2. setting' \in [Setter -> 0..MaxSession] /\ \A h \in Setter : setting'[h] <= current
  <2>1. ASSUME NEW h \in Setter, NEW g \in 0..MaxSession, g <= current,
               setting' = [setting EXCEPT ![h] = g]
        PROVE  <1>2!:
    BY <2>1, Fields DEF TypeOK, CallsInv
  <2>2. ASSUME NEW h \in Setter, BeginSetup(h) \/ AbortSetup(h) PROVE <1>2!:
    BY <2>1, <2>2, Fields DEF BeginSetup, AbortSetup, TypeOK, None
  <2>3. CASE UNCHANGED setting
    BY <2>3, Fields DEF TypeOK, CallsInv
  <2> QED
    BY <2>2, <2>3 DEF BeginObservation, AbortObservation, vars
<1>3. /\ sending' \in [Sender -> [session : 0..MaxSession, setup : 0..MaxSetup]]
      /\ \A h \in Sender : sending'[h].session <= current
      /\ \A h \in Sender : sending'[h].session # None => sending'[h].setup # None
  <2>1. ASSUME NEW h \in Sender, NEW x \in [session : 0..MaxSession, setup : 0..MaxSetup],
               x.session <= current, x.session # None => x.setup # None,
               sending' = [sending EXCEPT ![h] = x]
        PROVE  <1>3!:
    BY <2>1 DEF TypeOK, CallsInv
  <2>2. ASSUME NEW h \in Sender, BeginObservation(h) PROVE <1>3!:
    <3> DEFINE x == [session |-> current, setup |-> session[current].setup]
    <3>1. current \in 1..MaxSession
      BY <2>2 DEF BeginObservation, TypeOK, None
    <3>2. session[current].setup \in 0..MaxSetup
      BY <3>1, Fields DEF State
    <3>3. session[current].setup # None /\ sending' = [sending EXCEPT ![h] = x]
      BY <2>2 DEF BeginObservation, HasSetup
    <3>4. /\ x \in [session : 0..MaxSession, setup : 0..MaxSetup]
          /\ x.session <= current /\ (x.session # None => x.setup # None)
      BY <3>1, <3>2, <3>3
    <3> QED
      BY ONLY <2>1, <2>2, <3>3, <3>4
  <2>3. ASSUME NEW h \in Sender, AbortObservation(h) PROVE <1>3!:
    <3> DEFINE x == [session |-> None, setup |-> None]
    <3>1. /\ x \in [session : 0..MaxSession, setup : 0..MaxSetup]
          /\ x.session <= current /\ (x.session # None => x.setup # None)
      BY Fields DEF None
    <3>2. sending' = [sending EXCEPT ![h] = x]
      BY <2>3 DEF AbortObservation
    <3> QED
      BY ONLY <2>1, <2>3, <3>1, <3>2
  <2>4. CASE UNCHANGED sending
    BY <2>4 DEF TypeOK, CallsInv
  <2> QED
    BY <2>2, <2>3, <2>4 DEF BeginSetup, AbortSetup, vars
<1>4. TypeOK'
  BY <1>1, <1>2, <1>3 DEF TypeOK
<1>5. CallsInv'
  <2>1. \A h \in Setter : (setting[h] <= current)'
    BY <1>1, <1>2
  <2>2. \A h \in Sender : /\ (sending[h].session <= current)'
                          /\ (sending[h].session # None => sending[h].setup # None)'
    BY <1>1, <1>3
  <2>3. ASSUME NEW h \in Getter
        PROVE  /\ (getting[h].session <= current)'
               /\ (getting[h].phase # "idle" => getting[h].session # None)'
               /\ (getting[h].obs # NoObs <=> getting[h].phase = "inferring")'
    BY <1>1, <2>3 DEF CallsInv
  <2> QED
    BY <2>1, <2>2, <2>3 DEF CallsInv
<1> QED
  BY <1>1, <1>4, <1>5, PlacesKept DEF SessionsInv, PendingMatchesSetup, WakeInv, Asleep

-----------------------------------------------------------------------------
(* notify_all() changes only where the sleepers of that session are.       *)
LEMMA WakeAllIs ==
  ASSUME TypeOK, NEW g
  PROVE  /\ WakeAll(g) \in [Getter -> Getting]
         /\ \A h \in Getter :
              /\ WakeAll(g)[h].session = getting[h].session
              /\ WakeAll(g)[h].obs = getting[h].obs
              /\ WakeAll(g)[h].phase = IF getting[h].phase = "asleep" /\ getting[h].session = g
                                       THEN "awake" ELSE getting[h].phase
<1>1. ASSUME NEW h \in Getter PROVE
        /\ WakeAll(g)[h] \in Getting
        /\ WakeAll(g)[h].session = getting[h].session
        /\ WakeAll(g)[h].obs = getting[h].obs
        /\ WakeAll(g)[h].phase = IF getting[h].phase = "asleep" /\ getting[h].session = g
                                 THEN "awake" ELSE getting[h].phase
  BY <1>1, Fields DEF WakeAll, Getting, Phases
<1> QED
  BY <1>1 DEF WakeAll

(* Ready(): the old session is closed and emptied, and a new one in place. *)
LEMMA InvByReady ==
  ASSUME SessionInv, Ready
  PROVE  SessionInv'
<1> USE SessionAssumption DEF SessionInv
<1>1. current < MaxSession /\ current' = current + 1 /\ current \in Nat
  BY Fields DEF Ready
<1>2. UNCHANGED <<made, setting, sending, gone, callback, answered>> /\ getting' = WakeAll(current)
  BY DEF Ready, Reset
<1> DEFINE shut == [Fresh EXCEPT !.closed = TRUE]
<1>3. shut \in State /\ shut.pending = NoObs /\ shut.closed = TRUE
  BY FreshIs DEF State
<1> HIDE DEF shut
<1>4. /\ session' \in [1..MaxSession -> State]
      /\ \A g \in 1..MaxSession : session'[g] = IF g = current THEN shut ELSE session[g]
  <2>1. session \in [1..MaxSession -> State]
    BY DEF TypeOK, State
  <2> QED
    BY <1>1, <1>3, <2>1 DEF Ready, None, shut
<1>5. /\ getting' \in [Getter -> Getting]
      /\ \A h \in Getter :
           /\ getting'[h].session = getting[h].session
           /\ getting'[h].obs = getting[h].obs
           /\ getting'[h].phase = IF getting[h].phase = "asleep" /\ getting[h].session = current
                                  THEN "awake" ELSE getting[h].phase
  BY <1>2, WakeAllIs
<1>6. TypeOK'
  BY <1>1, <1>2, <1>4, <1>5 DEF TypeOK, State, Getting, Phases
<1>7. SessionsInv'
  <2> SUFFICES ASSUME NEW g \in 1..MaxSession
               PROVE  /\ session'[g].closed <=> g < current'
                      /\ session'[g].closed => session'[g].pending = NoObs
                      /\ g > current' => session'[g] = Fresh
    BY DEF SessionsInv
  <2>1. /\ session[g].closed <=> g < current
        /\ session[g].closed => session[g].pending = NoObs
        /\ g > current => session[g] = Fresh
    BY DEF SessionsInv
  <2>2. CASE g = current
    BY <1>1, <1>3, <1>4, <2>2
  <2>3. CASE g # current
    BY <1>1, <1>4, <2>1, <2>3
  <2> QED
    BY <2>2, <2>3
<1>8. CallsInv'
  <2>1. \A h \in Setter : (setting[h] <= current)'
    BY <1>1, <1>2, Fields DEF CallsInv
  <2>2. \A h \in Sender : /\ (sending[h].session <= current)'
                          /\ (sending[h].session # None => sending[h].setup # None)'
    BY <1>1, <1>2, Fields DEF CallsInv
  <2>3. ASSUME NEW h \in Getter
        PROVE  /\ (getting[h].session <= current)'
               /\ (getting[h].phase # "idle" => getting[h].session # None)'
               /\ (getting[h].obs # NoObs <=> getting[h].phase = "inferring")'
    BY <1>1, <1>5, <2>3, Fields DEF CallsInv
  <2> QED
    BY <2>1, <2>2, <2>3 DEF CallsInv
<1>9. \A g \in 1..MaxSession : session'[g].pending = NoObs
  BY <1>3, <1>4 DEF PendingMatchesSetup
<1>10. PendingMatchesSetup'
  BY <1>9 DEF PendingMatchesSetup
<1>11. PlacesInv'
  <2>1. \A g \in 1..MaxSession : session'[g].pending.id <= made'.obs
    BY <1>2, <1>9, ObsIs, Fields
  <2> QED
    BY <1>2, <1>5, <1>9, <2>1 DEF PlacesInv
<1>12. WakeInv'
  BY <1>2, <1>5, <1>9 DEF WakeInv
<1> QED
  BY <1>6, <1>7, <1>8, <1>10, <1>11, <1>12

(* SendPolicyInstructions puts its setup in place of the old one, and what *)
(* was decoded with that is dropped.                                       *)
LEMMA InvByInstall ==
  ASSUME SessionInv, NEW h \in Setter, InstallSetup(h)
  PROVE  SessionInv'
<1> USE SessionAssumption DEF SessionInv
<1>1. PICK g \in 1..MaxSession : g = setting[h]
  BY Fields DEF InstallSetup, None, TypeOK
<1>2. ~session[g].closed /\ made.setup < MaxSetup
  BY <1>1 DEF InstallSetup
<1>3. UNCHANGED <<current, sending, getting, gone, callback, answered>>
  BY DEF InstallSetup
<1>4. made' \in [setup : 0..MaxSetup, obs : 0..MaxObs] /\ made'.obs = made.obs
  BY <1>2 DEF InstallSetup, TypeOK
<1> DEFINE x == [session[g] EXCEPT !.setup = made.setup + 1, !.pending = NoObs]
<1>5. x \in State /\ x.pending = NoObs /\ x.closed = session[g].closed
  <2>1. made.setup + 1 \in 0..MaxSetup /\ NoObs \in Obs /\ session[g] \in State
    BY <1>2, Fields, ObsIs
  <2> QED
    BY <2>1 DEF State
<1>6. session' = [session EXCEPT ![g] = x]
  BY <1>1 DEF InstallSetup, Cleared
<1> HIDE DEF x
<1>7. /\ session' \in [1..MaxSession -> State]
      /\ \A k \in 1..MaxSession : session'[k] = IF k = g THEN x ELSE session[k]
  <2>1. session \in [1..MaxSession -> State]
    BY DEF TypeOK, State
  <2> QED
    BY <1>5, <1>6, <2>1
<1>8. setting' \in [Setter -> 0..MaxSession] /\ \A k \in Setter : setting'[k] <= current
  <2>1. setting' = [setting EXCEPT ![h] = 0]
    BY DEF InstallSetup, None
  <2> QED
    BY <2>1, Fields DEF TypeOK, CallsInv
<1>9. TypeOK'
  BY <1>3, <1>4, <1>7, <1>8 DEF TypeOK, State
<1>10. SessionsInv'
  <2> SUFFICES ASSUME NEW k \in 1..MaxSession
               PROVE  /\ session'[k].closed <=> k < current'
                      /\ session'[k].closed => session'[k].pending = NoObs
                      /\ k > current' => session'[k] = Fresh
    BY DEF SessionsInv
  <2>1. g <= current
    BY <1>1 DEF CallsInv
  <2>2. CASE k = g
    BY <1>2, <1>3, <1>5, <1>7, <2>1, <2>2, Fields DEF SessionsInv
  <2>3. CASE k # g
    BY <1>3, <1>7, <2>3 DEF SessionsInv
  <2> QED
    BY <2>2, <2>3
<1>11. CallsInv'
  BY <1>3, <1>8 DEF CallsInv
<1>12. PendingMatchesSetup'
  BY <1>3, <1>5, <1>7 DEF PendingMatchesSetup
<1>13. PlacesInv'
  <2>1. ASSUME NEW k \in 1..MaxSession PROVE session'[k].pending.id <= made'.obs
    BY <1>4, <1>5, <1>7, ObsIs, Fields DEF PlacesInv
  <2> QED
    BY <1>3, <1>4, <1>5, <1>7, <2>1 DEF PlacesInv
<1>14. WakeInv'
  <2>1. \A k \in 1..MaxSession : session'[k].pending # NoObs => session[k].pending # NoObs
    BY <1>5, <1>7
  <2> QED
    BY <1>3, <2>1 DEF WakeInv, Asleep
<1> QED
  BY <1>9, <1>10, <1>11, <1>12, <1>13, <1>14

-----------------------------------------------------------------------------
(* The first of the waiters wakes: nothing but its phase changes.          *)
LEMMA PublishedIs ==
  ASSUME TypeOK, NEW g, getting' \in Published(g)
  PROVE  /\ getting' \in [Getter -> Getting]
         /\ \A h \in Getter : getting'[h].session = getting[h].session
                               /\ getting'[h].obs = getting[h].obs
         /\ \/ Asleep(g) = {} /\ getting' = getting
            \/ \E h \in Asleep(g) :
                 \A k \in Getter :
                   getting'[k].phase = IF k = h THEN "awake" ELSE getting[k].phase
<1>0. getting \in [Getter -> Getting]
  BY DEF TypeOK, Getting, Phases
<1>1. CASE Asleep(g) = {}
  BY <1>0, <1>1 DEF Published
<1>2. CASE Asleep(g) # {}
  <2>1. PICK h \in Asleep(g) : getting' = [getting EXCEPT ![h].phase = "awake"]
    BY <1>2 DEF Published
  <2>2. h \in Getter
    BY DEF Asleep
  <2>3. ASSUME NEW k \in Getter
        PROVE  /\ getting'[k] \in Getting
               /\ getting'[k].session = getting[k].session /\ getting'[k].obs = getting[k].obs
               /\ getting'[k].phase = IF k = h THEN "awake" ELSE getting[k].phase
    <3>1. getting[k] \in Getting /\ getting[h] \in Getting
      BY <1>0, <2>2
    <3>2. getting'[k] = IF k = h THEN [getting[h] EXCEPT !.phase = "awake"] ELSE getting[k]
      BY <1>0, <2>1, <2>2
    <3> QED
      BY <3>1, <3>2 DEF Getting, Phases
  <2>4. getting' \in [Getter -> Getting]
    BY <1>0, <2>1, <2>3
  <2> QED
    BY <2>3, <2>4
<1> QED
  BY <1>1, <1>2

(* SendObservations leaves its observation under the setup it was decoded  *)
(* with, and wakes one waiter: one whose client is gone has a callback     *)
(* still to come.                                                          *)
LEMMA InvByPublish ==
  ASSUME SessionInv, NEW h \in Sender, PublishObservation(h)
  PROVE  SessionInv'
<1> USE SessionAssumption DEF SessionInv
<1>1. PICK g \in 1..MaxSession : g = sending[h].session
  BY Fields DEF PublishObservation, None, TypeOK
<1>2. PICK n \in 1..MaxObs : n = made.obs + 1
  BY Fields DEF PublishObservation
<1>3. PICK d \in 1..MaxSetup : d = sending[h].setup
  BY <1>1 DEF CallsInv, TypeOK, None
<1>4. ~session[g].closed /\ session[g].setup = d
  BY <1>1, <1>3 DEF PublishObservation, Current
<1>5. UNCHANGED <<current, setting, gone, callback, answered>>
  BY DEF PublishObservation
<1>6. made' \in [setup : 0..MaxSetup, obs : 0..MaxObs] /\ made'.obs = n /\ made.obs \in Nat
  BY <1>2, Fields DEF PublishObservation, TypeOK
<1> DEFINE o == [id |-> n, setup |-> d]
<1>7. o \in Obs /\ o # NoObs /\ o.id = n /\ o.setup = d
  BY ObsIs
<1> HIDE DEF o
<1> DEFINE x == [session[g] EXCEPT !.pending = o]
<1>8. x \in State /\ x.pending = o /\ x.closed = session[g].closed /\ x.setup = d
  BY <1>4, <1>7, Fields DEF State
<1>9. session' = [session EXCEPT ![g].pending = o]
  BY <1>1, <1>2, <1>3 DEF PublishObservation, o
<1>10. /\ session' \in [1..MaxSession -> State]
       /\ \A k \in 1..MaxSession : session'[k] = IF k = g THEN x ELSE session[k]
  <2>1. session \in [1..MaxSession -> State]
    BY DEF TypeOK, State
  <2> QED
    BY <1>8, <1>9, <2>1
<1> HIDE DEF x
<1>11. /\ sending' \in [Sender -> [session : 0..MaxSession, setup : 0..MaxSetup]]
       /\ \A k \in Sender : sending'[k].session <= current
       /\ \A k \in Sender : sending'[k].session # None => sending'[k].setup # None
  <2>1. sending' = [sending EXCEPT ![h] = [session |-> 0, setup |-> 0]]
    BY DEF PublishObservation, None
  <2> QED
    BY <2>1, Fields DEF TypeOK, CallsInv, None
<1>12. getting' \in Published(g)
  BY <1>1 DEF PublishObservation
<1>13. TypeOK'
  BY <1>5, <1>6, <1>10, <1>11, <1>12, PublishedIs DEF TypeOK, State, Getting, Phases
<1>14. g = current /\ \A k \in 1..MaxSession : k # g => session[k].pending = NoObs
  BY <1>1, <1>4, Fields DEF SessionsInv, CallsInv, PendingMatchesSetup
<1>15. SessionsInv'
  BY <1>4, <1>5, <1>8, <1>10, <1>14 DEF SessionsInv
<1>16. CallsInv'
  <2>1. \A k \in Sender : /\ (sending[k].session <= current)'
                          /\ (sending[k].session # None => sending[k].setup # None)'
    BY <1>5, <1>11
  <2>2. ASSUME NEW k \in Getter
        PROVE  /\ (getting[k].session <= current)'
               /\ (getting[k].phase # "idle" => getting[k].session # None)'
               /\ (getting[k].obs # NoObs <=> getting[k].phase = "inferring")'
    <3>1. getting'[k].session = getting[k].session /\ getting'[k].obs = getting[k].obs
      BY <1>12, PublishedIs
    <3>2. \/ getting'[k].phase = getting[k].phase
          \/ getting[k].phase = "asleep" /\ getting'[k].phase = "awake"
      BY <1>12, PublishedIs DEF Asleep
    <3> QED
      BY <1>5, <3>1, <3>2 DEF CallsInv
  <2>3. \A k \in Setter : (setting[k] <= current)'
    BY <1>5 DEF CallsInv
  <2> QED
    BY <2>1, <2>2, <2>3 DEF CallsInv
<1>17. PendingMatchesSetup'
  BY <1>5, <1>7, <1>8, <1>10, <1>14 DEF PendingMatchesSetup
<1>18. PlacesInv'
  <2>1. \A k \in Getter : getting'[k].obs = getting[k].obs /\ getting[k].obs.id \in Nat
    <3>1. \A k \in Getter : getting'[k].obs = getting[k].obs
      BY <1>12, PublishedIs
    <3>2. \A k \in Getter : getting[k].obs \in Obs
      BY Fields
    <3> QED
      BY <3>1, <3>2, ObsIds
  <2>2. \A k \in 1..MaxSession : session'[k].pending.id <= made'.obs
    BY <1>6, <1>7, <1>8, <1>10, <1>14, ObsIs
  <2>3. n \notin answered /\ \A k \in Getter : getting[k].obs.id # n
    BY <1>2, <2>1, Fields DEF PlacesInv, TypeOK
  <2>4. /\ \A k \in Getter : getting'[k].obs.id <= made'.obs
        /\ \A i \in answered' : i <= made'.obs
    <3>1. \A k \in Getter : getting[k].obs.id <= made.obs
      BY DEF PlacesInv
    <3>2. \A i \in answered : i \in Nat /\ i <= made.obs
      BY DEF PlacesInv, TypeOK
    <3> QED
      BY <1>2, <1>5, <1>6, <2>1, <3>1, <3>2
  <2>5. ASSUME NEW k \in 1..MaxSession, session'[k].pending # NoObs
        PROVE  /\ session'[k].pending.id \notin answered'
               /\ \A j \in Getter : getting'[j].obs.id # session'[k].pending.id
    BY <1>5, <1>7, <1>8, <1>10, <1>14, <2>1, <2>3, <2>5
  <2> QED
    BY <1>5, <2>1, <2>2, <2>4, <2>5 DEF PlacesInv
<1>19. WakeInv'
  <2>1. CASE Asleep(g) = {} /\ getting' = getting
    <3>1. \A k \in 1..MaxSession : k # g => session'[k].pending = NoObs
      BY <1>10, <1>14
    <3> QED
      BY <1>5, <2>1, <3>1 DEF WakeInv, Asleep
  <2>2. ASSUME NEW w \in Asleep(g),
               \A k \in Getter : getting'[k].phase = IF k = w THEN "awake" ELSE getting[k].phase
        PROVE  WakeInv'
    <3>1. w \in Getter /\ getting[w].session = g /\ getting[w].phase = "asleep"
      BY DEF Asleep
    <3>2. \A k \in Getter : getting'[k].session = getting[k].session
      BY <1>12, PublishedIs
    <3>3. \A k \in 1..MaxSession : k # g => session'[k].pending = NoObs
      BY <1>10, <1>14
    <3>4. \/ w \notin gone /\ getting'[w].session = g /\ getting'[w].phase = "awake"
          \/ <<w, g>> \in callback
      BY <2>2, <3>1, <3>2 DEF WakeInv
    <3>5. \A k \in Getter : getting'[k].phase = "asleep" /\ k \in gone' =>
            <<k, getting'[k].session>> \in callback'
      BY <1>5, <2>2, <3>1, <3>2 DEF WakeInv
    <3> QED
      BY <1>5, <3>1, <3>3, <3>4, <3>5 DEF WakeInv
  <2> QED
    BY <1>12, <2>1, <2>2, PublishedIs
<1> QED
  BY <1>13, <1>15, <1>16, <1>17, <1>18, <1>19

-----------------------------------------------------------------------------
(* A step of one GetActions that leaves the sessions and the observations  *)
(* where they are, and goes to another phase of the same call, keeps what  *)
(* is said of calls and observations.                                      *)
LEMMA InvByPhase ==
  ASSUME SessionInv, NEW h \in Getter, NEW ph \in Phases,
         getting' = [getting EXCEPT ![h].phase = ph],
         ph \notin {"idle", "inferring"}, getting[h].phase \notin {"idle", "inferring"},
         UNCHANGED <<current, session, made, setting, sending, gone, callback, answered>>
  PROVE  /\ TypeOK' /\ SessionsInv' /\ CallsInv' /\ PendingMatchesSetup' /\ PlacesInv'
         /\ \A k \in Getter : /\ getting'[k].session = getting[k].session
                               /\ getting'[k].phase = IF k = h THEN ph ELSE getting[k].phase
<1> USE SessionAssumption DEF SessionInv
<1>0. getting \in [Getter -> Getting]
  BY DEF TypeOK, Getting, Phases
<1>1. ASSUME NEW k \in Getter
      PROVE  /\ getting'[k] \in Getting
             /\ getting'[k].session = getting[k].session /\ getting'[k].obs = getting[k].obs
             /\ getting'[k].phase = IF k = h THEN ph ELSE getting[k].phase
  <2>1. getting[k] \in Getting /\ getting[h] \in Getting
    BY <1>0, <1>1
  <2>2. getting'[k] = IF k = h THEN [getting[h] EXCEPT !.phase = ph] ELSE getting[k]
    BY <1>0, <1>1
  <2> QED
    BY <2>1, <2>2 DEF Getting
<1>2. getting' \in [Getter -> Getting]
  BY <1>0, <1>1
<1>3. TypeOK'
  BY <1>2 DEF TypeOK, Getting, Phases
<1>4. CallsInv'
  <2>1. ASSUME NEW k \in Getter
        PROVE  /\ (getting[k].session <= current)'
               /\ (getting[k].phase # "idle" => getting[k].session # None)'
               /\ (getting[k].obs # NoObs <=> getting[k].phase = "inferring")'
    BY <1>1, <2>1 DEF CallsInv
  <2> QED
    BY <2>1 DEF CallsInv
<1> QED
  BY <1>1, <1>3, <1>4, PlacesKept DEF SessionsInv, PendingMatchesSetup

(* A call that ends holds nothing any more.                                *)
LEMMA InvByEnd ==
  ASSUME SessionInv, NEW h \in Getter, getting' = [getting EXCEPT ![h] = Free],
         answered' = answered \/ (answered' = answered \cup {getting[h].obs.id}
                                  /\ getting[h].obs # NoObs),
         UNCHANGED <<current, session, made, setting, sending, gone, callback>>
  PROVE  /\ TypeOK' /\ SessionsInv' /\ CallsInv' /\ PendingMatchesSetup' /\ PlacesInv'
         /\ \A k \in Getter : getting'[k] = IF k = h THEN Free ELSE getting[k]
<1> USE SessionAssumption DEF SessionInv
<1>0. getting \in [Getter -> Getting]
  BY DEF TypeOK, Getting, Phases
<1>1. \A k \in Getter : getting'[k] = IF k = h THEN Free ELSE getting[k]
  BY <1>0
<1>2. getting' \in [Getter -> Getting] /\ answered' \subseteq 1..MaxObs
  <2>1. getting[h].obs # NoObs => getting[h].obs.id \in 1..MaxObs
    BY ObsIds, Fields
  <2>2. Free \in Getting
    BY FreshIs
  <2> QED
    BY <1>0, <2>1, <2>2 DEF TypeOK
<1>3. TypeOK'
  BY <1>2 DEF TypeOK, Getting, Phases
<1>4. CallsInv'
  <2>1. ASSUME NEW k \in Getter
        PROVE  /\ (getting[k].session <= current)'
               /\ (getting[k].phase # "idle" => getting[k].session # None)'
               /\ (getting[k].obs # NoObs <=> getting[k].phase = "inferring")'
    <3>1. CASE k = h
      BY <1>1, <2>1, <3>1, FreshIs, Fields DEF None
    <3>2. CASE k # h
      BY <1>1, <2>1, <3>2 DEF CallsInv
    <3> QED
      BY <3>1, <3>2
  <2> QED
    BY <2>1 DEF CallsInv
<1>5. PlacesInv'
  <2>1. \A k \in Getter : /\ k = h => getting'[k].obs = NoObs
                          /\ k # h => getting'[k].obs = getting[k].obs
    BY <1>1, FreshIs
  <2>2. ASSUME NEW k \in Getter PROVE getting'[k].obs.id <= made'.obs
    BY <2>1, <2>2, ObsIs, Fields DEF PlacesInv
  <2>3. \A i \in answered' : i <= made'.obs
    BY DEF PlacesInv
  <2>4. ASSUME NEW g \in 1..MaxSession, session'[g].pending # NoObs
        PROVE  /\ session'[g].pending.id \notin answered'
               /\ \A k \in Getter : getting'[k].obs.id # session'[g].pending.id
    <3>1. session[g].pending.id # 0 /\ session[g].pending.id \notin answered
          /\ \A k \in Getter : getting[k].obs.id # session[g].pending.id
      <4>1. session[g].pending \in Obs
        BY Fields
      <4> QED
        BY <2>4, <4>1, ObsIds DEF PlacesInv
    <3> QED
      BY <2>1, <3>1, ObsIs
  <2>5. ASSUME NEW k \in Getter, getting'[k].obs # NoObs
        PROVE  /\ getting'[k].obs.id \notin answered'
               /\ \A j \in Getter : getting'[j].obs.id = getting'[k].obs.id => j = k
    <3>1. /\ k # h /\ getting'[k].obs = getting[k].obs /\ getting[k].obs # NoObs
          /\ getting[k].obs.id # 0
      <4>1. getting[k].obs \in Obs
        BY Fields
      <4> QED
        BY <2>1, <2>5, <4>1, ObsIds
    <3>2. /\ getting[k].obs.id \notin answered
          /\ \A j \in Getter : getting[j].obs.id = getting[k].obs.id => j = k
      BY <3>1 DEF PlacesInv
    <3>3. getting[h].obs.id # getting[k].obs.id
      BY <3>1, <3>2
    <3> QED
      BY <2>1, <3>1, <3>2, <3>3, ObsIs
  <2> QED
    BY <2>2, <2>3, <2>4, <2>5 DEF PlacesInv
<1> QED
  BY <1>1, <1>3, <1>4, <1>5 DEF SessionsInv, PendingMatchesSetup

(* GetActions enters with a session that is open; who sleeps stays where   *)
(* it is, and the newcomer's client is there.                              *)
LEMMA InvByBeginGet ==
  ASSUME SessionInv, NEW h \in Getter, BeginGet(h)
  PROVE  SessionInv'
<1> USE SessionAssumption DEF SessionInv
<1>0. getting \in [Getter -> Getting]
  BY DEF TypeOK, Getting, Phases
<1>1. /\ getting[h].phase = "idle" /\ current # None /\ current \in 0..MaxSession
      /\ gone' = gone \ {h}
      /\ UNCHANGED <<current, session, made, setting, sending, callback, answered>>
  BY DEF BeginGet, TypeOK
<1> DEFINE x == [Free EXCEPT !.phase = "awake", !.session = current]
<1>2. x \in Getting /\ x.phase = "awake" /\ x.session = current /\ x.obs = NoObs
  BY <1>1, FreshIs DEF Getting, Phases
<1>3. getting' = [getting EXCEPT ![h] = x]
  BY DEF BeginGet
<1> HIDE DEF x
<1>4. /\ getting' \in [Getter -> Getting]
      /\ \A k \in Getter : getting'[k] = IF k = h THEN x ELSE getting[k]
  BY <1>0, <1>2, <1>3
<1>5. getting[h].obs = NoObs
  BY <1>1 DEF CallsInv
<1>6. TypeOK'
  BY <1>1, <1>4 DEF TypeOK, Getting, Phases
<1>7. CallsInv'
  <2>1. ASSUME NEW k \in Getter
        PROVE  /\ (getting[k].session <= current)'
               /\ (getting[k].phase # "idle" => getting[k].session # None)'
               /\ (getting[k].obs # NoObs <=> getting[k].phase = "inferring")'
    <3>1. CASE k = h
      BY <1>1, <1>2, <1>4, <2>1, <3>1
    <3>2. CASE k # h
      BY <1>1, <1>4, <2>1, <3>2 DEF CallsInv
    <3> QED
      BY <3>1, <3>2
  <2> QED
    BY <1>1, <2>1 DEF CallsInv
<1>8. PlacesInv'
  BY <1>1, <1>2, <1>4, <1>5, PlacesKept
<1>9. WakeInv'
  <2>1. \A k \in Getter : getting'[k].phase = "asleep" =>
          k # h /\ getting[k].phase = "asleep" /\ getting'[k].session = getting[k].session
    BY <1>2, <1>4
  <2>2. \A k \in Getter : k # h => getting'[k] = getting[k]
    BY <1>4
  <2>3. \A g \in 1..MaxSession : Asleep(g)' \subseteq Asleep(g)
    BY <2>1 DEF Asleep
  <2>4. \A k \in Getter : (getting[k].phase = "asleep" /\ k \in gone =>
          <<k, getting[k].session>> \in callback)'
    BY <1>1, <2>1 DEF WakeInv
  <2>5. ASSUME NEW g \in 1..MaxSession, session'[g].pending # NoObs, Asleep(g)' # {}
        PROVE  \/ \E k \in Getter : /\ getting'[k].session = g /\ k \notin gone'
                                     /\ getting'[k].phase \in {"awake", "late"}
               \/ \E k \in Getter : <<k, g>> \in callback'
    <3>1. \/ \E k \in Getter : /\ getting[k].session = g /\ k \notin gone
                                /\ getting[k].phase \in {"awake", "late"}
          \/ \E k \in Getter : <<k, g>> \in callback
      BY <1>1, <2>3, <2>5 DEF WakeInv
    <3>2. getting[h].phase \notin {"awake", "late"}
      BY <1>1
    <3> QED
      BY <1>1, <2>2, <3>1, <3>2
  <2> QED
    BY <2>4, <2>5 DEF WakeInv
<1> QED
  BY <1>1, <1>6, <1>7, <1>8, <1>9 DEF SessionsInv, PendingMatchesSetup

(* wait_for() ends: the call is given up, and it was not the one that      *)
(* would have taken the observation, or it takes the observation.          *)
LEMMA InvByLeave ==
  ASSUME SessionInv, NEW h \in Getter, Leave(h)
  PROVE  SessionInv'
<1> USE SessionAssumption DEF SessionInv
<1>0. getting \in [Getter -> Getting]
  BY DEF TypeOK, Getting, Phases
<1>1. /\ getting[h].phase \in {"awake", "late"}
      /\ UNCHANGED <<current, made, setting, sending, gone, callback, answered>>
  BY DEF Leave
<1>2. PICK g \in 1..MaxSession : g = getting[h].session
  BY <1>1 DEF CallsInv, TypeOK, None
<1>3. getting[h].obs = NoObs
  BY <1>1 DEF CallsInv
<1>4. CASE (h \in gone \/ session[g].closed) /\ getting' = [getting EXCEPT ![h] = Free]
           /\ UNCHANGED session
  <2>1. /\ TypeOK' /\ SessionsInv' /\ CallsInv' /\ PendingMatchesSetup' /\ PlacesInv'
        /\ \A k \in Getter : getting'[k] = IF k = h THEN Free ELSE getting[k]
    <3>1. answered' = answered /\ getting' = [getting EXCEPT ![h] = Free]
          /\ UNCHANGED <<current, session, made, setting, sending, gone, callback>>
      BY <1>1, <1>4
    <3> QED
      BY <3>1, InvByEnd
  <2>2. \A k \in Getter : getting'[k].phase = "asleep" => k # h /\ getting'[k] = getting[k]
    BY <2>1, FreshIs
  <2>3. \A k \in 1..MaxSession : Asleep(k)' \subseteq Asleep(k)
    BY <2>2 DEF Asleep
  <2>4. \A k \in Getter : (getting[k].phase = "asleep" /\ k \in gone =>
          <<k, getting[k].session>> \in callback)'
    BY <1>1, <2>2 DEF WakeInv
  <2>5. ASSUME NEW j \in 1..MaxSession, session'[j].pending # NoObs, Asleep(j)' # {}
        PROVE  \/ \E k \in Getter : /\ getting'[k].session = j /\ k \notin gone'
                                     /\ getting'[k].phase \in {"awake", "late"}
               \/ \E k \in Getter : <<k, j>> \in callback'
    <3>1. \/ \E k \in Getter : /\ getting[k].session = j /\ k \notin gone
                                /\ getting[k].phase \in {"awake", "late"}
          \/ \E k \in Getter : <<k, j>> \in callback
      BY <1>4, <2>3, <2>5 DEF WakeInv
    <3>2. h \in gone \/ g # j
      BY <1>4, <2>5 DEF SessionsInv
    <3>3. \A k \in Getter : k # h => getting'[k] = getting[k]
      BY <2>1
    <3> QED
      BY <1>1, <1>2, <3>1, <3>2, <3>3
  <2> QED
    BY <2>1, <2>4, <2>5 DEF WakeInv
<1>5. CASE /\ h \notin gone /\ ~session[g].closed /\ session[g].pending # NoObs
           /\ getting' = [getting EXCEPT ![h].phase = "inferring", ![h].obs = session[g].pending]
           /\ session' = [session EXCEPT ![g] = Taken(@)]
  <2> DEFINE o == session[g].pending
             x == [session[g] EXCEPT !.pending = NoObs]
             y == [getting[h] EXCEPT !.phase = "inferring", !.obs = o]
  <2>1. o \in Obs /\ o # NoObs /\ o.id \in Nat /\ o.id # 0
    BY <1>5, Fields, ObsIds
  <2>2. x \in State /\ x.pending = NoObs /\ x.closed = session[g].closed /\ x.setup = session[g].setup
    BY Fields, ObsIs DEF State
  <2>3. y \in Getting /\ y.phase = "inferring" /\ y.obs = o /\ y.session = g
    BY <1>0, <1>2, <2>1 DEF Getting, Phases
  <2>4. /\ session' \in [1..MaxSession -> State]
        /\ \A k \in 1..MaxSession : session'[k] = IF k = g THEN x ELSE session[k]
    <3>1. session \in [1..MaxSession -> State]
      BY DEF TypeOK, State
    <3>2. session' = [session EXCEPT ![g] = x]
      BY <1>5 DEF Taken
    <3> QED
      BY <2>2, <3>1, <3>2
  <2>5. /\ getting' \in [Getter -> Getting]
        /\ \A k \in Getter : getting'[k] = IF k = h THEN y ELSE getting[k]
    <3>1. getting' = [getting EXCEPT ![h] = y]
      BY <1>0, <1>5
    <3> QED
      BY <1>0, <2>3, <3>1
  <2> HIDE DEF x, y
  <2>6. TypeOK'
    BY <1>1, <2>4, <2>5 DEF TypeOK, State, Getting, Phases
  <2>7. g = current /\ \A k \in 1..MaxSession : k # g => session[k].pending = NoObs
    BY <1>5 DEF PendingMatchesSetup
  <2>8. \A k \in 1..MaxSession : session'[k].pending = NoObs
    BY <2>2, <2>4, <2>7
  <2>9. SessionsInv' /\ PendingMatchesSetup'
    <3>1. SessionsInv'
      BY <1>1, <2>2, <2>4, <2>7, <2>8, Fields DEF SessionsInv
    <3> QED
      BY <2>8, <3>1 DEF PendingMatchesSetup
  <2>10. CallsInv'
    <3>1. ASSUME NEW k \in Getter
          PROVE  /\ (getting[k].session <= current)'
                 /\ (getting[k].phase # "idle" => getting[k].session # None)'
                 /\ (getting[k].obs # NoObs <=> getting[k].phase = "inferring")'
      <4>1. CASE k = h
        BY <1>1, <2>1, <2>3, <2>5, <2>7, <3>1, <4>1, Fields DEF None
      <4>2. CASE k # h
        BY <1>1, <2>5, <3>1, <4>2 DEF CallsInv
      <4> QED
        BY <4>1, <4>2
    <3> QED
      BY <1>1, <3>1 DEF CallsInv
  <2>11. PlacesInv'
    <3>1. /\ o.id \notin answered /\ o.id <= made.obs
          /\ \A k \in Getter : getting[k].obs.id # o.id
      BY <1>5 DEF PlacesInv
    <3>2. \A k \in Getter : getting'[k].obs = IF k = h THEN o ELSE getting[k].obs
      BY <2>3, <2>5
    <3> HIDE DEF o
    <3>3. \A k \in 1..MaxSession : session'[k].pending.id <= made'.obs
      BY <1>1, <2>8, ObsIs, Fields
    <3>4. ASSUME NEW k \in Getter, getting'[k].obs # NoObs
          PROVE  /\ getting'[k].obs.id \notin answered'
                 /\ \A j \in Getter : getting'[j].obs.id = getting'[k].obs.id => j = k
      <4>1. CASE k = h
        BY <1>1, <3>1, <3>2, <4>1
      <4>2. CASE k # h
        BY <1>1, <3>1, <3>2, <3>4, <4>2 DEF PlacesInv
      <4> QED
        BY <4>1, <4>2
    <3>5. \A k \in Getter : getting'[k].obs.id <= made'.obs
      BY <1>1, <3>1, <3>2 DEF PlacesInv
    <3>6. \A i \in answered' : i <= made'.obs
      BY <1>1 DEF PlacesInv
    <3> QED
      BY <2>8, <3>3, <3>4, <3>5, <3>6 DEF PlacesInv
  <2>12. WakeInv'
    <3>1. \A k \in Getter : getting'[k].phase = "asleep" => getting'[k] = getting[k]
      BY <2>3, <2>5
    <3> QED
      BY <1>1, <2>8, <3>1 DEF WakeInv
  <2> QED
    BY <2>6, <2>9, <2>10, <2>11, <2>12
<1> QED
  BY <1>2, <1>4, <1>5 DEF Leave

(* The predicate of wait_for() does not hold: the thread sleeps, and there *)
(* is nothing to be taken; or it was late, and returns.                    *)
LEMMA InvBySleep ==
  ASSUME SessionInv, NEW h \in Getter, Sleep(h)
  PROVE  SessionInv'
<1> USE SessionAssumption DEF SessionInv
<1>0. getting \in [Getter -> Getting]
  BY DEF TypeOK, Getting, Phases
<1>1. /\ getting[h].phase \in {"awake", "late"} /\ h \notin gone
      /\ UNCHANGED <<current, session, made, setting, sending, gone, callback, answered>>
  BY DEF Sleep
<1>2. PICK g \in 1..MaxSession : g = getting[h].session
  BY <1>1 DEF CallsInv, TypeOK, None
<1>3. session[g].pending = NoObs
  BY <1>2 DEF Sleep
<1>4. /\ TypeOK' /\ SessionsInv' /\ CallsInv' /\ PendingMatchesSetup' /\ PlacesInv'
      /\ \A k \in Getter : k # h => getting'[k].session = getting[k].session
                                   /\ getting'[k].phase = getting[k].phase
      /\ getting'[h].phase = "idle" \/ getting'[h].session = g
  <2>1. CASE getting[h].phase = "late"
    <3>1. getting' = [getting EXCEPT ![h] = Free]
      BY <2>1 DEF Sleep
    <3> QED
      BY <1>1, <3>1, InvByEnd, FreshIs
  <2>2. CASE getting[h].phase = "awake"
    <3>1. getting' = [getting EXCEPT ![h].phase = "asleep"]
      BY <2>2 DEF Sleep
    <3>2. "asleep" \in Phases
      BY DEF Phases
    <3>3. /\ TypeOK' /\ SessionsInv' /\ CallsInv' /\ PendingMatchesSetup' /\ PlacesInv'
          /\ \A k \in Getter : /\ getting'[k].session = getting[k].session
                                /\ getting'[k].phase = IF k = h THEN "asleep" ELSE getting[k].phase
      BY <1>1, <2>2, <3>1, <3>2, InvByPhase
    <3> QED
      BY <1>2, <3>3
  <2> QED
    BY <1>1, <2>1, <2>2
<1>5. WakeInv'
  <2>1. \A k \in Getter : (getting[k].phase = "asleep" /\ k \in gone =>
          <<k, getting[k].session>> \in callback)'
    BY <1>1, <1>4 DEF WakeInv
  <2>2. ASSUME NEW j \in 1..MaxSession, session'[j].pending # NoObs, Asleep(j)' # {}
        PROVE  \/ \E k \in Getter : /\ getting'[k].session = j /\ k \notin gone'
                                     /\ getting'[k].phase \in {"awake", "late"}
               \/ \E k \in Getter : <<k, j>> \in callback'
    <3>1. j # g
      BY <1>1, <1>3, <2>2
    <3>2. Asleep(j) # {}
      BY <1>4, <2>2, <3>1 DEF Asleep
    <3>3. \/ \E k \in Getter : /\ getting[k].session = j /\ k \notin gone
                                /\ getting[k].phase \in {"awake", "late"}
          \/ \E k \in Getter : <<k, j>> \in callback
      BY <1>1, <2>2, <3>2 DEF WakeInv
    <3> QED
      BY <1>1, <1>2, <1>4, <3>1, <3>3
  <2> QED
    BY <2>1, <2>2 DEF WakeInv
<1> QED
  BY <1>4, <1>5

(* The two seconds of the wait are over: one sleeper less.                 *)
LEMMA InvByTimeout ==
  ASSUME SessionInv, NEW h \in Getter, Timeout(h)
  PROVE  SessionInv'
<1> USE SessionAssumption DEF SessionInv
<1>1. /\ getting[h].phase = "asleep" /\ getting' = [getting EXCEPT ![h].phase = "late"]
      /\ UNCHANGED <<current, session, made, setting, sending, gone, callback, answered>>
  BY DEF Timeout
<1>2. "late" \in Phases
  BY DEF Phases
<1>3. /\ TypeOK' /\ SessionsInv' /\ CallsInv' /\ PendingMatchesSetup' /\ PlacesInv'
      /\ \A k \in Getter : /\ getting'[k].session = getting[k].session
                            /\ getting'[k].phase = IF k = h THEN "late" ELSE getting[k].phase
  BY <1>1, <1>2, InvByPhase
<1>4. \A g \in 1..MaxSession : Asleep(g)' \subseteq Asleep(g)
  BY <1>3 DEF Asleep
<1>5. WakeInv'
  <2>1. \A k \in Getter : (getting[k].phase = "asleep" /\ k \in gone =>
          <<k, getting[k].session>> \in callback)'
    BY <1>1, <1>3 DEF WakeInv
  <2>2. ASSUME NEW j \in 1..MaxSession, session'[j].pending # NoObs, Asleep(j)' # {}
        PROVE  \/ \E k \in Getter : /\ getting'[k].session = j /\ k \notin gone'
                                     /\ getting'[k].phase \in {"awake", "late"}
               \/ \E k \in Getter : <<k, j>> \in callback'
    <3>1. \/ \E k \in Getter : /\ getting[k].session = j /\ k \notin gone
                                /\ getting[k].phase \in {"awake", "late"}
          \/ \E k \in Getter : <<k, j>> \in callback
      BY <1>1, <1>4, <2>2 DEF WakeInv
    <3> QED
      BY <1>1, <1>3, <3>1
  <2> QED
    BY <2>1, <2>2 DEF WakeInv
<1> QED
  BY <1>3, <1>5

(* The client gives up, and its callback will run; later it wakes all who  *)
(* sleep on the session.                                                   *)
LEMMA InvByCancel ==
  ASSUME SessionInv, NEW h \in Getter,
         Cancel(h) \/ \E g \in 1..MaxSession : RunCallback(h, g)
  PROVE  SessionInv'
<1> USE SessionAssumption DEF SessionInv
<1>1. CASE Cancel(h)
  <2>1. /\ getting[h].phase # "idle" /\ gone' = gone \cup {h}
        /\ callback' = callback \cup {<<h, getting[h].session>>}
        /\ UNCHANGED <<current, session, made, setting, sending, getting, answered>>
    BY <1>1 DEF Cancel
  <2>2. getting[h].session \in 1..MaxSession
    BY <2>1 DEF CallsInv, TypeOK, None
  <2>3. TypeOK'
    BY <2>1, <2>2 DEF TypeOK
  <2>4. SessionsInv' /\ CallsInv' /\ PendingMatchesSetup' /\ PlacesInv'
    BY <2>1, PlacesKept DEF SessionsInv, CallsInv, PendingMatchesSetup
  <2>5. WakeInv'
    <3>1. \A k \in Getter : (getting[k].phase = "asleep" /\ k \in gone =>
            <<k, getting[k].session>> \in callback)'
      BY <2>1 DEF WakeInv
    <3>2. ASSUME NEW j \in 1..MaxSession, session'[j].pending # NoObs, Asleep(j)' # {}
          PROVE  \/ \E k \in Getter : /\ getting'[k].session = j /\ k \notin gone'
                                       /\ getting'[k].phase \in {"awake", "late"}
                 \/ \E k \in Getter : <<k, j>> \in callback'
      <4>1. \/ \E k \in Getter : /\ getting[k].session = j /\ k \notin gone
                                  /\ getting[k].phase \in {"awake", "late"}
            \/ \E k \in Getter : <<k, j>> \in callback
        BY <2>1, <3>2 DEF WakeInv, Asleep
      <4> QED
        BY <2>1, <4>1
    <3> QED
      BY <3>1, <3>2 DEF WakeInv
  <2> QED
    BY <2>3, <2>4, <2>5
<1>2. ASSUME NEW g \in 1..MaxSession, RunCallback(h, g) PROVE SessionInv'
  <2>1. /\ getting' = WakeAll(g) /\ callback' = callback \ {<<h, g>>}
        /\ UNCHANGED <<current, session, made, setting, sending, gone, answered>>
    BY <1>2 DEF RunCallback, WakeOnCancel
  <2>2. /\ getting' \in [Getter -> Getting]
        /\ \A k \in Getter :
             /\ getting'[k].session = getting[k].session
             /\ getting'[k].obs = getting[k].obs
             /\ getting'[k].phase = IF getting[k].phase = "asleep" /\ getting[k].session = g
                                    THEN "awake" ELSE getting[k].phase
    BY <2>1, WakeAllIs
  <2>3. TypeOK'
    BY <2>1, <2>2 DEF TypeOK, Getting, Phases
  <2>4. CallsInv'
    <3>1. ASSUME NEW k \in Getter
          PROVE  /\ (getting[k].session <= current)'
                 /\ (getting[k].phase # "idle" => getting[k].session # None)'
                 /\ (getting[k].obs # NoObs <=> getting[k].phase = "inferring")'
      BY <2>1, <2>2, <3>1 DEF CallsInv
    <3> QED
      BY <2>1, <3>1 DEF CallsInv
  <2>5. SessionsInv' /\ PendingMatchesSetup' /\ PlacesInv'
    BY <2>1, <2>2, PlacesKept DEF SessionsInv, PendingMatchesSetup
  <2>6. WakeInv'
    <3>1. \A k \in Getter : (getting[k].phase = "asleep" /\ k \in gone =>
            <<k, getting[k].session>> \in callback)'
      BY <2>1, <2>2 DEF WakeInv
    <3>2. ASSUME NEW j \in 1..MaxSession, session'[j].pending # NoObs, Asleep(j)' # {}
          PROVE  \/ \E k \in Getter : /\ getting'[k].session = j /\ k \notin gone'
                                       /\ getting'[k].phase \in {"awake", "late"}
                 \/ \E k \in Getter : <<k, j>> \in callback'
      <4>1. j # g /\ Asleep(j) # {}
        BY <2>2, <3>2 DEF Asleep
      <4>2. \/ \E k \in Getter : /\ getting[k].session = j /\ k \notin gone
                                  /\ getting[k].phase \in {"awake", "late"}
            \/ \E k \in Getter : <<k, j>> \in callback
        BY <2>1, <3>2, <4>1 DEF WakeInv
      <4> QED
        BY <2>1, <2>2, <4>1, <4>2
    <3> QED
      BY <3>1, <3>2 DEF WakeInv
  <2> QED
    BY <2>3, <2>4, <2>5, <2>6
<1> QED
  BY <1>1, <1>2

(* infer() has ended.                                                      *)
LEMMA InvByAnswer ==
  ASSUME SessionInv, NEW h \in Getter, Answer(h) \/ AbortAnswer(h)
  PROVE  SessionInv'
<1> USE SessionAssumption DEF SessionInv
<1>1. /\ getting[h].phase = "inferring" /\ getting' = [getting EXCEPT ![h] = Free]
      /\ answered' = answered \/ answered' = answered \cup {getting[h].obs.id}
      /\ UNCHANGED <<current, session, made, setting, sending, gone, callback>>
  BY DEF Answer, AbortAnswer
<1>2. getting[h].obs # NoObs
  BY <1>1 DEF CallsInv
<1>3. /\ TypeOK' /\ SessionsInv' /\ CallsInv' /\ PendingMatchesSetup' /\ PlacesInv'
      /\ \A k \in Getter : getting'[k] = IF k = h THEN Free ELSE getting[k]
  BY <1>1, <1>2, InvByEnd
<1>4. WakeInv'
  <2>1. \A k \in Getter : getting'[k].phase = "asleep" => k # h /\ getting'[k] = getting[k]
    BY <1>3, FreshIs
  <2>2. \A k \in 1..MaxSession : Asleep(k)' \subseteq Asleep(k)
    BY <2>1 DEF Asleep
  <2>3. \A k \in Getter : (getting[k].phase = "asleep" /\ k \in gone =>
          <<k, getting[k].session>> \in callback)'
    BY <1>1, <2>1 DEF WakeInv
  <2>4. ASSUME NEW j \in 1..MaxSession, session'[j].pending # NoObs, Asleep(j)' # {}
        PROVE  \/ \E k \in Getter : /\ getting'[k].session = j /\ k \notin gone'
                                     /\ getting'[k].phase \in {"awake", "late"}
               \/ \E k \in Getter : <<k, j>> \in callback'
    <3>1. \/ \E k \in Getter : /\ getting[k].session = j /\ k \notin gone
                                /\ getting[k].phase \in {"awake", "late"}
          \/ \E k \in Getter : <<k, j>> \in callback
      BY <1>1, <2>2, <2>4 DEF WakeInv
    <3> QED
      BY <1>1, <1>3, <3>1
  <2> QED
    BY <2>3, <2>4 DEF WakeInv
<1> QED
  BY <1>3, <1>4

(* The invariant holds throughout.                                         *)
LEMMA SessionInvariant == Spec => []SessionInv
<1>1. SessionInv /\ [Next]_vars => SessionInv'
  BY InvByDecoding, InvByReady, InvByInstall, InvByPublish, InvByBeginGet, InvByLeave, InvBySleep,
     InvByTimeout, InvByCancel, InvByAnswer
  DEF Next, Get
<1> QED
  BY <1>1, SessionInvInit, PTL DEF Spec

-----------------------------------------------------------------------------
(* A set with at most one element, and how many elements it has.           *)
LEMMA AtMostOne ==
  ASSUME NEW S, \A x, y \in S : x = y
  PROVE  Cardinality(S) \in {0, 1} /\ (S = {} => Cardinality(S) = 0)
<1>1. CASE S = {}
  BY <1>1, FS_EmptySet
<1>2. CASE S # {}
  <2>1. PICK x : x \in S
    BY <1>2
  <2>2. S = {x}
    BY <2>1
  <2> QED
    BY <1>2, <2>2, FS_Singleton
<1> QED
  BY <1>1, <1>2

(* Being in one place at a time is what the counts say.                    *)
LEMMA PlacesCounted ==
  ASSUME SessionInv
  PROVE  ObservationUsedOnce
<1> SUFFICES ASSUME NEW i \in 1..MaxObs
             PROVE  Cardinality({g \in 1..MaxSession : session[g].pending.id = i})
                      + Cardinality({h \in Getter : getting[h].obs.id = i})
                      + Cardinality({i} \cap answered) <= 1
  BY DEF ObservationUsedOnce
<1> DEFINE P == {g \in 1..MaxSession : session[g].pending.id = i}
           Q == {h \in Getter : getting[h].obs.id = i}
           R == {i} \cap answered
<1>0. TypeOK /\ i # 0
  BY SessionAssumption DEF SessionInv
<1>1. \A g \in P : session[g].pending # NoObs
  BY <1>0, ObsIs
<1>2. \A h \in Q : getting[h].obs # NoObs
  BY <1>0, ObsIs
<1>3. \A g, k \in P : g = k
  BY <1>1 DEF SessionInv, PendingMatchesSetup
<1>4. \A h, k \in Q : h = k
  BY <1>2 DEF SessionInv, PlacesInv
<1>5. P # {} => Q = {} /\ R = {}
  BY <1>1 DEF SessionInv, PlacesInv
<1>6. Q # {} => R = {}
  BY <1>2 DEF SessionInv, PlacesInv
<1>7. \A x, y \in R : x = y
  OBVIOUS
<1> HIDE DEF P, Q, R
<1>8. /\ Cardinality(P) \in {0, 1} /\ (P = {} => Cardinality(P) = 0)
      /\ Cardinality(Q) \in {0, 1} /\ (Q = {} => Cardinality(Q) = 0)
      /\ Cardinality(R) \in {0, 1} /\ (R = {} => Cardinality(R) = 0)
  BY <1>3, <1>4, <1>7, AtMostOne
<1>9. Cardinality(P) + Cardinality(Q) + Cardinality(R) <= 1
  BY <1>5, <1>6, <1>8
<1> QED
  BY <1>9 DEF P, Q, R

(* An observation is used at most once, and under the setup it was decoded *)
(* with, although SendObservations and GetActions release the lock while   *)
(* they decode, wait and infer.                                            *)
THEOREM ObservationsAreCorrect == Spec => []ObservationsCorrect
<1>1. SessionInv => ObservationsCorrect
  BY PlacesCounted DEF SessionInv, ObservationsCorrect
<1> QED
  BY <1>1, SessionInvariant, PTL

(* No wakeup is lost: notify() may wake a cancelled GetActions, which      *)
(* leaves the observation where it is, but then wake_on_cancel() is still  *)
(* to run and wakes the others.                                            *)
THEOREM NoLostWakeup == Spec => []WakeupNotLost
<1>1. SessionInv => WakeupNotLost
  BY DEF SessionInv, WakeInv, WakeupNotLost
<1> QED
  BY <1>1, SessionInvariant, PTL

(* Actions are returned only to the session that is in place, under the    *)
(* setup their observation was decoded with.                               *)
THEOREM AnswersAreCurrent == Spec => AnswersCurrent
<1>1. ASSUME SessionInv, [Next]_vars, NEW h \in Getter, answered' # answered,
             getting[h].phase = "inferring", getting'[h] = Free
      PROVE  getting[h].session = current /\ getting[h].obs.setup = session[current].setup
  <2>0. TypeOK
    BY <1>1 DEF SessionInv
  <2>1. PICK k \in Getter : Answer(k)
    BY <1>1
    DEF Next, Ready, BeginSetup, InstallSetup, AbortSetup, BeginObservation, PublishObservation,
        AbortObservation, BeginGet, Get, Leave, Sleep, AbortAnswer, Timeout, Cancel, RunCallback, vars
  <2>2. k = h
    <3>1. k # h => getting'[h] = getting[h]
      BY <2>0, <2>1 DEF Answer, TypeOK
    <3> QED
      BY <1>1, <3>1, FreshIs
  <2>3. Current(getting[h].session, getting[h].obs.setup)
    BY <2>1, <2>2 DEF Answer
  <2>4. getting[h].session \in 1..MaxSession /\ getting[h].session <= current /\ current \in Nat
    BY <1>1, <2>0 DEF SessionInv, CallsInv, TypeOK, None
  <2>5. ~(getting[h].session < current)
    BY <1>1, <2>3, <2>4 DEF Current, SessionInv, SessionsInv
  <2> QED
    BY <2>3, <2>4, <2>5 DEF Current
<1>2. SessionInv /\ [Next]_vars =>
        [\A h \in Getter : answered' # answered /\ getting[h].phase = "inferring"
                              /\ getting'[h] = Free =>
            getting[h].session = current /\ getting[h].obs.setup = session[current].setup]_vars
  BY <1>1
<1> QED
  BY <1>2, SessionInvariant, PTL DEF Spec, AnswersCurrent

=============================================================================
