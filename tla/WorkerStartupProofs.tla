------------------------- MODULE WorkerStartupProofs -------------------------
(***************************************************************************)
(* start() proved for every number of workers and of faults: what it       *)
(* leaves behind (StartIsClean), and that a worker which dies while the    *)
(* handshake is read keeps it from reporting RUNNING (DeathIsNoticed);     *)
(* what the workers load, for groups, heads, features and vocabularies of  *)
(* every size: the shards on each rank meet (ShardsMeet); and the plan     *)
(* they are started from, for all sizes and any number of nodes, devices   *)
(* and replicas (PlacementCorrect, InferredIsSmallest, LayoutCorrect).     *)
(***************************************************************************)
EXTENDS WorkerStartup, WeightShards, DeploymentPlan, FiniteSetTheorems, SequenceTheorems, WellFoundedInduction, TLAPS

(* _state follows the place start() is at; it waits only once every worker *)
(* is spawned, and the workers after the last spawned one do not exist.    *)
PhaseInv ==
  /\ pc = "idle" => state = "created"
  /\ pc \in {"spawn", "await", "read", "abort"} => state = "starting"
  /\ pc = "done" => state \in {"running", "failed"}
  /\ pc \in {"await", "read"} => spawned = WorkerCount
  /\ \A w \in Worker : wpc[w] = "none" <=> w > spawned
  /\ \A w \in Worker : wpc[w] = "killed" => state = "failed"

(* What a worker has said, and how much of it was read, is what it did:    *)
(* the pipe holds the rest of HELLO, then READY or an error.               *)
SaidBy(w) ==
  /\ wpc[w] \in {"none", "boot"} => handle[w] = "new" /\ pipe[w] = <<>>
  /\ wpc[w] = "startup" => \/ handle[w] = "new" /\ pipe[w] = <<"hello">>
                           \/ handle[w] = "hello" /\ pipe[w] = <<>>
  /\ handle[w] = "new" =>
       pipe[w] \in {<<>>, <<"hello">>, <<"hello", "ready">>, <<"hello", "error">>}
  /\ handle[w] = "hello" => pipe[w] \in {<<>>, <<"ready">>, <<"error">>}
  /\ handle[w] = "ready" => pipe[w] = <<>> /\ wpc[w] \in {"serve"} \cup Exited

(* RUNNING is reported when every handle is ready.                         *)
RunningInv == state = "running" => AllReady

StartInv ==
  TypeOK /\ PhaseInv /\ (\A w \in Worker : SaidBy(w)) /\ RunningInv /\ FailedStartIsClean

-----------------------------------------------------------------------------
(* Sequences of one and two messages: what is read first and what is left, *)
(* and what a message more makes of them.                                  *)
LEMMA ShortPipes ==
  ASSUME NEW a, NEW b
  PROVE  /\ Head(<<a>>) = a /\ Tail(<<a>>) = <<>> /\ <<a>> # <<>>
         /\ Head(<<a, b>>) = a /\ Tail(<<a, b>>) = <<b>> /\ <<a, b>> # <<>>
         /\ Append(<<>>, a) = <<a>> /\ Append(<<a>>, b) = <<a, b>>
<1>1. Head(<<a>>) = a /\ <<a>> # <<>> /\ Head(<<a, b>>) = a /\ <<a, b>> # <<>>
  OBVIOUS
<1>2. Tail(<<a>>) = <<>>
  OBVIOUS
<1>3. Tail(<<a, b>>) = <<b>>
  OBVIOUS
<1>4. Append(<<>>, a) = <<a>>
  OBVIOUS
<1>5. Append(<<a>>, b) = <<a, b>>
  <2> DEFINE s == Append(<<a>>, b)
  <2>1. s \in Seq({a, b}) /\ Len(s) = 2 /\ s[1] = a /\ s[2] = b
    OBVIOUS
  <2> DEFINE t == <<a, b>>
  <2>2. t \in Seq({a, b}) /\ Len(t) = 2 /\ t[1] = a /\ t[2] = b
    OBVIOUS
  <2> HIDE DEF s, t
  <2>3. \A i \in 1..2 : s[i] = t[i]
    BY <2>1, <2>2
  <2>4. s = t
    BY <2>1, <2>2, <2>3
  <2> QED
    BY <2>4 DEF s, t
<1> QED
  BY <1>1, <1>2, <1>3, <1>4, <1>5

(* Before start() nothing exists and nothing was said.                     *)
LEMMA StartInvInit == Init => StartInv
<1> SUFFICES ASSUME Init PROVE StartInv
  OBVIOUS
<1> USE CountAssumption DEF Init
<1>1. TypeOK
  <2>1. pipe \in [Worker -> Seq({"hello", "ready", "error"})]
    OBVIOUS
  <2>2. ready \in [pipes : SUBSET Worker, sentinels : SUBSET Worker]
    BY DEF NothingReady
  <2>3. wpc \in [Worker -> {"none", "boot", "startup", "serve"} \cup Exited]
    OBVIOUS
  <2>4. handle \in [Worker -> {"new", "hello", "ready"}]
    OBVIOUS
  <2>5. spawned \in 0..WorkerCount /\ faults \in 0..MaxFaults
    OBVIOUS
  <2> QED
    BY <2>1, <2>2, <2>3, <2>4, <2>5 DEF TypeOK
<1>2. PhaseInv
  BY DEF PhaseInv, Worker
<1>3. ASSUME NEW w \in Worker PROVE SaidBy(w)
  BY <1>3 DEF SaidBy
<1>4. RunningInv /\ FailedStartIsClean
  BY DEF RunningInv, FailedStartIsClean
<1> QED
  BY <1>1, <1>2, <1>3, <1>4 DEF StartInv

(* A message that is sent or read is one of the three.                     *)
LEMMA PipeTypes ==
  ASSUME NEW S, NEW s \in Seq(S)
  PROVE  /\ s # <<>> => Tail(s) \in Seq(S) /\ Head(s) \in S
         /\ \A m \in S : Append(s, m) \in Seq(S)
  OBVIOUS

(* The steps of start() itself keep the types.                             *)
LEMMA TypeByStart ==
  ASSUME TypeOK, Start \/ Starting \/ SpawnFails \/ Expire \/ UNCHANGED vars
  PROVE  TypeOK'
<1> USE CountAssumption DEF TypeOK, procVars
<1>1. CASE Start
  BY <1>1 DEF Start
<1>2. CASE Spawn
  BY <1>2 DEF Spawn, Worker, Exited
<1>3. CASE SpawnFails
  BY <1>3 DEF SpawnFails, InjectFault
<1>4. CASE Spawned
  BY <1>4 DEF Spawned
<1>5. CASE AwaitExpired
  BY <1>5 DEF AwaitExpired
<1>6. CASE Await
  BY <1>6 DEF Await
<1>7. CASE CheckSentinels
  BY <1>7 DEF CheckSentinels, NothingReady
<1>8. CASE Launch
  BY <1>8 DEF Launch
<1>9. CASE Abort
  BY <1>9 DEF Abort, Exited
<1>10. CASE Expire
  BY <1>10 DEF Expire
<1>11. ASSUME NEW w \in Worker, Read(w) PROVE TypeOK'
  <2>1. CASE pipe[w] = <<>>
    BY <1>11, <2>1 DEF Read
  <2>2. CASE pipe[w] # <<>>
    <3>1. Tail(pipe[w]) \in Seq({"hello", "ready", "error"})
      BY <2>2, PipeTypes
    <3>2. pipe' \in [Worker -> Seq({"hello", "ready", "error"})]
      BY <1>11, <2>2, <3>1 DEF Read
    <3>3. handle' \in [Worker -> {"new", "hello", "ready"}]
      BY <1>11, <2>2 DEF Read, Handshake
    <3> QED
      BY <1>11, <2>2, <3>2, <3>3 DEF Read
  <2> QED
    BY <2>1, <2>2
<1>12. CASE UNCHANGED vars
  BY <1>12 DEF vars
<1> QED
  BY <1>1, <1>2, <1>3, <1>4, <1>5, <1>6, <1>7, <1>8, <1>9, <1>10, <1>11, <1>12 DEF Starting

(* So do the steps of a worker.                                            *)
LEMMA TypeByWorker ==
  ASSUME TypeOK, NEW w \in Worker,
         WorkerHello(w) \/ WorkerReady(w) \/ WorkerRaises(w) \/ WorkerCrashes(w)
  PROVE  TypeOK'
<1> USE CountAssumption DEF TypeOK, Exited, InjectFault
<1>1. ASSUME NEW from, NEW m \in {"hello", "ready", "error"},
             NEW to \in {"none", "boot", "startup", "serve"} \cup Exited,
             WorkerSays(w, from, m, to)
      PROVE  /\ wpc' \in [Worker -> {"none", "boot", "startup", "serve"} \cup Exited]
             /\ pipe' \in [Worker -> Seq({"hello", "ready", "error"})]
             /\ UNCHANGED <<state, pc, spawned, handle, ready, late>>
  <2>1. Append(pipe[w], m) \in Seq({"hello", "ready", "error"})
    BY PipeTypes
  <2> QED
    BY <1>1, <2>1 DEF WorkerSays
<1>2. CASE WorkerHello(w)
  BY <1>1, <1>2 DEF WorkerHello
<1>3. CASE WorkerReady(w)
  BY <1>1, <1>3 DEF WorkerReady
<1>4. CASE WorkerRaises(w)
  BY <1>1, <1>4 DEF WorkerRaises
<1>5. CASE WorkerCrashes(w)
  BY <1>5 DEF WorkerCrashes
<1> QED
  BY <1>2, <1>3, <1>4, <1>5

(* The steps of start() keep the rest of the invariant.                    *)
LEMMA StartInvByStart ==
  ASSUME StartInv, Start \/ Starting \/ SpawnFails \/ Expire \/ UNCHANGED vars
  PROVE  StartInv'
<1> TypeOK /\ TypeOK' /\ PhaseInv /\ (\A w \in Worker : SaidBy(w)) /\ RunningInv /\ FailedStartIsClean
  BY TypeByStart DEF StartInv
<1> SUFFICES PhaseInv' /\ (\A w \in Worker : SaidBy(w)') /\ RunningInv' /\ FailedStartIsClean'
  BY DEF StartInv, Worker
<1> USE CountAssumption DEF procVars
<1>1. CASE Start \/ SpawnFails \/ Spawned \/ AwaitExpired \/ Await \/ CheckSentinels \/ Expire
           \/ UNCHANGED vars
  <2>1. UNCHANGED <<spawned, handle, wpc, pipe>>
    BY <1>1 DEF Start, SpawnFails, Spawned, AwaitExpired, Await, CheckSentinels, Expire, vars
  <2>2. state' = state \/ (state = "created" /\ state' = "starting")
    BY <1>1 DEF Start, SpawnFails, Spawned, AwaitExpired, Await, CheckSentinels, Expire, vars
  <2>3. PhaseInv'
    BY <1>1, <2>1
    DEF PhaseInv, Start, SpawnFails, Spawned, AwaitExpired, Await, CheckSentinels, Expire, vars
  <2>4. ASSUME NEW w \in Worker PROVE SaidBy(w)'
    BY <2>1, <2>4 DEF SaidBy
  <2>5. RunningInv' /\ FailedStartIsClean'
    BY <2>1, <2>2 DEF RunningInv, FailedStartIsClean, AllReady, Alive
  <2> QED
    BY <2>3, <2>4, <2>5
<1>2. CASE Spawn
  <2>1. PICK v \in Worker : v = spawned + 1
    BY <1>2 DEF Spawn, TypeOK, Worker
  <2>2. \A w \in Worker : wpc'[w] = IF w = v THEN "boot" ELSE wpc[w]
    BY <1>2, <2>1 DEF Spawn, TypeOK
  <2>3. PhaseInv'
    BY <1>2, <2>1, <2>2 DEF PhaseInv, Spawn, TypeOK, Worker
  <2>4. wpc[v] = "none"
    BY <2>1 DEF PhaseInv, TypeOK, Worker
  <2>5. ASSUME NEW w \in Worker PROVE SaidBy(w)'
    BY <1>2, <2>2, <2>4, <2>5 DEF SaidBy, Spawn, Exited
  <2>6. RunningInv' /\ FailedStartIsClean'
    BY <1>2 DEF RunningInv, FailedStartIsClean, Spawn, PhaseInv
  <2> QED
    BY <2>3, <2>5, <2>6
<1>3. CASE Launch
  <2>1. PhaseInv' /\ RunningInv' /\ FailedStartIsClean'
    BY <1>3 DEF Launch, PhaseInv, RunningInv, FailedStartIsClean, AllReady
  <2>2. ASSUME NEW w \in Worker PROVE SaidBy(w)'
    BY <1>3, <2>2 DEF SaidBy, Launch
  <2> QED
    BY <2>1, <2>2
<1>4. CASE Abort
  <2>1. \A w \in Worker : wpc'[w] = IF w \in Started /\ Alive(w) THEN "killed" ELSE wpc[w]
    BY <1>4 DEF Abort
  <2>2. PhaseInv'
    BY <1>4, <2>1 DEF Abort, PhaseInv, Started, Alive, Exited, TypeOK, Worker
  <2>3. ASSUME NEW w \in Worker PROVE SaidBy(w)'
    BY <1>4, <2>1, <2>3 DEF SaidBy, Abort, Alive, Exited
  <2>4. RunningInv'
    BY <1>4 DEF Abort, RunningInv
  <2>5. ASSUME NEW w \in Worker PROVE ~Alive(w)'
    <3>1. w \in Started \/ wpc[w] = "none"
      BY <2>5 DEF Started, PhaseInv, TypeOK, Worker
    <3> QED
      BY <2>1, <3>1 DEF Alive, Exited
  <2> QED
    BY <2>2, <2>3, <2>4, <2>5 DEF FailedStartIsClean
<1>5. ASSUME NEW w \in Worker, Read(w) PROVE StartInv'
  <2>1. UNCHANGED <<state, spawned, wpc>> /\ pc' \in {"read", "abort"} /\ state = "starting"
    BY <1>5 DEF Read, PhaseInv
  <2>2. PhaseInv' /\ RunningInv' /\ FailedStartIsClean'
    BY <1>5, <2>1 DEF PhaseInv, RunningInv, FailedStartIsClean, Read
  <2>3. ASSUME NEW v \in Worker, v # w PROVE SaidBy(v)'
    <3>1. handle'[v] = handle[v] /\ pipe'[v] = pipe[v]
      BY <1>5, <2>3 DEF Read, TypeOK
    <3> QED
      BY <2>1, <2>3, <3>1 DEF SaidBy
  <2>4. SaidBy(w)'
    <3>1. CASE pipe[w] = <<>>
      BY <1>5, <3>1, <2>1 DEF Read, SaidBy
    <3>2. CASE pipe[w] # <<>>
      <4>1. /\ pipe'[w] = Tail(pipe[w])
            /\ handle'[w] = IF <<handle[w], Head(pipe[w])>> \in Handshake
                            THEN Head(pipe[w]) ELSE handle[w]
        BY <1>5, <3>2 DEF Read, TypeOK
      <4>2. CASE handle[w] = "new"
        <5>1. pipe[w] \in {<<"hello">>, <<"hello", "ready">>, <<"hello", "error">>}
          BY <3>2, <4>2 DEF SaidBy
        <5>2. Head(pipe[w]) = "hello" /\ Tail(pipe[w]) \in {<<>>, <<"ready">>, <<"error">>}
          <6>1. ASSUME NEW m, pipe[w] = <<"hello", m>>
                PROVE  Head(pipe[w]) = "hello" /\ Tail(pipe[w]) = <<m>>
            BY <6>1, ShortPipes
          <6>2. ASSUME pipe[w] = <<"hello">>
                PROVE  Head(pipe[w]) = "hello" /\ Tail(pipe[w]) = <<>>
            BY <6>2, ShortPipes
          <6> QED
            BY <5>1, <6>1, <6>2
        <5>3. pipe[w] = <<"hello">> => Tail(pipe[w]) = <<>>
          BY ShortPipes
        <5>4. handle'[w] = "hello"
          BY <4>1, <4>2, <5>2 DEF Handshake
        <5>5. wpc[w] \notin {"none", "boot"}
          BY <3>2 DEF SaidBy
        <5> QED
          BY <2>1, <4>1, <4>2, <5>2, <5>3, <5>4, <5>5 DEF SaidBy
      <4>3. CASE handle[w] = "hello"
        <5>1. pipe[w] \in {<<"ready">>, <<"error">>}
          BY <3>2, <4>3 DEF SaidBy
        <5>2. Head(pipe[w]) \in {"ready", "error"} /\ Tail(pipe[w]) = <<>>
          BY <5>1, ShortPipes
        <5>3. handle'[w] \in {"hello", "ready"}
          BY <4>1, <4>3, <5>2 DEF Handshake
        <5>4. wpc[w] \notin {"none", "boot", "startup"}
          BY <3>2, <4>3 DEF SaidBy
        <5>5. wpc[w] \in {"serve"} \cup Exited
          BY <5>4 DEF TypeOK
        <5> QED
          BY <2>1, <4>1, <5>2, <5>3, <5>4, <5>5 DEF SaidBy
      <4>4. CASE handle[w] = "ready"
        BY <3>2, <4>4 DEF SaidBy
      <4> QED
        BY <4>2, <4>3, <4>4 DEF TypeOK
    <3> QED
      BY <3>1, <3>2
  <2> QED
    BY <2>2, <2>3, <2>4 DEF StartInv, Worker
<1> QED
  BY <1>1, <1>2, <1>3, <1>4, <1>5 DEF Starting, StartInv

(* A worker's own steps keep it too.                                       *)
LEMMA StartInvByWorker ==
  ASSUME StartInv, NEW w \in Worker,
         WorkerHello(w) \/ WorkerReady(w) \/ WorkerRaises(w) \/ WorkerCrashes(w)
  PROVE  StartInv'
<1> TypeOK /\ TypeOK' /\ PhaseInv /\ (\A v \in Worker : SaidBy(v)) /\ RunningInv /\ FailedStartIsClean
  BY TypeByWorker DEF StartInv
<1>1. UNCHANGED <<state, pc, spawned, handle>>
  BY DEF WorkerHello, WorkerReady, WorkerRaises, WorkerCrashes, WorkerSays
<1>2. Alive(w) /\ wpc'[w] \in {"startup", "serve", "exit"}
  BY DEF WorkerHello, WorkerReady, WorkerRaises, WorkerCrashes, WorkerSays, Alive, Exited, TypeOK
<1>3. \A v \in Worker : v # w => wpc'[v] = wpc[v] /\ pipe'[v] = pipe[v]
  BY DEF WorkerHello, WorkerReady, WorkerRaises, WorkerCrashes, WorkerSays, TypeOK
<1>4. PhaseInv'
  BY <1>1, <1>2, <1>3 DEF PhaseInv, Alive, Worker
<1>5. RunningInv'
  BY <1>1 DEF RunningInv, AllReady
<1>6. FailedStartIsClean'
  BY <1>1, <1>2 DEF FailedStartIsClean
<1>7. ASSUME NEW v \in Worker, v # w PROVE SaidBy(v)'
  BY <1>1, <1>3, <1>7 DEF SaidBy
<1>8. SaidBy(w)'
  <2>1. CASE WorkerHello(w)
    <3>1. wpc[w] = "boot" /\ wpc'[w] = "startup" /\ pipe'[w] = Append(pipe[w], "hello")
      BY <2>1 DEF WorkerHello, WorkerSays, TypeOK
    <3>2. handle[w] = "new" /\ pipe'[w] = <<"hello">>
      BY <3>1, ShortPipes DEF SaidBy
    <3> QED
      BY <1>1, <3>1, <3>2 DEF SaidBy
  <2>2. ASSUME NEW m \in {"ready", "error"}, NEW to \in {"serve", "exit"},
               WorkerSays(w, "startup", m, to)
        PROVE  SaidBy(w)'
    <3>1. wpc[w] = "startup" /\ wpc'[w] = to /\ pipe'[w] = Append(pipe[w], m)
      BY <2>2 DEF WorkerSays, TypeOK
    <3>2. \/ handle[w] = "new" /\ pipe'[w] = <<"hello", m>>
          \/ handle[w] = "hello" /\ pipe'[w] = <<m>>
      <4>1. Append(<<"hello">>, m) = <<"hello", m>> /\ Append(<<>>, m) = <<m>>
        BY ShortPipes
      <4>2. \/ handle[w] = "new" /\ pipe[w] = <<"hello">>
            \/ handle[w] = "hello" /\ pipe[w] = <<>>
        BY <3>1 DEF SaidBy
      <4> QED
        BY <3>1, <4>1, <4>2
    <3> QED
      BY <1>1, <3>1, <3>2 DEF SaidBy
  <2>3. CASE WorkerReady(w) \/ WorkerRaises(w)
    BY <2>2, <2>3 DEF WorkerReady, WorkerRaises
  <2>4. CASE WorkerCrashes(w)
    <3>1. wpc'[w] = "exit" /\ pipe' = pipe
      BY <2>4 DEF WorkerCrashes, TypeOK
    <3> QED
      BY <1>1, <3>1 DEF SaidBy, Exited
  <2> QED
    BY <2>1, <2>3, <2>4
<1> QED
  BY <1>4, <1>5, <1>6, <1>7, <1>8 DEF StartInv, Worker

(* The invariant holds throughout.                                         *)
LEMMA StartInvariant == Spec => []StartInv
<1>1. StartInv /\ [Next]_vars => StartInv'
  BY StartInvByStart, StartInvByWorker DEF Next, Terminated
<1> QED
  BY <1>1, StartInvInit, PTL DEF Spec

-----------------------------------------------------------------------------
(* start() leaves nothing half done: when it reports RUNNING every worker  *)
(* has reached its command loop and its pipe is empty, and when it fails   *)
(* no process is left, however spawns, handshakes, deaths and the timeout  *)
(* are ordered, for any number of workers.                                 *)
THEOREM StartLeavesNothing == Spec => []StartIsClean
<1>1. StartInv => StartIsClean
  <2> SUFFICES ASSUME StartInv PROVE StartIsClean
    OBVIOUS
  <2>1. ASSUME state = "running", NEW w \in Worker
        PROVE  wpc[w] \in {"serve", "exit"} /\ pipe[w] = <<>>
    <3>1. handle[w] = "ready"
      BY <2>1 DEF StartInv, RunningInv, AllReady
    <3>2. wpc[w] # "killed"
      BY <2>1 DEF StartInv, PhaseInv
    <3> QED
      BY <2>1, <3>1, <3>2 DEF StartInv, SaidBy, Exited
  <2> QED
    BY <2>1 DEF StartIsClean, RunningIsClean, StartInv
<1> QED
  BY <1>1, StartInvariant, PTL

(* What start() knows of a dead worker it has to read about: it can only   *)
(* go on to fail.                                                          *)
Doomed ==
  (\E w \in Worker : ~Alive(w)) /\ pc \in {"read", "abort", "done"} /\ state # "running"

(* From there every step leads to a state of the same kind: nobody revives *)
(* a process, and the sentinels are looked at before the loop goes on.     *)
LEMMA DoomedStays ==
  ASSUME StartInv, Doomed, [Next]_vars
  PROVE  Doomed'
<1>1. PICK d \in Worker : ~Alive(d)
  BY DEF Doomed
<1>2. pc \in {"read", "abort", "done"} /\ state # "running" /\ TypeOK
  BY DEF Doomed, StartInv
<1>3. ASSUME wpc' = wpc PROVE ~Alive(d)'
  BY <1>1, <1>3 DEF Alive
<1>4. CASE Start \/ Spawn \/ SpawnFails \/ Spawned \/ AwaitExpired \/ Await \/ Launch
  BY <1>2, <1>4 DEF Start, Spawn, SpawnFails, Spawned, AwaitExpired, Await, Launch
<1>5. CASE CheckSentinels
  BY <1>1, <1>2, <1>3, <1>5 DEF CheckSentinels, DeadWorker, Doomed, procVars
<1>6. CASE Abort
  BY <1>1, <1>2, <1>6 DEF Abort, Doomed, Alive
<1>7. CASE Expire \/ UNCHANGED vars
  BY <1>1, <1>2, <1>3, <1>7 DEF Expire, Doomed, procVars, vars
<1>8. ASSUME NEW w \in Worker, Read(w) PROVE Doomed'
  BY <1>1, <1>2, <1>3, <1>8 DEF Read, Doomed
<1>9. ASSUME NEW w \in Worker,
             WorkerHello(w) \/ WorkerReady(w) \/ WorkerRaises(w) \/ WorkerCrashes(w)
      PROVE  Doomed'
  <2>1. Alive(w) /\ UNCHANGED <<state, pc>>
    BY <1>9 DEF WorkerHello, WorkerReady, WorkerRaises, WorkerCrashes, WorkerSays, Alive, Exited
  <2>2. wpc'[d] = wpc[d]
    BY <1>1, <1>2, <1>9, <2>1
    DEF WorkerHello, WorkerReady, WorkerRaises, WorkerCrashes, WorkerSays, TypeOK
  <2> QED
    BY <1>1, <1>2, <2>1, <2>2 DEF Doomed, Alive
<1> QED
  BY <1>4, <1>5, <1>6, <1>7, <1>8, <1>9 DEF Next, Starting, Terminated

(* A worker that is dead while start() still reads messages, the last      *)
(* READY among them, keeps it from ever reporting RUNNING, although wait() *)
(* reported only what was dead before.                                     *)
THEOREM DeathNeverMissed == Spec => DeathIsNoticed
<1>1. StartInv /\ pc = "read" /\ (\E w \in Worker : ~Alive(w)) => Doomed
  BY DEF StartInv, PhaseInv, Doomed
<1>2. StartInv /\ Doomed /\ [Next]_vars => Doomed'
  BY DoomedStays
<1>3. Doomed => state # "running"
  BY DEF Doomed
<1> QED
  BY <1>1, <1>2, <1>3, StartInvariant, PTL DEF Spec, DeathIsNoticed

-----------------------------------------------------------------------------
(* Arithmetic.                                                             *)

(* Division and remainder by what they are. *)
LEMMA DivIs ==
  ASSUME NEW a \in Nat, NEW b \in Nat, b > 0, NEW q \in Nat, NEW r \in Nat, r < b, a = b * q + r
  PROVE  a \div b = q /\ a % b = r
OBVIOUS

(* Division and remainder give back the number. *)
LEMMA DivMod ==
  ASSUME NEW a \in Nat, NEW b \in Nat, b > 0
  PROVE  a \div b \in Nat /\ a % b \in Nat /\ a % b < b /\ a = b * (a \div b) + (a % b)
OBVIOUS

(* A multiple divided. *)
LEMMA DivMultiple ==
  ASSUME NEW b \in Nat, b > 0, NEW q \in Nat
  PROVE  (b * q) \div b = q /\ (q * b) \div b = q /\ (b * q) % b = 0 /\ (q * b) % b = 0
<1>1. b * q \in Nat /\ b * q = b * q + 0 /\ q * b = b * q
  OBVIOUS
<1> QED
  BY <1>1, DivIs

(* Products are monotone. *)
LEMMA TimesMonotone ==
  ASSUME NEW a \in Nat, NEW b \in Nat, NEW c \in Nat, a <= b
  PROVE  a * c <= b * c
OBVIOUS

(* Products of naturals are naturals, and of positive ones positive. *)
LEMMA TimesNat ==
  ASSUME NEW a \in Nat, NEW b \in Nat
  PROVE  a * b \in Nat /\ (a > 0 /\ b > 0 => a * b > 0)
OBVIOUS

(* A common factor cancels. *)
LEMMA Cancel ==
  ASSUME NEW a \in Nat, NEW b \in Nat, NEW c \in Nat, c > 0, a * c = b * c
  PROVE  a = b
OBVIOUS

(* A common summand cancels. *)
LEMMA CancelSum ==
  ASSUME NEW a \in Nat, NEW b \in Nat, NEW u \in Nat, a + u + u = b + u + u
  PROVE  a = b
OBVIOUS

(* Numbers of blocks and places, regrouped. *)
LEMMA Regroup ==
  ASSUME NEW a \in Nat, NEW b \in Nat, NEW c \in Nat, NEW d \in Nat
  PROVE  /\ (c * a + b) * d = (d * c) * a + b * d
         /\ d * (b * c) + (c * a) = c * (d * b + a)
OBVIOUS

(* Place j of block i is inside the first n blocks of size c. *)
LEMMA InBlock ==
  ASSUME NEW i \in Nat, NEW n \in Nat, i < n, NEW c \in Nat, NEW j \in Nat, j < c
  PROVE  i * c + j < n * c
<1>1. (i + 1) * c <= n * c
  BY TimesMonotone
<1>2. (i + 1) * c = i * c + c
  OBVIOUS
<1>3. i * c \in Nat /\ n * c \in Nat /\ (i + 1) * c \in Nat
  OBVIOUS
<1> QED
  BY <1>1, <1>2, <1>3

(* The larger and the smaller of two numbers. *)
LEMMA MaxMin ==
  ASSUME NEW a \in Int, NEW b \in Int
  PROVE  /\ Max({a, b}) = IF a <= b THEN b ELSE a
         /\ Min({a, b}) = IF a <= b THEN a ELSE b
BY DEF Max, Min

(* The sums of at most three numbers. *)
LEMMA SumOfThree ==
  ASSUME NEW s, NEW p \in 0..3, \A i \in 1..p : s[i] \in Int
  PROVE  SumTo(s, p) = (IF p >= 1 THEN s[1] ELSE 0) + (IF p >= 2 THEN s[2] ELSE 0)
                         + (IF p >= 3 THEN s[3] ELSE 0)
<1> DEFINE sum[i \in 0..p] == IF i = 0 THEN 0 ELSE sum[i - 1] + s[i]
<1>1. SumTo(s, p) = sum[p]
  BY DEF SumTo
<1>2. \E f : f = [i \in 0..p |-> IF i = 0 THEN 0 ELSE f[i - 1] + s[i]]
  <2> DEFINE g == [i \in 0..p |-> (IF i >= 1 THEN s[1] ELSE 0) + (IF i >= 2 THEN s[2] ELSE 0)
                                   + (IF i >= 3 THEN s[3] ELSE 0)]
             h == [i \in 0..p |-> IF i = 0 THEN 0 ELSE g[i - 1] + s[i]]
  <2>1. ASSUME NEW i \in 0..p PROVE g[i] = h[i]
    <3>1. i \in 0..3 /\ i <= p
      OBVIOUS
    <3>2. CASE i = 0
      BY <3>2
    <3>3. CASE i = 1
      BY <3>3
    <3>4. CASE i = 2
      <4>1. s[1] \in Int /\ s[2] \in Int /\ 1 \in 0..p
        BY <3>4
      <4> QED
        BY <3>4, <4>1
    <3>5. CASE i = 3
      <4>1. s[1] \in Int /\ s[2] \in Int /\ s[3] \in Int /\ 2 \in 0..p
        BY <3>5
      <4> QED
        BY <3>5, <4>1
    <3> QED
      BY <3>1, <3>2, <3>3, <3>4, <3>5
  <2>2. g = [i \in 0..p |-> g[i]] /\ h = [i \in 0..p |-> h[i]]
    OBVIOUS
  <2> HIDE DEF g
  <2>3. g = h
    <3> HIDE DEF h
    <3> QED
      BY <2>1, <2>2
  <2> QED
    BY <2>3
<1>3. sum = [i \in 0..p |-> IF i = 0 THEN 0 ELSE sum[i - 1] + s[i]]
  BY <1>2
<1> HIDE DEF sum
<1>4. sum[0] = 0
  BY <1>3
<1>5. p >= 1 => sum[1] = s[1]
  BY <1>3, <1>4
<1>6. p >= 2 => sum[2] = s[1] + s[2]
  BY <1>3, <1>5
<1>7. p >= 3 => sum[3] = s[1] + s[2] + s[3]
  BY <1>3, <1>6
<1> QED
  BY <1>1, <1>4, <1>5, <1>6, <1>7

-----------------------------------------------------------------------------
(* Loaders.                                                                *)

(* An entry of a slice of a sequence. *)
LEMMA EntryOfSlice ==
  ASSUME NEW S, NEW t \in Seq(S), NEW start \in Nat, NEW size \in Nat, start + size <= Len(t),
         NEW i \in 1..size
  PROVE  SubSeq(t, start + 1, start + size)[i] = t[start + 1 + i - 1]
<1> DEFINE m == start + 1
           e == start + size
<1>1. m \in Int /\ e \in Int /\ i \in 1..(e - m + 1)
  OBVIOUS
<1>2. \A j \in m..e : t[j] \in S
  BY ElementOfSeq
<1> HIDE DEF m, e
<1>3. \A j \in 1..(e - m + 1) : SubSeq(t, m, e)[j] = t[m + j - 1]
  BY <1>1, <1>2, SubSeqProperties
<1>4. SubSeq(t, m, e)[i] = t[m + i - 1]
  BY <1>1, <1>3
<1> QED
  BY <1>4 DEF m, e

(* A row of a slice of a checkpoint tensor. *)
LEMMA NarrowIs ==
  ASSUME NEW name, NEW n \in Nat, NEW start \in Nat, NEW size \in Nat, start + size <= n,
         NEW i \in 1..size
  PROVE  Narrow(Tensor(name, n), start, size)[i] = <<name, start + i - 1>>
<1> DEFINE t == Tensor(name, n)
<1>1. t \in Seq({name} \X Int) /\ Len(t) = n
  <2>1. t = [j \in 1..n |-> <<name, j - 1>>]
    BY DEF Tensor
  <2>2. \A j \in 1..n : <<name, j - 1>> \in {name} \X Int
    OBVIOUS
  <2> HIDE DEF t
  <2> QED
    BY <2>1, <2>2
<1>2. start + i \in 1..n /\ t[start + i] = <<name, start + i - 1>>
  BY DEF Tensor
<1> HIDE DEF t
<1>3. SubSeq(t, start + 1, start + size)[i] = t[start + 1 + i - 1]
  BY <1>1, EntryOfSlice
<1>4. start + 1 + i - 1 = start + i
  OBVIOUS
<1> QED
  BY <1>2, <1>3, <1>4 DEF Narrow, t

(* Of slots parts that factor ranks share each, a rank loads part slot. *)
Loads(rank, tp, factor, slot, slots) ==
  /\ slot \in Nat /\ slots \in Nat /\ slot < slots
  /\ slot = ShardOf(rank, tp, factor) /\ slots = tp \div factor

(* Leg l, and no other, writes place i of a parameter of this size, from   *)
(* part slot.                                                              *)
Writes(l, legs, i) == {m \in legs : i - m.offset \in 1..m.size} = {l}
WritesFrom(l, legs, i, size, rank, tp, slot, slots) ==
  /\ Writes(l, legs, i) /\ Loads(rank, tp, l.factor, slot, slots)
  /\ size \in Nat /\ i \in 1..size /\ l.offset \in Nat /\ l.size \in Nat

(* The row of its checkpoint tensor that a leg writes there. *)
Row(l, i, slot) == <<l.name, slot * l.size + (i - l.offset) - 1>>

(* fused() at a place that one leg writes. *)
LEMMA FusedIs ==
  ASSUME NEW l, NEW legs, NEW i, NEW size, NEW rank, NEW tp, NEW slot, NEW slots,
         WritesFrom(l, legs, i, size, rank, tp, slot, slots)
  PROVE  Fused(legs, size, rank, tp)[i] = {Row(l, i, slot)}
<1> DEFINE rows(m) == Narrow(Tensor(m.name, m.size * (tp \div m.factor)),
                             ShardOf(rank, tp, m.factor) * m.size, m.size)
<1>1. PICK n \in Nat, j \in Int : n = l.size /\ j = i - l.offset
  BY DEF WritesFrom
<1> DEFINE start == slot * n
           all == n * slots
<1>2. Fused(legs, size, rank, tp)[i] = {rows(m)[i - m.offset] : m \in {o \in legs : i - o.offset \in 1..o.size}}
  BY DEF Fused, WritesFrom
<1>3. Fused(legs, size, rank, tp)[i] = {rows(l)[j]}
  <2> HIDE DEF rows
  <2> QED
    BY <1>1, <1>2 DEF Writes, WritesFrom
<1>4. rows(l) = Narrow(Tensor(l.name, all), start, n)
  BY <1>1 DEF Loads, WritesFrom
<1>5. start + n <= all
  <2>1. (slot + 1) * n <= slots * n
    BY TimesMonotone DEF Loads, WritesFrom
  <2>2. (slot + 1) * n = slot * n + n /\ slots * n = n * slots
    BY DEF Loads, WritesFrom
  <2> QED
    BY <2>1, <2>2 DEF Loads, WritesFrom
<1>6. all \in Nat /\ start \in Nat
  BY TimesNat DEF Loads, WritesFrom
<1> HIDE DEF rows, start, all
<1>7. j \in 1..n
  BY <1>1 DEF Writes, WritesFrom
<1>8. rows(l)[j] = <<l.name, start + j - 1>>
  BY <1>4, <1>5, <1>6, <1>7, NarrowIs
<1> QED
  BY <1>1, <1>3, <1>8 DEF start, Row

(* sharded(), of a tensor that is cut into as many parts as there are      *)
(* ranks.                                                                  *)
Cell(name, rank, size, i) == <<name, rank * size + i - 1>>
ShardFrom(n, size, tp, rank, i) ==
  /\ size \in Nat /\ tp \in Nat /\ tp > 0 /\ rank \in 0..(tp - 1)
  /\ n \in Nat /\ n = size * tp /\ i \in 1..size

(* Sharded() gives each rank its own rows of a checkpoint tensor. *)
LEMMA ShardedIs ==
  ASSUME NEW name, NEW n, NEW size, NEW tp, NEW rank, NEW i, ShardFrom(n, size, tp, rank, i)
  PROVE  Sharded(Tensor(name, n), rank, tp, 1)[i] = Cell(name, rank, size, i)
<1> USE DEF ShardFrom, Cell
<1>1. Len(Tensor(name, n)) = n
  BY DEF Tensor
<1>2. tp \div 1 = tp /\ rank \div 1 = rank
  OBVIOUS
<1>3. n \div tp = size
  BY DivMultiple
<1>4. Sharded(Tensor(name, n), rank, tp, 1) = Narrow(Tensor(name, n), rank * size, size)
  BY <1>1, <1>2, <1>3 DEF Sharded, ShardOf
<1>5. rank * size + size <= n
  <2>1. (rank + 1) * size <= tp * size
    BY TimesMonotone
  <2>2. (rank + 1) * size = rank * size + size /\ tp * size = size * tp
    OBVIOUS
  <2> QED
    BY <2>1, <2>2
<1>6. rank * size \in Nat
  BY TimesNat
<1>7. Narrow(Tensor(name, n), rank * size, size)[i] = <<name, rank * size + i - 1>>
  BY <1>5, <1>6, NarrowIs
<1> QED
  BY <1>4, <1>7

-----------------------------------------------------------------------------
(* Attention.                                                              *)

Positive == Nat \ {0}

(* Query heads divide evenly over ranks, and key heads are either          *)
(* replicated on r ranks each or kl of them are on each rank, for c query  *)
(* heads each.                                                             *)
Divided(tp, heads, kv, ql, kl, f) ==
  /\ tp \in Positive /\ heads \in Positive /\ kv \in Positive
  /\ ql \in Positive /\ kl \in Positive /\ f \in Positive /\ heads = ql * tp
  /\ \/ \E r \in Positive : tp = kv * r /\ f = r /\ kl = 1 /\ tp \div f = kv
     \/ \E c \in Positive : kv = tp * kl /\ f = 1 /\ ql = kl * c /\ tp \div f = tp

(* What the checks of the constructors mean for the numbers of heads. *)
LEMMA HeadNumbers ==
  ASSUME NEW tp \in Positive, NEW heads \in Positive, NEW kv \in Positive, NEW dim \in Positive,
         NEW ql, ql = heads \div tp,
         NEW kl, kl = IF 1 <= kv \div tp THEN kv \div tp ELSE 1,
         NEW e, e = IF tp >= kv THEN tp ELSE kv,
         NEW f, f = IF tp >= kv THEN tp \div kv ELSE 1,
         NEW q1, q1 = (heads * dim) \div tp, NEW k1, k1 = (e * dim) \div tp,
         IF tp >= kv THEN tp % kv = 0 ELSE kv % tp = 0,
         (heads * dim) % tp = 0, ql % kl = 0,
         (ql + 2 * kl) * dim = q1 + k1 + k1
  PROVE  Divided(tp, heads, kv, ql, kl, f) /\ q1 = ql * dim /\ k1 = kl * dim
<1>1. ql \in Nat /\ heads = tp * ql + (heads % tp) /\ heads % tp \in Nat
  BY DivMod DEF Positive
<1>2. kl \in Nat /\ k1 = kl * dim /\ kl > 0
      /\ \/ \E r \in Positive : tp = kv * r /\ f = r /\ kl = 1 /\ tp \div f = kv
         \/ kv = tp * kl /\ f = 1 /\ tp \div f = tp
  <2>1. CASE tp >= kv
    <3>1. PICK r \in Nat : r = tp \div kv /\ tp = kv * r
      BY <2>1, DivMod DEF Positive
    <3>2. r > 0
      BY <3>1 DEF Positive
    <3>3. tp \div r = kv
      BY <3>1, <3>2, DivMultiple DEF Positive
    <3>4. kl = 1
      <4>1. CASE tp = kv
        <5>1. kv \div tp = 1
          BY <4>1, DivIs DEF Positive
        <5> QED
          BY <5>1
      <4>2. CASE tp > kv
        <5>1. kv \div tp = 0
          BY <4>2, DivIs DEF Positive
        <5> QED
          BY <5>1
      <4> QED
        BY <2>1, <4>1, <4>2 DEF Positive
    <3>5. k1 = dim
      BY <2>1, DivMultiple DEF Positive
    <3>6. dim = 1 * dim /\ f = r /\ r \in Positive
      BY <2>1, <3>1, <3>2 DEF Positive
    <3> QED
      BY <3>1, <3>3, <3>4, <3>5, <3>6
  <2>2. CASE ~(tp >= kv)
    <3>1. PICK m \in Nat : m = kv \div tp /\ kv = tp * m
      BY <2>2, DivMod DEF Positive
    <3>2. m > 0
      BY <3>1 DEF Positive
    <3>3. kl = m
      BY <3>1, <3>2
    <3>4. e * dim = tp * (m * dim) /\ m * dim \in Nat
      BY <2>2, <3>1 DEF Positive
    <3>5. k1 = m * dim
      BY <3>4, DivMultiple DEF Positive
    <3>6. tp \div 1 = tp
      BY DEF Positive
    <3> QED
      BY <2>2, <3>1, <3>2, <3>3, <3>5, <3>6
  <2> QED
    BY <2>1, <2>2
<1>3. q1 = ql * dim
  <2>1. q1 \in Nat
    BY DivMod, TimesNat DEF Positive
  <2>2. (ql + 2 * kl) * dim = ql * dim + kl * dim + kl * dim
    BY <1>1, <1>2 DEF Positive
  <2>3. PICK u \in Nat : u = kl * dim
    BY <1>2, TimesNat DEF Positive
  <2>4. PICK v \in Nat : v = ql * dim
    BY <1>1, TimesNat DEF Positive
  <2>5. q1 + u + u = v + u + u
    BY <1>2, <2>2, <2>3, <2>4
  <2>6. q1 = v
    BY <2>1, <2>5, CancelSum
  <2> QED
    BY <2>4, <2>6
<1>4. heads = ql * tp
  <2>1. heads * dim = tp * q1
    BY DivMod, TimesNat DEF Positive
  <2>2. tp * q1 = (ql * tp) * dim
    BY <1>1, <1>3 DEF Positive
  <2>3. ql * tp \in Nat /\ heads \in Nat /\ dim \in Nat /\ dim > 0
    BY <1>1, TimesNat DEF Positive
  <2> QED
    BY <2>1, <2>2, <2>3, Cancel
<1>5. ql > 0
  BY <1>1, <1>4 DEF Positive
<1>6. \E c \in Positive : ql = kl * c
  <2>1. kl \in Nat /\ kl > 0
    BY <1>2
  <2>2. ql \div kl \in Nat /\ ql = kl * (ql \div kl) + (ql % kl)
    BY <1>1, <2>1, DivMod
  <2>3. PICK c \in Nat : ql = kl * c
    BY <2>1, <2>2
  <2>4. c \in Positive
    BY <1>5, <2>1, <2>3 DEF Positive
  <2> QED
    BY <2>3, <2>4
<1>7. ql \in Positive /\ kl \in Positive /\ f \in Positive
  BY <1>1, <1>2, <1>5 DEF Positive
<1> QED
  BY <1>2, <1>3, <1>4, <1>6, <1>7 DEF Divided

(* The group of query heads that a query head belongs to, in the whole     *)
(* model, is the slot of its rank's keys and the place among them.         *)
LEMMA HeadGroup ==
  ASSUME NEW tp, NEW heads, NEW kv, NEW ql, NEW kl, NEW f, Divided(tp, heads, kv, ql, kl, f),
         NEW rank \in 0..(tp - 1), NEW j \in 0..(ql - 1)
  PROVE  /\ heads % kv = 0
         /\ rank \div f \in Nat /\ rank \div f < tp \div f
         /\ j \div (ql \div kl) \in 0..(kl - 1)
         /\ (rank * ql + j) \div (heads \div kv) = (rank \div f) * kl + (j \div (ql \div kl))
<1> /\ tp \in Positive /\ heads \in Positive /\ kv \in Positive
    /\ ql \in Positive /\ kl \in Positive /\ f \in Positive /\ heads = ql * tp
  BY DEF Divided
<1>1. CASE \E r \in Positive : tp = kv * r /\ f = r /\ kl = 1 /\ tp \div f = kv
  <2>1. PICK r \in Positive : tp = kv * r /\ f = r /\ kl = 1 /\ tp \div f = kv
    BY <1>1
  <2>2. heads = kv * (ql * r) /\ ql * r \in Nat /\ ql * r > 0
    BY <2>1 DEF Positive
  <2>3. heads % kv = 0 /\ heads \div kv = ql * r
    <3>1. PICK n \in Nat : n = ql * r
      BY <2>2
    <3>2. (kv * n) % kv = 0 /\ (kv * n) \div kv = n
      BY DivMultiple DEF Positive
    <3> QED
      BY <2>2, <3>1, <3>2
  <2>4. PICK a, b \in Nat : a = rank \div r /\ rank = r * a + b /\ b < r
    <3>1. rank \in Nat /\ r \in Nat /\ r > 0
      BY DEF Positive
    <3> QED
      BY <3>1, DivMod
  <2>5. a < kv
    <3>1. CASE a >= kv
      <4>1. kv * r <= a * r
        BY <3>1, TimesMonotone DEF Positive
      <4>2. a * r = r * a
        BY DEF Positive
      <4> QED
        BY <2>1, <2>4, <4>1, <4>2 DEF Positive
    <3> QED
      BY <3>1 DEF Positive
  <2>6. ql \div kl = ql /\ j \div ql = 0
    <3>1. ql \div 1 = ql
      BY DEF Positive
    <3>2. j \in Nat /\ j < ql /\ j = ql * 0 + j
      BY DEF Positive
    <3> QED
      BY <2>1, <3>1, <3>2, DivIs DEF Positive
  <2>7. (rank * ql + j) \div (ql * r) = a
    <3>1. b * ql + j < r * ql
      BY <2>4, InBlock DEF Positive
    <3>2. rank * ql + j = (ql * r) * a + (b * ql + j) /\ r * ql = ql * r
      <4>1. rank * ql = (ql * r) * a + b * ql
        <5>1. a \in Nat /\ b \in Nat /\ r \in Nat /\ ql \in Nat
          BY <2>4 DEF Positive
        <5>2. (r * a + b) * ql = (ql * r) * a + b * ql
          BY <5>1, Regroup
        <5>3. rank = r * a + b
          BY <2>4
        <5> QED
          BY <5>2, <5>3
      <4>2. b * ql \in Nat /\ (ql * r) * a \in Nat /\ j \in Nat
        BY <2>2, <2>4, TimesNat DEF Positive
      <4>3. r * ql = ql * r
        BY DEF Positive
      <4> QED
        BY <4>1, <4>2, <4>3
    <3>3. b * ql + j \in Nat /\ rank * ql + j \in Nat
      BY <2>4, TimesNat DEF Positive
    <3>4. PICK n \in Nat : n = ql * r
      BY <2>2
    <3>5. PICK y \in Nat : y = b * ql + j
      BY <3>3
    <3>6. n > 0 /\ y < n /\ rank * ql + j = n * a + y
      BY <2>2, <3>1, <3>2, <3>4, <3>5
    <3>7. (rank * ql + j) \div n = a
      BY <2>4, <3>3, <3>6, DivIs
    <3> QED
      BY <3>4, <3>7
  <2>8. a * kl + 0 = a
    BY <2>1, <2>4
  <2> QED
    BY <2>1, <2>3, <2>4, <2>5, <2>6, <2>7, <2>8
<1>2. CASE \E c \in Positive : kv = tp * kl /\ f = 1 /\ ql = kl * c /\ tp \div f = tp
  <2>1. PICK c \in Positive : kv = tp * kl /\ f = 1 /\ ql = kl * c /\ tp \div f = tp
    BY <1>2
  <2>2. heads = kv * c
    BY <2>1 DEF Positive
  <2>3. heads % kv = 0 /\ heads \div kv = c
    BY <2>2, DivMultiple DEF Positive
  <2>4. rank \div 1 = rank /\ ql \div kl = c
    BY <2>1, DivMultiple DEF Positive
  <2>5. PICK a, b \in Nat : a = j \div c /\ j = c * a + b /\ b < c
    <3>1. j \in Nat /\ c \in Nat /\ c > 0
      BY DEF Positive
    <3> QED
      BY <3>1, DivMod
  <2>6. a < kl
    <3>1. CASE a >= kl
      <4>1. kl * c <= a * c
        BY <3>1, TimesMonotone DEF Positive
      <4>2. a * c = c * a
        BY DEF Positive
      <4> QED
        BY <2>1, <2>5, <4>1, <4>2 DEF Positive
    <3> QED
      BY <3>1 DEF Positive
  <2>7. (rank * ql + j) \div c = rank * kl + a
    <3>1. rank * ql + c * a = c * (rank * kl + a)
      <4>1. a \in Nat /\ kl \in Nat /\ c \in Nat /\ rank \in Nat
        BY <2>5 DEF Positive
      <4>2. rank * (kl * c) + c * a = c * (rank * kl + a)
        BY <4>1, Regroup
      <4> QED
        BY <2>1, <4>2
    <3>2. rank * ql \in Nat /\ rank * ql + j \in Nat /\ rank * kl + a \in Nat /\ c * a \in Nat
      BY <2>5, TimesNat DEF Positive
    <3>3. PICK n \in Nat : n = rank * kl + a
      BY <3>2
    <3>4. rank * ql + j = c * n + b
      BY <2>5, <3>1, <3>2, <3>3
    <3>5. c \in Nat /\ c > 0
      BY DEF Positive
    <3> QED
      BY <2>5, <3>2, <3>3, <3>4, <3>5, DivIs
  <2> QED
    BY <2>1, <2>3, <2>4, <2>5, <2>6, <2>7
<1> QED
  BY <1>1, <1>2 DEF Divided

AnyLayer ==
  [tp : Positive, heads : Positive, kv : Positive, dim : Positive, width : Positive,
   vocab : Positive, multiple : Positive]

(* Three legs one after the other. *)
QkvOf(q1, k1, f) == {Leg("q", 0, q1, 1), Leg("k", q1, k1, f), Leg("v", q1 + k1, k1, f)}

(* Each place of the fused projection is written by one leg. *)
LEMMA QkvWriters ==
  ASSUME NEW q1 \in Nat, NEW k1 \in Nat, NEW f \in Nat, NEW i \in Nat
  PROVE  /\ i \in 1..q1 => Writes(Leg("q", 0, q1, 1), QkvOf(q1, k1, f), i)
         /\ i - q1 \in 1..k1 => Writes(Leg("k", q1, k1, f), QkvOf(q1, k1, f), i)
         /\ i - (q1 + k1) \in 1..k1 =>
            Writes(Leg("v", q1 + k1, k1, f), QkvOf(q1, k1, f), i)
<1> DEFINE lq == Leg("q", 0, q1, 1)
           lk == Leg("k", q1, k1, f)
           lv == Leg("v", q1 + k1, k1, f)
<1>1. /\ lq.offset = 0 /\ lq.size = q1 /\ lk.offset = q1 /\ lk.size = k1
      /\ lv.offset = q1 + k1 /\ lv.size = k1
  BY DEF Leg
<1>2. QkvOf(q1, k1, f) = {lq, lk, lv}
  BY DEF QkvOf
<1> HIDE DEF lq, lk, lv
<1>3. i \in 1..q1 => Writes(lq, {lq, lk, lv}, i)
  BY <1>1 DEF Writes
<1>4. i - q1 \in 1..k1 => Writes(lk, {lq, lk, lv}, i)
  BY <1>1 DEF Writes
<1>5. i - (q1 + k1) \in 1..k1 => Writes(lv, {lq, lk, lv}, i)
  BY <1>1 DEF Writes
<1> QED
  BY <1>2, <1>3, <1>4, <1>5 DEF lq, lk, lv

(* The rows of the fused projection that legs of sizes q1, k1 and k1 one   *)
(* after the other write.                                                  *)
QkvFrom(fused, i, q1, k1, f, tp, rank, size, slot, slots) ==
  /\ fused = Fused(QkvOf(q1, k1, f), size, rank, tp) /\ i \in Nat
  /\ q1 \in Nat /\ k1 \in Nat /\ f \in Nat /\ tp \in Nat /\ rank \in Nat /\ slot \in Nat
  /\ size \in Nat /\ size = q1 + k1 + k1
  /\ Loads(rank, tp, 1, rank, tp) /\ Loads(rank, tp, f, slot, slots)

(* The q, k and v rows of a fused shard are those of its rank and its slot. *)
LEMMA QkvRows ==
  ASSUME NEW fused, NEW i, NEW q1, NEW k1, NEW f, NEW tp, NEW rank, NEW size, NEW slot, NEW slots,
         QkvFrom(fused, i, q1, k1, f, tp, rank, size, slot, slots)
  PROVE  /\ i \in 1..q1 => fused[i] = {<<"q", rank * q1 + (i - 0) - 1>>}
         /\ i - q1 \in 1..k1 => fused[i] = {<<"k", slot * k1 + (i - q1) - 1>>}
         /\ i - (q1 + k1) \in 1..k1 => fused[i] = {<<"v", slot * k1 + (i - (q1 + k1)) - 1>>}
<1> USE DEF QkvFrom
<1>1. ASSUME i \in 1..q1 PROVE fused[i] = {<<"q", rank * q1 + (i - 0) - 1>>}
  <2>1. i \in 1..size
    BY <1>1
  <2>2. PICK l : l = Leg("q", 0, q1, 1) /\ Writes(l, QkvOf(q1, k1, f), i)
    BY <1>1, QkvWriters
  <2>3. l.name = "q" /\ l.offset = 0 /\ l.size = q1 /\ l.factor = 1
    BY <2>2 DEF Leg
  <2>4. fused[i] = {Row(l, i, rank)}
    <3>1. WritesFrom(l, QkvOf(q1, k1, f), i, size, rank, tp, rank, tp)
      BY <2>1, <2>2, <2>3 DEF WritesFrom
    <3> QED
      BY <3>1, FusedIs
  <2> QED
    BY <2>3, <2>4 DEF Row
<1>2. ASSUME i - q1 \in 1..k1 PROVE fused[i] = {<<"k", slot * k1 + (i - q1) - 1>>}
  <2>1. i \in 1..size
    BY <1>2
  <2>2. PICK l : l = Leg("k", q1, k1, f) /\ Writes(l, QkvOf(q1, k1, f), i)
    BY <1>2, QkvWriters
  <2>3. l.name = "k" /\ l.offset = q1 /\ l.size = k1 /\ l.factor = f
    BY <2>2 DEF Leg
  <2>4. fused[i] = {Row(l, i, slot)}
    <3>1. WritesFrom(l, QkvOf(q1, k1, f), i, size, rank, tp, slot, slots)
      BY <2>1, <2>2, <2>3 DEF WritesFrom
    <3> QED
      BY <3>1, FusedIs
  <2> QED
    BY <2>3, <2>4 DEF Row
<1>3. ASSUME i - (q1 + k1) \in 1..k1
      PROVE  fused[i] = {<<"v", slot * k1 + (i - (q1 + k1)) - 1>>}
  <2>1. i \in 1..size
    BY <1>3
  <2>2. PICK l : l = Leg("v", q1 + k1, k1, f) /\ Writes(l, QkvOf(q1, k1, f), i)
    BY <1>3, QkvWriters
  <2>3. l.name = "v" /\ l.offset = q1 + k1 /\ l.size = k1 /\ l.factor = f
    BY <2>2 DEF Leg
  <2>4. fused[i] = {Row(l, i, slot)}
    <3>1. WritesFrom(l, QkvOf(q1, k1, f), i, size, rank, tp, slot, slots)
      BY <2>1, <2>2, <2>3 DEF WritesFrom
    <3> QED
      BY <3>1, FusedIs
  <2> QED
    BY <2>3, <2>4 DEF Row
<1> QED
  BY <1>1, <1>2, <1>3

(* Place d of block b. *)
LEMMA PlaceInBlock ==
  ASSUME NEW b \in Nat, NEW n \in Nat, b < n, NEW dim \in Positive, NEW d \in 1..dim
  PROVE  b * dim + d \in 1..(n * dim) /\ b * dim \in Nat
<1>1. b * dim + (d - 1) < n * dim
  BY InBlock DEF Positive
<1>2. b * dim \in Nat /\ n * dim \in Nat
  BY TimesNat DEF Positive
<1> QED
  BY <1>1, <1>2

(* Attention heads meet their partners. *)
LEMMA HeadsAlwaysMeet == layer \in AnyLayer => HeadsMeet
<1> SUFFICES ASSUME layer \in AnyLayer, BlockAccepted(layer) PROVE HeadsMeet
  BY DEF HeadsMeet
<1> DEFINE x == layer
<1> DEFINE tp == x.tp
           heads == x.heads
           kv == x.kv
           dim == x.dim
<1> tp \in Positive /\ heads \in Positive /\ kv \in Positive /\ dim \in Positive
  BY DEF AnyLayer
<1> DEFINE ql == QHeads(x)
           kl == KvHeads(x)
           f  == KvReplicas(x)
           e  == EffectiveKv(x)
           q1 == (heads * dim) \div tp
           k1 == (e * dim) \div tp
           sizes == QkvSizes(x)
           local == PerRank(sizes, tp)
<1>2. x.tp = tp /\ x.heads = heads /\ x.kv = kv /\ x.dim = dim
  OBVIOUS
<1> HIDE DEF x, tp, heads, kv, dim
<1>3. /\ ql = heads \div tp /\ e = (IF tp >= kv THEN tp ELSE kv)
      /\ f = (IF tp >= kv THEN tp \div kv ELSE 1)
  BY <1>2 DEF QHeads, EffectiveKv, KvReplicas
<1>4. kl = IF 1 <= kv \div tp THEN kv \div tp ELSE 1
  <2>1. kv \div tp \in Int
    BY DEF Positive
  <2> QED
    BY <1>2, <2>1, MaxMin DEF KvHeads
<1>5. sizes = <<heads * dim, e * dim, e * dim>>
  BY <1>2 DEF QkvSizes
<1>6. /\ DOMAIN sizes = {1, 2, 3} /\ Len(sizes) = 3
      /\ local[1] = q1 /\ local[2] = k1 /\ local[3] = k1
  BY <1>5 DEF PerRank
<1>7. q1 \in Nat /\ k1 \in Nat /\ e \in Nat
  BY <1>3, DivMod, TimesNat DEF Positive
<1> HIDE DEF ql, kl, f, e, sizes, local, q1, k1
<1>8. SumTo(local, 3) = q1 + k1 + k1
  <2>1. \A i \in 1..3 : local[i] \in Int
    <3>1. \A i \in 1..3 : i = 1 \/ i = 2 \/ i = 3
      OBVIOUS
    <3> QED
      BY <1>6, <1>7, <3>1
  <2> QED
    BY <1>6, <2>1, SumOfThree
<1>9. /\ IF tp >= kv THEN tp % kv = 0 ELSE kv % tp = 0
      /\ sizes[1] % tp = 0 /\ ql % kl = 0
      /\ (ql + 2 * kl) * dim = SumTo(local, 3)
  <2>1. BlockAccepted(x)
    BY DEF x
  <2> QED
    BY <1>2, <1>6, <2>1 DEF BlockAccepted, ql, kl, sizes, local
<1>10. Divided(tp, heads, kv, ql, kl, f) /\ q1 = ql * dim /\ k1 = kl * dim
  <2>1. (heads * dim) % tp = 0 /\ (ql + 2 * kl) * dim = q1 + k1 + k1
    BY <1>5, <1>8, <1>9
  <2>2. q1 = (heads * dim) \div tp /\ k1 = (e * dim) \div tp
    BY DEF q1, k1
  <2> QED
    BY <1>3, <1>4, <1>9, <2>1, <2>2, HeadNumbers
<1>11. QkvLegs(x) = QkvOf(q1, k1, f)
  BY <1>2, <1>6 DEF QkvLegs, QkvOf, local, sizes, f
<1>12. /\ tp \in Nat /\ tp > 0 /\ ql \in Nat /\ ql > 0 /\ kl \in Nat /\ kl > 0
       /\ dim \in Nat /\ f \in Nat /\ f > 0 /\ heads = ql * tp
  BY <1>10 DEF Positive, Divided
<1>13. heads % kv = 0
  <2>1. 0 \in 0..(tp - 1) /\ 0 \in 0..(ql - 1)
    BY <1>12
  <2> QED
    BY <1>10, <2>1, HeadGroup
<1>14. ASSUME NEW rank \in 0..(tp - 1), NEW j \in 0..(ql - 1), NEW d \in 1..dim
       PROVE  LET qkv == Fused(QkvLegs(x), (ql + 2 * kl) * dim, rank, tp)
                  out == Sharded(Tensor("o", heads * dim), rank, tp, 1)
                  h == rank * ql + j
                  g == h \div (heads \div kv)
                  m == j \div (ql \div kl)
              IN /\ qkv[j * dim + d] = {<<"q", (h * dim + d) - 1>>}
                 /\ qkv[(ql + m) * dim + d] = {<<"k", (g * dim + d) - 1>>}
                 /\ qkv[(ql + kl + m) * dim + d] = {<<"v", (g * dim + d) - 1>>}
                 /\ out[j * dim + d] = <<"o", (h * dim + d) - 1>>
  <2> DEFINE qkv == Fused(QkvLegs(x), (ql + 2 * kl) * dim, rank, tp)
             out == Sharded(Tensor("o", heads * dim), rank, tp, 1)
             h == rank * ql + j
             g == h \div (heads \div kv)
             m == j \div (ql \div kl)
             slot == rank \div f
             slots == tp \div f
  <2>1. /\ slot \in Nat /\ slot < slots /\ m \in 0..(kl - 1) /\ g = slot * kl + m
    BY <1>10, HeadGroup
  <2>2. slots \in Nat
    BY <1>12
  <2>3. (ql + 2 * kl) * dim = q1 + k1 + k1 /\ (ql + 2 * kl) * dim \in Nat
    BY <1>7, <1>8, <1>9
  <2>4. h \in Nat /\ j \in Nat /\ j < ql /\ rank \in Nat
    BY <1>12, TimesNat
  <2>5. Loads(rank, tp, f, slot, slots) /\ Loads(rank, tp, 1, rank, tp)
    <3>1. rank \div 1 = rank /\ tp \div 1 = tp /\ rank < tp
      BY <1>12, <2>4
    <3> QED
      BY <1>12, <2>1, <2>2, <2>4, <3>1 DEF Loads, ShardOf
  <2> HIDE DEF g, m, slot, slots
  <2>6. m \in Nat /\ m < kl
    BY <1>12, <2>1
  <2>7. j * dim + d \in 1..q1 /\ j * dim \in Nat
    BY <1>10, <1>12, <2>4, PlaceInBlock
  <2>8. m * dim + d \in 1..k1 /\ m * dim \in Nat
    BY <1>10, <1>12, <2>6, PlaceInBlock
  <2>9. qkv = Fused(QkvOf(q1, k1, f), (ql + 2 * kl) * dim, rank, tp)
    BY <1>11
  <2> HIDE DEF qkv, out
  <2>10. \A i \in Nat : QkvFrom(qkv, i, q1, k1, f, tp, rank, (ql + 2 * kl) * dim, slot, slots)
    BY <1>7, <1>12, <2>1, <2>3, <2>4, <2>5, <2>9 DEF QkvFrom
  <2>11. /\ rank * q1 + (j * dim + d) - 1 = h * dim + d - 1
         /\ slot * k1 + (m * dim + d) - 1 = g * dim + d - 1
         /\ (ql + m) * dim + d = q1 + (m * dim + d)
         /\ (ql + kl + m) * dim + d = q1 + k1 + (m * dim + d)
    <3>1. rank * (ql * dim) = (rank * ql) * dim /\ slot * (kl * dim) = (slot * kl) * dim
      BY <1>12, <2>1, <2>4
    <3>2. h * dim = (rank * ql) * dim + j * dim
      BY <1>12, <2>4
    <3>3. g * dim = (slot * kl) * dim + m * dim
      BY <1>12, <2>1, <2>6
    <3>4. (ql + m) * dim = ql * dim + m * dim /\ (ql + kl + m) * dim = ql * dim + kl * dim + m * dim
      BY <1>12, <2>6
    <3>5. /\ (rank * ql) * dim \in Nat /\ (slot * kl) * dim \in Nat
          /\ j * dim \in Nat /\ m * dim \in Nat /\ ql * dim \in Nat /\ kl * dim \in Nat
      BY <1>12, <2>1, <2>4, <2>6, TimesNat
    <3> HIDE DEF h
    <3>6. PICK a, b, u, v, q, k \in Nat :
            /\ a = (rank * ql) * dim /\ b = (slot * kl) * dim /\ u = j * dim /\ v = m * dim
            /\ q = ql * dim /\ k = kl * dim
      BY <3>5
    <3>7. /\ rank * q1 = a /\ slot * k1 = b /\ q1 = q /\ k1 = k
          /\ h * dim = a + u /\ g * dim = b + v
          /\ (ql + m) * dim = q + v /\ (ql + kl + m) * dim = q + k + v
      BY <1>10, <3>1, <3>2, <3>3, <3>4, <3>6
    <3>8. d \in Int
      BY <1>12
    <3>9. a + (u + d) - 1 = a + u + d - 1 /\ b + (v + d) - 1 = b + v + d - 1
          /\ q + v + d = q + (v + d) /\ q + k + v + d = q + k + (v + d)
      BY <3>8
    <3> QED
      BY <3>6, <3>7, <3>9
  <2>12. qkv[j * dim + d] = {<<"q", h * dim + d - 1>>}
    <3>1. PICK i \in Nat : i = j * dim + d
      BY <2>7
    <3>2. qkv[i] = {<<"q", rank * q1 + (i - 0) - 1>>}
      BY <2>7, <2>10, <3>1, QkvRows
    <3>3. rank * q1 + (i - 0) - 1 = h * dim + d - 1
      BY <2>7, <2>11, <3>1
    <3> QED
      BY <3>1, <3>2, <3>3
  <2>13. qkv[(ql + m) * dim + d] = {<<"k", g * dim + d - 1>>}
    <3>1. PICK i \in Nat : i = q1 + (m * dim + d)
      BY <1>7, <2>8
    <3>2. i - q1 \in 1..k1 /\ i - q1 = m * dim + d
      BY <1>7, <2>8, <3>1
    <3>3. qkv[i] = {<<"k", slot * k1 + (i - q1) - 1>>}
      BY <2>10, <3>2, QkvRows
    <3> QED
      BY <2>11, <3>1, <3>2, <3>3
  <2>14. qkv[(ql + kl + m) * dim + d] = {<<"v", g * dim + d - 1>>}
    <3>1. PICK i \in Nat : i = q1 + k1 + (m * dim + d)
      BY <1>7, <2>8
    <3>2. i - (q1 + k1) \in 1..k1 /\ i - (q1 + k1) = m * dim + d
      BY <1>7, <2>8, <3>1
    <3>3. qkv[i] = {<<"v", slot * k1 + (i - (q1 + k1)) - 1>>}
      BY <2>10, <3>2, QkvRows
    <3> QED
      BY <2>11, <3>1, <3>2, <3>3
  <2>15. out[j * dim + d] = <<"o", h * dim + d - 1>>
    <3>1. heads * dim = q1 * tp /\ heads * dim \in Nat
      BY <1>10, <1>12
    <3>2. out[j * dim + d] = <<"o", rank * q1 + (j * dim + d) - 1>>
      <4>1. PICK n, i \in Nat : n = heads * dim /\ i = j * dim + d
        BY <2>7, <3>1
      <4>2. ShardFrom(n, q1, tp, rank, i)
        BY <1>7, <1>12, <2>7, <3>1, <4>1 DEF ShardFrom
      <4>3. Sharded(Tensor("o", n), rank, tp, 1)[i] = Cell("o", rank, q1, i)
        BY <4>2, ShardedIs
      <4> QED
        BY <4>1, <4>3 DEF out, Cell
    <3> QED
      BY <2>11, <3>2
  <2>16. h * dim + d - 1 = (h * dim + d) - 1 /\ g * dim + d - 1 = (g * dim + d) - 1
    <3>1. g \in Nat
      BY <1>12, <2>1, <2>6, TimesNat
    <3>2. h * dim \in Nat /\ g * dim \in Nat /\ d \in Int
      BY <1>12, <2>4, <3>1, TimesNat
    <3> QED
      BY <3>2
  <2> HIDE DEF h
  <2>17. /\ qkv[j * dim + d] = {<<"q", (h * dim + d) - 1>>}
         /\ qkv[(ql + m) * dim + d] = {<<"k", (g * dim + d) - 1>>}
         /\ qkv[(ql + kl + m) * dim + d] = {<<"v", (g * dim + d) - 1>>}
         /\ out[j * dim + d] = <<"o", (h * dim + d) - 1>>
    BY <2>12, <2>13, <2>14, <2>15, <2>16
  <2> QED
    BY <2>17 DEF qkv, out, g, m, h
<1>15. Ranks(x) = 0..(tp - 1)
  BY <1>2 DEF Ranks
<1>16. heads % kv = 0 /\ ql * tp = heads
  BY <1>12, <1>13
<1> DEFINE goal(rank, j, d) ==
             LET qkv == Fused(QkvLegs(x), (ql + 2 * kl) * dim, rank, tp)
                 out == Sharded(Tensor("o", heads * dim), rank, tp, 1)
                 h == rank * ql + j
                 g == h \div (heads \div kv)
                 m == j \div (ql \div kl)
             IN /\ qkv[j * dim + d] = {<<"q", (h * dim + d) - 1>>}
                /\ qkv[(ql + m) * dim + d] = {<<"k", (g * dim + d) - 1>>}
                /\ qkv[(ql + kl + m) * dim + d] = {<<"v", (g * dim + d) - 1>>}
                /\ out[j * dim + d] = <<"o", (h * dim + d) - 1>>
<1>17. ASSUME NEW rank \in Ranks(x), NEW j \in 0..(ql - 1), NEW d \in 1..dim PROVE goal(rank, j, d)
  <2>1. rank \in 0..(tp - 1)
    BY <1>15
  <2> QED
    BY <1>14, <2>1, Zenon
<1> HIDE DEF goal
<1>18. \A rank \in Ranks(x) : \A j \in 0..(ql - 1), d \in 1..dim : goal(rank, j, d)
  BY <1>17
<1> QED
  BY <1>16, <1>18, Zenon DEF goal, HeadsMeet, ql, kl, x, tp, heads, kv, dim

-----------------------------------------------------------------------------
(* The MLP.                                                                *)

(* Each place of the merged projection is written by one leg. *)
LEMMA MergedWriters ==
  ASSUME NEW n \in Nat, NEW i \in Nat, NEW legs, legs = {Leg("gate", 0, n, 1), Leg("up", n, n, 1)}
  PROVE  /\ i \in 1..n => Writes(Leg("gate", 0, n, 1), legs, i)
         /\ i - n \in 1..n => Writes(Leg("up", n, n, 1), legs, i)
<1> DEFINE lg == Leg("gate", 0, n, 1)
           lu == Leg("up", n, n, 1)
<1>1. lg.offset = 0 /\ lg.size = n /\ lu.offset = n /\ lu.size = n
  BY DEF Leg
<1>2. legs = {lg, lu}
  OBVIOUS
<1> HIDE DEF lg, lu
<1>3. i \in 1..n => Writes(lg, {lg, lu}, i)
  BY <1>1 DEF Writes
<1>4. i - n \in 1..n => Writes(lu, {lg, lu}, i)
  BY <1>1 DEF Writes
<1> QED
  BY <1>2, <1>3, <1>4 DEF lg, lu

(* The numbers of a merged projection of width rows, n on each rank. *)
MergedFrom(w, n, tp, rank) ==
  /\ w \in Nat /\ n \in Nat /\ tp \in Nat /\ tp > 0 /\ w = n * tp /\ rank \in 0..(tp - 1)

(* The rows of the merged projection. *)
LEMMA MergedRows ==
  ASSUME NEW w, NEW n, NEW tp, NEW rank, MergedFrom(w, n, tp, rank), NEW legs,
         legs = {Leg("gate", 0, n, 1), Leg("up", n, n, 1)}, NEW i \in 1..n
  PROVE  /\ Fused(legs, 2 * n, rank, tp)[i] = {Cell("gate", rank, n, i)}
         /\ Fused(legs, 2 * n, rank, tp)[n + i] = {Cell("up", rank, n, i)}
<1> USE DEF MergedFrom
<1>1. Loads(rank, tp, 1, rank, tp)
  BY DEF Loads, ShardOf
<1>2. PICK size \in Nat : size = 2 * n
  OBVIOUS
<1>3. Fused(legs, size, rank, tp)[i] = {Cell("gate", rank, n, i)}
  <2>1. PICK l : l = Leg("gate", 0, n, 1)
    OBVIOUS
  <2>2. l.name = "gate" /\ l.offset = 0 /\ l.size = n /\ l.factor = 1
    BY <2>1 DEF Leg
  <2>3. Writes(l, legs, i)
    <3>1. i \in Nat
      OBVIOUS
    <3> QED
      BY <2>1, <3>1, MergedWriters
  <2>4. WritesFrom(l, legs, i, size, rank, tp, rank, tp)
    BY <1>1, <1>2, <2>2, <2>3 DEF WritesFrom
  <2>5. Fused(legs, size, rank, tp)[i] = {Row(l, i, rank)}
    BY <2>4, FusedIs
  <2>6. Row(l, i, rank) = Cell("gate", rank, n, i)
    BY <2>2 DEF Row, Cell
  <2> QED
    BY <2>5, <2>6
<1>4. Fused(legs, size, rank, tp)[n + i] = {Cell("up", rank, n, i)}
  <2>1. PICK l : l = Leg("up", n, n, 1)
    OBVIOUS
  <2>2. l.name = "up" /\ l.offset = n /\ l.size = n /\ l.factor = 1
    BY <2>1 DEF Leg
  <2>3. PICK p \in Nat : p = n + i /\ p - n \in 1..n /\ p - n = i
    OBVIOUS
  <2>4. Writes(l, legs, p)
    BY <2>1, <2>3, MergedWriters
  <2>5. WritesFrom(l, legs, p, size, rank, tp, rank, tp)
    BY <1>1, <1>2, <2>2, <2>3, <2>4 DEF WritesFrom
  <2>6. Fused(legs, size, rank, tp)[p] = {Row(l, p, rank)}
    BY <2>5, FusedIs
  <2>7. Row(l, p, rank) = Cell("up", rank, n, i)
    BY <2>2, <2>3 DEF Row, Cell
  <2> QED
    BY <2>3, <2>6, <2>7
<1> QED
  BY <1>2, <1>3, <1>4

(* A row of a slice of two checkpoint tensors in one. *)
SliceFrom(t, w, start, size, i) ==
  /\ t = Tensor("gate", w) \o Tensor("up", w)
  /\ w \in Nat /\ start \in Nat /\ size \in Nat /\ i \in 1..size /\ start + size <= w

(* narrow() finds the gate rows, and the up rows w further down. *)
LEMMA NarrowOfTwo ==
  ASSUME NEW t, NEW w, NEW start, NEW size, NEW i, SliceFrom(t, w, start, size, i)
  PROVE  /\ Narrow(t, start, size)[i] = <<"gate", start + i - 1>>
         /\ Narrow(t, w + start, size)[i] = <<"up", start + i - 1>>
<1> w \in Nat /\ start \in Nat /\ size \in Nat /\ i \in 1..size /\ start + size <= w
  BY DEF SliceFrom
<1> DEFINE a == Tensor("gate", w)
           b == Tensor("up", w)
           S == {"gate", "up"} \X Int
<1>1. a \in Seq(S) /\ Len(a) = w /\ \A k \in 1..w : a[k] = <<"gate", k - 1>>
  BY DEF Tensor
<1>2. b \in Seq(S) /\ Len(b) = w /\ \A k \in 1..w : b[k] = <<"up", k - 1>>
  BY DEF Tensor
<1>3. t = a \o b
  BY DEF SliceFrom
<1> HIDE DEF a, b, S
<1>4. /\ t \in Seq(S) /\ Len(t) = w + w
      /\ \A k \in 1..(w + w) : t[k] = IF k <= w THEN a[k] ELSE b[k - w]
  <2>1. /\ a \o b \in Seq(S) /\ Len(a \o b) = Len(a) + Len(b)
        /\ \A k \in 1..(Len(a) + Len(b)) :
             (a \o b)[k] = IF k <= Len(a) THEN a[k] ELSE b[k - Len(a)]
    BY <1>1, <1>2, ConcatProperties, Zenon
  <2> QED
    BY <1>1, <1>2, <1>3, <2>1, Zenon
<1>5. \A k \in 1..w : t[k] = <<"gate", k - 1>>
  BY <1>1, <1>4
<1>6. \A k \in 1..w : t[w + k] = <<"up", k - 1>>
  <2> TAKE k \in 1..w
  <2>1. t[w + k] = b[(w + k) - w]
    BY <1>4
  <2>2. (w + k) - w = k
    OBVIOUS
  <2> QED
    BY <1>2, <2>1, <2>2
<1>7. Narrow(t, start, size)[i] = <<"gate", start + i - 1>>
  <2>1. SubSeq(t, start + 1, start + size)[i] = t[start + 1 + i - 1]
    BY <1>4
  <2>2. PICK k \in 1..w : k = start + i
    OBVIOUS
  <2>3. start + 1 + i - 1 = k /\ k - 1 = start + i - 1
    BY <2>2
  <2> QED
    BY <1>5, <2>1, <2>3 DEF Narrow
<1>8. Narrow(t, w + start, size)[i] = <<"up", start + i - 1>>
  <2>1. SubSeq(t, (w + start) + 1, (w + start) + size)[i] = t[(w + start) + 1 + i - 1]
    BY <1>4
  <2>2. PICK k \in 1..w : k = start + i
    OBVIOUS
  <2>3. (w + start) + 1 + i - 1 = w + k /\ k - 1 = start + i - 1
    BY <2>2
  <2> QED
    BY <1>6, <2>1, <2>3 DEF Narrow
<1> QED
  BY <1>7, <1>8

(* packed_sharded() of gate and up: what each place of the parameter gets. *)
LEMMA PackedRows ==
  ASSUME NEW w, NEW n, NEW tp, NEW rank, MergedFrom(w, n, tp, rank), NEW packed,
         packed = PackedSharded(Tensor("gate", w) \o Tensor("up", w), <<w, w>>, rank, tp)
  PROVE  /\ DOMAIN packed = 1..(2 * n)
         /\ \A i \in 1..n : /\ packed[i] = {Cell("gate", rank, n, i)}
                            /\ packed[n + i] = {Cell("up", rank, n, i)}
<1> DEFINE sizes == <<w, w>>
           local == PerRank(sizes, tp)
           t == Tensor("gate", w) \o Tensor("up", w)
           at(p) == SumTo(local, p - 1)
           rows(p) == Narrow(t, PackedOffset(sizes, p, tp) + rank * local[p], local[p])
           at_(i) == {o \in DOMAIN sizes : i - at(o) \in 1..local[o]}
<1>1. /\ w \in Nat /\ n \in Nat /\ tp \in Nat /\ tp > 0 /\ w = n * tp /\ rank \in Nat /\ rank < tp
  BY DEF MergedFrom
<1>2. w \div tp = n
  BY <1>1, DivMultiple
<1>3. /\ DOMAIN sizes = {1, 2} /\ Len(sizes) = 2 /\ sizes[1] = w /\ sizes[2] = w
      /\ local[1] = n /\ local[2] = n
  BY <1>2 DEF PerRank
<1>4. packed = [i \in 1..SumTo(local, Len(sizes)) |-> {rows(p)[i - at(p)] : p \in at_(i)}]
  BY DEF PackedSharded
<1> HIDE DEF sizes, local, t
<1>5. /\ SumTo(local, 0) = 0 /\ SumTo(local, 1) = n /\ SumTo(local, 2) = n + n
      /\ SumTo(sizes, 0) = 0 /\ SumTo(sizes, 1) = w
  <2>1. \A i \in 1..2 : local[i] \in Int /\ sizes[i] \in Int
    <3>1. \A i \in 1..2 : i = 1 \/ i = 2
      OBVIOUS
    <3> QED
      BY <1>1, <1>3, <3>1
  <2>2. 0 \in 0..3 /\ 1 \in 0..3 /\ 2 \in 0..3
    OBVIOUS
  <2>3. SumTo(local, 0) = 0 /\ SumTo(sizes, 0) = 0
    BY <2>1, <2>2, SumOfThree
  <2>4. SumTo(local, 1) = n /\ SumTo(sizes, 1) = w
    BY <1>1, <1>3, <2>1, <2>2, SumOfThree
  <2>5. SumTo(local, 2) = n + n
    BY <1>1, <1>3, <2>1, <2>2, SumOfThree
  <2> QED
    BY <2>3, <2>4, <2>5
<1>6. at(1) = 0 /\ at(2) = n /\ PackedOffset(sizes, 1, tp) = 0 /\ PackedOffset(sizes, 2, tp) = w
  <2>1. 1 - 1 = 0 /\ 2 - 1 = 1
    OBVIOUS
  <2> QED
    BY <1>5, <2>1 DEF PackedOffset
<1>7. PICK start \in Nat : start = rank * n
  BY <1>1, TimesNat
<1>8. rows(1) = Narrow(t, start, n) /\ rows(2) = Narrow(t, w + start, n)
  BY <1>3, <1>6, <1>7
<1>9. start + n <= w
  <2>1. (rank + 1) * n <= tp * n
    BY <1>1, TimesMonotone
  <2>2. (rank + 1) * n = rank * n + n /\ tp * n = n * tp
    BY <1>1
  <2> QED
    BY <1>1, <1>7, <2>1, <2>2
<1>10. ASSUME NEW i \in 1..n
       PROVE  /\ Narrow(t, start, n)[i] = <<"gate", start + i - 1>>
              /\ Narrow(t, w + start, n)[i] = <<"up", start + i - 1>>
  <2>1. SliceFrom(t, w, start, n, i)
    BY <1>1, <1>9 DEF SliceFrom, t
  <2> QED
    BY <2>1, NarrowOfTwo
<1> HIDE DEF at, rows
<1>11. ASSUME NEW i \in 1..n PROVE at_(i) = {1} /\ at_(n + i) = {2}
  BY <1>1, <1>3, <1>6
<1>12. \A i \in 1..(n + n) : packed[i] = {rows(p)[i - at(p)] : p \in at_(i)}
  <2> HIDE DEF at_
  <2> QED
    BY <1>3, <1>4, <1>5
<1>13. DOMAIN packed = 1..(2 * n)
  <2>1. n + n = 2 * n
    BY <1>1
  <2> HIDE DEF at_
  <2> QED
    BY <1>3, <1>4, <1>5, <2>1
<1>14. ASSUME NEW i \in 1..n
       PROVE packed[i] = {Cell("gate", rank, n, i)} /\ packed[n + i] = {Cell("up", rank, n, i)}
  <2>1. i \in 1..(n + n) /\ n + i \in 1..(n + n) /\ i - 0 = i /\ (n + i) - n = i
    BY <1>1
  <2>2. packed[i] = {rows(1)[i]}
    <3> HIDE DEF at_
    <3>1. packed[i] = {rows(p)[i - at(p)] : p \in {1}}
      BY <1>11, <1>12, <2>1
    <3> QED
      BY <1>6, <2>1, <3>1
  <2>3. packed[n + i] = {rows(2)[i]}
    <3> HIDE DEF at_
    <3>1. packed[n + i] = {rows(p)[(n + i) - at(p)] : p \in {2}}
      BY <1>11, <1>12, <2>1
    <3> QED
      BY <1>6, <2>1, <3>1
  <2> QED
    BY <1>7, <1>8, <1>10, <2>2, <2>3 DEF Cell
<1> QED
  BY <1>13, <1>14

(* The features of the MLP meet their partners. *)
LEMMA FeaturesAlwaysMeet == layer \in AnyLayer => FeaturesMeet
<1> SUFFICES ASSUME layer \in AnyLayer, layer.width % layer.tp = 0 PROVE FeaturesMeet
  BY DEF FeaturesMeet
<1> DEFINE tp == layer.tp
           w == layer.width
           n == w \div tp
<1>1. tp \in Nat /\ tp > 0 /\ w \in Nat
  BY DEF AnyLayer, Positive
<1>2. n \in Nat /\ w = n * tp
  <2> HIDE DEF tp, w
  <2>1. n \in Nat /\ w % tp \in Nat /\ w = tp * n + (w % tp)
    BY <1>1, DivMod
  <2>2. w % tp = 0
    BY DEF w, tp
  <2> HIDE DEF n
  <2> QED
    BY <1>1, <2>1, <2>2
<1> DEFINE legs == {Leg("gate", 0, n, 1), Leg("up", n, n, 1)}
           merged(rank) == Fused(MergedLegs(layer), 2 * n, rank, tp)
           packed(rank) == PackedSharded(Tensor("gate", w) \o Tensor("up", w), <<w, w>>, rank, tp)
           down(rank) == Sharded(Tensor("down", w), rank, tp, 1)
           goal(rank) ==
             /\ \A i \in 1..n : /\ merged(rank)[i] = {<<"gate", rank * n + i - 1>>}
                                /\ merged(rank)[n + i] = {<<"up", rank * n + i - 1>>}
                                /\ down(rank)[i] = <<"down", rank * n + i - 1>>
             /\ DOMAIN packed(rank) = 1..(2 * n)
             /\ \A i \in 1..(2 * n) : merged(rank)[i] = packed(rank)[i]
<1>3. MergedLegs(layer) = legs
  BY DEF MergedLegs
<1>4. ASSUME NEW rank \in Ranks(layer) PROVE goal(rank)
  <2> HIDE DEF n, legs
  <2>1. rank \in 0..(tp - 1)
    BY <1>4 DEF Ranks
  <2> HIDE DEF tp, w
  <2>2. MergedFrom(w, n, tp, rank)
    BY <1>1, <1>2, <2>1 DEF MergedFrom
  <2>3. \A i \in 1..n : /\ merged(rank)[i] = {Cell("gate", rank, n, i)}
                        /\ merged(rank)[n + i] = {Cell("up", rank, n, i)}
    BY <1>3, <2>2, MergedRows DEF legs
  <2>4. \A i \in 1..n : /\ packed(rank)[i] = {Cell("gate", rank, n, i)}
                        /\ packed(rank)[n + i] = {Cell("up", rank, n, i)}
    BY <2>2, PackedRows
  <2>5. DOMAIN packed(rank) = 1..(2 * n)
    BY <2>2, PackedRows
  <2>6. \A i \in 1..n : down(rank)[i] = Cell("down", rank, n, i)
    <3> TAKE i \in 1..n
    <3>1. ShardFrom(w, n, tp, rank, i)
      BY <1>1, <1>2, <2>1 DEF ShardFrom
    <3> QED
      BY <3>1, ShardedIs
  <2> HIDE DEF merged, packed, down
  <2>7. ASSUME NEW i \in 1..(2 * n) PROVE merged(rank)[i] = packed(rank)[i]
    <3>1. CASE i <= n
      <4>1. i \in 1..n
        BY <1>2, <3>1
      <4> QED
        BY <2>3, <2>4, <4>1
    <3>2. CASE ~(i <= n)
      <4>1. PICK j \in 1..n : i = n + j
        <5>1. i - n \in 1..n /\ i = n + (i - n)
          BY <1>2, <3>2
        <5> QED
          BY <5>1
      <4> QED
        BY <2>3, <2>4, <4>1
    <3> QED
      BY <3>1, <3>2
  <2> QED
    BY <2>3, <2>5, <2>6, <2>7 DEF Cell
<1> HIDE DEF goal
<1>5. \A rank \in Ranks(layer) : goal(rank)
  BY <1>4
<1> QED
  BY <1>5, Zenon DEF FeaturesMeet, goal, merged, packed, down, n, tp, w

-----------------------------------------------------------------------------
(* The embedding.                                                          *)

(* The padded vocabulary holds the vocabulary, in shards of one size. *)
LEMMA PaddedSizes ==
  ASSUME NEW tp \in Positive, NEW vocab \in Positive, NEW multiple \in Positive,
         NEW pad, pad = ((vocab + tp * multiple - 1) \div (tp * multiple)) * (tp * multiple),
         NEW size, size = pad \div tp
  PROVE  size \in Positive /\ pad \in Nat /\ size * tp = pad /\ vocab <= pad
<1>1. PICK step \in Nat : step = tp * multiple /\ step > 0
  BY TimesNat DEF Positive
<1>2. PICK a \in Nat : a = vocab + step - 1 /\ vocab + tp * multiple - 1 = a
  BY <1>1 DEF Positive
<1>3. PICK k, r \in Nat : k = a \div step /\ a = step * k + r /\ r < step
  BY <1>1, DivMod
<1>4. pad = k * step
  BY <1>1, <1>2, <1>3
<1>5. PICK p \in Nat : p = k * step /\ p = step * k
  BY <1>1, <1>3, TimesNat
<1>6. vocab <= p
  BY <1>1, <1>2, <1>3, <1>5 DEF Positive
<1>7. PICK s \in Nat : s = k * multiple
  BY TimesNat DEF Positive
<1>8. p = tp * s
  BY <1>1, <1>5, <1>7 DEF Positive
<1>9. size = s
  BY <1>4, <1>5, <1>8, DivMultiple DEF Positive
<1>10. s > 0
  BY <1>6, <1>8 DEF Positive
<1>11. s * tp = tp * s
  BY DEF Positive
<1> QED
  BY <1>4, <1>5, <1>6, <1>8, <1>9, <1>10, <1>11 DEF Positive

(* Token id is on rank id \div size, at place id % size. *)
LEMMA TokenPlace ==
  ASSUME NEW size \in Positive, NEW tp \in Nat, NEW pad \in Nat, size * tp = pad,
         NEW id \in Nat, id < pad
  PROVE  /\ id \div size \in 0..(tp - 1) /\ id % size \in 0..(size - 1)
         /\ id = (id \div size) * size + (id % size)
         /\ \A rank \in Nat : (rank * size <= id /\ id < rank * size + size) <=> rank = id \div size
<1>1. PICK a, b \in Nat : a = id \div size /\ b = id % size /\ id = size * a + b /\ b < size
  BY DivMod DEF Positive
<1>2. PICK n \in Nat : n = size * a /\ n = a * size
  BY TimesNat DEF Positive
<1>3. a < tp
  <2>1. CASE tp <= a
    <3>1. tp * size <= a * size
      BY <2>1, TimesMonotone DEF Positive
    <3>2. tp * size = size * tp
      BY DEF Positive
    <3> QED
      BY <1>1, <1>2, <3>1, <3>2
  <2> QED
    BY <2>1
<1>4. ASSUME NEW rank \in Nat, rank * size <= id, id < rank * size + size PROVE rank = a
  <2>1. PICK u \in Nat : u = rank * size /\ u = size * rank
    BY TimesNat DEF Positive
  <2>2. PICK r \in Nat : r = id - u
    BY <1>4, <2>1
  <2>3. r < size /\ id = size * rank + r /\ size \in Nat /\ size > 0
    BY <1>4, <2>1, <2>2 DEF Positive
  <2>4. id \div size = rank
    BY <2>3, DivIs
  <2> QED
    BY <1>1, <2>4
<1>5. a * size <= id /\ id < a * size + size
  BY <1>1, <1>2 DEF Positive
<1>6. \A rank \in Nat : (rank * size <= id /\ id < rank * size + size) <=> rank = a
  BY <1>4, <1>5
<1>7. id = a * size + b
  BY <1>1, <1>2
<1>8. a \in 0..(tp - 1) /\ b \in 0..(size - 1)
  BY <1>1, <1>3 DEF Positive
<1> QED
  BY <1>1, <1>6, <1>7, <1>8

(* A rank looks up the entries of the vocabulary in its shard. *)
LooksFrom(start, end, size, vocab, id) ==
  /\ start \in Nat /\ size \in Nat /\ vocab \in Nat /\ id \in Nat
  /\ end = Max({start, Min({start + size, vocab})})

(* The clipped end of a shard does not change which ids are looked up. *)
LEMMA Looks ==
  ASSUME NEW start, NEW end, NEW size, NEW vocab, NEW id, LooksFrom(start, end, size, vocab, id)
  PROVE  (start <= id /\ id < end) <=> (start <= id /\ id < start + size /\ id < vocab)
<1> start \in Nat /\ size \in Nat /\ vocab \in Nat /\ id \in Nat
  BY DEF LooksFrom
<1>1. Min({start + size, vocab}) = IF start + size <= vocab THEN start + size ELSE vocab
  <2>1. PICK s \in Int : s = start + size
    OBVIOUS
  <2>2. Min({s, vocab}) = IF s <= vocab THEN s ELSE vocab
    BY MaxMin
  <2> QED
    BY <2>1, <2>2
<1>2. PICK low \in Nat : low = Min({start + size, vocab})
  BY <1>1
<1>3. end = IF start <= low THEN low ELSE start
  BY <1>2, MaxMin DEF LooksFrom
<1> QED
  BY <1>1, <1>2, <1>3

(* A row of a shard of the embedding. *)
RowOf(id, vocab, size, rank, i) ==
  /\ vocab \in Nat /\ size \in Nat /\ rank \in Nat /\ id \in Nat
  /\ i \in 1..size /\ rank * size + i = id + 1

(* A row of the shard is the embedding of its id, or zero past the end. *)
LEMMA VocabIs ==
  ASSUME NEW id, NEW vocab, NEW size, NEW rank, NEW i, RowOf(id, vocab, size, rank, i)
  PROVE  Vocab(Tensor("e", vocab), size, rank)[i] = IF id < vocab THEN <<"e", id>> ELSE Zero
<1> vocab \in Nat /\ size \in Nat /\ rank \in Nat /\ id \in Nat /\ i \in 1..size
  BY DEF RowOf
<1>0. PICK u \in Nat : u = rank * size /\ u + i = id + 1
  BY TimesNat DEF RowOf
<1>1. Len(Tensor("e", vocab)) = vocab
  BY DEF Tensor
<1>2. Vocab(Tensor("e", vocab), size, rank)[i] =
        IF u + i <= vocab THEN Tensor("e", vocab)[u + i] ELSE Zero
  BY <1>0, <1>1 DEF Vocab
<1>3. ASSUME id < vocab PROVE Tensor("e", vocab)[id + 1] = <<"e", id>>
  <2>1. id + 1 \in 1..vocab /\ (id + 1) - 1 = id
    BY <1>3
  <2> QED
    BY <2>1 DEF Tensor
<1>4. u + i <= vocab <=> id < vocab
  BY <1>0
<1> QED
  BY <1>0, <1>2, <1>3, <1>4

(* Tokens are looked up once. *)
LEMMA TokensAlwaysOnce == layer \in AnyLayer => TokensOnce
<1> SUFFICES ASSUME layer \in AnyLayer PROVE TokensOnce
  OBVIOUS
<1> DEFINE x == layer
           tp == x.tp
           vocab == x.vocab
           multiple == x.multiple
           size == PerPartition(x)
           pad == PadVocab(x)
           held(rank) == Vocab(Tensor("e", vocab), size, rank)
           looks(rank, id) == Bounds(x, rank)[1] <= id /\ id < Bounds(x, rank)[2]
           on(id) == {rank \in Ranks(x) : looks(rank, id)}
           goal(id) ==
             /\ Cardinality(on(id)) = IF id < vocab THEN 1 ELSE 0
             /\ \A rank \in on(id) : held(rank)[id - Bounds(x, rank)[1] + 1] = <<"e", id>>
             /\ held(id \div size)[(id % size) + 1] = IF id < vocab THEN <<"e", id>> ELSE Zero
<1>1. tp \in Positive /\ vocab \in Positive /\ multiple \in Positive
  BY DEF AnyLayer
<1>2. /\ pad = ((vocab + tp * multiple - 1) \div (tp * multiple)) * (tp * multiple)
      /\ size = pad \div tp
  BY DEF PadVocab, PerPartition
<1> HIDE DEF pad, size
<1>3. Ranks(x) = 0..(tp - 1)
  BY DEF Ranks
<1>4. ASSUME NEW rank
      PROVE  /\ Bounds(x, rank)[1] = rank * size
             /\ Bounds(x, rank)[2] = Max({rank * size, Min({rank * size + size, vocab})})
  BY DEF Bounds, size
<1> HIDE DEF x, tp, vocab, multiple
<1>5. size \in Positive /\ pad \in Nat /\ size * tp = pad /\ vocab <= pad
  BY <1>1, <1>2, PaddedSizes
<1>6. size \in Nat /\ size > 0 /\ tp \in Nat /\ tp > 0 /\ vocab \in Nat
  BY <1>1, <1>5 DEF Positive
<1>7. ASSUME NEW id \in 0..(pad - 1) PROVE goal(id)
  <2>1. id \in Nat /\ id < pad
    BY <1>5
  <2>2. PICK a, b \in Nat : a = id \div size /\ b = id % size
    BY <1>6, <2>1, DivMod
  <2>3. /\ a \in 0..(tp - 1) /\ b \in 0..(size - 1) /\ id = a * size + b
        /\ \A rank \in Nat : (rank * size <= id /\ id < rank * size + size) <=> rank = a
    BY <1>5, <1>6, <2>1, <2>2, TokenPlace
  <2>4. ASSUME NEW rank \in 0..(tp - 1) PROVE looks(rank, id) <=> rank = a /\ id < vocab
    <3>1. PICK start \in Nat : start = rank * size
      BY <1>6, TimesNat
    <3>2. PICK end : end = Bounds(x, rank)[2]
      OBVIOUS
    <3>3. end = Max({start, Min({start + size, vocab})}) /\ Bounds(x, rank)[1] = start
      BY <1>4, <3>1, <3>2
    <3>4. (start <= id /\ id < end) <=> (start <= id /\ id < start + size /\ id < vocab)
      <4>1. LooksFrom(start, end, size, vocab, id)
        BY <1>6, <2>1, <3>3 DEF LooksFrom
      <4> QED
        BY <4>1, Looks
    <3>5. rank \in Nat
      BY <1>6
    <3>6. (start <= id /\ id < start + size) <=> rank = a
      BY <2>3, <3>1, <3>5
    <3> QED
      BY <3>2, <3>3, <3>4, <3>6
  <2> HIDE DEF looks
  <2>5. on(id) = IF id < vocab THEN {a} ELSE {}
    BY <1>3, <2>3, <2>4
  <2> HIDE DEF on
  <2>6. Cardinality(on(id)) = IF id < vocab THEN 1 ELSE 0
    BY <2>5, FS_Singleton, FS_EmptySet
  <2>7. held(a)[b + 1] = IF id < vocab THEN <<"e", id>> ELSE Zero
    <3>1. PICK u \in Nat : u = a * size
      BY <1>6, <2>2, TimesNat
    <3>2. PICK i \in 1..size : i = b + 1
      BY <1>6, <2>2, <2>3
    <3>3. id = u + b
      BY <2>3, <3>1
    <3>4. u + i = id + 1
      BY <2>2, <3>1, <3>2, <3>3
    <3>5. a * size + i = id + 1
      BY <3>1, <3>4
    <3>6. RowOf(id, vocab, size, a, i)
      BY <1>6, <2>1, <2>2, <3>2, <3>5 DEF RowOf
    <3> QED
      BY <3>2, <3>6, VocabIs
  <2>8. ASSUME NEW rank \in on(id) PROVE held(rank)[id - Bounds(x, rank)[1] + 1] = <<"e", id>>
    <3>1. rank = a /\ id < vocab
      BY <2>5
    <3>2. id - a * size + 1 = b + 1
      <4>1. PICK u \in Nat : u = a * size
        BY <1>6, <2>2, TimesNat
      <4> QED
        BY <2>2, <2>3, <4>1
    <3>3. Bounds(x, rank)[1] = a * size
      BY <1>4, <3>1
    <3> HIDE DEF held
    <3> QED
      BY <2>7, <3>1, <3>2, <3>3
  <2> QED
    BY <2>2, <2>6, <2>7, <2>8
<1> HIDE DEF goal
<1>8. \A id \in 0..(pad - 1) : goal(id)
  BY <1>7
<1> QED
  BY <1>5, <1>8, Zenon DEF TokensOnce, goal, on, looks, held, pad, size, x, tp, vocab

(* The shards of a transformer block, of its MLP and of its embedding meet *)
(* on every rank, for all sizes that the constructors accept: ShardsMeet.  *)
THEOREM ShardsAlwaysMeet == layer \in AnyLayer => ShardsMeet
BY HeadsAlwaysMeet, FeaturesAlwaysMeet, TokensAlwaysOnce DEF ShardsMeet

-----------------------------------------------------------------------------
(* DeploymentPlan: the workers of all replicas on the devices.             *)

(* The arguments that build() accepts: any number of nodes, of devices, of *)
(* ranks and of replicas.                                                  *)
AnyNodes == UNION {[0..(m - 1) -> [devices : Nat, address : BOOLEAN]] : m \in Nat}
AnyPlacement ==
  {q \in [world : Nat \ {0}, count : Nat \ {0}, output : Nat, nodes : AnyNodes] : q.output < q.world}

(* The devices of one node. *)
On(nodes, n) == {n} \X (0..(nodes[n].devices - 1))

(* There are as many as the node has. *)
LEMMA OnNode ==
  ASSUME NEW nodes \in AnyNodes, NEW n \in DOMAIN nodes
  PROVE  IsFiniteSet(On(nodes, n)) /\ Cardinality(On(nodes, n)) = nodes[n].devices
<1> DEFINE k == nodes[n].devices
           one == {n}
           range == 0..(k - 1)
<1>1. k \in Nat
  BY DEF AnyNodes
<1> HIDE DEF k
<1>2. IsFiniteSet(one) /\ Cardinality(one) = 1
  BY FS_Singleton
<1>3. 0 \in Int /\ k - 1 \in Int
  BY <1>1
<1>4. IsFiniteSet(range) /\ Cardinality(range) = IF 0 > k - 1 THEN 0 ELSE k - 1 - 0 + 1
  BY <1>3, FS_Interval
<1>5. Cardinality(range) = k
  BY <1>1, <1>4
<1>6. On(nodes, n) = one \X range
  BY DEF On, k
<1> HIDE DEF one, range
<1>7. IsFiniteSet(one \X range) /\ Cardinality(one \X range) = Cardinality(one) * Cardinality(range)
  BY <1>2, <1>4, FS_Product
<1>8. 1 * k = k
  BY <1>1
<1> QED
  BY <1>2, <1>5, <1>6, <1>7, <1>8 DEF k

(* The devices of all nodes are finitely many. *)
LEMMA DevicesFinite ==
  ASSUME NEW nodes \in AnyNodes
  PROVE  /\ IsFiniteSet(Devices(nodes)) /\ Cardinality(Devices(nodes)) \in Nat
         /\ \E m \in Nat : DOMAIN nodes = 0..(m - 1)
         /\ \A d : d \in Devices(nodes) <=> \E n \in DOMAIN nodes : d \in On(nodes, n)
<1>1. PICK m \in Nat : nodes \in [0..(m - 1) -> [devices : Nat, address : BOOLEAN]]
  BY DEF AnyNodes
<1>2. DOMAIN nodes = 0..(m - 1)
  BY <1>1
<1> DEFINE D == DOMAIN nodes
           T == {On(nodes, n) : n \in D}
           f == [n \in D |-> On(nodes, n)]
<1>3. IsFiniteSet(D)
  <2>1. 0 \in Int /\ m - 1 \in Int
    OBVIOUS
  <2> QED
    BY <1>2, <2>1, FS_Interval
<1>4. f \in Surjection(D, T)
  BY DEF Surjection
<1>5. IsFiniteSet(T)
  <2> HIDE DEF f, D, T
  <2> QED
    BY <1>3, <1>4, FS_Surjection
<1>6. \A t \in T : IsFiniteSet(t)
  BY OnNode
<1>7. IsFiniteSet(UNION T)
  <2> HIDE DEF T
  <2> QED
    BY <1>5, <1>6, FS_UNION
<1>8. Devices(nodes) = UNION T
  BY DEF Devices, On
<1>9. Cardinality(Devices(nodes)) \in Nat
  BY <1>7, <1>8, FS_CardinalityType
<1> QED
  BY <1>2, <1>7, <1>8, <1>9

(* The number of a device that build() hands out: those of its node follow *)
(* all of the nodes before.                                                *)
Number(nodes, d) == Before(nodes, d[1]) + d[2]

LEMMA BeforeIs ==
  ASSUME NEW nodes \in AnyNodes
  PROVE  /\ \A n \in Nat : Before(nodes, n) \in Nat
         /\ \A n \in DOMAIN nodes :
              n \in Nat /\ Before(nodes, n + 1) = Before(nodes, n) + nodes[n].devices
         /\ \A n, k \in Nat : n <= k => Before(nodes, n) <= Before(nodes, k)
         /\ \A n \in Nat : Before(nodes, n) <= Cardinality(Devices(nodes))
<1> DEFINE D == Devices(nodes)
           below(n) == {d \in D : d[1] < n}
<1>1. PICK m \in Nat : DOMAIN nodes = 0..(m - 1)
  BY DevicesFinite
<1>2. IsFiniteSet(D) /\ \A d : d \in D <=> \E n \in DOMAIN nodes : d \in On(nodes, n)
  BY DevicesFinite
<1>3. \A d \in D : d[1] \in Nat /\ d[1] \in DOMAIN nodes
  BY <1>1, <1>2 DEF On
<1>4. \A n : Before(nodes, n) = Cardinality(below(n))
  BY DEF Before
<1>5. \A n : below(n) \in SUBSET D
  OBVIOUS
<1> HIDE DEF D
<1>6. \A n : IsFiniteSet(below(n)) /\ Cardinality(below(n)) <= Cardinality(D)
  BY <1>2, <1>5, FS_Subset
<1>7. \A n : Cardinality(below(n)) \in Nat
  BY <1>6, FS_CardinalityType
<1>8. ASSUME NEW n \in Nat, NEW k \in Nat, n <= k
      PROVE  Before(nodes, n) <= Before(nodes, k)
  <2>1. \A d \in D : d[1] < n => d[1] < k
    BY <1>3, <1>8
  <2>2. below(n) \in SUBSET below(k)
    BY <2>1
  <2> HIDE DEF below
  <2>3. Cardinality(below(n)) <= Cardinality(below(k))
    BY <1>6, <2>2, FS_Subset
  <2> QED
    BY <1>4, <2>3
<1>9. ASSUME NEW n \in DOMAIN nodes
      PROVE  n \in Nat /\ Before(nodes, n + 1) = Before(nodes, n) + nodes[n].devices
  <2>1. n \in Nat
    BY <1>1
  <2>2. below(n + 1) = below(n) \cup On(nodes, n)
    <3>1. ASSUME NEW d \in below(n + 1) PROVE d \in below(n) \cup On(nodes, n)
      <4>1. d \in D /\ d[1] \in Nat /\ d[1] < n + 1
        BY <1>3
      <4>2. CASE d[1] < n
        BY <4>1, <4>2
      <4>3. CASE d[1] = n
        BY <1>2, <4>1, <4>3 DEF On
      <4> QED
        BY <2>1, <4>1, <4>2, <4>3
    <3>2. ASSUME NEW d \in On(nodes, n) PROVE d \in below(n + 1)
      BY <1>2, <2>1 DEF On
    <3>3. ASSUME NEW d \in below(n) PROVE d \in below(n + 1)
      BY <1>3, <2>1
    <3> QED
      BY <3>1, <3>2, <3>3
  <2>3. below(n) \cap On(nodes, n) = {}
    BY <2>1 DEF On
  <2>4. IsFiniteSet(On(nodes, n)) /\ Cardinality(On(nodes, n)) = nodes[n].devices
    BY OnNode
  <2>5. Cardinality({}) = 0
    BY FS_EmptySet
  <2>6. nodes[n].devices \in Nat
    BY DEF AnyNodes
  <2> DEFINE b == below(n)
             o == On(nodes, n)
  <2>7. IsFiniteSet(b) /\ IsFiniteSet(o)
    BY <1>6, <2>4
  <2> HIDE DEF b, o
  <2>8. Cardinality(b \cup o) = Cardinality(b) + Cardinality(o) - Cardinality(b \cap o)
    BY <2>7, FS_Union
  <2>9. Cardinality(b) \in Nat
    BY <1>7 DEF b
  <2>10. /\ Before(nodes, n + 1) = Cardinality(b \cup o) /\ Before(nodes, n) = Cardinality(b)
         /\ b \cap o = {} /\ Cardinality(o) = nodes[n].devices
    BY <1>4, <2>2, <2>3, <2>4 DEF b, o
  <2>11. Cardinality(b \cup o) = Cardinality(b) + nodes[n].devices - 0
    BY <2>5, <2>8, <2>10, Zenon
  <2>12. \A x, y \in Nat : x + y - 0 = x + y
    OBVIOUS
  <2>13. Before(nodes, n + 1) = Before(nodes, n) + nodes[n].devices
    BY <2>6, <2>9, <2>10, <2>11, <2>12, Zenon
  <2> QED
    BY <2>1, <2>13
<1>10. \A n : Before(nodes, n) \in Nat /\ Before(nodes, n) <= Cardinality(D)
  BY <1>4, <1>6, <1>7
<1> QED
  BY <1>8, <1>9, <1>10 DEF D

(* Every device has its own number, and every number a device.             *)
LEMMA SlotsAre ==
  ASSUME NEW nodes \in AnyNodes
  PROVE  /\ Len(Slots(nodes)) = Cardinality(Devices(nodes))
         /\ \A i \in 1..Cardinality(Devices(nodes)) :
              /\ Slots(nodes)[i] \in Devices(nodes) /\ Number(nodes, Slots(nodes)[i]) = i - 1
<1> DEFINE D == Devices(nodes)
           card == Cardinality(D)
           num == [d \in D |-> Number(nodes, d)]
<1>1. PICK m \in Nat : DOMAIN nodes = 0..(m - 1)
  BY DevicesFinite
<1>2. /\ IsFiniteSet(D) /\ card \in Nat
      /\ \A d : d \in D <=> \E n \in DOMAIN nodes : d \in On(nodes, n)
  BY DevicesFinite
<1>3. \A n \in DOMAIN nodes : nodes[n].devices \in Nat
  BY DEF AnyNodes
<1>4. ASSUME NEW d \in D
      PROVE  /\ d[1] \in DOMAIN nodes /\ d[1] \in Nat /\ d[2] \in Nat /\ d = <<d[1], d[2]>>
             /\ Number(nodes, d) \in Nat /\ Before(nodes, d[1]) <= Number(nodes, d)
             /\ Number(nodes, d) < Before(nodes, d[1] + 1)
  <2>1. d[1] \in DOMAIN nodes /\ d[2] \in 0..(nodes[d[1]].devices - 1) /\ d = <<d[1], d[2]>>
    BY <1>2 DEF On
  <2>2. /\ d[1] \in Nat /\ Before(nodes, d[1] + 1) = Before(nodes, d[1]) + nodes[d[1]].devices
        /\ Before(nodes, d[1]) \in Nat
    BY <2>1, BeforeIs
  <2>3. nodes[d[1]].devices \in Nat
    BY <1>3, <2>1
  <2>4. d[2] \in Nat /\ d[2] < nodes[d[1]].devices
    BY <2>1, <2>3
  <2> QED
    BY <2>1, <2>2, <2>3, <2>4 DEF Number
<1>5. ASSUME NEW d \in D PROVE Number(nodes, d) \in 0..(card - 1)
  <2>1. /\ Number(nodes, d) \in Nat /\ Number(nodes, d) < Before(nodes, d[1] + 1)
        /\ d[1] + 1 \in Nat
    BY <1>4
  <2>2. Before(nodes, d[1] + 1) \in Nat /\ Before(nodes, d[1] + 1) <= card
    BY <2>1, BeforeIs
  <2> HIDE DEF card
  <2> QED
    BY <1>2, <2>1, <2>2
<1>6. ASSUME NEW d \in D, NEW e \in D, d[1] < e[1] PROVE Number(nodes, d) < Number(nodes, e)
  <2>1. /\ Number(nodes, d) \in Nat /\ Number(nodes, d) < Before(nodes, d[1] + 1)
        /\ d[1] + 1 \in Nat /\ d[1] \in Nat
    BY <1>4
  <2>2. /\ Number(nodes, e) \in Nat /\ Before(nodes, e[1]) <= Number(nodes, e) /\ e[1] \in Nat
    BY <1>4
  <2>3. d[1] + 1 <= e[1]
    BY <1>6, <2>1, <2>2
  <2>4. Before(nodes, d[1] + 1) <= Before(nodes, e[1])
    BY <2>1, <2>2, <2>3, BeforeIs
  <2>5. Before(nodes, d[1] + 1) \in Nat /\ Before(nodes, e[1]) \in Nat
    BY <2>1, <2>2, BeforeIs
  <2> QED
    BY <2>1, <2>2, <2>4, <2>5
<1>7. ASSUME NEW d \in D, NEW e \in D, Number(nodes, d) = Number(nodes, e) PROVE d = e
  <2>1. Number(nodes, d) \in Nat /\ d[1] \in Nat /\ e[1] \in Nat
    BY <1>4
  <2>2. d[1] = e[1]
    BY <1>6, <1>7, <2>1
  <2>3. Before(nodes, d[1]) + d[2] = Before(nodes, d[1]) + e[2]
    BY <1>7, <2>2 DEF Number
  <2>4. Before(nodes, d[1]) \in Nat /\ d[2] \in Nat /\ e[2] \in Nat
    BY <1>4, <2>1, BeforeIs
  <2>5. d[2] = e[2]
    BY <2>3, <2>4
  <2> QED
    BY <1>4, <2>2, <2>5
<1>8. num \in Injection(D, 0..(card - 1))
  <2>1. num \in [D -> 0..(card - 1)]
    BY <1>5
  <2>2. \A d, e \in D : num[d] = num[e] => d = e
    BY <1>7
  <2> HIDE DEF num, D, card
  <2> QED
    BY <2>1, <2>2, Zenon DEF Injection, IsInjective
<1>9. IsFiniteSet(0..(card - 1)) /\ Cardinality(0..(card - 1)) = card
  <2> HIDE DEF card
  <2>1. 0 \in Int /\ card - 1 \in Int
    BY <1>2
  <2>2. /\ IsFiniteSet(0..(card - 1))
        /\ Cardinality(0..(card - 1)) = IF 0 > card - 1 THEN 0 ELSE card - 1 - 0 + 1
    BY <2>1, FS_Interval
  <2> QED
    BY <1>2, <2>2
<1>10. num \in Surjection(D, 0..(card - 1))
  <2> DEFINE R == 0..(card - 1)
  <2> HIDE DEF num, D, R
  <2>1. num \in Injection(D, R) /\ IsFiniteSet(R) /\ Cardinality(D) = Cardinality(R)
    BY <1>8, <1>9 DEF R
  <2> QED
    BY <2>1, FS_Injection DEF R
<1>11. ASSUME NEW i \in 1..card
       PROVE  Slots(nodes)[i] \in D /\ Number(nodes, Slots(nodes)[i]) = i - 1
  <2>1. i - 1 \in 0..(card - 1)
    <3> HIDE DEF card
    <3> QED
      BY <1>2
  <2>2. \E d \in D : num[d] = i - 1
    <3> HIDE DEF num, card
    <3> QED
      BY <1>10, <2>1 DEF Surjection
  <2>3. \E d \in D : Number(nodes, d) = i - 1
    BY <2>2
  <2>4. Slots(nodes)[i] = CHOOSE d \in D : Number(nodes, d) = i - 1
    BY DEF Slots, Number
  <2> QED
    BY <2>3, <2>4
<1>12. Len(Slots(nodes)) = card
  <2>1. DOMAIN Slots(nodes) = 1..card
    BY DEF Slots
  <2> HIDE DEF card, D
  <2>2. Slots(nodes) = [i \in 1..card |-> Slots(nodes)[i]]
    BY <2>1 DEF Slots, D, card
  <2>3. Slots(nodes) \in Seq(D)
    BY <1>2, <1>11, <2>2
  <2> QED
    BY <1>2, <2>1, <2>3
<1> QED
  BY <1>11, <1>12

(* The workers of a replica follow each other, in the order of their ranks. *)
LEMMA MembersAre ==
  ASSUME NEW q \in AnyPlacement, NEW c \in 0..(q.count - 1), NEW first, first = c * q.world
  PROVE  /\ first \in Nat
         /\ Members(Workers(q), c) = (first + 1)..(first + q.world)
         /\ Members(Workers(q), c) \subseteq 1..(q.count * q.world)
         /\ \A i \in Members(Workers(q), c) : Workers(q)[i].rank = (i - 1) - first
<1> DEFINE world == q.world
           count == q.count
           workers == Workers(q)
           own == (first + 1)..(first + world)
<1>1. world \in Nat /\ world > 0 /\ count \in Nat /\ c \in Nat /\ c < count
  BY DEF AnyPlacement
<1>2. first \in Nat /\ first = world * c /\ count * world \in Nat
  BY <1>1
<1>3. DOMAIN workers = 1..(count * world)
  BY DEF Workers
<1>4. \A i \in DOMAIN workers : workers[i].replica = (i - 1) \div world /\ workers[i].rank = (i - 1) % world
  BY <1>3 DEF Workers, ReplicaId
<1>5. first + world <= count * world
  <2>1. (c + 1) * world <= count * world
    BY <1>1, TimesMonotone
  <2>2. (c + 1) * world = first + world
    <3>1. \A a, b \in Nat : (a + 1) * b = a * b + b
      OBVIOUS
    <3>2. first = c * world
      OBVIOUS
    <3> HIDE DEF world
    <3> QED
      BY <1>1, <3>1, <3>2
  <2> QED
    BY <2>1, <2>2
<1> HIDE DEF world, count, workers
<1>6. ASSUME NEW i \in own
      PROVE  i \in DOMAIN workers /\ workers[i].replica = c /\ workers[i].rank = (i - 1) - first
  <2>1. i \in DOMAIN workers /\ i - 1 \in Nat
    BY <1>1, <1>2, <1>3, <1>5
  <2>2. PICK r \in Nat : r < world /\ i - 1 = first + r /\ r = (i - 1) - first
    <3>1. (i - 1) - first \in Nat /\ (i - 1) - first < world /\ i - 1 = first + ((i - 1) - first)
      BY <1>1, <1>2
    <3> QED
      BY <3>1
  <2>3. (i - 1) \div world = c /\ (i - 1) % world = r
    <3>1. i - 1 = world * c + r
      BY <1>2, <2>2
    <3> HIDE <2>2
    <3>2. r \in Nat /\ r < world
      BY <2>2
    <3> QED
      BY <1>1, <2>1, <3>1, <3>2, DivIs
  <2> QED
    BY <1>4, <2>1, <2>2, <2>3
<1>7. ASSUME NEW i \in DOMAIN workers, workers[i].replica = c PROVE i \in own
  <2>1. i \in Nat /\ i - 1 \in Nat
    BY <1>2, <1>3
  <2>2. (i - 1) \div world = c
    BY <1>4, <1>7
  <2>3. (i - 1) % world \in Nat /\ (i - 1) % world < world /\ i - 1 = world * ((i - 1) \div world) + ((i - 1) % world)
    BY <1>1, <2>1, DivMod
  <2> DEFINE r == (i - 1) % world
  <2>4. r \in Nat /\ r < world /\ i - 1 = first + r
    BY <1>2, <2>2, <2>3
  <2> HIDE DEF r
  <2> QED
    BY <1>1, <1>2, <2>1, <2>4
<1>8. Members(workers, c) = own
  BY <1>6, <1>7 DEF Members
<1>9. own \subseteq 1..(count * world)
  BY <1>3, <1>6
<1> QED
  BY <1>2, <1>6, <1>8, <1>9 DEF world, count, workers

(* A worker is on the device whose number it has. *)
LEMMA WorkerSlots ==
  ASSUME NEW q \in AnyPlacement, q.count * q.world <= Cardinality(Devices(q.nodes)),
         NEW i \in 1..(q.count * q.world)
  PROVE  /\ Workers(q)[i].node \in DOMAIN q.nodes
         /\ Number(q.nodes, <<Workers(q)[i].node, Workers(q)[i].device>>) = i - 1
         /\ Before(q.nodes, Workers(q)[i].node) <= i - 1
         /\ i - 1 < Before(q.nodes, Workers(q)[i].node + 1)
<1> DEFINE nodes == q.nodes
           card == Cardinality(Devices(nodes))
           d == Slots(nodes)[i]
<1>1. nodes \in AnyNodes /\ q.world \in Nat /\ q.count \in Nat
  BY DEF AnyPlacement
<1>2. card \in Nat /\ \A e : e \in Devices(nodes) <=> \E n \in DOMAIN nodes : e \in On(nodes, n)
  BY <1>1, DevicesFinite
<1>3. i \in 1..card
  <2> DEFINE all == q.count * q.world
  <2>1. all \in Nat /\ i \in 1..all /\ all <= card
    BY <1>1
  <2> HIDE DEF all, card
  <2> QED
    BY <1>2, <2>1
<1>4. d \in Devices(nodes) /\ Number(nodes, d) = i - 1
  BY <1>1, <1>3, SlotsAre
<1>5. PICK n \in DOMAIN nodes : d \in On(nodes, n)
  BY <1>2, <1>4
<1>6. nodes[n].devices \in Nat /\ n \in Nat
  BY <1>1, BeforeIs DEF AnyNodes
<1>7. d = <<d[1], d[2]>> /\ d[1] = n /\ d[2] \in Nat /\ d[2] < nodes[n].devices
  BY <1>5, <1>6 DEF On
<1>8. /\ Workers(q)[i].node = d[1] /\ Workers(q)[i].device = d[2]
  BY DEF Workers
<1>9. Before(nodes, n) \in Nat /\ Before(nodes, n + 1) = Before(nodes, n) + nodes[n].devices
  BY <1>1, <1>6, BeforeIs
<1>10. Before(nodes, n) + d[2] = i - 1
  BY <1>4, <1>7 DEF Number
<1>11. Before(nodes, n) <= i - 1 /\ i - 1 < Before(nodes, n + 1)
  <2> HIDE DEF d, nodes
  <2> QED
    BY <1>6, <1>7, <1>9, <1>10
<1> HIDE DEF d
<1> QED
  BY <1>4, <1>7, <1>8, <1>11

(* What build() answers: the workers, or that it refuses them.             *)
LEMMA BuildIs ==
  ASSUME NEW q \in AnyPlacement
  PROVE  /\ Build(q) = <<>> \/ Build(q) = Workers(q)
         /\ Build(q) = <<>> =>
              \/ Cardinality(Devices(q.nodes)) < q.count * q.world
              \/ \E c \in 0..(q.count - 1) :
                   /\ \E i, j \in Members(Workers(q), c) : Workers(q)[i].node # Workers(q)[j].node
                   /\ ~q.nodes[Workers(q)[c * q.world + 1].node].address
         /\ Build(q) # <<>> =>
              /\ q.count * q.world <= Cardinality(Devices(q.nodes))
              /\ \A c \in 0..(q.count - 1) :
                   \/ \A i, j \in Members(Workers(q), c) : Workers(q)[i].node = Workers(q)[j].node
                   \/ q.nodes[Workers(q)[c * q.world + 1].node].address
<1> DEFINE workers == Workers(q)
           spans(c) == \E i, j \in Members(workers, c) : workers[i].node # workers[j].node
           root(c) == workers[Min(Members(workers, c))].node
           few == Len(Slots(q.nodes)) < q.count * q.world
           lost == \E c \in 0..(q.count - 1) : spans(c) /\ ~q.nodes[root(c)].address
<1>1. q.nodes \in AnyNodes /\ q.world \in Nat /\ q.world > 0 /\ q.count \in Nat /\ q.count > 0
  BY DEF AnyPlacement
<1>2. DOMAIN q.nodes = 0..(Cardinality(DOMAIN q.nodes) - 1)
  <2>1. PICK m \in Nat : DOMAIN q.nodes = 0..(m - 1)
    BY <1>1, DevicesFinite
  <2>2. 0 \in Int /\ m - 1 \in Int
    OBVIOUS
  <2>3. Cardinality(0..(m - 1)) = IF 0 > m - 1 THEN 0 ELSE m - 1 - 0 + 1
    BY <2>2, FS_Interval
  <2>4. Cardinality(0..(m - 1)) = m
    BY <2>3
  <2> QED
    BY <2>1, <2>4
<1>3. Build(q) = IF few \/ lost THEN <<>> ELSE workers
  BY <1>2, Zenon DEF Build
<1>4. few <=> Cardinality(Devices(q.nodes)) < q.count * q.world
  BY <1>1, SlotsAre
<1>5. ASSUME NEW c \in 0..(q.count - 1) PROVE root(c) = workers[c * q.world + 1].node
  <2> DEFINE first == c * q.world
             M == Members(workers, c)
  <2>1. first \in Nat /\ M = (first + 1)..(first + q.world)
    BY MembersAre
  <2> HIDE DEF first, M
  <2>2. first + 1 \in M /\ \A y \in M : first + 1 <= y /\ y \in Nat
    BY <1>1, <2>1
  <2>3. Min(M) = first + 1
    BY <2>1, <2>2 DEF Min
  <2> QED
    BY <2>3 DEF M, first
<1>6. lost <=> \E c \in 0..(q.count - 1) : spans(c) /\ ~q.nodes[workers[c * q.world + 1].node].address
  <2> HIDE DEF spans, root, workers
  <2> QED
    BY <1>5, Zenon
<1>7. Cardinality(Devices(q.nodes)) \in Nat /\ q.count * q.world \in Nat
  BY <1>1, DevicesFinite
<1>8. workers # <<>>
  <2>1. 1 \in 1..(q.count * q.world)
    BY <1>1, TimesNat
  <2>2. 1 \in DOMAIN workers
    BY <2>1 DEF Workers
  <2> HIDE DEF workers
  <2> QED
    BY <2>2
<1> HIDE DEF workers, few, lost
<1>9. few \/ lost <=> Build(q) = <<>>
  BY <1>3, <1>8
<1>10. ~few => q.count * q.world <= Cardinality(Devices(q.nodes))
  BY <1>4, <1>7
<1> QED
  BY <1>3, <1>4, <1>6, <1>9, <1>10, Zenon DEF workers

(* A replica that spans nodes starts on one whose devices end in its       *)
(* middle.                                                                 *)
LEMMA SpansAreCut ==
  ASSUME NEW q \in AnyPlacement, q.count * q.world <= Cardinality(Devices(q.nodes)),
         NEW c \in 0..(q.count - 1), NEW i \in Members(Workers(q), c), NEW j \in Members(Workers(q), c),
         Workers(q)[i].node # Workers(q)[j].node,
         NEW root, root = Workers(q)[c * q.world + 1].node
  PROVE  root \in DOMAIN q.nodes /\ Before(q.nodes, root + 1) % q.world # 0
<1> DEFINE nodes == q.nodes
           world == q.world
           workers == Workers(q)
           first == c * q.world
           M == Members(workers, c)
<1>1. nodes \in AnyNodes /\ world \in Nat /\ world > 0 /\ c \in Nat /\ q.count \in Nat
  BY DEF AnyPlacement
<1>2. first \in Nat /\ M = (first + 1)..(first + world) /\ M \subseteq 1..(q.count * q.world)
  BY MembersAre
<1>3. first + 1 \in M
  <2> HIDE DEF first, M, world
  <2> QED
    BY <1>1, <1>2
<1>4. \A k \in M : /\ workers[k].node \in DOMAIN nodes /\ Before(nodes, workers[k].node) <= k - 1
                   /\ k - 1 < Before(nodes, workers[k].node + 1)
  BY <1>2, WorkerSlots
<1>5. \A n \in DOMAIN nodes : n \in Nat
  BY <1>1, BeforeIs
<1>6. PICK k \in M : workers[k].node # root
  OBVIOUS
<1>7. root \in DOMAIN nodes /\ root \in Nat /\ workers[k].node \in Nat /\ root = workers[first + 1].node
  BY <1>3, <1>4, <1>5
<1> DEFINE node == workers[k].node
           end == Before(nodes, root + 1)
<1>8. /\ Before(nodes, root) <= (first + 1) - 1 /\ (first + 1) - 1 < end
      /\ Before(nodes, node) <= k - 1 /\ k - 1 < Before(nodes, node + 1)
  BY <1>3, <1>4, <1>6, <1>7
<1> HIDE DEF node, M, first, nodes, world
<1>9. k \in Nat /\ first + 1 <= k /\ k <= first + world
  BY <1>1, <1>2, <1>6
<1>10. node \in Nat /\ node # root
  BY <1>6, <1>7 DEF node
<1>11. root < node
  <2> SUFFICES ASSUME node < root PROVE FALSE
    BY <1>7, <1>10
  <2>1. node + 1 <= root /\ node + 1 \in Nat
    BY <1>7, <1>10
  <2>2. Before(nodes, node + 1) <= Before(nodes, root)
    BY <1>1, <1>7, <2>1, BeforeIs
  <2>3. Before(nodes, node + 1) \in Nat /\ Before(nodes, root) \in Nat
    BY <1>1, <1>7, <2>1, BeforeIs
  <2> QED
    BY <1>2, <1>8, <1>9, <2>2, <2>3
<1>12. end \in Nat /\ end <= Before(nodes, node) /\ Before(nodes, node) \in Nat
  <2>1. root + 1 <= node /\ root + 1 \in Nat
    BY <1>7, <1>10, <1>11
  <2> QED
    BY <1>1, <1>10, <2>1, BeforeIs
<1> HIDE DEF end
<1>13. first < end /\ end < first + world
  BY <1>1, <1>2, <1>8, <1>9, <1>12
<1>14. PICK r \in Nat : end = first + r /\ 0 < r /\ r < world
  <2>1. end - first \in Nat /\ end = first + (end - first) /\ 0 < end - first /\ end - first < world
    BY <1>1, <1>2, <1>12, <1>13
  <2> QED
    BY <2>1
<1>15. end = world * c + r
  BY <1>1, <1>14 DEF first, world
<1>16. r \in Nat /\ r < world /\ r # 0
  BY <1>14
<1>17. end % world = r
  BY <1>1, <1>12, <1>15, <1>16, DivIs
<1> QED
  BY <1>7, <1>16, <1>17 DEF end, nodes, world

(* build() places every deployment as the supervisor relies on, and        *)
(* refuses none that could be placed: PlacementCorrect.                    *)
THEOREM EveryPlanIsSound == placement \in AnyPlacement => PlacementCorrect
<1> SUFFICES ASSUME placement \in AnyPlacement PROVE PlacementCorrect
  OBVIOUS
<1> DEFINE q == placement
           nodes == q.nodes
           world == q.world
           count == q.count
           plan == Build(q)
           workers == Workers(q)
<1>1. nodes \in AnyNodes /\ world \in Nat /\ world > 0 /\ count \in Nat /\ q.output \in Nat /\ q.output < world
  BY DEF AnyPlacement
<1>2. CASE plan = <<>>
  <2>1. Cardinality(Devices(nodes)) \in Nat /\ count * world \in Nat
    BY <1>1, DevicesFinite
  <2> SUFFICES ASSUME ~(Cardinality(Devices(nodes)) < count * world)
               PROVE  \E n \in DOMAIN nodes : ~nodes[n].address /\ Before(nodes, n + 1) % world # 0
    BY <1>2 DEF PlacementCorrect, Plan
  <2>2. count * world <= Cardinality(Devices(nodes))
    BY <2>1
  <2>3. PICK c \in 0..(count - 1) :
          /\ \E i, j \in Members(workers, c) : workers[i].node # workers[j].node
          /\ ~nodes[workers[c * world + 1].node].address
    BY <1>2, BuildIs
  <2>4. PICK i, j \in Members(workers, c) : workers[i].node # workers[j].node
    BY <2>3
  <2> DEFINE root == workers[c * world + 1].node
  <2>5. root \in DOMAIN nodes /\ Before(nodes, root + 1) % world # 0
    BY <2>2, <2>4, SpansAreCut
  <2> QED
    BY <2>3, <2>5
<1>3. CASE plan # <<>>
  <2>1. /\ plan = workers /\ count * world <= Cardinality(Devices(nodes))
        /\ \A c \in 0..(count - 1) :
             \/ \A i, j \in Members(workers, c) : workers[i].node = workers[j].node
             \/ nodes[workers[c * world + 1].node].address
    BY <1>3, BuildIs
  <2>2. DOMAIN workers = 1..(count * world)
    BY DEF Workers
  <2>3. ASSUME NEW i \in DOMAIN workers, NEW j \in DOMAIN workers,
               workers[i].node = workers[j].node, workers[i].device = workers[j].device
        PROVE  i = j
    <3>1. /\ Number(nodes, <<workers[i].node, workers[i].device>>) = i - 1
          /\ Number(nodes, <<workers[j].node, workers[j].device>>) = j - 1
      BY <2>1, <2>2, WorkerSlots
    <3>2. i - 1 = j - 1
      BY <2>3, <3>1
    <3>3. i \in Int /\ j \in Int
      BY <2>2
    <3> QED
      BY <3>2, <3>3
  <2>4. ASSUME NEW c \in 0..(count - 1), NEW M, M = Members(workers, c)
        PROVE  /\ {workers[i].rank : i \in M} = 0..(world - 1) /\ Cardinality(M) = world
               /\ Cardinality({i \in M : workers[i].output}) = 1
               /\ Cardinality({workers[i].node : i \in M}) > 1 =>
                    \E i \in M : workers[i].rank = 0 /\ nodes[workers[i].node].address
    <3> DEFINE first == c * world
    <3>1. /\ first \in Nat /\ M = (first + 1)..(first + world)
          /\ M \subseteq DOMAIN workers
          /\ \A i \in M : workers[i].rank = (i - 1) - first
      BY <2>2, <2>4, MembersAre
    <3>2. \A i \in M : workers[i].output <=> workers[i].rank = q.output
      BY <2>2, <3>1 DEF Workers
    <3> HIDE DEF first, workers, world
    <3>3. {workers[i].rank : i \in M} = 0..(world - 1)
      <4>1. \A i \in M : workers[i].rank \in 0..(world - 1)
        BY <1>1, <3>1
      <4>2. ASSUME NEW r \in 0..(world - 1) PROVE \E i \in M : workers[i].rank = r
        <5>0. r \in Nat /\ r < world
          BY <1>1
        <5>1. first + 1 + r \in M /\ (first + 1 + r - 1) - first = r
          BY <1>1, <3>1, <5>0
        <5> QED
          BY <3>1, <5>1
      <4> QED
        BY <4>1, <4>2
    <3>4. Cardinality(M) = world
      <4>1. first + 1 \in Int /\ first + world \in Int
        BY <1>1, <3>1
      <4>2. Cardinality(M) = IF first + 1 > first + world THEN 0 ELSE (first + world) - (first + 1) + 1
        BY <3>1, <4>1, FS_Interval
      <4> QED
        BY <1>1, <3>1, <4>2
    <3>5. {i \in M : workers[i].output} = {first + 1 + q.output}
      <4> DEFINE o == q.output
      <4>1. o \in Nat /\ o < world
        BY <1>1
      <4> HIDE DEF o
      <4>2. first + 1 + o \in M /\ workers[first + 1 + o].rank = o
        BY <1>1, <3>1, <4>1
      <4>3. ASSUME NEW i \in M, workers[i].rank = o PROVE i = first + 1 + o
        <5>1. (i - 1) - first = o /\ i \in Int
          BY <1>1, <3>1, <4>3
        <5> QED
          BY <3>1, <4>1, <5>1
      <4>4. {i \in M : workers[i].rank = o} = {first + 1 + o}
        BY <4>2, <4>3
      <4> QED
        BY <3>2, <4>4 DEF o
    <3>6. Cardinality({i \in M : workers[i].output}) = 1
      BY <3>5, FS_Singleton
    <3>7. ASSUME Cardinality({workers[i].node : i \in M}) > 1
          PROVE  \E i \in M : workers[i].rank = 0 /\ nodes[workers[i].node].address
      <4>1. first + 1 \in M /\ workers[first + 1].rank = 0
        BY <1>1, <3>1
      <4>2. ~ \A i, j \in M : workers[i].node = workers[j].node
        <5> SUFFICES ASSUME \A i, j \in M : workers[i].node = workers[j].node PROVE FALSE
          OBVIOUS
        <5>1. \A i \in M : workers[i].node = workers[first + 1].node
          BY <4>1
        <5> QED
          <6> DEFINE x == workers[first + 1].node
          <6>1. {workers[i].node : i \in M} = {x}
            BY <4>1, <5>1
          <6>2. Cardinality({x}) = 1
            BY FS_Singleton
          <6> HIDE DEF x
          <6>3. 1 > 1
            BY <3>7, <6>1, <6>2, Zenon
          <6> QED
            BY <6>3
      <4>3. nodes[workers[first + 1].node].address
        BY <2>1, <2>4, <4>2 DEF first
      <4> QED
        BY <4>1, <4>3
    <3> QED
      BY <3>3, <3>4, <3>6, <3>7
  <2> DEFINE sound(p) ==
        /\ \A i, j \in DOMAIN p : p[i].node = p[j].node /\ p[i].device = p[j].device => i = j
        /\ \A c \in 0..(count - 1) :
             LET members == Members(p, c) IN
             /\ {p[i].rank : i \in members} = 0..(world - 1) /\ Cardinality(members) = world
             /\ Cardinality({i \in members : p[i].output}) = 1
             /\ Cardinality({p[i].node : i \in members}) > 1 =>
                  \E i \in members : p[i].rank = 0 /\ nodes[p[i].node].address
  <2>5. sound(workers)
    <3> HIDE DEF workers, world, count, nodes
    <3> QED
      BY <2>3, <2>4, Zenon
  <2>6. sound(plan)
    <3> HIDE DEF sound, plan, workers
    <3> QED
      BY <2>1, <2>5, Zenon
  <2> QED
    BY <1>3, <2>6, Zenon DEF PlacementCorrect, Plan
<1> QED
  BY <1>2, <1>3

-----------------------------------------------------------------------------
(* ParallelConfig: the world of a replica.                                 *)

(* A set of naturals that is not empty has a least element, which Min is. *)
LEMMA MinIsLeast ==
  ASSUME NEW S \in SUBSET Nat, S # {}
  PROVE  Min(S) \in S /\ \A y \in S : Min(S) <= y
<1> DEFINE R == OpToRel(<, Nat)
<1>1. IsWellFoundedOn(R, Nat)
  BY NatLessThanWellFounded
<1>2. \A x, y \in Nat : x < y => <<x, y>> \in R
  BY DEF OpToRel
<1> HIDE DEF R
<1>3. PICK x \in S : \A y \in S : ~(<<y, x>> \in R)
  BY <1>1, WFMin
<1>4. \A y \in S : x \in Nat /\ y \in Nat /\ ~(y < x)
  BY <1>2, <1>3, Zenon
<1>5. \A y \in S : x <= y
  BY <1>4
<1> QED
  BY <1>5 DEF Min

(* A bounded one has a greatest element, which Max is. *)
LEMMA MaxIsGreatest ==
  ASSUME NEW S \in SUBSET Nat, S # {}, NEW b \in Nat, \A y \in S : y <= b
  PROVE  Max(S) \in S /\ \A y \in S : y <= Max(S)
<1> DEFINE U == {u \in Nat : \A y \in S : y <= u}
           m == Min(U)
<1>1. U \in SUBSET Nat /\ U # {}
  OBVIOUS
<1>2. m \in U /\ \A y \in U : m <= y
  <2> HIDE DEF U
  <2> QED
    BY <1>1, MinIsLeast
<1> HIDE DEF m
<1>3. m \in S
  <2> SUFFICES ASSUME m \notin S PROVE FALSE
    OBVIOUS
  <2>1. m \in Nat /\ \A y \in S : y \in Nat /\ y < m
    BY <1>2
  <2>2. m > 0
    <3>1. PICK y \in S : TRUE
      OBVIOUS
    <3> QED
      BY <2>1, <3>1
  <2>3. m - 1 \in Nat /\ \A y \in S : y <= m - 1
    BY <2>1, <2>2
  <2>4. m - 1 \in U
    BY <2>3
  <2> QED
    BY <1>2, <2>1, <2>4
<1>4. \A y \in S : y <= m
  BY <1>2
<1> QED
  BY <1>3, <1>4 DEF Max

(* The products of at most four numbers. *)
LEMMA ProductOfFour ==
  ASSUME NEW s, NEW p \in 0..4, \A i \in 1..p : s[i] \in Nat
  PROVE  /\ p = 0 => ProductTo(s, p) = 1
         /\ p = 1 => ProductTo(s, p) = s[1]
         /\ p = 2 => ProductTo(s, p) = s[1] * s[2]
         /\ p = 3 => ProductTo(s, p) = s[1] * s[2] * s[3]
         /\ p = 4 => ProductTo(s, p) = s[1] * s[2] * s[3] * s[4]
<1> DEFINE product[i \in 0..p] == IF i = 0 THEN 1 ELSE product[i - 1] * s[i]
<1>1. ProductTo(s, p) = product[p]
  BY DEF ProductTo
<1>2. \E f : f = [i \in 0..p |-> IF i = 0 THEN 1 ELSE f[i - 1] * s[i]]
  <2> DEFINE g == [i \in 0..p |-> IF i = 0 THEN 1 ELSE IF i = 1 THEN 1 * s[1] ELSE IF i = 2 THEN 1 * s[1] * s[2]
                                   ELSE IF i = 3 THEN 1 * s[1] * s[2] * s[3] ELSE 1 * s[1] * s[2] * s[3] * s[4]]
             h == [i \in 0..p |-> IF i = 0 THEN 1 ELSE g[i - 1] * s[i]]
  <2>1. ASSUME NEW i \in 0..p PROVE g[i] = h[i]
    <3>1. i \in 0..4 /\ i <= p
      OBVIOUS
    <3>2. CASE i = 0
      BY <3>2
    <3>3. CASE i = 1
      <4>1. 0 \in 0..p
        BY <3>1, <3>3
      <4> QED
        BY <3>3, <4>1
    <3>4. CASE i = 2
      <4>1. 1 \in 0..p
        BY <3>1, <3>4
      <4> QED
        BY <3>4, <4>1
    <3>5. CASE i = 3
      <4>1. 2 \in 0..p
        BY <3>1, <3>5
      <4> QED
        BY <3>5, <4>1
    <3>6. CASE i = 4
      <4>1. 3 \in 0..p
        BY <3>1, <3>6
      <4> QED
        BY <3>6, <4>1
    <3> QED
      BY <3>1, <3>2, <3>3, <3>4, <3>5, <3>6
  <2>2. g = [i \in 0..p |-> g[i]] /\ h = [i \in 0..p |-> h[i]]
    OBVIOUS
  <2> HIDE DEF g
  <2>3. g = h
    <3> HIDE DEF h
    <3> QED
      BY <2>1, <2>2
  <2> QED
    BY <2>3
<1>3. product = [i \in 0..p |-> IF i = 0 THEN 1 ELSE product[i - 1] * s[i]]
  BY <1>2
<1> HIDE DEF product
<1>4. product[0] = 1
  BY <1>3
<1>5. p >= 1 => product[1] = s[1]
  BY <1>3, <1>4
<1>6. p >= 2 => product[2] = s[1] * s[2]
  BY <1>3, <1>5
<1>7. p >= 3 => product[3] = s[1] * s[2] * s[3]
  BY <1>3, <1>6
<1>8. p >= 4 => product[4] = s[1] * s[2] * s[3] * s[4]
  BY <1>3, <1>7
<1> QED
  BY <1>1, <1>4, <1>5, <1>6, <1>7, <1>8

(* What a user may write down: any sizes. *)
AnyConfig ==
  [pipeline : Positive, cfg : Positive, decode : Positive,
   dims : [dense : Sizes(2, Positive), attention : Sizes(3, Positive), moe : Sizes(3, Positive)]]

(* The sizes of a domain are a tensor-parallel one and one or two others. *)
LEMMA SizesAre ==
  /\ \A d \in Sizes(2, Positive) : \E t \in Nat, a \in Positive : d = <<t, a>>
  /\ \A d \in Sizes(3, Positive) : \E t \in Nat, a, b \in Positive : d = <<t, a, b>>
<1>1. ASSUME NEW d \in Sizes(2, Positive) PROVE \E t \in Nat, a \in Positive : d = <<t, a>>
  <2>1. d \in [1..2 -> Nat] /\ d[2] # 0
    BY DEF Sizes, Omitted, Positive
  <2>2. d = <<d[1], d[2]>> /\ d[1] \in Nat /\ d[2] \in Positive
    BY <2>1 DEF Positive
  <2> QED
    BY <2>2
<1>2. ASSUME NEW d \in Sizes(3, Positive)
      PROVE  \E t \in Nat, a, b \in Positive : d = <<t, a, b>>
  <2>1. d \in [1..3 -> Nat] /\ d[2] # 0 /\ d[3] # 0
    BY DEF Sizes, Omitted, Positive
  <2>2. d = <<d[1], d[2], d[3]>> /\ d[1] \in Nat /\ d[2] \in Positive /\ d[3] \in Positive
    BY <2>1 DEF Positive
  <2> QED
    BY <2>2
<1> QED
  BY <1>1, <1>2

(* The sizes of a domain besides the tensor-parallel one, and what fits a  *)
(* scope.                                                                  *)
Tp(p, n)          == p.dims[n][1]
TpFor(p, n, k)    == IF Tp(p, n) # Omitted THEN Tp(p, n) ELSE k \div Others(p, n)
Fits(p, n, scope) ==
  IF Tp(p, n) # Omitted THEN Tp(p, n) * Others(p, n) = scope ELSE scope % Others(p, n) = 0

(* Sizes multiply to their tensor-parallel one times the others. *)
LEMMA DomainIs ==
  ASSUME NEW p \in AnyConfig, NEW n \in Domain
  PROVE  /\ Others(p, n) \in Positive /\ Tp(p, n) \in Nat
         /\ Product(p.dims[n]) = Tp(p, n) * Others(p, n)
         /\ \A x \in Nat : /\ Product([p.dims[n] EXCEPT ![1] = x]) = x * Others(p, n)
                            /\ [p.dims[n] EXCEPT ![1] = x][1] = x
<1>1. ASSUME NEW t \in Nat, NEW a \in Positive
      PROVE  /\ Product(Tail(<<t, a>>)) = a /\ Product(<<t, a>>) = t * a
             /\ \A x \in Nat : [<<t, a>> EXCEPT ![1] = x] = <<x, a>>
  <2>1. Tail(<<t, a>>) = <<a>> /\ Len(<<a>>) = 1 /\ Len(<<t, a>>) = 2
    OBVIOUS
  <2>2. ProductTo(<<a>>, 1) = a
    <3>1. 1 \in 0..4 /\ (\A i \in 1..1 : <<a>>[i] \in Nat) /\ <<a>>[1] = a
      BY DEF Positive
    <3> QED
      BY <3>1, ProductOfFour
  <2>3. ProductTo(<<t, a>>, 2) = t * a
    <3>1. 2 \in 0..4 /\ (\A i \in 1..2 : <<t, a>>[i] \in Nat) /\ <<t, a>>[1] = t /\ <<t, a>>[2] = a
      BY DEF Positive
    <3> QED
      BY <3>1, ProductOfFour
  <2> QED
    BY <2>1, <2>2, <2>3 DEF Product
<1>2. ASSUME NEW t \in Nat, NEW a \in Positive, NEW b \in Positive
      PROVE  /\ Product(Tail(<<t, a, b>>)) = a * b /\ Product(<<t, a, b>>) = t * (a * b)
             /\ \A x \in Nat : [<<t, a, b>> EXCEPT ![1] = x] = <<x, a, b>>
  <2>1. Tail(<<t, a, b>>) = <<a, b>> /\ Len(<<a, b>>) = 2 /\ Len(<<t, a, b>>) = 3
    OBVIOUS
  <2>2. ProductTo(<<a, b>>, 2) = a * b
    <3>1. 2 \in 0..4 /\ (\A i \in 1..2 : <<a, b>>[i] \in Nat) /\ <<a, b>>[1] = a /\ <<a, b>>[2] = b
      BY DEF Positive
    <3> QED
      BY <3>1, ProductOfFour
  <2>3. ProductTo(<<t, a, b>>, 3) = t * a * b
    <3>1. /\ 3 \in 0..4 /\ (\A i \in 1..3 : <<t, a, b>>[i] \in Nat)
          /\ <<t, a, b>>[1] = t /\ <<t, a, b>>[2] = a /\ <<t, a, b>>[3] = b
      BY DEF Positive
    <3> QED
      BY <3>1, ProductOfFour
  <2>4. t * a * b = t * (a * b)
    BY DEF Positive
  <2> QED
    BY <2>1, <2>2, <2>3, <2>4 DEF Product
<1>3. CASE n = "dense"
  <2>1. PICK t \in Nat, a \in Positive : p.dims[n] = <<t, a>>
    BY <1>3, SizesAre DEF AnyConfig
  <2>2. /\ Others(p, n) = a /\ Tp(p, n) = t /\ Product(p.dims[n]) = t * a
        /\ \A x \in Nat : [p.dims[n] EXCEPT ![1] = x] = <<x, a>>
    BY <1>1, <2>1 DEF Others, Tp
  <2>3. \A x \in Nat : Product(<<x, a>>) = x * a /\ <<x, a>>[1] = x
    BY <1>1
  <2> QED
    BY <2>2, <2>3
<1>4. CASE n \in {"attention", "moe"}
  <2>1. PICK t \in Nat, a, b \in Positive : p.dims[n] = <<t, a, b>>
    BY <1>4, SizesAre DEF AnyConfig
  <2>2. /\ Others(p, n) = a * b /\ Tp(p, n) = t /\ Product(p.dims[n]) = t * (a * b)
        /\ \A x \in Nat : [p.dims[n] EXCEPT ![1] = x] = <<x, a, b>>
    BY <1>2, <2>1 DEF Others, Tp
  <2>3. \A x \in Nat : Product(<<x, a, b>>) = x * (a * b) /\ <<x, a, b>>[1] = x
    <3> TAKE x \in Nat
    <3>1. Product(<<x, a, b>>) = x * (a * b)
      BY <1>2
    <3> QED
      BY <3>1
  <2>4. a * b \in Positive
    BY TimesNat DEF Positive
  <2> QED
    BY <2>2, <2>3, <2>4
<1> QED
  BY <1>3, <1>4 DEF Domain

(* When resolve() raises no error. *)
LEMMA ResolvesIs ==
  ASSUME NEW p \in AnyConfig, NEW scope \in Positive
  PROVE  /\ Outer(p) \in Positive
         /\ Resolves(p, Outer(p) * scope) <=>
              /\ \A n \in Domain : Fits(p, n, scope)
              /\ TpFor(p, "attention", scope) % p.decode = 0
<1> DEFINE outer == Outer(p)
           world == outer * scope
           r == Resolve(p, world)
<1>1. outer \in Positive
  BY TimesNat DEF AnyConfig, Outer, Positive
<1> HIDE DEF outer
<1>2. world % outer = 0 /\ world \div outer = scope
  BY <1>1, DivMultiple DEF Positive
<1>3. \A n \in Domain : r.dims[n] = Completed(p.dims[n], scope)
  <2>1. p = [p EXCEPT !.dims = p.dims] /\ "dims" \in DOMAIN p
    BY DEF AnyConfig
  <2>2. r.dims = [n \in Domain |-> Completed(p.dims[n], world \div Outer(p))]
    BY <2>1 DEF Resolve
  <2> QED
    BY <1>2, <2>2 DEF outer
<1>4. ASSUME NEW n \in Domain
      PROVE  /\ Product(r.dims[n]) = scope <=> Fits(p, n, scope)
             /\ r.dims[n][1] = TpFor(p, n, scope)
  <2> DEFINE t == Tp(p, n)
             o == Others(p, n)
  <2>1. o \in Nat /\ o > 0 /\ t \in Nat
    BY DomainIs DEF Positive
  <2>2. CASE t # Omitted
    <3>1. r.dims[n] = p.dims[n]
      BY <1>3, <2>2 DEF Completed, Tp
    <3>2. Product(p.dims[n]) = t * o
      BY DomainIs
    <3> QED
      BY <2>2, <3>1, <3>2 DEF Fits, TpFor, Tp
  <2>3. CASE t = Omitted
    <3> DEFINE x == scope \div o
    <3>1. r.dims[n] = [p.dims[n] EXCEPT ![1] = x]
      BY <1>3, <2>3 DEF Completed, Tp, Others
    <3>2. scope \in Nat /\ x \in Nat /\ scope % o \in Nat /\ scope = o * x + (scope % o)
      <4>1. scope \in Nat
        BY DEF Positive
      <4> HIDE DEF o
      <4> QED
        BY <2>1, <4>1, DivMod
    <3>3. Product(r.dims[n]) = x * o /\ r.dims[n][1] = x
      <4> HIDE DEF x
      <4> QED
        BY <3>1, <3>2, DomainIs
    <3>4. x * o = scope <=> scope % o = 0
      <4> DEFINE m == scope % o
      <4> HIDE DEF x, o, m
      <4>1. x * o = o * x /\ o * x \in Nat
        BY <2>1, <3>2
      <4> QED
        BY <3>2, <4>1 DEF m
    <3> QED
      BY <2>3, <3>3, <3>4 DEF Fits, TpFor
  <2> QED
    BY <2>2, <2>3
<1>5. "attention" \in Domain
  BY DEF Domain
<1>6. Resolves(p, world) <=> /\ \A n \in Domain : Product(r.dims[n]) = scope
                            /\ r.dims["attention"][1] % p.decode = 0
  BY <1>2 DEF Resolves, outer
<1> HIDE DEF r
<1> QED
  BY <1>1, <1>4, <1>5, <1>6 DEF outer

(* The least common multiple is a common multiple, and no common multiple  *)
(* is smaller.                                                             *)
LEMMA LcmIsLeast ==
  ASSUME NEW s, NEW len \in {3, 4}, Len(s) = len, DOMAIN s = 1..len, \A i \in 1..len : s[i] \in Positive
  PROVE  /\ Lcm(s) \in Positive /\ \A i \in 1..len : Lcm(s) % s[i] = 0
         /\ \A k \in Positive : (\A i \in 1..len : k % s[i] = 0) => Lcm(s) <= k
<1> DEFINE all == Product(s)
           common(k) == \A i \in DOMAIN s : Divides(s[i], k)
           S == {k \in 1..all : common(k)}
<1>1. len \in 0..4 /\ \A i \in 1..len : s[i] \in Nat /\ s[i] > 0
  BY DEF Positive
<1>2. /\ all \in Nat /\ all > 0
      /\ \A i \in 1..len : \E q \in Nat : all = s[i] * q
  <2>1. CASE len = 3
    <3> DEFINE a == s[1]
               b == s[2]
               c == s[3]
    <3>1. a \in Nat /\ a > 0 /\ b \in Nat /\ b > 0 /\ c \in Nat /\ c > 0
      BY <1>1, <2>1
    <3>2. all = a * b * c
      BY <1>1, <2>1, ProductOfFour DEF Product
    <3> HIDE DEF a, b, c, all
    <3>3. b * c \in Nat /\ a * c \in Nat /\ a * b \in Nat /\ a * b > 0
      BY <3>1, TimesNat
    <3>4. all \in Nat /\ all > 0
      BY <3>1, <3>2, <3>3, TimesNat
    <3>5. all = a * (b * c) /\ all = b * (a * c) /\ all = c * (a * b)
      BY <3>1, <3>2
    <3>6. \A i \in 1..len : i = 1 \/ i = 2 \/ i = 3
      BY <2>1
    <3> QED
      BY <3>3, <3>4, <3>5, <3>6 DEF a, b, c
  <2>2. CASE len = 4
    <3> DEFINE a == s[1]
               b == s[2]
               c == s[3]
               d == s[4]
    <3>1. a \in Nat /\ a > 0 /\ b \in Nat /\ b > 0 /\ c \in Nat /\ c > 0 /\ d \in Nat /\ d > 0
      BY <1>1, <2>2
    <3>2. all = a * b * c * d
      BY <1>1, <2>2, ProductOfFour DEF Product
    <3> HIDE DEF a, b, c, d, all
    <3>3. b * c \in Nat /\ a * c \in Nat /\ a * b \in Nat /\ a * b > 0
      BY <3>1, TimesNat
    <3>4. a * b * c \in Nat /\ a * b * c > 0
      BY <3>1, <3>3, TimesNat
    <3>5. b * c * d \in Nat /\ a * c * d \in Nat /\ a * b * d \in Nat
      BY <3>1, <3>3, TimesNat
    <3>6. all \in Nat /\ all > 0
      BY <3>1, <3>2, <3>4, TimesNat
    <3>7. all = a * (b * c * d) /\ all = b * (a * c * d) /\ all = c * (a * b * d) /\ all = d * (a * b * c)
      BY <3>1, <3>2
    <3>8. \A i \in 1..len : i = 1 \/ i = 2 \/ i = 3 \/ i = 4
      BY <2>2
    <3> QED
      BY <3>4, <3>5, <3>6, <3>7, <3>8 DEF a, b, c, d
  <2> QED
    BY <2>1, <2>2
<1> HIDE DEF all
<1>3. common(all)
  <2> SUFFICES ASSUME NEW i \in 1..len PROVE all % s[i] = 0
    BY DEF Divides
  <2>1. PICK q \in Nat : all = s[i] * q
    BY <1>2
  <2>2. s[i] \in Nat /\ s[i] > 0
    BY <1>1
  <2> DEFINE si == s[i]
  <2> HIDE DEF si
  <2>3. (si * q) % si = 0
    BY <2>2, DivMultiple DEF si
  <2> QED
    BY <2>1, <2>3 DEF si
<1>4. S \in SUBSET Nat /\ S # {}
  <2>1. all \in 1..all /\ 1..all \subseteq Nat
    BY <1>2
  <2> HIDE DEF common
  <2>2. all \in S
    BY <1>3, <2>1
  <2> QED
    BY <2>1, <2>2
<1>5. Lcm(s) = Min(S)
  BY DEF Lcm, all
<1>6. Lcm(s) \in S /\ \A y \in S : Lcm(s) <= y
  <2> HIDE DEF S
  <2> QED
    BY <1>4, <1>5, MinIsLeast
<1>7. Lcm(s) \in 1..all /\ common(Lcm(s))
  BY <1>6
<1>8. ASSUME NEW k \in Positive, \A i \in 1..len : k % s[i] = 0 PROVE Lcm(s) <= k
  <2>1. k \in Nat /\ k > 0
    BY DEF Positive
  <2>2. CASE k <= all
    <3>1. k \in S
      BY <1>2, <1>8, <2>1, <2>2 DEF Divides
    <3> QED
      BY <1>6, <3>1
  <2>3. CASE all < k
    BY <1>2, <1>7, <2>1, <2>3
  <2> QED
    BY <1>2, <2>1, <2>2, <2>3
<1>9. Lcm(s) \in Positive
  BY <1>2, <1>7 DEF Positive
<1>10. \A i \in 1..len : Lcm(s) % s[i] = 0
  BY <1>7 DEF Divides
<1> QED
  BY <1>8, <1>9, <1>10

(* A number is a multiple of two factors if it is one of the first, and    *)
(* the quotient one of the second.                                         *)
LEMMA MultipleOfProduct ==
  ASSUME NEW k \in Positive, NEW a \in Positive, NEW b \in Positive, k % a = 0
  PROVE  (k \div a) % b = 0 <=> k % (a * b) = 0
<1> DEFINE x == k \div a
<1>1. a \in Nat /\ a > 0 /\ b \in Nat /\ b > 0 /\ k \in Nat /\ a * b \in Nat /\ a * b > 0
  BY TimesNat DEF Positive
<1>2. x \in Nat /\ k = a * x + 0
  BY <1>1, DivMod
<1>3. k = a * x
  BY <1>1, <1>2
<1> HIDE DEF x
<1>4. ASSUME x % b = 0 PROVE k % (a * b) = 0
  <2> DEFINE y == x \div b
             c == a * b
  <2>1. y \in Nat /\ x = b * y + 0
    BY <1>1, <1>2, <1>4, DivMod
  <2> HIDE DEF y
  <2>2. k = c * y
    BY <1>1, <1>3, <2>1
  <2>3. c \in Nat /\ c > 0
    BY <1>1
  <2> HIDE DEF c
  <2>4. (c * y) % c = 0
    BY <2>1, <2>3, DivMultiple
  <2> QED
    BY <2>2, <2>4 DEF c
<1>5. ASSUME k % (a * b) = 0 PROVE x % b = 0
  <2> DEFINE c == a * b
             y == k \div c
  <2>1. c \in Nat /\ c > 0
    BY <1>1
  <2>2. y \in Nat /\ k = c * y + 0
    <3> HIDE DEF c
    <3>1. k % c = 0
      BY <1>5 DEF c
    <3> QED
      BY <1>1, <2>1, <3>1, DivMod
  <2> HIDE DEF y
  <2>3. b * y \in Nat
    BY <1>1, <2>2
  <2>4. x * a = (b * y) * a
    BY <1>1, <1>2, <1>3, <2>2
  <2>5. x = b * y
    <3> DEFINE z == b * y
    <3> HIDE DEF z
    <3>1. z \in Nat /\ x * a = z * a
      BY <2>3, <2>4 DEF z
    <3>2. x = z
      BY <1>1, <1>2, <3>1, Cancel
    <3> QED
      BY <3>2 DEF z
  <2> QED
    BY <1>1, <2>2, <2>5, DivMultiple
<1> QED
  BY <1>4, <1>5 DEF x

(* The smallest scope, when every tensor-parallel size is omitted, is one  *)
(* that fits, and none that fits is smaller.                               *)
LEMMA MinimumIsLeast ==
  ASSUME NEW p \in AnyConfig, \A n \in Domain : Tp(p, n) = Omitted
  PROVE  /\ Minimum(p) \in Positive /\ Resolves(p, Outer(p) * Minimum(p))
         /\ \A k \in Positive : Resolves(p, Outer(p) * k) => Minimum(p) <= k
<1> DEFINE o(n) == Others(p, n)
           a == Others(p, "attention")
           dec == p.decode
           s == <<Others(p, "dense"), Others(p, "attention"), Others(p, "moe"), Others(p, "attention") * p.decode>>
           multiple(k) == (\A n \in Domain : k % Others(p, n) = 0) /\ k % (Others(p, "attention") * p.decode) = 0
<1>1. \A n \in Domain : Others(p, n) \in Positive
  BY DomainIs
<1>2. a \in Positive /\ dec \in Positive /\ a * dec \in Positive
  BY <1>1, TimesNat DEF Domain, AnyConfig, Positive
<1>3. Len(s) = 4 /\ DOMAIN s = 1..4 /\ \A i \in 1..4 : s[i] \in Positive
  BY <1>1, <1>2 DEF Domain
<1>4. \A k : (\A i \in 1..4 : k % s[i] = 0) <=> multiple(k)
  <2> TAKE k
  <2>1. (\A i \in 1..4 : k % s[i] = 0) <=> (k % s[1] = 0 /\ k % s[2] = 0 /\ k % s[3] = 0 /\ k % s[4] = 0)
    OBVIOUS
  <2> QED
    BY <2>1 DEF Domain
<1>5. Minimum(p) = Lcm(s)
  BY DEF Minimum
<1>6. ASSUME NEW k \in Positive PROVE Resolves(p, Outer(p) * k) <=> multiple(k)
  <2>1. Resolves(p, Outer(p) * k) <=> (\A n \in Domain : k % Others(p, n) = 0) /\ (k \div a) % dec = 0
    BY ResolvesIs DEF Fits, TpFor, Domain
  <2>2. k % a = 0 => ((k \div a) % dec = 0 <=> k % (a * dec) = 0)
    <3> HIDE DEF a, dec
    <3> QED
      BY <1>2, MultipleOfProduct
  <2>3. "attention" \in Domain
    BY DEF Domain
  <2> QED
    BY <2>1, <2>2, <2>3
<1> HIDE DEF s, multiple
<1>7. /\ Lcm(s) \in Positive /\ \A i \in 1..4 : Lcm(s) % s[i] = 0
      /\ \A k \in Positive : (\A i \in 1..4 : k % s[i] = 0) => Lcm(s) <= k
  BY <1>3, LcmIsLeast
<1> QED
  BY <1>4, <1>5, <1>6, <1>7

(* infer_replica_world_size() answers with the smallest world that any     *)
(* choice of the omitted sizes fits, and raises only if there is none.     *)
LEMMA InferIsLeast ==
  ASSUME NEW p \in AnyConfig, NEW scope \in Positive, Resolves(p, Outer(p) * scope)
  PROVE  Infers(p) /\ Infer(p) <= Outer(p) * scope
<1>1. Outer(p) \in Nat /\ scope \in Nat
  BY ResolvesIs DEF Positive
<1>2. \A n \in Domain : Product(p.dims[n]) = Tp(p, n) * Others(p, n)
  BY DomainIs
<1>3. CASE \A n \in Domain : Tp(p, n) = Omitted
  <2>1. Explicit(p) = {}
    BY <1>3 DEF Explicit, Tp
  <2>2. Cardinality(Explicit(p)) = 0 /\ Infer(p) = Outer(p) * Minimum(p)
    BY <2>1, FS_EmptySet DEF Infer
  <2>3. Minimum(p) \in Nat /\ Resolves(p, Outer(p) * Minimum(p)) /\ Minimum(p) <= scope
    BY <1>3, MinimumIsLeast DEF Positive
  <2>4. Outer(p) * Minimum(p) <= Outer(p) * scope
    <3> DEFINE m == Minimum(p)
               u == Outer(p)
    <3>1. m \in Nat /\ u \in Nat /\ m <= scope
      BY <1>1, <2>3
    <3> HIDE DEF m, u
    <3>2. m * u <= scope * u /\ m * u = u * m /\ scope * u = u * scope
      BY <1>1, <3>1, TimesMonotone
    <3> QED
      BY <3>2 DEF m, u
  <2>5. Infers(p)
    BY <2>2, <2>3 DEF Infers
  <2> QED
    BY <2>2, <2>4, <2>5
<1>4. CASE \E n \in Domain : Tp(p, n) # Omitted
  <2>1. \A n \in Domain : Tp(p, n) # Omitted => Tp(p, n) * Others(p, n) = scope
    BY ResolvesIs DEF Fits
  <2>2. Explicit(p) = {scope}
    BY <1>2, <1>4, <2>1 DEF Explicit, Tp
  <2>3. Cardinality(Explicit(p)) = 1 /\ Min(Explicit(p)) = scope
    <3>1. Cardinality({scope}) = 1
      BY FS_Singleton
    <3>2. {scope} \in SUBSET Nat /\ {scope} # {}
      BY <1>1
    <3>3. Min({scope}) \in {scope}
      BY <3>2, MinIsLeast
    <3> QED
      BY <2>2, <3>1, <3>3
  <2>4. Infer(p) = Outer(p) * scope
    BY <2>2, <2>3 DEF Infer
  <2>5. Outer(p) * scope \in Nat
    BY <1>1
  <2> QED
    BY <2>3, <2>4, <2>5 DEF Infers
<1> QED
  BY <1>3, <1>4

(* infer_replica_world_size() is right about every configuration:          *)
(* InferredIsSmallest.                                                     *)
THEOREM InferenceIsRight == parallel \in AnyConfig => InferredIsSmallest
<1> SUFFICES ASSUME parallel \in AnyConfig PROVE InferredIsSmallest
  OBVIOUS
<1> DEFINE p == parallel
           s == <<Others(p, "dense"), Others(p, "attention"), Others(p, "moe")>>
           E == Explicit(p)
           l == p.decode * Lcm(s)
           e(n) == Product(p.dims[n])
           most == Max(E \cup {l})
<1>1. \A n \in Domain : Others(p, n) \in Positive /\ e(n) \in Nat
  <2> TAKE n \in Domain
  <2>1. Others(p, n) \in Positive /\ Tp(p, n) \in Nat /\ e(n) = Tp(p, n) * Others(p, n)
    BY DomainIs
  <2> QED
    BY <2>1, TimesNat DEF Positive
<1>2. Len(s) = 3 /\ DOMAIN s = 1..3 /\ \A i \in 1..3 : s[i] \in Positive
  BY <1>1 DEF Domain
<1>3. l \in Nat
  <2> HIDE DEF s
  <2>1. Lcm(s) \in Positive
    BY <1>2, LcmIsLeast
  <2>2. p.decode \in Nat
    BY DEF AnyConfig, Positive
  <2> QED
    BY <2>1, <2>2, TimesNat DEF Positive
<1>4. most \in Nat
  <2> DEFINE S == E \cup {l}
             b == e("dense") + e("attention") + e("moe") + l
  <2>1. e("dense") \in Nat /\ e("attention") \in Nat /\ e("moe") \in Nat
    BY <1>1 DEF Domain
  <2>2. \A y \in E : y \in {e("dense"), e("attention"), e("moe")}
    BY DEF Explicit, Domain
  <2> HIDE DEF l, e, E
  <2>3. S \in SUBSET Nat /\ S # {} /\ b \in Nat
    BY <1>3, <2>1, <2>2
  <2>4. \A y \in S : y <= b
    BY <1>3, <2>1, <2>2
  <2> HIDE DEF S, b
  <2>5. Max(S) \in S
    BY <2>3, <2>4, MaxIsGreatest
  <2> QED
    BY <2>3, <2>5 DEF S
<1>5. ASSUME NEW scope \in 1..most, Resolves(p, Outer(p) * scope)
      PROVE  Infers(p) /\ Infer(p) <= Outer(p) * scope
  <2>1. scope \in Positive
    <3> HIDE DEF most
    <3> QED
      BY <1>4 DEF Positive
  <2> QED
    BY <1>5, <2>1, InferIsLeast
<1> HIDE DEF most
<1> QED
  BY <1>5, Zenon DEF InferredIsSmallest, most, E, l, s, p

-----------------------------------------------------------------------------
(* build_rank_layout(): the groups of every rank.                          *)

(* The product of three naturals does not depend on how it is written. *)
LEMMA TimesThree ==
  ASSUME NEW a \in Nat, NEW b \in Nat, NEW c \in Nat
  PROVE  /\ a * b \in Nat /\ a * b * c \in Nat
         /\ a * (b * c) = a * b * c /\ b * a = a * b /\ c * (a * b) = a * b * c
         /\ a > 0 /\ b > 0 /\ c > 0 => a * b * c > 0
<1>1. a * b \in Nat /\ (a > 0 /\ b > 0 => a * b > 0)
  BY TimesNat
<1> DEFINE ab == a * b
<1>2. ab * c \in Nat /\ (ab > 0 /\ c > 0 => ab * c > 0)
  <2> HIDE DEF ab
  <2>1. ab \in Nat
    BY <1>1 DEF ab
  <2> QED
    BY <2>1, TimesNat
<1>3. a * (b * c) = a * b * c /\ b * a = a * b /\ c * (a * b) = a * b * c
  OBVIOUS
<1> QED
  BY <1>1, <1>2, <1>3

(* Numbers below a * b are pairs of one below a and one below b. *)
LEMMA Pairs ==
  ASSUME NEW a \in Nat, a > 0, NEW b \in Nat
  PROVE  /\ \A x \in 0..(a - 1), y \in 0..(b - 1) :
              /\ x + y * a \in 0..(a * b - 1)
              /\ (x + y * a) % a = x /\ (x + y * a) \div a = y
         /\ \A z \in 0..(a * b - 1) :
              /\ z % a \in 0..(a - 1) /\ z \div a \in 0..(b - 1)
              /\ z = (z % a) + (z \div a) * a
<1>1. ASSUME NEW x \in 0..(a - 1), NEW y \in 0..(b - 1)
      PROVE  /\ x + y * a \in 0..(a * b - 1)
             /\ (x + y * a) % a = x /\ (x + y * a) \div a = y
  <2>1. x \in Nat /\ y \in Nat /\ x < a /\ y < b
    OBVIOUS
  <2> DEFINE z == x + y * a
             n == a * b
  <2>2. y * a + x < b * a /\ b * a = n /\ n \in Nat
    BY <2>1, InBlock
  <2>3. z \in Nat /\ z = y * a + x /\ z = a * y + x
    BY <2>1
  <2> HIDE DEF z, n
  <2>4. z \div a = y /\ z % a = x
    BY <2>1, <2>3, DivIs
  <2>5. z \in 0..(n - 1)
    BY <2>2, <2>3
  <2> QED
    BY <2>4, <2>5 DEF z, n
<1>2. ASSUME NEW z \in 0..(a * b - 1)
      PROVE  /\ z % a \in 0..(a - 1) /\ z \div a \in 0..(b - 1)
             /\ z = (z % a) + (z \div a) * a
  <2> DEFINE q == z \div a
             m == z % a
  <2>1. z \in Nat /\ z < a * b
    BY TimesNat
  <2>2. q \in Nat /\ m \in Nat /\ m < a /\ z = a * q + m
    BY <2>1, DivMod
  <2> HIDE DEF q, m
  <2>3. z = m + q * a /\ a * q \in Nat /\ a * q = q * a /\ a * b = b * a
    BY <2>2
  <2>4. q < b
    <3> SUFFICES ASSUME b <= q PROVE FALSE
      BY <2>2
    <3>1. b * a <= q * a
      BY <2>2, TimesMonotone
    <3> DEFINE u == b * a
               w == q * a
    <3>2. u \in Nat /\ w \in Nat /\ u <= w /\ z < u /\ z = m + w
      BY <2>1, <2>2, <2>3, <3>1
    <3> HIDE DEF u, w
    <3> QED
      BY <2>2, <3>2
  <2> QED
    BY <2>2, <2>3, <2>4 DEF q, m
<1> QED
  BY <1>1, <1>2

(* Dividing by a product is dividing twice. *)
LEMMA DivTwice ==
  ASSUME NEW x \in Nat, NEW a \in Nat, a > 0, NEW b \in Nat, b > 0
  PROVE  x \div (a * b) = (x \div a) \div b
<1> DEFINE q == x \div a
           m == x % a
           u == q \div b
           w == q % b
           n == a * b
<1>1. q \in Nat /\ m \in Nat /\ m < a /\ x = a * q + m
  BY DivMod
<1> HIDE DEF q, m
<1>2. u \in Nat /\ w \in Nat /\ w < b /\ q = b * u + w
  BY <1>1, DivMod
<1> HIDE DEF u, w
<1>3. x = n * u + (w * a + m) /\ n \in Nat /\ n > 0
  <2>1. x = a * (b * u + w) + m
    BY <1>1, <1>2
  <2>2. a * (b * u + w) + m = (a * b) * u + (w * a + m)
    <3>1. u \in Nat /\ w \in Nat /\ m \in Nat
      BY <1>1, <1>2
    <3> QED
      BY <3>1
  <2>3. n \in Nat /\ n > 0
    BY TimesNat
  <2> QED
    BY <2>1, <2>2, <2>3
<1>4. w * a + m < n /\ w * a + m \in Nat
  <2>1. w * a + m < b * a
    BY <1>1, <1>2, InBlock
  <2>2. b * a = a * b /\ w * a \in Nat
    BY <1>2
  <2> QED
    BY <1>1, <2>1, <2>2
<1> DEFINE v == w * a + m
<1> HIDE DEF v, n
<1>5. x \div n = u
  <2>1. v \in Nat /\ v < n /\ x = n * u + v
    BY <1>3, <1>4 DEF v
  <2> QED
    BY <1>2, <1>3, <2>1, DivIs
<1> QED
  BY <1>5 DEF n, u, q

(* w numbers in c blocks of n, each of them b times a. *)
Cut(a, b, c, n, w) ==
  /\ a \in Nat /\ a > 0 /\ b \in Nat /\ b > 0 /\ c \in Nat
  /\ n = a * b /\ w = n * c

(* A number below a * b * c is a low part below a, a digit below b and a   *)
(* high part below c.                                                      *)
LEMMA Digits ==
  ASSUME NEW a, NEW b, NEW c, NEW n, NEW w, Cut(a, b, c, n, w)
  PROVE  /\ a \in Nat /\ a > 0 /\ b \in Nat /\ b > 0 /\ c \in Nat
         /\ n \in Nat /\ n > 0 /\ w \in Nat
         /\ \A lo \in 0..(a - 1), v \in 0..(b - 1), hi \in 0..(c - 1) :
              \A x : x = lo + v * a + hi * n =>
                /\ x \in 0..(w - 1)
                /\ x % a = lo /\ (x \div a) % b = v /\ x \div n = hi
         /\ \A x \in 0..(w - 1) :
              /\ x % a \in 0..(a - 1) /\ (x \div a) % b \in 0..(b - 1) /\ x \div n \in 0..(c - 1)
              /\ x = (x % a) + ((x \div a) % b) * a + (x \div n) * n
<1> USE DEF Cut
<1>1. n \in Nat /\ n > 0 /\ w \in Nat
  BY TimesNat
<1>2. ASSUME NEW lo \in 0..(a - 1), NEW v \in 0..(b - 1), NEW hi \in 0..(c - 1), NEW xx, xx = lo + v * a + hi * n
      PROVE  /\ xx \in 0..(w - 1)
             /\ xx % a = lo /\ (xx \div a) % b = v /\ xx \div n = hi
  <2> DEFINE y == lo + v * a
             x == y + hi * n
             z == v + hi * b
  <2>1. y \in 0..(n - 1)
    BY Pairs
  <2>2. x = lo + z * a /\ z \in Nat /\ x \in Nat /\ lo \in Nat /\ lo < a /\ v \in Nat /\ v < b /\ hi \in Nat
    <3>1. lo \in Nat /\ v \in Nat /\ hi \in Nat /\ lo < a /\ v < b
      OBVIOUS
    <3>2. lo + v * a + hi * (a * b) = lo + (v + hi * b) * a
      BY <3>1
    <3>3. v * a \in Nat /\ hi * n \in Nat /\ hi * b \in Nat
      BY <1>1, <3>1, TimesNat
    <3> QED
      BY <3>1, <3>2, <3>3
  <2> HIDE DEF y
  <2>3. x \in 0..(w - 1) /\ x \div n = hi
    BY <1>1, <2>1, Pairs
  <2> HIDE DEF x
  <2>4. z \div b = hi /\ z % b = v
    <3>1. z = b * hi + v
      BY <2>2
    <3> HIDE DEF z
    <3> QED
      BY <2>2, <3>1, DivIs
  <2> HIDE DEF z
  <2>5. x \div a = z /\ x % a = lo
    <3>1. x = a * z + lo
      BY <2>2
    <3> QED
      BY <2>2, <3>1, DivIs
  <2>6. (x \div a) % b = v
    BY <2>4, <2>5
  <2>7. x = xx
    BY <1>2 DEF x, y
  <2> QED
    BY <2>3, <2>5, <2>6, <2>7
<1>3. ASSUME NEW x \in 0..(w - 1)
      PROVE  /\ x % a \in 0..(a - 1) /\ (x \div a) % b \in 0..(b - 1) /\ x \div n \in 0..(c - 1)
             /\ x = (x % a) + ((x \div a) % b) * a + (x \div n) * n
  <2> DEFINE q == x \div a
             m == x % a
             u == x \div n
             k == q % b
  <2>1. x \in Nat
    BY <1>1
  <2>2. u \in 0..(c - 1)
    <3> QED
      BY <1>1, Pairs
  <2>3. q \in Nat /\ m \in Nat /\ m < a /\ x = a * q + m
    BY <2>1, DivMod
  <2>4. u = q \div b
    BY <2>1, DivTwice
  <2> HIDE DEF q, m
  <2>5. q \div b \in Nat /\ k \in Nat /\ k < b /\ q = b * (q \div b) + k
    BY <2>3, DivMod
  <2>6. u \in Nat /\ q = b * u + k
    BY <2>4, <2>5
  <2> HIDE DEF u, k
  <2>7. x = m + k * a + u * n
    <3>1. x = a * (b * u + k) + m
      BY <2>3, <2>6
    <3>2. a * (b * u + k) + m = m + k * a + u * (a * b)
      <4>1. u \in Nat /\ k \in Nat /\ m \in Nat
        BY <2>3, <2>5, <2>6
      <4> QED
        BY <4>1
    <3> QED
      BY <3>1, <3>2
  <2>8. m \in 0..(a - 1) /\ k \in 0..(b - 1)
    BY <2>3, <2>5
  <2> QED
    BY <2>2, <2>7, <2>8 DEF q, m, u, k
<1> QED
  BY <1>1, <1>2, <1>3

(* b ranks at distance a, in every place below a of each of c blocks of n. *)
Block(a, b, n, lo, hi) == [v \in 1..b |-> lo + (v - 1) * a + hi * n]
Strided(a, b, n, c)    == {Block(a, b, n, lo, hi) : lo \in 0..(a - 1), hi \in 0..(c - 1)}

(* The ranks of such a block have its low and high part in common, and     *)
(* are all that have.                                                      *)
LEMMA BlockIs ==
  ASSUME NEW a, NEW b, NEW c, NEW n, NEW w, Cut(a, b, c, n, w),
         NEW lo \in 0..(a - 1), NEW hi \in 0..(c - 1), NEW g, g = Block(a, b, n, lo, hi)
  PROVE  /\ DOMAIN g = 1..b /\ Len(g) = b
         /\ \A i \in 1..b : g[i] \in 0..(w - 1) /\ (g[i] \div a) % b = i - 1 /\ (i > 1 => g[i - 1] < g[i])
         /\ \A x \in 0..(w - 1) : x \in ToSet(g) <=> x % a = lo /\ x \div n = hi
         /\ ToSet(g) \subseteq 0..(w - 1)
<1>1. a \in Nat /\ a > 0 /\ b \in Nat /\ b > 0 /\ n \in Nat /\ n > 0 /\ w \in Nat
  BY Digits
<1>2. DOMAIN g = 1..b
  BY DEF Block
<1>3. ASSUME NEW i \in 1..b
      PROVE  /\ g[i] \in 0..(w - 1) /\ g[i] = lo + (i - 1) * a + hi * n
             /\ g[i] % a = lo /\ (g[i] \div a) % b = i - 1 /\ g[i] \div n = hi
  <2> DEFINE v == i - 1
             x == g[i]
  <2>1. x = lo + v * a + hi * n
    BY DEF Block
  <2>2. v \in 0..(b - 1)
    BY <1>1
  <2> HIDE DEF v, x
  <2>3. x \in 0..(w - 1) /\ x % a = lo /\ (x \div a) % b = v /\ x \div n = hi
    BY <2>1, <2>2, Digits
  <2> QED
    BY <2>1, <2>3 DEF v, x
<1>4. ASSUME NEW i \in 1..b, i > 1 PROVE g[i - 1] < g[i]
  <2> DEFINE k == i - 1
  <2>1. k \in 1..b /\ k \in Nat /\ k - 1 \in Nat /\ hi \in Nat /\ lo \in Nat
    BY <1>1, <1>4
  <2>2. g[i] = lo + k * a + hi * n
    BY <1>3
  <2> HIDE DEF k
  <2>3. g[k] = lo + (k - 1) * a + hi * n
    BY <1>3, <2>1
  <2>4. k * a = (k - 1) * a + a /\ (k - 1) * a \in Nat /\ hi * n \in Nat
    BY <1>1, <2>1, TimesNat
  <2> DEFINE y == (k - 1) * a
             z == hi * n
  <2>5. g[i] = lo + (y + a) + z /\ g[k] = lo + y + z /\ y \in Nat /\ z \in Nat
    BY <2>2, <2>3, <2>4
  <2> HIDE DEF y, z
  <2>6. g[k] < g[i]
    BY <1>1, <2>1, <2>5
  <2> QED
    BY <2>6 DEF k
<1>5. ASSUME NEW x \in 0..(w - 1)
      PROVE  x \in ToSet(g) <=> x % a = lo /\ x \div n = hi
  <2>1. ASSUME x \in ToSet(g) PROVE x % a = lo /\ x \div n = hi
    <3>1. PICK i \in 1..b : x = g[i]
      BY <1>2, <2>1 DEF ToSet
    <3> QED
      BY <1>3, <3>1
  <2>2. ASSUME x % a = lo, x \div n = hi PROVE x \in ToSet(g)
    <3> DEFINE v == (x \div a) % b
    <3>1. v \in 0..(b - 1) /\ x = (x % a) + v * a + (x \div n) * n
      BY Digits
    <3> HIDE DEF v
    <3>2. v + 1 \in 1..b /\ (v + 1) - 1 = v
      BY <1>1, <3>1
    <3>3. g[v + 1] = lo + v * a + hi * n
      BY <1>3, <3>2
    <3>4. x = lo + v * a + hi * n
      BY <2>2, <3>1
    <3> QED
      BY <1>2, <3>2, <3>3, <3>4 DEF ToSet
  <2> QED
    BY <2>1, <2>2
<1>6. ToSet(g) \subseteq 0..(w - 1)
  BY <1>2, <1>3 DEF ToSet
<1>7. Len(g) = b
  BY <1>1 DEF Block
<1> QED
  BY <1>2, <1>3, <1>4, <1>5, <1>6, <1>7

(* Such a family is one that RankLayout accepts, and the place of a rank   *)
(* in its group is its digit.                                              *)
LEMMA StridedIs ==
  ASSUME NEW a, NEW b, NEW c, NEW n, NEW w, Cut(a, b, c, n, w),
         NEW F, F = Strided(a, b, n, c)
  PROVE  /\ Accepted(F, w)
         /\ \A x \in 0..(w - 1) :
              /\ \A y \in 0..(w - 1) : y \in ToSet(MembersFor(F, x)) <=> y % a = x % a /\ y \div n = x \div n
              /\ ToSet(MembersFor(F, x)) \subseteq 0..(w - 1)
              /\ GroupRank(F, x) = (x \div a) % b
<1> DEFINE ranks == 0..(w - 1)
           own(x) == Block(a, b, n, x % a, x \div n)
<1>0. b \in Nat /\ b > 0
  BY Digits
<1>1. ASSUME NEW lo \in 0..(a - 1), NEW hi \in 0..(c - 1), NEW g, g = Block(a, b, n, lo, hi)
      PROVE  /\ DOMAIN g = 1..b /\ Len(g) = b
             /\ \A i \in 1..b : g[i] \in ranks /\ (g[i] \div a) % b = i - 1 /\ (i > 1 => g[i - 1] < g[i])
             /\ \A x \in ranks : x \in ToSet(g) <=> x % a = lo /\ x \div n = hi
             /\ ToSet(g) \subseteq ranks
  BY <1>1, BlockIs
<1>2. ASSUME NEW x \in ranks
      PROVE  /\ own(x) \in F
             /\ \A y \in ranks : y \in ToSet(own(x)) <=> y % a = x % a /\ y \div n = x \div n
  <2> DEFINE l == x % a
             h == x \div n
  <2>1. l \in 0..(a - 1) /\ h \in 0..(c - 1)
    BY Digits
  <2>2. own(x) \in F
    BY <2>1 DEF Strided
  <2>3. own(x) = Block(a, b, n, l, h)
    OBVIOUS
  <2> HIDE DEF l, h, own, ranks
  <2>4. \A y \in ranks : y \in ToSet(own(x)) <=> y % a = l /\ y \div n = h
    BY <1>1, <2>1, <2>3
  <2> QED
    BY <2>2, <2>4 DEF l, h
<1>3. ASSUME NEW g \in F
      PROVE  /\ DOMAIN g = 1..b /\ Len(g) = b
             /\ \A i \in 1..b : g[i] \in ranks /\ (g[i] \div a) % b = i - 1 /\ (i > 1 => g[i - 1] < g[i])
             /\ \A x \in ranks : x \in ToSet(g) <=> g = own(x)
             /\ ToSet(g) \subseteq ranks
  <2>1. PICK lo \in 0..(a - 1), hi \in 0..(c - 1) : g = Block(a, b, n, lo, hi)
    BY DEF Strided
  <2>2. /\ DOMAIN g = 1..b /\ Len(g) = b
        /\ \A i \in 1..b : g[i] \in ranks /\ (g[i] \div a) % b = i - 1 /\ (i > 1 => g[i - 1] < g[i])
        /\ \A x \in ranks : x \in ToSet(g) <=> x % a = lo /\ x \div n = hi
        /\ ToSet(g) \subseteq ranks
    <3> HIDE DEF ranks
    <3> QED
      BY <1>1, <2>1
  <2>3. ASSUME NEW x \in ranks PROVE x \in ToSet(g) <=> g = own(x)
    <3>1. ASSUME x \in ToSet(g) PROVE g = own(x)
      BY <2>1, <2>2, <3>1
    <3>2. ASSUME g = own(x) PROVE x \in ToSet(g)
      <4> HIDE DEF own, ranks
      <4> QED
        BY <1>2, <3>2
    <3> QED
      BY <3>1, <3>2
  <2> HIDE DEF ranks, own
  <2> QED
    BY <2>2, <2>3
<1>4. ASSUME NEW x \in ranks PROVE MembersFor(F, x) = own(x) /\ {g \in F : x \in ToSet(g)} = {own(x)}
  <2> HIDE DEF own, ranks
  <2>1. \A g \in F : x \in ToSet(g) <=> g = own(x)
    BY <1>3
  <2> QED
    BY <1>2, <2>1 DEF MembersFor
<1>5. Accepted(F, w)
  <2>1. ASSUME NEW g \in F PROVE g # <<>> /\ \A i \in DOMAIN g : g[i] \in ranks /\ (i > 1 => g[i - 1] < g[i])
    <3>1. DOMAIN g = 1..b /\ Len(g) = b /\ Len(<<>>) = 0
      BY <1>3
    <3>2. g # <<>>
      BY <1>0, <3>1
    <3> QED
      BY <1>3, <3>1, <3>2
  <2>2. ASSUME NEW x \in ranks PROVE Cardinality({g \in F : x \in ToSet(g)}) = 1
    <3> HIDE DEF own, ranks
    <3> QED
      BY <1>4, FS_Singleton
  <2> QED
    BY <2>1, <2>2 DEF Accepted
<1>6. ASSUME NEW x \in ranks
      PROVE  /\ \A y \in ranks : y \in ToSet(MembersFor(F, x)) <=> y % a = x % a /\ y \div n = x \div n
             /\ ToSet(MembersFor(F, x)) \subseteq ranks
             /\ GroupRank(F, x) = (x \div a) % b
  <2> DEFINE g == own(x)
             v == (x \div a) % b
  <2>1. MembersFor(F, x) = g /\ g \in F
    BY <1>2, <1>4
  <2>2. \A y \in ranks : y \in ToSet(g) <=> y % a = x % a /\ y \div n = x \div n
    BY <1>2
  <2> HIDE DEF g
  <2>3. ToSet(g) \subseteq ranks /\ Len(g) = b /\ DOMAIN g = 1..b /\ \A i \in 1..b : (g[i] \div a) % b = i - 1
    BY <1>3, <2>1
  <2>4. x \in ToSet(g)
    BY <2>2
  <2>5. PICK i \in 1..b : g[i] = x
    BY <2>3, <2>4 DEF ToSet
  <2>6. v = i - 1
    BY <2>3, <2>5
  <2>7. \A j \in 0..(Len(g) - 1) : g[j + 1] = x <=> j = v
    <3> TAKE j \in 0..(Len(g) - 1)
    <3>1. j + 1 \in 1..b
      BY <1>0, <2>3
    <3>2. g[j + 1] = x => v = j
      <4>1. (g[j + 1] \div a) % b = (j + 1) - 1
        BY <2>3, <3>1
      <4>2. (j + 1) - 1 = j
        BY <3>1
      <4> QED
        BY <4>1, <4>2
    <3> HIDE DEF v
    <3> QED
      BY <2>5, <2>6, <3>2
  <2> HIDE DEF v
  <2>8. v \in 0..(Len(g) - 1)
    BY <1>0, <2>3, <2>6
  <2>9. GroupRank(F, x) = v
    BY <2>1, <2>7, <2>8 DEF GroupRank
  <2> QED
    BY <2>1, <2>2, <2>3, <2>9 DEF v
<1> QED
  BY <1>5, <1>6

(* The place with two or three coordinates. *)
LEMMA LocalIs ==
  ASSUME NEW sizes, NEW len \in 2..3, Len(sizes) = len, \A i \in 1..len : sizes[i] \in Nat,
         NEW coords, \A i \in 1..len : coords[i] \in Nat
  PROVE  /\ len = 2 => Local(sizes, coords) = coords[1] + coords[2] * sizes[1]
         /\ len = 3 => Local(sizes, coords) = coords[1] + coords[2] * sizes[1] + coords[3] * (sizes[1] * sizes[2])
<1> DEFINE m(i) == coords[i] * Stride(sizes, i)
           sum[i \in 0..len] == IF i = 0 THEN 0 ELSE sum[i - 1] + m(i)
<1>1. Local(sizes, coords) = sum[len]
  BY DEF Local
<1>2. Stride(sizes, 1) = 1 /\ Stride(sizes, 2) = sizes[1] /\ (len = 3 => Stride(sizes, 3) = sizes[1] * sizes[2])
  <2>1. ProductTo(sizes, 0) = 1
    <3>1. 0 \in 0..4 /\ \A i \in 1..0 : sizes[i] \in Nat
      OBVIOUS
    <3> QED
      BY <3>1, ProductOfFour
  <2>2. ProductTo(sizes, 1) = sizes[1]
    <3>1. 1 \in 0..4 /\ \A i \in 1..1 : sizes[i] \in Nat
      OBVIOUS
    <3> QED
      BY <3>1, ProductOfFour
  <2>3. ProductTo(sizes, 2) = sizes[1] * sizes[2]
    <3>1. 2 \in 0..4 /\ \A i \in 1..2 : sizes[i] \in Nat
      OBVIOUS
    <3> QED
      BY <3>1, ProductOfFour
  <2> QED
    BY <2>1, <2>2, <2>3 DEF Stride
<1>3. m(1) = coords[1] /\ m(2) = coords[2] * sizes[1] /\ (len = 3 => m(3) = coords[3] * (sizes[1] * sizes[2]))
  BY <1>2
<1>4. m(1) \in Nat /\ m(2) \in Nat /\ (len = 3 => m(3) \in Nat)
  <2>1. coords[1] \in Nat /\ coords[2] * sizes[1] \in Nat
    BY TimesNat
  <2>2. len = 3 => coords[3] * (sizes[1] * sizes[2]) \in Nat
    <3>1. sizes[1] * sizes[2] \in Nat
      BY TimesNat
    <3> DEFINE y == sizes[1] * sizes[2]
    <3> HIDE DEF y
    <3>2. len = 3 => coords[3] * y \in Nat
      BY <3>1, TimesNat DEF y
    <3> QED
      BY <3>2 DEF y
  <2> HIDE DEF m
  <2> QED
    BY <1>3, <2>1, <2>2
<1> HIDE DEF m
<1>5. \E f : f = [i \in 0..len |-> IF i = 0 THEN 0 ELSE f[i - 1] + m(i)]
  <2> DEFINE g == [i \in 0..len |-> IF i = 0 THEN 0 ELSE IF i = 1 THEN 0 + m(1) ELSE IF i = 2 THEN 0 + m(1) + m(2)
                                     ELSE 0 + m(1) + m(2) + m(3)]
             h == [i \in 0..len |-> IF i = 0 THEN 0 ELSE g[i - 1] + m(i)]
  <2>1. ASSUME NEW i \in 0..len PROVE g[i] = h[i]
    <3>1. i \in 0..3 /\ i <= len
      OBVIOUS
    <3>2. CASE i = 0
      BY <3>2
    <3>3. CASE i = 1
      <4>1. 0 \in 0..len
        OBVIOUS
      <4> QED
        BY <3>3, <4>1
    <3>4. CASE i = 2
      <4>1. 1 \in 0..len
        OBVIOUS
      <4> QED
        BY <3>4, <4>1
    <3>5. CASE i = 3
      <4>1. 2 \in 0..len
        OBVIOUS
      <4> QED
        BY <3>5, <4>1
    <3> QED
      BY <3>1, <3>2, <3>3, <3>4, <3>5
  <2>2. g = [i \in 0..len |-> g[i]] /\ h = [i \in 0..len |-> h[i]]
    OBVIOUS
  <2> HIDE DEF g
  <2>3. g = h
    <3> HIDE DEF h
    <3> QED
      BY <2>1, <2>2
  <2> QED
    BY <2>3
<1>6. sum = [i \in 0..len |-> IF i = 0 THEN 0 ELSE sum[i - 1] + m(i)]
  BY <1>5
<1> HIDE DEF sum
<1>7. sum[0] = 0
  BY <1>6
<1>8. sum[1] = m(1)
  BY <1>4, <1>6, <1>7
<1>9. sum[2] = m(1) + m(2)
  BY <1>6, <1>8
<1>10. len = 3 => sum[3] = m(1) + m(2) + m(3)
  BY <1>6, <1>9
<1> QED
  BY <1>1, <1>3, <1>9, <1>10

(* The coordinates of a group: all but coordinate k. *)
Fixed(sizes, k) ==
  {c \in [DOMAIN sizes -> Nat] : c[k] = 0 /\ \A i \in DOMAIN sizes : c[i] < sizes[i]}

(* The groups of a domain. *)
LEMMA GroupsAre ==
  ASSUME NEW sizes, NEW len \in 2..3, DOMAIN sizes = 1..len, \A i \in 1..len : sizes[i] \in Positive,
         NEW k \in 1..len, NEW base
  PROVE  DimensionGroups(base, sizes, k) =
           {[v \in 1..sizes[k] |-> base + Local(sizes, [c EXCEPT ![k] = v - 1])] : c \in Fixed(sizes, k)}
<1> DEFINE S == ToSet(sizes)
           most == Max(S)
           fixed == {c \in [DOMAIN sizes -> 0..(most - 1)] : c[k] = 0 /\ \A i \in DOMAIN sizes : c[i] < sizes[i]}
<1>1. most \in Nat /\ \A i \in 1..len : sizes[i] \in Nat /\ sizes[i] <= most
  <2> DEFINE b == sizes[1] + sizes[2] + (IF len = 3 THEN sizes[3] ELSE 0)
  <2>1. \A i \in 1..len : sizes[i] \in Nat /\ sizes[i] > 0
    BY DEF Positive
  <2>2. b \in Nat /\ \A i \in 1..len : sizes[i] <= b
    <3>1. 1 \in 1..len /\ 2 \in 1..len /\ (len = 3 => 3 \in 1..len) /\ \A i \in 1..len : i = 1 \/ i = 2 \/ (i = 3 /\ len = 3)
      OBVIOUS
    <3>2. sizes[1] \in Nat /\ sizes[2] \in Nat /\ (len = 3 => sizes[3] \in Nat)
      BY <2>1, <3>1
    <3> QED
      BY <3>1, <3>2
  <2> HIDE DEF b
  <2>3. S \in SUBSET Nat /\ S # {} /\ \A y \in S : y <= b
    <3>1. sizes[1] \in S
      BY DEF ToSet
    <3> QED
      BY <2>1, <2>2, <3>1 DEF ToSet
  <2>4. \A i \in 1..len : sizes[i] \in S
    BY DEF ToSet
  <2> HIDE DEF S
  <2>5. most \in S /\ \A y \in S : y <= most
    BY <2>2, <2>3, MaxIsGreatest
  <2> QED
    BY <2>1, <2>3, <2>4, <2>5
<1> HIDE DEF most
<1>2. fixed = Fixed(sizes, k)
  <2>1. ASSUME NEW c \in fixed PROVE c \in Fixed(sizes, k)
    <3>1. c \in [DOMAIN sizes -> Nat]
      BY <1>1
    <3> QED
      BY <3>1 DEF Fixed
  <2>2. ASSUME NEW c \in Fixed(sizes, k) PROVE c \in fixed
    <3>1. c \in [DOMAIN sizes -> Nat] /\ c[k] = 0 /\ \A i \in DOMAIN sizes : c[i] < sizes[i]
      BY DEF Fixed
    <3>2. \A i \in DOMAIN sizes : c[i] \in 0..(most - 1)
      BY <1>1, <3>1
    <3>3. c \in [DOMAIN sizes -> 0..(most - 1)]
      BY <3>1, <3>2
    <3> QED
      BY <3>1, <3>3
  <2> QED
    BY <2>1, <2>2
<1>3. DimensionGroups(base, sizes, k) =
        {[v \in 1..sizes[k] |-> base + Local(sizes, [c EXCEPT ![k] = v - 1])] : c \in fixed}
  BY Zenon DEF DimensionGroups, most
<1> HIDE DEF fixed
<1> QED
  BY <1>2, <1>3

(* Ranks at distance a within a part of the world that starts at base. *)
Part(base, a, b, n, d) ==
  {[v \in 1..b |-> base + (lo + (v - 1) * a + hi * n)] : lo \in 0..(a - 1), hi \in 0..(d - 1)}

(* The first coordinate of two. *)
LEMMA FirstOfTwo ==
  ASSUME NEW t \in Positive, NEW d \in Positive, NEW base \in Nat
  PROVE  DimensionGroups(base, <<t, d>>, 1) = Part(base, 1, t, t, d)
<1> DEFINE sizes == <<t, d>>
           grp(c) == [v \in 1..sizes[1] |-> base + Local(sizes, [c EXCEPT ![1] = v - 1])]
           part(lo, hi) == [v \in 1..t |-> base + (lo + (v - 1) * 1 + hi * t)]
           low(c) == 0
           high(c) == c[2]
           grps == {grp(c) : c \in Fixed(sizes, 1)}
           lows == 0..(1 - 1)
           highs == 0..(d - 1)
           parts == {part(lo, hi) : lo \in lows, hi \in highs}
<1>1. t \in Nat /\ t > 0 /\ d \in Nat /\ d > 0
  BY DEF Positive
<1>2. DOMAIN sizes = 1..2 /\ Len(sizes) = 2 /\ sizes[1] = t /\ sizes[2] = d
  OBVIOUS
<1>3. \A i \in 1..2 : sizes[i] \in Nat /\ sizes[i] \in Positive
  BY <1>1, <1>2
<1> HIDE DEF sizes
<1>4. DimensionGroups(base, sizes, 1) = grps
  BY <1>2, <1>3, GroupsAre
<1>5. ASSUME NEW c \in Fixed(sizes, 1)
      PROVE  grp(c) = part(low(c), high(c)) /\ low(c) \in 0..(1 - 1) /\ high(c) \in 0..(d - 1)
  <2>1. c \in [1..2 -> Nat] /\ c[1] = 0 /\ c[1] \in Nat /\ c[1] < t /\ c[2] \in Nat /\ c[2] < d
    BY <1>2 DEF Fixed
  <2>2. ASSUME NEW v \in 1..t
        PROVE  base + Local(sizes, [c EXCEPT ![1] = v - 1]) = base + (low(c) + (v - 1) * 1 + high(c) * t)
    <3> DEFINE e == [c EXCEPT ![1] = v - 1]
               u == v - 1
    <3>1. u \in Nat /\ v \in Nat
      BY <1>1
    <3>2. e[1] = u /\ e[2] = c[2]
      BY <2>1
    <3> HIDE DEF e, u
    <3>3. \A i \in 1..2 : e[i] \in Nat
      BY <2>1, <3>1, <3>2
    <3>4. Local(sizes, e) = e[1] + e[2] * t
      BY <1>2, <1>3, <3>3, LocalIs
    <3>5. e[1] + e[2] * t = low(c) + u * 1 + high(c) * t
      BY <1>1, <2>1, <3>1, <3>2
    <3> QED
      BY <3>4, <3>5 DEF e, u
  <2>3. grp(c) = part(low(c), high(c))
    BY <1>2, <2>2
  <2>4. low(c) \in 0..(1 - 1) /\ high(c) \in 0..(d - 1)
    BY <1>1, <2>1
  <2> QED
    BY <2>3, <2>4
<1>6. ASSUME NEW lo \in 0..(1 - 1), NEW hi \in 0..(d - 1)
      PROVE  \E c \in Fixed(sizes, 1) : low(c) = lo /\ high(c) = hi
  <2> DEFINE c == <<0, hi>>
  <2>1. lo \in Nat /\ hi \in Nat /\ lo = 0 /\ hi < d
    BY <1>1
  <2>2. c \in [1..2 -> Nat] /\ low(c) = lo /\ high(c) = hi /\ c[1] = 0
    BY <2>1
  <2>3. \A i \in 1..2 : c[i] < sizes[i]
    BY <1>1, <1>2, <2>1
  <2> HIDE DEF c, low, high
  <2>4. c \in Fixed(sizes, 1)
    BY <1>2, <2>2, <2>3 DEF Fixed
  <2> QED
    BY <2>2, <2>4
<1>7. Part(base, 1, t, t, d) = parts
  BY DEF Part
<1> HIDE DEF grp, part, low, high, lows, highs
<1>8. grps = parts
  <2>1. ASSUME NEW c \in Fixed(sizes, 1)
        PROVE  grp(c) = part(low(c), high(c)) /\ low(c) \in lows /\ high(c) \in highs
    BY <1>5 DEF lows, highs
  <2>2. ASSUME NEW lo \in lows, NEW hi \in highs
        PROVE  \E c \in Fixed(sizes, 1) : low(c) = lo /\ high(c) = hi
    BY <1>6 DEF lows, highs
  <2>3. ASSUME NEW lo \in lows, NEW hi \in highs
        PROVE  part(lo, hi) \in grps
    BY <2>1, <2>2
  <2>4. ASSUME NEW c \in Fixed(sizes, 1)
        PROVE  grp(c) \in parts
    BY <2>1
  <2> QED
    BY <2>3, <2>4
<1> HIDE DEF grps, parts
<1>9. DimensionGroups(base, sizes, 1) = Part(base, 1, t, t, d)
  BY <1>4, <1>7, <1>8
<1> QED
  BY <1>9 DEF sizes

(* The second coordinate of two. *)
LEMMA SecondOfTwo ==
  ASSUME NEW t \in Positive, NEW d \in Positive, NEW base \in Nat
  PROVE  DimensionGroups(base, <<t, d>>, 2) = Part(base, t, d, t * d, 1)
<1> DEFINE sizes == <<t, d>>
           grp(c) == [v \in 1..sizes[2] |-> base + Local(sizes, [c EXCEPT ![2] = v - 1])]
           part(lo, hi) == [v \in 1..d |-> base + (lo + (v - 1) * t + hi * (t * d))]
           low(c) == c[1]
           high(c) == 0
           grps == {grp(c) : c \in Fixed(sizes, 2)}
           lows == 0..(t - 1)
           highs == 0..(1 - 1)
           parts == {part(lo, hi) : lo \in lows, hi \in highs}
<1>1. t \in Nat /\ t > 0 /\ d \in Nat /\ d > 0
  BY DEF Positive
<1>2. DOMAIN sizes = 1..2 /\ Len(sizes) = 2 /\ sizes[1] = t /\ sizes[2] = d
  OBVIOUS
<1>3. \A i \in 1..2 : sizes[i] \in Nat /\ sizes[i] \in Positive
  BY <1>1, <1>2
<1> HIDE DEF sizes
<1>4. DimensionGroups(base, sizes, 2) = grps
  BY <1>2, <1>3, GroupsAre
<1>5. ASSUME NEW c \in Fixed(sizes, 2)
      PROVE  grp(c) = part(low(c), high(c)) /\ low(c) \in 0..(t - 1) /\ high(c) \in 0..(1 - 1)
  <2>1. c \in [1..2 -> Nat] /\ c[2] = 0 /\ c[1] \in Nat /\ c[1] < t /\ c[2] \in Nat /\ c[2] < d
    BY <1>2 DEF Fixed
  <2>2. ASSUME NEW v \in 1..d
        PROVE  base + Local(sizes, [c EXCEPT ![2] = v - 1]) = base + (low(c) + (v - 1) * t + high(c) * (t * d))
    <3> DEFINE e == [c EXCEPT ![2] = v - 1]
               u == v - 1
    <3>1. u \in Nat /\ v \in Nat
      BY <1>1
    <3>2. e[2] = u /\ e[1] = c[1]
      BY <2>1
    <3> HIDE DEF e, u
    <3>3. \A i \in 1..2 : e[i] \in Nat
      BY <2>1, <3>1, <3>2
    <3>4. Local(sizes, e) = e[1] + e[2] * t
      BY <1>2, <1>3, <3>3, LocalIs
    <3>5. e[1] + e[2] * t = low(c) + u * t + high(c) * (t * d)
      BY <1>1, <2>1, <3>1, <3>2
    <3> QED
      BY <3>4, <3>5 DEF e, u
  <2>3. grp(c) = part(low(c), high(c))
    BY <1>2, <2>2
  <2>4. low(c) \in 0..(t - 1) /\ high(c) \in 0..(1 - 1)
    BY <1>1, <2>1
  <2> QED
    BY <2>3, <2>4
<1>6. ASSUME NEW lo \in 0..(t - 1), NEW hi \in 0..(1 - 1)
      PROVE  \E c \in Fixed(sizes, 2) : low(c) = lo /\ high(c) = hi
  <2> DEFINE c == <<lo, 0>>
  <2>1. lo \in Nat /\ hi \in Nat /\ hi = 0 /\ lo < t
    BY <1>1
  <2>2. c \in [1..2 -> Nat] /\ low(c) = lo /\ high(c) = hi /\ c[2] = 0
    BY <2>1
  <2>3. \A i \in 1..2 : c[i] < sizes[i]
    BY <1>1, <1>2, <2>1
  <2> HIDE DEF c, low, high
  <2>4. c \in Fixed(sizes, 2)
    BY <1>2, <2>2, <2>3 DEF Fixed
  <2> QED
    BY <2>2, <2>4
<1>7. Part(base, t, d, t * d, 1) = parts
  BY DEF Part
<1> HIDE DEF grp, part, low, high, lows, highs
<1>8. grps = parts
  <2>1. ASSUME NEW c \in Fixed(sizes, 2)
        PROVE  grp(c) = part(low(c), high(c)) /\ low(c) \in lows /\ high(c) \in highs
    BY <1>5 DEF lows, highs
  <2>2. ASSUME NEW lo \in lows, NEW hi \in highs
        PROVE  \E c \in Fixed(sizes, 2) : low(c) = lo /\ high(c) = hi
    BY <1>6 DEF lows, highs
  <2>3. ASSUME NEW lo \in lows, NEW hi \in highs
        PROVE  part(lo, hi) \in grps
    BY <2>1, <2>2
  <2>4. ASSUME NEW c \in Fixed(sizes, 2)
        PROVE  grp(c) \in parts
    BY <2>1
  <2> QED
    BY <2>3, <2>4
<1> HIDE DEF grps, parts
<1>9. DimensionGroups(base, sizes, 2) = Part(base, t, d, t * d, 1)
  BY <1>4, <1>7, <1>8
<1> QED
  BY <1>9 DEF sizes

(* The first coordinate of three. *)
LEMMA FirstOfThree ==
  ASSUME NEW t \in Positive, NEW m \in Positive, NEW d \in Positive, NEW base \in Nat
  PROVE  DimensionGroups(base, <<t, m, d>>, 1) = Part(base, 1, t, t, m * d)
<1> DEFINE sizes == <<t, m, d>>
           grp(c) == [v \in 1..sizes[1] |-> base + Local(sizes, [c EXCEPT ![1] = v - 1])]
           part(lo, hi) == [v \in 1..t |-> base + (lo + (v - 1) * 1 + hi * t)]
           low(c) == 0
           high(c) == c[2] + c[3] * m
           grps == {grp(c) : c \in Fixed(sizes, 1)}
           lows == 0..(1 - 1)
           highs == 0..(m * d - 1)
           parts == {part(lo, hi) : lo \in lows, hi \in highs}
<1>1. t \in Nat /\ t > 0 /\ m \in Nat /\ m > 0 /\ d \in Nat /\ d > 0
  BY DEF Positive
<1>2. DOMAIN sizes = 1..3 /\ Len(sizes) = 3 /\ sizes[1] = t /\ sizes[2] = m /\ sizes[3] = d
  OBVIOUS
<1>3. \A i \in 1..3 : sizes[i] \in Nat /\ sizes[i] \in Positive
  BY <1>1, <1>2
<1> HIDE DEF sizes
<1>4. DimensionGroups(base, sizes, 1) = grps
  BY <1>2, <1>3, GroupsAre
<1>5. ASSUME NEW c \in Fixed(sizes, 1)
      PROVE  grp(c) = part(low(c), high(c)) /\ low(c) \in 0..(1 - 1) /\ high(c) \in 0..(m * d - 1)
  <2>1. c \in [1..3 -> Nat] /\ c[1] = 0 /\ c[1] \in Nat /\ c[1] < t /\ c[2] \in Nat /\ c[2] < m /\ c[3] \in Nat /\ c[3] < d
    BY <1>2 DEF Fixed
  <2>2. ASSUME NEW v \in 1..t
        PROVE  base + Local(sizes, [c EXCEPT ![1] = v - 1]) = base + (low(c) + (v - 1) * 1 + high(c) * t)
    <3> DEFINE e == [c EXCEPT ![1] = v - 1]
               u == v - 1
    <3>1. u \in Nat /\ v \in Nat
      BY <1>1
    <3>2. e[1] = u /\ e[2] = c[2] /\ e[3] = c[3]
      BY <2>1
    <3> HIDE DEF e, u
    <3>3. \A i \in 1..3 : e[i] \in Nat
      BY <2>1, <3>1, <3>2
    <3>4. Local(sizes, e) = e[1] + e[2] * t + e[3] * (t * m)
      BY <1>2, <1>3, <3>3, LocalIs
    <3>5. e[1] + e[2] * t + e[3] * (t * m) = low(c) + u * 1 + high(c) * t
      BY <1>1, <2>1, <3>1, <3>2
    <3> QED
      BY <3>4, <3>5 DEF e, u
  <2>3. grp(c) = part(low(c), high(c))
    BY <1>2, <2>2
  <2>4. low(c) \in 0..(1 - 1) /\ high(c) \in 0..(m * d - 1)
    BY <1>1, <2>1, Pairs
  <2> QED
    BY <2>3, <2>4
<1>6. ASSUME NEW lo \in 0..(1 - 1), NEW hi \in 0..(m * d - 1)
      PROVE  \E c \in Fixed(sizes, 1) : low(c) = lo /\ high(c) = hi
  <2> DEFINE x == hi % m
             y == hi \div m
  <2>1. x \in 0..(m - 1) /\ y \in 0..(d - 1) /\ hi = x + y * m
    BY <1>1, Pairs
  <2> HIDE DEF x, y
  <2> DEFINE c == <<0, x, y>>
  <2>2. x \in Nat /\ y \in Nat /\ x < m /\ y < d /\ lo = 0
    BY <1>1, <2>1
  <2>3. c \in [1..3 -> Nat] /\ low(c) = lo /\ high(c) = hi /\ c[1] = 0
    BY <2>1, <2>2
  <2>4. \A i \in 1..3 : c[i] < sizes[i]
    BY <1>1, <1>2, <2>2
  <2> HIDE DEF c, low, high
  <2>5. c \in Fixed(sizes, 1)
    BY <1>2, <2>3, <2>4 DEF Fixed
  <2> QED
    BY <2>3, <2>5
<1>7. Part(base, 1, t, t, m * d) = parts
  BY DEF Part
<1> HIDE DEF grp, part, low, high, lows, highs
<1>8. grps = parts
  <2>1. ASSUME NEW c \in Fixed(sizes, 1)
        PROVE  grp(c) = part(low(c), high(c)) /\ low(c) \in lows /\ high(c) \in highs
    BY <1>5 DEF lows, highs
  <2>2. ASSUME NEW lo \in lows, NEW hi \in highs
        PROVE  \E c \in Fixed(sizes, 1) : low(c) = lo /\ high(c) = hi
    BY <1>6 DEF lows, highs
  <2>3. ASSUME NEW lo \in lows, NEW hi \in highs
        PROVE  part(lo, hi) \in grps
    BY <2>1, <2>2
  <2>4. ASSUME NEW c \in Fixed(sizes, 1)
        PROVE  grp(c) \in parts
    BY <2>1
  <2> QED
    BY <2>3, <2>4
<1> HIDE DEF grps, parts
<1>9. DimensionGroups(base, sizes, 1) = Part(base, 1, t, t, m * d)
  BY <1>4, <1>7, <1>8
<1> QED
  BY <1>9 DEF sizes

(* The second coordinate of three. *)
LEMMA SecondOfThree ==
  ASSUME NEW t \in Positive, NEW m \in Positive, NEW d \in Positive, NEW base \in Nat
  PROVE  DimensionGroups(base, <<t, m, d>>, 2) = Part(base, t, m, t * m, d)
<1> DEFINE sizes == <<t, m, d>>
           grp(c) == [v \in 1..sizes[2] |-> base + Local(sizes, [c EXCEPT ![2] = v - 1])]
           part(lo, hi) == [v \in 1..m |-> base + (lo + (v - 1) * t + hi * (t * m))]
           low(c) == c[1]
           high(c) == c[3]
           grps == {grp(c) : c \in Fixed(sizes, 2)}
           lows == 0..(t - 1)
           highs == 0..(d - 1)
           parts == {part(lo, hi) : lo \in lows, hi \in highs}
<1>1. t \in Nat /\ t > 0 /\ m \in Nat /\ m > 0 /\ d \in Nat /\ d > 0
  BY DEF Positive
<1>2. DOMAIN sizes = 1..3 /\ Len(sizes) = 3 /\ sizes[1] = t /\ sizes[2] = m /\ sizes[3] = d
  OBVIOUS
<1>3. \A i \in 1..3 : sizes[i] \in Nat /\ sizes[i] \in Positive
  BY <1>1, <1>2
<1> HIDE DEF sizes
<1>4. DimensionGroups(base, sizes, 2) = grps
  BY <1>2, <1>3, GroupsAre
<1>5. ASSUME NEW c \in Fixed(sizes, 2)
      PROVE  grp(c) = part(low(c), high(c)) /\ low(c) \in 0..(t - 1) /\ high(c) \in 0..(d - 1)
  <2>1. c \in [1..3 -> Nat] /\ c[2] = 0 /\ c[1] \in Nat /\ c[1] < t /\ c[2] \in Nat /\ c[2] < m /\ c[3] \in Nat /\ c[3] < d
    BY <1>2 DEF Fixed
  <2>2. ASSUME NEW v \in 1..m
        PROVE  base + Local(sizes, [c EXCEPT ![2] = v - 1]) = base + (low(c) + (v - 1) * t + high(c) * (t * m))
    <3> DEFINE e == [c EXCEPT ![2] = v - 1]
               u == v - 1
    <3>1. u \in Nat /\ v \in Nat
      BY <1>1
    <3>2. e[2] = u /\ e[1] = c[1] /\ e[3] = c[3]
      BY <2>1
    <3> HIDE DEF e, u
    <3>3. \A i \in 1..3 : e[i] \in Nat
      BY <2>1, <3>1, <3>2
    <3>4. Local(sizes, e) = e[1] + e[2] * t + e[3] * (t * m)
      BY <1>2, <1>3, <3>3, LocalIs
    <3>5. e[1] + e[2] * t + e[3] * (t * m) = low(c) + u * t + high(c) * (t * m)
      BY <1>1, <2>1, <3>1, <3>2
    <3> QED
      BY <3>4, <3>5 DEF e, u
  <2>3. grp(c) = part(low(c), high(c))
    BY <1>2, <2>2
  <2>4. low(c) \in 0..(t - 1) /\ high(c) \in 0..(d - 1)
    BY <1>1, <2>1
  <2> QED
    BY <2>3, <2>4
<1>6. ASSUME NEW lo \in 0..(t - 1), NEW hi \in 0..(d - 1)
      PROVE  \E c \in Fixed(sizes, 2) : low(c) = lo /\ high(c) = hi
  <2> DEFINE c == <<lo, 0, hi>>
  <2>1. lo \in Nat /\ hi \in Nat /\ lo < t /\ hi < d
    BY <1>1
  <2>2. c \in [1..3 -> Nat] /\ low(c) = lo /\ high(c) = hi /\ c[2] = 0
    BY <2>1
  <2>3. \A i \in 1..3 : c[i] < sizes[i]
    BY <1>1, <1>2, <2>1
  <2> HIDE DEF c, low, high
  <2>4. c \in Fixed(sizes, 2)
    BY <1>2, <2>2, <2>3 DEF Fixed
  <2> QED
    BY <2>2, <2>4
<1>7. Part(base, t, m, t * m, d) = parts
  BY DEF Part
<1> HIDE DEF grp, part, low, high, lows, highs
<1>8. grps = parts
  <2>1. ASSUME NEW c \in Fixed(sizes, 2)
        PROVE  grp(c) = part(low(c), high(c)) /\ low(c) \in lows /\ high(c) \in highs
    BY <1>5 DEF lows, highs
  <2>2. ASSUME NEW lo \in lows, NEW hi \in highs
        PROVE  \E c \in Fixed(sizes, 2) : low(c) = lo /\ high(c) = hi
    BY <1>6 DEF lows, highs
  <2>3. ASSUME NEW lo \in lows, NEW hi \in highs
        PROVE  part(lo, hi) \in grps
    BY <2>1, <2>2
  <2>4. ASSUME NEW c \in Fixed(sizes, 2)
        PROVE  grp(c) \in parts
    BY <2>1
  <2> QED
    BY <2>3, <2>4
<1> HIDE DEF grps, parts
<1>9. DimensionGroups(base, sizes, 2) = Part(base, t, m, t * m, d)
  BY <1>4, <1>7, <1>8
<1> QED
  BY <1>9 DEF sizes

(* The third coordinate of three. *)
LEMMA ThirdOfThree ==
  ASSUME NEW t \in Positive, NEW m \in Positive, NEW d \in Positive, NEW base \in Nat
  PROVE  DimensionGroups(base, <<t, m, d>>, 3) = Part(base, t * m, d, t * m * d, 1)
<1> DEFINE sizes == <<t, m, d>>
           grp(c) == [v \in 1..sizes[3] |-> base + Local(sizes, [c EXCEPT ![3] = v - 1])]
           part(lo, hi) == [v \in 1..d |-> base + (lo + (v - 1) * (t * m) + hi * (t * m * d))]
           low(c) == c[1] + c[2] * t
           high(c) == 0
           grps == {grp(c) : c \in Fixed(sizes, 3)}
           lows == 0..(t * m - 1)
           highs == 0..(1 - 1)
           parts == {part(lo, hi) : lo \in lows, hi \in highs}
<1>1. t \in Nat /\ t > 0 /\ m \in Nat /\ m > 0 /\ d \in Nat /\ d > 0
  BY DEF Positive
<1>2. DOMAIN sizes = 1..3 /\ Len(sizes) = 3 /\ sizes[1] = t /\ sizes[2] = m /\ sizes[3] = d
  OBVIOUS
<1>3. \A i \in 1..3 : sizes[i] \in Nat /\ sizes[i] \in Positive
  BY <1>1, <1>2
<1> HIDE DEF sizes
<1>4. DimensionGroups(base, sizes, 3) = grps
  BY <1>2, <1>3, GroupsAre
<1>5. ASSUME NEW c \in Fixed(sizes, 3)
      PROVE  grp(c) = part(low(c), high(c)) /\ low(c) \in 0..(t * m - 1) /\ high(c) \in 0..(1 - 1)
  <2>1. c \in [1..3 -> Nat] /\ c[3] = 0 /\ c[1] \in Nat /\ c[1] < t /\ c[2] \in Nat /\ c[2] < m /\ c[3] \in Nat /\ c[3] < d
    BY <1>2 DEF Fixed
  <2>2. ASSUME NEW v \in 1..d
        PROVE  base + Local(sizes, [c EXCEPT ![3] = v - 1]) = base + (low(c) + (v - 1) * (t * m) + high(c) * (t * m * d))
    <3> DEFINE e == [c EXCEPT ![3] = v - 1]
               u == v - 1
    <3>1. u \in Nat /\ v \in Nat
      BY <1>1
    <3>2. e[3] = u /\ e[1] = c[1] /\ e[2] = c[2]
      BY <2>1
    <3> HIDE DEF e, u
    <3>3. \A i \in 1..3 : e[i] \in Nat
      BY <2>1, <3>1, <3>2
    <3>4. Local(sizes, e) = e[1] + e[2] * t + e[3] * (t * m)
      BY <1>2, <1>3, <3>3, LocalIs
    <3>5. e[1] + e[2] * t + e[3] * (t * m) = low(c) + u * (t * m) + high(c) * (t * m * d)
      BY <1>1, <2>1, <3>1, <3>2
    <3> QED
      BY <3>4, <3>5 DEF e, u
  <2>3. grp(c) = part(low(c), high(c))
    BY <1>2, <2>2
  <2>4. low(c) \in 0..(t * m - 1) /\ high(c) \in 0..(1 - 1)
    BY <1>1, <2>1, Pairs
  <2> QED
    BY <2>3, <2>4
<1>6. ASSUME NEW lo \in 0..(t * m - 1), NEW hi \in 0..(1 - 1)
      PROVE  \E c \in Fixed(sizes, 3) : low(c) = lo /\ high(c) = hi
  <2> DEFINE x == lo % t
             y == lo \div t
  <2>1. x \in 0..(t - 1) /\ y \in 0..(m - 1) /\ lo = x + y * t
    BY <1>1, Pairs
  <2> HIDE DEF x, y
  <2> DEFINE c == <<x, y, 0>>
  <2>2. x \in Nat /\ y \in Nat /\ x < t /\ y < m /\ hi = 0
    BY <1>1, <2>1
  <2>3. c \in [1..3 -> Nat] /\ low(c) = lo /\ high(c) = hi /\ c[3] = 0
    BY <2>1, <2>2
  <2>4. \A i \in 1..3 : c[i] < sizes[i]
    BY <1>1, <1>2, <2>2
  <2> HIDE DEF c, low, high
  <2>5. c \in Fixed(sizes, 3)
    BY <1>2, <2>3, <2>4 DEF Fixed
  <2> QED
    BY <2>3, <2>5
<1>7. Part(base, t * m, d, t * m * d, 1) = parts
  BY DEF Part
<1> HIDE DEF grp, part, low, high, lows, highs
<1>8. grps = parts
  <2>1. ASSUME NEW c \in Fixed(sizes, 3)
        PROVE  grp(c) = part(low(c), high(c)) /\ low(c) \in lows /\ high(c) \in highs
    BY <1>5 DEF lows, highs
  <2>2. ASSUME NEW lo \in lows, NEW hi \in highs
        PROVE  \E c \in Fixed(sizes, 3) : low(c) = lo /\ high(c) = hi
    BY <1>6 DEF lows, highs
  <2>3. ASSUME NEW lo \in lows, NEW hi \in highs
        PROVE  part(lo, hi) \in grps
    BY <2>1, <2>2
  <2>4. ASSUME NEW c \in Fixed(sizes, 3)
        PROVE  grp(c) \in parts
    BY <2>1
  <2> QED
    BY <2>3, <2>4
<1> HIDE DEF grps, parts
<1>9. DimensionGroups(base, sizes, 3) = Part(base, t * m, d, t * m * d, 1)
  BY <1>4, <1>7, <1>8
<1> QED
  BY <1>9 DEF sizes

(* The groups of a domain at every stage and branch. *)
LEMMA InDomainIs ==
  ASSUME NEW r, r.pipeline \in Positive, r.cfg \in Positive, NEW scope,
         NEW a, NEW b, NEW n, NEW d \in Positive, Cut(a, b, d, n, scope),
         NEW sizes, NEW k, \A base \in Nat : DimensionGroups(base, sizes, k) = Part(base, a, b, n, d),
         NEW c, c = d * (r.cfg * r.pipeline)
  PROVE  InDomain(r, scope, sizes, k) = Strided(a, b, n, c) /\ Cut(a, b, c, n, scope * (r.cfg * r.pipeline))
<1> DEFINE P == r.pipeline
           C == r.cfg
           all == C * P
           base(s, f) == RankAt(r, scope, s, f, 0)
           part(e, lo, hi) == [v \in 1..b |-> e + (lo + (v - 1) * a + hi * n)]
           lows == 0..(a - 1)
           highs == 0..(d - 1)
           stages == 0..(P - 1)
           branches == 0..(C - 1)
<1>1. P \in Nat /\ P > 0 /\ C \in Nat /\ C > 0 /\ d \in Nat /\ d > 0 /\ all \in Nat /\ all > 0
  BY TimesNat DEF Positive
<1>2. a \in Nat /\ a > 0 /\ b \in Nat /\ b > 0 /\ n \in Nat /\ n > 0 /\ scope = n * d /\ scope \in Nat
  BY Digits DEF Cut
<1>3. c \in Nat /\ c = d * all /\ Cut(a, b, c, n, scope * all)
  <2>1. c \in Nat /\ c = d * all
    <3> HIDE DEF all
    <3> QED
      BY <1>1, TimesNat DEF all
  <2>2. (n * d) * all = n * (d * all)
    <3> HIDE DEF all
    <3> QED
      BY <1>1, <1>2
  <2>3. scope * all = n * c
    BY <1>2, <2>1, <2>2
  <2> QED
    BY <1>2, <2>1, <2>3 DEF Cut
<1>4. ASSUME NEW s \in stages, NEW f \in branches
      PROVE  /\ base(s, f) \in Nat /\ f + s * C \in 0..(all - 1)
             /\ base(s, f) = ((f + s * C) * d) * n
  <2>1. f + s * C \in 0..(all - 1)
    <3> HIDE DEF P, C
    <3> QED
      BY <1>1, Pairs
  <2> DEFINE e == f + s * C
  <2>2. e \in Nat
    BY <1>1, <2>1
  <2>3. base(s, f) = (s * C + f) * scope + 0
    BY DEF RankAt
  <2>4. s * C + f = e
    <3>1. s \in Nat /\ f \in Nat
      BY <1>1
    <3> HIDE DEF C
    <3>2. s * C \in Nat
      BY <1>1, <3>1, TimesNat
    <3> QED
      BY <3>1, <3>2
  <2> HIDE DEF e
  <2>5. e * (n * d) = (e * d) * n /\ e * (n * d) \in Nat
    <3>1. n * d \in Nat
      BY <1>2
    <3> QED
      BY <1>1, <1>2, <2>2, <3>1
  <2>6. base(s, f) = e * (n * d) + 0
    BY <1>2, <2>3, <2>4
  <2>7. base(s, f) = (e * d) * n /\ base(s, f) \in Nat
    <3> HIDE DEF base
    <3> DEFINE y == e * (n * d)
    <3>1. y \in Nat /\ base(s, f) = y + 0 /\ y = (e * d) * n
      BY <2>5, <2>6
    <3> HIDE DEF y
    <3> QED
      BY <3>1
  <2> QED
    BY <2>1, <2>7 DEF e
<1>5. ASSUME NEW s \in stages, NEW f \in branches, NEW lo \in lows, NEW hi \in highs, NEW e \in Nat, e = f + s * C
      PROVE  part(base(s, f), lo, hi) = Block(a, b, n, lo, hi + e * d)
  <2> DEFINE x == base(s, f)
             y == hi + e * d
  <2>1. x = (e * d) * n
    BY <1>4, <1>5
  <2> HIDE DEF x
  <2>2. ASSUME NEW v \in 1..b PROVE x + (lo + (v - 1) * a + hi * n) = lo + (v - 1) * a + y * n
    <3> DEFINE m == lo + (v - 1) * a
    <3>1. m \in Nat /\ hi \in Nat
      <4>1. v - 1 \in Nat /\ lo \in Nat /\ hi \in Nat
        BY <1>1, <1>2
      <4>2. (v - 1) * a \in Nat
        BY <1>2, <4>1, TimesNat
      <4> QED
        BY <4>1, <4>2
    <3> HIDE DEF m
    <3>2. (e * d) * n + (m + hi * n) = m + (hi + e * d) * n
      BY <1>1, <1>2, <3>1
    <3>3. x + (m + hi * n) = m + y * n
      BY <2>1, <3>2
    <3> QED
      BY <3>3 DEF m
  <2> QED
    BY <2>2 DEF Block, x
<1>6. ASSUME NEW lo \in lows, NEW h \in 0..(c - 1)
      PROVE  \E s \in stages, f \in branches, hi \in highs : h = hi + (f + s * C) * d
  <2> DEFINE hi == h % d
             e == h \div d
             f == e % C
             s == e \div C
  <2>1. hi \in highs /\ e \in 0..(all - 1) /\ h = hi + e * d
    <3> HIDE DEF all
    <3>1. h \in 0..(d * all - 1)
      BY <1>3
    <3> QED
      BY <1>1, <3>1, Pairs
  <2> HIDE DEF hi, e
  <2>2. f \in branches /\ s \in stages /\ e = f + s * C
    <3> HIDE DEF P, C
    <3> QED
      BY <1>1, <2>1, Pairs
  <2> QED
    BY <2>1, <2>2
<1>7. InDomain(r, scope, sizes, k) = UNION {DimensionGroups(base(s, f), sizes, k) : s \in stages, f \in branches}
  BY DEF InDomain
<1>8. ASSUME NEW s \in stages, NEW f \in branches
      PROVE  DimensionGroups(base(s, f), sizes, k) = {part(base(s, f), lo, hi) : lo \in lows, hi \in highs}
  <2>1. base(s, f) \in Nat
    BY <1>4
  <2> DEFINE x == base(s, f)
  <2> HIDE DEF x
  <2>2. DimensionGroups(x, sizes, k) = Part(x, a, b, n, d)
    BY <2>1 DEF x
  <2>3. Part(x, a, b, n, d) = {part(x, lo, hi) : lo \in lows, hi \in highs}
    BY DEF Part
  <2> HIDE DEF part, lows, highs
  <2>4. DimensionGroups(x, sizes, k) = {part(x, lo, hi) : lo \in lows, hi \in highs}
    BY <2>2, <2>3
  <2> QED
    BY <2>4 DEF x
<1> DEFINE blocks == 0..(c - 1)
<1>9. Strided(a, b, n, c) = {Block(a, b, n, lo, h) : lo \in lows, h \in blocks}
  BY DEF Strided
<1>10. ASSUME NEW s \in stages, NEW f \in branches, NEW lo \in lows, NEW hi \in highs
       PROVE  \E h \in blocks : part(base(s, f), lo, hi) = Block(a, b, n, lo, h)
  <2> DEFINE e == f + s * C
  <2>1. e \in 0..(all - 1)
    BY <1>4
  <2>2. e \in Nat
    BY <1>1, <2>1
  <2>3. part(base(s, f), lo, hi) = Block(a, b, n, lo, hi + e * d)
    <3> HIDE DEF part, base, stages, branches, lows, highs
    <3> QED
      BY <1>5, <2>2
  <2> HIDE DEF e, all, part, base
  <2>4. hi + e * d \in 0..(d * all - 1)
    BY <1>1, <2>1, Pairs
  <2>5. hi + e * d \in blocks
    BY <1>3, <2>4
  <2> QED
    BY <2>3, <2>5
<1>11. ASSUME NEW lo \in lows, NEW h \in blocks
       PROVE  \E s \in stages, f \in branches, hi \in highs : part(base(s, f), lo, hi) = Block(a, b, n, lo, h)
  <2>1. PICK s \in stages, f \in branches, hi \in highs : h = hi + (f + s * C) * d
    BY <1>6
  <2> DEFINE e == f + s * C
  <2>2. e \in Nat
    BY <1>1, <1>4
  <2>3. part(base(s, f), lo, hi) = Block(a, b, n, lo, hi + e * d)
    <3> HIDE DEF part, base, stages, branches, lows, highs
    <3> QED
      BY <1>5, <2>2
  <2> HIDE DEF part, base
  <2> QED
    BY <2>1, <2>3
<1> HIDE DEF stages, branches, lows, highs, blocks, part, base
<1>12. InDomain(r, scope, sizes, k) = Strided(a, b, n, c)
  <2>1. ASSUME NEW g \in InDomain(r, scope, sizes, k) PROVE g \in Strided(a, b, n, c)
    <3>1. PICK s \in stages, f \in branches : g \in DimensionGroups(base(s, f), sizes, k)
      BY <1>7
    <3>2. PICK lo \in lows, hi \in highs : g = part(base(s, f), lo, hi)
      BY <1>8, <3>1
    <3>3. PICK h \in blocks : g = Block(a, b, n, lo, h)
      BY <1>10, <3>2
    <3> QED
      BY <1>9, <3>3
  <2>2. ASSUME NEW g \in Strided(a, b, n, c) PROVE g \in InDomain(r, scope, sizes, k)
    <3>1. PICK lo \in lows, h \in blocks : g = Block(a, b, n, lo, h)
      BY <1>9
    <3>2. PICK s \in stages, f \in branches, hi \in highs : g = part(base(s, f), lo, hi)
      BY <1>11, <3>1
    <3>3. g \in DimensionGroups(base(s, f), sizes, k)
      BY <1>8, <3>2
    <3> QED
      BY <1>7, <3>3
  <2> QED
    BY <2>1, <2>2
<1> QED
  BY <1>3, <1>12

(* What is inferred is a number of scopes. *)
LEMMA InferredScope ==
  ASSUME NEW p \in AnyConfig, Infers(p)
  PROVE  \E scope \in Positive : Infer(p) = Outer(p) * scope /\ Resolves(p, Outer(p) * scope)
<1> DEFINE E == Explicit(p)
<1>1. CASE E = {}
  <2>1. \A n \in Domain : Tp(p, n) = Omitted
    BY <1>1 DEF Explicit, Tp
  <2>2. Minimum(p) \in Positive
    BY <2>1, MinimumIsLeast
  <2>3. Infer(p) = Outer(p) * Minimum(p)
    BY <1>1 DEF Infer
  <2> QED
    BY <2>2, <2>3 DEF Infers
<1>2. CASE E # {}
  <2>1. E \in SUBSET Positive
    <3> SUFFICES ASSUME NEW n \in Domain, Tp(p, n) # Omitted PROVE Product(p.dims[n]) \in Positive
      BY DEF Explicit, Tp
    <3>1. Tp(p, n) \in Nat /\ Tp(p, n) > 0 /\ Others(p, n) \in Nat /\ Others(p, n) > 0
      BY DomainIs DEF Omitted, Positive
    <3>2. Product(p.dims[n]) = Tp(p, n) * Others(p, n)
      BY DomainIs
    <3> DEFINE x == Tp(p, n)
               y == Others(p, n)
    <3> HIDE DEF x, y
    <3>3. x * y \in Nat /\ x * y > 0
      BY <3>1, TimesNat DEF x, y
    <3> QED
      BY <3>2, <3>3 DEF x, y, Positive
  <2>2. Min(E) \in E
    <3> HIDE DEF E
    <3>1. E \in SUBSET Nat
      BY <2>1 DEF Positive
    <3> QED
      BY <1>2, <3>1, MinIsLeast
  <2>3. Infer(p) = Outer(p) * Min(E)
    BY <1>2 DEF Infer
  <2> HIDE DEF E
  <2> QED
    BY <2>1, <2>2, <2>3 DEF Infers
<1> QED
  BY <1>1, <1>2

(* The products of two and three sizes. *)
LEMMA TupleProducts ==
  /\ \A x \in Nat, a \in Nat : Product(<<x, a>>) = x * a
  /\ \A x \in Nat, a \in Nat, b \in Nat : Product(<<x, a, b>>) = x * a * b
<1>1. ASSUME NEW x \in Nat, NEW a \in Nat PROVE Product(<<x, a>>) = x * a
  <2> DEFINE s == <<x, a>>
  <2>1. Len(s) = 2 /\ s[1] = x /\ s[2] = a /\ 2 \in 0..4 /\ \A i \in 1..2 : s[i] \in Nat
    OBVIOUS
  <2> HIDE DEF s
  <2>2. Product(s) = x * a
    BY <2>1, ProductOfFour DEF Product
  <2> QED
    BY <2>2 DEF s
<1>2. ASSUME NEW x \in Nat, NEW a \in Nat, NEW b \in Nat PROVE Product(<<x, a, b>>) = x * a * b
  <2> DEFINE s == <<x, a, b>>
  <2>1. Len(s) = 3 /\ s[1] = x /\ s[2] = a /\ s[3] = b /\ 3 \in 0..4 /\ \A i \in 1..3 : s[i] \in Nat
    OBVIOUS
  <2> HIDE DEF s
  <2>2. Product(s) = x * a * b
    BY <2>1, ProductOfFour DEF Product
  <2> QED
    BY <2>2 DEF s
<1> QED
  BY <1>1, <1>2

(* A resolved configuration: every domain covers the scope. *)
LEMMA Resolved ==
  ASSUME NEW p \in AnyConfig, NEW scope \in Positive, NEW world, world = Outer(p) * scope, Resolves(p, world),
         NEW r, r = Resolve(p, world)
  PROVE  /\ r.pipeline \in Positive /\ r.cfg \in Positive /\ r.decode \in Positive
         /\ Outer(r) = r.pipeline * r.cfg /\ Outer(r) = Outer(p) /\ world \div Outer(r) = scope
         /\ \E t, d \in Positive : r.dims["dense"] = <<t, d>> /\ t * d = scope
         /\ \E t, m, d \in Positive :
              r.dims["attention"] = <<t, m, d>> /\ t * m * d = scope /\ t % r.decode = 0
         /\ \E t, m, d \in Positive : r.dims["moe"] = <<t, m, d>> /\ t * m * d = scope
<1>1. r.pipeline = p.pipeline /\ r.cfg = p.cfg /\ r.decode = p.decode
  BY DEF Resolve, AnyConfig
<1>2. p.pipeline \in Positive /\ p.cfg \in Positive /\ p.decode \in Positive
  BY DEF AnyConfig
<1>3. Outer(r) = r.pipeline * r.cfg /\ Outer(r) = Outer(p)
  BY <1>1 DEF Outer
<1>4. Outer(p) \in Nat /\ Outer(p) > 0 /\ scope \in Nat /\ scope > 0
  BY ResolvesIs DEF Positive
<1>5. world \div Outer(p) = scope
  <2> DEFINE u == Outer(p)
  <2> HIDE DEF u
  <2> QED
    BY <1>4, DivMultiple DEF u
<1>6. \A n \in Domain : r.dims[n] = Completed(p.dims[n], scope)
  <2>1. p = [p EXCEPT !.dims = p.dims] /\ "dims" \in DOMAIN p
    BY DEF AnyConfig
  <2>2. r.dims = [n \in Domain |-> Completed(p.dims[n], world \div Outer(p))]
    BY <2>1 DEF Resolve
  <2> QED
    BY <1>5, <2>2
<1>7. \A n \in Domain : Product(r.dims[n]) = scope
  BY <1>5 DEF Resolves
<1>8. r.dims["attention"][1] % r.decode = 0
  BY <1>1 DEF Resolves
<1>9. ASSUME NEW n \in Domain
      PROVE  \E x \in Nat : r.dims[n] = [p.dims[n] EXCEPT ![1] = x]
  <2>1. Others(p, n) \in Nat /\ Others(p, n) > 0 /\ Tp(p, n) \in Nat
    BY DomainIs DEF Positive
  <2>2. p.dims[n] = [p.dims[n] EXCEPT ![1] = Tp(p, n)]
    <3>1. n = "dense" \/ n = "attention" \/ n = "moe"
      BY DEF Domain
    <3>2. (\E t \in Nat, a \in Positive : p.dims[n] = <<t, a>>) \/ \E t \in Nat, a, b \in Positive : p.dims[n] = <<t, a, b>>
      BY <3>1, SizesAre DEF AnyConfig
    <3> QED
      BY <3>2 DEF Tp
  <2>3. scope \div Others(p, n) \in Nat
    BY <1>4, <2>1, DivMod
  <2>4. r.dims[n] = IF Tp(p, n) # Omitted THEN p.dims[n] ELSE [p.dims[n] EXCEPT ![1] = scope \div Others(p, n)]
    BY <1>6 DEF Completed, Tp, Others
  <2> QED
    BY <2>1, <2>2, <2>3, <2>4
<1>10. \E t, d \in Positive : r.dims["dense"] = <<t, d>> /\ t * d = scope
  <2>1. PICK t \in Nat, d \in Positive : p.dims["dense"] = <<t, d>>
    BY SizesAre DEF AnyConfig
  <2>2. PICK x \in Nat : r.dims["dense"] = [p.dims["dense"] EXCEPT ![1] = x]
    BY <1>9 DEF Domain
  <2>3. r.dims["dense"] = <<x, d>>
    BY <2>1, <2>2
  <2>4. x * d = scope
    <3>1. d \in Nat
      BY DEF Positive
    <3>2. Product(<<x, d>>) = x * d
      BY <3>1, TupleProducts
    <3>3. Product(r.dims["dense"]) = scope
      BY <1>7 DEF Domain
    <3> QED
      BY <2>3, <3>2, <3>3
  <2>5. x # 0
    BY <1>4, <2>4 DEF Positive
  <2> QED
    BY <2>3, <2>4, <2>5 DEF Positive
<1>11. ASSUME NEW n \in {"attention", "moe"}
       PROVE  \E t, m, d \in Positive : r.dims[n] = <<t, m, d>> /\ t * m * d = scope
  <2>1. PICK t \in Nat, m \in Positive, d \in Positive : p.dims[n] = <<t, m, d>>
    BY SizesAre DEF AnyConfig
  <2>2. PICK x \in Nat : r.dims[n] = [p.dims[n] EXCEPT ![1] = x]
    BY <1>9 DEF Domain
  <2>3. r.dims[n] = <<x, m, d>>
    BY <2>1, <2>2
  <2>4. x * m * d = scope
    <3>1. m \in Nat /\ d \in Nat
      BY DEF Positive
    <3>2. Product(<<x, m, d>>) = x * m * d
      BY <3>1, TupleProducts
    <3>3. Product(r.dims[n]) = scope
      BY <1>7 DEF Domain
    <3> QED
      BY <2>3, <3>2, <3>3
  <2>5. x # 0
    BY <1>4, <2>4 DEF Positive
  <2> QED
    BY <2>3, <2>4, <2>5 DEF Positive
<1>12. \E t, m, d \in Positive : r.dims["attention"] = <<t, m, d>> /\ t * m * d = scope /\ t % r.decode = 0
  <2>1. PICK t, m, d \in Positive : r.dims["attention"] = <<t, m, d>> /\ t * m * d = scope
    BY <1>11
  <2>2. t % r.decode = 0
    BY <1>8, <2>1
  <2> QED
    BY <2>1, <2>2
<1> QED
  BY <1>1, <1>2, <1>3, <1>5, <1>10, <1>11, <1>12

(* A family of groups of b ranks at distance a. *)
Family(F, a, b, w) == \E c, n : Cut(a, b, c, n, w) /\ F = Strided(a, b, n, c)

(* RankLayout accepts it, its groups have the digits but one in common,    *)
(* and that one is the place in the group.                                 *)
LEMMA FamilyIs ==
  ASSUME NEW F, NEW a, NEW b, NEW w, Family(F, a, b, w), NEW n, n = a * b
  PROVE  /\ Accepted(F, w) /\ w \in Nat /\ a \in Nat /\ a > 0 /\ b \in Nat /\ b > 0
         /\ \A x \in 0..(w - 1) :
              /\ \A y \in 0..(w - 1) : y \in ToSet(MembersFor(F, x)) <=> y % a = x % a /\ y \div n = x \div n
              /\ ToSet(MembersFor(F, x)) \subseteq 0..(w - 1)
              /\ GroupRank(F, x) = (x \div a) % b
<1>1. PICK c, nn : Cut(a, b, c, nn, w) /\ F = Strided(a, b, nn, c)
  BY DEF Family
<1>2. nn = n
  BY <1>1 DEF Cut
<1>3. Cut(a, b, c, n, w) /\ F = Strided(a, b, n, c)
  BY <1>1, <1>2
<1>4. w \in Nat /\ a \in Nat /\ a > 0 /\ b \in Nat /\ b > 0
  BY <1>3, Digits
<1> QED
  BY <1>3, <1>4, StridedIs

(* The groups of a domain of two sizes. *)
LEMMA TwoDomain ==
  ASSUME NEW r, r.pipeline \in Positive, r.cfg \in Positive,
         NEW t \in Positive, NEW d \in Positive, NEW scope, scope = t * d, NEW w, w = scope * (r.cfg * r.pipeline)
  PROVE  /\ Family(InDomain(r, scope, <<t, d>>, 1), 1, t, w)
         /\ Family(InDomain(r, scope, <<t, d>>, 2), t, d, w)
<1>1. t \in Nat /\ t > 0 /\ d \in Nat /\ d > 0 /\ 1 \in Positive /\ scope \in Nat
  BY TimesNat DEF Positive
<1>2. Cut(1, t, d, t, scope) /\ Cut(t, d, 1, scope, scope)
  BY <1>1 DEF Cut
<1>3. \A base \in Nat : DimensionGroups(base, <<t, d>>, 1) = Part(base, 1, t, t, d)
  BY FirstOfTwo
<1>4. \A base \in Nat : DimensionGroups(base, <<t, d>>, 2) = Part(base, t, d, scope, 1)
  BY SecondOfTwo
<1> DEFINE sizes == <<t, d>>
<1> HIDE DEF sizes
<1>5. Family(InDomain(r, scope, sizes, 1), 1, t, w)
  <2>1. \A base \in Nat : DimensionGroups(base, sizes, 1) = Part(base, 1, t, t, d)
    BY <1>3 DEF sizes
  <2> DEFINE c == d * (r.cfg * r.pipeline)
  <2> HIDE DEF c
  <2>2. InDomain(r, scope, sizes, 1) = Strided(1, t, t, c) /\ Cut(1, t, c, t, scope * (r.cfg * r.pipeline))
    BY <1>2, <2>1, InDomainIs DEF c
  <2> QED
    BY <2>2 DEF Family
<1>6. Family(InDomain(r, scope, sizes, 2), t, d, w)
  <2>1. \A base \in Nat : DimensionGroups(base, sizes, 2) = Part(base, t, d, scope, 1)
    BY <1>4 DEF sizes
  <2> DEFINE c == 1 * (r.cfg * r.pipeline)
  <2> HIDE DEF c
  <2>2. InDomain(r, scope, sizes, 2) = Strided(t, d, scope, c) /\ Cut(t, d, c, scope, scope * (r.cfg * r.pipeline))
    BY <1>1, <1>2, <2>1, InDomainIs DEF c
  <2> QED
    BY <2>2 DEF Family
<1> QED
  BY <1>5, <1>6 DEF sizes

(* The groups of a domain of three sizes. *)
LEMMA ThreeDomain ==
  ASSUME NEW r, r.pipeline \in Positive, r.cfg \in Positive,
         NEW t \in Positive, NEW m \in Positive, NEW d \in Positive, NEW scope, scope = t * m * d,
         NEW w, w = scope * (r.cfg * r.pipeline)
  PROVE  /\ Family(InDomain(r, scope, <<t, m, d>>, 1), 1, t, w)
         /\ Family(InDomain(r, scope, <<t, m, d>>, 2), t, m, w)
         /\ Family(InDomain(r, scope, <<t, m, d>>, 3), t * m, d, w)
<1>1. t \in Nat /\ t > 0 /\ d \in Nat /\ d > 0 /\ m \in Nat /\ m > 0 /\ 1 \in Positive
  BY DEF Positive
<1> DEFINE tm == t * m
           md == m * d
           sizes == <<t, m, d>>
<1>2. tm \in Nat /\ tm > 0 /\ md \in Nat /\ md > 0 /\ md \in Positive /\ scope = t * md /\ scope = tm * d /\ scope \in Nat
  <2>1. tm \in Nat /\ tm > 0 /\ md \in Nat /\ md > 0
    BY <1>1, TimesNat
  <2>2. scope = t * md /\ scope = tm * d /\ scope \in Nat
    BY <1>1, TimesThree
  <2> QED
    BY <2>1, <2>2 DEF Positive
<1>3. \A base \in Nat : DimensionGroups(base, sizes, 1) = Part(base, 1, t, t, md)
  BY FirstOfThree
<1>4. \A base \in Nat : DimensionGroups(base, sizes, 2) = Part(base, t, m, tm, d)
  BY SecondOfThree
<1>5. \A base \in Nat : DimensionGroups(base, sizes, 3) = Part(base, tm, d, scope, 1)
  BY ThirdOfThree
<1>6. Cut(t, m, d, tm, scope)
  BY <1>1, <1>2 DEF Cut
<1> HIDE DEF sizes, tm, md
<1>7. Cut(1, t, md, t, scope) /\ Cut(tm, d, 1, scope, scope)
  BY <1>1, <1>2 DEF Cut
<1>8. Family(InDomain(r, scope, sizes, 1), 1, t, w)
  <2> DEFINE c == md * (r.cfg * r.pipeline)
  <2> HIDE DEF c
  <2>1. InDomain(r, scope, sizes, 1) = Strided(1, t, t, c) /\ Cut(1, t, c, t, scope * (r.cfg * r.pipeline))
    BY <1>2, <1>3, <1>7, InDomainIs DEF c
  <2> QED
    BY <2>1 DEF Family
<1>9. Family(InDomain(r, scope, sizes, 2), t, m, w)
  <2> DEFINE c == d * (r.cfg * r.pipeline)
  <2> HIDE DEF c
  <2>1. InDomain(r, scope, sizes, 2) = Strided(t, m, tm, c) /\ Cut(t, m, c, tm, scope * (r.cfg * r.pipeline))
    BY <1>4, <1>6, InDomainIs DEF c
  <2> QED
    BY <2>1 DEF Family
<1>10. Family(InDomain(r, scope, sizes, 3), tm, d, w)
  <2> DEFINE c == 1 * (r.cfg * r.pipeline)
  <2> HIDE DEF c
  <2>1. InDomain(r, scope, sizes, 3) = Strided(tm, d, scope, c) /\ Cut(tm, d, c, scope, scope * (r.cfg * r.pipeline))
    BY <1>1, <1>5, <1>7, InDomainIs DEF c
  <2> QED
    BY <2>1 DEF Family
<1> QED
  BY <1>8, <1>9, <1>10 DEF sizes, tm

(* Cutting groups of neighbours. *)
LEMMA DecodeFamily ==
  ASSUME NEW F, NEW t, NEW w, Family(F, 1, t, w), NEW d \in Positive, t % d = 0
  PROVE  Family(PartitionGroups(F, d), 1, d, w)
<1>1. PICK c, n : Cut(1, t, c, n, w) /\ F = Strided(1, t, n, c)
  BY DEF Family
<1>2. t \in Nat /\ t > 0 /\ c \in Nat /\ n = t /\ w = t * c /\ d \in Nat /\ d > 0
  BY <1>1 DEF Cut, Positive
<1> DEFINE q == t \div d
           highs == 0..(c - 1)
           cuts == 0..(q - 1)
           G == Strided(1, d, d, q * c)
           piece(g, s) == SubSeq(g, s * d + 1, (s + 1) * d)
<1>3. q \in Nat /\ t = d * q /\ t = q * d
  <2>1. q \in Nat /\ t = d * q + 0
    BY <1>2, DivMod
  <2> HIDE DEF q
  <2> QED
    BY <1>2, <2>1
<1> HIDE DEF q
<1>4. q > 0
  BY <1>2, <1>3
<1>5. Cut(1, d, q * c, d, w)
  <2>1. q * c \in Nat
    BY <1>2, <1>3, TimesNat
  <2>2. (d * q) * c = d * (q * c)
    BY <1>2, <1>3
  <2> QED
    BY <1>2, <1>3, <2>1, <2>2 DEF Cut
<1>6. ASSUME NEW hi \in highs, NEW s \in cuts, NEW g, g = Block(1, t, t, 0, hi)
      PROVE  piece(g, s) = Block(1, d, d, 0, s + hi * q)
  <2>1. hi \in Nat /\ s \in Nat /\ s < q
    BY <1>2, <1>3
  <2>2. DOMAIN g = 1..t /\ Len(g) = t /\ g \in Seq(Int) /\ \A v \in 1..t : g[v] = 0 + (v - 1) * 1 + hi * t
    <3>1. hi * t \in Nat
      BY <1>2, <2>1, TimesNat
    <3> DEFINE y == hi * t
    <3> HIDE DEF y
    <3>2. g = [v \in 1..t |-> 0 + (v - 1) * 1 + y]
      BY <1>6 DEF Block, y
    <3>3. \A v \in 1..t : 0 + (v - 1) * 1 + y \in Int
      BY <1>2, <3>1 DEF y
    <3> QED
      BY <1>2, <3>2, <3>3 DEF y
  <2> DEFINE lo == s * d
             y == hi * q
  <2>3. lo \in Nat /\ y \in Nat /\ lo + d <= t /\ (s + 1) * d = lo + d
    <3>1. (s + 1) * d <= q * d
      <4>1. s + 1 \in Nat /\ s + 1 <= q
        BY <1>3, <2>1
      <4> QED
        BY <1>2, <1>3, <4>1, TimesMonotone
    <3>2. (s + 1) * d = s * d + d
      BY <1>2, <2>1
    <3>3. lo \in Nat /\ y \in Nat
      BY <1>2, <1>3, <2>1, TimesNat
    <3> QED
      BY <1>3, <3>1, <3>2, <3>3
  <2>4. hi * t = y * d /\ s * d = lo
    <3>1. hi * (q * d) = (hi * q) * d
      BY <1>2, <1>3, <2>1
    <3> QED
      BY <1>3, <3>1
  <2> HIDE DEF lo, y
  <2>5. SubSeq(g, lo + 1, lo + d) = [v \in 1..d |-> g[lo + v]]
    <3>1. lo + 1 \in 1..(t + 1) /\ lo + d \in 0..t
      BY <1>2, <2>3
    <3>2. Len(SubSeq(g, lo + 1, lo + d)) = d /\ \A v \in 1..d : SubSeq(g, lo + 1, lo + d)[v] = g[lo + 1 + v - 1]
      BY <1>2, <2>2, <2>3, <3>1, SubSeqProperties
    <3>3. SubSeq(g, lo + 1, lo + d) \in Seq(Int)
      BY <1>2, <2>2, <2>3, <3>1, SubSeqProperties
    <3>4. \A v \in 1..d : lo + 1 + v - 1 = lo + v
      BY <2>3
    <3> DEFINE z == SubSeq(g, lo + 1, lo + d)
    <3> HIDE DEF z
    <3>5. DOMAIN z = 1..d /\ z = [v \in DOMAIN z |-> z[v]]
      <4>1. z \in Seq(Int) /\ Len(z) = d
        BY <3>2, <3>3 DEF z
      <4> QED
        BY <4>1
    <3>6. \A v \in 1..d : z[v] = g[lo + v]
      BY <3>2, <3>4 DEF z
    <3> QED
      BY <3>5, <3>6 DEF z
  <2>6. ASSUME NEW v \in 1..d PROVE g[lo + v] = 0 + (v - 1) * 1 + (s + y) * d
    <3>1. lo + v \in 1..t /\ v \in Nat
      BY <1>2, <2>3
    <3>2. g[lo + v] = 0 + ((lo + v) - 1) * 1 + hi * t
      BY <2>2, <3>1
    <3>3. (s + y) * d = s * d + y * d /\ s * d \in Nat /\ y * d \in Nat
      BY <1>2, <2>1, <2>3
    <3> DEFINE yd == y * d
    <3>4. g[lo + v] = 0 + ((lo + v) - 1) * 1 + yd /\ (s + y) * d = lo + yd /\ yd \in Nat
      BY <2>4, <3>2, <3>3
    <3> HIDE DEF yd
    <3> QED
      BY <2>3, <3>1, <3>4
  <2>7. Block(1, d, d, 0, s + y) = [v \in 1..d |-> g[lo + v]]
    BY <2>6 DEF Block
  <2>8. piece(g, s) = SubSeq(g, lo + 1, lo + d)
    BY <2>3, <2>4
  <2> QED
    BY <2>5, <2>7, <2>8 DEF y
<1>7. \A hi \in highs, s \in cuts : s + hi * q \in 0..(q * c - 1)
  BY <1>2, <1>3, <1>4, Pairs
<1>8. \A h \in 0..(q * c - 1) : \E hi \in highs, s \in cuts : h = s + hi * q
  <2> TAKE h \in 0..(q * c - 1)
  <2> DEFINE s == h % q
             hi == h \div q
  <2>1. s \in cuts /\ hi \in highs /\ h = s + hi * q
    BY <1>2, <1>3, <1>4, Pairs
  <2> HIDE DEF s, hi
  <2> QED
    BY <2>1
<1>9. \A g : g \in F <=> \E hi \in highs : g = Block(1, t, t, 0, hi)
  <2>1. 0..(1 - 1) = {0}
    OBVIOUS
  <2> QED
    BY <1>1, <1>2, <2>1 DEF Strided
<1>10. \A g \in F : Len(g) \div d = q
  <2> TAKE g \in F
  <2>1. PICK hi \in highs : g = Block(1, t, t, 0, hi)
    BY <1>9
  <2>2. Len(g) = t
    BY <1>2, <2>1 DEF Block
  <2> QED
    BY <2>2 DEF q
<1>11. \A x : x \in PartitionGroups(F, d) <=> \E g \in F, s \in cuts : x = piece(g, s)
  <2>1. \A x : x \in PartitionGroups(F, d) <=> \E g \in F : \E s \in 0..(Len(g) \div d - 1) : x = piece(g, s)
    BY DEF PartitionGroups
  <2> HIDE DEF piece
  <2> QED
    BY <1>10, <2>1
<1>12. \A x : x \in G <=> \E h \in 0..(q * c - 1) : x = Block(1, d, d, 0, h)
  <2>1. 0..(1 - 1) = {0}
    OBVIOUS
  <2> QED
    BY <2>1 DEF Strided
<1> HIDE DEF highs, cuts, G, piece
<1>13. PartitionGroups(F, d) = G
  <2>1. ASSUME NEW x \in PartitionGroups(F, d) PROVE x \in G
    <3>1. PICK g \in F, s \in cuts : x = piece(g, s)
      BY <1>11
    <3>2. PICK hi \in highs : g = Block(1, t, t, 0, hi)
      BY <1>9
    <3>3. x = Block(1, d, d, 0, s + hi * q)
      BY <1>6, <3>1, <3>2
    <3> QED
      BY <1>7, <1>12, <3>3
  <2>2. ASSUME NEW x \in G PROVE x \in PartitionGroups(F, d)
    <3>1. PICK h \in 0..(q * c - 1) : x = Block(1, d, d, 0, h)
      BY <1>12
    <3>2. PICK hi \in highs, s \in cuts : h = s + hi * q
      BY <1>8
    <3> DEFINE g == Block(1, t, t, 0, hi)
    <3>3. g \in F
      BY <1>9
    <3>4. x = piece(g, s)
      BY <1>6, <3>1, <3>2
    <3> HIDE DEF g
    <3> QED
      BY <1>11, <3>3, <3>4
  <2> QED
    BY <2>1, <2>2
<1> QED
  BY <1>5, <1>13 DEF Family, G

(* All ranks. *)
LEMMA WorldFamily ==
  ASSUME NEW w \in Positive
  PROVE  Family({[i \in 1..w |-> i - 1]}, 1, w, w)
<1>1. w \in Nat /\ w > 0
  BY DEF Positive
<1>2. Cut(1, w, 1, w, w)
  BY <1>1 DEF Cut
<1>3. Block(1, w, w, 0, 0) = [i \in 1..w |-> i - 1]
  <2>1. \A i \in 1..w : 0 + (i - 1) * 1 + 0 * w = i - 1
    BY <1>1
  <2> QED
    BY <2>1 DEF Block
<1>4. 0..(1 - 1) = {0}
  OBVIOUS
<1>5. Strided(1, w, w, 1) = {Block(1, w, w, 0, 0)}
  <2>1. Strided(1, w, w, 1) = {Block(1, w, w, lo, hi) : lo \in {0}, hi \in {0}}
    BY <1>4 DEF Strided
  <2> QED
    BY <2>1
<1> QED
  BY <1>2, <1>3, <1>5 DEF Family

(* The stages of a place, and its branches. *)
Staged(r, scope) ==
  {[i \in 1..r.pipeline |-> RankAt(r, scope, i - 1, f, l)] : f \in 0..(r.cfg - 1), l \in 0..(scope - 1)}
Branched(r, scope) ==
  {[i \in 1..r.cfg |-> RankAt(r, scope, s, i - 1, l)] : s \in 0..(r.pipeline - 1), l \in 0..(scope - 1)}

(* The groups of stages. *)
LEMMA PipelineFamily ==
  ASSUME NEW r, r.pipeline \in Positive, r.cfg \in Positive, NEW scope \in Positive,
         NEW w, w = scope * (r.cfg * r.pipeline)
  PROVE  Family(Staged(r, scope), scope * r.cfg, r.pipeline, w)
<1> DEFINE P == r.pipeline
           C == r.cfg
           a == scope * C
           grp(f, l) == [i \in 1..P |-> RankAt(r, scope, i - 1, f, l)]
           branches == 0..(C - 1)
           places == 0..(scope - 1)
           lows == 0..(a - 1)
           F == {grp(f, l) : f \in branches, l \in places}
           G == {Block(a, P, w, lo, 0) : lo \in lows}
<1>1. P \in Nat /\ P > 0 /\ C \in Nat /\ C > 0 /\ scope \in Nat /\ scope > 0 /\ a \in Nat /\ a > 0
  BY TimesNat DEF Positive
<1>2. Cut(a, P, 1, w, w)
  <2>1. (scope * C) * P = scope * (C * P) /\ scope * (C * P) \in Nat
    <3> HIDE DEF C, P
    <3>1. C * P \in Nat
      BY <1>1, TimesNat
    <3> QED
      BY <1>1, <3>1
  <2>2. w = a * P /\ w \in Nat
    BY <2>1
  <2> HIDE DEF a, P
  <2> QED
    BY <1>1, <2>2 DEF Cut
<1>3. Strided(a, P, w, 1) = G
  <2>1. 0..(1 - 1) = {0}
    OBVIOUS
  <2>2. Strided(a, P, w, 1) = {Block(a, P, w, lo, hi) : lo \in lows, hi \in {0}}
    BY <2>1 DEF Strided
  <2> HIDE DEF lows, a, P
  <2> QED
    BY <2>2
<1>4. ASSUME NEW f \in branches, NEW l \in places
      PROVE  grp(f, l) = Block(a, P, w, l + f * scope, 0) /\ l + f * scope \in lows
  <2>1. l + f * scope \in lows
    <3> HIDE DEF C
    <3> QED
      BY <1>1, Pairs
  <2>2. ASSUME NEW i \in 1..P PROVE RankAt(r, scope, i - 1, f, l) = (l + f * scope) + (i - 1) * a + 0 * w
    <3> DEFINE u == i - 1
    <3>1. u \in Nat /\ f \in Nat /\ l \in Nat /\ w \in Nat
      BY <1>1, <1>2 DEF Cut
    <3>2. RankAt(r, scope, u, f, l) = (u * C + f) * scope + l
      BY DEF RankAt
    <3> HIDE DEF u, C
    <3>3. (u * C + f) * scope + l = (l + f * scope) + u * (scope * C) + 0
      BY <1>1, <3>1
    <3>4. 0 * w = 0
      BY <3>1
    <3> QED
      BY <3>2, <3>3, <3>4 DEF u
  <2>3. grp(f, l) = Block(a, P, w, l + f * scope, 0)
    BY <2>2 DEF Block
  <2> QED
    BY <2>1, <2>3
<1>5. ASSUME NEW lo \in lows PROVE \E f \in branches, l \in places : lo = l + f * scope
  <2> DEFINE l == lo % scope
             f == lo \div scope
  <2>1. l \in places /\ f \in branches /\ lo = l + f * scope
    <3> HIDE DEF C
    <3> QED
      BY <1>1, Pairs
  <2> HIDE DEF l, f
  <2> QED
    BY <2>1
<1> HIDE DEF grp, branches, places, lows, a, P
<1>6. F = G
  <2>1. ASSUME NEW f \in branches, NEW l \in places PROVE grp(f, l) \in G
    BY <1>4
  <2>2. ASSUME NEW lo \in lows PROVE Block(a, P, w, lo, 0) \in F
    BY <1>4, <1>5
  <2> QED
    BY <2>1, <2>2
<1> HIDE DEF F, G
<1>7. Family(F, a, P, w)
  BY <1>2, <1>3, <1>6 DEF Family
<1> QED
  BY <1>7 DEF F, a, P, grp, branches, places, Staged

(* The groups of branches. *)
LEMMA CfgFamily ==
  ASSUME NEW r, r.pipeline \in Positive, r.cfg \in Positive, NEW scope \in Positive,
         NEW w, w = scope * (r.cfg * r.pipeline)
  PROVE  Family(Branched(r, scope), scope, r.cfg, w)
<1> DEFINE P == r.pipeline
           C == r.cfg
           n == scope * C
           grp(s, l) == [i \in 1..C |-> RankAt(r, scope, s, i - 1, l)]
           stages == 0..(P - 1)
           places == 0..(scope - 1)
           F == {grp(s, l) : s \in stages, l \in places}
           G == {Block(scope, C, n, l, s) : l \in places, s \in stages}
<1>1. P \in Nat /\ P > 0 /\ C \in Nat /\ C > 0 /\ scope \in Nat /\ scope > 0 /\ n \in Nat
  BY TimesNat DEF Positive
<1>2. Cut(scope, C, P, n, w)
  <2>1. (scope * C) * P = scope * (C * P)
    <3> HIDE DEF C, P
    <3> QED
      BY <1>1
  <2>2. w = n * P
    BY <2>1
  <2> QED
    BY <1>1, <2>2 DEF Cut
<1>3. Strided(scope, C, n, P) = G
  BY DEF Strided
<1>4. ASSUME NEW s \in stages, NEW l \in places
      PROVE  grp(s, l) = Block(scope, C, n, l, s)
  <2>1. ASSUME NEW i \in 1..C PROVE RankAt(r, scope, s, i - 1, l) = l + (i - 1) * scope + s * n
    <3> DEFINE u == i - 1
    <3>1. u \in Nat /\ s \in Nat /\ l \in Nat
      BY <1>1
    <3>2. RankAt(r, scope, s, u, l) = (s * C + u) * scope + l
      BY DEF RankAt
    <3> HIDE DEF u, C
    <3>3. (s * C + u) * scope + l = l + u * scope + s * (scope * C)
      BY <1>1, <3>1
    <3> QED
      BY <3>2, <3>3 DEF u
  <2> QED
    BY <2>1 DEF Block
<1> HIDE DEF grp, stages, places, n, C, P
<1>5. F = G
  BY <1>4
<1> HIDE DEF F, G
<1>6. Family(F, scope, C, w)
  BY <1>2, <1>3, <1>5 DEF Family
<1> QED
  BY <1>6 DEF F, C, grp, stages, places, P, Branched

(* The lower digits of a number. *)
LEMMA ModProduct ==
  ASSUME NEW x \in Nat, NEW a \in Nat, a > 0, NEW b \in Nat, b > 0
  PROVE  x % (a * b) = (x % a) + ((x \div a) % b) * a
<1> DEFINE q == x \div a
           m == x % a
           u == q \div b
           k == q % b
           n == a * b
           y == m + k * a
<1>1. q \in Nat /\ m \in Nat /\ m < a /\ x = a * q + m
  BY DivMod
<1> HIDE DEF q, m
<1>2. u \in Nat /\ k \in Nat /\ k < b /\ q = b * u + k
  BY <1>1, DivMod
<1> HIDE DEF u, k
<1>3. m \in 0..(a - 1) /\ k \in 0..(b - 1)
  BY <1>1, <1>2
<1>4. y \in 0..(n - 1) /\ n \in Nat /\ n > 0
  BY <1>3, Pairs, TimesNat
<1>5. x = n * u + y
  <2>1. x = a * (b * u + k) + m
    BY <1>1, <1>2
  <2>2. a * (b * u + k) + m = (a * b) * u + (m + k * a)
    <3>1. u \in Nat /\ k \in Nat /\ m \in Nat
      BY <1>1, <1>2
    <3> QED
      BY <3>1
  <2> QED
    BY <2>1, <2>2
<1> HIDE DEF n, y
<1>6. x % n = y
  <2>1. y \in Nat /\ y < n
    BY <1>4
  <2> QED
    BY <1>2, <1>4, <1>5, <2>1, DivIs
<1> QED
  BY <1>6 DEF n, y, m, k, q

(* Two ranks with the same place in a group, and in what is below, have    *)
(* the same lower digits.                                                  *)
LEMMA SamePlace ==
  ASSUME NEW F, NEW a, NEW b, NEW w, Family(F, a, b, w), NEW x \in 0..(w - 1), NEW y \in 0..(w - 1),
         GroupRank(F, x) = GroupRank(F, y), x % a = y % a
  PROVE  x % (a * b) = y % (a * b)
<1> DEFINE n == a * b
<1>1. /\ w \in Nat /\ a \in Nat /\ a > 0 /\ b \in Nat /\ b > 0
      /\ GroupRank(F, x) = (x \div a) % b /\ GroupRank(F, y) = (y \div a) % b
  <2> HIDE DEF n
  <2> QED
    BY FamilyIs DEF n
<1>2. x \in Nat /\ y \in Nat
  BY <1>1
<1>3. x % (a * b) = (x % a) + ((x \div a) % b) * a /\ y % (a * b) = (y % a) + ((y \div a) % b) * a
  BY <1>1, <1>2, ModProduct
<1> QED
  BY <1>1, <1>3, Zenon

(* Different images of the numbers below n are n. *)
LEMMA InjectiveImage ==
  ASSUME NEW n \in Nat, NEW f, DOMAIN f = 0..(n - 1), \A x, y \in 0..(n - 1) : f[x] = f[y] => x = y,
         f = [x \in 0..(n - 1) |-> f[x]]
  PROVE  Cardinality({f[x] : x \in 0..(n - 1)}) = n
<1> DEFINE S == 0..(n - 1)
           T == {f[x] : x \in S}
<1>1. IsFiniteSet(S) /\ Cardinality(S) = n
  <2>1. n - 1 \in Int /\ 0 \in Int
    OBVIOUS
  <2>2. IsFiniteSet(S) /\ Cardinality(S) = IF 0 > n - 1 THEN 0 ELSE n - 1 - 0 + 1
    BY <2>1, FS_Interval
  <2> HIDE DEF S
  <2> QED
    BY <2>2
<1> HIDE DEF S
<1>2. f \in [S -> T]
  BY DEF S
<1>3. f \in Surjection(S, T)
  <2>1. \A z \in T : \E x \in S : f[x] = z
    OBVIOUS
  <2> HIDE DEF T
  <2> QED
    BY <1>2, <2>1 DEF Surjection
<1>4. f \in Injection(S, T)
  <2>1. \A x, y \in S : f[x] = f[y] => x = y
    BY DEF S
  <2> HIDE DEF T
  <2> QED
    BY <1>2, <2>1, Zenon DEF Injection, IsInjective
<1> HIDE DEF T
<1>5. Cardinality(T) = n
  BY <1>1, <1>3, <1>4, FS_Surjection
<1> QED
  BY <1>5 DEF S, T

(* The thirteen families of a resolved configuration. *)
LEMMA LayoutIs ==
  ASSUME NEW r, r.pipeline \in Positive, r.cfg \in Positive, r.decode \in Positive, NEW scope \in Positive,
         NEW w, w = scope * (r.cfg * r.pipeline), w \div Outer(r) = scope,
         NEW t \in Positive, NEW d \in Positive, r.dims["dense"] = <<t, d>>, t * d = scope,
         NEW at \in Positive, NEW am \in Positive, NEW ad \in Positive, r.dims["attention"] = <<at, am, ad>>,
         at * am * ad = scope, at % r.decode = 0,
         NEW mt \in Positive, NEW me \in Positive, NEW md \in Positive, r.dims["moe"] = <<mt, me, md>>,
         mt * me * md = scope, NEW fam, fam = Layout(r, w)
  PROVE  /\ DOMAIN fam = {"world", "pipeline", "cfg", "dense_tp", "dense_dp", "attention_tp", "attention_cp",
                          "attention_dp", "attention_decode_cp", "moe_tp", "moe_ep", "moe_dp", "moe_tp_ep"}
         /\ Family(fam["world"], 1, w, w)
         /\ Family(fam["pipeline"], scope * r.cfg, r.pipeline, w) /\ Family(fam["cfg"], scope, r.cfg, w)
         /\ Family(fam["dense_tp"], 1, t, w) /\ Family(fam["dense_dp"], t, d, w)
         /\ Family(fam["attention_tp"], 1, at, w) /\ Family(fam["attention_cp"], at, am, w)
         /\ Family(fam["attention_dp"], at * am, ad, w) /\ Family(fam["attention_decode_cp"], 1, r.decode, w)
         /\ Family(fam["moe_tp"], 1, mt, w) /\ Family(fam["moe_ep"], mt, me, w)
         /\ Family(fam["moe_dp"], mt * me, md, w) /\ Family(fam["moe_tp_ep"], 1, mt * me, w)
<1> DEFINE moe == r.dims["moe"]
           both == mt * me
           attentionTp(z) == InDomain(r, z, r.dims["attention"], 1)
           layout(z) ==
             [world     |-> {[i \in 1..w |-> i - 1]},
              pipeline  |-> Staged(r, z),
              cfg       |-> Branched(r, z),
              dense_tp  |-> InDomain(r, z, r.dims["dense"], 1),
              dense_dp  |-> InDomain(r, z, r.dims["dense"], 2),
              attention_tp |-> attentionTp(z),
              attention_cp |-> InDomain(r, z, r.dims["attention"], 2),
              attention_dp |-> InDomain(r, z, r.dims["attention"], 3),
              attention_decode_cp |-> PartitionGroups(attentionTp(z), r.decode),
              moe_tp    |-> InDomain(r, z, moe, 1),
              moe_ep    |-> InDomain(r, z, moe, 2),
              moe_dp    |-> InDomain(r, z, moe, 3),
              moe_tp_ep |-> InDomain(r, z, <<moe[1] * moe[2], moe[3]>>, 1)]
<1>1. /\ DOMAIN fam = {"world", "pipeline", "cfg", "dense_tp", "dense_dp", "attention_tp", "attention_cp",
                       "attention_dp", "attention_decode_cp", "moe_tp", "moe_ep", "moe_dp", "moe_tp_ep"}
      /\ fam["world"] = {[i \in 1..w |-> i - 1]}
      /\ fam["pipeline"] = Staged(r, scope) /\ fam["cfg"] = Branched(r, scope)
      /\ fam["dense_tp"] = InDomain(r, scope, r.dims["dense"], 1)
      /\ fam["dense_dp"] = InDomain(r, scope, r.dims["dense"], 2)
      /\ fam["attention_tp"] = attentionTp(scope)
      /\ fam["attention_cp"] = InDomain(r, scope, r.dims["attention"], 2)
      /\ fam["attention_dp"] = InDomain(r, scope, r.dims["attention"], 3)
      /\ fam["attention_decode_cp"] = PartitionGroups(attentionTp(scope), r.decode)
      /\ fam["moe_tp"] = InDomain(r, scope, moe, 1)
      /\ fam["moe_ep"] = InDomain(r, scope, moe, 2)
      /\ fam["moe_dp"] = InDomain(r, scope, moe, 3)
      /\ fam["moe_tp_ep"] = InDomain(r, scope, <<moe[1] * moe[2], moe[3]>>, 1)
  <2>1. Layout(r, w) = layout(w \div Outer(r))
    BY DEF Layout, Staged, Branched
  <2> HIDE DEF layout
  <2>2. fam = layout(scope)
    BY <2>1
  <2> HIDE DEF attentionTp, moe
  <2> QED
    BY <2>2 DEF layout
<1>2. w \in Positive
  <2>1. r.cfg * r.pipeline \in Nat /\ r.cfg * r.pipeline > 0
    BY TimesNat DEF Positive
  <2> DEFINE u == r.cfg * r.pipeline
  <2> HIDE DEF u
  <2>2. scope * u \in Nat /\ scope * u > 0
    BY <2>1, TimesNat DEF Positive, u
  <2> QED
    BY <2>2 DEF Positive, u
<1>3. Family(fam["world"], 1, w, w)
  BY <1>1, <1>2, WorldFamily
<1>4. Family(fam["pipeline"], scope * r.cfg, r.pipeline, w)
  <2>1. Family(Staged(r, scope), scope * r.cfg, r.pipeline, w)
    BY PipelineFamily
  <2> QED
    BY <1>1, <2>1
<1>5. Family(fam["cfg"], scope, r.cfg, w)
  <2>1. Family(Branched(r, scope), scope, r.cfg, w)
    BY CfgFamily
  <2> QED
    BY <1>1, <2>1
<1>6. Family(fam["dense_tp"], 1, t, w) /\ Family(fam["dense_dp"], t, d, w)
  <2>1. Family(InDomain(r, scope, <<t, d>>, 1), 1, t, w) /\ Family(InDomain(r, scope, <<t, d>>, 2), t, d, w)
    BY TwoDomain
  <2> QED
    BY <1>1, <2>1
<1>7. /\ Family(fam["attention_tp"], 1, at, w) /\ Family(fam["attention_cp"], at, am, w)
      /\ Family(fam["attention_dp"], at * am, ad, w)
  <2>1. /\ Family(InDomain(r, scope, <<at, am, ad>>, 1), 1, at, w)
        /\ Family(InDomain(r, scope, <<at, am, ad>>, 2), at, am, w)
        /\ Family(InDomain(r, scope, <<at, am, ad>>, 3), at * am, ad, w)
    BY ThreeDomain
  <2> QED
    BY <1>1, <2>1
<1>8. Family(fam["attention_decode_cp"], 1, r.decode, w)
  <2>1. Family(attentionTp(scope), 1, at, w)
    BY <1>1, <1>7
  <2> HIDE DEF attentionTp
  <2>2. Family(PartitionGroups(attentionTp(scope), r.decode), 1, r.decode, w)
    BY <2>1, DecodeFamily
  <2> QED
    BY <1>1, <2>2
<1>9. /\ Family(fam["moe_tp"], 1, mt, w) /\ Family(fam["moe_ep"], mt, me, w)
      /\ Family(fam["moe_dp"], mt * me, md, w)
  <2>1. /\ Family(InDomain(r, scope, <<mt, me, md>>, 1), 1, mt, w)
        /\ Family(InDomain(r, scope, <<mt, me, md>>, 2), mt, me, w)
        /\ Family(InDomain(r, scope, <<mt, me, md>>, 3), mt * me, md, w)
    BY ThreeDomain
  <2> QED
    BY <1>1, <2>1
<1>10. Family(fam["moe_tp_ep"], 1, both, w)
  <2>1. both \in Positive /\ scope = both * md
    BY TimesNat DEF Positive
  <2>2. <<moe[1] * moe[2], moe[3]>> = <<both, md>>
    OBVIOUS
  <2> HIDE DEF both, moe
  <2>3. Family(InDomain(r, scope, <<both, md>>, 1), 1, both, w)
    BY <2>1, TwoDomain
  <2> QED
    BY <1>1, <2>2, <2>3
<1> HIDE DEF both
<1> QED
  BY <1>1, <1>3, <1>4, <1>5, <1>6, <1>7, <1>8, <1>9, <1>10 DEF both

(* Groups of neighbours are runs of ranks. *)
LEMMA Neighbours ==
  ASSUME NEW F, NEW b, NEW w, Family(F, 1, b, w), NEW g \in F, NEW i \in DOMAIN g
  PROVE  g[i] = g[1] + i - 1
<1>1. PICK c, n : Cut(1, b, c, n, w) /\ F = Strided(1, b, n, c)
  BY DEF Family
<1>2. b \in Nat /\ b > 0 /\ n \in Nat /\ c \in Nat
  BY <1>1, Digits
<1>3. PICK lo \in 0..(1 - 1), hi \in 0..(c - 1) : g = Block(1, b, n, lo, hi)
  BY <1>1 DEF Strided
<1> DEFINE y == hi * n
<1>4. y \in Nat /\ lo = 0
  BY <1>2, TimesNat
<1>5. g = [v \in 1..b |-> lo + (v - 1) * 1 + y]
  BY <1>3 DEF Block
<1> HIDE DEF y
<1>6. i \in 1..b /\ 1 \in 1..b
  BY <1>2, <1>5
<1>7. g[i] = lo + (i - 1) * 1 + y /\ g[1] = lo + (1 - 1) * 1 + y
  BY <1>5, <1>6
<1> QED
  BY <1>2, <1>4, <1>6, <1>7

(* A family whose blocks divide those of a family of neighbours is finer. *)
LEMMA Inside ==
  ASSUME NEW F, NEW G, NEW a, NEW b, NEW n, n = a * b, NEW k, NEW q \in Positive, k = n * q, NEW w,
         Family(F, a, b, w), Family(G, 1, k, w), NEW x \in 0..(w - 1)
  PROVE  ToSet(MembersFor(F, x)) \subseteq ToSet(MembersFor(G, x))
<1> DEFINE ranks == 0..(w - 1)
<1>1. /\ w \in Nat /\ a \in Nat /\ a > 0 /\ b \in Nat /\ b > 0
      /\ \A y \in ranks : y \in ToSet(MembersFor(F, x)) <=> y % a = x % a /\ y \div n = x \div n
      /\ ToSet(MembersFor(F, x)) \subseteq ranks
  BY FamilyIs
<1>2. n \in Nat /\ n > 0 /\ q \in Nat /\ q > 0 /\ k \in Nat
  BY <1>1, TimesNat DEF Positive
<1>3. k = 1 * k
  BY <1>2
<1>4. \A y \in ranks : y \in ToSet(MembersFor(G, x)) <=> y % 1 = x % 1 /\ y \div k = x \div k
  BY <1>3, FamilyIs
<1>5. ASSUME NEW y \in ranks, y \in ToSet(MembersFor(F, x)) PROVE y \in ToSet(MembersFor(G, x))
  <2>1. x \in Nat /\ y \in Nat
    BY <1>1
  <2>2. y \div n = x \div n
    BY <1>1, <1>5
  <2>3. y \div k = (y \div n) \div q /\ x \div k = (x \div n) \div q
    BY <1>2, <2>1, DivTwice
  <2>4. y % 1 = 0 /\ x % 1 = 0
    BY <2>1
  <2>5. y \div k = x \div k
    BY <2>2, <2>3, Zenon
  <2> QED
    BY <1>4, <2>4, <2>5
<1> QED
  BY <1>1, <1>5

(* A place in the scope, a branch and a stage are one rank. *)
LEMMA SameRank ==
  ASSUME NEW fam, NEW scope, NEW C, NEW P, NEW w, w = scope * (C * P),
         Family(fam["cfg"], scope, C, w), Family(fam["pipeline"], scope * C, P, w),
         NEW x \in 0..(w - 1), NEW y \in 0..(w - 1), x % scope = y % scope,
         GroupRank(fam["cfg"], x) = GroupRank(fam["cfg"], y),
         GroupRank(fam["pipeline"], x) = GroupRank(fam["pipeline"], y)
  PROVE  x = y
<1> DEFINE a == scope * C
<1>1. scope \in Nat /\ scope > 0 /\ C \in Nat /\ C > 0 /\ P \in Nat /\ P > 0 /\ w \in Nat
  <2> DEFINE n == a * P
             m == scope * C
  <2>1. w \in Nat /\ scope \in Nat /\ scope > 0 /\ C \in Nat /\ C > 0
    <3> HIDE DEF m
    <3> QED
      BY FamilyIs DEF m
  <2>2. P \in Nat /\ P > 0
    <3> HIDE DEF a, n
    <3>1. Family(fam["pipeline"], a, P, w)
      BY DEF a
    <3> QED
      BY <3>1, FamilyIs DEF n
  <2> QED
    BY <2>1, <2>2
<1>2. x % a = y % a
  BY SamePlace
<1>3. a * P = w
  BY <1>1, TimesThree
<1> HIDE DEF a
<1>4. Family(fam["pipeline"], a, P, w)
  BY DEF a
<1>5. x % (a * P) = y % (a * P)
  BY <1>2, <1>4, SamePlace
<1>6. x % w = y % w
  BY <1>3, <1>5, Zenon
<1>7. x % w = x /\ y % w = y
  <2>1. x \in Nat /\ y \in Nat /\ x < w /\ y < w /\ w > 0
    BY <1>1
  <2>2. x = w * 0 + x /\ y = w * 0 + y
    BY <1>1, <2>1
  <2> QED
    BY <1>1, <2>1, <2>2, DivIs
<1> QED
  BY <1>6, <1>7, Zenon

(* The places of the ranks in some families. *)
Places(fam, N, w) == {[f \in N |-> GroupRank(fam[f], rank)] : rank \in 0..(w - 1)}

(* Ranks that differ in some place have as many places as there are ranks. *)
LEMMA PlacesDiffer ==
  ASSUME NEW N, NEW fam, NEW w \in Nat,
         \A x, y \in 0..(w - 1) : (\A f \in N : GroupRank(fam[f], x) = GroupRank(fam[f], y)) => x = y
  PROVE  Cardinality(Places(fam, N, w)) = w
<1> DEFINE place(x) == [f \in N |-> GroupRank(fam[f], x)]
           ranks == 0..(w - 1)
           h == [x \in ranks |-> place(x)]
<1>1. ASSUME NEW x \in ranks, NEW y \in ranks, h[x] = h[y] PROVE x = y
  <2>1. \A f \in N : place(x)[f] = place(y)[f]
    BY <1>1
  <2>2. \A f \in N : GroupRank(fam[f], x) = GroupRank(fam[f], y)
    BY <2>1
  <2> QED
    BY <2>2
<1> HIDE DEF place
<1>2. DOMAIN h = ranks /\ h = [x \in ranks |-> h[x]]
  OBVIOUS
<1>3. {h[x] : x \in ranks} = {place(x) : x \in ranks}
  OBVIOUS
<1> HIDE DEF h
<1>4. Cardinality({h[x] : x \in ranks}) = w
  BY <1>1, <1>2, InjectiveImage
<1>5. Cardinality({place(x) : x \in ranks}) = w
  BY <1>3, <1>4
<1> QED
  BY <1>5 DEF place, Places

(* RankLayout raises no error after any accepted configuration, however    *)
(* large, and gives every rank a place of its own: LayoutCorrect.          *)
THEOREM EveryLayoutIsRight == parallel \in AnyConfig => LayoutCorrect
<1> SUFFICES ASSUME parallel \in AnyConfig, Infers(parallel) PROVE LayoutsAccepted /\ CoordinatesUnique
  BY DEF LayoutCorrect, LayoutsAccepted, CoordinatesUnique
<1> DEFINE p == parallel
           w == World
           r == Resolve(p, w)
           fam == Families
           C == r.cfg
           P == r.pipeline
           ranks == 0..(w - 1)
<1>1. PICK scope \in Positive : w = Outer(p) * scope /\ Resolves(p, w)
  BY InferredScope DEF World
<1>2. /\ P \in Positive /\ C \in Positive /\ r.decode \in Positive
      /\ Outer(r) = P * C /\ Outer(r) = Outer(p) /\ w \div Outer(r) = scope
  <2> HIDE DEF w, r
  <2> QED
    BY <1>1, Resolved DEF r
<1>3. PICK t \in Positive, d \in Positive : r.dims["dense"] = <<t, d>> /\ t * d = scope
  <2> HIDE DEF w, r
  <2> QED
    BY <1>1, Resolved DEF r
<1>4. PICK at \in Positive, am \in Positive, ad \in Positive :
        r.dims["attention"] = <<at, am, ad>> /\ at * am * ad = scope /\ at % r.decode = 0
  <2> HIDE DEF w, r
  <2> QED
    BY <1>1, Resolved DEF r
<1>5. PICK mt \in Positive, me \in Positive, md \in Positive :
        r.dims["moe"] = <<mt, me, md>> /\ mt * me * md = scope
  <2> HIDE DEF w, r
  <2> QED
    BY <1>1, Resolved DEF r
<1>6. fam = Layout(r, w)
  BY DEF Families
<1> HIDE DEF w, r, fam, p
<1>7. w = scope * (C * P) /\ w \in Nat
  <2>1. w = (P * C) * scope
    BY <1>1, <1>2
  <2>2. P \in Nat /\ C \in Nat /\ scope \in Nat
    BY <1>2 DEF Positive
  <2> HIDE DEF P, C
  <2>3. (P * C) * scope = scope * (C * P) /\ C * P \in Nat
    BY <2>2
  <2>4. scope * (C * P) \in Nat
    <3> DEFINE u == C * P
    <3> HIDE DEF u
    <3> QED
      BY <2>2, <2>3, TimesNat DEF u
  <2> QED
    BY <2>1, <2>3, <2>4
<1>8. /\ DOMAIN fam = {"world", "pipeline", "cfg", "dense_tp", "dense_dp", "attention_tp", "attention_cp",
                       "attention_dp", "attention_decode_cp", "moe_tp", "moe_ep", "moe_dp", "moe_tp_ep"}
      /\ Family(fam["world"], 1, w, w)
      /\ Family(fam["pipeline"], scope * C, P, w) /\ Family(fam["cfg"], scope, C, w)
      /\ Family(fam["dense_tp"], 1, t, w) /\ Family(fam["dense_dp"], t, d, w)
      /\ Family(fam["attention_tp"], 1, at, w) /\ Family(fam["attention_cp"], at, am, w)
      /\ Family(fam["attention_dp"], at * am, ad, w) /\ Family(fam["attention_decode_cp"], 1, r.decode, w)
      /\ Family(fam["moe_tp"], 1, mt, w) /\ Family(fam["moe_ep"], mt, me, w)
      /\ Family(fam["moe_dp"], mt * me, md, w) /\ Family(fam["moe_tp_ep"], 1, mt * me, w)
  BY <1>2, <1>3, <1>4, <1>5, <1>6, <1>7, LayoutIs
<1>9. \A f \in DOMAIN fam : Accepted(fam[f], w)
  <2> SUFFICES ASSUME NEW f \in DOMAIN fam PROVE Accepted(fam[f], w)
    OBVIOUS
  <2>1. \E a, b : Family(fam[f], a, b, w)
    BY <1>8, Zenon
  <2>2. PICK a, b : Family(fam[f], a, b, w)
    BY <2>1
  <2> QED
    BY <2>2, FamilyIs
<1>10. LayoutsAccepted
  BY <1>9 DEF LayoutsAccepted, fam, w
<1>11. ASSUME NEW x \in ranks, NEW y \in ranks, x % scope = y % scope,
              GroupRank(fam["cfg"], x) = GroupRank(fam["cfg"], y),
              GroupRank(fam["pipeline"], x) = GroupRank(fam["pipeline"], y)
       PROVE  x = y
  <2> HIDE DEF C, P
  <2> QED
    BY <1>7, <1>8, <1>11, SameRank
<1>12. \A x \in ranks, y \in ranks : x % 1 = y % 1
  BY <1>7
<1>13. \A x \in ranks, y \in ranks :
         /\ GroupRank(fam["dense_tp"], x) = GroupRank(fam["dense_tp"], y)
         /\ GroupRank(fam["dense_dp"], x) = GroupRank(fam["dense_dp"], y)
         => x % scope = y % scope
  <2> TAKE x \in ranks, y \in ranks
  <2> HAVE /\ GroupRank(fam["dense_tp"], x) = GroupRank(fam["dense_tp"], y)
           /\ GroupRank(fam["dense_dp"], x) = GroupRank(fam["dense_dp"], y)
  <2>1. x % (1 * t) = y % (1 * t)
    BY <1>8, <1>12, SamePlace
  <2>2. 1 * t = t
    BY DEF Positive
  <2>3. x % t = y % t
    BY <2>1, <2>2, Zenon
  <2>4. x % (t * d) = y % (t * d)
    BY <1>8, <2>3, SamePlace
  <2> QED
    BY <1>3, <2>4, Zenon
<1>14. ASSUME NEW tt \in Positive, NEW mm \in Positive, NEW dd \in Positive, tt * mm * dd = scope, NEW F, NEW G, NEW H,
              Family(F, 1, tt, w), Family(G, tt, mm, w), Family(H, tt * mm, dd, w), NEW x \in ranks, NEW y \in ranks,
              GroupRank(F, x) = GroupRank(F, y), GroupRank(G, x) = GroupRank(G, y), GroupRank(H, x) = GroupRank(H, y)
       PROVE  x % scope = y % scope
  <2>1. x % (1 * tt) = y % (1 * tt)
    BY <1>12, <1>14, SamePlace
  <2>2. 1 * tt = tt
    BY DEF Positive
  <2>3. x % tt = y % tt
    BY <2>1, <2>2, Zenon
  <2> DEFINE n == tt * mm
  <2>4. x % n = y % n
    BY <1>14, <2>3, SamePlace
  <2> HIDE DEF n
  <2>5. Family(H, n, dd, w)
    BY <1>14 DEF n
  <2>6. x % (n * dd) = y % (n * dd)
    BY <1>14, <2>4, <2>5, SamePlace
  <2> QED
    BY <1>14, <2>6, Zenon DEF n
<1>15. \A x \in ranks, y \in ranks :
         /\ GroupRank(fam["moe_tp_ep"], x) = GroupRank(fam["moe_tp_ep"], y)
         /\ GroupRank(fam["moe_dp"], x) = GroupRank(fam["moe_dp"], y)
         => x % scope = y % scope
  <2> TAKE x \in ranks, y \in ranks
  <2> HAVE /\ GroupRank(fam["moe_tp_ep"], x) = GroupRank(fam["moe_tp_ep"], y)
           /\ GroupRank(fam["moe_dp"], x) = GroupRank(fam["moe_dp"], y)
  <2> DEFINE n == mt * me
  <2>1. n \in Nat /\ 1 * n = n /\ n * md = scope
    BY <1>5, TimesNat DEF Positive
  <2> HIDE DEF n
  <2>2. Family(fam["moe_tp_ep"], 1, n, w) /\ Family(fam["moe_dp"], n, md, w)
    BY <1>8 DEF n
  <2>3. x % (1 * n) = y % (1 * n)
    BY <1>12, <2>2, SamePlace
  <2>4. x % n = y % n
    BY <2>1, <2>3, Zenon
  <2>5. x % (n * md) = y % (n * md)
    BY <2>2, <2>4, SamePlace
  <2> QED
    BY <2>1, <2>5, Zenon
<1>16. ASSUME NEW F,
              \A x \in ranks, y \in ranks :
                (\A f \in F : GroupRank(fam[f], x) = GroupRank(fam[f], y)) => x % scope = y % scope
       PROVE  Cardinality({[f \in F \cup {"pipeline", "cfg"} |-> GroupRank(fam[f], rank)] : rank \in ranks}) = w
  <2> DEFINE N == F \cup {"pipeline", "cfg"}
  <2>1. ASSUME NEW x \in ranks, NEW y \in ranks, \A f \in N : GroupRank(fam[f], x) = GroupRank(fam[f], y)
        PROVE  x = y
    <3>1. /\ GroupRank(fam["cfg"], x) = GroupRank(fam["cfg"], y)
          /\ GroupRank(fam["pipeline"], x) = GroupRank(fam["pipeline"], y)
          /\ \A f \in F : GroupRank(fam[f], x) = GroupRank(fam[f], y)
      BY <2>1
    <3> HIDE DEF ranks
    <3> QED
      BY <1>11, <1>16, <3>1
  <2> HIDE DEF N
  <2>2. \A x, y \in 0..(w - 1) : (\A f \in N : GroupRank(fam[f], x) = GroupRank(fam[f], y)) => x = y
    BY <2>1
  <2>3. Cardinality(Places(fam, N, w)) = w
    BY <1>7, <2>2, PlacesDiffer
  <2> QED
    BY <2>3 DEF N, Places
<1>17. ASSUME NEW F \in {{"dense_tp", "dense_dp"}, {"attention_tp", "attention_cp", "attention_dp"},
                         {"moe_tp", "moe_ep", "moe_dp"}, {"moe_tp_ep", "moe_dp"}}
       PROVE  Cardinality({[f \in F \cup {"pipeline", "cfg"} |-> GroupRank(fam[f], rank)] : rank \in ranks}) = w
  <2> SUFFICES ASSUME NEW x \in ranks, NEW y \in ranks, \A f \in F : GroupRank(fam[f], x) = GroupRank(fam[f], y)
               PROVE  x % scope = y % scope
    <3> HIDE DEF ranks
    <3> QED
      BY <1>16
  <2>1. CASE F = {"dense_tp", "dense_dp"}
    BY <1>13, <2>1
  <2>2. CASE F = {"attention_tp", "attention_cp", "attention_dp"}
    <3>1. /\ GroupRank(fam["attention_tp"], x) = GroupRank(fam["attention_tp"], y)
          /\ GroupRank(fam["attention_cp"], x) = GroupRank(fam["attention_cp"], y)
          /\ GroupRank(fam["attention_dp"], x) = GroupRank(fam["attention_dp"], y)
      BY <2>2
    <3> QED
      BY <1>4, <1>8, <1>14, <3>1
  <2>3. CASE F = {"moe_tp", "moe_ep", "moe_dp"}
    <3>1. /\ GroupRank(fam["moe_tp"], x) = GroupRank(fam["moe_tp"], y)
          /\ GroupRank(fam["moe_ep"], x) = GroupRank(fam["moe_ep"], y)
          /\ GroupRank(fam["moe_dp"], x) = GroupRank(fam["moe_dp"], y)
      BY <2>3
    <3> QED
      BY <1>5, <1>8, <1>14, <3>1
  <2>4. CASE F = {"moe_tp_ep", "moe_dp"}
    BY <1>15, <2>4
  <2> QED
    BY <2>1, <2>2, <2>3, <2>4
<1> DEFINE inside(f, g, x) == ToSet(MembersFor(fam[f], x)) \subseteq ToSet(MembersFor(fam[g], x))
<1>18. \A x \in ranks : inside("attention_decode_cp", "attention_tp", x)
  <2> TAKE x \in ranks
  <2> DEFINE q == at \div r.decode
             n == 1 * r.decode
  <2>1. at \in Nat /\ at > 0 /\ r.decode \in Nat /\ r.decode > 0
    BY <1>2 DEF Positive
  <2>2. q \in Nat /\ at = r.decode * q + 0
    BY <1>4, <2>1, DivMod
  <2> HIDE DEF q
  <2>3. q \in Positive /\ at = n * q
    BY <2>1, <2>2 DEF Positive
  <2> HIDE DEF n
  <2> QED
    BY <1>8, <2>3, Inside DEF n
<1>19. \A x \in ranks : inside("moe_tp", "moe_tp_ep", x) /\ inside("moe_ep", "moe_tp_ep", x)
  <2> TAKE x \in ranks
  <2> DEFINE k == mt * me
             n == 1 * mt
  <2>1. k = n * me /\ k = k * 1 /\ 1 \in Positive
    BY DEF Positive
  <2> HIDE DEF k, n
  <2>2. inside("moe_tp", "moe_tp_ep", x)
    BY <1>8, <2>1, Inside DEF n, k
  <2>3. inside("moe_ep", "moe_tp_ep", x)
    BY <1>8, <2>1, Inside DEF k
  <2> QED
    BY <2>2, <2>3
<1>20. \A f \in {"dense_tp", "attention_tp", "moe_tp"} : \A g \in fam[f] : \A i \in DOMAIN g : g[i] = g[1] + i - 1
  <2> SUFFICES ASSUME NEW f \in {"dense_tp", "attention_tp", "moe_tp"}, NEW g \in fam[f], NEW i \in DOMAIN g
               PROVE  g[i] = g[1] + i - 1
    OBVIOUS
  <2>1. PICK b : Family(fam[f], 1, b, w)
    BY <1>8
  <2> QED
    BY <2>1, Neighbours
<1>21. CoordinatesUnique
  BY <1>17, <1>18, <1>19, <1>20 DEF CoordinatesUnique, fam, w
<1> QED
  BY <1>10, <1>21
=============================================================================
