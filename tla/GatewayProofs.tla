---------------------------- MODULE GatewayProofs ----------------------------
(***************************************************************************)
(* The gateway's registry, health monitor and inference client proved for  *)
(* any number of backends, threads, records and ticks: the records and     *)
(* their leases (RecordsCorrect), that no request cuts off another one     *)
(* (NeverCut), and that a managed server is trusted only after a probe     *)
(* (TrustFollowsProbe).                                                    *)
(***************************************************************************)
EXTENDS Gateway, FiniteSetTheorems, TLAPS

(* Threads inside infer(): finitely many at any time.                      *)
Busy == {c \in Client : req[c].phase # "idle"}

GatewayInv ==
  /\ TypeOK /\ IsFiniteSet(Busy) /\ LeasesCounted /\ RemovedOnlyWhileLeased /\ BackendsUnique
  /\ NeverCut

(* What a step makes of a record that keeps its lease count.               *)
SameLease(x, y) ==
  /\ y \in Server
  /\ y.endpoint = x.endpoint /\ y.model = x.model /\ y.inflight = x.inflight
  /\ x.removed => y.removed
  /\ y.removed => x.inflight # 0

(* A step of the registry that hands out and takes back nothing: it drops  *)
(* only records without a call, and keeps the others and their counts.     *)
KeepsLeases ==
  /\ DOMAIN servers' \subseteq DOMAIN servers
  /\ \A s \in DOMAIN servers : servers[s].inflight # 0 => s \in DOMAIN servers'
  /\ \A s \in DOMAIN servers' : SameLease(servers[s], servers'[s])

-----------------------------------------------------------------------------
(* The fields of a record.                                                 *)
LEMMA ServerFields ==
  ASSUME NEW x \in Server
  PROVE  /\ x.endpoint \in Endpoint /\ x.model \in Model /\ x.inflight \in Nat
         /\ x.age \in Nat /\ x.age <= HeartbeatTimeout + 1
         /\ x.managed \in BOOLEAN /\ x.healthy \in BOOLEAN /\ x.removed \in BOOLEAN
         /\ x.failures \in Nat /\ x.failures <= FailureThreshold
  BY GatewayAssumption DEF Server

(* A record registered again keeps its backend and its calls; one that     *)
(* becomes managed is not trusted yet.                                     *)
LEMMA AdoptedIs ==
  ASSUME NEW x \in Server, NEW managed \in BOOLEAN
  PROVE  LET y == Adopted(x, managed) IN
         /\ y \in Server
         /\ y.endpoint = x.endpoint /\ y.model = x.model /\ y.inflight = x.inflight
         /\ y.removed = x.removed
         /\ y.managed /\ y.healthy => x.managed /\ x.healthy
<1>1. PICK mg \in BOOLEAN, he \in BOOLEAN :
        mg = (x.managed \/ managed) /\ he = (x.healthy /\ ~(managed /\ ~x.managed))
  OBVIOUS
<1>2. Adopted(x, managed) = [x EXCEPT !.age = 0, !.managed = mg, !.healthy = he]
  BY <1>1 DEF Adopted, Server
<1>3. LET y == [x EXCEPT !.age = 0, !.managed = mg, !.healthy = he] IN
      /\ y \in Server
      /\ y.endpoint = x.endpoint /\ y.model = x.model /\ y.inflight = x.inflight
      /\ y.removed = x.removed /\ y.managed = mg /\ y.healthy = he
  <2>1. 0 \in 0..(HeartbeatTimeout + 1)
    BY GatewayAssumption
  <2> QED
    BY <2>1 DEF Server
<1>4. mg /\ he => x.managed /\ x.healthy
  BY <1>1
<1> QED
  BY <1>2, <1>3, <1>4

(* So does a record that was probed.                                       *)
LEMMA ProbedIs ==
  ASSUME NEW x \in Server, NEW ok \in BOOLEAN
  PROVE  LET y == Probed(x, ok) IN
         /\ y \in Server
         /\ y.endpoint = x.endpoint /\ y.model = x.model /\ y.inflight = x.inflight
         /\ y.removed = x.removed /\ y.managed = x.managed
<1>1. PICK he \in BOOLEAN, n \in 0..FailureThreshold :
        Probed(x, ok) = [x EXCEPT !.failures = n, !.healthy = he]
  <2>1. CASE ok
    <3>1. 0 \in 0..FailureThreshold /\ TRUE \in BOOLEAN
      BY GatewayAssumption
    <3>2. Probed(x, ok) = [x EXCEPT !.failures = 0, !.healthy = TRUE]
      BY <2>1 DEF Probed
    <3> QED
      BY <3>1, <3>2
  <2>2. CASE ~ok
    <3>1. PICK he \in BOOLEAN : he = (x.healthy /\ x.failures + 1 < FailureThreshold)
      OBVIOUS
    <3>2. PICK n \in 0..FailureThreshold :
            n = IF x.failures < FailureThreshold THEN x.failures + 1 ELSE x.failures
      BY ServerFields, GatewayAssumption
    <3>3. Probed(x, ok) = [x EXCEPT !.failures = n, !.healthy = he]
      BY <2>2, <3>1, <3>2 DEF Probed, Server
    <3> QED
      BY <3>3
  <2> QED
    BY <2>1, <2>2
<1>2. LET y == [x EXCEPT !.failures = n, !.healthy = he] IN
      /\ y \in Server
      /\ y.endpoint = x.endpoint /\ y.model = x.model /\ y.inflight = x.inflight
      /\ y.removed = x.removed /\ y.managed = x.managed
  BY DEF Server
<1> QED
  BY <1>1, <1>2

(* Other changes of one field.                                             *)
LEMMA AgedIs ==
  ASSUME NEW x \in Server, NEW a \in 0..(HeartbeatTimeout + 1)
  PROVE  LET y == [x EXCEPT !.age = a] IN
         /\ y \in Server
         /\ y.endpoint = x.endpoint /\ y.model = x.model /\ y.inflight = x.inflight
         /\ y.removed = x.removed /\ y.managed = x.managed /\ y.healthy = x.healthy
  BY DEF Server

(* A record that is marked as removed.                                     *)
LEMMA MarkedIs ==
  ASSUME NEW x \in Server
  PROVE  LET y == [x EXCEPT !.removed = TRUE] IN
         /\ y \in Server
         /\ y.endpoint = x.endpoint /\ y.model = x.model /\ y.inflight = x.inflight
         /\ y.removed /\ y.managed = x.managed /\ y.healthy = x.healthy
  BY DEF Server

(* A record with another number of calls.                                  *)
LEMMA CountedIs ==
  ASSUME NEW x \in Server, NEW n \in Nat
  PROVE  LET y == [x EXCEPT !.inflight = n] IN
         /\ y \in Server
         /\ y.endpoint = x.endpoint /\ y.model = x.model /\ y.inflight = n
         /\ y.removed = x.removed /\ y.managed = x.managed /\ y.healthy = x.healthy
  BY DEF Server

(* _remove_expired() keeps every record but those without a call.          *)
LEMMA SweepIs ==
  ASSUME NEW sv
  PROVE  /\ DOMAIN Sweep(sv) \subseteq DOMAIN sv
         /\ \A s \in DOMAIN Sweep(sv) : Sweep(sv)[s] = sv[s] /\ (sv[s].removed => sv[s].inflight # 0)
         /\ \A s \in DOMAIN sv : sv[s].inflight # 0 => s \in DOMAIN Sweep(sv)
  BY DEF Sweep, Droppable

(* A record has a call exactly when its count is not zero.                 *)
LEMMA CountsAre ==
  ASSUME GatewayInv, NEW s \in DOMAIN servers
  PROVE  /\ servers[s] \in Server /\ s \in 1..made /\ IsFiniteSet(Holders(s))
         /\ servers[s].inflight = Cardinality(Holders(s))
         /\ servers[s].inflight = 0 <=> Holders(s) = {}
<1>1. servers[s] \in Server /\ s \in 1..made /\ servers[s].inflight = Cardinality(Holders(s))
  BY DEF GatewayInv, TypeOK, LeasesCounted
<1>2. Holders(s) \subseteq Busy /\ IsFiniteSet(Busy)
  BY DEF Holders, Busy, GatewayInv
<1>3. IsFiniteSet(Holders(s))
  BY <1>2, FS_Subset
<1> QED
  BY <1>1, <1>3, FS_EmptySet

(* A step that keeps the leases, on the side of the registry and on that   *)
(* of the calls, keeps what is said of records.                            *)
LEMMA LeasesKept ==
  ASSUME GatewayInv, KeepsLeases, made' = made,
         \A c \in Client : /\ req'[c].phase = "idle" <=> req[c].phase = "idle"
                           /\ req'[c].server = req[c].server
  PROVE  /\ DOMAIN servers' \subseteq 1..made' /\ \A s \in DOMAIN servers' : servers'[s] \in Server
         /\ IsFiniteSet(Busy') /\ LeasesCounted' /\ RemovedOnlyWhileLeased' /\ BackendsUnique'
<1>1. Busy' = Busy /\ \A s : Holders(s)' = Holders(s)
  BY DEF Busy, Holders
<1>2. \A s \in DOMAIN servers' : /\ s \in DOMAIN servers /\ SameLease(servers[s], servers'[s])
                                 /\ servers[s].inflight = Cardinality(Holders(s))
                                 /\ servers[s].inflight = 0 <=> Holders(s) = {}
  BY CountsAre DEF KeepsLeases
<1>3. DOMAIN servers' \subseteq 1..made' /\ \A s \in DOMAIN servers' : servers'[s] \in Server
  BY <1>2 DEF SameLease, GatewayInv, TypeOK
<1>4. LeasesCounted'
  <2>1. ASSUME NEW c \in Client, req'[c].phase # "idle" PROVE req'[c].server \in DOMAIN servers'
    <3>1. req[c].phase # "idle" /\ req'[c].server = req[c].server /\ req[c].server \in DOMAIN servers
      BY <2>1 DEF GatewayInv, LeasesCounted
    <3>2. c \in Holders(req[c].server)
      BY <3>1 DEF Holders
    <3>3. servers[req[c].server].inflight # 0
      BY <3>1, <3>2, CountsAre
    <3> QED
      BY <3>1, <3>3 DEF KeepsLeases
  <2>2. ASSUME NEW s \in DOMAIN servers' PROVE servers'[s].inflight = Cardinality(Holders(s)')
    BY <1>1, <1>2, <2>2 DEF SameLease
  <2> QED
    BY <2>1, <2>2 DEF LeasesCounted
<1>5. RemovedOnlyWhileLeased'
  BY <1>1, <1>2 DEF RemovedOnlyWhileLeased, SameLease
<1>6. BackendsUnique'
  <2> SUFFICES ASSUME NEW s \in DOMAIN servers', NEW i \in DOMAIN servers',
                      ~servers'[s].removed, ~servers'[i].removed,
                      servers'[s].endpoint = servers'[i].endpoint,
                      servers'[s].model = servers'[i].model
               PROVE  s = i
    BY DEF BackendsUnique
  <2>1. ~servers[s].removed /\ ~servers[i].removed
    BY <1>2 DEF SameLease
  <2>2. servers[s].endpoint = servers[i].endpoint /\ servers[s].model = servers[i].model
    BY <1>2 DEF SameLease
  <2> QED
    BY <1>2, <2>1, <2>2 DEF GatewayInv, BackendsUnique
<1> QED
  BY <1>1, <1>3, <1>4, <1>5, <1>6 DEF GatewayInv

(* The steps of the registry alone, and those that only sweep it.          *)
LEMMA SweepKeeps ==
  ASSUME GatewayInv, servers' = Sweep(servers)
  PROVE  KeepsLeases
<1>1. ASSUME NEW s \in DOMAIN servers' PROVE SameLease(servers[s], servers'[s])
  BY <1>1, SweepIs, CountsAre DEF SameLease
<1> QED
  BY <1>1, SweepIs DEF KeepsLeases

(* So does a sweep after which one record is changed but for its backend,  *)
(* its calls and its removal.                                              *)
LEMMA ChangeKeeps ==
  ASSUME GatewayInv, NEW s \in DOMAIN Sweep(servers), NEW y \in Server,
         servers' = [Sweep(servers) EXCEPT ![s] = y],
         y.endpoint = servers[s].endpoint, y.model = servers[s].model,
         y.inflight = servers[s].inflight, y.removed = servers[s].removed
  PROVE  KeepsLeases
<1>0. DOMAIN servers' = DOMAIN Sweep(servers) /\ s \in DOMAIN servers
  BY SweepIs
<1>1. ASSUME NEW i \in DOMAIN servers' PROVE SameLease(servers[i], servers'[i])
  <2>1. i \in DOMAIN servers /\ (servers[i].removed => servers[i].inflight # 0)
    BY <1>0, <1>1, SweepIs
  <2>2. servers'[i] = IF i = s THEN y ELSE servers[i]
    BY <1>0, <1>1, SweepIs
  <2>3. servers[i] \in Server
    BY <2>1, CountsAre
  <2> QED
    BY <2>1, <2>2, <2>3 DEF SameLease
<1> QED
  BY <1>0, <1>1, SweepIs DEF KeepsLeases

(* What remains of the invariant when neither the calls nor the channels   *)
(* change.                                                                 *)
LEMMA InvByRegistry ==
  ASSUME GatewayInv, KeepsLeases, UNCHANGED <<made, req, channels, closed>>,
         pending' \in Seq([server : Id, endpoint : Endpoint, up : BOOLEAN]),
         stop' \in BOOLEAN, up' \in [Endpoint -> BOOLEAN], flips' \in 0..MaxFlips
  PROVE  GatewayInv'
<1>1. /\ DOMAIN servers' \subseteq 1..made' /\ \A s \in DOMAIN servers' : servers'[s] \in Server
      /\ IsFiniteSet(Busy') /\ LeasesCounted' /\ RemovedOnlyWhileLeased' /\ BackendsUnique'
  BY LeasesKept
<1>2. TypeOK'
  BY <1>1 DEF GatewayInv, TypeOK
<1> QED
  BY <1>1, <1>2 DEF GatewayInv, NeverCut

-----------------------------------------------------------------------------
(* A new record has no call and is not removed, and if it is managed it is *)
(* not trusted yet.                                                        *)
LEMMA AddedIs ==
  ASSUME NEW e \in Endpoint, NEW m \in Model, NEW managed \in BOOLEAN
  PROVE  LET x == Added(e, m, managed) IN
         /\ x \in Server /\ x.endpoint = e /\ x.model = m /\ x.inflight = 0 /\ ~x.removed
         /\ ~(x.managed /\ x.healthy)
<1>1. PICK he \in BOOLEAN : he = ~managed
  OBVIOUS
<1>2. 0 \in 0..(HeartbeatTimeout + 1) /\ 0 \in 0..FailureThreshold /\ 0 \in Nat
  BY GatewayAssumption
<1> DEFINE x == [endpoint |-> e, model |-> m, age |-> 0, inflight |-> 0, managed |-> managed,
                 healthy |-> he, failures |-> 0, removed |-> FALSE]
<1>3. /\ x \in Server /\ x.endpoint = e /\ x.model = m /\ x.inflight = 0 /\ ~x.removed
      /\ ~(x.managed /\ x.healthy)
  BY <1>1, <1>2 DEF Server
<1>4. Added(e, m, managed) = x
  BY <1>1 DEF Added
<1> QED
  BY <1>3, <1>4

(* _register(): a backend without a record gets a new one, and one with a  *)
(* record keeps it.                                                        *)
LEMMA InvByRegister ==
  ASSUME GatewayInv, NEW e \in Endpoint, NEW m \in Model, NEW managed \in BOOLEAN,
         Register(e, m, managed)
  PROVE  GatewayInv'
<1> DEFINE sv == Sweep(servers)
           same == Same(sv, e, m)
<1>1. UNCHANGED <<req, channels, closed, pending, stop, up, flips>>
  BY DEF Register
<1>2. ASSUME NEW s \in same, servers' = [sv EXCEPT ![s] = Adopted(@, managed)], made' = made
      PROVE  GatewayInv'
  <2>1. s \in DOMAIN sv
    BY <1>2 DEF Same
  <2>2. s \in DOMAIN servers /\ sv[s] = servers[s] /\ servers[s] \in Server
    BY <2>1, SweepIs, CountsAre
  <2> DEFINE y == Adopted(servers[s], managed)
  <2>3. servers' = [Sweep(servers) EXCEPT ![s] = y]
    BY <1>2, <2>1, <2>2
  <2>4. /\ y \in Server
        /\ y.endpoint = servers[s].endpoint /\ y.model = servers[s].model
        /\ y.inflight = servers[s].inflight /\ y.removed = servers[s].removed
    BY <2>2, AdoptedIs
  <2> HIDE DEF y
  <2>5. KeepsLeases
    BY <2>1, <2>3, <2>4, ChangeKeeps
  <2> QED
    BY <1>1, <1>2, <2>5, InvByRegistry DEF GatewayInv, TypeOK
<1>3. ASSUME same = {}, made < MaxServers, made' = made + 1,
             servers' = [s \in DOMAIN sv \cup {made + 1} |->
               IF s = made + 1 THEN Added(e, m, managed) ELSE sv[s]]
      PROVE  GatewayInv'
  <2> DEFINE x == Added(e, m, managed)
  <2>1. x \in Server /\ x.endpoint = e /\ x.model = m /\ x.inflight = 0 /\ ~x.removed
    BY AddedIs
  <2>2. PICK n : n = made + 1
    OBVIOUS
  <2>3. /\ made \in Nat /\ n \in 1..MaxServers /\ made' = n
        /\ DOMAIN servers \subseteq 1..made /\ n \notin 1..made
    BY <1>3, <2>2, GatewayAssumption DEF GatewayInv, TypeOK
  <2>4. n \notin DOMAIN sv
    BY <2>3, SweepIs
  <2> HIDE DEF x
  <2>5. /\ DOMAIN servers' = DOMAIN sv \cup {n} /\ servers'[n] = x
        /\ \A s \in DOMAIN sv : servers'[s] = sv[s]
    BY <1>3, <2>2, <2>4 DEF x
  <2>6. \A s \in DOMAIN sv : /\ s \in DOMAIN servers /\ servers'[s] = servers[s] /\ servers[s] \in Server
                             /\ sv[s] = servers[s]
    BY <2>5, SweepIs, CountsAre
  <2>7. Busy' = Busy /\ \A s : Holders(s)' = Holders(s)
    BY <1>1 DEF Busy, Holders
  <2>8. Holders(n) = {}
    BY <2>3 DEF Holders, GatewayInv, LeasesCounted
  <2>9. DOMAIN servers' \subseteq 1..made'
    BY <2>3, <2>5, <2>6
  <2>10. TypeOK'
    <3>1. \A s \in DOMAIN servers' : servers'[s] \in Server
      BY <2>1, <2>5, <2>6
    <3>2. made' \in 0..MaxServers
      BY <2>3
    <3> QED
      BY <1>1, <2>9, <3>1, <3>2 DEF GatewayInv, TypeOK
  <2>11. LeasesCounted'
    <3>1. ASSUME NEW c \in Client, req'[c].phase # "idle" PROVE req'[c].server \in DOMAIN servers'
      <4>1. req[c].server \in DOMAIN servers /\ c \in Holders(req[c].server)
        BY <1>1, <3>1 DEF GatewayInv, LeasesCounted, Holders
      <4>2. servers[req[c].server].inflight # 0
        BY <4>1, CountsAre
      <4> QED
        BY <1>1, <2>5, <4>1, <4>2, SweepIs
    <3>2. ASSUME NEW s \in DOMAIN servers' PROVE servers'[s].inflight = Cardinality(Holders(s)')
      <4>1. CASE s = n
        BY <2>1, <2>5, <2>7, <2>8, <4>1, FS_EmptySet
      <4>2. CASE s # n
        BY <2>5, <2>6, <2>7, <3>2, <4>2, CountsAre
      <4> QED
        BY <4>1, <4>2
    <3> QED
      BY <3>1, <3>2 DEF LeasesCounted
  <2>12. RemovedOnlyWhileLeased'
    <3>1. \A s \in DOMAIN servers' : servers'[s].removed =>
            s \in DOMAIN servers /\ servers'[s] = servers[s]
      BY <2>1, <2>5, <2>6
    <3> QED
      BY <2>7, <3>1 DEF GatewayInv, RemovedOnlyWhileLeased
  <2>13. BackendsUnique'
    <3> SUFFICES ASSUME NEW s \in DOMAIN servers', NEW i \in DOMAIN servers',
                        ~servers'[s].removed, ~servers'[i].removed,
                        servers'[s].endpoint = servers'[i].endpoint,
                        servers'[s].model = servers'[i].model
                 PROVE  s = i
      BY DEF BackendsUnique
    <3>1. \A j \in DOMAIN sv : servers[j].endpoint = e /\ servers[j].model = m => servers[j].removed
      BY <1>3, <2>6 DEF Same
    <3>2. CASE s \in DOMAIN sv /\ i \in DOMAIN sv
      BY <2>6, <3>2 DEF GatewayInv, BackendsUnique
    <3>3. CASE s = n /\ i \in DOMAIN sv
      BY <2>1, <2>5, <2>6, <3>1, <3>3
    <3>4. CASE s \in DOMAIN sv /\ i = n
      BY <2>1, <2>5, <2>6, <3>1, <3>4
    <3> QED
      BY <2>5, <3>2, <3>3, <3>4
  <2> QED
    BY <1>1, <2>7, <2>10, <2>11, <2>12, <2>13 DEF GatewayInv, NeverCut
<1> QED
  BY <1>2, <1>3 DEF Register

(* Heartbeats, removals, queries and the clock.                            *)
LEMMA InvByRecords ==
  ASSUME GatewayInv, (\E s \in Id : Heartbeat(s) \/ RemoveBackend(s)) \/ Query \/ Tick
  PROVE  GatewayInv'
<1>1. UNCHANGED <<made, req, channels, closed, pending, stop, up, flips>>
  BY DEF Heartbeat, RemoveBackend, Query, Tick
<1> SUFFICES KeepsLeases
  BY <1>1, InvByRegistry DEF GatewayInv, TypeOK
<1>2. ASSUME NEW s \in Id, Heartbeat(s) PROVE KeepsLeases
  <2>1. CASE servers' = Sweep(servers)
    BY <2>1, SweepKeeps
  <2>2. CASE s \in DOMAIN Sweep(servers) /\ servers' = [Sweep(servers) EXCEPT ![s].age = 0]
    <3>1. Sweep(servers)[s] = servers[s] /\ servers[s] \in Server /\ 0 \in 0..(HeartbeatTimeout + 1)
      BY <2>2, SweepIs, CountsAre, GatewayAssumption
    <3> DEFINE y == [servers[s] EXCEPT !.age = 0]
    <3>2. servers' = [Sweep(servers) EXCEPT ![s] = y]
      BY <2>2, <3>1
    <3>3. /\ y \in Server
          /\ y.endpoint = servers[s].endpoint /\ y.model = servers[s].model
          /\ y.inflight = servers[s].inflight /\ y.removed = servers[s].removed
      BY <3>1, AgedIs
    <3> HIDE DEF y
    <3> QED
      BY <2>2, <3>2, <3>3, ChangeKeeps
  <2> QED
    BY <1>2, <2>1, <2>2 DEF Heartbeat
<1>3. ASSUME NEW s \in Id, RemoveBackend(s) PROVE KeepsLeases
  <2> DEFINE sv == [servers EXCEPT ![s].removed = TRUE]
  <2>1. s \in DOMAIN servers /\ servers' = Sweep(sv)
    BY <1>3 DEF RemoveBackend
  <2>2. DOMAIN sv = DOMAIN servers
    OBVIOUS
  <2>3. ASSUME NEW i \in DOMAIN servers
        PROVE  /\ sv[i] \in Server
               /\ sv[i].endpoint = servers[i].endpoint /\ sv[i].model = servers[i].model
               /\ sv[i].inflight = servers[i].inflight /\ (servers[i].removed => sv[i].removed)
    <3>1. servers[i] \in Server
      BY <2>3, CountsAre
    <3>2. sv[i] = IF i = s THEN [servers[i] EXCEPT !.removed = TRUE] ELSE servers[i]
      BY <2>1, <2>3
    <3> QED
      BY <3>1, <3>2, MarkedIs
  <2> HIDE DEF sv
  <2>4. /\ DOMAIN servers' \subseteq DOMAIN sv
        /\ \A i \in DOMAIN servers' : servers'[i] = sv[i] /\ (sv[i].removed => sv[i].inflight # 0)
        /\ \A i \in DOMAIN sv : sv[i].inflight # 0 => i \in DOMAIN servers'
    BY <2>1, SweepIs
  <2> QED
    BY <2>2, <2>3, <2>4 DEF KeepsLeases, SameLease
<1>4. CASE Query
  BY <1>4, SweepKeeps DEF Query
<1>5. CASE Tick
  <2>1. DOMAIN servers' = DOMAIN servers
    BY <1>5 DEF Tick
  <2>2. ASSUME NEW s \in DOMAIN servers PROVE SameLease(servers[s], servers'[s])
    <3>1. servers[s] \in Server /\ (servers[s].removed => servers[s].inflight # 0)
      BY <2>2, CountsAre DEF GatewayInv, RemovedOnlyWhileLeased
    <3>2. PICK a \in 0..(HeartbeatTimeout + 1) :
            a = IF servers[s].managed \/ servers[s].age > HeartbeatTimeout
                THEN servers[s].age ELSE servers[s].age + 1
      BY <3>1, ServerFields, GatewayAssumption
    <3>3. servers'[s] = [servers[s] EXCEPT !.age = a]
      BY <1>5, <2>2, <3>2 DEF Tick
    <3> QED
      BY <3>1, <3>3, AgedIs DEF SameLease
  <2> QED
    BY <2>1, <2>2 DEF KeepsLeases
<1> QED
  BY <1>2, <1>3, <1>4, <1>5

(* Nothing changes in the registry.                                        *)
LEMMA SameKeeps ==
  ASSUME GatewayInv, servers' = servers
  PROVE  KeepsLeases
  BY CountsAre DEF GatewayInv, RemovedOnlyWhileLeased, KeepsLeases, SameLease

(* A list with an element for each number up to n is a sequence.           *)
LEMMA ListIsSeq ==
  ASSUME NEW S, NEW n \in Nat, NEW f \in [1..n -> S]
  PROVE  f \in Seq(S)
  OBVIOUS

(* The health monitor, and the backends it probes.                         *)
LEMMA InvByMonitor ==
  ASSUME GatewayInv, Check \/ StopMonitor \/ (\E e \in Endpoint : Flip(e)) \/ UNCHANGED vars
  PROVE  GatewayInv'
<1> DEFINE Probe == [server : Id, endpoint : Endpoint, up : BOOLEAN]
<1>0. /\ pending \in Seq(Probe) /\ stop \in BOOLEAN /\ up \in [Endpoint -> BOOLEAN]
      /\ flips \in 0..MaxFlips
  BY DEF GatewayInv, TypeOK
<1>1. CASE StartCheck
  <2>1. servers' = servers /\ UNCHANGED <<made, req, channels, closed, stop, up, flips>>
    BY <1>1 DEF StartCheck
  <2>2. PICK order \in [1..Cardinality(Targets) -> Targets] :
          pending' = [i \in DOMAIN order |->
            [server |-> order[i], endpoint |-> servers[order[i]].endpoint,
             up |-> up[servers[order[i]].endpoint]]]
    BY <1>1 DEF StartCheck
  <2>3. PICK n \in Nat : n = Cardinality(Targets)
    <3>1. made \in Nat /\ Targets \subseteq 1..made
      BY GatewayAssumption DEF Targets, GatewayInv, TypeOK
    <3>2. IsFiniteSet(1..made)
      BY <3>1, FS_Interval
    <3> QED
      BY <3>1, <3>2, FS_Subset, FS_CardinalityType
  <2>4. ASSUME NEW i \in 1..n
        PROVE  [server |-> order[i], endpoint |-> servers[order[i]].endpoint,
                up |-> up[servers[order[i]].endpoint]] \in Probe
    <3>1. order[i] \in Targets
      BY <2>2, <2>3, <2>4
    <3>2. order[i] \in DOMAIN servers
      BY <3>1 DEF Targets
    <3>3. order[i] \in Id /\ servers[order[i]].endpoint \in Endpoint
      BY <3>2, CountsAre, ServerFields, GatewayAssumption DEF Id, GatewayInv, TypeOK
    <3> QED
      BY <1>0, <3>3
  <2>5. pending' \in [1..n -> Probe]
    BY <2>2, <2>3, <2>4
  <2>6. pending' \in Seq(Probe)
    BY <2>3, <2>5, ListIsSeq
  <2> QED
    BY <1>0, <2>1, <2>6, SameKeeps, InvByRegistry
<1>2. ASSUME NEW ok \in BOOLEAN, RecordHealth(ok) PROVE GatewayInv'
  <2>1. /\ pending # <<>> /\ pending' = Tail(pending)
        /\ UNCHANGED <<made, req, channels, closed, stop, up, flips>>
    BY <1>2 DEF RecordHealth
  <2>2. pending' \in Seq(Probe)
    BY <1>0, <2>1
  <2>3. KeepsLeases
    <3>1. CASE servers' = servers
      BY <3>1, SameKeeps
    <3>2. ASSUME NEW s \in Targets, servers' = [servers EXCEPT ![s] = Probed(@, ok)]
          PROVE  KeepsLeases
      <4>1. s \in DOMAIN servers /\ DOMAIN servers' = DOMAIN servers
        BY <3>2 DEF Targets
      <4>2. ASSUME NEW i \in DOMAIN servers PROVE SameLease(servers[i], servers'[i])
        <5>1. servers[i] \in Server /\ (servers[i].removed => servers[i].inflight # 0)
          BY <4>2, CountsAre DEF GatewayInv, RemovedOnlyWhileLeased
        <5>2. servers'[i] = IF i = s THEN Probed(servers[i], ok) ELSE servers[i]
          BY <3>2, <4>1, <4>2
        <5> QED
          BY <5>1, <5>2, ProbedIs DEF SameLease
      <4> QED
        BY <4>1, <4>2 DEF KeepsLeases
    <3> QED
      BY <1>2, <3>1, <3>2 DEF RecordHealth
  <2> QED
    BY <1>0, <2>1, <2>2, <2>3, InvByRegistry
<1>3. CASE StopMonitor
  <2>1. pending' \in Seq(Probe)
    <3>1. CASE pending' = <<>>
      BY <3>1
    <3>2. CASE pending # <<>> /\ pending' = <<Head(pending)>>
      <4> HIDE DEF Probe
      <4>1. Head(pending) \in Probe
        BY <1>0, <3>2
      <4> QED
        BY <3>2, <4>1
    <3> QED
      BY <1>3, <3>1, <3>2 DEF StopMonitor
  <2> QED
    BY <1>0, <1>3, <2>1, SameKeeps, InvByRegistry DEF StopMonitor
<1>4. ASSUME NEW e \in Endpoint, Flip(e) PROVE GatewayInv'
  <2>1. up' \in [Endpoint -> BOOLEAN] /\ flips' \in 0..MaxFlips
    BY <1>0, <1>4, GatewayAssumption DEF Flip
  <2> QED
    BY <1>0, <1>4, <2>1, SameKeeps, InvByRegistry DEF Flip
<1>5. CASE UNCHANGED vars
  BY <1>0, <1>5, SameKeeps, InvByRegistry DEF vars
<1> QED
  BY <1>1, <1>2, <1>3, <1>4, <1>5 DEF Check

-----------------------------------------------------------------------------
(* What a call is to the rest of the gateway.                              *)
Request == [phase : {"idle", "leased", "calling"}, server : 0..MaxServers, cut : BOOLEAN]

(* acquire_server(): one record counts the new call, and is not removed.   *)
LEMMA InvByAcquire ==
  ASSUME GatewayInv, NEW c \in Client, NEW m \in Model, Acquire(c, m)
  PROVE  GatewayInv'
<1> DEFINE sv == Sweep(servers)
<1>0. /\ UNCHANGED <<made, channels, closed, pending, stop, up, flips>>
      /\ req[c].phase = "idle" /\ req \in [Client -> Request]
  BY DEF Acquire, GatewayInv, TypeOK, Request
<1>1. CASE servers' = sv /\ req' = req
  BY <1>0, <1>1, SweepKeeps, InvByRegistry DEF GatewayInv, TypeOK
<1>2. ASSUME NEW s \in Eligible(sv, m), servers' = [sv EXCEPT ![s].inflight = @ + 1],
             req' = [req EXCEPT ![c] = [phase |-> "leased", server |-> s, cut |-> FALSE]]
      PROVE  GatewayInv'
  <2>1. s \in DOMAIN sv /\ ~sv[s].removed
    BY <1>2 DEF Eligible
  <2>2. \A i \in DOMAIN sv : /\ i \in DOMAIN servers /\ sv[i] = servers[i] /\ servers[i] \in Server
                             /\ servers[i].inflight = Cardinality(Holders(i))
                             /\ IsFiniteSet(Holders(i)) /\ i \in 1..made
                             /\ (servers[i].removed => servers[i].inflight # 0)
    BY SweepIs, CountsAre
  <2>3. PICK n \in Nat : n = servers[s].inflight
    BY <2>1, <2>2, ServerFields
  <2> DEFINE y == [servers[s] EXCEPT !.inflight = n + 1]
  <2>4. /\ y \in Server /\ y.endpoint = servers[s].endpoint /\ y.model = servers[s].model
        /\ y.inflight = n + 1 /\ y.removed = servers[s].removed
    BY <2>1, <2>2, <2>3, CountedIs
  <2>5. /\ DOMAIN servers' = DOMAIN sv
        /\ \A i \in DOMAIN sv : servers'[i] = IF i = s THEN y ELSE servers[i]
    BY <1>2, <2>1, <2>2, <2>3
  <2> HIDE DEF y
  <2> DEFINE r == [phase |-> "leased", server |-> s, cut |-> FALSE]
  <2>6. r \in Request /\ r.phase = "leased" /\ r.server = s /\ r.cut = FALSE
    BY <2>1, <2>2, GatewayAssumption DEF Request, GatewayInv, TypeOK
  <2>7. req' \in [Client -> Request] /\ \A k \in Client : req'[k] = IF k = c THEN r ELSE req[k]
    BY <1>0, <1>2, <2>6
  <2> HIDE DEF r
  <2>8. TypeOK'
    <3>1. DOMAIN servers' \subseteq 1..made' /\ \A i \in DOMAIN servers' : servers'[i] \in Server
      BY <1>0, <2>2, <2>4, <2>5
    <3> QED
      BY <1>0, <2>7, <3>1 DEF GatewayInv, TypeOK, Request
  <2>9. Busy' = Busy \cup {c} /\ IsFiniteSet(Busy')
    <3>1. Busy' = Busy \cup {c}
      BY <2>6, <2>7 DEF Busy
    <3> QED
      BY <3>1, FS_AddElement DEF GatewayInv
  <2>10. /\ Holders(s)' = Holders(s) \cup {c} /\ c \notin Holders(s)
         /\ \A i : i # s => Holders(i)' = Holders(i)
    BY <1>0, <2>6, <2>7 DEF Holders
  <2>11. Cardinality(Holders(s)') = n + 1
    <3>1. IsFiniteSet(Holders(s)) /\ Cardinality(Holders(s)) = n
      BY <2>1, <2>2, <2>3
    <3>2. Cardinality(Holders(s) \cup {c}) = Cardinality(Holders(s)) + 1
      BY <2>10, <3>1, FS_AddElement
    <3> QED
      BY <2>10, <3>1, <3>2
  <2>12. LeasesCounted'
    <3>1. ASSUME NEW k \in Client, req'[k].phase # "idle" PROVE req'[k].server \in DOMAIN servers'
      <4>1. CASE k = c
        BY <2>1, <2>5, <2>6, <2>7, <4>1
      <4>2. CASE k # c
        <5>1. req'[k] = req[k] /\ req[k].server \in DOMAIN servers /\ k \in Holders(req[k].server)
          BY <2>7, <3>1, <4>2 DEF GatewayInv, LeasesCounted, Holders
        <5>2. servers[req[k].server].inflight # 0
          BY <5>1, CountsAre
        <5> QED
          BY <2>5, <5>1, <5>2, SweepIs
      <4> QED
        BY <4>1, <4>2
    <3>2. ASSUME NEW i \in DOMAIN servers' PROVE servers'[i].inflight = Cardinality(Holders(i)')
      BY <2>2, <2>4, <2>5, <2>10, <2>11, <3>2
    <3> QED
      BY <3>1, <3>2 DEF LeasesCounted
  <2>13. RemovedOnlyWhileLeased'
    <3>1. ASSUME NEW i \in DOMAIN servers', servers'[i].removed PROVE Holders(i)' # {}
      <4>1. i \in DOMAIN servers /\ servers[i].removed
        BY <2>2, <2>4, <2>5, <3>1
      <4> QED
        BY <2>10, <4>1 DEF GatewayInv, RemovedOnlyWhileLeased
    <3> QED
      BY <3>1 DEF RemovedOnlyWhileLeased
  <2>14. BackendsUnique'
    <3> SUFFICES ASSUME NEW j \in DOMAIN servers', NEW i \in DOMAIN servers',
                        ~servers'[j].removed, ~servers'[i].removed,
                        servers'[j].endpoint = servers'[i].endpoint,
                        servers'[j].model = servers'[i].model
                 PROVE  j = i
      BY DEF BackendsUnique
    <3>1. \A k \in DOMAIN servers' : /\ k \in DOMAIN servers
                                     /\ servers'[k].removed = servers[k].removed
                                     /\ servers'[k].endpoint = servers[k].endpoint
                                     /\ servers'[k].model = servers[k].model
      BY <2>2, <2>4, <2>5
    <3> QED
      BY <3>1 DEF GatewayInv, BackendsUnique
  <2>15. NeverCut'
    BY <1>0, <2>6, <2>7 DEF GatewayInv, NeverCut
  <2> QED
    BY <2>8, <2>9, <2>12, <2>13, <2>14, <2>15 DEF GatewayInv
<1> QED
  BY <1>1, <1>2 DEF Acquire

(* release_server(): the record counts one call less, and is dropped with  *)
(* its last one if it was removed meanwhile.                               *)
LEMMA InvByFinish ==
  ASSUME GatewayInv, NEW c \in Client, Finish(c)
  PROVE  GatewayInv'
<1>0. /\ UNCHANGED <<made, channels, closed, pending, stop, up, flips>>
      /\ req[c].phase # "idle" /\ req \in [Client -> Request]
      /\ req' = [req EXCEPT ![c] = Idle] /\ servers' = Released(req[c].server)
  BY DEF Finish, GatewayInv, TypeOK, Request
<1>1. PICK s \in DOMAIN servers : s = req[c].server
  BY <1>0 DEF GatewayInv, LeasesCounted
<1>2. \A i \in DOMAIN servers : /\ servers[i] \in Server /\ servers[i].inflight = Cardinality(Holders(i))
                                /\ IsFiniteSet(Holders(i)) /\ i \in 1..made
                                /\ (servers[i].inflight = 0 <=> Holders(i) = {})
  BY CountsAre
<1>3. c \in Holders(s)
  BY <1>0, <1>1 DEF Holders
<1>4. PICK n \in Nat : n + 1 = servers[s].inflight
  <2>1. servers[s].inflight \in Nat /\ servers[s].inflight # 0
    BY <1>2, <1>3, ServerFields
  <2>2. servers[s].inflight - 1 \in Nat /\ (servers[s].inflight - 1) + 1 = servers[s].inflight
    BY <2>1
  <2> QED
    BY <2>2
<1> DEFINE y == [servers[s] EXCEPT !.inflight = n]
           sv == [servers EXCEPT ![s] = y]
<1>5. /\ y \in Server /\ y.endpoint = servers[s].endpoint /\ y.model = servers[s].model
      /\ y.inflight = n /\ y.removed = servers[s].removed
  BY <1>2, <1>4, CountedIs
<1>6. servers' = Sweep(sv)
  <2>1. servers[s].inflight > 0 /\ servers[s].inflight - 1 = n
    BY <1>4
  <2>2. Returned(servers, s) = [servers EXCEPT ![s].inflight = @ - 1]
    BY <1>1, <2>1 DEF Returned
  <2>3. Returned(servers, s) = sv
    BY <2>1, <2>2
  <2> QED
    BY <1>0, <1>1, <2>3 DEF Released
<1>7. DOMAIN sv = DOMAIN servers /\ \A i \in DOMAIN servers : sv[i] = IF i = s THEN y ELSE servers[i]
  OBVIOUS
<1> HIDE DEF y, sv
<1>8. \A i \in DOMAIN servers' : /\ i \in DOMAIN servers
                                 /\ servers'[i] = IF i = s THEN y ELSE servers[i]
                                 /\ servers'[i].removed => servers'[i].inflight # 0
  BY <1>6, <1>7, SweepIs
<1>9. \A i \in DOMAIN servers : i # s /\ servers[i].inflight # 0 => i \in DOMAIN servers'
  BY <1>6, <1>7, SweepIs
<1>10. Idle \in Request /\ Idle.phase = "idle" /\ Idle.cut = FALSE
  BY GatewayAssumption DEF Idle, Request
<1>11. req' \in [Client -> Request] /\ \A k \in Client : req'[k] = IF k = c THEN Idle ELSE req[k]
  BY <1>0, <1>10
<1>12. TypeOK'
  <2>1. DOMAIN servers' \subseteq 1..made' /\ \A i \in DOMAIN servers' : servers'[i] \in Server
    BY <1>0, <1>2, <1>5, <1>8
  <2> QED
    BY <1>0, <1>11, <2>1 DEF GatewayInv, TypeOK, Request
<1>13. IsFiniteSet(Busy')
  <2>1. Busy' \subseteq Busy
    BY <1>10, <1>11 DEF Busy
  <2> QED
    BY <2>1, FS_Subset DEF GatewayInv
<1>14. Holders(s)' = Holders(s) \ {c} /\ \A i : i # s => Holders(i)' = Holders(i)
  BY <1>1, <1>10, <1>11 DEF Holders
<1>15. Cardinality(Holders(s)') = n /\ IsFiniteSet(Holders(s)')
  <2>1. Cardinality(Holders(s)) = n + 1 /\ IsFiniteSet(Holders(s))
    BY <1>2, <1>4
  <2>2. Cardinality(Holders(s) \ {c}) = Cardinality(Holders(s)) - 1 /\ IsFiniteSet(Holders(s) \ {c})
    BY <1>3, <2>1, FS_RemoveElement
  <2> QED
    BY <1>14, <2>1, <2>2
<1>16. LeasesCounted'
  <2>1. ASSUME NEW k \in Client, req'[k].phase # "idle" PROVE req'[k].server \in DOMAIN servers'
    <3>1. k # c /\ req'[k] = req[k] /\ req[k].server \in DOMAIN servers /\ k \in Holders(req[k].server)
      BY <1>10, <1>11, <2>1 DEF GatewayInv, LeasesCounted, Holders
    <3>2. CASE req[k].server = s
      <4>1. k \in Holders(s)'
        BY <1>14, <3>1, <3>2
      <4>2. n # 0
        BY <1>15, <4>1, FS_EmptySet
      <4> QED
        BY <1>5, <1>6, <1>7, <3>1, <3>2, <4>2, SweepIs
    <3>3. CASE req[k].server # s
      BY <1>2, <1>9, <3>1, <3>3
    <3> QED
      BY <3>2, <3>3
  <2>2. ASSUME NEW i \in DOMAIN servers' PROVE servers'[i].inflight = Cardinality(Holders(i)')
    BY <1>2, <1>5, <1>8, <1>14, <1>15, <2>2
  <2> QED
    BY <2>1, <2>2 DEF LeasesCounted
<1>17. RemovedOnlyWhileLeased'
  <2>1. ASSUME NEW i \in DOMAIN servers', servers'[i].removed PROVE Holders(i)' # {}
    <3>1. servers'[i].inflight # 0 /\ servers'[i].inflight = Cardinality(Holders(i)')
      BY <1>8, <1>16, <2>1 DEF LeasesCounted
    <3> QED
      BY <3>1, FS_EmptySet
  <2> QED
    BY <2>1 DEF RemovedOnlyWhileLeased
<1>18. BackendsUnique'
  <2> SUFFICES ASSUME NEW j \in DOMAIN servers', NEW i \in DOMAIN servers',
                      ~servers'[j].removed, ~servers'[i].removed,
                      servers'[j].endpoint = servers'[i].endpoint,
                      servers'[j].model = servers'[i].model
               PROVE  j = i
    BY DEF BackendsUnique
  <2>1. \A k \in DOMAIN servers' : /\ k \in DOMAIN servers
                                   /\ servers'[k].removed = servers[k].removed
                                   /\ servers'[k].endpoint = servers[k].endpoint
                                   /\ servers'[k].model = servers[k].model
    BY <1>5, <1>8
  <2> QED
    BY <2>1 DEF GatewayInv, BackendsUnique
<1>19. NeverCut'
  BY <1>0, <1>10, <1>11 DEF GatewayInv, NeverCut
<1> QED
  BY <1>12, <1>13, <1>16, <1>17, <1>18, <1>19 DEF GatewayInv

(* Cutting off calls changes nothing else about them.                      *)
LEMMA CutIs ==
  ASSUME GatewayInv, NEW gone
  PROVE  /\ Cut(gone) \in [Client -> Request]
         /\ \A k \in Client :
              /\ Cut(gone)[k].phase = req[k].phase /\ Cut(gone)[k].server = req[k].server
              /\ Cut(gone)[k].cut =>
                   req[k].cut \/ (req[k].phase = "calling" /\ servers[req[k].server].endpoint \in gone)
<1>1. ASSUME NEW k \in Client
      PROVE  /\ Cut(gone)[k] \in Request
             /\ Cut(gone)[k].phase = req[k].phase /\ Cut(gone)[k].server = req[k].server
             /\ Cut(gone)[k].cut =>
                  req[k].cut \/ (req[k].phase = "calling" /\ servers[req[k].server].endpoint \in gone)
  <2>1. req[k] \in Request
    BY <1>1 DEF GatewayInv, TypeOK, Request
  <2>2. Cut(gone)[k] = IF req[k].phase = "calling" /\ servers[req[k].server].endpoint \in gone
                       THEN [req[k] EXCEPT !.cut = TRUE] ELSE req[k]
    BY <1>1 DEF Cut
  <2> QED
    BY <2>1, <2>2 DEF Request
<1> QED
  BY <1>1 DEF Cut

(* What is kept when only the phases of calls and the channels change.     *)
LEMMA InvByChannels ==
  ASSUME GatewayInv, KeepsLeases, UNCHANGED <<made, pending, stop, up, flips>>,
         req' \in [Client -> Request],
         \A k \in Client : /\ req'[k].phase = "idle" <=> req[k].phase = "idle"
                           /\ req'[k].server = req[k].server
                           /\ req'[k].cut => closed',
         channels' \subseteq Endpoint, closed' \in BOOLEAN, closed' => channels' = {}
  PROVE  GatewayInv'
<1>1. /\ DOMAIN servers' \subseteq 1..made' /\ \A s \in DOMAIN servers' : servers'[s] \in Server
      /\ IsFiniteSet(Busy') /\ LeasesCounted' /\ RemovedOnlyWhileLeased' /\ BackendsUnique'
  BY LeasesKept
<1>2. TypeOK'
  BY <1>1 DEF GatewayInv, TypeOK, Request
<1> QED
  BY <1>1, <1>2 DEF GatewayInv, NeverCut

(* A channel is closed only when no record has its endpoint, and a call    *)
(* holds a record: so no call is cut off.                                  *)
LEMMA InvByConnect ==
  ASSUME GatewayInv, NEW c \in Client, Connect(c)
  PROVE  GatewayInv'
<1> DEFINE gone == channels \ Endpoints(Sweep(servers))
<1>1. /\ servers' = Sweep(servers) /\ UNCHANGED <<made, closed, pending, stop, up, flips>>
      /\ channels' = (channels \ gone) \cup {servers[req[c].server].endpoint}
      /\ req' = [Cut(gone) EXCEPT ![c].phase = "calling"]
      /\ req[c].phase = "leased" /\ ~closed
  BY DEF Connect, MayConnect
<1>2. ASSUME NEW k \in Client, req[k].phase # "idle"
      PROVE  /\ req[k].server \in DOMAIN servers
             /\ servers[req[k].server].endpoint \in Endpoint
             /\ servers[req[k].server].endpoint \notin gone
  <2>1. req[k].server \in DOMAIN servers /\ k \in Holders(req[k].server)
    BY <1>2 DEF GatewayInv, LeasesCounted, Holders
  <2>2. servers[req[k].server].inflight # 0 /\ servers[req[k].server].endpoint \in Endpoint
    BY <2>1, CountsAre, ServerFields
  <2>3. /\ req[k].server \in DOMAIN Sweep(servers)
        /\ Sweep(servers)[req[k].server] = servers[req[k].server]
    BY <2>1, <2>2, SweepIs
  <2>4. servers[req[k].server].endpoint \in Endpoints(Sweep(servers))
    BY <2>3 DEF Endpoints
  <2> QED
    BY <2>1, <2>2, <2>4
<1> HIDE DEF gone
<1>3. ASSUME NEW k \in Client
      PROVE  /\ req'[k] \in Request
             /\ req'[k].phase = IF k = c THEN "calling" ELSE req[k].phase
             /\ req'[k].server = req[k].server
             /\ req'[k].cut => closed'
  <2>1. /\ Cut(gone) \in [Client -> Request] /\ Cut(gone)[k] \in Request
        /\ Cut(gone)[k].phase = req[k].phase /\ Cut(gone)[k].server = req[k].server
        /\ Cut(gone)[k].cut =>
             req[k].cut \/ (req[k].phase = "calling" /\ servers[req[k].server].endpoint \in gone)
    BY <1>3, CutIs
  <2>2. ~(req[k].phase = "calling" /\ servers[req[k].server].endpoint \in gone)
    BY <1>2, <1>3
  <2>3. req[k].cut => closed'
    BY <1>1, <1>3 DEF GatewayInv, NeverCut
  <2>4. req'[k] = IF k = c THEN [Cut(gone)[k] EXCEPT !.phase = "calling"] ELSE Cut(gone)[k]
    BY <1>1, <1>3, <2>1
  <2>5. /\ req'[k] \in Request /\ req'[k].phase = (IF k = c THEN "calling" ELSE Cut(gone)[k].phase)
        /\ req'[k].server = Cut(gone)[k].server /\ req'[k].cut = Cut(gone)[k].cut
    BY <2>1, <2>4 DEF Request
  <2> QED
    BY <2>1, <2>2, <2>3, <2>5
<1>4. req' \in [Client -> Request]
  <2>1. DOMAIN req' = Client /\ req' = [k \in Client |-> req'[k]]
    BY <1>1, CutIs
  <2> QED
    BY <1>3, <2>1
<1>5. channels' \subseteq Endpoint /\ closed' = FALSE
  BY <1>1, <1>2 DEF GatewayInv, TypeOK
<1>6. \A k \in Client : req'[k].phase = "idle" <=> req[k].phase = "idle"
  BY <1>1, <1>3
<1> QED
  BY <1>1, <1>3, <1>4, <1>5, <1>6, SweepKeeps, InvByChannels

(* close() of the client: the calls that are cut off are so because of it. *)
LEMMA InvByClose ==
  ASSUME GatewayInv, Close
  PROVE  GatewayInv'
<1>1. /\ closed' = TRUE /\ channels' = {} /\ req' = Cut(channels)
      /\ UNCHANGED <<servers, made, pending, stop, up, flips>>
  BY DEF Close
<1>2. req' \in [Client -> Request]
  BY <1>1, CutIs
<1>3. \A k \in Client : req'[k].phase = req[k].phase /\ req'[k].server = req[k].server
  BY <1>1, CutIs
<1> QED
  BY <1>1, <1>2, <1>3, SameKeeps, InvByChannels

-----------------------------------------------------------------------------
(* At the start there is no record and no call.                            *)
LEMMA GatewayInvInit == Init => GatewayInv
<1> SUFFICES ASSUME Init PROVE GatewayInv
  OBVIOUS
<1>1. DOMAIN servers = {}
  BY DEF Init
<1>2. Idle \in Request /\ Idle.phase = "idle" /\ Idle.cut = FALSE
  BY GatewayAssumption DEF Idle, Request
<1>3. req \in [Client -> Request] /\ \A c \in Client : req[c] = Idle
  BY <1>2 DEF Init
<1>4. Busy = {}
  BY <1>2, <1>3 DEF Busy
<1>5. TypeOK
  <2>1. made \in 0..MaxServers /\ flips \in 0..MaxFlips
    BY GatewayAssumption DEF Init
  <2>4. {closed, stop} \subseteq BOOLEAN
    BY DEF Init
  <2>2. pending \in Seq([server : Id, endpoint : Endpoint, up : BOOLEAN])
    BY DEF Init
  <2>3. up \in [Endpoint -> BOOLEAN] /\ channels \subseteq Endpoint /\ (closed => channels = {})
    BY DEF Init
  <2> QED
    BY <1>1, <1>3, <2>1, <2>2, <2>3, <2>4 DEF TypeOK, Request
<1>6. IsFiniteSet(Busy)
  BY <1>4, FS_EmptySet
<1> QED
  BY <1>1, <1>2, <1>3, <1>5, <1>6
  DEF GatewayInv, LeasesCounted, RemovedOnlyWhileLeased, BackendsUnique, NeverCut

(* The invariant holds throughout.                                         *)
LEMMA GatewayInvariant == Spec => []GatewayInv
<1>1. GatewayInv /\ [Next]_vars => GatewayInv'
  BY InvByRegister, InvByRecords, InvByMonitor, InvByAcquire, InvByConnect, InvByFinish, InvByClose
  DEF Next, Infer
<1> QED
  BY <1>1, GatewayInvInit, PTL DEF Spec

(* The registry has one record for a backend that is served, and one for   *)
(* as long as a call holds it; the count that balances the load is the     *)
(* number of calls, and a removed record goes with its last call.          *)
THEOREM RecordsAreCorrect == Spec => []RecordsCorrect
<1>1. GatewayInv => RecordsCorrect
  BY DEF GatewayInv, RecordsCorrect
<1> QED
  BY <1>1, GatewayInvariant, PTL

(* No request closes the channel another one is calling on, though every   *)
(* one closes the channels of endpoints that have left the registry.       *)
THEOREM CallsAreNeverCut == Spec => []NeverCut
<1>1. GatewayInv => NeverCut
  BY DEF GatewayInv
<1> QED
  BY <1>1, GatewayInvariant, PTL

-----------------------------------------------------------------------------
(* A step that keeps whether each record it keeps is managed and healthy   *)
(* makes no server trusted.                                                *)
LEMMA NoTrustWithout ==
  ASSUME \A s \in DOMAIN servers' : servers'[s].managed /\ servers'[s].healthy =>
           s \in DOMAIN servers /\ servers[s].managed /\ servers[s].healthy
  PROVE  \A s \in Id : Trusted(s)' => Trusted(s)
  BY DEF Trusted

(* A sweep after which one record is changed, in its turn without being    *)
(* trusted by that.                                                        *)
LEMMA NoTrustByChange ==
  ASSUME NEW s \in DOMAIN Sweep(servers), NEW y, servers' = [Sweep(servers) EXCEPT ![s] = y],
         y.managed /\ y.healthy => servers[s].managed /\ servers[s].healthy
  PROVE  \A i \in Id : Trusted(i)' => Trusted(i)
<1>1. DOMAIN servers' = DOMAIN Sweep(servers)
  OBVIOUS
<1>2. ASSUME NEW i \in DOMAIN servers', servers'[i].managed, servers'[i].healthy
      PROVE  i \in DOMAIN servers /\ servers[i].managed /\ servers[i].healthy
  <2>1. i \in DOMAIN servers /\ Sweep(servers)[i] = servers[i]
    BY <1>1, <1>2, SweepIs
  <2>2. servers'[i] = IF i = s THEN y ELSE servers[i]
    BY <1>1, <1>2, <2>1
  <2> QED
    BY <1>2, <2>1, <2>2
<1> QED
  BY <1>2, NoTrustWithout

(* No step but a result of a probe makes a server trusted.                 *)
LEMMA OnlyProbesTrust ==
  ASSUME GatewayInv, [Next]_vars, ~ \E ok \in BOOLEAN : RecordHealth(ok)
  PROVE  \A s \in Id : Trusted(s)' => Trusted(s)
<1>1. ASSUME NEW e \in Endpoint, NEW m \in Model, NEW managed \in BOOLEAN, Register(e, m, managed)
      PROVE  \A s \in Id : Trusted(s)' => Trusted(s)
  <2> DEFINE sv == Sweep(servers)
  <2>1. ASSUME NEW s \in Same(sv, e, m), servers' = [sv EXCEPT ![s] = Adopted(@, managed)]
        PROVE  \A i \in Id : Trusted(i)' => Trusted(i)
    <3>1. s \in DOMAIN sv
      BY <2>1 DEF Same
    <3>2. sv[s] = servers[s] /\ servers[s] \in Server
      BY <3>1, SweepIs, CountsAre
    <3> DEFINE y == Adopted(servers[s], managed)
    <3>3. y.managed /\ y.healthy => servers[s].managed /\ servers[s].healthy
      BY <3>2, AdoptedIs
    <3>4. servers' = [Sweep(servers) EXCEPT ![s] = y]
      BY <2>1, <3>1, <3>2
    <3> HIDE DEF y
    <3> QED
      BY <3>1, <3>3, <3>4, NoTrustByChange
  <2>2. ASSUME servers' = [s \in DOMAIN sv \cup {made + 1} |->
                             IF s = made + 1 THEN Added(e, m, managed) ELSE sv[s]]
        PROVE  \A i \in Id : Trusted(i)' => Trusted(i)
    <3>1. ASSUME NEW i \in DOMAIN servers', servers'[i].managed, servers'[i].healthy
          PROVE  i \in DOMAIN servers /\ servers[i].managed /\ servers[i].healthy
      <4>1. i # made + 1
        BY <2>2, <3>1, AddedIs
      <4>2. i \in DOMAIN sv /\ servers'[i] = sv[i]
        BY <2>2, <3>1, <4>1
      <4> QED
        BY <3>1, <4>2, SweepIs
    <3> QED
      BY <3>1, NoTrustWithout
  <2> QED
    BY <1>1, <2>1, <2>2 DEF Register
<1>2. ASSUME servers' = Sweep(servers) PROVE \A s \in Id : Trusted(s)' => Trusted(s)
  BY <1>2, SweepIs, NoTrustWithout
<1>3. ASSUME servers' = servers PROVE \A s \in Id : Trusted(s)' => Trusted(s)
  BY <1>3, NoTrustWithout
<1>4. ASSUME NEW s \in Id, Heartbeat(s) PROVE \A i \in Id : Trusted(i)' => Trusted(i)
  <2>1. CASE s \in DOMAIN Sweep(servers) /\ servers' = [Sweep(servers) EXCEPT ![s].age = 0]
    <3>1. Sweep(servers)[s] = servers[s] /\ servers[s] \in Server /\ 0 \in 0..(HeartbeatTimeout + 1)
      BY <2>1, SweepIs, CountsAre, GatewayAssumption
    <3> DEFINE y == [servers[s] EXCEPT !.age = 0]
    <3>2. servers' = [Sweep(servers) EXCEPT ![s] = y]
      BY <2>1, <3>1
    <3>3. y.managed = servers[s].managed /\ y.healthy = servers[s].healthy
      BY <3>1, AgedIs
    <3> HIDE DEF y
    <3> QED
      BY <2>1, <3>2, <3>3, NoTrustByChange
  <2> QED
    BY <1>2, <1>4, <2>1 DEF Heartbeat
<1>5. ASSUME NEW s \in Id, RemoveBackend(s) PROVE \A i \in Id : Trusted(i)' => Trusted(i)
  <2> DEFINE sv == [servers EXCEPT ![s].removed = TRUE]
  <2>1. s \in DOMAIN servers /\ servers' = Sweep(sv) /\ DOMAIN sv = DOMAIN servers
    BY <1>5 DEF RemoveBackend
  <2>2. ASSUME NEW i \in DOMAIN servers
        PROVE  sv[i].managed = servers[i].managed /\ sv[i].healthy = servers[i].healthy
    <3>1. servers[i] \in Server
      BY <2>2, CountsAre
    <3>2. sv[i] = IF i = s THEN [servers[i] EXCEPT !.removed = TRUE] ELSE servers[i]
      BY <2>1, <2>2
    <3> QED
      BY <3>1, <3>2, MarkedIs
  <2> HIDE DEF sv
  <2>3. \A i \in DOMAIN servers' : i \in DOMAIN servers /\ servers'[i] = sv[i]
    BY <2>1, SweepIs
  <2> QED
    BY <2>2, <2>3, NoTrustWithout
<1>6. CASE Tick
  <2>1. ASSUME NEW s \in DOMAIN servers
        PROVE  servers'[s].managed = servers[s].managed /\ servers'[s].healthy = servers[s].healthy
    <3>1. servers[s] \in Server
      BY <2>1, CountsAre
    <3>2. PICK a \in 0..(HeartbeatTimeout + 1) :
            a = IF servers[s].managed \/ servers[s].age > HeartbeatTimeout
                THEN servers[s].age ELSE servers[s].age + 1
      BY <3>1, ServerFields, GatewayAssumption
    <3>3. servers'[s] = [servers[s] EXCEPT !.age = a]
      BY <1>6, <2>1, <3>2 DEF Tick
    <3> QED
      BY <3>1, <3>3, AgedIs
  <2>2. DOMAIN servers' = DOMAIN servers
    BY <1>6 DEF Tick
  <2> QED
    BY <2>1, <2>2, NoTrustWithout
<1>7. ASSUME NEW c \in Client, NEW m \in Model, Acquire(c, m)
      PROVE  \A i \in Id : Trusted(i)' => Trusted(i)
  <2>1. ASSUME NEW s \in Eligible(Sweep(servers), m),
               servers' = [Sweep(servers) EXCEPT ![s].inflight = @ + 1]
        PROVE  \A i \in Id : Trusted(i)' => Trusted(i)
    <3>1. s \in DOMAIN Sweep(servers)
      BY <2>1 DEF Eligible
    <3>2. Sweep(servers)[s] = servers[s] /\ servers[s] \in Server /\ servers[s].inflight + 1 \in Nat
      BY <3>1, SweepIs, CountsAre, ServerFields
    <3> DEFINE y == [servers[s] EXCEPT !.inflight = servers[s].inflight + 1]
    <3>3. servers' = [Sweep(servers) EXCEPT ![s] = y]
      BY <2>1, <3>1, <3>2
    <3>4. y.managed = servers[s].managed /\ y.healthy = servers[s].healthy
      BY <3>2, CountedIs
    <3> HIDE DEF y
    <3> QED
      BY <3>1, <3>3, <3>4, NoTrustByChange
  <2> QED
    BY <1>2, <1>7, <2>1 DEF Acquire
<1>8. ASSUME NEW c \in Client, Finish(c) PROVE \A i \in Id : Trusted(i)' => Trusted(i)
  <2> DEFINE s == req[c].server
             sv == Returned(servers, s)
  <2>1. servers' = Sweep(sv)
    BY <1>8 DEF Finish, Released
  <2>2. DOMAIN sv = DOMAIN servers
    BY DEF Returned
  <2>3. ASSUME NEW i \in DOMAIN servers
        PROVE  sv[i].managed = servers[i].managed /\ sv[i].healthy = servers[i].healthy
    <3>1. CASE sv = servers
      BY <3>1
    <3>2. CASE s \in DOMAIN servers /\ servers[s].inflight > 0
      <4>1. servers[s] \in Server /\ servers[s].inflight - 1 \in Nat
        BY <3>2, CountsAre, ServerFields
      <4>2. sv[i] = IF i = s THEN [servers[s] EXCEPT !.inflight = servers[s].inflight - 1] ELSE servers[i]
        BY <2>3, <3>2 DEF Returned
      <4> QED
        BY <4>1, <4>2, CountedIs
    <3> QED
      BY <3>1, <3>2 DEF Returned
  <2> HIDE DEF sv
  <2>4. \A i \in DOMAIN servers' : i \in DOMAIN servers /\ servers'[i] = sv[i]
    BY <2>1, <2>2, SweepIs
  <2> QED
    BY <2>3, <2>4, NoTrustWithout
<1>9. CASE Query \/ \E c \in Client : Connect(c)
  BY <1>2, <1>9 DEF Query, Connect
<1>10. CASE StartCheck \/ StopMonitor \/ Close \/ (\E e \in Endpoint : Flip(e)) \/ UNCHANGED vars
  BY <1>3, <1>10 DEF StartCheck, StopMonitor, Close, Flip, vars
<1> QED
  BY <1>1, <1>4, <1>5, <1>6, <1>7, <1>8, <1>9, <1>10 DEF Next, Check, Infer

(* A failed probe makes no record healthy.                                 *)
LEMMA FailureDistrusts ==
  ASSUME NEW x \in Server, Probed(x, FALSE).healthy
  PROVE  x.healthy
  BY ServerFields DEF Probed, Server

(* A managed server gets requests only after a probe of it that succeeded, *)
(* which has just been recorded, also one that had registered itself, or   *)
(* failed before.                                                          *)
THEOREM TrustIsProbed == Spec => TrustFollowsProbe
<1> DEFINE Passed(s) == /\ pending # <<>> /\ pending' = Tail(pending)
                        /\ Head(pending).server = s
                        /\ Head(pending).up \/ up[Head(pending).endpoint]
<1>1. ASSUME GatewayInv, [Next]_vars, NEW s \in Id, Trusted(s)', ~Trusted(s)
      PROVE  Passed(s)
  <2>1. PICK ok \in BOOLEAN : RecordHealth(ok)
    BY <1>1, OnlyProbesTrust
  <2>2. /\ pending # <<>> /\ pending' = Tail(pending)
        /\ ok \in {Head(pending).up, up[Head(pending).endpoint]}
    BY <2>1 DEF RecordHealth
  <2>3. ASSUME Head(pending).server # s PROVE FALSE
    <3>1. DOMAIN servers' = DOMAIN servers /\ \A i \in DOMAIN servers :
            i # Head(pending).server => servers'[i] = servers[i]
      BY <2>1 DEF RecordHealth
    <3> QED
      BY <1>1, <2>3, <3>1 DEF Trusted
  <2>4. ok = TRUE
    <3> SUFFICES ASSUME ok = FALSE PROVE FALSE
      OBVIOUS
    <3>1. servers' # servers
      BY <1>1 DEF Trusted
    <3>2. s \in Targets /\ servers' = [servers EXCEPT ![s] = Probed(@, FALSE)]
      BY <2>1, <2>3, <3>1 DEF RecordHealth
    <3>3. s \in DOMAIN servers /\ servers[s].managed
      BY <3>2 DEF Targets
    <3>4. servers[s] \in Server
      BY <1>1, <3>3, CountsAre
    <3>5. Probed(servers[s], FALSE).healthy
      BY <1>1, <3>2, <3>3 DEF Trusted
    <3> QED
      BY <1>1, <3>3, <3>4, <3>5, FailureDistrusts DEF Trusted
  <2>5. Head(pending).up \/ up[Head(pending).endpoint]
    BY <2>2, <2>4
  <2> QED
    BY <2>2, <2>3, <2>5
<1>2. GatewayInv /\ [Next]_vars =>
        [\A s \in Id : Trusted(s)' /\ ~Trusted(s) => Passed(s)]_vars
  BY <1>1
<1> QED
  BY <1>2, GatewayInvariant, PTL DEF Spec, TrustFollowsProbe

=============================================================================
