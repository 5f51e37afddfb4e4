------------------------------ MODULE Gateway ------------------------------
(***************************************************************************)
(* The gateway's core (phyai-gateway: services/model_registry.py,          *)
(* services/health.py, clients/model_inference.py, and the shutdown of     *)
(* server.py): the registry of model servers, the thread that probes the   *)
(* managed ones, and the threads that infer() for clients, which lease a   *)
(* server and share one channel per endpoint.                              *)
(*                                                                         *)
(* A step is a section under the registry's lock or under the client's     *)
(* _stubs_lock (whose call of endpoints() cannot be told from an atomic    *)
(* one: nobody uses a channel without the lock).  Server ids stand for     *)
(* uuids and grow in the order of the _servers dict.  Time is the age of   *)
(* the last heartbeat, kept for unmanaged servers, the only ones whose     *)
(* heartbeat is ever read.                                                 *)
(***************************************************************************)
EXTENDS Integers, Sequences, FiniteSets

CONSTANTS
  Endpoint, Model,   \* of backends
  Client,            \* threads that call infer()
  MaxServers,        \* bound: server records ever made
  HeartbeatTimeout,  \* HEARTBEAT_TIMEOUT_SECONDS, in ticks
  FailureThreshold,  \* failure_threshold of the monitor
  Flaky,             \* bound: endpoints whose backend does not always answer
  MaxFlips           \* bound: changes of a backend between up and down

ASSUME GatewayAssumption ==
  /\ {MaxServers, HeartbeatTimeout, MaxFlips} \subseteq Nat
  /\ FailureThreshold \in Nat \ {0} /\ Flaky \subseteq Endpoint

Id   == 1..MaxServers
Idle == [phase |-> "idle", server |-> 0, cut |-> FALSE]

VARIABLES
  servers,   \* _servers: a record for each registered id
  made,      \* ids handed out
  req,       \* the infer() of each client: its phase, its lease, channel cut
  channels,  \* endpoints of the client's open channels
  closed,    \* the client's _closed
  pending,   \* the probes of the monitor's round that are not yet recorded
  stop,      \* the monitor's _stop
  up, flips  \* external: backends that answer probes; changes so far

vars == <<servers, made, req, channels, closed, pending, stop, up, flips>>

Init ==
  /\ servers = <<>> /\ made = 0
  /\ req = [c \in Client |-> Idle]
  /\ channels = {} /\ closed = FALSE
  /\ pending = <<>> /\ stop = FALSE
  /\ up = [e \in Endpoint |-> TRUE] /\ flips = 0

-----------------------------------------------------------------------------
(* The registry.                                                           *)

(* _healthy(). *)
Healthy(x) == IF x.managed THEN x.healthy ELSE x.age <= HeartbeatTimeout

Droppable(x) ==
  (x.removed \/ (~x.managed /\ x.age > HeartbeatTimeout)) /\ x.inflight = 0

(* _remove_expired(). *)
Sweep(sv) == [s \in {i \in DOMAIN sv : ~Droppable(sv[i])} |-> sv[s]]

Same_Healthy(sv, e, m) ==
  {s \in DOMAIN sv : ~sv[s].removed /\ Healthy(sv[s]) /\ sv[s].endpoint = e /\ sv[s].model = m}

(* The record _register() finds for a backend. *)
Same(sv, e, m) ==
  {s \in DOMAIN sv : ~sv[s].removed /\ sv[s].endpoint = e /\ sv[s].model = m}

(* A record registered again; one that becomes managed has to be probed.   *)
Adopted(x, managed) ==
  [x EXCEPT !.age = 0, !.managed = @ \/ managed,
            !.healthy = @ /\ ~(managed /\ ~x.managed)]

(* A new record; a managed one has to be probed, too. *)
Added(e, m, managed) ==
  [endpoint |-> e, model |-> m, age |-> 0, inflight |-> 0, managed |-> managed,
   healthy |-> ~managed, failures |-> 0, removed |-> FALSE]

(* Register() and add_backend(): _register() with managed FALSE or TRUE.   *)
(* e is the string as _register() gets it: add_backend() strips "grpc://"  *)
(* from it, and Register() does not.                                       *)
Register(e, m, managed) ==
  LET sv   == Sweep(servers)
      same == Same(sv, e, m)
  IN
  /\ \/ /\ same = {} /\ made < MaxServers
        /\ made' = made + 1
        /\ servers' = [s \in DOMAIN sv \cup {made + 1} |->
             IF s = made + 1 THEN Added(e, m, managed) ELSE sv[s]]
     \/ \E s \in same :
          /\ \A i \in same : s <= i
          /\ servers' = [sv EXCEPT ![s] = Adopted(@, managed)]
          /\ UNCHANGED made
  /\ UNCHANGED <<req, channels, closed, pending, stop, up, flips>>

(* Heartbeat(): an id that is unknown, removed or expired is refused.      *)
Heartbeat(s) ==
  LET sv == Sweep(servers)
      accepted == s \in DOMAIN sv /\ ~sv[s].removed /\ (sv[s].managed \/ Healthy(sv[s]))
  IN
  /\ servers' = IF accepted THEN [sv EXCEPT ![s].age = 0] ELSE sv
  /\ UNCHANGED <<made, req, channels, closed, pending, stop, up, flips>>

RemoveBackend(s) ==
  /\ s \in DOMAIN servers /\ ~servers[s].removed
  /\ servers' = Sweep([servers EXCEPT ![s].removed = TRUE])
  /\ UNCHANGED <<made, req, channels, closed, pending, stop, up, flips>>

(* list_backends() and has_healthy_server() only sweep. *)
Query ==
  /\ servers' = Sweep(servers)
  /\ UNCHANGED <<made, req, channels, closed, pending, stop, up, flips>>

Tick ==
  /\ servers' = [s \in DOMAIN servers |->
       [servers[s] EXCEPT !.age = IF servers[s].managed \/ @ > HeartbeatTimeout THEN @ ELSE @ + 1]]
  /\ UNCHANGED <<made, req, channels, closed, pending, stop, up, flips>>

-----------------------------------------------------------------------------
(* The health monitor.                                                     *)

(* health_targets(). *)
Targets == {s \in DOMAIN servers : servers[s].managed /\ ~servers[s].removed}

(* check_once(): every managed server is probed; nothing starts once       *)
(* stopped.                                                                *)
StartCheck ==
  /\ pending = <<>> /\ ~stop /\ Targets # {}
  /\ \E order \in [1..Cardinality(Targets) -> Targets] :
       /\ \A i, j \in DOMAIN order : i < j => order[i] < order[j]
       /\ pending' = [i \in DOMAIN order |->
            [server |-> order[i], endpoint |-> servers[order[i]].endpoint,
             up |-> up[servers[order[i]].endpoint]]]
  /\ UNCHANGED <<servers, made, req, channels, closed, stop, up, flips>>

Probed_Sticky(x, ok) ==
  IF ok THEN [x EXCEPT !.failures = 0]
  ELSE [x EXCEPT !.failures = IF @ < FailureThreshold THEN @ + 1 ELSE @,
                 !.healthy = @ /\ x.failures + 1 < FailureThreshold]

Probed_Lenient(x, ok) ==
  [x EXCEPT !.failures = IF ok THEN 0 ELSE IF @ < FailureThreshold THEN @ + 1 ELSE @,
            !.healthy = ok \/ x.failures + 1 < FailureThreshold]

(* record_health(); the count of failures stops at the threshold, above    *)
(* which it makes no difference.                                           *)
Probed(x, ok) ==
  IF ok THEN [x EXCEPT !.failures = 0, !.healthy = TRUE]
  ELSE [x EXCEPT !.failures = IF @ < FailureThreshold THEN @ + 1 ELSE @,
                 !.healthy = @ /\ x.failures + 1 < FailureThreshold]

(* The next result of the round: what the backend was when it was probed   *)
(* or what it is when the result is awaited.                               *)
RecordHealth(ok) ==
  LET s == Head(pending).server IN
  /\ pending # <<>>
  /\ ok \in {Head(pending).up, up[Head(pending).endpoint]}
  /\ pending' = Tail(pending)
  /\ servers' = IF s \in Targets THEN [servers EXCEPT ![s] = Probed(@, ok)] ELSE servers
  /\ UNCHANGED <<made, req, channels, closed, stop, up, flips>>

(* close() sets _stop: what is pending is cancelled, except for the result *)
(* the thread may be waiting for already, which it still records.          *)
StopMonitor ==
  /\ ~stop
  /\ stop' = TRUE
  /\ \/ pending' = <<>>
     \/ pending # <<>> /\ pending' = <<Head(pending)>>
  /\ UNCHANGED <<servers, made, req, channels, closed, up, flips>>

-----------------------------------------------------------------------------
(* The inference client.                                                   *)

Eligible(sv, m) == {s \in DOMAIN sv : sv[s].model = m /\ ~sv[s].removed /\ Healthy(sv[s])}

(* acquire_server(): the first of the eligible servers with the fewest     *)
(* requests; infer() fails when there is none.                             *)
Acquire(c, m) ==
  LET sv == Sweep(servers)
      ok == Eligible(sv, m)
  IN
  /\ req[c].phase = "idle"
  /\ \/ ok = {} /\ servers' = sv /\ UNCHANGED req
     \/ \E s \in ok :
          /\ \A i \in ok : sv[s].inflight < sv[i].inflight
                           \/ (sv[s].inflight = sv[i].inflight /\ s <= i)
          /\ servers' = [sv EXCEPT ![s].inflight = @ + 1]
          /\ req' = [req EXCEPT ![c] = [phase |-> "leased", server |-> s, cut |-> FALSE]]
  /\ UNCHANGED <<made, channels, closed, pending, stop, up, flips>>

Endpoints_Current(sv) == {sv[s].endpoint : s \in {i \in DOMAIN sv : ~sv[i].removed}}

(* endpoints(). *)
Endpoints(sv) == {sv[s].endpoint : s \in DOMAIN sv}

(* Calls on a channel that is closed are cut off. *)
Cut(gone) ==
  [c \in Client |->
    IF req[c].phase = "calling" /\ servers[req[c].server].endpoint \in gone
    THEN [req[c] EXCEPT !.cut = TRUE] ELSE req[c]]

MayConnect == ~closed

(* Under _stubs_lock: channels of endpoints that have left the registry    *)
(* are closed, and the leased server's is opened.                          *)
Connect(c) ==
  LET sv   == Sweep(servers)
      gone == channels \ Endpoints(sv)
  IN
  /\ req[c].phase = "leased" /\ MayConnect
  /\ servers' = sv
  /\ channels' = (channels \ gone) \cup {servers[req[c].server].endpoint}
  /\ req' = [Cut(gone) EXCEPT ![c].phase = "calling"]
  /\ UNCHANGED <<made, closed, pending, stop, up, flips>>

(* The lease is returned. *)
Returned(sv, s) ==
  IF s \in DOMAIN sv /\ sv[s].inflight > 0 THEN [sv EXCEPT ![s].inflight = @ - 1] ELSE sv

(* release_server(). *)
Released(s) == Sweep(Returned(servers, s))

(* The call has ended, with an answer, an error, at its deadline or by     *)
(* cancellation, or it never started because the client was closed.        *)
Finish(c) ==
  /\ req[c].phase = "calling" \/ (req[c].phase = "leased" /\ closed)
  /\ servers' = Released(req[c].server)
  /\ req' = [req EXCEPT ![c] = Idle]
  /\ UNCHANGED <<made, channels, closed, pending, stop, up, flips>>

(* main(): the client is closed after the monitor, whose close() joins the *)
(* thread.                                                                 *)
Close ==
  /\ stop /\ pending = <<>> /\ ~closed
  /\ closed' = TRUE /\ channels' = {}
  /\ req' = Cut(channels)
  /\ UNCHANGED <<servers, made, pending, stop, up, flips>>

(* External: a backend stops or starts answering probes; whether one that  *)
(* nobody probes answers makes no difference.                              *)
Flip(e) ==
  /\ e \in Flaky /\ flips < MaxFlips /\ (stop => pending # <<>>)
  /\ \E s \in Targets : servers[s].endpoint = e
  /\ up' = [up EXCEPT ![e] = ~@] /\ flips' = flips + 1
  /\ UNCHANGED <<servers, made, req, channels, closed, pending, stop>>

-----------------------------------------------------------------------------
Check == StartCheck \/ \E ok \in BOOLEAN : RecordHealth(ok)

Infer(c) == Connect(c) \/ Finish(c)

Next ==
  \/ \E e \in Endpoint, m \in Model, managed \in BOOLEAN : Register(e, m, managed)
  \/ \E s \in Id : Heartbeat(s) \/ RemoveBackend(s)
  \/ Query \/ Tick
  \/ Check \/ StopMonitor
  \/ \E c \in Client : Infer(c) \/ \E m \in Model : Acquire(c, m)
  \/ Close
  \/ \E e \in Endpoint : Flip(e)

(* The monitor's thread loops until it is stopped, each probe ends at its  *)
(* timeout, and a call at INFERENCE_TIMEOUT_SECONDS.                       *)
Spec == Init /\ [][Next]_vars /\ WF_vars(Check) /\ \A c \in Client : WF_vars(Infer(c))

-----------------------------------------------------------------------------
(* Properties.                                                             *)

Server ==
  [endpoint : Endpoint, model : Model, age : 0..(HeartbeatTimeout + 1), inflight : Nat,
   managed : BOOLEAN, healthy : BOOLEAN, failures : 0..FailureThreshold, removed : BOOLEAN]

(* Every variable has its type; the client keeps no channel once closed,   *)
(* though infer() may be between its lease and its channel when close()    *)
(* runs.                                                                   *)
TypeOK ==
  /\ made \in 0..MaxServers
  /\ DOMAIN servers \subseteq 1..made
  /\ \A s \in DOMAIN servers : servers[s] \in Server
  /\ req \in [Client -> [phase : {"idle", "leased", "calling"}, server : 0..MaxServers,
                         cut : BOOLEAN]]
  /\ channels \subseteq Endpoint /\ (closed => channels = {})
  /\ pending \in Seq([server : Id, endpoint : Endpoint, up : BOOLEAN])
  /\ {closed, stop} \subseteq BOOLEAN /\ up \in [Endpoint -> BOOLEAN] /\ flips \in 0..MaxFlips

Holders(s) == {c \in Client : req[c].phase # "idle" /\ req[c].server = s}

(* The in-flight count the balancing goes by is the number of calls that   *)
(* hold the server, and its record outlives all of them, whether it is     *)
(* removed, expires or is registered again meanwhile.                      *)
LeasesCounted ==
  /\ \A c \in Client : req[c].phase # "idle" => req[c].server \in DOMAIN servers
  /\ \A s \in DOMAIN servers : servers[s].inflight = Cardinality(Holders(s))

(* A removed server is forgotten with its last call: its record is never   *)
(* left behind without one.                                                *)
RemovedOnlyWhileLeased ==
  \A s \in DOMAIN servers : servers[s].removed => Holders(s) # {}

(* A backend is registered once, so that its load is counted in one place: *)
(* also when it comes back after its record expired under a call.  A       *)
(* backend is a model at an endpoint string (see Register).                *)
BackendsUnique ==
  \A s, i \in DOMAIN servers :
    /\ ~servers[s].removed /\ ~servers[i].removed
    /\ servers[s].endpoint = servers[i].endpoint /\ servers[s].model = servers[i].model
    => s = i

(* No request closes the channel another one is calling on: only close()   *)
(* of the client does.                                                     *)
NeverCut == \A c \in Client : req[c].cut => closed

Trusted(s) == s \in DOMAIN servers /\ servers[s].managed /\ servers[s].healthy

(* A managed server gets requests only after a probe of it that succeeded, *)
(* also one that had registered itself, or that failed before: the step    *)
(* that makes it eligible records a probe of this server, whose backend    *)
(* answered when it was probed or answers now.                             *)
TrustFollowsProbe ==
  [][\A s \in Id : Trusted(s)' /\ ~Trusted(s) =>
       /\ pending # <<>> /\ pending' = Tail(pending)
       /\ Head(pending).server = s
       /\ Head(pending).up \/ up[Head(pending).endpoint]]_vars

(* A server is dropped once it is removed: its calls end and none is added. *)
RemovedIsDropped ==
  \A s \in Id : (s \in DOMAIN servers /\ servers[s].removed) ~> s \notin DOMAIN servers

(* "The gateway keeps checking registered servers and resumes sending      *)
(* requests when an unavailable server recovers."                          *)
Recovers ==
  \A s \in Id :
    <>[](~stop /\ s \in Targets /\ up[servers[s].endpoint]) => <>[]Trusted(s)

(* The registry has one record for a backend that is served, and one for *)
(* as long as a call holds it, however registrations, expiry, removals   *)
(* and calls are ordered.                                                *)
RecordsCorrect == TypeOK /\ LeasesCounted /\ RemovedOnlyWhileLeased /\ BackendsUnique

(* What happens to a backend reaches its record: removed servers are     *)
(* dropped, and recovered ones get requests again.                       *)
RecordsSettle == RemovedIsDropped /\ Recovers

=============================================================================
