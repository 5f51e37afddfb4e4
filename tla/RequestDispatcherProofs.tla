---------------------- MODULE RequestDispatcherProofs -----------------------
(***************************************************************************)
(* The dispatcher proved for any number of replicas, threads, requests and *)
(* faults: the life of the shared supervisor, the rotation of ties, and    *)
(* the balance of loads that are read without a lock.                      *)
(***************************************************************************)
EXTENDS RequestDispatcher, FiniteSetTheorems, WellFoundedInduction, TLAPS

Manager == Starter \cup Closer

ClosingPc == {"close", "release", "managerClose"}

(* The setup lock is held by whoever is between its two ends, and until a  *)
(* setup() has failed nothing is closed.                                   *)
SetupInv ==
  /\ \A t \in Manager : pc[t] \notin {"idle", "ready", "raised", "done"} <=> setupLock = t
  /\ \A t \in Starter : pc[t] \in {"start", "shared", "starting", "started", "setupFailed"} => ~closed

(* The lock of the shared manager is held while the supervisor starts,     *)
(* which it does once and only while it is not closed.                     *)
SharedInv ==
  /\ \A t \in Thread : pc[t] = "starting" <=> shLock = t
  /\ shLock # None => mgr = "starting" /\ ~shClosed
  /\ mgr # "running" => \A r \in Replica : load[r] = 0

(* How far the one close() is, from the last executor to the first.        *)
CloseInv ==
  /\ ~closed => exClosed = {} /\ remaining = ReplicaCount /\ ~shClosed
  /\ \A t \in Manager :
       /\ pc[t] \in ClosingPc => closed
       /\ pc[t] = "close" =>
            exClosed = (idx[t] + 1)..ReplicaCount /\ remaining = idx[t] /\ ~shClosed
       /\ pc[t] = "release" =>
            exClosed = idx[t]..ReplicaCount /\ remaining = idx[t] /\ ~shClosed
       /\ pc[t] = "managerClose" =>
            idx[t] = 1 /\ exClosed = Replica /\ remaining = 0 /\ shClosed
       /\ pc[t] \in {"raised", "done"} => closed /\ \A u \in Manager : pc[u] \notin ClosingPc
  /\ closed /\ (\A t \in Manager : pc[t] \notin ClosingPc) =>
       exClosed = Replica /\ remaining = 0 /\ shClosed /\ mgr \in {"stopped", "failed"}

(* Callers of submit(), and those that have not chosen a replica yet.      *)
Busy     == {c \in Client : pc[c] # "idle"}
Choosing == {c \in Client : pc[c] \in {"health", "minimum", "eligible", "pick"}}

(* A call adds at most one to a load and at most one to what is skipped.   *)
BoundInv ==
  /\ \A r \in Replica : load[r] + Cardinality(Busy) <= calls
  /\ \A r \in Replica : skipped[r] + Cardinality(Choosing) <= calls

(* A loop over the candidates is at one of them.                           *)
LoopInv ==
  \A c \in Client :
    /\ pc[c] \in {"health", "minimum"} => sel[c].eligible = {}
    /\ pc[c] \in {"minimum", "eligible"} => idx[c] \in sel[c].candidates
    /\ pc[c] \in {"eligible", "pick"} => sel[c].eligible \subseteq sel[c].candidates

LifeInv == TypeOK /\ SetupInv /\ SharedInv /\ CloseInv /\ BoundInv /\ LoopInv

(* From the cursor forward to a replica.                                   *)
Ahead(r) == IF r >= cursor THEN r - cursor ELSE r - cursor + ReplicaCount

(* A replica that is passed over comes nearer to the cursor.               *)
RotationInv == \A r \in Replica : skipped[r] + Ahead(r) < ReplicaCount

(* Until something fails, completes or is closed ...                       *)
Undisturbed == ~closed /\ mgr \in {"created", "starting", "running"} /\ completions = 0

(* ... every caller finds every replica healthy, and the minimum it has    *)
(* read so far is not above what it is a minimum of ...                    *)
ReadBy(c) ==
  /\ pc[c] = "health" => sel[c].candidates = 1..(idx[c] - 1)
  /\ pc[c] \in {"minimum", "eligible"} => sel[c].candidates = Replica
  /\ pc[c] = "minimum" => \A r \in Replica : r < idx[c] => sel[c].minimum <= load[r]
  /\ pc[c] = "eligible" => \A r \in Replica : sel[c].minimum <= load[r]

ReadInv == Undisturbed => \A c \in Client : ReadBy(c)

(* Callers that may still add to the load of r.                            *)
Heading(r) ==
  {c \in Client : \/ pc[c] \in {"eligible", "pick"} /\ r \in sel[c].eligible
                  \/ pc[c] \in {"submit", "start", "shared", "starting", "send"} /\ idx[c] = r}

(* ... so that whoever may still add to a load has found it minimal.       *)
BalanceInv ==
  Undisturbed => \A r, s \in Replica :
    load[r] + Cardinality(Heading(r)) <= load[s] + Cardinality(Client)

-----------------------------------------------------------------------------
(* Remainders of what is less than twice the divisor.                      *)
LEMMA ModWrap ==
  ASSUME NEW n \in Nat \ {0}, NEW x \in Nat, x < 2 * n
  PROVE  x % n = IF x < n THEN x ELSE x - n
  OBVIOUS

(* The least of a set of numbers.                                          *)
LEMMA MinIs ==
  ASSUME NEW S, S \subseteq Nat, S # {}
  PROVE  Min(S) \in S /\ \A y \in S : Min(S) <= y
<1> DEFINE R == OpToRel(<, Nat)
<1>1. IsWellFoundedOn(R, Nat)
  BY NatLessThanWellFounded
<1>2. \A x, y \in Nat : x < y => <<x, y>> \in R
  BY DEF OpToRel
<1> HIDE DEF R
<1>3. PICK x \in S : \A y \in S : ~(<<y, x>> \in R)
  BY <1>1, WFMin
<1>4. \A y \in S : x \in Nat /\ y \in Nat /\ ~(y < x)
  BY <1>2, <1>3, Zenon
<1>5. \A y \in S : x <= y
  BY <1>4
<1> QED
  BY <1>5 DEF Min

(* A thread has one role.                                                  *)
LEMMA Roles ==
  /\ \A t \in Client : t \in Thread /\ t \notin Starter /\ t \notin Closer /\ t \notin Manager
  /\ \A t \in Starter : t \in Thread /\ t \notin Client /\ t \notin Closer /\ t \in Manager
  /\ \A t \in Closer : t \in Thread /\ t \notin Client /\ t \notin Starter /\ t \in Manager
  /\ \A t \in Manager : t \in Thread /\ t \notin Client /\ (t \in Starter \/ t \in Closer)
  /\ \A t \in Thread : t # None /\ (t \in Client \/ t \in Manager)
  BY ThreadAssumption DEF Thread, Manager

(* Replicas are numbered from one.                                         *)
LEMMA Replicas ==
  /\ ReplicaCount \in Nat /\ ReplicaCount >= 1 /\ 1 \in Replica /\ ReplicaCount \in Replica
  /\ Replica \subseteq Nat
  /\ \A r : r \in Replica <=> r \in Nat /\ 1 <= r /\ r <= ReplicaCount
  BY CountAssumption DEF Replica

(* Thread t is at label now, and at executor i; the others stay.           *)
Moved(t, label, i) ==
  /\ pc' \in [Thread -> ClientPc \cup StarterPc \cup CloserPc] /\ idx' \in [Thread -> Replica]
  /\ \A u \in Thread : pc'[u] = IF u = t THEN label ELSE pc[u]
  /\ \A u \in Thread : idx'[u] = IF u = t THEN i ELSE idx[u]

(* The assignments of a step give that.                                    *)
LEMMA MovedBy ==
  ASSUME TypeOK, NEW t \in Thread, NEW label \in ClientPc \cup StarterPc \cup CloserPc,
         Goto(t, label) \/ (pc' = pc /\ pc[t] = label)
  PROVE  /\ \A i \in Replica : At(t, i) => Moved(t, label, i)
         /\ idx' = idx => Moved(t, label, idx[t])
<1>1. pc' \in [Thread -> ClientPc \cup StarterPc \cup CloserPc] /\ \A u \in Thread : pc'[u] = IF u = t THEN label ELSE pc[u]
  BY DEF TypeOK, Goto
<1>2. ASSUME NEW i \in Replica, At(t, i) PROVE Moved(t, label, i)
  BY <1>1, <1>2 DEF TypeOK, At, Moved
<1>3. ASSUME idx' = idx PROVE Moved(t, label, idx[t])
  BY <1>1, <1>3 DEF TypeOK, Moved
<1> QED
  BY <1>2, <1>3

(* What a caller of submit() does between the locks is not seen by setup() *)
(* and close().                                                            *)
LEMMA ClientMove ==
  ASSUME LifeInv, NEW c \in Client, NEW label \in ClientPc \ {"starting"}, NEW i \in Replica,
         pc[c] # "starting", Moved(c, label, i),
         mgr # "running" => UNCHANGED load,
         UNCHANGED <<closed, setupLock, exClosed, remaining, shClosed, shLock, mgr>>
  PROVE  SetupInv' /\ SharedInv' /\ CloseInv'
<1> USE Roles DEF LifeInv
<1>1. \A t \in Thread : t # c => pc'[t] = pc[t] /\ idx'[t] = idx[t]
  BY DEF Moved
<1>2. pc'[c] = label
  BY DEF Moved
<1>3. \A t \in Manager : pc'[t] = pc[t] /\ idx'[t] = idx[t]
  BY <1>1
<1>4. SetupInv'
  BY <1>3 DEF SetupInv
<1>5. SharedInv'
  <2>1. \A t \in Thread : pc'[t] = "starting" <=> shLock' = t
    BY <1>1, <1>2 DEF SharedInv
  <2>2. mgr' # "running" => \A r \in Replica : load'[r] = 0
    BY DEF SharedInv
  <2> QED
    BY <2>1, <2>2 DEF SharedInv
<1>6. CloseInv'
  BY <1>3 DEF CloseInv
<1> QED
  BY <1>4, <1>5, <1>6

(* Sets of callers are finite.                                             *)
LEMMA CallersFinite ==
  ASSUME NEW S, S \subseteq Client
  PROVE  IsFiniteSet(S) /\ Cardinality(S) \in Nat /\ Cardinality(S) <= Cardinality(Client)
         /\ Cardinality(Client) \in Nat
  BY ThreadAssumption, FS_Subset, FS_CardinalityType

(* One caller more, one less, or none more.                                *)
LEMMA CallersCount ==
  ASSUME NEW S, S \subseteq Client, NEW T, T \subseteq Client
  PROVE  /\ S \subseteq T => Cardinality(S) <= Cardinality(T)
         /\ \A c \in Client : S \subseteq T \cup {c} => Cardinality(S) <= Cardinality(T) + 1
         /\ \A c \in T : S \subseteq T \ {c} => Cardinality(S) + 1 <= Cardinality(T)
<1>1. IsFiniteSet(S) /\ IsFiniteSet(T) /\ Cardinality(S) \in Nat /\ Cardinality(T) \in Nat
  BY CallersFinite
<1>2. ASSUME S \subseteq T PROVE Cardinality(S) <= Cardinality(T)
  BY <1>1, <1>2, FS_Subset
<1>3. ASSUME NEW c \in Client, S \subseteq T \cup {c} PROVE Cardinality(S) <= Cardinality(T) + 1
  <2>1. IsFiniteSet(T \cup {c}) /\ Cardinality(T \cup {c}) \in Nat
        /\ Cardinality(T \cup {c}) <= Cardinality(T) + 1
    BY <1>1, FS_AddElement
  <2>2. Cardinality(S) <= Cardinality(T \cup {c})
    BY <1>3, <2>1, FS_Subset
  <2> QED
    BY <1>1, <2>1, <2>2
<1>4. ASSUME NEW c \in T, S \subseteq T \ {c} PROVE Cardinality(S) + 1 <= Cardinality(T)
  <2>1. IsFiniteSet(T \ {c}) /\ Cardinality(T \ {c}) = Cardinality(T) - 1
    BY <1>1, FS_RemoveElement
  <2>2. Cardinality(S) <= Cardinality(T \ {c})
    BY <1>4, <2>1, FS_Subset
  <2> QED
    BY <1>1, <2>1, <2>2
<1> QED
  BY <1>2, <1>3, <1>4

(* A step that accepts no call and adds to no load or count.               *)
LEMMA BoundKeeps ==
  ASSUME TypeOK, BoundInv, Busy' \subseteq Busy, Choosing' \subseteq Choosing,
         UNCHANGED <<calls, skipped>>, \A r \in Replica : load'[r] \in Nat /\ load'[r] <= load[r]
  PROVE  BoundInv'
<1>1. Cardinality(Busy') <= Cardinality(Busy) /\ Cardinality(Choosing') <= Cardinality(Choosing)
  BY CallersCount DEF Busy, Choosing
<1>2. PICK m \in Nat, n \in Nat, m1 \in Nat, n1 \in Nat :
        /\ m = Cardinality(Busy) /\ n = Cardinality(Choosing)
        /\ m1 = Cardinality(Busy') /\ n1 = Cardinality(Choosing')
  BY CallersFinite DEF Busy, Choosing
<1>3. \A r \in Replica : load[r] \in Nat /\ skipped[r] \in Nat /\ calls \in Nat
  BY CountAssumption DEF TypeOK
<1>4. ASSUME NEW r \in Replica
      PROVE  load'[r] + Cardinality(Busy') <= calls' /\ skipped'[r] + Cardinality(Choosing') <= calls'
  <2>1. load[r] + m <= calls /\ skipped[r] + n <= calls
    BY <1>2 DEF BoundInv
  <2> QED
    BY <1>1, <1>2, <1>3, <2>1
<1> QED
  BY <1>4 DEF BoundInv

Selection == [candidates : SUBSET Replica, minimum : 0..MaxRequest, eligible : SUBSET Replica]

(* One part of what a caller has read changes.                             *)
LEMMA SelIs ==
  ASSUME TypeOK, NEW c \in Client, NEW S \in SUBSET Replica, NEW m \in 0..MaxRequest
  PROVE  /\ sel' = [sel EXCEPT ![c].candidates = S] =>
              /\ sel' \in [Client -> Selection] /\ \A d \in Client : d # c => sel'[d] = sel[d]
              /\ sel'[c].candidates = S /\ sel'[c].minimum = sel[c].minimum
              /\ sel'[c].eligible = sel[c].eligible
         /\ sel' = [sel EXCEPT ![c].minimum = m] =>
              /\ sel' \in [Client -> Selection] /\ \A d \in Client : d # c => sel'[d] = sel[d]
              /\ sel'[c].candidates = sel[c].candidates /\ sel'[c].minimum = m
              /\ sel'[c].eligible = sel[c].eligible
         /\ sel' = [sel EXCEPT ![c].eligible = S] =>
              /\ sel' \in [Client -> Selection] /\ \A d \in Client : d # c => sel'[d] = sel[d]
              /\ sel'[c].candidates = sel[c].candidates /\ sel'[c].minimum = sel[c].minimum
              /\ sel'[c].eligible = S
<1>1. sel \in [Client -> Selection]
  BY DEF TypeOK, Selection
<1>2. ASSUME sel' = [sel EXCEPT ![c].candidates = S]
      PROVE  /\ sel' \in [Client -> Selection] /\ \A d \in Client : d # c => sel'[d] = sel[d]
             /\ sel'[c].candidates = S /\ sel'[c].minimum = sel[c].minimum
             /\ sel'[c].eligible = sel[c].eligible
  BY <1>1, <1>2 DEF Selection
<1>3. ASSUME sel' = [sel EXCEPT ![c].minimum = m]
      PROVE  /\ sel' \in [Client -> Selection] /\ \A d \in Client : d # c => sel'[d] = sel[d]
             /\ sel'[c].candidates = sel[c].candidates /\ sel'[c].minimum = m
             /\ sel'[c].eligible = sel[c].eligible
  BY <1>1, <1>3 DEF Selection
<1>4. ASSUME sel' = [sel EXCEPT ![c].eligible = S]
      PROVE  /\ sel' \in [Client -> Selection] /\ \A d \in Client : d # c => sel'[d] = sel[d]
             /\ sel'[c].candidates = sel[c].candidates /\ sel'[c].minimum = sel[c].minimum
             /\ sel'[c].eligible = S
  BY <1>1, <1>4 DEF Selection
<1> QED
  BY <1>2, <1>3, <1>4

(* A caller moves on with what it has read.                                *)
LEMMA ClientKeeps ==
  ASSUME LifeInv, NEW c \in Client, NEW label \in ClientPc \ {"starting"}, NEW i \in Replica,
         pc[c] \notin {"idle", "starting"}, Moved(c, label, i),
         label \in {"health", "minimum", "eligible", "pick"} =>
           pc[c] \in {"health", "minimum", "eligible", "pick"},
         sel' \in [Client -> Selection], \A d \in Client : d # c => sel'[d] = sel[d],
         label \in {"health", "minimum"} => sel'[c].eligible = {},
         label \in {"minimum", "eligible"} => i \in sel'[c].candidates,
         label \in {"eligible", "pick"} => sel'[c].eligible \subseteq sel'[c].candidates,
         UNCHANGED <<cursor, closed, started, setupLock, exClosed, remaining, shStarted, shClosed,
                     shLock, mgr, load, calls, completions, faults, skipped>>
  PROVE  LifeInv'
<1> USE Roles DEF LifeInv
<1>1. SetupInv' /\ SharedInv' /\ CloseInv'
  BY ClientMove
<1>2. TypeOK'
  <2>1. \A t \in Thread : /\ t \in Client => pc'[t] \in ClientPc
                          /\ t \in Starter => pc'[t] \in StarterPc
                          /\ t \in Closer => pc'[t] \in CloserPc
    BY DEF TypeOK, Moved
  <2> QED
    BY <2>1 DEF TypeOK, Moved, Selection
<1>3. BoundInv'
  <2>1. Busy' \subseteq Busy /\ Choosing' \subseteq Choosing
    BY DEF Busy, Choosing, Moved
  <2>2. \A r \in Replica : load'[r] \in Nat /\ load'[r] <= load[r]
    BY CountAssumption DEF TypeOK
  <2> QED
    BY <2>1, <2>2, BoundKeeps
<1>4. LoopInv'
  <2>1. ASSUME NEW d \in Client
        PROVE  /\ pc'[d] \in {"health", "minimum"} => sel'[d].eligible = {}
               /\ pc'[d] \in {"minimum", "eligible"} => idx'[d] \in sel'[d].candidates
               /\ pc'[d] \in {"eligible", "pick"} => sel'[d].eligible \subseteq sel'[d].candidates
    <3>1. CASE d = c
      BY <3>1 DEF Moved
    <3>2. CASE d # c
      BY <3>2 DEF Moved, LoopInv
    <3> QED
      BY <3>1, <3>2
  <2> QED
    BY <2>1 DEF LoopInv
<1> QED
  BY <1>1, <1>2, <1>3, <1>4

(* The first candidate and the next one are candidates.                    *)
LEMMA CandidatesIs ==
  ASSUME TypeOK, NEW c \in Client
  PROVE  /\ sel[c].candidates \in SUBSET Replica /\ sel[c].eligible \in SUBSET Replica
         /\ sel[c].minimum \in 0..MaxRequest
         /\ \A S \in SUBSET Replica : S # {} => Min(S) \in S /\ Min(S) \in Replica /\ \A r \in S : Min(S) <= r
         /\ \A r : Following(c, r) \in SUBSET sel[c].candidates
<1>1. sel[c] \in Selection
  BY DEF TypeOK, Selection
<1>2. \A S \in SUBSET Replica : S # {} => Min(S) \in S /\ Min(S) \in Replica /\ \A r \in S : Min(S) <= r
  BY Replicas, MinIs
<1> QED
  BY <1>1, <1>2 DEF Selection, Following

(* The health of one executor is read.                                     *)
LEMMA LifeByReadHealth ==
  ASSUME LifeInv, NEW c \in Client, ReadHealth(c)
  PROVE  LifeInv'
<1> USE Roles DEF LifeInv
<1> DEFINE r == idx[c]
           S == sel[c].candidates \cup {x \in {r} : Healthy(x)}
<1>1. r \in Replica /\ S \in SUBSET Replica
  BY CandidatesIs DEF TypeOK
<1>2. /\ pc[c] = "health" /\ sel' = [sel EXCEPT ![c].candidates = S]
      /\ UNCHANGED <<cursor, closed, started, setupLock, exClosed, remaining, shStarted, shClosed,
                     shLock, mgr, load, calls, completions, faults, skipped>>
  BY DEF ReadHealth, dispVars, execVars, mgrVars, histVars
<1>3. \/ r < ReplicaCount /\ At(c, r + 1) /\ UNCHANGED pc
      \/ S = {} /\ Goto(c, "idle") /\ At(c, 1)
      \/ S # {} /\ Goto(c, "minimum") /\ At(c, Min(S))
  BY DEF ReadHealth
<1> HIDE DEF S
<1>4. /\ sel' \in [Client -> Selection] /\ \A d \in Client : d # c => sel'[d] = sel[d]
      /\ sel'[c].candidates = S /\ sel'[c].eligible = {}
  <2>1. 0 \in 0..MaxRequest
    BY CountAssumption
  <2> QED
    BY <1>1, <1>2, <2>1, SelIs DEF LoopInv
<1>5. CASE r < ReplicaCount /\ At(c, r + 1) /\ UNCHANGED pc
  <2>1. r + 1 \in Replica
    BY <1>1, <1>5, Replicas
  <2>2. Moved(c, "health", r + 1)
    BY <1>2, <1>5, <2>1, MovedBy DEF ClientPc
  <2> QED
    BY <1>2, <1>4, <2>1, <2>2, ClientKeeps DEF ClientPc
<1>6. CASE S = {} /\ Goto(c, "idle") /\ At(c, 1)
  <2>1. Moved(c, "idle", 1)
    BY <1>6, MovedBy, Replicas DEF ClientPc
  <2> QED
    BY <1>2, <1>4, <2>1, ClientKeeps, Replicas DEF ClientPc
<1>7. CASE S # {} /\ Goto(c, "minimum") /\ At(c, Min(S))
  <2>1. Min(S) \in S /\ Min(S) \in Replica
    BY <1>1, <1>7, CandidatesIs
  <2>2. Moved(c, "minimum", Min(S))
    BY <1>7, <2>1, MovedBy DEF ClientPc
  <2> QED
    BY <1>2, <1>4, <2>1, <2>2, ClientKeeps DEF ClientPc
<1> QED
  BY <1>3, <1>5, <1>6, <1>7

(* The load of one candidate is read, for the minimum.                     *)
LEMMA LifeByReadMinimum ==
  ASSUME LifeInv, NEW c \in Client, ReadMinimum(c)
  PROVE  LifeInv'
<1> USE Roles DEF LifeInv
<1> DEFINE r == idx[c]
<1>1. PICK m : /\ pc[c] = "minimum" /\ sel' = [sel EXCEPT ![c].minimum = m]
               /\ m = Inflight(r) \/ m = Least(sel[c].minimum, Inflight(r))
               /\ UNCHANGED <<cursor, closed, started, setupLock, exClosed, remaining, shStarted,
                              shClosed, shLock, mgr, load, calls, completions, faults, skipped>>
  BY DEF ReadMinimum, dispVars, execVars, mgrVars, histVars
<1>2. r \in sel[c].candidates /\ r \in Replica
  BY <1>1 DEF LoopInv, TypeOK
<1>3. m \in 0..MaxRequest
  <2>1. Inflight(r) \in 0..MaxRequest
    BY <1>2, CountAssumption DEF Inflight, TypeOK
  <2>2. sel[c].minimum \in 0..MaxRequest
    BY CandidatesIs
  <2>3. Least(sel[c].minimum, Inflight(r)) \in {sel[c].minimum, Inflight(r)}
    BY <2>1, <2>2, MinIs DEF Least
  <2> QED
    BY <1>1, <2>1, <2>2, <2>3
<1>4. /\ sel' \in [Client -> Selection] /\ \A d \in Client : d # c => sel'[d] = sel[d]
      /\ sel'[c].candidates = sel[c].candidates /\ sel'[c].eligible = {}
  BY <1>1, <1>3, SelIs DEF LoopInv
<1>5. CASE Following(c, r) # {} /\ At(c, Min(Following(c, r))) /\ UNCHANGED pc
  <2>1. Min(Following(c, r)) \in sel[c].candidates /\ Min(Following(c, r)) \in Replica
    <3>1. Following(c, r) \in SUBSET Replica /\ Following(c, r) \in SUBSET sel[c].candidates
      BY CandidatesIs
    <3>2. Min(Following(c, r)) \in Following(c, r) /\ Min(Following(c, r)) \in Replica
      BY <1>5, <3>1, CandidatesIs
    <3> QED
      BY <3>1, <3>2
  <2>2. Moved(c, "minimum", Min(Following(c, r)))
    BY <1>1, <1>5, <2>1, MovedBy DEF ClientPc
  <2> QED
    BY <1>1, <1>4, <2>1, <2>2, ClientKeeps DEF ClientPc
<1>6. CASE At(c, Min(sel[c].candidates)) /\ Goto(c, "eligible")
  <2>1. Min(sel[c].candidates) \in sel[c].candidates /\ Min(sel[c].candidates) \in Replica
    BY <1>2, CandidatesIs
  <2>2. Moved(c, "eligible", Min(sel[c].candidates))
    BY <1>6, <2>1, MovedBy DEF ClientPc
  <2> QED
    BY <1>1, <1>4, <2>1, <2>2, ClientKeeps DEF ClientPc
<1> QED
  BY <1>5, <1>6 DEF ReadMinimum

(* The load of one candidate is read a second time.                        *)
LEMMA LifeByReadEligible ==
  ASSUME LifeInv, NEW c \in Client, ReadEligible(c)
  PROVE  LifeInv'
<1> USE Roles DEF LifeInv
<1> DEFINE r == idx[c]
           S == sel[c].eligible \cup {x \in {r} : Minimal(c, x)}
<1>1. /\ pc[c] = "eligible" /\ sel' = [sel EXCEPT ![c].eligible = S]
      /\ UNCHANGED <<cursor, closed, started, setupLock, exClosed, remaining, shStarted, shClosed,
                     shLock, mgr, load, calls, completions, faults, skipped>>
  BY DEF ReadEligible, dispVars, execVars, mgrVars, histVars
<1>2. S \subseteq sel[c].candidates /\ S \in SUBSET Replica
  BY <1>1, CandidatesIs DEF LoopInv
<1> HIDE DEF S
<1>3. /\ sel' \in [Client -> Selection] /\ \A d \in Client : d # c => sel'[d] = sel[d]
      /\ sel'[c].candidates = sel[c].candidates /\ sel'[c].eligible = S
  <2>1. 0 \in 0..MaxRequest
    BY CountAssumption
  <2> QED
    BY <1>1, <1>2, <2>1, SelIs
<1>4. CASE Following(c, r) # {} /\ At(c, Min(Following(c, r))) /\ UNCHANGED pc
  <2>1. Min(Following(c, r)) \in sel[c].candidates /\ Min(Following(c, r)) \in Replica
    <3>1. Following(c, r) \in SUBSET Replica /\ Following(c, r) \in SUBSET sel[c].candidates
      BY CandidatesIs
    <3>2. Min(Following(c, r)) \in Following(c, r) /\ Min(Following(c, r)) \in Replica
      BY <1>4, <3>1, CandidatesIs
    <3> QED
      BY <3>1, <3>2
  <2>2. Moved(c, "eligible", Min(Following(c, r)))
    BY <1>1, <1>4, <2>1, MovedBy DEF ClientPc
  <2> QED
    BY <1>1, <1>2, <1>3, <2>1, <2>2, ClientKeeps DEF ClientPc
<1>5. CASE At(c, 1) /\ Goto(c, "pick")
  <2>1. Moved(c, "pick", 1)
    BY <1>5, MovedBy, Replicas DEF ClientPc
  <2> QED
    BY <1>1, <1>2, <1>3, <2>1, ClientKeeps, Replicas DEF ClientPc
<1> QED
  BY <1>4, <1>5 DEF ReadEligible

(* The step of a caller that reads nothing more.                           *)
LEMMA ClientLeaves ==
  ASSUME LifeInv, NEW c \in Client, pc[c] \notin {"idle", "starting"},
         NEW label \in {"idle", "asserted", "submit", "start", "shared", "send"},
         Goto(c, label),
         UNCHANGED <<cursor, closed, started, setupLock, exClosed, remaining, shStarted, shClosed,
                     shLock, mgr, load, idx, sel, calls, completions, faults, skipped>>
  PROVE  LifeInv'
<1> USE Roles DEF LifeInv
<1>1. idx[c] \in Replica /\ sel' \in [Client -> Selection]
  BY DEF TypeOK, Selection
<1>2. label \in ClientPc \ {"starting"}
  BY DEF ClientPc
<1>3. Moved(c, label, idx[c])
  BY <1>2, MovedBy
<1> QED
  BY <1>1, <1>2, <1>3, ClientKeeps

(* Steps of a caller from _select to the supervisor.                       *)
LEMMA LifeByClientMoves ==
  ASSUME LifeInv, NEW c \in Client,
         PickAsserts(c) \/ AssertReturns(c) \/ ExecutorSubmit(c) \/ ExecutorStart(c)
  PROVE  LifeInv'
<1>1. CASE PickAsserts(c)
  BY <1>1, ClientLeaves DEF PickAsserts, dispVars, execVars, mgrVars, histVars
<1>2. CASE AssertReturns(c)
  BY <1>2, ClientLeaves DEF AssertReturns, dispVars, execVars, mgrVars, histVars
<1>3. CASE ExecutorSubmit(c)
  BY <1>3, ClientLeaves DEF ExecutorSubmit, dispVars, execVars, mgrVars, histVars
<1>4. CASE ExecutorStart(c)
  BY <1>4, ClientLeaves DEF ExecutorStart, Abort, dispVars, execVars, mgrVars, histVars
<1> QED
  BY <1>1, <1>2, <1>3, <1>4

(* The k-th replica from the cursor on, around the end of the list.        *)
LEMMA FromIs ==
  ASSUME TypeOK, NEW k \in 0..(ReplicaCount - 1)
  PROVE  ((cursor - 1 + k) % ReplicaCount) + 1
           = IF cursor + k <= ReplicaCount THEN cursor + k ELSE cursor + k - ReplicaCount
<1>1. PICK n \in Nat \ {0} : n = ReplicaCount
  BY CountAssumption
<1>2. PICK x \in Nat : x = cursor - 1 + k /\ x < 2 * n /\ cursor \in Nat
  BY <1>1, Replicas DEF TypeOK
<1>3. x % n = IF x < n THEN x ELSE x - n
  BY <1>2, ModWrap
<1>4. (cursor - 1 + k) % ReplicaCount = IF x < n THEN x ELSE x - n
  BY <1>1, <1>2, <1>3
<1> QED
  BY <1>1, <1>2, <1>4

(* The replica chosen is the first eligible one from the cursor on, and    *)
(* the cursor moves past it: every other eligible one comes nearer.        *)
LEMMA ChosenIs ==
  ASSUME TypeOK, NEW c \in Client, sel[c].eligible # {}
  PROVE  /\ Chosen(c) \in sel[c].eligible /\ Chosen(c) \in Replica
         /\ After(Chosen(c)) \in Replica
         /\ \A r \in sel[c].eligible \ {Chosen(c)} :
              cursor' = After(Chosen(c)) => Ahead(r)' < Ahead(r)
<1> DEFINE from(k) == ((cursor - 1 + k) % ReplicaCount) + 1
           K == {k \in 0..(ReplicaCount - 1) : from(k) \in sel[c].eligible}
           place(k) == IF cursor + k <= ReplicaCount THEN cursor + k ELSE cursor + k - ReplicaCount
<1>1. \A k \in 0..(ReplicaCount - 1) : from(k) = place(k)
  BY FromIs
<1>2. sel[c].eligible \in SUBSET Replica /\ cursor \in Replica
  BY CandidatesIs DEF TypeOK
<1> HIDE DEF from
<1>3. ASSUME NEW r \in sel[c].eligible PROVE Ahead(r) \in K /\ place(Ahead(r)) = r
  <2>1. r \in Replica /\ r \in Nat /\ cursor \in Nat /\ ReplicaCount \in Nat
    BY <1>2, <1>3, Replicas
  <2>2. Ahead(r) \in 0..(ReplicaCount - 1) /\ place(Ahead(r)) = r
    BY <1>2, <2>1, Replicas DEF Ahead
  <2> QED
    BY <1>1, <1>3, <2>2
<1>4. PICK o \in K : o = Min(K) /\ \A k \in K : o <= k
  <2>1. K \subseteq Nat /\ K # {}
    BY <1>3
  <2> HIDE DEF K
  <2> QED
    BY <2>1, MinIs
<1>5. Chosen(c) = from(o) /\ from(o) = place(o) /\ o \in 0..(ReplicaCount - 1)
  BY <1>1, <1>4 DEF Chosen, from
<1>6. PICK x \in sel[c].eligible : x = Chosen(c) /\ x = place(o) /\ x \in Replica
  BY <1>2, <1>4, <1>5
<1>7. After(x) = IF x < ReplicaCount THEN x + 1 ELSE 1
  <2>1. PICK n \in Nat \ {0} : n = ReplicaCount
    BY CountAssumption
  <2>2. x \in Nat /\ x < 2 * n /\ x <= n
    BY <1>6, <2>1, Replicas
  <2>3. x % n = IF x < n THEN x ELSE x - n
    BY <2>2, ModWrap
  <2> QED
    BY <2>1, <2>2, <2>3 DEF After
<1>8. After(x) \in Replica
  BY <1>6, <1>7, Replicas
<1>9. ASSUME NEW r \in sel[c].eligible \ {x}, cursor' = After(x) PROVE Ahead(r)' < Ahead(r)
  <2>1. PICK a \in 0..(ReplicaCount - 1) : a = Ahead(r) /\ o <= a /\ place(a) = r
    BY <1>3, <1>4, <1>9
  <2>2. o # a
    BY <1>6, <1>9, <2>1
  <2>3. PICK n \in Nat : n = ReplicaCount /\ n >= 1
    BY Replicas
  <2>4. o \in Nat /\ a \in Nat /\ o < a /\ a < n /\ cursor \in Nat /\ 1 <= cursor /\ cursor <= n
        /\ r \in Nat /\ 1 <= r /\ r <= n /\ x \in Nat /\ 1 <= x /\ x <= n
    BY <1>2, <1>5, <1>6, <1>9, <2>1, <2>2, <2>3, Replicas
  <2>5. Ahead(r)' = IF r >= cursor' THEN r - cursor' ELSE r - cursor' + ReplicaCount
    BY DEF Ahead
  <2>6. cursor' = IF x < n THEN x + 1 ELSE 1
    BY <1>7, <1>9, <2>3
  <2>7. x = (IF cursor + o <= n THEN cursor + o ELSE cursor + o - n)
        /\ r = (IF cursor + a <= n THEN cursor + a ELSE cursor + a - n)
    BY <1>6, <2>1, <2>3
  <2>8. Ahead(r)' < a
    BY <2>3, <2>4, <2>5, <2>6, <2>7
  <2> QED
    BY <2>1, <2>8
<1> QED
  BY <1>6, <1>8, <1>9

(* A call is accepted.                                                     *)
LEMMA LifeBySubmitBegin ==
  ASSUME LifeInv, NEW c \in Client, SubmitBegin(c)
  PROVE  LifeInv'
<1> USE Roles DEF LifeInv
<1>1. /\ pc[c] = "idle" /\ ~closed /\ calls < MaxRequest /\ calls' = calls + 1
      /\ sel' = [sel EXCEPT ![c] = NoSelection]
      /\ UNCHANGED <<cursor, closed, started, setupLock, exClosed, remaining, shStarted, shClosed,
                     shLock, mgr, load, completions, faults, skipped>>
  BY DEF SubmitBegin, dispVars, execVars, mgrVars
<1>2. Moved(c, "health", 1) /\ 1 \in Replica
  BY Replicas, MovedBy DEF SubmitBegin, ClientPc
<1>3. /\ sel' \in [Client -> Selection] /\ \A d \in Client : d # c => sel'[d] = sel[d]
      /\ sel'[c].eligible = {}
  <2>1. NoSelection \in Selection /\ NoSelection.eligible = {}
    BY CountAssumption DEF NoSelection, Selection
  <2> QED
    BY <1>1, <2>1 DEF TypeOK, Selection
<1>4. SetupInv' /\ SharedInv' /\ CloseInv'
  BY <1>1, <1>2, ClientMove DEF ClientPc
<1>5. TypeOK'
  <2>1. \A t \in Thread : /\ t \in Client => pc'[t] \in ClientPc
                          /\ t \in Starter => pc'[t] \in StarterPc
                          /\ t \in Closer => pc'[t] \in CloserPc
    BY <1>2 DEF TypeOK, Moved, ClientPc
  <2>2. calls' \in 0..MaxRequest
    BY <1>1, CountAssumption DEF TypeOK
  <2> QED
    BY <1>1, <1>2, <1>3, <2>1, <2>2 DEF TypeOK, Moved, Selection
<1>6. BoundInv'
  <2>1. Busy' \subseteq Busy \cup {c} /\ Choosing' \subseteq Choosing \cup {c}
    BY <1>2 DEF Busy, Choosing, Moved
  <2>2. Cardinality(Busy') <= Cardinality(Busy) + 1 /\ Cardinality(Choosing') <= Cardinality(Choosing) + 1
    BY <2>1, CallersCount DEF Busy, Choosing
  <2>3. PICK m \in Nat, n \in Nat, m1 \in Nat, n1 \in Nat :
          /\ m = Cardinality(Busy) /\ n = Cardinality(Choosing)
          /\ m1 = Cardinality(Busy') /\ n1 = Cardinality(Choosing')
    BY CallersFinite DEF Busy, Choosing
  <2>4. ASSUME NEW r \in Replica
        PROVE  load'[r] + Cardinality(Busy') <= calls' /\ skipped'[r] + Cardinality(Choosing') <= calls'
    <3>1. load[r] + m <= calls /\ skipped[r] + n <= calls
      BY <2>3 DEF BoundInv
    <3>2. load[r] \in Nat /\ skipped[r] \in Nat /\ calls \in Nat
      BY CountAssumption DEF TypeOK
    <3> QED
      BY <1>1, <2>2, <2>3, <3>1, <3>2
  <2> QED
    BY <2>4 DEF BoundInv
<1>7. LoopInv'
  BY <1>2, <1>3 DEF LoopInv, Moved
<1> QED
  BY <1>4, <1>5, <1>6, <1>7

(* A replica is chosen, and the other eligible ones are passed over.       *)
LEMMA LifeByPick ==
  ASSUME LifeInv, NEW c \in Client, Pick(c)
  PROVE  LifeInv'
<1> USE Roles DEF LifeInv
<1>1. /\ pc[c] = "pick" /\ sel[c].eligible # {} /\ cursor' = After(Chosen(c))
      /\ skipped' = [r \in Replica |->
                       IF r \in sel[c].eligible \ {Chosen(c)} THEN skipped[r] + 1 ELSE 0]
      /\ UNCHANGED <<closed, started, setupLock, exClosed, remaining, shStarted, shClosed,
                     shLock, mgr, load, sel, calls, completions, faults>>
  BY DEF Pick, execVars, mgrVars
<1>2. Chosen(c) \in Replica /\ cursor' \in Replica
  BY <1>1, ChosenIs
<1>3. Moved(c, "submit", Chosen(c))
  BY <1>2, MovedBy DEF Pick, ClientPc
<1>4. SetupInv' /\ SharedInv' /\ CloseInv'
  BY <1>1, <1>2, <1>3, ClientMove DEF ClientPc
<1>5. BoundInv'
  <2>1. Busy' \subseteq Busy /\ Choosing' \subseteq Choosing \ {c} /\ c \in Choosing
    BY <1>1, <1>3 DEF Busy, Choosing, Moved
  <2>2. Cardinality(Busy') <= Cardinality(Busy) /\ Cardinality(Choosing') + 1 <= Cardinality(Choosing)
    BY <2>1, CallersCount DEF Busy, Choosing
  <2>3. PICK m \in Nat, n \in Nat, m1 \in Nat, n1 \in Nat :
          /\ m = Cardinality(Busy) /\ n = Cardinality(Choosing)
          /\ m1 = Cardinality(Busy') /\ n1 = Cardinality(Choosing')
    BY CallersFinite DEF Busy, Choosing
  <2>4. ASSUME NEW r \in Replica
        PROVE  load'[r] + Cardinality(Busy') <= calls' /\ skipped'[r] + Cardinality(Choosing') <= calls'
    <3>1. load[r] + m <= calls /\ skipped[r] + n <= calls
      BY <2>3 DEF BoundInv
    <3>2. load[r] \in Nat /\ skipped[r] \in Nat /\ calls \in Nat
      BY CountAssumption DEF TypeOK
    <3>3. skipped'[r] = skipped[r] + 1 \/ skipped'[r] = 0
      BY <1>1
    <3> QED
      BY <1>1, <2>2, <2>3, <3>1, <3>2, <3>3
  <2> QED
    BY <2>4 DEF BoundInv
<1>6. TypeOK'
  <2>1. \A t \in Thread : /\ t \in Client => pc'[t] \in ClientPc
                          /\ t \in Starter => pc'[t] \in StarterPc
                          /\ t \in Closer => pc'[t] \in CloserPc
    BY <1>3 DEF TypeOK, Moved, ClientPc
  <2>2. skipped' \in [Replica -> 0..MaxRequest]
    <3>1. ASSUME NEW r \in Replica PROVE skipped'[r] \in 0..MaxRequest
      <4>1. PICK n \in Nat : n = Cardinality(Choosing)'
        BY CallersFinite DEF Choosing
      <4>2. skipped'[r] + n <= calls' /\ calls' \in 0..MaxRequest
        BY <1>1, <1>5, <4>1 DEF BoundInv, TypeOK
      <4>3. skipped'[r] \in Nat
        BY <1>1, CountAssumption DEF TypeOK
      <4> QED
        BY <4>1, <4>2, <4>3, CountAssumption
    <3> QED
      BY <1>1, <3>1
  <2> QED
    BY <1>1, <1>2, <1>3, <2>1, <2>2 DEF TypeOK, Moved
<1>7. LoopInv'
  BY <1>1, <1>3 DEF LoopInv, Moved
<1> QED
  BY <1>4, <1>5, <1>6, <1>7

(* The supervisor accepts the request, or refuses it.                      *)
LEMMA LifeByManagerSubmit ==
  ASSUME LifeInv, NEW c \in Client, ManagerSubmit(c)
  PROVE  LifeInv'
<1> USE Roles DEF LifeInv
<1>1. /\ pc[c] = "send" /\ Goto(c, "idle")
      /\ load' = IF mgr = "running" THEN [load EXCEPT ![idx[c]] = @ + 1] ELSE load
      /\ UNCHANGED <<cursor, closed, started, setupLock, exClosed, remaining, shStarted, shClosed,
                     shLock, mgr, idx, sel, calls, completions, faults, skipped>>
  BY DEF ManagerSubmit, dispVars, execVars, histVars
<1>2. idx[c] \in Replica /\ Moved(c, "idle", idx[c])
  BY <1>1, MovedBy DEF ClientPc, TypeOK
<1>3. SetupInv' /\ SharedInv' /\ CloseInv'
  BY <1>1, <1>2, ClientMove DEF ClientPc
<1>4. \A r \in Replica : load'[r] \in {load[r], load[r] + 1} /\ load[r] \in Nat /\ load'[r] \in Nat
  BY <1>1, <1>2, CountAssumption DEF TypeOK
<1>5. BoundInv'
  <2>1. Busy' \subseteq Busy \ {c} /\ c \in Busy /\ Choosing' \subseteq Choosing
    BY <1>1, <1>2 DEF Busy, Choosing, Moved
  <2>2. Cardinality(Busy') + 1 <= Cardinality(Busy) /\ Cardinality(Choosing') <= Cardinality(Choosing)
    BY <2>1, CallersCount DEF Busy, Choosing
  <2>3. PICK m \in Nat, n \in Nat, m1 \in Nat, n1 \in Nat :
          /\ m = Cardinality(Busy) /\ n = Cardinality(Choosing)
          /\ m1 = Cardinality(Busy') /\ n1 = Cardinality(Choosing')
    BY CallersFinite DEF Busy, Choosing
  <2>4. ASSUME NEW r \in Replica
        PROVE  load'[r] + Cardinality(Busy') <= calls' /\ skipped'[r] + Cardinality(Choosing') <= calls'
    <3>1. load[r] + m <= calls /\ skipped[r] + n <= calls
      BY <2>3 DEF BoundInv
    <3>2. skipped[r] \in Nat /\ calls \in Nat
      BY CountAssumption DEF TypeOK
    <3> QED
      BY <1>1, <1>4, <2>2, <2>3, <3>1, <3>2
  <2> QED
    BY <2>4 DEF BoundInv
<1>6. TypeOK'
  <2>1. \A t \in Thread : /\ t \in Client => pc'[t] \in ClientPc
                          /\ t \in Starter => pc'[t] \in StarterPc
                          /\ t \in Closer => pc'[t] \in CloserPc
    BY <1>2 DEF TypeOK, Moved, ClientPc
  <2>2. load' \in [Replica -> 0..MaxRequest]
    <3>1. ASSUME NEW r \in Replica PROVE load'[r] \in 0..MaxRequest
      <4>1. PICK n \in Nat : n = Cardinality(Busy)'
        BY CallersFinite DEF Busy
      <4>2. load'[r] + n <= calls' /\ calls' \in 0..MaxRequest
        BY <1>1, <1>5, <4>1 DEF BoundInv, TypeOK
      <4> QED
        BY <1>4, <4>1, <4>2, CountAssumption
    <3>2. load' \in [Replica -> Nat]
      BY <1>1, <1>2, CountAssumption DEF TypeOK
    <3> QED
      BY <3>1, <3>2
  <2> QED
    BY <1>1, <1>2, <2>1, <2>2 DEF TypeOK, Moved
<1>7. LoopInv'
  BY <1>1, <1>2 DEF LoopInv, Moved
<1> QED
  BY <1>3, <1>5, <1>6, <1>7

-----------------------------------------------------------------------------
(* Steps of setup(), of close() and of the supervisor leave the callers    *)
(* where they are.                                                         *)
LEMMA CallersKeep ==
  ASSUME LifeInv, \A c \in Client : pc'[c] = pc[c] /\ idx'[c] = idx[c],
         UNCHANGED <<sel, calls, skipped>>,
         \A r \in Replica : load'[r] \in Nat /\ load'[r] <= load[r]
  PROVE  BoundInv' /\ LoopInv'
<1> USE DEF LifeInv
<1>1. Busy' \subseteq Busy /\ Choosing' \subseteq Choosing
  BY DEF Busy, Choosing
<1>2. BoundInv'
  BY <1>1, BoundKeeps
<1>3. LoopInv'
  BY DEF LoopInv
<1> QED
  BY <1>2, <1>3

(* A thread that moves within its role is at a point of its call.          *)
LEMMA PlacesKeep ==
  ASSUME TypeOK, NEW t \in Thread, NEW label, NEW i, Moved(t, label, i),
         /\ t \in Client => label \in ClientPc
         /\ t \in Starter => label \in StarterPc
         /\ t \in Closer => label \in CloserPc
  PROVE  \A u \in Thread : /\ u \in Client => pc'[u] \in ClientPc
                           /\ u \in Starter => pc'[u] \in StarterPc
                           /\ u \in Closer => pc'[u] \in CloserPc
  BY DEF TypeOK, Moved

(* Loads that do not change.                                               *)
LEMMA LoadsStay ==
  ASSUME TypeOK, UNCHANGED load
  PROVE  \A r \in Replica : load'[r] \in Nat /\ load'[r] <= load[r]
  BY CountAssumption DEF TypeOK

(* A thread that starts the executors moves on; SharedInv is what can be   *)
(* at stake.                                                               *)
LEMMA StartKeeps ==
  ASSUME LifeInv, NEW t \in Thread, pc[t] \in {"start", "shared", "starting"}, NEW label, NEW i \in Replica,
         Moved(t, label, i), SharedInv',
         /\ t \in Client => label \in {"idle", "shared", "starting", "send"}
         /\ t \in Manager => label \in {"start", "shared", "starting", "started", "setupFailed"},
         mgr' = mgr \/ ~shClosed,
         mgr' \in {"created", "starting", "running", "stopped", "failed"},
         shLock' \in Thread \cup {None}, shStarted' \in BOOLEAN, faults' \in 0..MaxFaults,
         UNCHANGED <<cursor, closed, started, setupLock, exClosed, remaining, shClosed, load, sel,
                     calls, completions, skipped>>
  PROVE  LifeInv'
<1> USE Roles DEF LifeInv
<1>1. t \notin Closer
  BY DEF TypeOK, CloserPc
<1>2. TypeOK'
  <2>1. \A u \in Thread : /\ u \in Client => pc'[u] \in ClientPc
                          /\ u \in Starter => pc'[u] \in StarterPc
                          /\ u \in Closer => pc'[u] \in CloserPc
    BY <1>1, PlacesKeep DEF ClientPc, StarterPc
  <2> QED
    BY <2>1 DEF TypeOK, Moved
<1>3. \A u \in Manager : u # t => pc'[u] = pc[u] /\ idx'[u] = idx[u]
  BY DEF Moved
<1>4. t \in Manager => /\ pc'[t] = label /\ t \in Starter /\ setupLock = t /\ ~closed
                       /\ label \in {"start", "shared", "starting", "started", "setupFailed"}
  BY <1>1 DEF Moved, SetupInv
<1>5. SetupInv'
  BY <1>3, <1>4 DEF SetupInv
<1>6. CloseInv'
  <2>1. \A u \in Manager : pc'[u] \in ClosingPc \cup {"raised", "done"} <=> pc[u] \in ClosingPc \cup {"raised", "done"}
    BY <1>3, <1>4 DEF ClosingPc
  <2>2. \A u \in Manager : pc'[u] \in ClosingPc \cup {"raised", "done"} =>
          pc'[u] = pc[u] /\ idx'[u] = idx[u]
    BY <1>3, <1>4 DEF ClosingPc
  <2>3. closed /\ (\A u \in Manager : pc'[u] \notin ClosingPc) => mgr' \in {"stopped", "failed"}
    BY <2>1, <1>3, <1>4 DEF CloseInv, ClosingPc
  <2> QED
    BY <2>1, <2>2, <2>3 DEF CloseInv, ClosingPc
<1>7. BoundInv'
  <2>1. Busy' \subseteq Busy /\ Choosing' \subseteq Choosing
    BY DEF Busy, Choosing, Moved
  <2> QED
    BY <2>1, LoadsStay, BoundKeeps
<1>8. LoopInv'
  BY DEF LoopInv, Moved
<1> QED
  BY <1>2, <1>5, <1>6, <1>7, <1>8

(* Where a start() of an executor leads.                                   *)
LEMMA ProceedIs ==
  ASSUME LifeInv, NEW t \in Thread, pc[t] \in {"shared", "starting"}, Proceed(t)
  PROVE  \E label, i : /\ i \in Replica /\ Moved(t, label, i)
                       /\ t \in Client => label = "send"
                       /\ t \in Manager => label \in {"start", "started"}
<1> USE Roles DEF LifeInv
<1>1. idx[t] \in Replica /\ t \notin Closer
  BY DEF TypeOK, CloserPc
<1>2. CASE t \in Client
  <2>1. Goto(t, "send") /\ idx' = idx
    BY <1>2 DEF Proceed
  <2>2. Moved(t, "send", idx[t])
    BY <2>1, MovedBy DEF ClientPc
  <2> QED
    BY <1>1, <1>2, <2>2
<1>3. CASE t \in Starter /\ idx[t] < ReplicaCount
  <2>1. At(t, idx[t] + 1) /\ Goto(t, "start")
    BY <1>3 DEF Proceed
  <2>2. idx[t] + 1 \in Replica
    BY <1>1, <1>3, Replicas
  <2>3. Moved(t, "start", idx[t] + 1)
    BY <2>1, <2>2, MovedBy DEF ClientPc
  <2> QED
    BY <1>3, <2>2, <2>3
<1>4. CASE t \notin Client /\ ~(t \in Starter /\ idx[t] < ReplicaCount)
  <2>1. Goto(t, "started") /\ idx' = idx
    BY <1>4 DEF Proceed
  <2>2. Moved(t, "started", idx[t])
    BY <2>1, MovedBy DEF StarterPc
  <2> QED
    BY <1>1, <1>4, <2>2
<1> QED
  BY <1>2, <1>3, <1>4

(* Where a failed one leads.                                               *)
LEMMA AbortIs ==
  ASSUME LifeInv, NEW t \in Thread, Abort(t)
  PROVE  \E label, i : /\ i \in Replica /\ Moved(t, label, i)
                       /\ t \in Client => label = "idle"
                       /\ t \in Manager => label = "setupFailed"
<1> USE Roles DEF LifeInv
<1>1. idx[t] \in Replica /\ idx' = idx
  BY DEF TypeOK, Abort
<1>2. CASE t \in Client
  <2>1. Moved(t, "idle", idx[t])
    BY <1>1, <1>2, MovedBy DEF Abort, ClientPc
  <2> QED
    BY <1>1, <1>2, <2>1
<1>3. CASE t \notin Client
  <2>1. Moved(t, "setupFailed", idx[t])
    BY <1>1, <1>3, MovedBy DEF Abort, StarterPc
  <2> QED
    BY <1>1, <1>3, <2>1
<1> QED
  BY <1>2, <1>3

(* Only the place of a thread outside the lock changes.                    *)
LEMMA SharedStays ==
  ASSUME SharedInv, NEW t \in Thread, NEW label, NEW i, Moved(t, label, i),
         pc[t] # "starting", label # "starting", UNCHANGED <<shLock, mgr, shClosed, load>>
  PROVE  SharedInv'
  BY DEF SharedInv, Moved

(* MultiprocessExecutor.start by setup(), and _SharedManager.start.        *)
LEMMA LifeByStart ==
  ASSUME LifeInv, NEW t \in Thread, ExecutorStart(t) \/ SharedStart(t)
  PROVE  LifeInv'
<1> USE Roles DEF LifeInv
<1>1. /\ pc[t] \in {"start", "shared"}
      /\ UNCHANGED <<cursor, closed, started, setupLock, exClosed, remaining, shStarted, shClosed,
                     load, sel, calls, completions, faults, skipped>>
  BY DEF ExecutorStart, SharedStart, dispVars, execVars, mgrVars, histVars
<1>2. /\ mgr \in {"created", "starting", "running", "stopped", "failed"}
      /\ shLock \in Thread \cup {None} /\ shStarted' \in BOOLEAN /\ faults' \in 0..MaxFaults
      /\ idx[t] \in Replica
  BY <1>1 DEF TypeOK
<1>3. CASE Abort(t) /\ UNCHANGED <<shLock, mgr>>
  <2>1. PICK label, i : /\ i \in Replica /\ Moved(t, label, i)
                        /\ t \in Client => label = "idle"
                        /\ t \in Manager => label = "setupFailed"
    BY <1>3, AbortIs
  <2>2. SharedInv'
    BY <1>1, <1>3, <2>1, SharedStays
  <2> QED
    BY <1>1, <1>2, <1>3, <2>1, <2>2, StartKeeps
<1>4. CASE pc[t] = "start" /\ Goto(t, "shared") /\ UNCHANGED idx /\ UNCHANGED <<shLock, mgr>>
  <2>1. Moved(t, "shared", idx[t])
    BY <1>4, MovedBy DEF ClientPc
  <2>2. SharedInv'
    BY <1>1, <1>4, <2>1, SharedStays
  <2> QED
    BY <1>1, <1>2, <1>4, <2>1, <2>2, StartKeeps
<1>5. CASE pc[t] = "shared" /\ Proceed(t) /\ UNCHANGED <<shLock, mgr>>
  <2>1. PICK label, i : /\ i \in Replica /\ Moved(t, label, i)
                        /\ t \in Client => label = "send"
                        /\ t \in Manager => label \in {"start", "started"}
    BY <1>5, ProceedIs
  <2>2. SharedInv'
    BY <1>1, <1>5, <2>1, SharedStays
  <2> QED
    BY <1>1, <1>2, <1>5, <2>1, <2>2, StartKeeps
<1>6. CASE /\ shLock = None /\ ~shClosed /\ mgr = "created" /\ shLock' = t /\ mgr' = "starting"
           /\ Goto(t, "starting") /\ UNCHANGED idx
  <2>1. Moved(t, "starting", idx[t])
    BY <1>6, MovedBy DEF ClientPc
  <2>2. SharedInv'
    BY <1>1, <1>6, <2>1 DEF SharedInv, Moved
  <2> QED
    BY <1>1, <1>2, <1>6, <2>1, <2>2, StartKeeps
<1>7. ExecutorStart(t) => UNCHANGED <<shLock, mgr>>
  BY DEF ExecutorStart, execVars, mgrVars
<1> QED
  BY <1>3, <1>4, <1>5, <1>6, <1>7 DEF ExecutorStart, SharedStart, MayStart

(* WorkerSupervisor.start returns or raises.                               *)
LEMMA LifeByStarted ==
  ASSUME LifeInv, NEW t \in Thread, StartSucceeds(t) \/ StartFails(t)
  PROVE  LifeInv'
<1> USE Roles DEF LifeInv
<1>1. /\ pc[t] = "starting" /\ shLock' = None /\ mgr' \in {"running", "failed"}
      /\ UNCHANGED <<cursor, closed, started, setupLock, exClosed, remaining, shClosed, load, sel,
                     calls, completions, skipped>>
  BY DEF StartSucceeds, StartFails, dispVars, histVars
<1>2. shLock = t /\ mgr = "starting" /\ ~shClosed /\ \A r \in Replica : load[r] = 0
  BY <1>1 DEF SharedInv
<1>3. shStarted' \in BOOLEAN /\ faults' \in 0..MaxFaults
  <2>1. CASE StartSucceeds(t)
    BY <2>1 DEF StartSucceeds, TypeOK, histVars
  <2>2. CASE StartFails(t)
    BY <2>2, CountAssumption DEF StartFails, TypeOK
  <2> QED
    BY <2>1, <2>2
<1>4. PICK label, i : /\ i \in Replica /\ Moved(t, label, i)
                      /\ t \in Client => label \in {"send", "idle"}
                      /\ t \in Manager => label \in {"start", "started", "setupFailed"}
  <2>1. CASE Proceed(t)
    BY <1>1, <2>1, ProceedIs
  <2>2. CASE Abort(t)
    BY <2>2, AbortIs
  <2> QED
    BY <2>1, <2>2 DEF StartSucceeds, StartFails
<1>5. SharedInv'
  <2>1. \A u \in Thread : pc'[u] # "starting"
    BY <1>2, <1>4 DEF SharedInv, Moved
  <2> QED
    BY <1>1, <1>2, <2>1 DEF SharedInv
<1> QED
  BY <1>1, <1>2, <1>3, <1>4, <1>5, StartKeeps

(* A step of setup() or close() that does not touch the supervisor: its    *)
(* types hold, and what else is at stake are the lock and the progress of  *)
(* close().                                                                *)
LEMMA ManagerKeeps ==
  ASSUME LifeInv, NEW t \in Manager, NEW label, NEW i \in Replica, Moved(t, label, i),
         pc[t] # "starting", label # "starting",
         /\ t \in Starter => label \in StarterPc
         /\ t \in Closer => label \in CloserPc,
         setupLock' \in Manager \cup {None}, closed' \in BOOLEAN, started' \in BOOLEAN,
         exClosed' \subseteq Replica, remaining' \in 0..ReplicaCount, shClosed' \in BOOLEAN,
         shLock = None \/ UNCHANGED shClosed,
         UNCHANGED <<cursor, shStarted, shLock, mgr, load, sel, calls, completions, faults, skipped>>
  PROVE  TypeOK' /\ SharedInv' /\ BoundInv' /\ LoopInv'
<1> USE Roles DEF LifeInv
<1>1. TypeOK'
  <2>1. \A u \in Thread : /\ u \in Client => pc'[u] \in ClientPc
                          /\ u \in Starter => pc'[u] \in StarterPc
                          /\ u \in Closer => pc'[u] \in CloserPc
    BY PlacesKeep
  <2> QED
    BY <2>1 DEF TypeOK, Moved, Manager
<1>2. SharedInv'
  BY DEF SharedInv, Moved
<1>3. BoundInv' /\ LoopInv'
  <2>1. \A c \in Client : pc'[c] = pc[c] /\ idx'[c] = idx[c]
    BY DEF Moved
  <2> QED
    BY <2>1, LoadsStay, CallersKeep
<1> QED
  BY <1>1, <1>2, <1>3

(* The lock is taken by a thread outside, or given back by its holder.     *)
LEMMA SetupLockMoves ==
  ASSUME LifeInv, NEW t \in Manager, NEW label, NEW i, Moved(t, label, i),
         \/ setupLock = None /\ setupLock' = t /\ label \notin {"idle", "ready", "raised", "done"}
         \/ setupLock = None /\ setupLock' = None /\ label \in {"ready", "raised", "done"}
         \/ setupLock = t /\ setupLock' = t /\ label \notin {"idle", "ready", "raised", "done"}
         \/ setupLock = t /\ setupLock' = None /\ label \in {"ready", "raised", "done"}
  PROVE  /\ \A u \in Manager : pc'[u] \notin {"idle", "ready", "raised", "done"} <=> setupLock' = u
         /\ \A u \in Manager : u # t => /\ pc[u] \in {"idle", "ready", "raised", "done"}
                                       /\ pc'[u] = pc[u] /\ idx'[u] = idx[u]
  BY Roles DEF LifeInv, SetupInv, Moved

(* setup() begins, ends well, or begins to close what it has started.      *)
LEMMA LifeBySetup ==
  ASSUME LifeInv, NEW t \in Thread, (t \in Starter /\ SetupBegin(t)) \/ SetupDone(t)
  PROVE  LifeInv'
<1> USE Roles DEF LifeInv
<1>1. UNCHANGED <<cursor, closed, exClosed, remaining, shStarted, shClosed, shLock, mgr, load, sel,
                  calls, completions, faults, skipped>>
  BY DEF SetupBegin, SetupDone, execVars, mgrVars, histVars
<1>2. t \in Starter /\ idx[t] \in Replica
  BY DEF SetupDone, TypeOK, ClientPc, CloserPc
<1>3. PICK label, i :
        /\ i \in Replica /\ Moved(t, label, i)
        /\ \/ label = "raised" /\ closed /\ setupLock = None /\ setupLock' = None /\ pc[t] = "idle"
           \/ label = "ready" /\ setupLock = None /\ setupLock' = None /\ pc[t] = "idle"
           \/ label = "start" /\ ~closed /\ setupLock = None /\ setupLock' = t /\ pc[t] = "idle"
           \/ label = "ready" /\ setupLock = t /\ setupLock' = None /\ pc[t] = "started"
  <2>1. CASE SetupBegin(t) /\ (closed \/ started)
    <3>1. PICK label \in {"raised", "ready"} :
            /\ Goto(t, label) /\ idx' = idx /\ setupLock' = setupLock /\ setupLock = None
            /\ pc[t] = "idle" /\ (label = "raised" => closed)
      BY <2>1 DEF SetupBegin
    <3>2. Moved(t, label, idx[t])
      BY <1>2, <3>1, MovedBy DEF StarterPc
    <3> QED
      BY <1>2, <3>1, <3>2
  <2>2. CASE SetupBegin(t) /\ ~(closed \/ started)
    <3>1. Moved(t, "start", 1) /\ 1 \in Replica
      BY <1>2, <2>2, MovedBy, Replicas DEF SetupBegin, StarterPc
    <3> QED
      BY <2>2, <3>1 DEF SetupBegin
  <2>3. CASE SetupDone(t)
    <3>1. Moved(t, "ready", idx[t])
      BY <1>2, <2>3, MovedBy DEF SetupDone, StarterPc
    <3>2. setupLock = t
      BY <1>2, <2>3 DEF SetupDone, SetupInv
    <3> QED
      BY <1>2, <2>3, <3>1, <3>2 DEF SetupDone
  <2> QED
    BY <2>1, <2>2, <2>3
<1>4. started' \in BOOLEAN
  BY DEF SetupBegin, SetupDone, TypeOK
<1>5. TypeOK' /\ SharedInv' /\ BoundInv' /\ LoopInv'
  <2>1. /\ setupLock' \in Manager \cup {None} /\ closed' \in BOOLEAN /\ exClosed' \subseteq Replica
        /\ remaining' \in 0..ReplicaCount /\ shClosed' \in BOOLEAN
    BY <1>1, <1>2, <1>3 DEF TypeOK
  <2>2. label \in StarterPc /\ label # "starting" /\ pc[t] # "starting"
    BY <1>3 DEF StarterPc
  <2> QED
    BY <1>1, <1>2, <1>3, <1>4, <2>1, <2>2, ManagerKeeps
<1>6. /\ \A u \in Manager : pc'[u] \notin {"idle", "ready", "raised", "done"} <=> setupLock' = u
      /\ \A u \in Manager : u # t => /\ pc[u] \in {"idle", "ready", "raised", "done"}
                                    /\ pc'[u] = pc[u] /\ idx'[u] = idx[u]
  BY <1>2, <1>3, SetupLockMoves
<1>7. pc'[t] = label
  BY <1>3 DEF Moved
<1>8. SetupInv'
  BY <1>1, <1>3, <1>6, <1>7 DEF SetupInv
<1>9. CloseInv'
  <2>1. \A u \in Manager : pc'[u] \notin ClosingPc /\ pc[u] \notin ClosingPc
    BY <1>3, <1>6, <1>7 DEF ClosingPc
  <2> QED
    BY <1>1, <1>3, <1>6, <1>7, <2>1 DEF CloseInv, ClosingPc
<1> QED
  BY <1>5, <1>8, <1>9

(* close() begins, or setup() has failed and closes.                       *)
LEMMA LifeByClosing ==
  ASSUME LifeInv, NEW t \in Thread, (t \in Closer /\ CloseBegin(t)) \/ SetupFailed(t)
  PROVE  LifeInv'
<1> USE Roles DEF LifeInv
<1>1. UNCHANGED <<cursor, started, exClosed, remaining, shStarted, shClosed, shLock, mgr, load, sel,
                  calls, completions, faults, skipped>>
  BY DEF CloseBegin, SetupFailed, execVars, mgrVars, histVars
<1>2. t \in Manager /\ idx[t] \in Replica
  BY DEF SetupFailed, TypeOK, ClientPc
<1>3. CASE closed /\ t \in Closer /\ CloseBegin(t)
  <2>1. Moved(t, "done", idx[t]) /\ setupLock = None /\ setupLock' = None /\ closed' = closed /\ pc[t] = "idle"
    BY <1>2, <1>3, MovedBy DEF CloseBegin, CloserPc
  <2>2. TypeOK' /\ SharedInv' /\ BoundInv' /\ LoopInv'
    <3>1. /\ setupLock' \in Manager \cup {None} /\ closed' \in BOOLEAN /\ exClosed' \subseteq Replica
          /\ remaining' \in 0..ReplicaCount /\ shClosed' \in BOOLEAN /\ started' \in BOOLEAN
      BY <1>1, <2>1 DEF TypeOK
    <3> QED
      BY <1>1, <1>2, <1>3, <2>1, <3>1, ManagerKeeps DEF CloserPc
  <2>3. /\ \A u \in Manager : pc'[u] \notin {"idle", "ready", "raised", "done"} <=> setupLock' = u
        /\ \A u \in Manager : u # t => /\ pc[u] \in {"idle", "ready", "raised", "done"}
                                      /\ pc'[u] = pc[u] /\ idx'[u] = idx[u]
    BY <1>2, <2>1, SetupLockMoves
  <2>4. pc'[t] = "done"
    BY <1>2, <2>1 DEF Moved
  <2>5. SetupInv'
    BY <1>3, <2>1, <2>3, <2>4 DEF SetupInv
  <2>6. CloseInv'
    <3>1. \A u \in Manager : pc'[u] \notin ClosingPc /\ pc[u] \notin ClosingPc
      BY <2>1, <2>3, <2>4 DEF ClosingPc
    <3> QED
      BY <1>1, <1>3, <2>1, <2>3, <2>4, <3>1 DEF CloseInv, ClosingPc
  <2> QED
    BY <2>2, <2>5, <2>6
<1>4. CASE (~closed /\ t \in Closer /\ CloseBegin(t)) \/ SetupFailed(t)
  <2>1. /\ Goto(t, "close") /\ At(t, ReplicaCount) /\ ~closed /\ closed' = TRUE /\ setupLock' = t
        /\ setupLock \in {None, t} /\ pc[t] # "starting"
    <3>1. CASE ~closed /\ t \in Closer /\ CloseBegin(t)
      BY <3>1 DEF CloseBegin
    <3>2. CASE SetupFailed(t)
      <4>1. t \in Starter /\ pc[t] = "setupFailed"
        BY <3>2 DEF SetupFailed, TypeOK, ClientPc, CloserPc
      <4>2. setupLock = t /\ ~closed
        BY <4>1 DEF SetupInv
      <4> QED
        BY <3>2, <4>1, <4>2 DEF SetupFailed
    <3> QED
      BY <1>4, <3>1, <3>2
  <2>2. Moved(t, "close", ReplicaCount) /\ ReplicaCount \in Replica
    BY <1>2, <2>1, MovedBy, Replicas DEF CloserPc
  <2>3. TypeOK' /\ SharedInv' /\ BoundInv' /\ LoopInv'
    <3>1. /\ setupLock' \in Manager \cup {None} /\ closed' \in BOOLEAN /\ exClosed' \subseteq Replica
          /\ remaining' \in 0..ReplicaCount /\ shClosed' \in BOOLEAN /\ started' \in BOOLEAN
      BY <1>1, <1>2, <2>1 DEF TypeOK
    <3> QED
      BY <1>1, <1>2, <2>1, <2>2, <3>1, ManagerKeeps DEF CloserPc, StarterPc
  <2>4. /\ \A u \in Manager : pc'[u] \notin {"idle", "ready", "raised", "done"} <=> setupLock' = u
        /\ \A u \in Manager : u # t => /\ pc[u] \in {"idle", "ready", "raised", "done"}
                                      /\ pc'[u] = pc[u] /\ idx'[u] = idx[u]
    BY <1>2, <2>1, <2>2, SetupLockMoves
  <2>5. pc'[t] = "close" /\ idx'[t] = ReplicaCount
    BY <1>2, <2>2 DEF Moved
  <2>6. SetupInv'
    BY <2>4, <2>5 DEF SetupInv
  <2>7. CloseInv'
    <3>1. exClosed = {} /\ remaining = ReplicaCount /\ ~shClosed
      BY <2>1 DEF CloseInv
    <3>2. (ReplicaCount + 1)..ReplicaCount = {}
      BY Replicas
    <3>3. \A u \in Manager : u # t => pc'[u] \notin ClosingPc \cup {"raised", "done"}
      BY <2>1, <2>4 DEF CloseInv, ClosingPc
    <3> QED
      BY <1>1, <1>2, <2>1, <2>5, <3>1, <3>2, <3>3 DEF CloseInv, ClosingPc
  <2> QED
    BY <2>3, <2>6, <2>7
<1> QED
  BY <1>3, <1>4

(* One executor is closed, and gives its reference back: the last one      *)
(* closes the manager, another one is followed by its predecessor.         *)
LEMMA LifeByRelease ==
  ASSUME LifeInv, NEW t \in Thread, CloseExecutor(t) \/ Release(t)
  PROVE  LifeInv'
<1> USE Roles DEF LifeInv
<1>1. UNCHANGED <<cursor, closed, started, shStarted, shLock, mgr, load, sel, calls, completions,
                  faults, skipped>>
  BY DEF CloseExecutor, Release, dispVars, mgrVars, histVars
<1>2. /\ t \in Manager /\ pc[t] \in {"close", "release"} /\ setupLock = t /\ closed /\ ~shClosed
      /\ idx[t] \in Replica /\ remaining = idx[t]
  <2>1. t \in Manager /\ pc[t] \in {"close", "release"} /\ idx[t] \in Replica
    BY DEF CloseExecutor, Release, TypeOK, ClientPc
  <2> QED
    BY <2>1 DEF SetupInv, CloseInv, ClosingPc
<1>3. PICK n \in Nat : n = idx[t] /\ 1 <= n /\ n <= ReplicaCount /\ ReplicaCount \in Nat
  BY <1>2, Replicas
<1>4. PICK label, i :
        /\ i \in Replica /\ Moved(t, label, i) /\ setupLock' = setupLock
        /\ \/ /\ label = "release" /\ pc[t] = "close" /\ i = n
              /\ exClosed' = exClosed \cup {n} /\ remaining' = remaining /\ shClosed' = shClosed
           \/ /\ label = "managerClose" /\ pc[t] = "release" /\ i = n /\ n = 1 /\ shLock = None
              /\ exClosed' = exClosed /\ remaining' = 0 /\ shClosed' = TRUE
           \/ /\ label = "close" /\ pc[t] = "release" /\ i = n - 1
              /\ exClosed' = exClosed /\ remaining' = n - 1 /\ shClosed' = shClosed
  <2>1. CASE CloseExecutor(t)
    <3>1. Moved(t, "release", idx[t])
      BY <2>1, MovedBy DEF CloseExecutor, CloserPc
    <3> QED
      BY <1>2, <1>3, <2>1, <3>1 DEF CloseExecutor, dispVars
  <2>2. CASE Release(t) /\ n = 1
    <3>1. /\ Goto(t, "managerClose") /\ idx' = idx /\ setupLock' = setupLock /\ shClosed' = TRUE
          /\ remaining' = 0 /\ exClosed' = exClosed /\ shLock = None /\ pc[t] = "release"
      BY <1>2, <1>3, <2>2 DEF Release, LastReference
    <3>2. Moved(t, "managerClose", idx[t])
      BY <3>1, MovedBy DEF CloserPc
    <3> QED
      BY <1>2, <1>3, <2>2, <3>1, <3>2
  <2>3. CASE Release(t) /\ n # 1
    <3>1. /\ Goto(t, "close") /\ At(t, n - 1) /\ setupLock' = setupLock /\ shClosed' = shClosed
          /\ remaining' = n - 1 /\ exClosed' = exClosed /\ pc[t] = "release"
      BY <1>2, <1>3, <2>3 DEF Release, LastReference, CloseNext
    <3>2. n - 1 \in Replica
      BY <1>3, <2>3, Replicas
    <3>3. Moved(t, "close", n - 1)
      BY <3>1, <3>2, MovedBy DEF CloserPc
    <3> QED
      BY <1>2, <1>3, <3>1, <3>2, <3>3
  <2> QED
    BY <2>1, <2>2, <2>3
<1>5. TypeOK' /\ SharedInv' /\ BoundInv' /\ LoopInv'
  <2>1. /\ setupLock' \in Manager \cup {None} /\ closed' \in BOOLEAN /\ started' \in BOOLEAN
        /\ shClosed' \in BOOLEAN
    BY <1>1, <1>2, <1>4 DEF TypeOK
  <2>2. exClosed' \subseteq Replica
    <3>1. exClosed \subseteq Replica /\ n \in Replica
      BY <1>2, <1>3 DEF TypeOK
    <3>2. exClosed' \in {exClosed, exClosed \cup {n}}
      BY <1>4
    <3> QED
      BY <3>1, <3>2
  <2>4. remaining' \in 0..ReplicaCount
    <3>1. remaining' \in {n, 0, n - 1}
      BY <1>2, <1>3, <1>4
    <3> QED
      BY <1>3, <3>1
  <2>3. label \in StarterPc /\ label \in CloserPc /\ label # "starting" /\ pc[t] # "starting"
    BY <1>4 DEF StarterPc, CloserPc
  <2> QED
    BY <1>1, <1>2, <1>4, <2>1, <2>2, <2>3, <2>4, ManagerKeeps
<1>6. /\ \A u \in Manager : pc'[u] \notin {"idle", "ready", "raised", "done"} <=> setupLock' = u
      /\ \A u \in Manager : u # t => /\ pc[u] \in {"idle", "ready", "raised", "done"}
                                    /\ pc'[u] = pc[u] /\ idx'[u] = idx[u]
  BY <1>2, <1>4, SetupLockMoves
<1>7. pc'[t] = label /\ idx'[t] = i
  BY <1>2, <1>4 DEF Moved
<1>8. SetupInv'
  BY <1>2, <1>4, <1>6, <1>7 DEF SetupInv
<1>9. CloseInv'
  <2>1. \A u \in Manager : u # t => pc'[u] \notin ClosingPc \cup {"raised", "done"}
    BY <1>2, <1>6 DEF CloseInv, ClosingPc
  <2>6. /\ pc[t] = "close" => exClosed = (n + 1)..ReplicaCount
        /\ pc[t] = "release" => exClosed = n..ReplicaCount
    BY <1>2, <1>3 DEF CloseInv
  <2>7. n..ReplicaCount = ((n + 1)..ReplicaCount) \cup {n} /\ (n - 1) + 1 = n
    BY <1>3
  <2>2. label = "release" => exClosed' = i..ReplicaCount /\ remaining' = i /\ ~shClosed'
    BY <1>2, <1>3, <1>4, <2>6, <2>7
  <2>3. label = "close" => exClosed' = (i + 1)..ReplicaCount /\ remaining' = i /\ ~shClosed'
    BY <1>2, <1>3, <1>4, <2>6, <2>7
  <2>4. label = "managerClose" => i = 1 /\ exClosed' = Replica /\ remaining' = 0 /\ shClosed'
    BY <1>2, <1>3, <1>4, <2>6 DEF Replica
  <2>5. label \in ClosingPc /\ closed'
    BY <1>1, <1>2, <1>4 DEF ClosingPc
  <2> QED
    BY <1>2, <1>7, <2>1, <2>2, <2>3, <2>4, <2>5 DEF CloseInv, ClosingPc
<1> QED
  BY <1>5, <1>8, <1>9

(* WorkerSupervisor.close has returned, and with it close() or setup().    *)
LEMMA LifeByManagerClose ==
  ASSUME LifeInv, NEW t \in Thread, ManagerClose(t)
  PROVE  LifeInv'
<1> USE Roles DEF LifeInv
<1>1. /\ pc[t] = "managerClose" /\ mgr' \in {"failed", "stopped"} /\ load' = [r \in Replica |-> 0]
      /\ UNCHANGED <<cursor, closed, started, exClosed, remaining, shStarted, shClosed, shLock, sel,
                     calls, completions, faults, skipped>>
  BY DEF ManagerClose, execVars, histVars
<1>2. /\ t \in Manager /\ setupLock = t /\ closed /\ idx[t] = 1
      /\ exClosed = Replica /\ remaining = 0 /\ shClosed
  <2>1. t \in Manager
    BY <1>1 DEF TypeOK, ClientPc
  <2> QED
    BY <1>1, <2>1 DEF SetupInv, CloseInv, ClosingPc
<1>3. PICK label \in {"raised", "done"} :
        /\ Moved(t, label, idx[t]) /\ setupLock' = None
        /\ t \in Starter => label = "raised"
        /\ t \notin Starter => label = "done"
  <2>1. PICK label \in {"raised", "done"} :
          /\ Goto(t, label) /\ setupLock' = None /\ idx' = idx
          /\ t \in Starter => label = "raised"
          /\ t \notin Starter => label = "done"
    BY <1>2 DEF ManagerClose, CloseNext
  <2> QED
    BY <2>1, MovedBy DEF StarterPc, CloserPc
<1>4. /\ \A u \in Manager : pc'[u] \notin {"idle", "ready", "raised", "done"} <=> setupLock' = u
      /\ \A u \in Manager : u # t => /\ pc[u] \in {"idle", "ready", "raised", "done"}
                                    /\ pc'[u] = pc[u] /\ idx'[u] = idx[u]
  BY <1>2, <1>3, SetupLockMoves
<1>5. pc'[t] = label
  BY <1>2, <1>3 DEF Moved
<1>6. TypeOK'
  <2>1. \A u \in Thread : /\ u \in Client => pc'[u] \in ClientPc
                          /\ u \in Starter => pc'[u] \in StarterPc
                          /\ u \in Closer => pc'[u] \in CloserPc
    BY <1>2, <1>3, PlacesKeep DEF StarterPc, CloserPc
  <2>2. load' \in [Replica -> 0..MaxRequest]
    BY <1>1, CountAssumption
  <2> QED
    BY <1>1, <1>3, <2>1, <2>2 DEF TypeOK, Moved
<1>7. SharedInv'
  <2>1. shLock = None
    BY <1>2 DEF SharedInv
  <2>2. \A u \in Thread : pc'[u] # "starting"
    BY <1>3, <2>1 DEF SharedInv, Moved
  <2> QED
    BY <1>1, <2>1, <2>2 DEF SharedInv
<1>8. SetupInv'
  BY <1>4, <1>5 DEF SetupInv
<1>9. CloseInv'
  BY <1>1, <1>2, <1>4, <1>5 DEF CloseInv, ClosingPc
<1>10. BoundInv' /\ LoopInv'
  <2>1. \A c \in Client : pc'[c] = pc[c] /\ idx'[c] = idx[c]
    BY <1>2, <1>3 DEF Moved
  <2>2. \A r \in Replica : load'[r] \in Nat /\ load'[r] <= load[r]
    BY <1>1, CountAssumption DEF TypeOK
  <2> QED
    BY <1>1, <2>1, <2>2, CallersKeep
<1> QED
  BY <1>6, <1>7, <1>8, <1>9, <1>10

(* A request completes, or the supervisor fails.                           *)
LEMMA LifeByManager ==
  ASSUME LifeInv, (\E r \in Replica : ManagerCompletes(r)) \/ ManagerFails
  PROVE  LifeInv'
<1> USE Roles DEF LifeInv
<1>1. UNCHANGED <<cursor, closed, started, setupLock, exClosed, remaining, shStarted, shClosed,
                  shLock, pc, idx, sel, calls, skipped>>
  BY DEF ManagerCompletes, ManagerFails, dispVars, execVars
<1>2. mgr = "running"
  <2>1. ASSUME NEW r \in Replica, ManagerCompletes(r) PROVE mgr = "running"
    BY <2>1 DEF ManagerCompletes, SharedInv
  <2> QED
    BY <2>1 DEF ManagerFails
<1>3. /\ mgr' \in {"running", "failed"} /\ (mgr' # "running" => \A r \in Replica : load'[r] = 0)
      /\ load' \in [Replica -> 0..MaxRequest]
      /\ \A r \in Replica : load'[r] \in Nat /\ load'[r] <= load[r]
      /\ completions' \in 0..MaxCompletions /\ faults' \in 0..MaxFaults
  <2>1. CASE ManagerFails
    BY <2>1, CountAssumption DEF ManagerFails, TypeOK
  <2>2. ASSUME NEW r \in Replica, ManagerCompletes(r)
        PROVE  /\ mgr' = mgr /\ faults' = faults /\ completions' \in 0..MaxCompletions
               /\ load' \in [Replica -> 0..MaxRequest]
               /\ \A x \in Replica : load'[x] \in Nat /\ load'[x] <= load[x]
    <3>1. load[r] \in Nat /\ load[r] > 0 /\ load[r] <= MaxRequest /\ load' = [load EXCEPT ![r] = load[r] - 1]
      BY <2>2, CountAssumption DEF ManagerCompletes, TypeOK
    <3>2. load[r] - 1 \in 0..MaxRequest
      BY <3>1, CountAssumption
    <3>3. load' \in [Replica -> 0..MaxRequest]
      BY <3>1, <3>2 DEF TypeOK
    <3>4. \A x \in Replica : load'[x] = IF x = r THEN load[r] - 1 ELSE load[x]
      BY <3>1 DEF TypeOK
    <3>5. \A x \in Replica : load'[x] \in Nat /\ load'[x] <= load[x]
      BY <3>1, <3>2, <3>4, CountAssumption DEF TypeOK
    <3>6. mgr' = mgr /\ faults' = faults /\ completions' \in 0..MaxCompletions
      BY <2>2, CountAssumption DEF ManagerCompletes, TypeOK
    <3> QED
      BY <3>3, <3>5, <3>6
  <2>3. CASE \E r \in Replica : ManagerCompletes(r)
    BY <1>2, <2>2, <2>3 DEF TypeOK
  <2> QED
    BY <2>1, <2>3
<1>4. TypeOK'
  BY <1>1, <1>3 DEF TypeOK
<1>5. SetupInv'
  BY <1>1 DEF SetupInv
<1>6. SharedInv'
  BY <1>1, <1>2, <1>3 DEF SharedInv
<1>7. CloseInv'
  BY <1>1, <1>2, <1>3 DEF CloseInv
<1>8. BoundInv' /\ LoopInv'
  BY <1>1, <1>3, CallersKeep
<1> QED
  BY <1>4, <1>5, <1>6, <1>7, <1>8

(* Every step keeps the invariant of the life of the deployment.           *)
LEMMA LifeByNext ==
  ASSUME LifeInv, [Next]_vars
  PROVE  LifeInv'
<1>1. CASE \E c \in Client : SubmitBegin(c) \/ Selecting(c)
  BY <1>1, LifeBySubmitBegin, LifeByReadHealth, LifeByReadMinimum, LifeByReadEligible, LifeByPick,
     LifeByClientMoves, LifeByManagerSubmit DEF Selecting
<1>2. CASE \E t \in Thread : Starting(t) \/ StartFails(t) \/ Settling(t)
  BY <1>2, LifeByStart, LifeByStarted, LifeBySetup, LifeByClosing, LifeByRelease, LifeByManagerClose
  DEF Starting, Settling
<1>3. CASE (\E t \in Starter : SetupBegin(t)) \/ (\E t \in Closer : CloseBegin(t))
  BY <1>3, Roles, LifeBySetup, LifeByClosing
<1>4. CASE (\E r \in Replica : ManagerCompletes(r)) \/ ManagerFails
  BY <1>4, LifeByManager
<1>5. CASE UNCHANGED vars
  <2>1. UNCHANGED <<cursor, closed, started, setupLock, exClosed, remaining, shStarted, shClosed,
                    shLock, mgr, load, pc, idx, sel, calls, completions, faults, skipped>>
    BY <1>5 DEF vars, dispVars, execVars, mgrVars, histVars
  <2>2. BoundInv' /\ LoopInv'
    BY <2>1, LoadsStay, CallersKeep DEF LifeInv
  <2>3. TypeOK' /\ SetupInv' /\ SharedInv' /\ CloseInv'
    BY <2>1 DEF LifeInv, TypeOK, SetupInv, SharedInv, CloseInv
  <2> QED
    BY <2>2, <2>3 DEF LifeInv
<1> QED
  BY <1>1, <1>2, <1>3, <1>4, <1>5 DEF Next, Terminated

(* A deployment before its setup.                                          *)
LEMMA LifeAtStart ==
  ASSUME Init
  PROVE  LifeInv
<1> USE Roles, Replicas DEF Init
<1>1. TypeOK
  <2>1. /\ cursor \in Replica /\ setupLock \in Starter \cup Closer \cup {None}
        /\ exClosed \subseteq Replica /\ shLock \in Thread \cup {None}
        /\ mgr \in {"created", "starting", "running", "stopped", "failed"}
    OBVIOUS
  <2>5. closed \in BOOLEAN /\ started \in BOOLEAN /\ shStarted \in BOOLEAN /\ shClosed \in BOOLEAN
    OBVIOUS
  <2>6. remaining \in 0..ReplicaCount
    OBVIOUS
  <2>2. /\ pc \in [Thread -> ClientPc \cup StarterPc \cup CloserPc] /\ idx \in [Thread -> Replica]
        /\ \A t \in Thread : /\ t \in Client => pc[t] \in ClientPc
                             /\ t \in Starter => pc[t] \in StarterPc
                             /\ t \in Closer => pc[t] \in CloserPc
    BY DEF ClientPc, StarterPc, CloserPc
  <2>3. /\ load \in [Replica -> 0..MaxRequest] /\ skipped \in [Replica -> 0..MaxRequest]
        /\ calls \in 0..MaxRequest /\ completions \in 0..MaxCompletions /\ faults \in 0..MaxFaults
    BY CountAssumption
  <2>4. sel \in [Client -> Selection]
    <3>1. NoSelection \in Selection
      BY CountAssumption DEF NoSelection, Selection
    <3> QED
      BY <3>1
  <2> HIDE DEF Init
  <2> QED
    BY <2>1, <2>2, <2>3, <2>4, <2>5, <2>6 DEF TypeOK, Selection
<1>2. SetupInv
  BY DEF SetupInv
<1>3. SharedInv
  BY DEF SharedInv
<1>4. CloseInv
  BY DEF CloseInv, ClosingPc
<1>5. BoundInv
  <2>1. Busy = {} /\ Choosing = {}
    BY DEF Busy, Choosing
  <2>2. Cardinality(Busy) = 0 /\ Cardinality(Choosing) = 0
    BY <2>1, FS_EmptySet
  <2> QED
    BY <2>2 DEF BoundInv
<1>6. LoopInv
  BY DEF LoopInv
<1> QED
  BY <1>1, <1>2, <1>3, <1>4, <1>5, <1>6 DEF LifeInv

(* The invariant holds in every reachable state.                           *)
LEMMA LifeAlways == Spec => []LifeInv
<1>1. Init => LifeInv
  BY LifeAtStart
<1>2. LifeInv /\ [Next]_vars => LifeInv'
  BY LifeByNext
<1> QED
  BY <1>1, <1>2, PTL DEF Spec

-----------------------------------------------------------------------------
(* Executors from a to b.                                                  *)
LEMMA IntervalIs ==
  ASSUME NEW a \in Nat, NEW b \in Nat, a <= b + 1
  PROVE  Cardinality(a..b) = b - a + 1
<1>1. Cardinality(a..b) = IF a > b THEN 0 ELSE b - a + 1
  BY FS_Interval
<1> QED
  BY <1>1

(* The references left are those of the executors that are not closed and  *)
(* that of the one executor that is being closed.                          *)
LEMMA ReferencesAreCounted ==
  ASSUME LifeInv
  PROVE  ReferencesCounted
<1> USE Roles DEF LifeInv
<1> DEFINE Rel == {t \in Thread : pc[t] = "release"}
<1>1. Rel \subseteq Manager
  BY DEF TypeOK, ClientPc
<1>2. PICK N \in Nat : N = ReplicaCount /\ N >= 1
  BY Replicas
<1>3. ASSUME \A t \in Manager : pc[t] # "release" PROVE Cardinality(Rel) = 0
  <2>1. Rel = {}
    BY <1>1, <1>3
  <2> QED
    BY <2>1, FS_EmptySet
<1>4. CASE ~closed
  <2>1. exClosed = {} /\ remaining = N /\ ~shClosed /\ \A t \in Manager : pc[t] # "release"
    BY <1>2, <1>4 DEF CloseInv, ClosingPc
  <2>2. Cardinality(exClosed) = 0 /\ Cardinality(Rel) = 0
    BY <1>3, <2>1, FS_EmptySet
  <2> QED
    BY <1>2, <2>1, <2>2 DEF ReferencesCounted
<1>5. CASE closed /\ \A t \in Manager : pc[t] \notin ClosingPc
  <2>1. exClosed = 1..N /\ remaining = 0 /\ shClosed
    BY <1>2, <1>5 DEF CloseInv, Replica
  <2>2. Cardinality(1..N) = N /\ Cardinality(Rel) = 0
    BY <1>2, <1>3, <1>5, IntervalIs DEF ClosingPc
  <2> QED
    BY <1>2, <2>1, <2>2 DEF ReferencesCounted
<1>6. ASSUME NEW t \in Manager, pc[t] \in ClosingPc PROVE ReferencesCounted
  <2>1. \A u \in Manager : u # t => pc[u] \notin ClosingPc
    BY <1>6 DEF SetupInv, ClosingPc
  <2>2. PICK n \in Nat : n = idx[t] /\ 1 <= n /\ n <= N
    BY <1>2, Replicas DEF TypeOK
  <2>3. CASE pc[t] = "close"
    <3>1. exClosed = (n + 1)..N /\ remaining = n /\ ~shClosed
      BY <1>2, <2>2, <2>3 DEF CloseInv
    <3>2. \A u \in Manager : pc[u] # "release"
      BY <2>1, <2>3 DEF ClosingPc
    <3>3. Cardinality((n + 1)..N) = N - n
      BY <1>2, <2>2, IntervalIs
    <3>4. Cardinality(Rel) = 0
      BY <1>3, <3>2
    <3> QED
      BY <1>2, <2>2, <3>1, <3>3, <3>4 DEF ReferencesCounted
  <2>4. CASE pc[t] = "release"
    <3>1. exClosed = n..N /\ remaining = n /\ ~shClosed
      BY <1>2, <2>2, <2>4 DEF CloseInv
    <3>2. Rel = {t}
      BY <1>1, <2>1, <2>4 DEF ClosingPc
    <3>3. Cardinality(n..N) = N - n + 1
      BY <1>2, <2>2, IntervalIs
    <3>4. Cardinality(Rel) = 1
      BY <3>2, FS_Singleton
    <3> QED
      BY <1>2, <2>2, <3>1, <3>3, <3>4 DEF ReferencesCounted
  <2>5. CASE pc[t] = "managerClose"
    <3>1. exClosed = 1..N /\ remaining = 0 /\ shClosed
      BY <1>2, <2>5 DEF CloseInv, Replica
    <3>2. Cardinality(1..N) = N /\ Cardinality(Rel) = 0
      BY <1>2, <1>3, <2>1, <2>5, IntervalIs DEF ClosingPc
    <3> QED
      BY <1>2, <3>1, <3>2 DEF ReferencesCounted
  <2> QED
    BY <1>6, <2>3, <2>4, <2>5 DEF ClosingPc
<1> QED
  BY <1>4, <1>5, <1>6

(* For any number of replicas and of threads in setup(), submit() and      *)
(* close(): the references of the shared manager count the executors that  *)
(* are open, it is closed with the last one, and once a close() or a       *)
(* failed setup() has returned no lazy start of a late submit() brings the *)
(* workers up again (_SharedManager of executor.py).                       *)
THEOREM LifecycleIsCorrect == Spec => []LifecycleCorrect
<1>1. LifeInv => LifecycleCorrect
  <2>1. LifeInv => ClosedStaysClosed
    BY DEF LifeInv, CloseInv, ClosedStaysClosed, Manager
  <2> QED
    BY <2>1, ReferencesAreCounted DEF LifeInv, LifecycleCorrect
<1> QED
  BY <1>1, LifeAlways, PTL

-----------------------------------------------------------------------------
(* From one place in a round forward to another.                           *)
LEMMA RoundDistance ==
  ASSUME NEW n \in Nat, NEW x \in 1..n, NEW y \in 1..n
  PROVE  /\ (IF x >= y THEN x - y ELSE x - y + n) \in Nat
         /\ (IF x >= y THEN x - y ELSE x - y + n) < n
<1>1. x \in Nat /\ y \in Nat /\ 1 <= x /\ x <= n /\ 1 <= y /\ y <= n
  OBVIOUS
<1>2. CASE x >= y
  BY <1>1, <1>2
<1>3. CASE x < y
  BY <1>1, <1>3
<1> QED
  BY <1>1, <1>2, <1>3

(* Only a choice moves the cursor and counts who is passed over.           *)
LEMMA RotationByNext ==
  ASSUME LifeInv, RotationInv, [Next]_vars
  PROVE  RotationInv'
<1>1. CASE UNCHANGED <<cursor, skipped>>
  BY <1>1 DEF RotationInv, Ahead
<1>2. ASSUME NEW c \in Client, Pick(c) PROVE RotationInv'
  <2>1. /\ sel[c].eligible # {} /\ cursor' = After(Chosen(c))
        /\ skipped' = [r \in Replica |->
                         IF r \in sel[c].eligible \ {Chosen(c)} THEN skipped[r] + 1 ELSE 0]
    BY <1>2 DEF Pick
  <2>2. cursor' \in Replica /\ cursor \in Replica /\ TypeOK
    BY <2>1, ChosenIs DEF LifeInv, TypeOK
  <2>3. ASSUME NEW r \in Replica PROVE skipped'[r] + Ahead(r)' < ReplicaCount
    <3>1. Ahead(r) \in Nat /\ Ahead(r)' \in Nat /\ Ahead(r)' < ReplicaCount /\ ReplicaCount \in Nat
      <4>1. r \in 1..ReplicaCount /\ cursor \in 1..ReplicaCount /\ cursor' \in 1..ReplicaCount
        BY <2>2 DEF Replica
      <4> QED
        BY <4>1, RoundDistance, Replicas DEF Ahead
    <3>2. skipped[r] \in Nat /\ skipped[r] + Ahead(r) < ReplicaCount
      BY <2>2, CountAssumption DEF TypeOK, RotationInv
    <3>3. CASE r \in sel[c].eligible \ {Chosen(c)}
      <4>1. Ahead(r)' < Ahead(r)
        BY <2>1, <2>2, <3>3, ChosenIs
      <4>2. skipped'[r] = skipped[r] + 1
        BY <2>1, <3>3
      <4>3. PICK a \in Nat, b \in Nat : a = Ahead(r) /\ b = Ahead(r)'
        BY <3>1
      <4>4. skipped[r] + 1 + b < ReplicaCount
        BY <3>1, <3>2, <4>1, <4>3
      <4> QED
        BY <4>2, <4>3, <4>4
    <3>4. CASE r \notin sel[c].eligible \ {Chosen(c)}
      <4>1. skipped'[r] = 0
        BY <2>1, <3>4
      <4> QED
        BY <3>1, <4>1
    <3> QED
      BY <3>3, <3>4
  <2> QED
    BY <2>3 DEF RotationInv
<1>3. ASSUME NEW c \in Client, SubmitBegin(c) \/ Selecting(c) PROVE RotationInv'
  BY <1>1, <1>2, <1>3 DEF Selecting, SubmitBegin, ReadHealth, ReadMinimum, ReadEligible, PickAsserts,
     AssertReturns, ExecutorSubmit, ManagerSubmit, dispVars, histVars
<1>4. ASSUME NEW t \in Thread, Starting(t) \/ StartFails(t) \/ Settling(t) PROVE RotationInv'
  BY <1>1, <1>4 DEF Starting, Settling, ExecutorStart, SharedStart, StartSucceeds, StartFails, SetupDone,
     SetupFailed, CloseExecutor, Release, ManagerClose, dispVars, histVars
<1>5. ASSUME NEW t, SetupBegin(t) \/ CloseBegin(t) PROVE RotationInv'
  BY <1>1, <1>5 DEF SetupBegin, CloseBegin, histVars
<1>6. ASSUME NEW r, ManagerCompletes(r) \/ ManagerFails PROVE RotationInv'
  BY <1>1, <1>6 DEF ManagerCompletes, ManagerFails, dispVars
<1>7. CASE UNCHANGED vars
  BY <1>1, <1>7 DEF vars, dispVars, histVars
<1> QED
  BY <1>3, <1>4, <1>5, <1>6, <1>7 DEF Next, Terminated

(* However many callers choose at the same time, and from whatever loads   *)
(* they have read: a replica that is eligible in every choice is passed    *)
(* over fewer times in a row than there are replicas (_select rotates).    *)
THEOREM TiesDoRotate == Spec => []TiesRotate
<1>1. Init => RotationInv
  <2>1. ASSUME Init, NEW r \in Replica PROVE skipped[r] + Ahead(r) < ReplicaCount
    <3>1. skipped[r] = 0 /\ cursor = 1
      BY <2>1 DEF Init
    <3> QED
      BY <3>1, Replicas DEF Ahead
  <2> QED
    BY <2>1 DEF RotationInv
<1>2. LifeInv /\ RotationInv /\ [Next]_vars => RotationInv'
  BY RotationByNext
<1>3. LifeInv /\ RotationInv => TiesRotate
  <2>1. ASSUME LifeInv, RotationInv, NEW r \in Replica PROVE skipped[r] < ReplicaCount
    <3>1. Ahead(r) \in Nat /\ skipped[r] \in Nat /\ ReplicaCount \in Nat
      BY <2>1, Replicas, CountAssumption DEF LifeInv, TypeOK, Ahead
    <3>2. skipped[r] + Ahead(r) < ReplicaCount
      BY <2>1 DEF RotationInv
    <3> QED
      BY <3>1, <3>2
  <2> QED
    BY <2>1 DEF TiesRotate
<1> QED
  BY <1>1, <1>2, <1>3, LifeAlways, PTL DEF Spec

-----------------------------------------------------------------------------
(* Until something fails, completes or is closed, no load shrinks and no   *)
(* executor is closed.                                                     *)
LEMMA QuietIs ==
  ASSUME LifeInv, Undisturbed
  PROVE  \A r \in Replica : Healthy(r) /\ Inflight(r) = load[r]
<1>1. exClosed = {}
  BY DEF LifeInv, CloseInv, Undisturbed
<1> QED
  BY <1>1 DEF Undisturbed, Healthy, Inflight

(* What the callers have read and where they are going outlasts the steps  *)
(* of the others.                                                          *)
LEMMA RouteStays ==
  ASSUME LifeInv, ReadInv, BalanceInv, Undisturbed' => Undisturbed /\ UNCHANGED load,
         \A c \in Client : pc'[c] = pc[c] /\ idx'[c] = idx[c], UNCHANGED sel
  PROVE  ReadInv' /\ BalanceInv'
<1>1. ReadInv'
  BY DEF ReadInv, ReadBy
<1>2. \A r : Heading(r)' = Heading(r)
  BY DEF Heading
<1>3. BalanceInv'
  BY <1>2 DEF BalanceInv
<1> QED
  BY <1>1, <1>3

(* A caller takes a step: whatever it newly heads for is a minimum.        *)
LEMMA RouteByCaller ==
  ASSUME LifeInv, ReadInv, BalanceInv, NEW c \in Client, NEW label, NEW i, Moved(c, label, i),
         Undisturbed' => Undisturbed, UNCHANGED load, \A d \in Client : d # c => sel'[d] = sel[d],
         Undisturbed' => ReadBy(c)',
         Undisturbed' => \A r \in Replica : c \in Heading(r)' =>
           c \in Heading(r) \/ \A s \in Replica : load[r] <= load[s]
  PROVE  ReadInv' /\ BalanceInv'
<1> USE Roles
<1>1. \A d \in Client : d # c => pc'[d] = pc[d] /\ idx'[d] = idx[d] /\ sel'[d] = sel[d]
  BY DEF Moved
<1>2. ReadInv'
  BY <1>1 DEF ReadInv, ReadBy
<1>3. ASSUME Undisturbed', NEW r \in Replica, NEW s \in Replica
      PROVE  load'[r] + Cardinality(Heading(r)') <= load'[s] + Cardinality(Client)
  <2>1. load[r] + Cardinality(Heading(r)) <= load[s] + Cardinality(Client)
    BY <1>3 DEF BalanceInv
  <2>2. PICK h \in Nat, h1 \in Nat, n \in Nat :
          h = Cardinality(Heading(r)) /\ h1 = Cardinality(Heading(r)') /\ n = Cardinality(Client) /\ h1 <= n
    <3>1. Heading(r) \subseteq Client /\ Heading(r)' \subseteq Client
      BY DEF Heading
    <3> QED
      BY <3>1, CallersFinite
  <2>3. load[r] \in Nat /\ load[s] \in Nat /\ load' = load
    BY CountAssumption DEF LifeInv, TypeOK
  <2>4. \A d \in Heading(r)' : d # c => d \in Heading(r)
    BY <1>1 DEF Heading
  <2>5. CASE c \in Heading(r)' => c \in Heading(r)
    <3>1. Heading(r)' \subseteq Heading(r) /\ Heading(r) \subseteq Client /\ Heading(r)' \subseteq Client
      BY <2>4, <2>5 DEF Heading
    <3>2. h1 <= h
      BY <2>2, <3>1, CallersCount
    <3> QED
      BY <2>1, <2>2, <2>3, <3>2
  <2>6. CASE load[r] <= load[s]
    BY <2>2, <2>3, <2>6
  <2> QED
    BY <1>3, <2>5, <2>6
<1> QED
  BY <1>2, <1>3 DEF BalanceInv

(* A caller begins, or leaves the selection.                               *)
LEMMA RouteByMoves ==
  ASSUME LifeInv, ReadInv, BalanceInv, NEW c \in Client,
         SubmitBegin(c) \/ Pick(c) \/ PickAsserts(c) \/ AssertReturns(c) \/ ExecutorSubmit(c)
         \/ ExecutorStart(c) \/ SharedStart(c) \/ StartSucceeds(c) \/ StartFails(c)
  PROVE  ReadInv' /\ BalanceInv'
<1> USE Roles
<1> DEFINE Later == {"submit", "start", "shared", "starting", "send"}
<1>1. TypeOK /\ idx[c] \in Replica
  BY DEF LifeInv, TypeOK
<1>2. CASE SubmitBegin(c)
  <2>1. Moved(c, "health", 1)
    BY <1>1, <1>2, MovedBy, Replicas DEF SubmitBegin, ClientPc
  <2>2. sel'[c] = NoSelection /\ \A d \in Client : d # c => sel'[d] = sel[d]
    BY <1>1, <1>2 DEF SubmitBegin, TypeOK
  <2>3. load' = load /\ (Undisturbed' => Undisturbed)
    BY <1>2 DEF SubmitBegin, Undisturbed, dispVars, mgrVars
  <2>4. pc'[c] = "health" /\ idx'[c] = 1
    BY <2>1 DEF Moved
  <2>5. ReadBy(c)'
    <3>1. 1..(1 - 1) = {}
      OBVIOUS
    <3> QED
      BY <2>2, <2>4, <3>1 DEF ReadBy, NoSelection
  <2>6. \A r : c \notin Heading(r)'
    BY <2>4 DEF Heading
  <2> QED
    BY <2>1, <2>2, <2>3, <2>5, <2>6, RouteByCaller
<1>3. CASE Pick(c)
  <2>1. Chosen(c) \in sel[c].eligible /\ Chosen(c) \in Replica
    BY <1>1, <1>3, ChosenIs DEF Pick
  <2>2. Moved(c, "submit", Chosen(c))
    BY <1>1, <1>3, <2>1, MovedBy DEF Pick, ClientPc
  <2>3. load' = load /\ sel' = sel /\ (Undisturbed' => Undisturbed) /\ pc[c] = "pick"
    BY <1>3 DEF Pick, Undisturbed, mgrVars
  <2>4. pc'[c] = "submit" /\ idx'[c] = Chosen(c)
    BY <2>2 DEF Moved
  <2>5. ReadBy(c)'
    BY <2>4 DEF ReadBy
  <2>6. \A r : c \in Heading(r)' => c \in Heading(r)
    BY <2>1, <2>3, <2>4 DEF Heading
  <2> QED
    BY <2>2, <2>3, <2>5, <2>6, RouteByCaller
<1>4. CASE PickAsserts(c) \/ AssertReturns(c) \/ ExecutorSubmit(c) \/ ExecutorStart(c)
           \/ SharedStart(c) \/ StartSucceeds(c) \/ StartFails(c)
  <2>1. PICK label \in Later \cup {"idle", "asserted"} :
          /\ Goto(c, label) /\ idx' = idx /\ sel' = sel /\ load' = load
          /\ label \in Later => pc[c] \in Later
    <3>1. CASE PickAsserts(c) \/ AssertReturns(c) \/ ExecutorSubmit(c) \/ ExecutorStart(c)
      BY <3>1 DEF PickAsserts, AssertReturns, ExecutorSubmit, ExecutorStart, Abort, mgrVars
    <3>2. CASE SharedStart(c)
      BY <3>2 DEF SharedStart, Abort, Proceed
    <3>3. CASE StartSucceeds(c) \/ StartFails(c)
      BY <3>3 DEF StartSucceeds, StartFails, Abort, Proceed
    <3> QED
      BY <1>4, <3>1, <3>2, <3>3
  <2>2. Undisturbed' => Undisturbed
    <3>1. CASE PickAsserts(c) \/ AssertReturns(c) \/ ExecutorSubmit(c) \/ ExecutorStart(c)
      BY <3>1 DEF PickAsserts, AssertReturns, ExecutorSubmit, ExecutorStart, mgrVars, dispVars, histVars,
                  Undisturbed
    <3>2. CASE SharedStart(c)
      BY <3>2 DEF SharedStart, dispVars, histVars, Undisturbed
    <3>3. CASE StartSucceeds(c)
      <4>1. mgr = "starting"
        BY <3>3 DEF StartSucceeds, LifeInv, SharedInv
      <4> QED
        BY <3>3, <4>1 DEF StartSucceeds, dispVars, histVars, Undisturbed
    <3>4. CASE StartFails(c)
      BY <3>4 DEF StartFails, Undisturbed
    <3> QED
      BY <1>4, <3>1, <3>2, <3>3, <3>4
  <2>3. Moved(c, label, idx[c])
    BY <1>1, <2>1, MovedBy DEF ClientPc
  <2>4. pc'[c] = label /\ idx'[c] = idx[c]
    BY <2>3 DEF Moved
  <2>5. ReadBy(c)'
    BY <2>1, <2>4 DEF ReadBy
  <2>6. \A r : c \in Heading(r)' => c \in Heading(r)
    BY <2>1, <2>4 DEF Heading
  <2> QED
    BY <2>1, <2>2, <2>3, <2>5, <2>6, RouteByCaller
<1> QED
  BY <1>2, <1>3, <1>4

(* A caller finds every executor healthy.                                  *)
LEMMA RouteByReadHealth ==
  ASSUME LifeInv, ReadInv, BalanceInv, NEW c \in Client, ReadHealth(c)
  PROVE  ReadInv' /\ BalanceInv'
<1> USE Roles
<1>1. /\ pc[c] = "health" /\ load' = load /\ (Undisturbed' <=> Undisturbed)
  BY DEF ReadHealth, Undisturbed, mgrVars, dispVars, histVars
<1> SUFFICES ASSUME Undisturbed PROVE ReadInv' /\ BalanceInv'
  BY <1>1 DEF ReadInv, BalanceInv
<1>2. PICK r \in Nat : r = idx[c] /\ r \in Replica /\ 1 <= r /\ r <= ReplicaCount /\ ReplicaCount \in Nat
  BY Replicas DEF LifeInv, TypeOK
<1> DEFINE S == sel[c].candidates \cup {x \in {r} : Healthy(x)}
<1>3. S = 1..r
  <2>1. sel[c].candidates = 1..(r - 1)
    BY <1>1, <1>2 DEF ReadInv, ReadBy
  <2>2. {x \in {r} : Healthy(x)} = {r}
    BY <1>2, QuietIs
  <2>3. (1..(r - 1)) \cup {r} = 1..r
    BY <1>2
  <2> QED
    BY <2>1, <2>2, <2>3
<1>4. sel' = [sel EXCEPT ![c].candidates = S]
  BY <1>2 DEF ReadHealth
<1>5. \/ r < ReplicaCount /\ At(c, r + 1) /\ UNCHANGED pc
      \/ r = ReplicaCount /\ (S # {} => Goto(c, "minimum") /\ At(c, Min(S)))
  BY <1>2 DEF ReadHealth
<1> HIDE DEF S
<1>6. S \in SUBSET Replica /\ S # {}
  BY <1>2, <1>3, Replicas
<1>7. /\ \A d \in Client : d # c => sel'[d] = sel[d]
      /\ sel'[c].candidates = S /\ sel'[c].eligible = sel[c].eligible /\ TypeOK
  <2>1. 0 \in 0..MaxRequest /\ TypeOK
    BY CountAssumption DEF LifeInv
  <2> QED
    BY <1>4, <1>6, <2>1, SelIs
<1>8. CASE r < ReplicaCount /\ At(c, r + 1) /\ UNCHANGED pc
  <2>1. Moved(c, "health", r + 1)
    <3>1. r + 1 \in Replica
      BY <1>2, <1>8, Replicas
    <3> QED
      BY <1>1, <1>7, <1>8, <3>1, MovedBy DEF ClientPc
  <2>2. pc'[c] = "health" /\ idx'[c] = r + 1
    BY <2>1 DEF Moved
  <2>3. ReadBy(c)'
    <3>1. (r + 1) - 1 = r
      BY <1>2
    <3> QED
      BY <1>3, <1>7, <2>2, <3>1 DEF ReadBy
  <2>4. \A x : c \notin Heading(x)'
    BY <2>2 DEF Heading
  <2> QED
    BY <1>1, <1>7, <2>1, <2>3, <2>4, RouteByCaller
<1>9. CASE r = ReplicaCount /\ Goto(c, "minimum") /\ At(c, Min(S))
  <2>1. Min(S) \in Replica /\ S = Replica /\ \A x \in Replica : Min(S) <= x
    BY <1>3, <1>6, <1>7, <1>9, CandidatesIs DEF Replica
  <2>2. Moved(c, "minimum", Min(S))
    BY <1>7, <1>9, <2>1, MovedBy DEF ClientPc
  <2>3. pc'[c] = "minimum" /\ idx'[c] = Min(S)
    BY <2>2 DEF Moved
  <2>4. \A x \in Replica : ~(x < Min(S))
    BY <2>1, Replicas
  <2>5. ReadBy(c)'
    BY <1>7, <2>1, <2>3, <2>4 DEF ReadBy
  <2>6. \A x : c \notin Heading(x)'
    BY <2>3 DEF Heading
  <2> QED
    BY <1>1, <1>7, <2>2, <2>5, <2>6, RouteByCaller
<1> QED
  BY <1>5, <1>6, <1>8, <1>9

(* The minimum so far is not above any load that has been read for it.     *)
LEMMA RouteByReadMinimum ==
  ASSUME LifeInv, ReadInv, BalanceInv, NEW c \in Client, ReadMinimum(c)
  PROVE  ReadInv' /\ BalanceInv'
<1> USE Roles
<1>1. /\ pc[c] = "minimum" /\ load' = load /\ (Undisturbed' <=> Undisturbed)
  BY DEF ReadMinimum, Undisturbed, mgrVars, dispVars, histVars
<1> SUFFICES ASSUME Undisturbed PROVE ReadInv' /\ BalanceInv'
  BY <1>1 DEF ReadInv, BalanceInv
<1>2. PICK r \in Nat : r = idx[c] /\ r \in Replica
  BY Replicas DEF LifeInv, TypeOK
<1>3. /\ sel[c].candidates = Replica /\ sel[c].eligible = {} /\ TypeOK
      /\ \A x \in Replica : x < r => sel[c].minimum <= load[x]
  BY <1>1, <1>2 DEF ReadInv, ReadBy, LifeInv, LoopInv
<1>4. /\ load[r] \in 0..MaxRequest /\ sel[c].minimum \in 0..MaxRequest /\ Inflight(r) = load[r]
      /\ Min(Replica) \in Replica /\ \A x \in Replica : Min(Replica) <= x
  <2>1. load[r] \in 0..MaxRequest
    BY <1>2, <1>3 DEF TypeOK
  <2>2. Min(Replica) \in Replica /\ \A x \in Replica : Min(Replica) <= x
    BY <1>2, <1>3, CandidatesIs
  <2> QED
    BY <1>2, <1>3, <2>1, <2>2, CandidatesIs, QuietIs
<1>5. PICK m : /\ sel' = [sel EXCEPT ![c].minimum = m]
               /\ m = IF r = Min(Replica) THEN load[r] ELSE Least(sel[c].minimum, load[r])
  BY <1>2, <1>3, <1>4 DEF ReadMinimum
<1>6. m \in 0..MaxRequest /\ \A x \in Replica : x <= r => m <= load[x]
  <2>1. Least(sel[c].minimum, load[r]) \in {sel[c].minimum, load[r]}
        /\ Least(sel[c].minimum, load[r]) <= sel[c].minimum /\ Least(sel[c].minimum, load[r]) <= load[r]
    <3>1. {sel[c].minimum, load[r]} \subseteq Nat
      BY <1>4, CountAssumption
    <3> QED
      BY <3>1, MinIs DEF Least
  <2>2. \A x \in Replica : load[x] \in Nat /\ x \in Nat
    BY <1>3, CountAssumption, Replicas DEF TypeOK
  <2>3. CASE r = Min(Replica)
    <3>1. m = load[r]
      BY <1>5, <2>3
    <3>2. ASSUME NEW x \in Replica, x <= r PROVE m <= load[x]
      <4>1. x = r
        BY <1>2, <1>4, <2>2, <2>3, <3>2
      <4> QED
        BY <2>2, <3>1, <4>1
    <3> QED
      BY <1>4, <3>1, <3>2
  <2>4. CASE r # Min(Replica)
    <3>1. m = Least(sel[c].minimum, load[r])
      BY <1>5, <2>4
    <3>2. m \in 0..MaxRequest /\ m \in Nat /\ m <= sel[c].minimum /\ m <= load[r] /\ sel[c].minimum \in Nat
      BY <1>4, <2>1, <3>1, CountAssumption
    <3>3. ASSUME NEW x \in Replica, x <= r PROVE m <= load[x]
      <4>1. CASE x < r
        <5>1. sel[c].minimum <= load[x]
          BY <1>3, <4>1
        <5> QED
          BY <2>2, <3>2, <5>1
      <4>2. CASE x = r
        BY <3>2, <4>2
      <4>3. x < r \/ x = r
        <5>1. x \in Nat /\ r \in Nat
          BY <2>2
        <5> QED
          BY <3>3, <5>1
      <4> QED
        BY <4>1, <4>2, <4>3
    <3> QED
      BY <3>2, <3>3
  <2> QED
    BY <2>3, <2>4
<1>7. /\ \A d \in Client : d # c => sel'[d] = sel[d]
      /\ sel'[c].candidates = Replica /\ sel'[c].eligible = {} /\ sel'[c].minimum = m
  <2>1. sel \in [Client -> Selection]
    BY <1>3 DEF TypeOK, Selection
  <2>2. /\ \A d \in Client : d # c => sel'[d] = sel[d]
        /\ sel'[c].candidates = sel[c].candidates /\ sel'[c].minimum = m
        /\ sel'[c].eligible = sel[c].eligible
    BY <1>5, <2>1 DEF Selection
  <2> QED
    BY <1>3, <2>2
<1> DEFINE F == Following(c, r)
<1>8. F = {x \in Replica : x > r}
  BY <1>3 DEF Following
<1>9. \/ F # {} /\ At(c, Min(F)) /\ UNCHANGED pc
      \/ F = {} /\ At(c, Min(Replica)) /\ Goto(c, "eligible")
  BY <1>2, <1>3 DEF ReadMinimum
<1> HIDE DEF F
<1>10. CASE F # {} /\ At(c, Min(F)) /\ UNCHANGED pc
  <2>1. F \in SUBSET Replica
    BY <1>8
  <2>2. Min(F) \in Replica /\ \A x \in F : Min(F) <= x
    BY <1>3, <1>10, <2>1, CandidatesIs
  <2>3. \A x \in Replica : x < Min(F) => x <= r
    BY <1>2, <1>8, <2>2, Replicas
  <2>4. Moved(c, "minimum", Min(F))
    BY <1>1, <1>3, <1>10, <2>2, MovedBy DEF ClientPc
  <2>5. pc'[c] = "minimum" /\ idx'[c] = Min(F)
    BY <2>4 DEF Moved
  <2>6. ReadBy(c)'
    BY <1>1, <1>6, <1>7, <2>3, <2>5 DEF ReadBy
  <2>7. \A x : c \notin Heading(x)'
    BY <2>5 DEF Heading
  <2> QED
    BY <1>1, <1>7, <2>4, <2>6, <2>7, RouteByCaller
<1>11. CASE F = {} /\ At(c, Min(Replica)) /\ Goto(c, "eligible")
  <2>1. \A x \in Replica : x <= r
    BY <1>2, <1>8, <1>11, Replicas
  <2>2. Moved(c, "eligible", Min(Replica))
    BY <1>3, <1>4, <1>11, MovedBy DEF ClientPc
  <2>3. pc'[c] = "eligible"
    BY <2>2 DEF Moved
  <2>4. ReadBy(c)'
    BY <1>1, <1>6, <1>7, <2>1, <2>3 DEF ReadBy
  <2>5. \A x : c \notin Heading(x)'
    BY <1>7, <2>3 DEF Heading
  <2> QED
    BY <1>1, <1>7, <2>2, <2>4, <2>5, RouteByCaller
<1> QED
  BY <1>9, <1>10, <1>11

(* Only a replica with a minimal load becomes eligible.                    *)
LEMMA RouteByReadEligible ==
  ASSUME LifeInv, ReadInv, BalanceInv, NEW c \in Client, ReadEligible(c)
  PROVE  ReadInv' /\ BalanceInv'
<1> USE Roles
<1>1. /\ pc[c] = "eligible" /\ load' = load /\ (Undisturbed' <=> Undisturbed)
  BY DEF ReadEligible, Undisturbed, mgrVars, dispVars, histVars
<1> SUFFICES ASSUME Undisturbed PROVE ReadInv' /\ BalanceInv'
  BY <1>1 DEF ReadInv, BalanceInv
<1>2. PICK r \in Replica : r = idx[c]
  BY DEF LifeInv, TypeOK
<1>3. sel[c].candidates = Replica /\ TypeOK /\ \A x \in Replica : sel[c].minimum <= load[x]
  BY <1>1 DEF ReadInv, ReadBy, LifeInv
<1> DEFINE E == {x \in {r} : Minimal(c, x)}
           S == sel[c].eligible \cup E
<1>4. E \subseteq {r} /\ \A x \in E : load[x] = sel[c].minimum
  BY <1>2, QuietIs DEF Minimal
<1>5. sel' = [sel EXCEPT ![c].eligible = S]
  BY <1>2 DEF ReadEligible
<1>6. PICK label \in {"eligible", "pick"}, i \in Replica : Moved(c, label, i)
  <2>1. Following(c, r) \in SUBSET Replica /\ (Following(c, r) # {} => Min(Following(c, r)) \in Replica)
    BY <1>3, CandidatesIs
  <2>2. \/ At(c, Min(Following(c, r))) /\ UNCHANGED pc /\ Following(c, r) # {}
        \/ At(c, 1) /\ Goto(c, "pick")
    BY <1>2 DEF ReadEligible
  <2> QED
    BY <1>1, <1>3, <2>1, <2>2, MovedBy, Replicas DEF ClientPc
<1> HIDE DEF E
<1>7. S \in SUBSET Replica
  BY <1>2, <1>3, <1>4, CandidatesIs
<1> HIDE DEF S
<1>8. /\ \A d \in Client : d # c => sel'[d] = sel[d]
      /\ sel'[c].candidates = Replica /\ sel'[c].eligible = S /\ sel'[c].minimum = sel[c].minimum
  <2>1. 0 \in 0..MaxRequest
    BY CountAssumption
  <2> QED
    BY <1>3, <1>5, <1>7, <2>1, SelIs
<1>9. pc'[c] = label
  BY <1>6 DEF Moved
<1>10. ReadBy(c)'
  BY <1>1, <1>3, <1>6, <1>8, <1>9 DEF ReadBy
<1>11. ASSUME NEW x \in Replica, c \in Heading(x)'
       PROVE  c \in Heading(x) \/ \A s \in Replica : load[x] <= load[s]
  <2>1. x \in S
    BY <1>6, <1>8, <1>9, <1>11 DEF Heading
  <2>2. CASE x \in sel[c].eligible
    BY <1>1, <2>2 DEF Heading
  <2>3. CASE x \in E
    BY <1>3, <1>4, <2>3
  <2> QED
    BY <2>1, <2>2, <2>3 DEF S
<1> QED
  BY <1>1, <1>6, <1>8, <1>10, <1>11, RouteByCaller

(* The request is sent: its caller was heading for the load it adds to.    *)
LEMMA RouteByManagerSubmit ==
  ASSUME LifeInv, ReadInv, BalanceInv, NEW c \in Client, ManagerSubmit(c)
  PROVE  ReadInv' /\ BalanceInv'
<1> USE Roles
<1>1. /\ pc[c] = "send" /\ sel' = sel /\ (Undisturbed' <=> Undisturbed) /\ Goto(c, "idle") /\ idx' = idx
      /\ load' = IF mgr = "running" THEN [load EXCEPT ![idx[c]] = load[idx[c]] + 1] ELSE load
  BY DEF ManagerSubmit, Undisturbed, dispVars, histVars
<1>2. TypeOK /\ idx[c] \in Replica /\ \A r \in Replica : load[r] \in Nat
  BY CountAssumption DEF LifeInv, TypeOK
<1>3. Moved(c, "idle", idx[c])
  BY <1>1, <1>2, MovedBy DEF ClientPc
<1>4. /\ pc'[c] = "idle"
      /\ \A d \in Client : d # c => pc'[d] = pc[d] /\ idx'[d] = idx[d]
  BY <1>3 DEF Moved
<1>5. \A r \in Replica : load'[r] = load[r] \/ (r = idx[c] /\ load'[r] = load[r] + 1)
  BY <1>1, <1>2 DEF TypeOK
<1>6. \A r \in Replica : load'[r] \in Nat /\ load[r] <= load'[r]
  BY <1>2, <1>5
<1>7. ReadInv'
  <2>1. ASSUME Undisturbed', NEW d \in Client PROVE ReadBy(d)'
    <3>1. CASE d = c
      BY <1>4, <3>1 DEF ReadBy
    <3>2. CASE d # c
      <4>1. ReadBy(d) /\ sel[d].minimum \in Nat
        BY <1>1, <1>2, <2>1, CandidatesIs, CountAssumption DEF ReadInv
      <4>2. \A r \in Replica : sel[d].minimum <= load[r] => sel[d].minimum <= load'[r]
        BY <1>2, <1>6, <4>1
      <4>3. pc'[d] = pc[d] /\ idx'[d] = idx[d] /\ sel'[d] = sel[d]
        BY <1>1, <1>4, <3>2
      <4> QED
        BY <4>1, <4>2, <4>3 DEF ReadBy
    <3> QED
      BY <3>1, <3>2
  <2> QED
    BY <2>1 DEF ReadInv
<1>8. ASSUME Undisturbed', NEW r \in Replica, NEW s \in Replica
      PROVE  load'[r] + Cardinality(Heading(r)') <= load'[s] + Cardinality(Client)
  <2>1. load[r] + Cardinality(Heading(r)) <= load[s] + Cardinality(Client)
    BY <1>1, <1>8 DEF BalanceInv
  <2>2. Heading(r) \subseteq Client /\ Heading(r)' \subseteq Client
    BY DEF Heading
  <2>3. Heading(r)' \subseteq Heading(r) \ {c}
    BY <1>1, <1>4 DEF Heading
  <2>4. PICK h \in Nat, h1 \in Nat, n \in Nat :
          h = Cardinality(Heading(r)) /\ h1 = Cardinality(Heading(r)') /\ n = Cardinality(Client)
    BY <2>2, CallersFinite
  <2>5. CASE load'[r] = load[r]
    <3>1. h1 <= h
      BY <2>2, <2>3, <2>4, CallersCount
    <3> QED
      BY <1>2, <1>6, <2>1, <2>4, <2>5, <3>1
  <2>6. CASE r = idx[c] /\ load'[r] = load[r] + 1
    <3>1. c \in Heading(r)
      BY <1>1, <2>6 DEF Heading
    <3>2. h1 + 1 <= h
      BY <2>2, <2>3, <2>4, <3>1, CallersCount
    <3> QED
      BY <1>2, <1>6, <2>1, <2>4, <2>6, <3>2
  <2> QED
    BY <1>5, <2>5, <2>6
<1> QED
  BY <1>7, <1>8 DEF BalanceInv

(* setup(), close() and the supervisor leave the callers alone, or end the *)
(* time in which the balance is promised.                                  *)
LEMMA RouteByOthers ==
  ASSUME LifeInv, ReadInv, BalanceInv,
         \/ \E t \in Manager : Starting(t) \/ StartFails(t) \/ Settling(t) \/ SetupBegin(t) \/ CloseBegin(t)
         \/ (\E r \in Replica : ManagerCompletes(r)) \/ ManagerFails
         \/ UNCHANGED vars
  PROVE  ReadInv' /\ BalanceInv'
<1> USE Roles
<1>1. ASSUME NEW t \in Manager,
             Starting(t) \/ StartFails(t) \/ Settling(t) \/ SetupBegin(t) \/ CloseBegin(t)
      PROVE  (\A c \in Client : pc'[c] = pc[c] /\ idx'[c] = idx[c]) /\ UNCHANGED sel
  <2>1. /\ pc \in [Thread -> ClientPc \cup StarterPc \cup CloserPc] /\ idx \in [Thread -> Replica]
    BY DEF LifeInv, TypeOK
  <2>2. ASSUME NEW l PROVE Goto(t, l) => \A c \in Client : pc'[c] = pc[c]
    BY <2>1 DEF Goto
  <2>3. ASSUME NEW i PROVE At(t, i) => \A c \in Client : idx'[c] = idx[c]
    BY <2>1 DEF At
  <2>4. CASE Starting(t) \/ StartFails(t)
    BY <1>1, <2>2, <2>3, <2>4 DEF Starting, ExecutorStart, SharedStart, StartSucceeds, StartFails, Proceed,
                                  Abort
  <2>5. CASE Settling(t)
    BY <1>1, <2>2, <2>3, <2>5 DEF Settling, SetupDone, SetupFailed, CloseExecutor, Release, ManagerClose,
                                  CloseNext
  <2>6. CASE SetupBegin(t) \/ CloseBegin(t)
    BY <1>1, <2>2, <2>3, <2>6 DEF SetupBegin, CloseBegin
  <2> QED
    BY <1>1, <2>4, <2>5, <2>6
<1>2. ASSUME NEW t \in Manager, Undisturbed',
             Starting(t) \/ StartFails(t) \/ Settling(t) \/ SetupBegin(t) \/ CloseBegin(t)
      PROVE  Undisturbed /\ UNCHANGED load
  <2>1. CASE StartSucceeds(t)
    <3>1. mgr = "starting"
      BY <2>1 DEF StartSucceeds, LifeInv, SharedInv
    <3> QED
      BY <1>2, <2>1, <3>1 DEF StartSucceeds, Undisturbed, dispVars, histVars
  <2>2. CASE ManagerClose(t)
    BY <1>2, <2>2 DEF ManagerClose, LifeInv, CloseInv, ClosingPc, Undisturbed
  <2>3. CASE ExecutorStart(t) \/ SharedStart(t) \/ StartFails(t)
    BY <1>2, <2>3 DEF ExecutorStart, SharedStart, StartFails, Undisturbed, dispVars, mgrVars, histVars
  <2>4. CASE SetupDone(t) \/ SetupFailed(t) \/ CloseExecutor(t) \/ Release(t)
    BY <1>2, <2>4 DEF SetupDone, SetupFailed, CloseExecutor, Release, Undisturbed, dispVars, mgrVars, histVars
  <2>5. CASE SetupBegin(t) \/ CloseBegin(t)
    BY <1>2, <2>5 DEF SetupBegin, CloseBegin, Undisturbed, mgrVars, histVars
  <2> QED
    BY <1>2, <2>1, <2>2, <2>3, <2>4, <2>5 DEF Starting, Settling
<1>3. CASE ManagerFails
  BY <1>3 DEF ManagerFails, Undisturbed, ReadInv, BalanceInv
<1>4. ASSUME NEW r \in Replica, ManagerCompletes(r) PROVE ReadInv' /\ BalanceInv'
  <2>1. completions \in Nat /\ completions' = completions + 1
    BY <1>4, CountAssumption DEF ManagerCompletes, LifeInv, TypeOK
  <2>2. ~Undisturbed'
    BY <2>1 DEF Undisturbed
  <2> QED
    BY <2>2 DEF ReadInv, BalanceInv
<1>5. CASE UNCHANGED vars
  <2>1. UNCHANGED <<closed, mgr, load, pc, idx, sel, completions>>
    BY <1>5 DEF vars, dispVars, mgrVars, histVars
  <2> QED
    BY <2>1, RouteStays DEF Undisturbed
<1> QED
  BY <1>1, <1>2, <1>3, <1>4, <1>5, RouteStays

(* Every step keeps what the callers know and the balance.                 *)
LEMMA RouteByNext ==
  ASSUME LifeInv, ReadInv, BalanceInv, [Next]_vars
  PROVE  ReadInv' /\ BalanceInv'
<1>1. CASE \E c \in Client : SubmitBegin(c) \/ Selecting(c)
  BY <1>1, RouteByMoves, RouteByReadHealth, RouteByReadMinimum, RouteByReadEligible, RouteByManagerSubmit
  DEF Selecting
<1>2. ASSUME NEW t \in Thread, Starting(t) \/ StartFails(t) \/ Settling(t) PROVE ReadInv' /\ BalanceInv'
  <2>1. CASE t \in Manager
    BY <1>2, <2>1, RouteByOthers
  <2>2. CASE t \in Client
    <3>1. ~Settling(t)
      BY <2>2, Roles DEF Settling, SetupDone, SetupFailed, CloseExecutor, Release, ManagerClose, LifeInv,
                         TypeOK, ClientPc
    <3> QED
      BY <1>2, <2>2, <3>1, RouteByMoves DEF Starting
  <2> QED
    BY <2>1, <2>2, Roles
<1>3. CASE (\E t \in Starter : SetupBegin(t)) \/ (\E t \in Closer : CloseBegin(t))
  BY <1>3, RouteByOthers, Roles
<1>4. CASE (\E r \in Replica : ManagerCompletes(r)) \/ ManagerFails \/ UNCHANGED vars
  BY <1>4, RouteByOthers
<1> QED
  BY <1>1, <1>2, <1>3, <1>4 DEF Next, Terminated

(* Until a request completes or a close begins, two loads differ by no     *)
(* more than the number of callers, for any number of replicas and         *)
(* requests: each caller acts at most once on loads that it read without a *)
(* lock and that are out of date by then (_select of dispatcher.py).       *)
THEOREM LoadsAreBalanced == Spec => []Balanced
<1>1. Init => ReadInv /\ BalanceInv
  <2>1. ASSUME Init PROVE ReadInv
    BY <2>1, Roles DEF Init, ReadInv, ReadBy
  <2>2. ASSUME Init, NEW r \in Replica, NEW s \in Replica
        PROVE  load[r] + Cardinality(Heading(r)) <= load[s] + Cardinality(Client)
    <3>1. Heading(r) \subseteq Client
      BY DEF Heading
    <3>2. PICK h \in Nat, n \in Nat : h = Cardinality(Heading(r)) /\ n = Cardinality(Client) /\ h <= n
      BY <3>1, CallersFinite
    <3>3. load[r] = 0 /\ load[s] = 0
      BY <2>2 DEF Init
    <3> QED
      BY <3>2, <3>3
  <2> QED
    BY <2>1, <2>2 DEF BalanceInv
<1>2. LifeInv /\ (ReadInv /\ BalanceInv) /\ [Next]_vars => (ReadInv /\ BalanceInv)'
  BY RouteByNext
<1>3. LifeInv /\ BalanceInv => Balanced
  <2>1. ASSUME LifeInv, BalanceInv, completions = 0, ~closed, NEW r \in Replica, NEW s \in Replica
        PROVE  load[r] - load[s] <= Cardinality(Client)
    <3>1. load[r] \in Nat /\ load[s] \in Nat
      BY <2>1, CountAssumption DEF LifeInv, TypeOK
    <3>2. Heading(r) \subseteq Client
      BY DEF Heading
    <3>3. PICK h \in Nat, n \in Nat : h = Cardinality(Heading(r)) /\ n = Cardinality(Client)
      BY <3>2, CallersFinite
    <3>4. CASE Undisturbed
      <4>1. load[r] + h <= load[s] + n
        BY <2>1, <3>3, <3>4 DEF BalanceInv
      <4> QED
        BY <3>1, <3>3, <4>1
    <3>5. CASE ~Undisturbed
      <4>1. load[r] = 0 /\ load[s] = 0
        BY <2>1, <3>5 DEF Undisturbed, LifeInv, SharedInv
      <4> QED
        BY <3>3, <4>1
    <3> QED
      BY <3>4, <3>5
  <2> QED
    BY <2>1 DEF Balanced
<1> QED
  BY <1>1, <1>2, <1>3, LifeAlways, PTL DEF Spec

=============================================================================
