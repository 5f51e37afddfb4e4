------------------------- MODULE InlineEngineProofs -------------------------
(***************************************************************************)
(* The engine in the calling process proved for any number of threads,     *)
(* requests and updates.  The first part is about the executor alone:      *)
(* EngineSpec implements its specification, whatever the core does between *)
(* the call and the return.  The second part is about the core, whose      *)
(* steps keep their invariant whoever calls them.                          *)
(***************************************************************************)
EXTENDS InlineEngine, FiniteSetTheorems, TLAPS

(* Threads hold an item exactly while they wait for their turn or are      *)
(* between taking it and the release.                                      *)
ItemsInv ==
  /\ \A t \in Stepper : item[t] # 0 <=> pc[t] # "idle"
  /\ item[WorkerThread] # 0 <=> pc[WorkerThread] \in {"claim", "exec", "settled"}
  /\ \A t \in Closer : item[t] = 0

(* Items are queued in the order of their numbers, all of them handed out, *)
(* and after the one that is being executed.                               *)
QueueInv ==
  /\ \A k \in DOMAIN queue : queue[k] < nextItem
  /\ \A t \in Thread : item[t] < nextItem
  /\ \A j, k \in DOMAIN queue : j < k => queue[j] < queue[k]
  /\ \A i \in Item : i >= nextItem => future[i] = "none"

(* A caller of step() holds an item without a future, the worker thread    *)
(* one with a future.                                                      *)
SyncInv ==
  /\ \A t \in Stepper : item[t] # 0 => future[item[t]] = "sync"
  /\ item[WorkerThread] # 0 => future[item[WorkerThread]] # "sync"

(* One close() ends the executor: it empties the queue, which stays empty, *)
(* and it goes on when the core is free, which it stays.                   *)
ClosingInv ==
  /\ closed => queue = <<>>
  /\ \A t \in Closer : pc[t] # "idle" => closed
  /\ \A t, u \in Closer : pc[t] \notin {"idle", "done"} /\ pc[u] \notin {"idle", "done"} => t = u
  /\ \A t \in Closer : pc[t] \in {"cancel", "join", "core"} => ~active
  /\ coreClosed => closed /\ ~active /\ \A t \in Closer : pc[t] \in {"idle", "core", "done"}

(* A future that is not resolved is known to somebody who will: it is      *)
(* queued, in the hands of close(), or in those of the worker thread.      *)
FuturesInv ==
  /\ \A i \in Item : future[i] = "pending" =>
       \/ \E k \in DOMAIN queue : queue[k] = i
       \/ \E t \in Closer : pc[t] \in {"drain", "cancel"} /\ i \in queued[t]
       \/ pc[WorkerThread] = "claim" /\ item[WorkerThread] = i
  /\ \A i \in Item : future[i] = "running" => pc[WorkerThread] = "exec" /\ item[WorkerThread] = i

ExecutorInv ==
  /\ TypeOK /\ ItemsInv /\ QueueInv /\ SyncInv
  /\ OneAtATime /\ FifoOrder /\ ClosingInv /\ FuturesInv

-----------------------------------------------------------------------------
(* One thread at a time executes a call that holds _weight_update_lock.    *)
UpdateInv ==
  /\ \A t, u \in CoreThread : cpc[t] \in Holding /\ cpc[u] \in Holding => t = u
  /\ \A t \in CoreThread : cpc[t] \in {"beginModel", "beginEntry"} => update = "idle" /\ ~coreShut
  /\ \A t \in CoreThread : cpc[t] \in {"load", "finishing"} => update \in Open
  /\ \A t \in CoreThread : cpc[t] = "load" => update = "dirty"
  /\ \A t \in CoreThread : cpc[t] \in {"closeModel", "closeEntry"} => coreShut

LockUsers == {t \in CoreThread : cpc[t] \in {"in", "beginEntry", "closeEntry"}}

(* Whoever uses the model lock uses it alone.                              *)
LockInv ==
  /\ \A t, u \in LockUsers : t = u
  /\ LockUsers # {} => update \notin Open
  /\ modelLock <=> LockUsers # {} \/ update \in Open

(* A closed core has no update, and only a closed core has lost its        *)
(* plugin.  Weights that were not committed as a version are never in use  *)
(* again, unless an update that is open replaces them.                     *)
ShutInv ==
  /\ coreShut => update \notin Open
  /\ ~entryOpen => coreShut
  /\ update \in {"idle", "clean"} => weights \in {version, Mixed}

CoreInv == CoreTypeOK /\ UpdateInv /\ LockInv /\ ShutInv /\ PluginReady

-----------------------------------------------------------------------------
(* The queue with an item more at its end.                                 *)
LEMMA AppendIs ==
  ASSUME NEW s \in Seq(Item), NEW x \in Item
  PROVE  /\ Append(s, x) \in Seq(Item)
         /\ \A k \in DOMAIN s : k \in DOMAIN Append(s, x) /\ Append(s, x)[k] = s[k]
         /\ \A k \in DOMAIN Append(s, x) :
              \/ k \in DOMAIN s
              \/ Append(s, x)[k] = x /\ \A j \in DOMAIN s : j < k
         /\ \E k \in DOMAIN Append(s, x) : Append(s, x)[k] = x
<1>1. /\ Append(s, x) \in Seq(Item) /\ Len(Append(s, x)) = Len(s) + 1
      /\ \A k \in 1..Len(s) : Append(s, x)[k] = s[k]
      /\ Append(s, x)[Len(s) + 1] = x
  OBVIOUS
<1>2. PICK n \in Nat : n = Len(s)
  OBVIOUS
<1>3. DOMAIN s = 1..n /\ DOMAIN Append(s, x) = 1..(n + 1)
  BY <1>1, <1>2
<1> QED
  BY <1>1, <1>2, <1>3

(* The queue without its first item.                                       *)
LEMMA TailIs ==
  ASSUME NEW s \in Seq(Item), s # <<>>
  PROVE  /\ Tail(s) \in Seq(Item) /\ Head(s) = s[1] /\ Head(s) \in Item /\ 1 \in DOMAIN s
         /\ \A k \in DOMAIN Tail(s) : k \in Nat /\ k + 1 \in DOMAIN s /\ Tail(s)[k] = s[k + 1] /\ 1 < k + 1
         /\ \A k \in DOMAIN s : k # 1 => \E j \in DOMAIN Tail(s) : Tail(s)[j] = s[k]
<1>1. PICK n \in Nat : n = Len(s) /\ n # 0
  OBVIOUS
<1>2. /\ Tail(s) \in Seq(Item) /\ Len(Tail(s)) = n - 1 /\ Head(s) = s[1] /\ Head(s) \in Item
      /\ \A k \in 1..(n - 1) : Tail(s)[k] = s[k + 1]
  BY <1>1
<1>3. DOMAIN s = 1..n /\ DOMAIN Tail(s) = 1..(n - 1)
  BY <1>1, <1>2
<1>4. ASSUME NEW k \in DOMAIN s, k # 1 PROVE \E j \in DOMAIN Tail(s) : Tail(s)[j] = s[k]
  <2>1. k - 1 \in 1..(n - 1) /\ (k - 1) + 1 = k
    BY <1>1, <1>3, <1>4
  <2> QED
    BY <1>2, <1>3, <2>1
<1> QED
  BY <1>1, <1>2, <1>3, <1>4

(* Where a thread goes, and that the others stay.                          *)
LEMMA GotoIs ==
  ASSUME TypeOK, NEW t \in Thread, NEW label \in StepperPc \cup CloserPc \cup WorkerPc,
         Goto(t, label)
  PROVE  /\ pc' \in [Thread -> StepperPc \cup CloserPc \cup WorkerPc]
         /\ \A u \in Thread : pc'[u] = IF u = t THEN label ELSE pc[u]
  BY DEF Goto, TypeOK

(* The item a thread takes or gives up.                                    *)
LEMMA ItemIs ==
  ASSUME TypeOK, NEW t \in Thread, NEW i \in Item \cup {0}, item' = [item EXCEPT ![t] = i]
  PROVE  /\ item' \in [Thread -> Item \cup {0}]
         /\ \A u \in Thread : item'[u] = IF u = t THEN i ELSE item[u]
  BY DEF TypeOK

(* The future of one item.                                                 *)
LEMMA FutureIs ==
  ASSUME TypeOK, NEW i \in Item, NEW f \in FutureState, future' = [future EXCEPT ![i] = f]
  PROVE  /\ future' \in [Item -> FutureState]
         /\ \A j \in Item : future'[j] = IF j = i THEN f ELSE future[j]
  BY DEF TypeOK

(* A thread has one role.                                                  *)
LEMMA Roles ==
  /\ \A t \in Stepper : t \in Thread /\ t \notin Closer /\ t # WorkerThread
  /\ \A t \in Closer : t \in Thread /\ t \notin Stepper /\ t # WorkerThread
  /\ WorkerThread \in Thread
  /\ \A t \in Thread : t \in Stepper \/ t \in Closer \/ t = WorkerThread
  BY ThreadAssumption DEF Thread

(* Items are positive numbers.                                             *)
LEMMA Items ==
  ASSUME TypeOK
  PROVE  /\ nextItem \in Nat /\ nextItem >= 1 /\ Item \subseteq Nat /\ 0 \notin Item
         /\ (nextItem <= MaxItem => nextItem \in Item /\ nextItem + 1 \in 1..(MaxItem + 1))
         /\ \A k \in DOMAIN queue : queue[k] \in Item /\ queue[k] \in Nat /\ queue[k] # 0 /\ k \in Nat
         /\ \A t \in Thread : item[t] \in Nat
<1>1. /\ nextItem \in Nat /\ nextItem >= 1 /\ Item \subseteq Nat /\ 0 \notin Item
      /\ (nextItem <= MaxItem => nextItem \in Item /\ nextItem + 1 \in 1..(MaxItem + 1))
  BY ThreadAssumption DEF TypeOK, Item
<1>2. \A k \in DOMAIN queue : queue[k] \in Item /\ k \in Nat
  BY DEF TypeOK
<1>3. \A t \in Thread : item[t] \in Item \cup {0}
  BY DEF TypeOK
<1>4. ASSUME NEW t \in Thread PROVE item[t] \in Nat
  <2>1. item[t] \in Item \/ item[t] = 0
    BY <1>3
  <2>2. \A i \in Item : i \in Nat
    BY <1>1
  <2> QED
    BY <2>1, <2>2
<1>5. \A k \in DOMAIN queue : queue[k] \in Item /\ queue[k] \in Nat /\ queue[k] # 0 /\ k \in Nat
  BY <1>1, <1>2
<1> QED
  BY <1>1, <1>4, <1>5

(* When the core is entered, by t, nobody else uses it.                    *)
LEMMA UsersAre ==
  ASSUME ExecutorInv
  PROVE  /\ \A t \in Stepper : t \in Users <=> pc[t] = "exec"
         /\ WorkerThread \in Users <=> pc[WorkerThread] \in {"claim", "exec", "settled"}
         /\ \A t \in Users : t \in Thread /\ (t \in Stepper \/ t = WorkerThread)
         /\ \A t, u \in Users : t = u
         /\ active <=> Users # {}
  BY Roles DEF ExecutorInv, TypeOK, ItemsInv, Users, OneAtATime, StepperPc, WorkerPc

-----------------------------------------------------------------------------
(* step(): the item goes to the end of the queue, or straight into a core  *)
(* that nobody uses or waits for.                                          *)
LEMMA ExecutorByStepCall ==
  ASSUME ExecutorInv, NEW t \in Stepper, StepCall(t)
  PROVE  ExecutorInv'
<1> USE Roles DEF ExecutorInv
<1>1. PICK i \in Item : i = nextItem
  BY Items DEF StepCall
<1>2. /\ pc[t] = "idle" /\ ~closed /\ nextItem' = i + 1 /\ nextItem' \in 1..(MaxItem + 1)
      /\ UNCHANGED <<closed, coreClosed, queued, interrupts>>
  BY <1>1, Items DEF StepCall
<1>3. /\ item' \in [Thread -> Item \cup {0}]
      /\ \A u \in Thread : item'[u] = IF u = t THEN i ELSE item[u]
  BY <1>1, ItemIs DEF StepCall
<1>4. /\ future' \in [Item -> FutureState]
      /\ \A j \in Item : future'[j] = IF j = i THEN "sync" ELSE future[j]
  BY <1>1, FutureIs DEF StepCall, FutureState
<1>5. PICK label \in {"exec", "turn"} :
        /\ Goto(t, label)
        /\ label = "exec" => ~active /\ queue = <<>> /\ active' = TRUE /\ waiting' = {} /\ queue' = queue
        /\ label = "turn" => queue' = Append(queue, i) /\ waiting' = {t} /\ active' = active
  BY <1>1 DEF StepCall, NotifyAll
<1>6. /\ pc' \in [Thread -> StepperPc \cup CloserPc \cup WorkerPc]
      /\ \A u \in Thread : pc'[u] = IF u = t THEN label ELSE pc[u]
  BY <1>5, GotoIs DEF StepperPc
<1>7. /\ queue' \in Seq(Item)
      /\ \A k \in DOMAIN queue : k \in DOMAIN queue' /\ queue'[k] = queue[k]
      /\ \A k \in DOMAIN queue' : \/ k \in DOMAIN queue
                                  \/ queue'[k] = i /\ label = "turn" /\ \A j \in DOMAIN queue : j < k
  <2>1. CASE label = "exec"
    BY <1>5, <2>1 DEF TypeOK
  <2>2. CASE label = "turn"
    <3>1. queue' = Append(queue, i) /\ queue \in Seq(Item)
      BY <1>5, <2>2 DEF TypeOK
    <3> QED
      BY <2>2, <3>1, AppendIs
  <2> QED
    BY <2>1, <2>2
<1>8. TypeOK'
  <2>1. active' \in BOOLEAN /\ waiting' \subseteq {u \in Thread : pc'[u] \in {"turn", "loop", "drain"}}
    BY <1>5, <1>6 DEF TypeOK
  <2>2. /\ \A u \in Stepper : pc'[u] \in StepperPc
        /\ \A u \in Closer : pc'[u] \in CloserPc
        /\ pc'[WorkerThread] \in WorkerPc
    BY <1>6 DEF TypeOK, StepperPc
  <2> QED
    BY <1>2, <1>3, <1>4, <1>6, <1>7, <2>1, <2>2 DEF TypeOK
<1>9. ItemsInv'
  BY <1>1, <1>2, <1>3, <1>6, Items DEF ItemsInv
<1>10. QueueInv'
  <2>1. ASSUME NEW k \in DOMAIN queue' PROVE queue'[k] < nextItem'
    BY <1>1, <1>2, <1>7, <2>1, Items DEF QueueInv
  <2>2. ASSUME NEW u \in Thread PROVE item'[u] < nextItem'
    BY <1>1, <1>2, <1>3, <2>2, Items DEF QueueInv
  <2>3. ASSUME NEW j \in DOMAIN queue', NEW k \in DOMAIN queue', j < k PROVE queue'[j] < queue'[k]
    <3>1. CASE k \in DOMAIN queue /\ j \in DOMAIN queue
      BY <1>7, <2>3, <3>1 DEF QueueInv
    <3>2. CASE k \notin DOMAIN queue /\ j \in DOMAIN queue
      BY <1>1, <1>7, <3>2 DEF QueueInv
    <3>3. CASE j \notin DOMAIN queue
      <4>1. label = "turn" /\ queue' = Append(queue, i) /\ queue \in Seq(Item)
        BY <1>5, <1>7, <3>3 DEF TypeOK
      <4>2. PICK n \in Nat : n = Len(queue)
        BY <4>1
      <4>3. DOMAIN queue = 1..n /\ DOMAIN queue' = 1..(n + 1)
        BY <4>1, <4>2
      <4> QED
        BY <2>3, <3>3, <4>2, <4>3
    <3> QED
      BY <3>1, <3>2, <3>3
  <2>4. \A j \in Item : j >= nextItem' => future'[j] = "none"
    BY <1>1, <1>2, <1>4, Items DEF QueueInv
  <2> QED
    BY <2>1, <2>2, <2>3, <2>4 DEF QueueInv
<1>11. SyncInv'
  <2>1. \A u \in Thread : item[u] \in Item \cup {0} /\ item[u] # i
    BY <1>1, Items DEF QueueInv, TypeOK
  <2> QED
    BY <1>2, <1>3, <1>4, <2>1 DEF SyncInv
<1>12. Users' = IF label = "exec" THEN Users \cup {t} ELSE Users
  BY <1>1, <1>2, <1>3, <1>6, Items DEF Users, ItemsInv
<1>13. t \notin Users
  BY <1>2, UsersAre
<1>14. OneAtATime'
  BY <1>5, <1>12 DEF OneAtATime
<1>15. FifoOrder'
  <2>1. ASSUME NEW u \in Users', NEW k \in DOMAIN queue' PROVE item'[u] < queue'[k]
    <3>1. CASE label = "exec"
      BY <1>5, <1>7, <2>1, <3>1
    <3>2. CASE label = "turn"
      <4>1. u \in Users /\ u # t /\ u \in Thread /\ item'[u] = item[u]
        BY <1>3, <1>12, <1>13, <2>1, <3>2, UsersAre
      <4> QED
        BY <1>1, <1>7, <2>1, <4>1 DEF FifoOrder, QueueInv
    <3> QED
      BY <3>1, <3>2
  <2> QED
    BY <2>1 DEF FifoOrder
<1>16. ClosingInv'
  BY <1>2, <1>6 DEF ClosingInv
<1>17. FuturesInv'
  BY <1>2, <1>3, <1>4, <1>6, <1>7 DEF FuturesInv
<1> QED
  BY <1>8, <1>9, <1>10, <1>11, <1>14, <1>15, <1>16, <1>17

(* What is left of an ordered queue without its first item.                *)
LEMMA QueueTail ==
  ASSUME TypeOK, QueueInv, queue # <<>>
  PROVE  /\ Tail(queue) \in Seq(Item)
         /\ queue[1] \in Item /\ 1 \in DOMAIN queue /\ Head(queue) = queue[1]
         /\ \A k \in DOMAIN Tail(queue) : /\ Tail(queue)[k] < nextItem
                                         /\ queue[1] < Tail(queue)[k]
         /\ \A j, k \in DOMAIN Tail(queue) : j < k => Tail(queue)[j] < Tail(queue)[k]
         /\ \A k \in DOMAIN queue :
              queue[k] # queue[1] => \E j \in DOMAIN Tail(queue) : Tail(queue)[j] = queue[k]
<1>1. queue \in Seq(Item)
  BY DEF TypeOK
<1>2. /\ Tail(queue) \in Seq(Item) /\ Head(queue) = queue[1] /\ Head(queue) \in Item
      /\ 1 \in DOMAIN queue
      /\ \A k \in DOMAIN Tail(queue) :
           k \in Nat /\ k + 1 \in DOMAIN queue /\ Tail(queue)[k] = queue[k + 1] /\ 1 < k + 1
      /\ \A k \in DOMAIN queue : k # 1 => \E j \in DOMAIN Tail(queue) : Tail(queue)[j] = queue[k]
  BY <1>1, TailIs
<1>3. ASSUME NEW j \in DOMAIN Tail(queue), NEW k \in DOMAIN Tail(queue), j < k
      PROVE  Tail(queue)[j] < Tail(queue)[k]
  <2>1. j + 1 < k + 1
    BY <1>2, <1>3
  <2> QED
    BY <1>2, <2>1 DEF QueueInv
<1> QED
  BY <1>2, <1>3 DEF QueueInv

(* A step() ends before its turn: it takes its item with it, and the queue *)
(* is as it was.                                                           *)
LEMMA QuitKeeps ==
  ASSUME ExecutorInv, NEW t \in Stepper, pc[t] = "turn",
         waiting' \in SUBSET (waiting \ {t}),
         interrupts' \in 0..MaxInterrupts,
         pc' \in [Thread -> StepperPc \cup CloserPc \cup WorkerPc],
         \A u \in Thread : pc'[u] = IF u = t THEN "idle" ELSE pc[u],
         item' \in [Thread -> Item \cup {0}],
         \A u \in Thread : item'[u] = IF u = t THEN 0 ELSE item[u],
         UNCHANGED <<queue, active, closed, coreClosed, nextItem, future, queued>>
  PROVE  ExecutorInv'
<1> USE Roles DEF ExecutorInv
<1>1. TypeOK'
  <2>1. waiting' \subseteq {u \in Thread : pc'[u] \in {"turn", "loop", "drain"}}
    BY DEF TypeOK
  <2>2. /\ \A u \in Stepper : pc'[u] \in StepperPc
        /\ \A u \in Closer : pc'[u] \in CloserPc
        /\ pc'[WorkerThread] \in WorkerPc
    BY DEF TypeOK, StepperPc
  <2> QED
    BY <2>1, <2>2 DEF TypeOK
<1>2. ItemsInv' /\ SyncInv'
  BY DEF ItemsInv, SyncInv
<1>3. QueueInv'
  <2>1. \A u \in Thread : item'[u] < nextItem'
    BY Items DEF QueueInv
  <2> QED
    BY <2>1 DEF QueueInv
<1>4. Users' = Users /\ \A u \in Users : u \in Thread /\ u # t
  BY DEF Users, ItemsInv
<1>5. OneAtATime' /\ FifoOrder'
  BY <1>4 DEF OneAtATime, FifoOrder
<1>6. ClosingInv'
  BY DEF ClosingInv
<1>7. FuturesInv'
  BY DEF FuturesInv
<1> QED
  BY <1>1, <1>2, <1>3, <1>5, <1>6, <1>7

(* Awake in the waiting loop of step(): the head of the queue enters the   *)
(* core, a step() that finds the executor closed ends, another one waits.  *)
LEMMA ExecutorByStepTurn ==
  ASSUME ExecutorInv, NEW t \in Stepper, StepTurn(t)
  PROVE  ExecutorInv'
<1> USE Roles DEF ExecutorInv
<1>1. /\ pc[t] = "turn" /\ t \notin waiting
      /\ UNCHANGED <<closed, coreClosed, nextItem, future, queued, interrupts>>
  BY DEF StepTurn
<1>2. CASE /\ MyTurn(t)
           /\ queue' = Tail(queue) /\ active' = TRUE /\ Goto(t, "exec")
           /\ UNCHANGED <<waiting, item>>
  <2>1. /\ pc' \in [Thread -> StepperPc \cup CloserPc \cup WorkerPc]
        /\ \A u \in Thread : pc'[u] = IF u = t THEN "exec" ELSE pc[u]
    BY <1>2, GotoIs DEF StepperPc
  <2>2. ~active /\ queue # <<>> /\ queue[1] = item[t] /\ ~closed
    BY <1>2, QueueTail DEF MyTurn, ClosingInv
  <2>3. TypeOK'
    <3>1. waiting' \subseteq {u \in Thread : pc'[u] \in {"turn", "loop", "drain"}}
      BY <1>1, <1>2, <2>1 DEF TypeOK
    <3>2. /\ \A u \in Stepper : pc'[u] \in StepperPc
          /\ \A u \in Closer : pc'[u] \in CloserPc
          /\ pc'[WorkerThread] \in WorkerPc
      BY <2>1 DEF TypeOK, StepperPc
    <3> QED
      BY <1>1, <1>2, <2>1, <2>2, <3>1, <3>2, QueueTail DEF TypeOK
  <2>4. ItemsInv'
    BY <1>1, <1>2, <2>1 DEF ItemsInv
  <2>5. QueueInv'
    BY <1>1, <1>2, <2>2, QueueTail DEF QueueInv
  <2>6. Users' = {t} /\ Users = {}
    <3>1. Users = {}
      BY <2>2 DEF OneAtATime
    <3>2. ASSUME NEW u \in Stepper \cup {WorkerThread}
          PROVE  u \in Users' <=> u = t
      BY <1>1, <1>2, <2>1, <3>1 DEF Users, ItemsInv
    <3> QED
      BY <3>1, <3>2 DEF Users
  <2>7. OneAtATime'
    BY <1>2, <2>6 DEF OneAtATime
  <2>8. FifoOrder'
    BY <1>2, <2>2, <2>6, QueueTail DEF FifoOrder
  <2>9. ClosingInv'
    BY <1>1, <2>1, <2>2 DEF ClosingInv
  <2>10. FuturesInv'
    <3>1. ASSUME NEW i \in Item, future'[i] = "pending"
          PROVE  \/ \E k \in DOMAIN queue' : queue'[k] = i
                 \/ \E u \in Closer : pc'[u] \in {"drain", "cancel"} /\ i \in queued'[u]
                 \/ pc'[WorkerThread] = "claim" /\ item'[WorkerThread] = i
      <4>1. future[queue[1]] = "sync"
        BY <1>1, <2>2 DEF SyncInv, ItemsInv
      <4> QED
        BY <1>1, <1>2, <2>1, <2>2, <3>1, <4>1, QueueTail DEF FuturesInv
    <3> QED
      BY <1>1, <1>2, <2>1, <3>1 DEF FuturesInv
  <2>11. SyncInv'
    BY <1>1, <1>2 DEF SyncInv
  <2> QED
    BY <2>3, <2>4, <2>5, <2>7, <2>8, <2>9, <2>10, <2>11
<1>3. CASE /\ ~MyTurn(t) /\ closed
           /\ queue' = RemoveFirst(queue, item[t])
           /\ item' = [item EXCEPT ![t] = 0] /\ Goto(t, "idle")
           /\ UNCHANGED <<active, waiting>>
  <2>1. /\ pc' \in [Thread -> StepperPc \cup CloserPc \cup WorkerPc]
        /\ \A u \in Thread : pc'[u] = IF u = t THEN "idle" ELSE pc[u]
    BY <1>3, GotoIs DEF StepperPc
  <2>2. /\ item' \in [Thread -> Item \cup {0}]
        /\ \A u \in Thread : item'[u] = IF u = t THEN 0 ELSE item[u]
    BY <1>3, ItemIs
  <2>3. queue = <<>> /\ queue' = queue
    <3>1. queue = <<>>
      BY <1>3 DEF ClosingInv
    <3>2. RemoveFirst(<<>>, item[t]) = <<>>
      BY DEF RemoveFirst
    <3> QED
      BY <1>3, <3>1, <3>2
  <2>4. waiting' \in SUBSET (waiting \ {t}) /\ interrupts' \in 0..MaxInterrupts
    BY <1>1, <1>3 DEF TypeOK
  <2> QED
    BY <1>1, <1>3, <2>1, <2>2, <2>3, <2>4, QuitKeeps
<1>4. CASE /\ ~MyTurn(t) /\ ~closed
           /\ waiting' = waiting \cup {t}
           /\ UNCHANGED <<queue, active, item, pc>>
  <2>1. TypeOK'
    BY <1>1, <1>4 DEF TypeOK
  <2>2. Users' = Users
    BY <1>4 DEF Users
  <2> QED
    BY <1>1, <1>4, <2>1, <2>2
    DEF ItemsInv, QueueInv, SyncInv, OneAtATime, FifoOrder, ClosingInv, FuturesInv
<1> QED
  BY <1>2, <1>3, <1>4 DEF StepTurn

(* An exception in condition.wait(): the item of the step() stays queued,  *)
(* and belongs to nobody.                                                  *)
LEMMA ExecutorByStepInterrupt ==
  ASSUME ExecutorInv, NEW t \in Stepper, StepInterrupt(t)
  PROVE  ExecutorInv'
<1> USE Roles DEF ExecutorInv
<1>1. /\ pc[t] = "turn" /\ waiting' \in SUBSET (waiting \ {t})
      /\ UNCHANGED <<queue, active, closed, coreClosed, nextItem, future, queued>>
  BY DEF StepInterrupt, Unwound, sharedVars
<1>2. interrupts' \in 0..MaxInterrupts
  BY ThreadAssumption DEF StepInterrupt, TypeOK
<1>3. /\ pc' \in [Thread -> StepperPc \cup CloserPc \cup WorkerPc]
      /\ \A u \in Thread : pc'[u] = IF u = t THEN "idle" ELSE pc[u]
  BY GotoIs DEF StepInterrupt, StepperPc
<1>4. /\ item' \in [Thread -> Item \cup {0}]
      /\ \A u \in Thread : item'[u] = IF u = t THEN 0 ELSE item[u]
  BY ItemIs DEF StepInterrupt
<1> QED
  BY <1>1, <1>2, <1>3, <1>4, QuitKeeps

(* Whoever used the core leaves it: everybody who waits is woken, and      *)
(* nobody uses it.                                                         *)
LEMMA ReleaseKeeps ==
  ASSUME ExecutorInv, NEW t \in Users, NEW label, Release(t), Goto(t, label),
         \/ t \in Stepper /\ label = "idle"
         \/ t = WorkerThread /\ label = "loop" /\ pc[t] = "settled",
         UNCHANGED <<queue, closed, coreClosed, nextItem, future, queued, interrupts>>
  PROVE  ExecutorInv'
<1> USE Roles DEF ExecutorInv
<1>1. t \in Thread /\ (t \in Stepper \/ t = WorkerThread) /\ \A u \in Users : u = t
  BY UsersAre
<1>2. active' = FALSE /\ waiting' = {}
  BY DEF Release, NotifyAll
<1>3. /\ pc' \in [Thread -> StepperPc \cup CloserPc \cup WorkerPc]
      /\ \A u \in Thread : pc'[u] = IF u = t THEN label ELSE pc[u]
  BY <1>1, GotoIs DEF StepperPc, WorkerPc
<1>4. /\ item' \in [Thread -> Item \cup {0}]
      /\ \A u \in Thread : item'[u] = IF u = t THEN 0 ELSE item[u]
  BY <1>1, ItemIs DEF Release
<1>5. TypeOK'
  <2>1. /\ \A u \in Stepper : pc'[u] \in StepperPc
        /\ \A u \in Closer : pc'[u] \in CloserPc
        /\ pc'[WorkerThread] \in WorkerPc
    BY <1>1, <1>3 DEF TypeOK, StepperPc, WorkerPc
  <2> QED
    BY <1>2, <1>3, <1>4, <2>1 DEF TypeOK
<1>6. ItemsInv' /\ SyncInv'
  BY <1>1, <1>3, <1>4 DEF ItemsInv, SyncInv
<1>7. QueueInv'
  <2>1. \A u \in Thread : item'[u] < nextItem'
    BY <1>4, Items DEF QueueInv
  <2> QED
    BY <2>1 DEF QueueInv
<1>8. Users' = {}
  <2>1. ASSUME NEW u \in Users' PROVE FALSE
    <3>1. u \in Thread /\ u # t /\ u \in Users
      BY <1>3, <1>4, <2>1 DEF Users
    <3> QED
      BY <1>1, <3>1
  <2> QED
    BY <2>1
<1>9. OneAtATime' /\ FifoOrder'
  BY <1>2, <1>8 DEF OneAtATime, FifoOrder
<1>10. ClosingInv'
  BY <1>1, <1>2, <1>3 DEF ClosingInv
<1>11. FuturesInv'
  BY <1>1, <1>3, <1>4, UsersAre DEF FuturesInv
<1> QED
  BY <1>5, <1>6, <1>7, <1>9, <1>10, <1>11

(* The end of a request of step(), and that of one of the worker thread.   *)
LEMMA ExecutorByRelease ==
  ASSUME ExecutorInv, (\E t \in Stepper : StepDone(t)) \/ WorkerRelease
  PROVE  ExecutorInv'
<1>1. CASE \E t \in Stepper : StepDone(t)
  <2>1. PICK t \in Stepper : StepDone(t)
    BY <1>1
  <2>2. t \in Users
    BY <2>1, UsersAre DEF StepDone
  <2> QED
    BY <2>1, <2>2, ReleaseKeeps DEF StepDone
<1>2. CASE WorkerRelease
  <2>1. WorkerThread \in Users
    BY <1>2, UsersAre DEF WorkerRelease
  <2> QED
    BY <1>2, <2>1, ReleaseKeeps DEF WorkerRelease
<1> QED
  BY <1>1, <1>2

(* submit(): the item goes to the end of the queue, and the first one      *)
(* starts the worker thread.                                               *)
LEMMA ExecutorBySubmit ==
  ASSUME ExecutorInv, Submit
  PROVE  ExecutorInv'
<1> USE Roles DEF ExecutorInv
<1>1. PICK i \in Item : i = nextItem
  BY Items DEF Submit
<1>2. /\ ~closed /\ nextItem' = i + 1 /\ nextItem' \in 1..(MaxItem + 1) /\ waiting' = {}
      /\ UNCHANGED <<active, closed, coreClosed, item, queued, interrupts>>
  BY <1>1, Items DEF Submit, NotifyAll, sharedVars
<1>3. /\ future' \in [Item -> FutureState]
      /\ \A j \in Item : future'[j] = IF j = i THEN "pending" ELSE future[j]
  BY <1>1, FutureIs DEF Submit, FutureState
<1>4. /\ pc' \in [Thread -> StepperPc \cup CloserPc \cup WorkerPc]
      /\ \A u \in Thread : \/ pc'[u] = pc[u]
                           \/ u = WorkerThread /\ pc[u] = "none" /\ pc'[u] = "loop"
  <2>1. CASE pc[WorkerThread] = "none" /\ Goto(WorkerThread, "loop")
    BY <2>1, GotoIs DEF WorkerPc
  <2>2. CASE UNCHANGED pc
    BY <2>2 DEF TypeOK
  <2> QED
    BY <2>1, <2>2 DEF Submit
<1>5. /\ queue' \in Seq(Item)
      /\ \A k \in DOMAIN queue : k \in DOMAIN queue' /\ queue'[k] = queue[k]
      /\ \A k \in DOMAIN queue' : \/ k \in DOMAIN queue
                                  \/ queue'[k] = i /\ \A j \in DOMAIN queue : j < k
      /\ \E k \in DOMAIN queue' : queue'[k] = i
  <2>1. queue' = Append(queue, i) /\ queue \in Seq(Item)
    BY <1>1 DEF Submit, TypeOK
  <2> QED
    BY <2>1, AppendIs
<1>6. TypeOK'
  <2>2. /\ \A u \in Stepper : pc'[u] \in StepperPc
        /\ \A u \in Closer : pc'[u] \in CloserPc
        /\ pc'[WorkerThread] \in WorkerPc
    BY <1>4 DEF TypeOK, WorkerPc
  <2> QED
    BY <1>2, <1>3, <1>4, <1>5, <2>2 DEF TypeOK
<1>7. ItemsInv'
  BY <1>2, <1>4 DEF ItemsInv
<1>8. QueueInv'
  <2>1. ASSUME NEW k \in DOMAIN queue' PROVE queue'[k] < nextItem'
    BY <1>1, <1>2, <1>5, <2>1, Items DEF QueueInv
  <2>2. ASSUME NEW u \in Thread PROVE item'[u] < nextItem'
    BY <1>1, <1>2, <2>2, Items DEF QueueInv
  <2>3. ASSUME NEW j \in DOMAIN queue', NEW k \in DOMAIN queue', j < k PROVE queue'[j] < queue'[k]
    <3>1. CASE k \in DOMAIN queue /\ j \in DOMAIN queue
      BY <1>5, <2>3, <3>1 DEF QueueInv
    <3>2. CASE k \notin DOMAIN queue /\ j \in DOMAIN queue
      BY <1>1, <1>5, <3>2 DEF QueueInv
    <3>3. CASE j \notin DOMAIN queue
      <4>1. queue' = Append(queue, i) /\ queue \in Seq(Item)
        BY <1>1 DEF TypeOK, Submit
      <4>2. PICK n \in Nat : n = Len(queue)
        BY <4>1
      <4>3. DOMAIN queue = 1..n /\ DOMAIN queue' = 1..(n + 1)
        BY <4>1, <4>2
      <4> QED
        BY <2>3, <3>3, <4>2, <4>3
    <3> QED
      BY <3>1, <3>2, <3>3
  <2>4. \A j \in Item : j >= nextItem' => future'[j] = "none"
    BY <1>1, <1>2, <1>3, Items DEF QueueInv
  <2> QED
    BY <2>1, <2>2, <2>3, <2>4 DEF QueueInv
<1>9. SyncInv'
  <2>1. \A u \in Thread : item[u] \in Item \cup {0} /\ item[u] # i
    BY <1>1, Items DEF QueueInv, TypeOK
  <2> QED
    BY <1>2, <1>3, <2>1 DEF SyncInv
<1>10. Users' = Users /\ Users \subseteq Thread
  BY <1>2, <1>4 DEF Users, ItemsInv
<1>11. OneAtATime'
  BY <1>2, <1>10 DEF OneAtATime
<1>12. FifoOrder'
  <2>1. ASSUME NEW u \in Users, NEW k \in DOMAIN queue' PROVE item[u] < queue'[k]
    BY <1>1, <1>5, <1>10, <2>1 DEF FifoOrder, QueueInv
  <2> QED
    BY <1>2, <1>10, <2>1 DEF FifoOrder
<1>13. ClosingInv'
  BY <1>2, <1>4 DEF ClosingInv
<1>14. FuturesInv'
  BY <1>2, <1>3, <1>4, <1>5 DEF FuturesInv
<1> QED
  BY <1>6, <1>7, <1>8, <1>9, <1>11, <1>12, <1>13, <1>14

(* The worker thread takes the head of the queue, ends, or waits.          *)
LEMMA ExecutorByWorkerLoop ==
  ASSUME ExecutorInv, WorkerLoop
  PROVE  ExecutorInv'
<1> DEFINE w == WorkerThread
<1> USE Roles DEF ExecutorInv
<1>1. /\ pc[w] = "loop" /\ w \notin waiting
      /\ UNCHANGED <<closed, coreClosed, nextItem, future, queued, interrupts>>
  BY DEF WorkerLoop
<1>2. CASE closed /\ ~active /\ Goto(w, "exit") /\ UNCHANGED <<queue, active, item, waiting>>
  <2>1. /\ pc' \in [Thread -> StepperPc \cup CloserPc \cup WorkerPc]
        /\ \A u \in Thread : pc'[u] = IF u = w THEN "exit" ELSE pc[u]
    BY <1>2, GotoIs DEF WorkerPc
  <2>2. TypeOK'
    <3>1. waiting' \subseteq {u \in Thread : pc'[u] \in {"turn", "loop", "drain"}}
      BY <1>1, <1>2, <2>1 DEF TypeOK
    <3>2. /\ \A u \in Stepper : pc'[u] \in StepperPc
          /\ \A u \in Closer : pc'[u] \in CloserPc
          /\ pc'[WorkerThread] \in WorkerPc
      BY <2>1 DEF TypeOK, WorkerPc
    <3> QED
      BY <1>1, <1>2, <2>1, <3>1, <3>2 DEF TypeOK
  <2>3. ItemsInv' /\ SyncInv' /\ QueueInv'
    BY <1>1, <1>2, <2>1 DEF ItemsInv, SyncInv, QueueInv
  <2>4. Users' = Users
    BY <1>1, <1>2, <2>1 DEF Users, ItemsInv
  <2>5. OneAtATime' /\ FifoOrder'
    BY <1>2, <2>4 DEF OneAtATime, FifoOrder
  <2>6. ClosingInv' /\ FuturesInv'
    BY <1>1, <1>2, <2>1 DEF ClosingInv, FuturesInv
  <2> QED
    BY <2>2, <2>3, <2>5, <2>6
<1>3. CASE \E k \in {n \in DOMAIN queue : WorkerTakes(n)} :
             /\ queue' = RemoveAt(queue, k) /\ active' = TRUE
             /\ item' = [item EXCEPT ![w] = queue[k]] /\ Goto(w, "claim")
             /\ UNCHANGED waiting
  <2>1. PICK k \in DOMAIN queue :
          /\ ~active /\ k = 1 /\ future[queue[k]] # "sync"
          /\ queue' = RemoveAt(queue, k) /\ active' = TRUE
          /\ item' = [item EXCEPT ![w] = queue[k]] /\ Goto(w, "claim")
          /\ UNCHANGED waiting
    BY <1>3 DEF WorkerTakes, Async
  <2>2. queue # <<>> /\ queue' = Tail(queue) /\ ~closed
    <3>1. queue # <<>> /\ ~closed /\ queue \in Seq(Item)
      BY <2>1 DEF ClosingInv, TypeOK
    <3> QED
      BY <2>1, <3>1 DEF RemoveAt
  <2>3. PICK i \in Item : i = queue[1] /\ future[i] # "sync"
    BY <2>1, <2>2, QueueTail
  <2>4. /\ pc' \in [Thread -> StepperPc \cup CloserPc \cup WorkerPc]
        /\ \A u \in Thread : pc'[u] = IF u = w THEN "claim" ELSE pc[u]
    BY <2>1, GotoIs DEF WorkerPc
  <2>5. /\ item' \in [Thread -> Item \cup {0}]
        /\ \A u \in Thread : item'[u] = IF u = w THEN i ELSE item[u]
    BY <2>1, <2>3, ItemIs
  <2>6. TypeOK'
    <3>1. waiting' \subseteq {u \in Thread : pc'[u] \in {"turn", "loop", "drain"}}
      BY <1>1, <2>1, <2>4 DEF TypeOK
    <3>2. /\ \A u \in Stepper : pc'[u] \in StepperPc
          /\ \A u \in Closer : pc'[u] \in CloserPc
          /\ pc'[WorkerThread] \in WorkerPc
      BY <2>4 DEF TypeOK, WorkerPc
    <3> QED
      BY <1>1, <2>1, <2>2, <2>4, <2>5, <3>1, <3>2, QueueTail DEF TypeOK
  <2>7. ItemsInv' /\ SyncInv'
    BY <1>1, <2>3, <2>4, <2>5, Items DEF ItemsInv, SyncInv
  <2>8. QueueInv'
    <3>1. \A u \in Thread : item'[u] < nextItem'
      BY <1>1, <2>2, <2>3, <2>5, QueueTail DEF QueueInv
    <3> QED
      BY <1>1, <2>2, <3>1, QueueTail DEF QueueInv
  <2>9. Users = {} /\ Users' = {w}
    <3>1. Users = {}
      BY <2>1 DEF OneAtATime
    <3>2. ASSUME NEW u \in Stepper \cup {WorkerThread} PROVE u \in Users' <=> u = w
      BY <2>3, <2>4, <2>5, <3>1, Items DEF Users
    <3> QED
      BY <3>1, <3>2 DEF Users
  <2>10. OneAtATime' /\ FifoOrder'
    BY <2>1, <2>2, <2>3, <2>5, <2>9, QueueTail DEF OneAtATime, FifoOrder
  <2>11. ClosingInv'
    BY <1>1, <2>2, <2>4 DEF ClosingInv
  <2>12. FuturesInv'
    <3>1. ASSUME NEW j \in Item, future'[j] = "pending"
          PROVE  \/ \E n \in DOMAIN queue' : queue'[n] = j
                 \/ \E u \in Closer : pc'[u] \in {"drain", "cancel"} /\ j \in queued'[u]
                 \/ pc'[w] = "claim" /\ item'[w] = j
      BY <1>1, <2>2, <2>3, <2>4, <2>5, <3>1, QueueTail DEF FuturesInv
    <3>2. ASSUME NEW j \in Item, future'[j] = "running" PROVE FALSE
      BY <1>1, <3>2 DEF FuturesInv
    <3> QED
      BY <3>1, <3>2 DEF FuturesInv
  <2> QED
    BY <2>6, <2>7, <2>8, <2>10, <2>11, <2>12
<1>4. CASE waiting' = waiting \cup {w} /\ UNCHANGED <<queue, active, item, pc>>
  <2>1. TypeOK'
    BY <1>1, <1>4 DEF TypeOK
  <2>2. Users' = Users
    BY <1>4 DEF Users
  <2> QED
    BY <1>1, <1>4, <2>1, <2>2
    DEF ItemsInv, QueueInv, SyncInv, OneAtATime, FifoOrder, ClosingInv, FuturesInv
<1> QED
  BY <1>2, <1>3, <1>4 DEF WorkerLoop

(* Only the futures change, and the program points of the worker thread    *)
(* while it uses the core or of close() while nobody does.                 *)
LEMMA FuturesKeep ==
  ASSUME ExecutorInv,
         pc' \in [Thread -> StepperPc \cup CloserPc \cup WorkerPc],
         \A t \in Thread :
           \/ pc'[t] = pc[t]
           \/ t = WorkerThread /\ pc[t] \in {"claim", "exec"} /\ pc'[t] \in {"exec", "settled"}
           \/ t \in Closer /\ pc[t] = "cancel" /\ pc'[t] = "join",
         future' \in [Item -> FutureState],
         \A i \in Item : \/ future'[i] = future[i]
                         \/ future[i] # "sync" /\ future'[i] # "sync" /\ i < nextItem,
         queued' \in [Closer -> SUBSET Item],
         UNCHANGED <<queue, active, closed, coreClosed, nextItem, waiting, item, interrupts>>
  PROVE  /\ TypeOK' /\ ItemsInv' /\ QueueInv' /\ SyncInv'
         /\ OneAtATime' /\ FifoOrder' /\ ClosingInv'
<1> USE Roles DEF ExecutorInv
<1>1. TypeOK'
  <2>1. waiting' \subseteq {u \in Thread : pc'[u] \in {"turn", "loop", "drain"}}
    BY DEF TypeOK
  <2>2. /\ \A u \in Stepper : pc'[u] \in StepperPc
        /\ \A u \in Closer : pc'[u] \in CloserPc
        /\ pc'[WorkerThread] \in WorkerPc
    BY DEF TypeOK, WorkerPc, CloserPc
  <2> QED
    BY <2>1, <2>2 DEF TypeOK
<1>2. ItemsInv'
  BY DEF ItemsInv
<1>3. QueueInv'
  <2>1. \A i \in Item : i >= nextItem' => future'[i] = "none"
    BY Items DEF QueueInv
  <2> QED
    BY <2>1 DEF QueueInv
<1>4. SyncInv'
  <2>1. \A t \in Thread : item[t] # 0 => item[t] \in Item
    BY DEF TypeOK
  <2> QED
    BY <2>1 DEF SyncInv
<1>5. Users' = Users
  BY DEF Users, ItemsInv
<1>6. OneAtATime' /\ FifoOrder'
  BY <1>5 DEF OneAtATime, FifoOrder
<1>7. ClosingInv'
  <2>1. \A t, u \in Closer :
          pc'[t] \notin {"idle", "done"} /\ pc'[u] \notin {"idle", "done"} => t = u
    BY DEF ClosingInv
  <2> QED
    BY <2>1 DEF ClosingInv
<1> QED
  BY <1>1, <1>2, <1>3, <1>4, <1>6, <1>7

(* The worker thread claims a future, which it runs or finds cancelled.    *)
LEMMA ExecutorByWorkerClaim ==
  ASSUME ExecutorInv, WorkerClaim
  PROVE  ExecutorInv'
<1> DEFINE w == WorkerThread
<1> USE Roles DEF ExecutorInv
<1>1. /\ pc[w] = "claim"
      /\ UNCHANGED <<queue, active, closed, coreClosed, nextItem, waiting, item, queued, interrupts>>
  BY DEF WorkerClaim, sharedVars
<1>2. PICK i \in Item : i = item[w] /\ i < nextItem /\ future[i] # "sync"
  BY <1>1 DEF ItemsInv, TypeOK, QueueInv, SyncInv
<1>3. CASE future[i] = "cancelled" /\ Goto(w, "settled") /\ UNCHANGED future
  <2>1. /\ pc' \in [Thread -> StepperPc \cup CloserPc \cup WorkerPc]
        /\ \A u \in Thread : pc'[u] = IF u = w THEN "settled" ELSE pc[u]
    BY <1>3, GotoIs DEF WorkerPc
  <2>2. future' \in [Item -> FutureState] /\ queued' \in [Closer -> SUBSET Item]
    BY <1>1, <1>3 DEF TypeOK
  <2>3. /\ TypeOK' /\ ItemsInv' /\ QueueInv' /\ SyncInv'
        /\ OneAtATime' /\ FifoOrder' /\ ClosingInv'
    BY <1>1, <1>3, <2>1, <2>2, FuturesKeep
  <2>4. FuturesInv'
    BY <1>1, <1>2, <1>3, <2>1 DEF FuturesInv
  <2> QED
    BY <2>3, <2>4
<1>4. CASE future' = [future EXCEPT ![item[w]] = "running"] /\ Goto(w, "exec")
  <2>1. /\ pc' \in [Thread -> StepperPc \cup CloserPc \cup WorkerPc]
        /\ \A u \in Thread : pc'[u] = IF u = w THEN "exec" ELSE pc[u]
    BY <1>4, GotoIs DEF WorkerPc
  <2>2. /\ future' \in [Item -> FutureState]
        /\ \A j \in Item : future'[j] = IF j = i THEN "running" ELSE future[j]
    BY <1>2, <1>4, FutureIs DEF FutureState
  <2>3. /\ TypeOK' /\ ItemsInv' /\ QueueInv' /\ SyncInv'
        /\ OneAtATime' /\ FifoOrder' /\ ClosingInv'
    <3>1. queued' \in [Closer -> SUBSET Item]
      BY <1>1 DEF TypeOK
    <3> QED
      BY <1>1, <1>2, <2>1, <2>2, <3>1, FuturesKeep
  <2>4. FuturesInv'
    BY <1>1, <1>2, <2>1, <2>2 DEF FuturesInv
  <2> QED
    BY <2>3, <2>4
<1> QED
  BY <1>2, <1>3, <1>4 DEF WorkerClaim

(* The worker thread resolves the future.                                  *)
LEMMA ExecutorByWorkerResult ==
  ASSUME ExecutorInv, WorkerResult
  PROVE  ExecutorInv'
<1> DEFINE w == WorkerThread
<1> USE Roles DEF ExecutorInv
<1>1. /\ pc[w] = "exec" /\ Goto(w, "settled")
      /\ UNCHANGED <<queue, active, closed, coreClosed, nextItem, waiting, item, queued, interrupts>>
  BY DEF WorkerResult, sharedVars
<1>2. PICK i \in Item : i = item[w] /\ i < nextItem /\ future[i] # "sync"
  BY <1>1 DEF ItemsInv, TypeOK, QueueInv, SyncInv
<1>3. /\ pc' \in [Thread -> StepperPc \cup CloserPc \cup WorkerPc]
      /\ \A u \in Thread : pc'[u] = IF u = w THEN "settled" ELSE pc[u]
  BY <1>1, GotoIs DEF WorkerPc
<1>4. /\ future' \in [Item -> FutureState]
      /\ \A j \in Item : future'[j] = IF j = i THEN "done" ELSE future[j]
  BY <1>2, FutureIs DEF FutureState, WorkerResult
<1>5. /\ TypeOK' /\ ItemsInv' /\ QueueInv' /\ SyncInv'
      /\ OneAtATime' /\ FifoOrder' /\ ClosingInv'
  <2>1. queued' \in [Closer -> SUBSET Item]
    BY <1>1 DEF TypeOK
  <2> QED
    BY <1>1, <1>2, <1>3, <1>4, <2>1, FuturesKeep
<1>6. FuturesInv'
  BY <1>1, <1>2, <1>3, <1>4 DEF FuturesInv
<1> QED
  BY <1>5, <1>6

(* A caller cancels a future that nobody runs.                             *)
LEMMA ExecutorByCancel ==
  ASSUME ExecutorInv, NEW i \in Item, Cancel(i)
  PROVE  ExecutorInv'
<1> USE Roles DEF ExecutorInv
<1>1. /\ future[i] = "pending"
      /\ UNCHANGED <<queue, active, closed, coreClosed, nextItem, waiting, pc, item, queued, interrupts>>
  BY DEF Cancel, sharedVars
<1>2. /\ future' \in [Item -> FutureState]
      /\ \A j \in Item : future'[j] = IF j = i THEN "cancelled" ELSE future[j]
  BY FutureIs DEF FutureState, Cancel
<1>3. /\ TypeOK' /\ ItemsInv' /\ QueueInv' /\ SyncInv'
      /\ OneAtATime' /\ FifoOrder' /\ ClosingInv'
  <2>1. /\ queued' \in [Closer -> SUBSET Item]
        /\ pc' \in [Thread -> StepperPc \cup CloserPc \cup WorkerPc]
    BY <1>1 DEF TypeOK
  <2>2. i < nextItem
    BY <1>1, Items DEF QueueInv
  <2> QED
    BY <1>1, <1>2, <2>1, <2>2, FuturesKeep
<1>4. FuturesInv'
  BY <1>1, <1>2 DEF FuturesInv
<1> QED
  BY <1>3, <1>4

(* close() cancels what it took out of the queue: no future is left that   *)
(* is not resolved.                                                        *)
LEMMA ExecutorByCloseCancel ==
  ASSUME ExecutorInv, NEW t \in Closer, CloseCancel(t)
  PROVE  ExecutorInv'
<1> USE Roles DEF ExecutorInv
<1>1. /\ pc[t] = "cancel" /\ Goto(t, "join")
      /\ UNCHANGED <<queue, active, closed, coreClosed, nextItem, waiting, item, interrupts>>
  BY DEF CloseCancel, sharedVars
<1>2. /\ pc' \in [Thread -> StepperPc \cup CloserPc \cup WorkerPc]
      /\ \A u \in Thread : pc'[u] = IF u = t THEN "join" ELSE pc[u]
  BY <1>1, GotoIs DEF CloserPc
<1>3. /\ future' = [i \in Item |-> IF i \in queued[t] /\ future[i] = "pending"
                                  THEN "cancelled" ELSE future[i]]
      /\ queued' = [queued EXCEPT ![t] = {}]
  BY DEF CloseCancel, CancelQueued
<1>4. future' \in [Item -> FutureState] /\ queued' \in [Closer -> SUBSET Item]
  BY <1>3 DEF TypeOK, FutureState
<1>5. \A i \in Item : future'[i] = IF i \in queued[t] /\ future[i] = "pending"
                                   THEN "cancelled" ELSE future[i]
  BY <1>3
<1>6. /\ TypeOK' /\ ItemsInv' /\ QueueInv' /\ SyncInv'
      /\ OneAtATime' /\ FifoOrder' /\ ClosingInv'
  <2>1. \A i \in Item : \/ future'[i] = future[i]
                        \/ future[i] # "sync" /\ future'[i] # "sync" /\ i < nextItem
    BY <1>5, Items DEF QueueInv
  <2> QED
    BY <1>1, <1>2, <1>4, <2>1, FuturesKeep
<1>7. closed /\ ~active /\ queue = <<>> /\ \A u \in Closer : pc[u] \in {"drain", "cancel"} => u = t
  BY <1>1 DEF ClosingInv
<1>8. pc[WorkerThread] \notin {"claim", "exec"}
  BY <1>7, UsersAre
<1>9. FuturesInv'
  BY <1>1, <1>5, <1>7, <1>8 DEF FuturesInv
<1> QED
  BY <1>6, <1>9

(* close() finds the executor closed, or empties the queue and waits for   *)
(* whoever uses the core.                                                  *)
LEMMA ExecutorByCloseCall ==
  ASSUME ExecutorInv, NEW t \in Closer, CloseCall(t)
  PROVE  ExecutorInv'
<1> USE Roles DEF ExecutorInv
<1>1. pc[t] = "idle" /\ UNCHANGED <<active, coreClosed, nextItem, future, item, interrupts>>
  BY DEF CloseCall
<1>2. PICK label \in {"done", "cancel", "drain"} :
        /\ Goto(t, label)
        /\ label = "done" => closed /\ UNCHANGED <<queue, closed, queued, waiting>>
        /\ label # "done" => /\ ~closed /\ closed' = TRUE /\ queue' = <<>>
                             /\ queued' = [queued EXCEPT ![t] = ToSet(queue)]
        /\ label = "cancel" => ~active /\ waiting' = {}
        /\ label = "drain" => waiting' = {t}
  BY DEF CloseCall, Drained, NotifyAll
<1>3. /\ pc' \in [Thread -> StepperPc \cup CloserPc \cup WorkerPc]
      /\ \A u \in Thread : pc'[u] = IF u = t THEN label ELSE pc[u]
  BY <1>2, GotoIs DEF CloserPc
<1>4. closed' = TRUE /\ queue' = <<>>
  BY <1>2 DEF ClosingInv, TypeOK
<1>5. /\ queued' \in [Closer -> SUBSET Item]
      /\ label # "done" => \A k \in DOMAIN queue : queue[k] \in queued'[t]
  <2>1. ToSet(queue) \in SUBSET Item /\ \A k \in DOMAIN queue : queue[k] \in ToSet(queue)
    BY DEF ToSet, TypeOK
  <2> QED
    BY <1>2, <2>1 DEF TypeOK
<1>6. \A u \in Closer : u # t => queued'[u] = queued[u]
  BY <1>2 DEF TypeOK
<1>7. TypeOK'
  <2>1. waiting' \subseteq {u \in Thread : pc'[u] \in {"turn", "loop", "drain"}}
    BY <1>1, <1>2, <1>3 DEF TypeOK
  <2>2. /\ \A u \in Stepper : pc'[u] \in StepperPc
        /\ \A u \in Closer : pc'[u] \in CloserPc
        /\ pc'[WorkerThread] \in WorkerPc
    BY <1>3 DEF TypeOK, CloserPc
  <2>3. queue' \in Seq(Item) /\ closed' \in BOOLEAN
    BY <1>4
  <2> QED
    BY <1>1, <1>3, <1>5, <2>1, <2>2, <2>3 DEF TypeOK
<1>8. ItemsInv' /\ SyncInv'
  BY <1>1, <1>3 DEF ItemsInv, SyncInv
<1>9. QueueInv'
  BY <1>1, <1>4 DEF QueueInv
<1>10. Users' = Users
  BY <1>1, <1>3 DEF Users
<1>11. OneAtATime' /\ FifoOrder'
  BY <1>1, <1>4, <1>10 DEF OneAtATime, FifoOrder
<1>12. ClosingInv'
  <2>1. label # "done" => \A u \in Closer : pc[u] = "idle"
    BY <1>2 DEF ClosingInv
  <2>2. coreClosed' => label = "done"
    BY <1>1, <1>2 DEF ClosingInv
  <2>3. \A u, v \in Closer :
          pc'[u] \notin {"idle", "done"} /\ pc'[v] \notin {"idle", "done"} => u = v
    BY <1>3, <2>1 DEF ClosingInv
  <2>4. \A u \in Closer : pc'[u] \in {"cancel", "join", "core"} => ~active'
    BY <1>1, <1>2, <1>3 DEF ClosingInv
  <2> QED
    BY <1>1, <1>3, <1>4, <2>2, <2>3, <2>4 DEF ClosingInv
<1>13. FuturesInv'
  <2>1. ASSUME NEW i \in Item, future'[i] = "pending"
        PROVE  \/ \E k \in DOMAIN queue' : queue'[k] = i
               \/ \E u \in Closer : pc'[u] \in {"drain", "cancel"} /\ i \in queued'[u]
               \/ pc'[WorkerThread] = "claim" /\ item'[WorkerThread] = i
    <3>1. CASE \E k \in DOMAIN queue : queue[k] = i
      <4>1. label # "done"
        BY <1>2, <3>1 DEF ClosingInv
      <4> QED
        BY <1>2, <1>3, <1>5, <3>1, <4>1
    <3>2. CASE \E u \in Closer : pc[u] \in {"drain", "cancel"} /\ i \in queued[u]
      BY <1>1, <1>3, <1>6, <3>2
    <3>3. CASE pc[WorkerThread] = "claim" /\ item[WorkerThread] = i
      BY <1>1, <1>3, <3>3
    <3> QED
      BY <1>1, <2>1, <3>1, <3>2, <3>3 DEF FuturesInv
  <2> QED
    BY <1>1, <1>3, <2>1 DEF FuturesInv
<1> QED
  BY <1>7, <1>8, <1>9, <1>11, <1>12, <1>13

(* close() goes on: it waits again for the core, finds it free, closes it, *)
(* and comes back.                                                         *)
LEMMA ExecutorByCloseRest ==
  ASSUME ExecutorInv, NEW t \in Closer, CloseDrain(t) \/ CloseJoin(t) \/ CloseDone(t)
  PROVE  ExecutorInv'
<1> USE Roles DEF ExecutorInv
<1>1. UNCHANGED <<queue, active, closed, nextItem, future, item, queued, interrupts>>
  BY DEF CloseDrain, CloseJoin, CloseDone, sharedVars
<1>2. CASE CloseDrain(t) /\ ~Drained
  <2>1. pc[t] = "drain" /\ waiting' = waiting \cup {t} /\ UNCHANGED <<pc, coreClosed>>
    BY <1>2 DEF CloseDrain, sharedVars
  <2>2. TypeOK'
    BY <1>1, <2>1 DEF TypeOK
  <2>3. Users' = Users
    BY <1>1, <2>1 DEF Users
  <2> QED
    BY <1>1, <2>1, <2>2, <2>3
    DEF ItemsInv, QueueInv, SyncInv, OneAtATime, FifoOrder, ClosingInv, FuturesInv
<1>3. CASE (CloseDrain(t) /\ Drained) \/ CloseJoin(t) \/ CloseDone(t)
  <2>1. PICK label \in {"cancel", "core", "done"} :
          /\ Goto(t, label) /\ waiting' = waiting /\ t \notin waiting
          /\ label = "cancel" => pc[t] = "drain" /\ ~active /\ coreClosed' = coreClosed
          /\ label = "core" => pc[t] = "join" /\ coreClosed' = TRUE
          /\ label = "done" => pc[t] = "core" /\ coreClosed' = coreClosed
    BY <1>3 DEF CloseDrain, CloseJoin, CloseDone, sharedVars, Drained, TypeOK
  <2>2. /\ pc' \in [Thread -> StepperPc \cup CloserPc \cup WorkerPc]
        /\ \A u \in Thread : pc'[u] = IF u = t THEN label ELSE pc[u]
    BY <2>1, GotoIs DEF CloserPc
  <2>3. TypeOK'
    <3>1. waiting' \subseteq {u \in Thread : pc'[u] \in {"turn", "loop", "drain"}}
      BY <2>1, <2>2 DEF TypeOK
    <3>2. /\ \A u \in Stepper : pc'[u] \in StepperPc
          /\ \A u \in Closer : pc'[u] \in CloserPc
          /\ pc'[WorkerThread] \in WorkerPc
      BY <2>2 DEF TypeOK, CloserPc
    <3>3. coreClosed' \in BOOLEAN
      BY <2>1 DEF TypeOK
    <3> QED
      BY <1>1, <2>2, <3>1, <3>2, <3>3 DEF TypeOK
  <2>4. ItemsInv' /\ SyncInv' /\ QueueInv'
    BY <1>1, <2>2 DEF ItemsInv, SyncInv, QueueInv
  <2>5. Users' = Users
    BY <1>1, <2>2 DEF Users
  <2>6. OneAtATime' /\ FifoOrder'
    BY <1>1, <2>5 DEF OneAtATime, FifoOrder
  <2>7. ClosingInv'
    <3>1. closed /\ \A u \in Closer : u # t => pc[u] \in {"idle", "done"}
      BY <2>1 DEF ClosingInv
    <3>2. \A u, v \in Closer :
            pc'[u] \notin {"idle", "done"} /\ pc'[v] \notin {"idle", "done"} => u = v
      BY <2>2, <3>1
    <3>3. \A u \in Closer : pc'[u] \in {"cancel", "join", "core"} => ~active'
      BY <1>1, <2>1, <2>2, <3>1 DEF ClosingInv
    <3>4. coreClosed' => ~active' /\ \A u \in Closer : pc'[u] \in {"idle", "core", "done"}
      BY <1>1, <2>1, <2>2, <3>1 DEF ClosingInv
    <3> QED
      BY <1>1, <3>1, <3>2, <3>3, <3>4 DEF ClosingInv
  <2>8. FuturesInv'
    BY <1>1, <2>1, <2>2 DEF FuturesInv
  <2> QED
    BY <2>3, <2>4, <2>6, <2>7, <2>8
<1> QED
  BY <1>2, <1>3

(* Every step of the executor keeps its invariant.                         *)
LEMMA ExecutorByNext ==
  ASSUME ExecutorInv, [Next]_vars
  PROVE  ExecutorInv'
<1>1. CASE Requests
  BY <1>1, ExecutorByStepCall, ExecutorByStepInterrupt, ExecutorBySubmit, ExecutorByCancel,
     ExecutorByCloseCall DEF Requests
<1>2. CASE Own
  <2>1. CASE \E t \in Stepper : StepTurn(t)
    BY <2>1, ExecutorByStepTurn
  <2>2. CASE Working
    BY <2>2, ExecutorByWorkerLoop, ExecutorByWorkerClaim, ExecutorByRelease DEF Working
  <2>3. CASE \E t \in Closer : Closing(t)
    BY <2>3, ExecutorByCloseRest, ExecutorByCloseCancel DEF Closing
  <2> QED
    BY <1>2, <2>1, <2>2, <2>3 DEF Own, Waiting
<1>3. CASE \E t \in Thread : CoreReturns(t)
  BY <1>3, ExecutorByRelease, ExecutorByWorkerResult, ExecutorByCloseRest DEF CoreReturns
<1>4. CASE UNCHANGED vars
  <2>1. UNCHANGED <<queue, active, closed, coreClosed, nextItem, future, waiting, pc, item,
                    queued, interrupts>>
    BY <1>4 DEF vars, sharedVars
  <2>2. TypeOK' /\ Users' = Users
    BY <2>1 DEF ExecutorInv, TypeOK, Users
  <2> QED
    BY <2>1, <2>2 DEF ExecutorInv, ItemsInv, QueueInv, SyncInv, OneAtATime, FifoOrder,
                      ClosingInv, FuturesInv
<1> QED
  BY <1>1, <1>2, <1>3, <1>4 DEF Next

(* The executor as it is created.                                          *)
LEMMA ExecutorAtStart ==
  ASSUME Init
  PROVE  ExecutorInv
<1> USE Roles DEF Init
<1>1. TypeOK
  <2>1. nextItem \in 1..(MaxItem + 1) /\ interrupts \in 0..MaxInterrupts
    BY ThreadAssumption
  <2>2. /\ future \in [Item -> FutureState]
        /\ pc \in [Thread -> StepperPc \cup CloserPc \cup WorkerPc]
        /\ item \in [Thread -> Item \cup {0}] /\ queued \in [Closer -> SUBSET Item]
    BY DEF StepperPc, WorkerPc, FutureState
  <2>3. /\ \A t \in Stepper : pc[t] \in StepperPc
        /\ \A t \in Closer : pc[t] \in CloserPc
        /\ pc[WorkerThread] \in WorkerPc
    BY DEF StepperPc, CloserPc, WorkerPc
  <2>4. queue \in Seq(Item) /\ waiting = {}
    OBVIOUS
  <2>5. active \in BOOLEAN /\ closed \in BOOLEAN /\ coreClosed \in BOOLEAN
    OBVIOUS
  <2> HIDE DEF Init
  <2> QED
    BY <2>1, <2>2, <2>3, <2>4, <2>5 DEF TypeOK
<1>2. Users = {}
  BY DEF Users
<1>3. ItemsInv /\ SyncInv /\ ClosingInv /\ FuturesInv
  BY DEF ItemsInv, SyncInv, ClosingInv, FuturesInv
<1>4. QueueInv
  BY DEF QueueInv
<1>5. OneAtATime /\ FifoOrder
  BY <1>2 DEF OneAtATime, FifoOrder
<1> QED
  BY <1>1, <1>3, <1>4, <1>5 DEF ExecutorInv

(* A step of the engine is a step of its executor or does not touch it.    *)
LEMMA EngineStepIsExecutors == [EngineNext]_engineVars => [Next]_vars
<1>1. ASSUME EngineNext PROVE [Next]_vars
  BY <1>1 DEF EngineNext, Next, Enter, Return, TrainerCall, Running, Terminated, engineVars
<1>2. ASSUME UNCHANGED engineVars PROVE UNCHANGED vars
  BY <1>2 DEF engineVars
<1> QED
  BY <1>1, <1>2

(* The executor's specification is what the engine implements, and its     *)
(* invariant holds there.                                                  *)
LEMMA ExecutorAlways == EngineSpec => []ExecutorInv
<1>1. EngineInit => ExecutorInv
  BY ExecutorAtStart DEF EngineInit
<1>2. ExecutorInv /\ [EngineNext]_engineVars => ExecutorInv'
  BY EngineStepIsExecutors, ExecutorByNext
<1> QED
  BY <1>1, <1>2, PTL DEF EngineSpec

(* What close() guarantees follows from where everybody is.                *)
LEMMA CloseFromInv ==
  ASSUME ExecutorInv
  PROVE  CloseCorrect
<1>1. ASSUME coreClosed, NEW t \in Thread PROVE pc[t] # "exec"
  <2>1. Users = {}
    BY <1>1 DEF ExecutorInv, ClosingInv, OneAtATime
  <2> QED
    BY <1>1, <2>1, Roles, UsersAre DEF ExecutorInv, TypeOK, CloserPc
<1>2. ASSUME coreClosed, NEW i \in Item PROVE future[i] \notin {"pending", "running"}
  <2>1. queue = <<>> /\ \A t \in Closer : pc[t] \notin {"drain", "cancel"}
    BY <1>2 DEF ExecutorInv, ClosingInv
  <2>2. pc[WorkerThread] \notin {"claim", "exec"}
    BY <1>2, UsersAre DEF ExecutorInv, ClosingInv
  <2> QED
    BY <2>1, <2>2 DEF ExecutorInv, FuturesInv
<1> QED
  BY <1>1, <1>2 DEF CloseCorrect, NoUseAfterClose, ClosedSettlesFutures

(* step() in any number of caller threads and the worker thread of         *)
(* submit() enter the core one at a time, in the order in which their      *)
(* requests were accepted, whatever is interrupted, cancelled or closed.   *)
THEOREM TurnsAreTaken == EngineSpec => []TurnsCorrect
<1>1. ExecutorInv => TurnsCorrect
  BY DEF ExecutorInv, TurnsCorrect
<1> QED
  BY <1>1, ExecutorAlways, PTL

(* core.close() is called when nobody is in the core, nobody enters it     *)
(* afterwards, and no future is left that nobody would resolve, however    *)
(* many threads close the executor.                                        *)
THEOREM CloseSettles == EngineSpec => []CloseCorrect
<1>1. ExecutorInv => CloseCorrect
  BY CloseFromInv
<1> QED
  BY <1>1, ExecutorAlways, PTL

-----------------------------------------------------------------------------
(* A thread moves in the core: the others stay, and the types hold.        *)
LEMMA CoreGotoIs ==
  ASSUME CoreTypeOK, NEW t \in CoreThread,
         NEW label \in Calls \cup Holding \cup {"out", "over", "in", "closeEntry"},
         CoreGoto(t, label)
  PROVE  /\ cpc' \in [CoreThread -> Calls \cup Holding \cup {"out", "over", "in", "closeEntry"}]
         /\ \A u \in CoreThread : cpc'[u] = IF u = t THEN label ELSE cpc[u]
  BY DEF CoreGoto, CoreTypeOK

(* The end of a call, of a trainer or of a thread of the executor.         *)
LEMMA OverIs ==
  ASSUME NEW t, Over(t)
  PROVE  \E label \in {"out", "over"} : CoreGoto(t, label)
  BY DEF Over

(* Who uses the model lock after a thread has moved.                       *)
LEMMA LockUsersMove ==
  ASSUME NEW t \in CoreThread, NEW label,
         \A u \in CoreThread : cpc'[u] = IF u = t THEN label ELSE cpc[u]
  PROVE  LockUsers' = IF label \in {"in", "beginEntry", "closeEntry"}
                      THEN LockUsers \cup {t} ELSE LockUsers \ {t}
  BY DEF LockUsers

(* A thread that moves to a place where it needs nothing, or to one inside *)
(* _weight_update_lock with what that place needs, changes nothing else.   *)
LEMMA CoreByMove ==
  ASSUME CoreInv, NEW t \in CoreThread, NEW label \in Calls \cup {"out", "over", "beginModel", "finishing"},
         CoreGoto(t, label), cpc[t] \notin {"in", "beginEntry", "closeEntry"},
         label \in Holding => UpdateLockFree,
         label = "beginModel" => update = "idle" /\ ~coreShut,
         label = "finishing" => update \in Open,
         UNCHANGED <<modelLock, update, version, coreShut, entryOpen, session, weights>>
  PROVE  CoreInv'
<1> USE DEF CoreInv
<1>1. /\ cpc' \in [CoreThread -> Calls \cup Holding \cup {"out", "over", "in", "closeEntry"}]
      /\ \A u \in CoreThread : cpc'[u] = IF u = t THEN label ELSE cpc[u]
  <2>1. label \in Calls \cup Holding \cup {"out", "over", "in", "closeEntry"}
    BY DEF Holding
  <2> QED
    BY <2>1, CoreGotoIs
<1>2. CoreTypeOK'
  BY <1>1 DEF CoreTypeOK
<1>3. UpdateInv'
  <2>1. \A u, v \in CoreThread : cpc'[u] \in Holding /\ cpc'[v] \in Holding => u = v
    BY <1>1 DEF UpdateInv, UpdateLockFree
  <2> QED
    BY <1>1, <2>1 DEF UpdateInv, Calls
<1>4. LockUsers' = LockUsers
  <2>1. t \notin LockUsers /\ label \notin {"in", "beginEntry", "closeEntry"}
    BY DEF LockUsers, Calls
  <2> QED
    BY <1>1, <2>1, LockUsersMove
<1>5. LockInv' /\ ShutInv'
  BY <1>4 DEF LockInv, ShutInv
<1>6. PluginReady'
  <2>1. label = "finishing" => entryOpen
    BY DEF ShutInv
  <2> QED
    BY <1>1, <2>1 DEF PluginReady, WholeWeights, EntryOpen, Calls
<1> QED
  BY <1>2, <1>3, <1>5, <1>6

(* The model lock is taken while nobody has it: by a step on usable        *)
(* weights, by begin, or by close().                                       *)
LEMMA CoreByModelLock ==
  ASSUME CoreInv, NEW t \in CoreThread, NEW label \in {"in", "beginEntry", "closeEntry"},
         CoreGoto(t, label), ~modelLock, modelLock' = TRUE,
         label = "in" => cpc[t] = "step" /\ Usable,
         label = "beginEntry" => cpc[t] = "beginModel",
         label = "closeEntry" => cpc[t] = "closeModel",
         UNCHANGED <<update, version, coreShut, entryOpen, session, weights>>
  PROVE  CoreInv'
<1> USE DEF CoreInv
<1>1. /\ cpc' \in [CoreThread -> Calls \cup Holding \cup {"out", "over", "in", "closeEntry"}]
      /\ \A u \in CoreThread : cpc'[u] = IF u = t THEN label ELSE cpc[u]
  <2>1. label \in Calls \cup Holding \cup {"out", "over", "in", "closeEntry"}
    BY DEF Holding
  <2> QED
    BY <2>1, CoreGotoIs
<1>2. CoreTypeOK'
  BY <1>1 DEF CoreTypeOK
<1>3. UpdateInv'
  <2>1. \A u, v \in CoreThread : cpc'[u] \in Holding /\ cpc'[v] \in Holding => u = v
    BY <1>1 DEF UpdateInv, Holding
  <2> QED
    BY <1>1, <2>1 DEF UpdateInv
<1>4. LockUsers = {} /\ update \notin Open
  BY DEF LockInv
<1>5. LockUsers' = {t}
  BY <1>1, <1>4, LockUsersMove
<1>6. LockInv' /\ ShutInv'
  BY <1>4, <1>5 DEF LockInv, ShutInv
<1>7. PluginReady'
  <2>1. label = "in" => weights \in {version, Mixed} /\ entryOpen
    BY <1>4 DEF Usable, ShutInv, CoreTypeOK
  <2>2. label = "beginEntry" => entryOpen
    BY DEF ShutInv, UpdateInv
  <2> QED
    BY <1>1, <2>1, <2>2 DEF PluginReady, WholeWeights, EntryOpen
<1> QED
  BY <1>2, <1>3, <1>6, <1>7

(* step() or rollout_step() returns.                                       *)
LEMMA CoreByLeave ==
  ASSUME CoreInv, NEW t \in CoreThread, CoreLeave(t)
  PROVE  CoreInv'
<1> USE DEF CoreInv
<1>1. PICK label \in {"out", "over"} : CoreGoto(t, label)
  BY OverIs DEF CoreLeave
<1>2. /\ cpc' \in [CoreThread -> Calls \cup Holding \cup {"out", "over", "in", "closeEntry"}]
      /\ \A u \in CoreThread : cpc'[u] = IF u = t THEN label ELSE cpc[u]
  BY <1>1, CoreGotoIs
<1>3. /\ cpc[t] = "in" /\ modelLock' = FALSE
      /\ UNCHANGED <<update, version, coreShut, entryOpen, session, weights>>
  BY DEF CoreLeave
<1>4. CoreTypeOK'
  BY <1>2, <1>3 DEF CoreTypeOK
<1>5. UpdateInv'
  <2>1. \A u, v \in CoreThread : cpc'[u] \in Holding /\ cpc'[v] \in Holding => u = v
    BY <1>2 DEF UpdateInv, Holding
  <2> QED
    BY <1>2, <1>3, <2>1 DEF UpdateInv
<1>6. LockUsers = {t} /\ update \notin Open
  <2>1. t \in LockUsers
    BY <1>3 DEF LockUsers
  <2> QED
    BY <2>1 DEF LockInv
<1>7. LockUsers' = {}
  BY <1>2, <1>6, LockUsersMove
<1>8. LockInv' /\ ShutInv'
  BY <1>3, <1>6, <1>7 DEF LockInv, ShutInv
<1>9. PluginReady'
  BY <1>2, <1>3 DEF PluginReady, WholeWeights, EntryOpen
<1> QED
  BY <1>4, <1>5, <1>8, <1>9

(* begin_weight_update() hands the model lock to the update, or returns it *)
(* when the plugin refuses.                                                *)
LEMMA CoreByBeginEntry ==
  ASSUME CoreInv, NEW t \in CoreThread, BeginEntry(t)
  PROVE  CoreInv'
<1> USE DEF CoreInv
<1>1. PICK label \in {"out", "over"} : CoreGoto(t, label)
  BY OverIs DEF BeginEntry
<1>2. /\ cpc' \in [CoreThread -> Calls \cup Holding \cup {"out", "over", "in", "closeEntry"}]
      /\ \A u \in CoreThread : cpc'[u] = IF u = t THEN label ELSE cpc[u]
  BY <1>1, CoreGotoIs
<1>3. cpc[t] = "beginEntry" /\ UNCHANGED <<version, coreShut, entryOpen, weights>>
  BY DEF BeginEntry
<1>4. LockUsers = {t} /\ update = "idle" /\ ~coreShut /\ modelLock = TRUE
  <2>1. t \in LockUsers
    BY <1>3 DEF LockUsers
  <2> QED
    BY <1>3, <2>1 DEF LockInv, UpdateInv, CoreTypeOK
<1>5. \/ session' = "empty" /\ update' = "clean" /\ modelLock' = modelLock
      \/ modelLock' = FALSE /\ session' = session /\ update' = update
  BY DEF BeginEntry
<1>6. \A u \in CoreThread : cpc'[u] \notin Holding
  BY <1>2, <1>3 DEF UpdateInv, Holding
<1>7. CoreTypeOK'
  BY <1>2, <1>3, <1>4, <1>5 DEF CoreTypeOK, Open
<1>8. UpdateInv'
  <2>1. \A u \in CoreThread : cpc'[u] # "closeEntry"
    BY <1>2, <1>4 DEF UpdateInv
  <2> QED
    BY <1>6, <2>1 DEF UpdateInv, Holding
<1>9. LockUsers' = {}
  BY <1>2, <1>4, LockUsersMove
<1>10. LockInv' /\ ShutInv'
  BY <1>3, <1>4, <1>5, <1>9 DEF LockInv, ShutInv, Open
<1>11. PluginReady'
  BY <1>2, <1>3 DEF PluginReady, WholeWeights, EntryOpen
<1> QED
  BY <1>7, <1>8, <1>10, <1>11

(* update_weights() marks the update dirty before a tensor is written.     *)
LEMMA CoreByUpdateLock ==
  ASSUME CoreInv, NEW t \in CoreThread, UpdateLock(t)
  PROVE  CoreInv'
<1> USE DEF CoreInv
<1>1. CASE update \notin Open
  <2>1. PICK label \in {"out", "over"} : CoreGoto(t, label)
    BY <1>1, OverIs DEF UpdateLock
  <2> QED
    BY <1>1, <2>1, CoreByMove DEF UpdateLock, Holding
<1>2. CASE update \in Open
  <2>1. /\ cpc[t] = "update" /\ UpdateLockFree /\ update' = "dirty" /\ CoreGoto(t, "load")
        /\ UNCHANGED <<modelLock, version, coreShut, entryOpen, session, weights>>
    BY <1>2 DEF UpdateLock
  <2>2. /\ cpc' \in [CoreThread -> Calls \cup Holding \cup {"out", "over", "in", "closeEntry"}]
        /\ \A u \in CoreThread : cpc'[u] = IF u = t THEN "load" ELSE cpc[u]
    BY <2>1, CoreGotoIs DEF Holding
  <2>3. CoreTypeOK'
    BY <1>2, <2>1, <2>2 DEF CoreTypeOK, Open
  <2>4. UpdateInv'
    <3>1. \A u \in CoreThread : cpc'[u] \in Holding => u = t
      BY <2>1, <2>2 DEF UpdateLockFree
    <3> QED
      BY <2>1, <2>2, <3>1 DEF UpdateInv, Holding, Open
  <2>5. LockUsers' = {} /\ LockUsers = {}
    BY <1>2, <2>2, LockUsersMove DEF LockInv
  <2>6. LockInv' /\ ShutInv'
    BY <1>2, <2>1, <2>5 DEF LockInv, ShutInv, Open
  <2>7. PluginReady'
    BY <1>2, <2>1, <2>2 DEF PluginReady, WholeWeights, EntryOpen, ShutInv
  <2> QED
    BY <2>3, <2>4, <2>6, <2>7
<1> QED
  BY <1>1, <1>2

(* Tensors are written while nobody can be in a step.                      *)
LEMMA CoreByLoad ==
  ASSUME CoreInv, NEW t \in CoreThread, Load(t)
  PROVE  CoreInv'
<1> USE DEF CoreInv
<1>1. PICK label \in {"out", "over"} : CoreGoto(t, label)
  BY OverIs DEF Load
<1>2. /\ cpc' \in [CoreThread -> Calls \cup Holding \cup {"out", "over", "in", "closeEntry"}]
      /\ \A u \in CoreThread : cpc'[u] = IF u = t THEN label ELSE cpc[u]
  BY <1>1, CoreGotoIs
<1>3. cpc[t] = "load" /\ UNCHANGED <<modelLock, update, version, coreShut, entryOpen>>
  BY DEF Load
<1>4. weights' \in {weights, Partial, Torn} /\ session' \in {session, "loaded"}
  BY DEF Load
<1>5. update = "dirty" /\ LockUsers = {}
  BY <1>3 DEF UpdateInv, LockInv, Open
<1>6. CoreTypeOK'
  BY <1>2, <1>3, <1>4, <1>5 DEF CoreTypeOK, Open
<1>7. UpdateInv'
  <2>1. \A u \in CoreThread : cpc'[u] \notin Holding
    BY <1>2, <1>3 DEF UpdateInv, Holding
  <2> QED
    BY <1>2, <1>3, <2>1 DEF UpdateInv, Holding
<1>8. LockUsers' = {}
  BY <1>2, <1>5, LockUsersMove
<1>9. LockInv' /\ ShutInv'
  BY <1>3, <1>5, <1>8 DEF LockInv, ShutInv, Open
<1>10. PluginReady'
  <2>1. \A u \in CoreThread : cpc'[u] # "in"
    BY <1>8 DEF LockUsers
  <2> QED
    BY <1>2, <1>3, <2>1 DEF PluginReady, WholeWeights, EntryOpen
<1> QED
  BY <1>6, <1>7, <1>9, <1>10

(* finish_weight_update() ends the update and gives the model lock back,   *)
(* with weights committed as a version or an engine that refuses steps.    *)
LEMMA CoreByFinish ==
  ASSUME CoreInv, NEW t \in CoreThread, Finish(t)
  PROVE  CoreInv'
<1> USE DEF CoreInv
<1>1. PICK label \in {"out", "over"} : CoreGoto(t, label)
  BY OverIs DEF Finish
<1>2. /\ cpc' \in [CoreThread -> Calls \cup Holding \cup {"out", "over", "in", "closeEntry"}]
      /\ \A u \in CoreThread : cpc'[u] = IF u = t THEN label ELSE cpc[u]
  BY <1>1, CoreGotoIs
<1>3. /\ cpc[t] = "finishing" /\ session' = "none" /\ modelLock' = FALSE
      /\ UNCHANGED <<coreShut, entryOpen>>
  BY DEF Finish
<1>4. update \in Open /\ LockUsers = {}
  BY <1>3 DEF UpdateInv, LockInv
<1>5. /\ version' \in Nat /\ weights' \in Nat \cup {Partial, Torn, Mixed} /\ update' \in {"idle", "poisoned"}
      /\ update' = "idle" => weights' \in {version', Mixed}
  <2>1. CASE /\ update' = "idle" /\ version' \in {version + 1} \cup GivenVersion
             /\ weights' \in {version', Mixed}
    BY <2>1, TrainerAssumption DEF CoreTypeOK, Mixed
  <2>2. CASE update' = AfterFailure /\ UNCHANGED <<version, weights>>
    BY <1>4, <2>2 DEF CoreTypeOK, ShutInv, AfterFailure, Open
  <2> QED
    BY <2>1, <2>2 DEF Finish
<1>6. CoreTypeOK'
  BY <1>2, <1>3, <1>5 DEF CoreTypeOK, Open
<1>7. UpdateInv'
  <2>1. \A u \in CoreThread : cpc'[u] \notin Holding
    BY <1>2, <1>3 DEF UpdateInv, Holding
  <2> QED
    BY <1>2, <1>3, <2>1 DEF UpdateInv, Holding
<1>8. LockUsers' = {}
  BY <1>2, <1>4, LockUsersMove
<1>9. LockInv' /\ ShutInv'
  BY <1>3, <1>5, <1>8 DEF LockInv, ShutInv, Open
<1>10. PluginReady'
  <2>1. \A u \in CoreThread : cpc'[u] # "in"
    BY <1>8 DEF LockUsers
  <2> QED
    BY <1>2, <1>3, <2>1 DEF PluginReady, WholeWeights, EntryOpen
<1> QED
  BY <1>6, <1>7, <1>9, <1>10

(* An open update is given up: the lock is free, and a dirty one leaves an *)
(* engine that refuses steps.                                              *)
LEMMA AbortIs ==
  ASSUME CoreInv, AbortLocked, UNCHANGED <<version, weights>>
  PROVE  /\ update' \in {"idle", "poisoned"} /\ session' = "none"
         /\ update' = "idle" => weights' \in {version', Mixed}
         /\ modelLock' \in BOOLEAN /\ (modelLock' <=> LockUsers # {})
<1> USE DEF CoreInv
<1>1. CASE update \in Open
  <2>1. update' = AfterFailure /\ session' = "none" /\ modelLock' = FALSE /\ LockUsers = {}
    BY <1>1 DEF AbortLocked, LockInv
  <2> QED
    BY <1>1, <2>1 DEF AfterFailure, ShutInv, Open
<1>2. CASE update \notin Open
  <2>1. UNCHANGED <<update, session, modelLock>>
    BY <1>2 DEF AbortLocked
  <2>2. update \in {"idle", "poisoned"} /\ session = "none"
    BY <1>2 DEF CoreTypeOK
  <2> QED
    BY <1>2, <2>1, <2>2 DEF CoreTypeOK, LockInv, ShutInv
<1> QED
  BY <1>1, <1>2

(* abort_weight_update(), and close() up to the model lock.                *)
LEMMA CoreByAbort ==
  ASSUME CoreInv, NEW t \in CoreThread, NEW label \in {"out", "over", "closeModel"},
         CoreGoto(t, label), cpc[t] \in {"abort", "close"}, UpdateLockFree, AbortLocked,
         label = "closeModel" => coreShut' = TRUE,
         label # "closeModel" => coreShut' = coreShut,
         UNCHANGED <<version, entryOpen, weights>>
  PROVE  CoreInv'
<1> USE DEF CoreInv
<1>1. /\ cpc' \in [CoreThread -> Calls \cup Holding \cup {"out", "over", "in", "closeEntry"}]
      /\ \A u \in CoreThread : cpc'[u] = IF u = t THEN label ELSE cpc[u]
  <2>1. label \in Calls \cup Holding \cup {"out", "over", "in", "closeEntry"}
    BY DEF Holding
  <2> QED
    BY <2>1, CoreGotoIs
<1>2. /\ update' \in {"idle", "poisoned"} /\ session' = "none"
      /\ update' = "idle" => weights' \in {version', Mixed}
      /\ modelLock' \in BOOLEAN /\ (modelLock' <=> LockUsers # {})
  BY AbortIs
<1>3. coreShut' \in BOOLEAN /\ (coreShut => coreShut')
  <2>1. CASE label = "closeModel"
    BY <2>1
  <2>2. CASE label # "closeModel"
    BY <2>2 DEF CoreTypeOK
  <2> QED
    BY <2>1, <2>2
<1>4. CoreTypeOK'
  BY <1>1, <1>2, <1>3 DEF CoreTypeOK, Open
<1>5. UpdateInv'
  <2>1. \A u \in CoreThread : cpc'[u] \in Holding => u = t /\ label = "closeModel"
    BY <1>1 DEF UpdateLockFree, Holding
  <2> QED
    BY <1>1, <1>3, <2>1 DEF UpdateInv, Holding
<1>6. LockUsers' = LockUsers
  <2>1. t \notin LockUsers
    BY DEF LockUsers
  <2> QED
    BY <1>1, <2>1, LockUsersMove
<1>7. LockInv' /\ ShutInv'
  BY <1>2, <1>3, <1>6 DEF LockInv, ShutInv, Open
<1>8. PluginReady'
  BY <1>1 DEF PluginReady, WholeWeights, EntryOpen
<1> QED
  BY <1>4, <1>5, <1>7, <1>8

(* The plugin is closed, alone, and the model lock given back.             *)
LEMMA CoreByCloseEntry ==
  ASSUME CoreInv, NEW t \in CoreThread, CloseEntry(t)
  PROVE  CoreInv'
<1> USE DEF CoreInv
<1>1. PICK label \in {"out", "over"} : CoreGoto(t, label)
  BY OverIs DEF CloseEntry
<1>2. /\ cpc' \in [CoreThread -> Calls \cup Holding \cup {"out", "over", "in", "closeEntry"}]
      /\ \A u \in CoreThread : cpc'[u] = IF u = t THEN label ELSE cpc[u]
  BY <1>1, CoreGotoIs
<1>3. /\ cpc[t] = "closeEntry" /\ entryOpen' = FALSE /\ session' = "none" /\ modelLock' = FALSE
      /\ UNCHANGED <<update, version, coreShut, weights>>
  BY DEF CloseEntry
<1>4. LockUsers = {t} /\ update \notin Open /\ coreShut
  <2>1. t \in LockUsers
    BY <1>3 DEF LockUsers
  <2> QED
    BY <1>3, <2>1 DEF LockInv, UpdateInv
<1>5. CoreTypeOK'
  BY <1>2, <1>3, <1>4 DEF CoreTypeOK
<1>6. UpdateInv'
  <2>1. \A u, v \in CoreThread : cpc'[u] \in Holding /\ cpc'[v] \in Holding => u = v
    BY <1>2 DEF UpdateInv, Holding
  <2> QED
    BY <1>2, <1>3, <2>1 DEF UpdateInv
<1>7. LockUsers' = {}
  BY <1>2, <1>4, LockUsersMove
<1>8. LockInv' /\ ShutInv'
  BY <1>3, <1>4, <1>7 DEF LockInv, ShutInv
<1>9. PluginReady'
  <2>1. \A u \in CoreThread : cpc'[u] \notin {"in", "beginEntry", "closeEntry"}
    BY <1>7 DEF LockUsers
  <2>2. \A u \in CoreThread : cpc'[u] \notin {"load", "finishing"}
    BY <1>2, <1>4 DEF UpdateInv
  <2> QED
    BY <2>1, <2>2 DEF PluginReady, WholeWeights, EntryOpen
<1> QED
  BY <1>5, <1>6, <1>8, <1>9

(* Every step of the core keeps its invariant, whoever takes it.           *)
LEMMA CoreByStep ==
  ASSUME CoreInv, NEW t \in CoreThread, CoreStep(t)
  PROVE  CoreInv'
<1>1. CASE CoreEnter(t)
  <2>1. CASE Usable
    BY <1>1, <2>1, CoreByModelLock DEF CoreEnter
  <2>2. CASE ~Usable
    <3>1. PICK label \in {"out", "over"} : CoreGoto(t, label)
      BY <1>1, <2>2, OverIs DEF CoreEnter
    <3> QED
      BY <1>1, <2>2, <3>1, CoreByMove DEF CoreEnter, Holding
  <2> QED
    BY <2>1, <2>2
<1>2. CASE BeginLock(t)
  <2>1. CASE coreShut \/ update # "idle"
    <3>1. PICK label \in {"out", "over"} : CoreGoto(t, label)
      BY <1>2, <2>1, OverIs DEF BeginLock
    <3> QED
      BY <1>2, <3>1, CoreByMove DEF BeginLock, Holding
  <2>2. CASE ~(coreShut \/ update # "idle")
    BY <1>2, <2>2, CoreByMove DEF BeginLock
  <2> QED
    BY <2>1, <2>2
<1>3. CASE BeginModel(t) \/ CloseModel(t)
  BY <1>3, CoreByModelLock DEF BeginModel, CloseModel
<1>4. CASE FinishLock(t)
  <2>1. CASE update \in Open
    BY <1>4, <2>1, CoreByMove DEF FinishLock
  <2>2. CASE update \notin Open
    <3>1. PICK label \in {"out", "over"} : CoreGoto(t, label)
      BY <1>4, <2>2, OverIs DEF FinishLock
    <3> QED
      BY <1>4, <3>1, CoreByMove DEF FinishLock, Holding
  <2> QED
    BY <2>1, <2>2
<1>5. CASE Abort(t)
  <2>1. PICK label \in {"out", "over"} : CoreGoto(t, label)
    BY <1>5, OverIs DEF Abort
  <2> QED
    BY <1>5, <2>1, CoreByAbort DEF Abort
<1>6. CASE CoreClose(t)
  <2>1. CASE coreShut
    <3>1. PICK label \in {"out", "over"} : CoreGoto(t, label)
      BY <1>6, <2>1, OverIs DEF CoreClose
    <3> QED
      BY <1>6, <2>1, <3>1, CoreByMove DEF CoreClose, Holding
  <2>2. CASE ~coreShut
    BY <1>6, <2>2, CoreByAbort DEF CoreClose
  <2> QED
    BY <2>1, <2>2
<1> QED
  BY <1>1, <1>2, <1>3, <1>4, <1>5, <1>6, CoreByLeave, CoreByBeginEntry, CoreByUpdateLock,
     CoreByLoad, CoreByFinish, CoreByCloseEntry DEF CoreStep

(* A step of the executor that is not a call leaves the core as it is.     *)
LEMMA CoreStutters ==
  ASSUME CoreInv, UNCHANGED coreVars
  PROVE  CoreInv'
<1>1. UNCHANGED <<modelLock, update, version, coreShut, entryOpen, session, weights, cpc>>
  BY DEF coreVars
<1> QED
  BY <1>1 DEF CoreInv, CoreTypeOK, UpdateInv, LockInv, LockUsers, ShutInv, PluginReady,
              WholeWeights, EntryOpen

(* The core keeps its invariant in an engine, between requests of the      *)
(* executor and calls of trainers in any order.                            *)
LEMMA CoreAlways == EngineSpec => []CoreInv
<1>1. EngineInit => CoreInv
  <2> SUFFICES ASSUME EngineInit PROVE CoreInv
    OBVIOUS
  <2>1. /\ modelLock = FALSE /\ update = "idle" /\ version = 0
        /\ coreShut = FALSE /\ entryOpen = TRUE /\ session = "none" /\ weights = 0
        /\ cpc = [t \in CoreThread |-> "out"]
    BY DEF EngineInit, CoreInit
  <2>2. CoreTypeOK
    BY <2>1 DEF CoreTypeOK, Open
  <2>3. LockUsers = {}
    BY <2>1 DEF LockUsers
  <2> QED
    BY <2>1, <2>2, <2>3 DEF CoreInv, UpdateInv, LockInv, ShutInv, PluginReady, WholeWeights,
                            EntryOpen, Holding, Open
<1>2. CoreInv /\ [EngineNext]_engineVars => CoreInv'
  <2> SUFFICES ASSUME CoreInv, [EngineNext]_engineVars PROVE CoreInv'
    OBVIOUS
  <2>1. CASE UNCHANGED coreVars
    BY <2>1, CoreStutters
  <2>2. ASSUME NEW t \in CoreThread, NEW call \in Calls, CoreCall(t, call) PROVE CoreInv'
    BY <2>2, CoreByMove DEF CoreCall, Calls, Holding
  <2>3. ASSUME NEW t \in CoreThread, Return(t) PROVE CoreInv'
    BY <2>3, CoreByMove DEF Return, Holding
  <2>4. ASSUME NEW t \in CoreThread, Running(t) PROVE CoreInv'
    BY <2>4, CoreByStep DEF Running
  <2>5. Thread \subseteq CoreThread /\ Trainer \subseteq CoreThread
    BY TrainerAssumption
  <2>6. ASSUME NEW t \in Thread, Enter(t) PROVE CoreInv'
    BY <2>2, <2>5, <2>6 DEF Enter, Calls
  <2>7. ASSUME NEW t \in Trainer, NEW call \in Calls \ {"close"}, TrainerCall(t, call)
        PROVE  CoreInv'
    BY <2>2, <2>5, <2>7 DEF TrainerCall
  <2> QED
    BY <2>1, <2>3, <2>4, <2>5, <2>6, <2>7 DEF EngineNext, Outside, Terminated, engineVars
<1> QED
  BY <1>1, <1>2, PTL DEF EngineSpec

(* The model lock is held for one reason at a time, and the count of the   *)
(* reasons is at most one.                                                 *)
LEMMA LockFromInv ==
  ASSUME CoreInv
  PROVE  ModelLockOwned
<1>1. Cardinality(LockUsers) + (IF update \in Open THEN 1 ELSE 0) <= 1
  <2>1. CASE LockUsers = {}
    <3>1. Cardinality(LockUsers) = 0
      BY <2>1, FS_EmptySet
    <3> QED
      BY <3>1
  <2>2. CASE LockUsers # {}
    <3>1. PICK t : t \in LockUsers
      BY <2>2
    <3>2. LockUsers = {t} /\ update \notin Open
      BY <3>1 DEF CoreInv, LockInv
    <3>3. Cardinality(LockUsers) = 1
      BY <3>2, FS_Singleton
    <3> QED
      BY <3>2, <3>3
  <2> QED
    BY <2>1, <2>2
<1>2. modelLock <=> LockUsers # {} \/ update \in Open
  BY DEF CoreInv, LockInv
<1> QED
  BY <1>1, <1>2 DEF ModelLockOwned, LockUsers

(* The model lock, which one call takes and another one releases, is held  *)
(* for exactly one step, update or closing of the plugin, and the plugin   *)
(* has a session exactly while the engine has an update.                   *)
THEOREM LockIsCorrect == EngineSpec => []LockCorrect
<1>1. CoreInv => LockCorrect
  BY LockFromInv DEF CoreInv, LockCorrect
<1> QED
  BY <1>1, CoreAlways, PTL

(* No step runs on weights other than those of the version the engine      *)
(* reports, however updates fail, are aborted or closed over, unless a     *)
(* trainer finished an update one of whose batches had raised; and no call *)
(* reaches a plugin that was closed.                                       *)
THEOREM StepsFindWholeWeights == EngineSpec => []PluginReady
<1>1. CoreInv => PluginReady
  BY DEF CoreInv
<1> QED
  BY <1>1, CoreAlways, PTL

=============================================================================
