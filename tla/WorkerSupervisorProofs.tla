----------------------- MODULE WorkerSupervisorProofs -----------------------
(* Theorems about WorkerSupervisor, for every plan, every number of        *)
(* threads, requests and faults, and every pipe size: its types, its       *)
(* request table and counters, and what close() leaves behind; that no     *)
(* future is lost or resolved twice (NoLostFuture, ResolvedOnce), that     *)
(* what the callers see is a fail-fast service (ImplementsService), that   *)
(* the ranks of a replica take requests in the same order (RanksAgree),    *)
(* and that a result is one of all of them (ResultFromAllRanks).           *)
EXTENDS WorkerSupervisor, FiniteSetTheorems, WellFoundedInduction, TLAPS

(* What a thread or a process carries at the places where it uses it. *)
LocalInv ==
  /\ \A c \in Client : pc[c] \in {"lock", "put", "sending"} => send[c].req \in ReqId
  /\ pc[Monitor] \in {"record", "complete"} =>
       mon.worker \in Worker /\ mon.req \in ReqId
  /\ \A w \in Worker : wpc[w] \in {"exec", "hung"} => seen[w] # <<>>
  /\ \A t \in Client \cup {Monitor} : pc[t] = "resolve" => force[t]

(* The inductive invariant behind TypeOK.  The flags are a Boolean matter  *)
(* of their own (FlagStep).                                                *)
Typed == TableType /\ PcType /\ ThreadType /\ ProcessType /\ LocalInv

(* The groups of variables are abbreviations. *)
USE DEF lifeVars, tableVars, shutVars, localVars, pipeVars, procVars, envVars

(* The ranks of a replica (deployment.py) are workers of the plan. *)
LEMMA RanksAreWorkers == \A r : Ranks(r) \in SUBSET Worker
BY DEF Ranks

(* What a dying process leaves in its pipe are still whole messages. *)
LEMMA CutOffType ==
  ASSUME ProcessType, NEW w \in Worker
  PROVE  CutOff(w) \in Seq(WorkerMessage)
<1>1. toParent[w] \in Seq(WorkerMessage)
  BY DEF ProcessType
<1>2. CASE wpc[w] = "send" /\ ~Flushed(toParent[w])
  <2>1. Len(toParent[w]) > 0
    BY <1>1, <1>2, BoundAssumption DEF Flushed
  <2>2. SubSeq(toParent[w], 1, Len(toParent[w]) - 1) \in Seq(WorkerMessage)
    BY <1>1, <2>1
  <2> QED BY <1>2, <2>2 DEF CutOff, Front
<1> QED BY <1>1, <1>2 DEF CutOff

(* The state start() leaves behind is well typed. *)
LEMMA InitType == Init => Typed /\ FlagType
<1> SUFFICES ASSUME Init PROVE Typed /\ FlagType OBVIOUS
<1>1. TableType
  BY BoundAssumption DEF Init, TableType, ReqId, NoRequest, Lifecycle, Done
<1>2. ThreadType
  BY ThreadAssumption DEF Init, ThreadType, Thread, NoSend
<1>6. PcType
  BY ThreadAssumption DEF Init, PcType, Thread, ClientPc, CloserPc, MonitorPc
<1>3. ProcessType
  BY BoundAssumption DEF Init, ProcessType, WorkerPc
<1>4. FlagType
  BY Zenon DEF Init, FlagType
<1>5. LocalInv
  BY ThreadAssumption DEF Init, LocalInv, Thread
<1> QED BY <1>1, <1>2, <1>3, <1>4, <1>5, <1>6 DEF Typed

(* A thread that moves to one of its own program points keeps PcType. *)
LEMMA GotoType ==
  ASSUME PcType, NEW t \in Thread, NEW label, Goto(t, label),
         t \in Client => label \in ClientPc,
         t \in Closer => label \in CloserPc,
         t = Monitor => label \in MonitorPc
  PROVE  PcType'
BY ThreadAssumption DEF PcType, Goto, Thread

(* _shutdown_workers returns to a program point of its caller. *)
LEMMA ReturnType ==
  ASSUME NEW t \in Thread
  PROVE  /\ t \in Client => ReturnPc(t) \in ClientPc
         /\ t \in Closer => ReturnPc(t) \in CloserPc
         /\ t = Monitor => ReturnPc(t) \in MonitorPc
BY ThreadAssumption DEF ReturnPc, Thread, ClientPc, CloserPc, MonitorPc

(* The end of a send in submit() keeps the sender's state typed. *)
LEMMA AfterSendType ==
  ASSUME Typed, NEW c \in Client, AfterSend(c), pc[c] \in {"put", "sending"}
  PROVE  /\ PcType'
         /\ sendLock' \in Client \cup {None}
         /\ send' \in [Client -> [req : ReqId \cup {None}, ranks : SUBSET Worker]]
         /\ \A d \in Client :
              pc'[d] \in {"lock", "put", "sending"} => send'[d].req \in ReqId
         /\ pc'[Monitor] = pc[Monitor]
         /\ \A d \in Client : pc'[d] # "resolve" \/ pc[d] = "resolve"
<1> DEFINE left == send[c].ranks \ {FirstRank(send[c].ranks)}
<1> USE DEF Typed, ThreadType, LocalInv
<1>0. c \in Thread /\ c # Monitor /\ c \notin Closer /\ PcType
  BY ThreadAssumption DEF Thread
<1>1. CASE left = {}
  <2>1. /\ sendLock' = None /\ send' = [send EXCEPT ![c] = NoSend] /\ Goto(c, "idle")
    BY <1>1 DEF AfterSend
  <2>2. PcType'
    BY <1>0, <2>1, GotoType DEF ClientPc
  <2> QED BY <1>0, <2>1, <2>2 DEF NoSend, Goto, PcType
<1>2. CASE left # {}
  <2>1. /\ sendLock' = sendLock /\ send' = [send EXCEPT ![c].ranks = left]
        /\ Goto(c, "put")
    BY <1>2 DEF AfterSend
  <2>2. PcType'
    BY <1>0, <2>1, GotoType DEF ClientPc
  <2>3. left \in SUBSET Worker
    OBVIOUS
  <2> QED BY <1>0, <2>1, <2>2, <2>3 DEF Goto, PcType
<1> QED BY <1>1, <1>2

(* SendPut keeps Typed. *)
LEMMA SendPutType ==
  ASSUME Typed, NEW c \in Client, SendPut(c)
  PROVE  Typed'
<1> DEFINE w == FirstRank(send[c].ranks)
<1>0. c \in Thread /\ c # Monitor /\ c \notin Closer
  BY ThreadAssumption DEF Thread
<1>1. TableType'
  BY DEF SendPut, Typed, TableType
<1>2. ProcessType'
  <2>1. Message("execute", send[c].req) \in ParentMessage
    BY DEF SendPut, Typed, LocalInv, Message, ParentMessage
  <2>2. toWorker' = [toWorker EXCEPT ![w] =
                       Append(toWorker[w], Message("execute", send[c].req))]
    BY DEF SendPut
  <2>3. toWorker' \in [Worker -> Seq(ParentMessage)]
    <3>1. CASE w \in Worker
      <4>1. toWorker[w] \in Seq(ParentMessage)
        BY <3>1 DEF Typed, ProcessType
      <4>2. Append(toWorker[w], Message("execute", send[c].req)) \in Seq(ParentMessage)
        BY <4>1, <2>1
      <4> QED BY <2>2, <4>2 DEF Typed, ProcessType
    <3>2. CASE w \notin Worker
      BY <2>2, <3>2 DEF Typed, ProcessType
    <3> QED BY <3>1, <3>2
  <2> QED BY <2>3 DEF SendPut, Typed, ProcessType
<1>3. CASE Flushed(toWorker'[w])
  <2>1. AfterSend(c) /\ pc[c] \in {"put", "sending"}
    BY <1>3 DEF SendPut
  <2>2. /\ PcType' /\ ThreadType' /\ LocalInv'
    BY <2>1, AfterSendType DEF SendPut, Typed, ThreadType, LocalInv
  <2> QED BY <1>1, <1>2, <2>2 DEF Typed
<1>4. CASE ~Flushed(toWorker'[w])
  <2>1. Goto(c, "sending") /\ UNCHANGED <<sendLock, send>>
    BY <1>4 DEF SendPut
  <2>2. PcType'
    BY <1>0, <2>1, GotoType DEF ClientPc, Typed
  <2> QED BY <1>0, <1>1, <1>2, <2>1, <2>2
          DEF SendPut, Typed, ThreadType, LocalInv, Goto, PcType
<1> QED BY <1>3, <1>4

(* SendReturn keeps Typed. *)
LEMMA SendReturnType ==
  ASSUME Typed, NEW c \in Client, SendReturn(c)
  PROVE  Typed'
<1>1. AfterSend(c) /\ pc[c] \in {"put", "sending"}
  BY DEF SendReturn
<1>2. /\ PcType' /\ ThreadType' /\ LocalInv'
  BY <1>1, AfterSendType DEF SendReturn, Typed, ThreadType, LocalInv
<1>3. TableType' /\ ProcessType'
  BY DEF SendReturn, Typed, TableType, ProcessType
<1> QED BY <1>2, <1>3 DEF Typed

(* MarkFailed keeps Typed. *)
LEMMA MarkFailedType ==
  ASSUME Typed, NEW t \in Thread, MarkFailed(t)
  PROVE  Typed'
<1> USE DEF Typed
<1>1. CASE Ended
  <2>1. Goto(t, ReturnPc(t)) /\ UNCHANGED <<lifeVars, tableVars, held, force>>
    BY <1>1 DEF MarkFailed
  <2>2. PcType'
    BY <2>1, GotoType, ReturnType
  <2>3. LocalInv'
    BY <2>1, ThreadAssumption DEF MarkFailed, LocalInv, Goto, PcType, ReturnPc, Thread
  <2> QED BY <2>1, <2>2, <2>3 DEF MarkFailed, TableType, ThreadType, ProcessType
<1>2. CASE ~Ended
  <2>1. /\ state' = "failed" /\ TakePending(t) /\ Goto(t, "resolve")
        /\ force' = [force EXCEPT ![t] = TRUE]
    BY <1>2 DEF MarkFailed
  <2>2. t \in Client \cup {Monitor}
    BY DEF MarkFailed, PcType, CloserPc, Thread
  <2>3. PcType'
    BY <2>1, <2>2, GotoType, ThreadAssumption DEF ClientPc, MonitorPc
  <2>4. TableType'
    BY <2>1 DEF TakePending, TableType, Lifecycle, MarkFailed
  <2>5. ThreadType'
    BY <2>1 DEF TakePending, TableType, ThreadType, MarkFailed
  <2>6. LocalInv'
    BY <2>1, <2>2, ThreadAssumption
       DEF MarkFailed, LocalInv, Goto, PcType, ThreadType, Thread
  <2> QED BY <2>3, <2>4, <2>5, <2>6 DEF MarkFailed, ProcessType
<1> QED BY <1>1, <1>2

(* CloseBegin keeps Typed. *)
LEMMA CloseBeginType ==
  ASSUME Typed, NEW t \in Closer, CloseBegin(t)
  PROVE  Typed'
<1> USE DEF Typed
<1>0. t \in Thread /\ t # Monitor /\ t \notin Client
  BY ThreadAssumption DEF Thread
<1>1. CASE state = "stopped"
  <2>1. Goto(t, "done") /\ UNCHANGED <<state, tableVars, held, force>>
    BY <1>1 DEF CloseBegin
  <2>2. PcType'
    BY <1>0, <2>1, GotoType DEF CloserPc
  <2> QED BY <1>0, <2>1, <2>2 DEF CloseBegin, TableType, ThreadType, ProcessType,
             LocalInv, Goto, PcType
<1>2. CASE state # "stopped"
  <2>1. /\ state' = IF state = "failed" THEN "failed" ELSE "stopping"
        /\ TakePending(t) /\ Goto(t, "resolve")
    BY <1>2 DEF CloseBegin
  <2>2. force' = [force EXCEPT ![t] = (state = "failed")]
    BY <1>2 DEF CloseBegin
  <2>3. PcType'
    BY <1>0, <2>1, GotoType DEF CloserPc
  <2>4. TableType'
    <3>1. state' \in Lifecycle
      BY <2>1 DEF Lifecycle
    <3> QED BY <2>1, <3>1 DEF TakePending, TableType, CloseBegin
  <2>5. ThreadType'
    <3>1. force' \in [Thread -> BOOLEAN]
      BY <2>2 DEF ThreadType
    <3> QED BY <2>1, <3>1 DEF TakePending, TableType, ThreadType, CloseBegin
  <2>6. LocalInv'
    BY <1>0, <2>1, <2>2 DEF CloseBegin, LocalInv, Goto, PcType, ThreadType, Thread
  <2> QED BY <2>3, <2>4, <2>5, <2>6 DEF CloseBegin, ProcessType
<1> QED BY <1>1, <1>2

(* Resolve keeps Typed. *)
LEMMA ResolveType ==
  ASSUME Typed, NEW t \in Thread, Resolve(t)
  PROVE  Typed'
<1> USE DEF Typed
<1>1. /\ future' \in [ReqId -> {"none", "running"} \cup Done]
      /\ held' \in [Thread -> SUBSET ReqId]
  BY DEF Resolve, FailHeld, TableType, ThreadType, Done
<1>2. CASE shutOwner = None
  <2>1. CASE force[t]
    <3>1. shutOwner' = t /\ Goto(t, "reap")
      BY <1>2, <2>1 DEF Resolve
    <3>2. PcType'
      BY <3>1, GotoType DEF ClientPc, CloserPc, MonitorPc
    <3> QED BY <1>1, <3>1, <3>2 DEF Resolve, TableType, ThreadType, ProcessType,
               LocalInv, Goto, PcType
  <2>2. CASE ~force[t]
    <3>1. shutOwner' = t /\ Goto(t, "shutSend")
      BY <1>2, <2>2 DEF Resolve
    <3>2. t \in Closer
      BY <2>2 DEF Resolve, LocalInv, Thread
    <3>3. PcType'
      BY <3>1, <3>2, GotoType, ThreadAssumption DEF CloserPc, Thread
    <3> QED BY <1>1, <3>1, <3>3 DEF Resolve, TableType, ThreadType, ProcessType,
               LocalInv, Goto, PcType
  <2> QED BY <2>1, <2>2
<1>3. CASE shutOwner # None
  <2>1. shutOwner' = shutOwner /\ Goto(t, "shutWait")
    BY <1>3 DEF Resolve
  <2>2. PcType'
    BY <2>1, GotoType DEF ClientPc, CloserPc, MonitorPc
  <2> QED BY <1>1, <2>1, <2>2 DEF Resolve, TableType, ThreadType, ProcessType,
             LocalInv, Goto, PcType
<1> QED BY <1>2, <1>3

(* Submit keeps Typed. *)
LEMMA SubmitType ==
  ASSUME Typed, NEW c \in Client, NEW r \in Replica, Submit(c, r)
  PROVE  Typed'
<1> USE DEF Typed
<1>0. c \in Thread /\ c # Monitor /\ c \notin Closer
  BY ThreadAssumption DEF Thread
<1>1. TableType'
  BY RanksAreWorkers, BoundAssumption DEF Submit, TableType, ReqId, Done
<1>2. PcType'
  BY <1>0, GotoType DEF Submit, ClientPc
<1>3. nextId \in ReqId
  BY DEF Submit, TableType, ReqId
<1>4. ThreadType'
  BY <1>3, RanksAreWorkers DEF Submit, ThreadType
<1>5. ProcessType'
  BY DEF Submit, ProcessType
<1>6. LocalInv'
  BY <1>0, <1>3 DEF Submit, Goto, LocalInv, PcType, ThreadType, Thread
<1> QED BY <1>1, <1>2, <1>4, <1>5, <1>6

(* SendLock keeps Typed. *)
LEMMA SendLockType ==
  ASSUME Typed, NEW c \in Client, SendLock(c)
  PROVE  Typed'
<1> USE DEF Typed
<1>0. c \in Thread /\ c # Monitor /\ c \notin Closer
  BY ThreadAssumption DEF Thread
<1>1. TableType'
  BY DEF SendLock, TableType
<1>2. PcType'
  BY <1>0, GotoType DEF SendLock, ClientPc
<1>3. ThreadType'
  BY DEF SendLock, ThreadType
<1>4. ProcessType'
  BY DEF SendLock, ProcessType
<1>5. LocalInv'
  BY <1>0 DEF SendLock, Goto, LocalInv, PcType, Thread
<1> QED BY <1>1, <1>2, <1>3, <1>4, <1>5

(* A send that raises keeps Typed. *)
LEMMA SendAbortsType ==
  ASSUME Typed, NEW c \in Client, SendAborts(c), faults' \in 0..MaxFaults
  PROVE  Typed'
<1> USE DEF Typed
<1>0. c \in Thread /\ c # Monitor /\ c \notin Closer
  BY ThreadAssumption DEF Thread
<1>1. TableType'
  BY DEF SendAborts, TableType
<1>2. PcType'
  BY <1>0, GotoType DEF SendAborts, ClientPc
<1>3. ThreadType'
  BY DEF SendAborts, ThreadType, NoSend
<1>4. ProcessType'
  BY DEF SendAborts, ProcessType
<1>5. LocalInv'
  BY <1>0 DEF SendAborts, Goto, LocalInv, PcType, ThreadType, Thread
<1> QED BY <1>1, <1>2, <1>3, <1>4, <1>5

(* SendBroken keeps Typed. *)
LEMMA SendBrokenType ==
  ASSUME Typed, NEW c \in Client, SendBroken(c)
  PROVE  Typed'
BY SendAbortsType DEF SendBroken, Typed, ProcessType

(* SendUnpicklable keeps Typed. *)
LEMMA SendUnpicklableType ==
  ASSUME Typed, NEW c \in Client, SendUnpicklable(c)
  PROVE  Typed'
BY SendAbortsType, BoundAssumption
   DEF SendUnpicklable, InjectFault, Typed, ProcessType

(* CloseFinal keeps Typed. *)
LEMMA CloseFinalType ==
  ASSUME Typed, NEW t \in Thread, CloseFinal(t)
  PROVE  Typed'
<1> USE DEF Typed
<1>1. t \in Closer /\ t \notin Client /\ t # Monitor
  BY ThreadAssumption DEF CloseFinal, PcType, Thread, ClientPc, MonitorPc
<1>2. TableType'
  BY DEF CloseFinal, TableType, Lifecycle
<1>3. PcType'
  BY <1>1, GotoType DEF CloseFinal, CloserPc
<1>4. ThreadType' /\ ProcessType'
  BY DEF CloseFinal, ThreadType, ProcessType
<1>5. LocalInv'
  BY <1>1 DEF CloseFinal, Goto, LocalInv, PcType, Thread
<1> QED BY <1>2, <1>3, <1>4, <1>5

(* ShutdownWait keeps Typed. *)
LEMMA ShutdownWaitType ==
  ASSUME Typed, NEW t \in Thread, ShutdownWait(t)
  PROVE  Typed'
<1> USE DEF Typed
<1>1. Goto(t, ReturnPc(t))
  BY DEF ShutdownWait
<1>2. PcType'
  BY <1>1, GotoType, ReturnType
<1>3. LocalInv'
  BY <1>1, ThreadAssumption DEF ShutdownWait, LocalInv, Goto, PcType, ReturnPc, Thread
<1> QED BY <1>2, <1>3 DEF ShutdownWait, TableType, ThreadType, ProcessType

(* ShutdownSend keeps Typed. *)
LEMMA ShutdownSendType ==
  ASSUME Typed, NEW t \in Thread, ShutdownSend(t)
  PROVE  Typed'
<1> USE DEF Typed
<1>1. t \in Closer /\ t \notin Client /\ t # Monitor
  BY ThreadAssumption DEF ShutdownSend, PcType, Thread, ClientPc, MonitorPc
<1>2. TableType' /\ ThreadType'
  BY DEF ShutdownSend, TableType, ThreadType
<1>3. PcType'
  BY <1>1, GotoType DEF ShutdownSend, CloserPc
<1>4. ProcessType'
  <2>1. Shutdown \in ParentMessage
    BY DEF ParentMessage
  <2> QED BY <2>1 DEF ShutdownSend, ProcessType
<1>5. LocalInv'
  BY <1>1 DEF ShutdownSend, Goto, LocalInv, PcType, Thread
<1> QED BY <1>2, <1>3, <1>4, <1>5

(* Reap keeps Typed. *)
LEMMA ReapType ==
  ASSUME Typed, NEW t \in Thread, Reap(t)
  PROVE  Typed'
<1> USE DEF Typed
<1>1. Goto(t, ReturnPc(t)) /\ Kill(Worker)
  BY DEF Reap
<1>2. PcType'
  BY <1>1, GotoType, ReturnType
<1>3. ProcessType'
  BY <1>1, CutOffType DEF Reap, Kill, ProcessType, WorkerPc, Exited
<1>4. LocalInv'
  <2>1. \A w \in Worker : wpc'[w] \notin {"exec", "hung"}
    BY <1>1 DEF Kill, Alive, Exited, ProcessType
  <2> QED BY <1>1, <2>1, ThreadAssumption
          DEF Reap, LocalInv, Goto, PcType, ReturnPc, Thread
<1> QED BY <1>2, <1>3, <1>4 DEF Reap, TableType, ThreadType

(* A step that moves the monitor to a place where it carries nothing, and  *)
(* updates what it has read, keeps Typed.                                  *)
LEMMA MonitorMoveType ==
  ASSUME Typed, NEW label \in MonitorPc \ {"record", "complete", "resolve"},
         Goto(Monitor, label),
         mon' \in [ready : SUBSET Worker, watched : SUBSET Worker,
                   worker : Worker \cup {None}, req : ReqId \cup {None}],
         UNCHANGED <<state, tableVars, future, sendLock, shutOwner, localVars, procVars,
                     faults, expired>>
  PROVE  Typed'
<1> USE DEF Typed
<1>0. Monitor \in Thread /\ Monitor \notin Client \cup Closer
  BY ThreadAssumption DEF Thread
<1>1. TableType' /\ ThreadType'
  BY DEF TableType, ThreadType
<1>2. PcType'
  BY <1>0, GotoType
<1>3. ProcessType'
  BY DEF ProcessType
<1>4. LocalInv'
  BY <1>0 DEF Goto, LocalInv, PcType, Thread
<1> QED BY <1>1, <1>2, <1>3, <1>4

(* MonitorExit keeps Typed. *)
LEMMA MonitorExitType ==
  ASSUME Typed, MonitorExit
  PROVE  Typed'
BY MonitorMoveType DEF MonitorExit, MonitorPc, Typed, ThreadType

(* MonitorWait keeps Typed. *)
LEMMA MonitorWaitType ==
  ASSUME Typed, MonitorWait
  PROVE  Typed'
BY MonitorMoveType DEF MonitorWait, MonitorPc, Typed, ThreadType

(* MonitorEof keeps Typed. *)
LEMMA MonitorEofType ==
  ASSUME Typed, NEW w \in Worker, MonitorEof(w)
  PROVE  Typed'
<1> USE DEF Typed
<1>1. PcType' /\ LocalInv'
  <2>1. CASE state \in Closing
    BY <2>1 DEF MonitorEof, PcType, LocalInv
  <2>2. CASE state \notin Closing
    <3>1. Goto(Monitor, "fail")
      BY <2>2 DEF MonitorEof
    <3>2. PcType'
      BY <3>1, GotoType, ThreadAssumption DEF MonitorPc, Thread
    <3> QED BY <3>1, <3>2, ThreadAssumption DEF MonitorEof, LocalInv, Goto, PcType, Thread
  <2> QED BY <2>1, <2>2
<1>2. ThreadType'
  BY DEF MonitorEof, ThreadType
<1> QED BY <1>1, <1>2 DEF MonitorEof, TableType, ProcessType

(* MonitorRecv keeps Typed. *)
LEMMA MonitorRecvType ==
  ASSUME Typed, NEW w \in Worker, MonitorRecv(w)
  PROVE  Typed'
<1> USE DEF Typed
<1> DEFINE m == Head(toParent[w])
<1>1. /\ toParent[w] \in Seq(WorkerMessage) /\ toParent[w] # <<>>
      /\ m \in WorkerMessage /\ Tail(toParent[w]) \in Seq(WorkerMessage)
  BY DEF MonitorRecv, ProcessType
<1>2. ProcessType'
  BY <1>1 DEF MonitorRecv, ProcessType
<1>3. CASE m.type = "result" /\ state \notin Closing
  <2>1. /\ mon' = [mon EXCEPT !.ready = @ \ {w}, !.worker = w, !.req = m.req]
        /\ Goto(Monitor, "record")
    BY <1>3 DEF MonitorRecv
  <2>2. m.req \in ReqId
    BY <1>1, <1>3 DEF WorkerMessage, Error, Stopped, Message
  <2>3. PcType'
    BY <2>1, GotoType, ThreadAssumption DEF MonitorPc, Thread
  <2>4. ThreadType'
    BY <2>1, <2>2 DEF MonitorRecv, ThreadType
  <2>5. LocalInv'
    BY <2>1, <2>2, ThreadAssumption
       DEF MonitorRecv, LocalInv, Goto, PcType, Thread, ThreadType
  <2> QED BY <1>2, <2>3, <2>4, <2>5 DEF MonitorRecv, TableType
<1>4. CASE ~(m.type = "result" /\ state \notin Closing)
  <2> DEFINE label == IF m.type = "error" \/ state \notin Closing THEN "fail" ELSE "drain"
  <2>1. mon' = [mon EXCEPT !.ready = @ \ {w}] /\ Goto(Monitor, label)
    BY <1>4 DEF MonitorRecv
  <2>2. label \in {"fail", "drain"}
    OBVIOUS
  <2> HIDE DEF label
  <2>3. PcType'
    BY <2>1, <2>2, GotoType, ThreadAssumption DEF MonitorPc, Thread
  <2>4. ThreadType'
    BY <2>1 DEF MonitorRecv, ThreadType
  <2>5. LocalInv'
    BY <2>1, <2>2, ThreadAssumption DEF MonitorRecv, LocalInv, Goto, PcType, Thread
  <2> QED BY <1>2, <2>3, <2>4, <2>5 DEF MonitorRecv, TableType
<1> QED BY <1>3, <1>4

(* RecordReject keeps Typed. *)
LEMMA RecordRejectType ==
  ASSUME Typed, RecordReject
  PROVE  Typed'
BY MonitorMoveType DEF RecordReject, MonitorPc, Typed, ThreadType

(* RecordResult keeps Typed. *)
LEMMA RecordResultType ==
  ASSUME Typed, RecordResult
  PROVE  Typed'
<1> USE DEF Typed
<1> DEFINE w == mon.worker
           q == mon.req
           left == Left(w, q)
           answer == req[q].output \/ w = OutputOf[req[q].replica]
<1>1. w \in Worker /\ q \in ReqId
  BY DEF RecordResult, LocalInv
<1>2. left \in SUBSET Worker /\ answer \in BOOLEAN
  BY <1>1 DEF Left, TableType
<1>3. req' = [req EXCEPT ![q].remaining = left, ![q].output = answer]
  BY DEF RecordResult
<1> HIDE DEF left, answer
<1>4. req' \in [ReqId -> [replica : Replica \cup {None}, remaining : SUBSET Worker,
                          output : BOOLEAN]]
  BY <1>2, <1>3 DEF TableType
<1>5. CASE left = {} /\ answer
  <2>1. /\ pending' = pending \ {q}
        /\ inflight' = [inflight EXCEPT ![req[q].replica] = @ - 1]
        /\ Goto(Monitor, "complete") /\ UNCHANGED mon
    BY <1>5 DEF RecordResult, left, answer
  <2>2. PcType'
    BY <2>1, GotoType, ThreadAssumption DEF MonitorPc, Thread
  <2>3. TableType'
    <3>1. req[q].replica \in Replica
      BY <1>1, PlanAssumption DEF RecordResult, Acceptable
    <3>2. inflight' \in [Replica -> Int]
      BY <2>1, <3>1 DEF TableType
    <3> QED BY <1>4, <2>1, <3>2 DEF RecordResult, TableType
  <2>4. LocalInv'
    BY <1>1, <2>1, ThreadAssumption DEF RecordResult, LocalInv, Goto, PcType, Thread
  <2> QED BY <2>1, <2>2, <2>3, <2>4 DEF RecordResult, ThreadType, ProcessType
<1>6. CASE ~(left = {} /\ answer)
  <2> DEFINE label == IF left = {} THEN "fail" ELSE "drain"
  <2>1. /\ Goto(Monitor, label)
        /\ mon' = [mon EXCEPT !.worker = None, !.req = None]
        /\ UNCHANGED <<pending, inflight>>
    BY <1>6 DEF RecordResult, left, answer
  <2>2. label \in {"fail", "drain"}
    OBVIOUS
  <2> HIDE DEF label
  <2>3. PcType'
    BY <2>1, <2>2, GotoType, ThreadAssumption DEF MonitorPc, Thread
  <2>4. TableType'
    BY <1>4, <2>1 DEF RecordResult, TableType
  <2>5. LocalInv'
    BY <2>1, <2>2, ThreadAssumption DEF RecordResult, LocalInv, Goto, PcType, Thread
  <2> QED BY <2>1, <2>3, <2>4, <2>5 DEF RecordResult, ThreadType, ProcessType
<1> QED BY <1>5, <1>6

(* Complete keeps Typed. *)
LEMMA CompleteType ==
  ASSUME Typed, Complete
  PROVE  Typed'
<1> USE DEF Typed
<1>0. Monitor \in Thread /\ Monitor \notin Client \cup Closer
  BY ThreadAssumption DEF Thread
<1>1. TableType'
  BY DEF Complete, TableType, Done
<1>2. PcType'
  BY <1>0, GotoType DEF Complete, MonitorPc
<1>3. ThreadType'
  BY DEF Complete, ThreadType
<1>4. ProcessType'
  BY DEF Complete, ProcessType
<1>5. LocalInv'
  BY <1>0 DEF Complete, Goto, LocalInv, PcType, Thread
<1> QED BY <1>1, <1>2, <1>3, <1>4, <1>5

(* MonitorSweep keeps Typed. *)
LEMMA MonitorSweepType ==
  ASSUME Typed, MonitorSweep
  PROVE  Typed'
BY MonitorMoveType DEF MonitorSweep, MonitorPc, Typed, ThreadType

(* A step of a worker process leaves the parent alone. *)
LEMMA WorkerStepType ==
  ASSUME Typed, ParentIdle, ProcessType',
         \A w \in Worker : wpc'[w] \in {"exec", "hung"} => seen'[w] # <<>>
  PROVE  Typed'
<1> USE DEF Typed, ParentIdle
<1>1. TableType' BY DEF TableType
<1>2. PcType' BY DEF PcType
<1>3. ThreadType' BY DEF ThreadType
<1>4. LocalInv' BY DEF LocalInv
<1> QED BY <1>1, <1>2, <1>3, <1>4

(* WorkerRecv keeps Typed. *)
LEMMA WorkerRecvType ==
  ASSUME Typed, NEW w \in Worker, WorkerRecv(w)
  PROVE  Typed'
<1> USE DEF Typed
<1> DEFINE m == Head(toWorker[w])
<1>1. /\ m \in ParentMessage /\ Tail(toWorker[w]) \in Seq(ParentMessage)
  BY DEF WorkerRecv, ProcessType
<1>2. toWorker' = [toWorker EXCEPT ![w] = Tail(@)]
  BY DEF WorkerRecv
<1>3. CASE m.type = "execute"
  <2>1. /\ wpc' = [wpc EXCEPT ![w] = "exec"]
        /\ seen' = [seen EXCEPT ![w] = Append(@, m.req)]
    BY <1>3 DEF WorkerRecv
  <2>2. m.req \in ReqId
    BY <1>1, <1>3 DEF ParentMessage, Shutdown, Message
  <2>3. /\ Append(seen[w], m.req) \in Seq(ReqId)
        /\ Append(seen[w], m.req) # <<>>
    <3>1. seen[w] \in Seq(ReqId)
      BY DEF ProcessType
    <3> HIDE DEF m
    <3>2. Len(Append(seen[w], m.req)) = Len(seen[w]) + 1
      BY <2>2, <3>1
    <3> QED BY <2>2, <3>1, <3>2
  <2>4. ProcessType'
    BY <1>1, <1>2, <2>1, <2>3 DEF WorkerRecv, ProcessType, WorkerPc
  <2> QED BY <2>1, <2>3, <2>4, WorkerStepType DEF WorkerRecv, LocalInv, ProcessType
<1>4. CASE m.type # "execute"
  <2>1. wpc' = [wpc EXCEPT ![w] = "stop"] /\ UNCHANGED seen
    BY <1>4 DEF WorkerRecv
  <2>2. ProcessType'
    BY <1>1, <1>2, <2>1 DEF WorkerRecv, ProcessType, WorkerPc
  <2> QED BY <2>1, <2>2, WorkerStepType DEF WorkerRecv, LocalInv, ProcessType
<1> QED BY <1>3, <1>4

(* WorkerResult keeps Typed. *)
LEMMA WorkerResultType ==
  ASSUME Typed, NEW w \in Worker, WorkerResult(w)
  PROVE  Typed'
<1> USE DEF Typed
<1>1. Executes(w) \in ReqId
  BY DEF WorkerResult, LocalInv, ProcessType, Executes, Last
<1>2. Message("result", Executes(w)) \in WorkerMessage
  BY <1>1 DEF Message, WorkerMessage
<1>3. toParent' \in [Worker -> Seq(WorkerMessage)]
  BY <1>2 DEF WorkerResult, Emit, ProcessType
<1>4. \E label \in {"send", "idle"} : wpc' = [wpc EXCEPT ![w] = label]
  BY DEF WorkerResult
<1>5. ProcessType'
  BY <1>3, <1>4 DEF WorkerResult, ProcessType, WorkerPc
<1> QED BY <1>4, <1>5, WorkerStepType DEF WorkerResult, LocalInv, ProcessType

(* WorkerSent keeps Typed. *)
LEMMA WorkerSentType ==
  ASSUME Typed, NEW w \in Worker, WorkerSent(w)
  PROVE  Typed'
BY WorkerStepType DEF WorkerSent, Typed, LocalInv, ProcessType, WorkerPc

(* WorkerStop keeps Typed. *)
LEMMA WorkerStopType ==
  ASSUME Typed, NEW w \in Worker, WorkerStop(w)
  PROVE  Typed'
<1> USE DEF Typed
<1>1. Stopped \in WorkerMessage
  BY DEF WorkerMessage
<1>2. ProcessType'
  BY <1>1 DEF WorkerStop, Emit, ProcessType, WorkerPc, Exited
<1> QED BY <1>2, WorkerStepType DEF WorkerStop, LocalInv, ProcessType

(* WorkerRaises keeps Typed. *)
LEMMA WorkerRaisesType ==
  ASSUME Typed, NEW w \in Worker, WorkerRaises(w)
  PROVE  Typed'
<1> USE DEF Typed
<1>1. Error \in WorkerMessage
  BY DEF WorkerMessage
<1>2. ProcessType'
  BY <1>1, BoundAssumption
     DEF WorkerRaises, Emit, InjectFault, ProcessType, WorkerPc, Exited
<1> QED BY <1>2, WorkerStepType DEF WorkerRaises, LocalInv, ProcessType

(* WorkersCrash keeps Typed. *)
LEMMA WorkersCrashType ==
  ASSUME Typed, NEW S \in SUBSET Worker, WorkersCrash(S)
  PROVE  Typed'
<1> USE DEF Typed
<1>1. ProcessType'
  BY BoundAssumption, CutOffType
     DEF WorkersCrash, Kill, InjectFault, ProcessType, WorkerPc, Exited
<1> QED BY <1>1, WorkerStepType DEF WorkersCrash, Kill, LocalInv, ProcessType

(* WorkerHang keeps Typed. *)
LEMMA WorkerHangType ==
  ASSUME Typed, NEW w \in Worker, WorkerHang(w)
  PROVE  Typed'
<1> USE DEF Typed
<1>1. ProcessType'
  BY BoundAssumption DEF WorkerHang, InjectFault, ProcessType, WorkerPc
<1> QED BY <1>1, WorkerStepType DEF WorkerHang, LocalInv, ProcessType

(* Expire keeps Typed. *)
LEMMA ExpireType ==
  ASSUME Typed, NEW q \in ReqId, Expire(q)
  PROVE  Typed'
BY WorkerStepType DEF Expire, Typed, LocalInv, ProcessType

(* Every step of the supervisor, its threads and its workers keeps Typed. *)
LEMMA TypedStep == Typed /\ [Next]_vars => Typed'
<1> SUFFICES ASSUME Typed, [Next]_vars PROVE Typed'
  OBVIOUS
<1>1. ASSUME NEW c \in Client, NEW r \in Replica, Submit(c, r) PROVE Typed'
  BY <1>1, SubmitType
<1>2. ASSUME NEW c \in Client, Sending(c) PROVE Typed'
  BY <1>2, SendLockType, SendPutType, SendReturnType, SendBrokenType DEF Sending
<1>3. ASSUME NEW c \in Client, SendUnpicklable(c) PROVE Typed'
  BY <1>3, SendUnpicklableType
<1>4. ASSUME NEW t \in Closer, CloseBegin(t) PROVE Typed'
  BY <1>4, CloseBeginType
<1>5. ASSUME NEW t \in Thread, Shutting(t) PROVE Typed'
  BY <1>5, MarkFailedType, ResolveType, ShutdownWaitType, ShutdownSendType, ReapType,
     CloseFinalType DEF Shutting
<1>6. ASSUME Monitoring PROVE Typed'
  BY <1>6, MonitorExitType, MonitorWaitType, MonitorSweepType, RecordRejectType,
     RecordResultType, CompleteType, MonitorEofType, MonitorRecvType DEF Monitoring
<1>7. ASSUME NEW w \in Worker, Working(w) PROVE Typed'
  BY <1>7, WorkerRecvType, WorkerResultType, WorkerSentType, WorkerStopType DEF Working
<1>8. ASSUME Failing PROVE Typed'
  BY <1>8, WorkerRaisesType, WorkerHangType, WorkersCrashType DEF Failing
<1>9. ASSUME NEW q \in ReqId, Expire(q) PROVE Typed'
  BY <1>9, ExpireType
<1>10. CASE UNCHANGED vars
  BY <1>10 DEF vars, Typed, TableType, PcType, ThreadType, ProcessType, LocalInv
<1> QED BY <1>1, <1>2, <1>3, <1>4, <1>5, <1>6, <1>7, <1>8, <1>9, <1>10 DEF Next, Terminated

(* Every step keeps the Boolean flags Boolean. *)
LEMMA FlagStep == FlagType /\ [Next]_vars => FlagType'
<1> SUFFICES ASSUME FlagType, [Next]_vars PROVE FlagType'
  OBVIOUS
<1> USE DEF FlagType
<1>1. ASSUME NEW c \in Client, NEW r \in Replica, Submit(c, r) PROVE FlagType'
  BY <1>1, Zenon DEF Submit
<1>2. ASSUME NEW c \in Client, Sending(c) PROVE FlagType'
  BY <1>2, Zenon DEF Sending, SendLock, SendPut, SendReturn, SendBroken, SendAborts
<1>3. ASSUME NEW c \in Client, SendUnpicklable(c) PROVE FlagType'
  BY <1>3, Zenon DEF SendUnpicklable, SendAborts
<1>4. ASSUME NEW t \in Closer, CloseBegin(t) PROVE FlagType'
  BY <1>4, Zenon DEF CloseBegin
<1>5. ASSUME NEW t \in Thread, Shutting(t) PROVE FlagType'
  <2>1. CASE MarkFailed(t)
    BY <2>1, Zenon DEF MarkFailed
  <2>2. CASE Resolve(t)
    BY <2>2, Zenon DEF Resolve
  <2>3. CASE ShutdownWait(t)
    BY <2>3, Zenon DEF ShutdownWait
  <2>4. CASE ShutdownSend(t)
    BY <2>4, Zenon DEF ShutdownSend
  <2>5. CASE Reap(t)
    <3>1. failed' \in BOOLEAN /\ timedOut' \in BOOLEAN
      BY <2>5, Zenon DEF Reap
    <3>2. shutComplete' = TRUE /\ monitorStop' = monitorStop
      BY <2>5, Zenon DEF Reap, ReleaseWaiters
    <3> QED BY <3>1, <3>2, Zenon
  <2>6. CASE CloseFinal(t)
    BY <2>6, Zenon DEF CloseFinal
  <2> QED BY <1>5, <2>1, <2>2, <2>3, <2>4, <2>5, <2>6 DEF Shutting
<1>6. ASSUME Monitoring PROVE FlagType'
  BY <1>6, Zenon DEF Monitoring, MonitorExit, MonitorWait, MonitorSweep, RecordReject,
                     RecordResult, Complete, MonitorEof, MonitorRecv
<1>7. ASSUME NEW w \in Worker, Working(w) PROVE FlagType'
  BY <1>7, Zenon DEF Working, WorkerRecv, WorkerResult, WorkerSent, WorkerStop, ParentIdle
<1>8. ASSUME Failing PROVE FlagType'
  BY <1>8, Zenon DEF Failing, WorkerRaises, WorkerHang, WorkersCrash, ParentIdle
<1>9. ASSUME NEW q \in ReqId, Expire(q) PROVE FlagType'
  BY <1>9, Zenon DEF Expire, ParentIdle
<1>10. CASE UNCHANGED vars
  BY <1>10, Zenon DEF vars
<1> QED BY <1>1, <1>2, <1>3, <1>4, <1>5, <1>6, <1>7, <1>8, <1>9, <1>10 DEF Next, Terminated

(* Every attribute of WorkerSupervisor, thread-local variable, pipe and    *)
(* process keeps its type for every plan, thread set, bound and pipe size. *)
THEOREM TypeCorrect == Spec => []TypeOK
<1>1. Init => Typed /\ FlagType
  BY InitType
<1>2. Typed /\ FlagType /\ [Next]_vars => (Typed /\ FlagType)'
  BY TypedStep, FlagStep
<1>3. Typed /\ FlagType => TypeOK
  BY DEF Typed, TypeOK
<1> QED BY <1>1, <1>2, <1>3, PTL DEF Spec

-----------------------------------------------------------------------------
(* A close() that has begun has ended RUNNING. *)
ClosingInv == \A t \in Closer : pc[t] # "idle" => state # "running"

(* The part of the state the request table depends on. *)
TableInv == PendingOnlyWhileRunning /\ ClosingInv

(* A step that leaves the table and the lifecycle alone, and no closer     *)
(* starts, keeps TableInv.                                                 *)
LEMMA QuietTable ==
  ASSUME TableInv, UNCHANGED <<state, pending>>,
         \A t \in Closer : pc[t] = "idle" => pc'[t] = "idle"
  PROVE  TableInv'
BY DEF TableInv, PendingOnlyWhileRunning, ClosingInv

(* A thread that is past its first step moves: no closer starts. *)
LEMMA NoCloserStarts ==
  ASSUME Typed, NEW t, NEW label, Goto(t, label), t \notin Closer \/ pc[t] # "idle"
  PROVE  \A u \in Closer : pc[u] = "idle" => pc'[u] = "idle"
BY DEF Typed, PcType, Goto, Thread

(* Steps of submit() keep TableInv. *)
LEMMA TableSubmit ==
  ASSUME Typed, TableInv, NEW c \in Client
  PROVE  /\ \A r \in Replica : Submit(c, r) => TableInv'
         /\ Sending(c) => TableInv'
         /\ SendUnpicklable(c) => TableInv'
<1>0. c \notin Closer
  BY ThreadAssumption
<1>1. ASSUME NEW r \in Replica, Submit(c, r) PROVE TableInv'
  <2>1. \A u \in Closer : pc[u] = "idle" => pc'[u] = "idle"
    BY <1>0, <1>1, NoCloserStarts DEF Submit
  <2>2. state = "running" /\ state' = state
    BY <1>1 DEF Submit, Admits
  <2> QED BY <2>1, <2>2 DEF TableInv, PendingOnlyWhileRunning, ClosingInv
<1>2. ASSUME Sending(c) PROVE TableInv'
  <2>1. \A u \in Closer : pc[u] = "idle" => pc'[u] = "idle"
    BY <1>0, <1>2, NoCloserStarts
       DEF Sending, SendLock, SendPut, SendReturn, SendBroken, SendAborts, AfterSend
  <2>2. UNCHANGED <<state, pending>>
    BY <1>2 DEF Sending, SendLock, SendPut, SendReturn, SendBroken, SendAborts
  <2> QED BY <2>1, <2>2, QuietTable
<1>3. ASSUME SendUnpicklable(c) PROVE TableInv'
  <2>1. \A u \in Closer : pc[u] = "idle" => pc'[u] = "idle"
    BY <1>0, <1>3, NoCloserStarts DEF SendUnpicklable, SendAborts
  <2>2. UNCHANGED <<state, pending>>
    BY <1>3 DEF SendUnpicklable, SendAborts
  <2> QED BY <2>1, <2>2, QuietTable
<1> QED BY <1>1, <1>2, <1>3

(* Steps of _mark_failed, close() and the shutdown keep TableInv. *)
LEMMA TableShutting ==
  ASSUME Typed, TableInv, NEW t \in Thread
  PROVE  /\ t \in Closer /\ CloseBegin(t) => TableInv'
         /\ Shutting(t) => TableInv'
<1> USE DEF TableInv, PendingOnlyWhileRunning, ClosingInv
<1>1. ASSUME t \in Closer, CloseBegin(t) PROVE TableInv'
  <2>1. CASE state = "stopped"
    BY <1>1, <2>1 DEF CloseBegin
  <2>2. CASE state # "stopped"
    <3>1. state' # "running" /\ pending' = {}
      BY <1>1, <2>2 DEF CloseBegin, TakePending
    <3> QED BY <3>1
  <2> QED BY <2>1, <2>2
<1>2. ASSUME MarkFailed(t) PROVE TableInv'
  <2>1. CASE Ended
    BY <1>2, <2>1 DEF MarkFailed, Ended
  <2>2. CASE ~Ended
    BY <1>2, <2>2 DEF MarkFailed, TakePending
  <2> QED BY <2>1, <2>2
<1>3. ASSUME Resolve(t) PROVE TableInv'
  <2>1. \E label : Goto(t, label)
    BY <1>3 DEF Resolve
  <2>2. \A u \in Closer : pc[u] = "idle" => pc'[u] = "idle"
    BY <1>3, <2>1, NoCloserStarts DEF Resolve
  <2> QED BY <1>3, <2>2, QuietTable DEF Resolve
<1>4. ASSUME CloseFinal(t) PROVE TableInv'
  <2>1. t \in Closer
    BY <1>4 DEF CloseFinal, Typed, PcType, Thread, ClientPc, MonitorPc
  <2>2. state # "running"
    BY <1>4, <2>1 DEF CloseFinal
  <2>3. state' # "running" /\ pending' = pending
    BY <1>4 DEF CloseFinal
  <2> QED BY <2>2, <2>3
<1>5. ASSUME ShutdownWait(t) PROVE TableInv'
  BY <1>5, NoCloserStarts, QuietTable DEF ShutdownWait
<1>6. ASSUME ShutdownSend(t) PROVE TableInv'
  BY <1>6, NoCloserStarts, QuietTable DEF ShutdownSend
<1>7. ASSUME Reap(t) PROVE TableInv'
  <2>1. Goto(t, ReturnPc(t)) /\ pc[t] # "idle" /\ UNCHANGED <<state, pending>>
    BY <1>7 DEF Reap
  <2> QED BY <2>1, NoCloserStarts, QuietTable
<1> QED BY <1>1, <1>2, <1>3, <1>4, <1>5, <1>6, <1>7 DEF Shutting

(* Steps of the monitor keep TableInv. *)
LEMMA TableMonitoring ==
  ASSUME Typed, TableInv, Monitoring
  PROVE  TableInv'
<1>1. state' = state /\ pending' \subseteq pending
  BY DEF Monitoring, MonitorExit, MonitorWait, MonitorSweep, RecordReject, RecordResult,
         Complete, MonitorEof, MonitorRecv
<1>2. UNCHANGED pc \/ \E label : Goto(Monitor, label)
  BY DEF Monitoring, MonitorExit, MonitorWait, MonitorSweep, RecordReject, RecordResult,
         Complete, MonitorEof, MonitorRecv
<1>3. \A u \in Closer : pc'[u] = pc[u]
  BY <1>2, ThreadAssumption DEF Goto, Typed, PcType, Thread
<1> QED BY <1>1, <1>3 DEF TableInv, PendingOnlyWhileRunning, ClosingInv

(* Steps outside the parent's threads keep TableInv. *)
LEMMA TableIdle ==
  ASSUME TableInv, ParentIdle
  PROVE  TableInv'
BY QuietTable DEF ParentIdle

(* Every step keeps TableInv. *)
LEMMA TableStep == Typed /\ TableInv /\ [Next]_vars => TableInv'
<1> SUFFICES ASSUME Typed, TableInv, [Next]_vars PROVE TableInv'
  OBVIOUS
<1>1. ASSUME NEW w \in Worker, Working(w) PROVE ParentIdle
  BY <1>1 DEF Working, WorkerRecv, WorkerResult, WorkerSent, WorkerStop
<1>2. ASSUME Failing PROVE ParentIdle
  BY <1>2 DEF Failing, WorkerRaises, WorkerHang, WorkersCrash
<1>3. ASSUME NEW q \in ReqId, Expire(q) PROVE ParentIdle
  BY <1>3 DEF Expire
<1>4. CASE UNCHANGED vars
  BY <1>4 DEF vars, TableInv, PendingOnlyWhileRunning, ClosingInv
<1>5. Closer \subseteq Thread
  BY DEF Thread
<1> QED BY <1>1, <1>2, <1>3, <1>4, <1>5, TableSubmit, TableShutting, TableMonitoring,
           TableIdle DEF Next, Terminated

(* A request waits in the table only while the supervisor is RUNNING, for  *)
(* every plan and every number of threads, requests and faults.            *)
THEOREM PendingCorrect == Spec => []PendingOnlyWhileRunning
<1>1. Init => Typed /\ TableInv
  BY InitType, ThreadAssumption
     DEF Init, TableInv, PendingOnlyWhileRunning, ClosingInv, Thread
<1>2. Typed /\ TableInv /\ [Next]_vars => (Typed /\ TableInv)'
  BY TypedStep, TableStep
<1>3. Typed /\ TableInv => PendingOnlyWhileRunning
  BY DEF TableInv
<1> QED BY <1>1, <1>2, <1>3, PTL DEF Spec

-----------------------------------------------------------------------------
(* The requests _inflight has to count for a replica. *)
Of(r) == {q \in pending : req[q].replica = r}

(* Ids in the table have been handed out. *)
CountInv == InflightAccounting /\ \A q \in pending : q < nextId

(* The table holds finitely many requests. *)
LEMMA OfFinite ==
  ASSUME Typed, NEW r
  PROVE  IsFiniteSet(Of(r)) /\ Cardinality(Of(r)) \in Nat
<1>1. IsFiniteSet(1..MaxRequest)
  BY BoundAssumption, FS_Interval
<1>2. Of(r) \subseteq 1..MaxRequest
  BY DEF Of, Typed, TableType, ReqId
<1>3. IsFiniteSet(Of(r))
  BY <1>1, <1>2, FS_Subset
<1> QED BY <1>3, FS_CardinalityType

(* The accounting in terms of Of. *)
LEMMA CountInvOf ==
  CountInv <=> /\ \A r \in Replica : inflight[r] = Cardinality(Of(r))
               /\ \A q \in pending : q < nextId
BY DEF CountInv, InflightAccounting, Of

(* The same of the next state. *)
LEMMA CountInvOfNext ==
  CountInv' <=> /\ \A r \in Replica : inflight'[r] = Cardinality(Of(r)')
                /\ \A q \in pending' : q < nextId'
BY DEF CountInv, InflightAccounting, Of

(* A step that keeps the pending requests, their replicas and the counters *)
(* keeps CountInv.                                                         *)
LEMMA QuietCount ==
  ASSUME CountInv, UNCHANGED <<pending, inflight, nextId>>,
         \A q \in pending : req'[q].replica = req[q].replica
  PROVE  CountInv'
<1>1. \A r : Of(r)' = Of(r)
  BY DEF Of
<1>2. \A r \in Replica : inflight'[r] = Cardinality(Of(r)')
  BY <1>1, CountInvOf
<1> QED BY <1>2, CountInvOfNext DEF CountInv

(* submit() adds one request to the table and one to its counter. *)
LEMMA CountSubmit ==
  ASSUME Typed, CountInv, NEW c \in Client, NEW r \in Replica, Submit(c, r)
  PROVE  CountInv'
<1>1. /\ nextId \in ReqId /\ nextId \notin pending /\ nextId' = nextId + 1
      /\ pending' = pending \cup {nextId}
  BY DEF Submit, CountInv, Typed, TableType, ReqId
<1>2. /\ req'[nextId].replica = r
      /\ \A q \in pending : req'[q] = req[q]
  BY <1>1 DEF Submit, Typed, TableType
<1>3. inflight' = [inflight EXCEPT ![r] = @ + 1]
  BY DEF Submit
<1>4. ASSUME NEW s \in Replica PROVE inflight'[s] = Cardinality(Of(s)')
  <2>1. CASE s = r
    <3>1. Of(s)' = Of(s) \cup {nextId} /\ nextId \notin Of(s)
      BY <1>1, <1>2, <2>1 DEF Of
    <3>2. Cardinality(Of(s)') = Cardinality(Of(s)) + 1
      BY <3>1, OfFinite, FS_AddElement
    <3> QED BY <1>3, <2>1, <3>2, CountInvOf DEF Typed, TableType
  <2>2. CASE s # r
    <3>1. Of(s)' = Of(s)
      BY <1>1, <1>2, <2>2 DEF Of
    <3> QED BY <1>3, <2>2, <3>1, CountInvOf DEF Typed, TableType
  <2> QED BY <2>1, <2>2
<1>5. \A q \in pending' : q < nextId'
  BY <1>1 DEF CountInv, Typed, TableType, ReqId
<1> QED BY <1>4, <1>5, CountInvOfNext

(* _mark_failed and close() empty the table and the counters together. *)
LEMMA CountTake ==
  ASSUME NEW t, TakePending(t)
  PROVE  CountInv'
<1>1. \A r : Of(r)' = {}
  BY DEF TakePending, Of
<1>2. \A r \in Replica : inflight'[r] = Cardinality(Of(r)')
  BY <1>1, FS_EmptySet DEF TakePending
<1>3. \A q \in pending' : q < nextId'
  BY DEF TakePending
<1> QED BY <1>2, <1>3, CountInvOfNext

(* _record_result takes a complete request out of the table and off its    *)
(* counter; a partial answer changes neither.                              *)
LEMMA CountResult ==
  ASSUME Typed, CountInv, RecordResult
  PROVE  CountInv'
<1> DEFINE q == mon.req
           left == Left(mon.worker, q)
           answer == req[q].output \/ mon.worker = OutputOf[req[q].replica]
<1>1. q \in pending /\ q \in ReqId /\ req[q].replica \in Replica /\ nextId' = nextId
  BY PlanAssumption DEF RecordResult, Acceptable, Typed, LocalInv
<1>2. req' = [req EXCEPT ![q].remaining = left, ![q].output = answer]
  BY DEF RecordResult
<1>3. \A x \in pending : req'[x].replica = req[x].replica
  <2> HIDE DEF left, answer
  <2> QED BY <1>2 DEF Typed, TableType
<1>4. CASE left = {} /\ answer
  <2>1. /\ pending' = pending \ {q}
        /\ inflight' = [inflight EXCEPT ![req[q].replica] = @ - 1]
    BY <1>4 DEF RecordResult
  <2>2. ASSUME NEW s \in Replica PROVE inflight'[s] = Cardinality(Of(s)')
    <3>1. CASE s = req[q].replica
      <4>1. Of(s)' = Of(s) \ {q} /\ q \in Of(s)
        BY <1>1, <1>3, <2>1, <3>1 DEF Of
      <4>2. Cardinality(Of(s)') = Cardinality(Of(s)) - 1
        BY <4>1, OfFinite, FS_RemoveElement
      <4> QED BY <2>1, <3>1, <4>2, CountInvOf DEF Typed, TableType
    <3>2. CASE s # req[q].replica
      <4>1. Of(s)' = Of(s)
        BY <1>1, <1>3, <2>1, <3>2 DEF Of
      <4> QED BY <1>1, <2>1, <3>2, <4>1, CountInvOf DEF Typed, TableType
    <3> QED BY <3>1, <3>2
  <2>3. \A x \in pending' : x < nextId'
    BY <1>1, <2>1 DEF CountInv
  <2> QED BY <2>2, <2>3, CountInvOfNext
<1>5. CASE ~(left = {} /\ answer)
  <2>1. UNCHANGED <<pending, inflight>>
    BY <1>5 DEF RecordResult
  <2> QED BY <1>1, <1>3, <2>1, QuietCount
<1> QED BY <1>4, <1>5

(* Every step keeps the counters exact. *)
LEMMA CountStep == Typed /\ CountInv /\ [Next]_vars => CountInv'
<1> SUFFICES ASSUME Typed, CountInv, [Next]_vars PROVE CountInv'
  OBVIOUS
<1>1. ASSUME UNCHANGED tableVars PROVE CountInv'
  BY <1>1, QuietCount
<1>2. ASSUME NEW c \in Client, Sending(c) \/ SendUnpicklable(c) PROVE CountInv'
  BY <1>1, <1>2 DEF Sending, SendLock, SendPut, SendReturn, SendBroken, SendAborts,
                    SendUnpicklable
<1>3. ASSUME NEW t \in Closer, CloseBegin(t) PROVE CountInv'
  BY <1>1, <1>3, CountTake DEF CloseBegin
<1>4. ASSUME NEW t \in Thread, Shutting(t) PROVE CountInv'
  <2>1. CASE MarkFailed(t)
    BY <1>1, <2>1, CountTake DEF MarkFailed
  <2>2. CASE Resolve(t) \/ ShutdownWait(t) \/ ShutdownSend(t) \/ CloseFinal(t)
    BY <1>1, <2>2 DEF Resolve, ShutdownWait, ShutdownSend, CloseFinal
  <2>3. CASE Reap(t)
    BY <1>1, <2>3 DEF Reap
  <2> QED BY <1>4, <2>1, <2>2, <2>3 DEF Shutting
<1>5. ASSUME Monitoring PROVE CountInv'
  BY <1>1, <1>5, CountResult
     DEF Monitoring, MonitorExit, MonitorWait, MonitorSweep, RecordReject, Complete,
         MonitorEof, MonitorRecv
<1>6. ASSUME ParentIdle PROVE CountInv'
  BY <1>1, <1>6 DEF ParentIdle
<1>7. ASSUME NEW w \in Worker, Working(w) PROVE ParentIdle
  BY <1>7 DEF Working, WorkerRecv, WorkerResult, WorkerSent, WorkerStop
<1>8. ASSUME Failing PROVE ParentIdle
  BY <1>8 DEF Failing, WorkerRaises, WorkerHang, WorkersCrash
<1>9. ASSUME NEW q \in ReqId, Expire(q) PROVE ParentIdle
  BY <1>9 DEF Expire
<1>10. CASE UNCHANGED vars
  BY <1>1, <1>10 DEF vars
<1> QED BY <1>2, <1>3, <1>4, <1>5, <1>6, <1>7, <1>8, <1>9, <1>10, CountSubmit
        DEF Next, Terminated

(* After start() nothing is counted. *)
LEMMA CountInit == Init => CountInv
<1> SUFFICES ASSUME Init PROVE CountInv
  OBVIOUS
<1>1. \A r : Of(r) = {}
  BY DEF Init, Of
<1>2. \A r \in Replica : inflight[r] = Cardinality(Of(r))
  BY <1>1, FS_EmptySet DEF Init
<1> QED BY <1>2, CountInvOf DEF Init

(* _inflight counts exactly the pending requests of each replica, for      *)
(* every plan and every number of threads, requests and faults.            *)
THEOREM InflightCorrect == Spec => []InflightAccounting
<1>1. Init => Typed /\ CountInv
  BY InitType, CountInit
<1>2. Typed /\ CountInv /\ [Next]_vars => (Typed /\ CountInv)'
  BY TypedStep, CountStep
<1>3. Typed /\ CountInv => InflightAccounting
  BY DEF CountInv
<1> QED BY <1>1, <1>2, <1>3, PTL DEF Spec
-----------------------------------------------------------------------------
(* The places of the thread that owns the shutdown, until it is complete. *)
OwnerPc == {"shutSend", "shutJoin", "reap"}

(* A close() has begun to shut the workers down gracefully and has not     *)
(* killed those that are left yet.                                         *)
Closes == \E t \in Closer : pc[t] \in OwnerPc

(* The connections are closed only when no process is left, ... *)
CompleteMeansDead == shutComplete => \A w \in Worker : ~Alive(w)

(* ... one thread owns the shutdown from the first Resolve to Reap, ... *)
OwnerShuts ==
  /\ shutComplete => shutOwner # None
  /\ \A t \in Thread : pc[t] \in OwnerPc <=> (shutOwner = t /\ ~shutComplete)

(* ... waiters wait for it, ... *)
WaitersHaveOwner == \A t \in Thread : pc[t] = "shutWait" => shutOwner # None

(* ... and a close() that is past the shutdown, its own or one it waited   *)
(* for, leaves no process, unless it gave up waiting for another close().  *)
PastShutdown ==
  (state = "stopped" \/ \E t \in Closer : pc[t] \in {"closeFinal", "done"})
    => shutComplete \/ Closes

CloseInv == CompleteMeansDead /\ OwnerShuts /\ WaitersHaveOwner /\ PastShutdown
(* No process comes back to life. *)
LEMMA DeadStays ==
  ASSUME Typed, [Next]_vars, NEW w \in Worker, ~Alive(w)
  PROVE  ~Alive(w)'
<1> USE DEF Alive, Exited
<1>1. CASE UNCHANGED wpc
  BY <1>1
<1>2. ASSUME NEW v \in Worker, Working(v) \/ WorkerRaises(v) \/ WorkerHang(v)
      PROVE  wpc'[w] = wpc[w]
  <2>1. wpc[v] \notin Exited /\ \E label : wpc' = [wpc EXCEPT ![v] = label]
    BY <1>2 DEF Working, WorkerRecv, WorkerResult, WorkerSent, WorkerStop, WorkerRaises,
                WorkerHang
  <2> QED BY <2>1 DEF Typed, ProcessType
<1>3. ASSUME NEW S, Kill(S) PROVE wpc'[w] = wpc[w]
  BY <1>3 DEF Kill
<1>4. ASSUME NEW c \in Client,
             Sending(c) \/ SendUnpicklable(c) \/ \E r \in Replica : Submit(c, r)
      PROVE  UNCHANGED wpc
  BY <1>4 DEF Sending, SendLock, SendPut, SendReturn, SendBroken, SendUnpicklable,
              SendAborts, Submit
<1>5. ASSUME NEW t \in Thread, Shutting(t) PROVE UNCHANGED wpc \/ Kill(Worker)
  BY <1>5 DEF Shutting, MarkFailed, Resolve, ShutdownWait, ShutdownSend, Reap, CloseFinal
<1>6. ASSUME NEW t \in Closer, CloseBegin(t) PROVE UNCHANGED wpc
  BY <1>6 DEF CloseBegin
<1>7. ASSUME Monitoring PROVE UNCHANGED wpc
  BY <1>7 DEF Monitoring, MonitorExit, MonitorWait, MonitorSweep, RecordReject,
              RecordResult, Complete, MonitorEof, MonitorRecv
<1>8. ASSUME NEW q \in ReqId, Expire(q) PROVE UNCHANGED wpc
  BY <1>8 DEF Expire
<1>9. ASSUME NEW S, WorkersCrash(S) PROVE Kill(S)
  BY <1>9 DEF WorkersCrash
<1>10. ASSUME UNCHANGED vars PROVE UNCHANGED wpc
  BY <1>10 DEF vars
<1> QED BY <1>1, <1>2, <1>3, <1>4, <1>5, <1>6, <1>7, <1>8, <1>9, <1>10
        DEF Next, Failing, Terminated

(* A step that moves thread t between places that have nothing to do with  *)
(* the shutdown, or moves no thread.                                       *)
LEMMA QuietClose ==
  ASSUME Typed, CloseInv, \A w \in Worker : ~Alive(w) => ~Alive(w)',
         UNCHANGED <<shutOwner, shutComplete>>, state' = "stopped" => state = "stopped",
         \A t \in Thread : \/ pc'[t] = pc[t]
                           \/ {pc[t], pc'[t]} \cap (OwnerPc \cup {"closeFinal", "done"}) = {}
                              /\ pc'[t] # "shutWait"
  PROVE  CloseInv'
<1>0. Closer \subseteq Thread
  BY DEF Thread
<1>1. CompleteMeansDead'
  BY DEF CloseInv, CompleteMeansDead
<1>2. OwnerShuts'
  BY DEF CloseInv, OwnerShuts
<1>3. WaitersHaveOwner'
  BY DEF CloseInv, WaitersHaveOwner
<1>4. PastShutdown'
  BY <1>0 DEF CloseInv, PastShutdown, Closes
<1> QED BY <1>1, <1>2, <1>3, <1>4 DEF CloseInv

(* Steps of submit() are no part of a shutdown. *)
LEMMA CloseSending ==
  ASSUME Typed, CloseInv, NEW c \in Client, \A w \in Worker : ~Alive(w) => ~Alive(w)',
         Sending(c) \/ SendUnpicklable(c) \/ \E r \in Replica : Submit(c, r)
  PROVE  CloseInv'
<1>1. /\ UNCHANGED <<state, shutOwner, shutComplete>>
      /\ pc[c] \in {"idle", "lock", "put", "sending"}
  BY DEF Sending, SendLock, SendPut, SendReturn, SendBroken, SendUnpicklable, SendAborts,
         Submit
<1>2. \E label \in {"lock", "put", "idle", "sending", "fail"} : Goto(c, label)
  BY DEF Sending, SendLock, SendPut, SendReturn, SendBroken, SendUnpicklable, SendAborts,
         AfterSend, Submit
<1>3. \A t \in Thread : t # c => pc'[t] = pc[t]
  BY <1>2 DEF Goto, Typed, PcType
<1>4. pc'[c] \in {"lock", "put", "idle", "sending", "fail"}
  BY <1>2 DEF Goto, Typed, PcType, Thread
<1> QED BY <1>1, <1>3, <1>4, QuietClose DEF OwnerPc

(* Neither are steps of the monitor. *)
LEMMA CloseMonitoring ==
  ASSUME Typed, CloseInv, \A w \in Worker : ~Alive(w) => ~Alive(w)', Monitoring
  PROVE  CloseInv'
<1> DEFINE Places == {"top", "drain", "record", "complete", "fail", "exit"}
<1>1. /\ UNCHANGED <<state, shutOwner, shutComplete>>
      /\ pc[Monitor] \in Places
  BY DEF Monitoring, MonitorExit, MonitorWait, MonitorSweep, RecordReject, RecordResult,
         Complete, MonitorEof, MonitorRecv
<1>2. UNCHANGED pc \/ \E label \in Places : Goto(Monitor, label)
  BY DEF Monitoring, MonitorExit, MonitorWait, MonitorSweep, RecordReject, RecordResult,
         Complete, MonitorEof, MonitorRecv
<1>3. \A t \in Thread : t # Monitor => pc'[t] = pc[t]
  BY <1>2 DEF Goto, Typed, PcType
<1>4. pc'[Monitor] \in Places
  BY <1>1, <1>2 DEF Goto, Typed, PcType, Thread
<1> QED BY <1>1, <1>3, <1>4, QuietClose DEF OwnerPc

(* _mark_failed and the beginning of close(). *)
LEMMA CloseTaking ==
  ASSUME Typed, CloseInv, \A w \in Worker : ~Alive(w) => ~Alive(w)', NEW t \in Thread,
         MarkFailed(t) \/ (t \in Closer /\ CloseBegin(t))
  PROVE  CloseInv'
<1>0. UNCHANGED <<shutOwner, shutComplete>> /\ pc[t] \in {"idle", "fail"}
  BY DEF MarkFailed, CloseBegin
<1>1. CASE t \in Closer /\ state = "stopped" /\ Goto(t, "done") /\ UNCHANGED state
  <2>1. \A u \in Thread : pc'[u] = IF u = t THEN "done" ELSE pc[u]
    BY <1>1 DEF Goto, Typed, PcType
  <2>2. Closes => Closes'
    BY <1>0, <2>1 DEF Closes, OwnerPc, Thread
  <2>3. CompleteMeansDead' /\ WaitersHaveOwner'
    BY <1>0, <2>1 DEF CloseInv, CompleteMeansDead, WaitersHaveOwner
  <2>4. OwnerShuts'
    BY <1>0, <2>1 DEF CloseInv, OwnerShuts, OwnerPc
  <2>5. PastShutdown'
    BY <1>0, <1>1, <2>2 DEF CloseInv, PastShutdown
  <2> QED BY <2>3, <2>4, <2>5 DEF CloseInv
<1>2. CASE /\ state' = "stopped" => state = "stopped"
           /\ \E label \in {"idle", "top", "resolve"} : Goto(t, label)
  <2>1. \A u \in Thread : u # t => pc'[u] = pc[u]
    BY <1>2 DEF Goto, Typed, PcType
  <2>2. pc'[t] \in {"idle", "top", "resolve"}
    BY <1>2 DEF Goto, Typed, PcType
  <2> QED BY <1>0, <1>2, <2>1, <2>2, QuietClose DEF OwnerPc
<1>3. ASSUME MarkFailed(t)
      PROVE  /\ state' = "stopped" => state = "stopped"
             /\ \E label \in {"idle", "top", "resolve"} : Goto(t, label)
  <2>1. t \notin Closer
    BY <1>3 DEF MarkFailed, Typed, PcType, CloserPc
  <2> QED BY <1>3, <2>1 DEF MarkFailed, ReturnPc
<1>4. ASSUME t \in Closer, CloseBegin(t), state # "stopped"
      PROVE  /\ state' = "stopped" => state = "stopped"
             /\ \E label \in {"idle", "top", "resolve"} : Goto(t, label)
  BY <1>4 DEF CloseBegin
<1> QED BY <1>1, <1>2, <1>3, <1>4 DEF CloseBegin

(* The first thread to resolve becomes the owner, the others wait. *)
LEMMA CloseResolve ==
  ASSUME Typed, CloseInv, \A w \in Worker : ~Alive(w) => ~Alive(w)', NEW t \in Thread,
         Resolve(t)
  PROVE  CloseInv'
<1> DEFINE label == IF force[t] THEN "reap" ELSE "shutSend"
<1>0. /\ UNCHANGED <<state, shutComplete>> /\ pc[t] = "resolve"
      /\ t # None
  BY ThreadAssumption DEF Resolve, Thread
<1>1. CASE shutOwner = None /\ shutOwner' = t /\ Goto(t, label)
  <2>1. label \in OwnerPc
    BY DEF OwnerPc
  <2> HIDE DEF label
  <2>2. \A u \in Thread : pc'[u] = IF u = t THEN label ELSE pc[u]
    BY <1>1 DEF Goto, Typed, PcType
  <2>3. ~shutComplete
    BY <1>1 DEF CloseInv, OwnerShuts
  <2>4. \A u \in Thread : pc[u] \notin OwnerPc
    BY <1>1, ThreadAssumption DEF CloseInv, OwnerShuts, Thread
  <2>5. CompleteMeansDead' /\ WaitersHaveOwner'
    BY <1>0, <1>1, <2>3 DEF CloseInv, CompleteMeansDead, WaitersHaveOwner
  <2>6. OwnerShuts'
    BY <1>0, <1>1, <2>1, <2>2, <2>3, <2>4 DEF OwnerShuts
  <2>7. PastShutdown'
    <3>1. ~Closes
      BY <2>4 DEF Closes, Thread
    <3>2. \A u \in Closer : pc'[u] \notin {"closeFinal", "done"}
      BY <2>1, <2>2, <2>3, <3>1 DEF CloseInv, PastShutdown, Thread, OwnerPc
    <3> QED BY <1>0, <2>3, <3>1, <3>2 DEF CloseInv, PastShutdown
  <2> QED BY <2>5, <2>6, <2>7 DEF CloseInv
<1>2. CASE shutOwner # None /\ UNCHANGED shutOwner /\ Goto(t, "shutWait")
  <2>1. \A u \in Thread : pc'[u] = IF u = t THEN "shutWait" ELSE pc[u]
    BY <1>2 DEF Goto, Typed, PcType
  <2>2. CompleteMeansDead' /\ WaitersHaveOwner'
    BY <1>0, <1>2 DEF CloseInv, CompleteMeansDead, WaitersHaveOwner
  <2>3. OwnerShuts'
    BY <1>0, <1>2, <2>1 DEF CloseInv, OwnerShuts, OwnerPc
  <2>4. PastShutdown'
    BY <1>0, <2>1 DEF CloseInv, PastShutdown, Closes, Thread, OwnerPc
  <2> QED BY <2>2, <2>3, <2>4 DEF CloseInv
<1> QED BY <1>1, <1>2 DEF Resolve

(* A waiter leaves when the shutdown is complete, or gives up on another   *)
(* close() that waits for the send lock.                                   *)
LEMMA CloseWait ==
  ASSUME Typed, CloseInv, \A w \in Worker : ~Alive(w) => ~Alive(w)', NEW t \in Thread,
         ShutdownWait(t)
  PROVE  CloseInv'
<1>1. /\ UNCHANGED <<state, shutOwner, shutComplete>> /\ pc[t] = "shutWait"
      /\ shutComplete \/ pc[shutOwner] = "shutSend"
  BY DEF ShutdownWait
<1>2. /\ ReturnPc(t) \in {"idle", "top", "closeFinal"}
      /\ \A u \in Thread : pc'[u] = IF u = t THEN ReturnPc(t) ELSE pc[u]
  BY DEF ShutdownWait, Goto, Typed, PcType, ReturnPc
<1>3. shutComplete \/ Closes
  <2>1. CASE ~shutComplete
    <3>1. shutOwner \in Thread /\ pc[shutOwner] = "shutSend"
      BY <1>1, <2>1 DEF CloseInv, WaitersHaveOwner, Typed, ThreadType
    <3>2. shutOwner \in Closer
      BY <3>1 DEF Thread, Typed, PcType, ClientPc, MonitorPc
    <3> QED BY <3>1, <3>2 DEF Closes, OwnerPc
  <2> QED BY <2>1
<1>4. CompleteMeansDead' /\ WaitersHaveOwner'
  BY <1>1, <1>2 DEF CloseInv, CompleteMeansDead, WaitersHaveOwner
<1>5. OwnerShuts'
  BY <1>1, <1>2 DEF CloseInv, OwnerShuts, OwnerPc
<1>6. PastShutdown'
  BY <1>1, <1>2, <1>3 DEF PastShutdown, Closes, OwnerPc, Thread
<1> QED BY <1>4, <1>5, <1>6 DEF CloseInv

(* The owner sends its requests to the workers, ... *)
LEMMA CloseSend ==
  ASSUME Typed, CloseInv, \A w \in Worker : ~Alive(w) => ~Alive(w)', NEW t \in Thread,
         ShutdownSend(t)
  PROVE  CloseInv'
<1>1. UNCHANGED <<state, shutOwner, shutComplete>> /\ pc[t] = "shutSend"
  BY DEF ShutdownSend
<1>2. \A u \in Thread : pc'[u] = IF u = t THEN "shutJoin" ELSE pc[u]
  BY DEF ShutdownSend, Goto, Typed, PcType
<1>3. CompleteMeansDead' /\ WaitersHaveOwner'
  BY <1>1, <1>2 DEF CloseInv, CompleteMeansDead, WaitersHaveOwner
<1>4. OwnerShuts'
  BY <1>1, <1>2 DEF CloseInv, OwnerShuts, OwnerPc
<1>5. PastShutdown'
  BY <1>1, <1>2 DEF CloseInv, PastShutdown, Closes, OwnerPc, Thread
<1> QED BY <1>3, <1>4, <1>5 DEF CloseInv

(* ... and kills the processes that are left. *)
LEMMA CloseReap ==
  ASSUME Typed, CloseInv, NEW t \in Thread, Reap(t)
  PROVE  CloseInv'
<1>1. /\ UNCHANGED <<state, shutOwner>> /\ pc[t] \in OwnerPc
      /\ Goto(t, ReturnPc(t)) /\ Kill(Worker)
  BY DEF Reap, OwnerPc
<1>2. shutComplete' = TRUE
  BY Zenon DEF Reap, ReleaseWaiters
<1>3. /\ ReturnPc(t) \in {"idle", "top", "closeFinal"}
      /\ \A u \in Thread : pc'[u] = IF u = t THEN ReturnPc(t) ELSE pc[u]
  BY <1>1 DEF Goto, Typed, PcType, ReturnPc
<1>4. shutOwner = t /\ ~shutComplete /\ t # None
  BY <1>1, ThreadAssumption DEF CloseInv, OwnerShuts, Thread
<1>5. \A w \in Worker : ~Alive(w)'
  BY <1>1 DEF Kill, Alive, Exited, Typed, ProcessType
<1>6. OwnerShuts'
  BY <1>1, <1>2, <1>3, <1>4 DEF CloseInv, OwnerShuts, OwnerPc
<1>7. WaitersHaveOwner'
  BY <1>1, <1>4 DEF WaitersHaveOwner
<1> QED BY <1>2, <1>5, <1>6, <1>7 DEF CloseInv, CompleteMeansDead, PastShutdown

(* The end of close(). *)
LEMMA CloseEnd ==
  ASSUME Typed, CloseInv, \A w \in Worker : ~Alive(w) => ~Alive(w)', NEW t \in Thread,
         CloseFinal(t)
  PROVE  CloseInv'
<1>1. /\ UNCHANGED <<shutOwner, shutComplete>> /\ pc[t] = "closeFinal"
      /\ \A u \in Thread : pc'[u] = IF u = t THEN "done" ELSE pc[u]
  BY DEF CloseFinal, Goto, Typed, PcType
<1>2. t \in Closer
  BY <1>1 DEF Typed, PcType, Thread, ClientPc, MonitorPc
<1>3. CompleteMeansDead' /\ WaitersHaveOwner'
  BY <1>1 DEF CloseInv, CompleteMeansDead, WaitersHaveOwner
<1>4. OwnerShuts'
  BY <1>1 DEF CloseInv, OwnerShuts, OwnerPc
<1>5. PastShutdown'
  BY <1>1, <1>2 DEF CloseInv, PastShutdown, Closes, OwnerPc, Thread
<1> QED BY <1>3, <1>4, <1>5 DEF CloseInv

(* Every step keeps CloseInv. *)
LEMMA CloseStep == Typed /\ CloseInv /\ [Next]_vars => CloseInv'
<1> SUFFICES ASSUME Typed, CloseInv, [Next]_vars PROVE CloseInv'
  OBVIOUS
<1>0. \A w \in Worker : ~Alive(w) => ~Alive(w)'
  BY DeadStays
<1>1. ASSUME NEW w \in Worker, Working(w) PROVE ParentIdle
  BY <1>1 DEF Working, WorkerRecv, WorkerResult, WorkerSent, WorkerStop
<1>2. ASSUME Failing PROVE ParentIdle
  BY <1>2 DEF Failing, WorkerRaises, WorkerHang, WorkersCrash
<1>3. ASSUME NEW q \in ReqId, Expire(q) PROVE ParentIdle
  BY <1>3 DEF Expire
<1>4. ASSUME UNCHANGED vars PROVE ParentIdle
  BY <1>4 DEF vars, ParentIdle
<1>5. ASSUME ParentIdle PROVE CloseInv'
  BY <1>0, <1>5, QuietClose DEF ParentIdle
<1>6. ASSUME NEW t \in Thread, Shutting(t) PROVE CloseInv'
  BY <1>0, <1>6, CloseTaking, CloseResolve, CloseWait, CloseSend, CloseReap, CloseEnd
     DEF Shutting
<1>7. Closer \subseteq Thread
  BY DEF Thread
<1>8. ASSUME NEW t \in Closer, CloseBegin(t) PROVE CloseInv'
  BY <1>0, <1>7, <1>8, CloseTaking
<1>9. ASSUME NEW c \in Client,
             Sending(c) \/ SendUnpicklable(c) \/ \E r \in Replica : Submit(c, r)
      PROVE  CloseInv'
  BY <1>0, <1>9, CloseSending
<1>10. ASSUME Monitoring PROVE CloseInv'
  BY <1>0, <1>10, CloseMonitoring
<1> QED BY <1>1, <1>2, <1>3, <1>4, <1>5, <1>6, <1>8, <1>9, <1>10 DEF Next, Terminated

(* start() has begun no shutdown. *)
LEMMA CloseInit == Init => CloseInv
<1> SUFFICES ASSUME Init PROVE CloseInv
  OBVIOUS
<1>1. /\ \A t \in Thread : pc[t] \in {"top", "idle"}
      /\ state = "running" /\ shutOwner = None /\ None \notin Thread
  BY ThreadAssumption DEF Init
<1>2. shutComplete = FALSE
  BY Zenon DEF Init
<1> QED BY <1>1, <1>2 DEF CloseInv, CompleteMeansDead, OwnerShuts, WaitersHaveOwner,
           PastShutdown, OwnerPc, Thread

(* A close() that has returned leaves no process, or another close() is    *)
(* still on its way to kill them: the one case is a second caller whose    *)
(* wait for the first one expired, because the first one waits for a send  *)
(* lock that a blocked submit() holds.                                     *)
THEOREM CloseLeavesNothing ==
  Spec => []((\E t \in Closer : pc[t] = "done")
               => Closes \/ \A w \in Worker : ~Alive(w))
<1>1. Init => Typed /\ CloseInv
  BY InitType, CloseInit
<1>2. Typed /\ CloseInv /\ [Next]_vars => (Typed /\ CloseInv)'
  BY TypedStep, CloseStep
<1>3. CloseInv => ((\E t \in Closer : pc[t] = "done")
                     => Closes \/ \A w \in Worker : ~Alive(w))
  BY DEF CloseInv, PastShutdown, CompleteMeansDead
<1> QED BY <1>1, <1>2, <1>3, PTL DEF Spec

(* When one thread calls close() and it has returned, no worker process is *)
(* left running, whatever failed, crashed or hung before.                  *)
THEOREM ClosedIsDead ==
  ASSUME \A t, u \in Closer : t = u
  PROVE  Spec => []ClosedMeansDead
<1>1. Init => Typed /\ CloseInv
  BY InitType, CloseInit
<1>2. Typed /\ CloseInv /\ [Next]_vars => (Typed /\ CloseInv)'
  BY TypedStep, CloseStep
<1>3. CloseInv => ClosedMeansDead
  BY DEF CloseInv, PastShutdown, CompleteMeansDead, ClosedMeansDead, Closes, OwnerPc
<1> QED BY <1>1, <1>2, <1>3, PTL DEF Spec

-----------------------------------------------------------------------------
(* Futures.                                                                *)

(* Thread t is about to resolve the future of q. *)
Holds(t, q) == q \in held[t] \/ (t = Monitor /\ pc[Monitor] = "complete" /\ mon.req = q)

(* A running future is in the table or with a thread, ... *)
Reachable == \A q \in ReqId :
  future[q] = "running" <=> (q \in pending \/ \E t \in Thread : Holds(t, q))

(* ... in one place only, ... *)
OnePlace == \A q \in ReqId : \A t \in Thread : Holds(t, q) =>
  q \notin pending /\ \A u \in Thread : Holds(u, q) => t = u

(* ... ids to come are untouched, ... *)
Fresh == \A q \in ReqId : q >= nextId => future[q] = "none"

(* ... and futures taken from the table are with a thread that resolves    *)
(* them next.                                                              *)
HeldToResolve == \A t \in Thread : held[t] # {} => pc[t] = "resolve"

(* The inductive strengthening of NoLostFuture. *)
FutureInv == Reachable /\ OnePlace /\ Fresh /\ HeldToResolve

(* Holders(q) collects the threads of Holds. *)
LEMMA HoldersHold == \A q : \A t : t \in Holders(q) <=> (t \in Thread /\ Holds(t, q))
BY DEF Holders, Holds, Thread

(* The strengthening implies NoLostFuture. *)
LEMMA FutureInvSuffices == FutureInv => NoLostFuture
BY HoldersHold DEF FutureInv, Reachable, OnePlace, NoLostFuture

(* Nobody takes or gives away a future: FutureInv is kept. *)
LEMMA QuietFuture ==
  ASSUME FutureInv, UNCHANGED <<nextId, pending, future, held>>,
         \A t \in Thread : pc[t] = "resolve" => pc'[t] = "resolve",
         pc'[Monitor] = "complete" <=> pc[Monitor] = "complete",
         pc[Monitor] = "complete" => mon'.req = mon.req
  PROVE  FutureInv'
<1>1. \A t, q : Holds(t, q)' <=> Holds(t, q)
  BY DEF Holds
<1>2. Reachable' /\ OnePlace'
  BY <1>1 DEF FutureInv, Reachable, OnePlace
<1>3. Fresh' /\ HeldToResolve'
  BY DEF FutureInv, Fresh, HeldToResolve
<1> QED BY <1>2, <1>3 DEF FutureInv

(* A thread that moves between places where it holds no future. *)
LEMMA QuietMove ==
  ASSUME Typed, FutureInv, UNCHANGED <<nextId, pending, future, held>>,
         NEW t \in Thread, NEW label, Goto(t, label),
         pc[t] \notin {"resolve", "complete"}, label # "complete",
         t = Monitor \/ mon' = mon
  PROVE  FutureInv'
<1>1. Monitor \in Thread
  BY DEF Thread
<1>2. /\ pc'[t] = label
      /\ \A u \in Thread : u # t => pc'[u] = pc[u]
  BY DEF Goto, Typed, PcType
<1> QED BY <1>1, <1>2, QuietFuture

(* submit() puts the new future into the table. *)
LEMMA FutureSubmit ==
  ASSUME Typed, FutureInv, NEW c \in Client, NEW r \in Replica, Submit(c, r)
  PROVE  FutureInv'
<1> DEFINE n == nextId
<1>1. /\ n \in ReqId /\ nextId' = n + 1 /\ future[n] = "none"
      /\ pending' = pending \cup {n} /\ future' = [future EXCEPT ![n] = "running"]
      /\ UNCHANGED <<held, mon>>
  BY DEF Submit, FutureInv, Fresh, Typed, TableType, ReqId
<1>2. /\ pc'[Monitor] = pc[Monitor]
      /\ \A t \in Thread : pc[t] = "resolve" => pc'[t] = "resolve"
  BY ThreadAssumption DEF Submit, Goto, Thread, Typed, PcType
<1>3. \A t, q : Holds(t, q)' <=> Holds(t, q)
  BY <1>1, <1>2 DEF Holds
<1>4. n \notin pending /\ \A t \in Thread : ~Holds(t, n)
  BY <1>1 DEF FutureInv, Reachable
<1>5. \A q \in ReqId : future'[q] = IF q = n THEN "running" ELSE future[q]
  BY <1>1 DEF Typed, TableType
<1>6. Reachable'
  BY <1>1, <1>3, <1>5 DEF FutureInv, Reachable
<1>7. OnePlace'
  BY <1>1, <1>3, <1>4 DEF FutureInv, OnePlace
<1>8. Fresh'
  BY <1>1, <1>5 DEF FutureInv, Fresh, Typed, TableType, ReqId
<1>9. HeldToResolve'
  BY <1>1, <1>2 DEF FutureInv, HeldToResolve
<1> QED BY <1>6, <1>7, <1>8, <1>9 DEF FutureInv

(* _mark_failed and close() move the futures from the table to the caller. *)
LEMMA FutureTake ==
  ASSUME Typed, FutureInv, NEW t \in Thread, TakePending(t), UNCHANGED <<future, mon>>,
         Goto(t, "resolve"), pc[t] \notin {"resolve", "complete"}
  PROVE  FutureInv'
<1>1. held[t] = {} /\ \A q : ~Holds(t, q)
  BY DEF FutureInv, HeldToResolve, Holds
<1>2. /\ pending' = {} /\ nextId' = nextId
      /\ \A u \in Thread : held'[u] = IF u = t THEN pending ELSE held[u]
  BY DEF TakePending, Typed, ThreadType
<1>3. \A u \in Thread : pc'[u] = IF u = t THEN "resolve" ELSE pc[u]
  BY DEF Goto, Typed, PcType
<1>4. Monitor \in Thread
  BY DEF Thread
<1>5. \A q \in ReqId : \A u \in Thread :
        Holds(u, q)' <=> IF u = t THEN q \in pending ELSE Holds(u, q)
  BY <1>2, <1>3, <1>4 DEF Holds
<1>6. Reachable'
  BY <1>1, <1>2, <1>5 DEF FutureInv, Reachable
<1>7. OnePlace'
  BY <1>2, <1>5 DEF FutureInv, OnePlace
<1>8. Fresh' /\ HeldToResolve'
  BY <1>2, <1>3 DEF FutureInv, Fresh, HeldToResolve
<1> QED BY <1>6, <1>7, <1>8 DEF FutureInv

(* The futures taken are resolved. *)
LEMMA FutureResolve ==
  ASSUME Typed, FutureInv, NEW t \in Thread, Resolve(t)
  PROVE  FutureInv' /\ \A q \in ReqId : future[q] \in Done => future'[q] = future[q]
<1>1. /\ UNCHANGED <<pending, nextId, mon>> /\ pc[t] = "resolve"
      /\ \A u \in Thread : held'[u] = IF u = t THEN {} ELSE held[u]
  BY DEF Resolve, FailHeld, Typed, ThreadType
<1>2. /\ \A u \in Thread : u # t => pc'[u] = pc[u]
      /\ pc'[t] # "complete"
  BY DEF Resolve, Goto, Typed, PcType
<1>3. Monitor \in Thread
  BY DEF Thread
<1>4. \A q \in ReqId : Holds(t, q) <=> q \in held[t]
  BY <1>1 DEF Holds
<1>5. \A q \in ReqId : \A u \in Thread : Holds(u, q)' <=> u # t /\ Holds(u, q)
  BY <1>1, <1>2, <1>3 DEF Holds
<1>6. \A q \in held[t] : q \in ReqId /\ future[q] = "running"
  BY <1>4 DEF FutureInv, Reachable, Typed, ThreadType
<1>7. \A q \in ReqId : future'[q] = IF q \in held[t] THEN "error" ELSE future[q]
  BY <1>6 DEF Resolve, FailHeld, Done
<1>8. Reachable'
  BY <1>1, <1>4, <1>5, <1>7 DEF FutureInv, Reachable, OnePlace
<1>9. OnePlace'
  BY <1>1, <1>5 DEF FutureInv, OnePlace
<1>10. Fresh'
  BY <1>1, <1>6, <1>7 DEF FutureInv, Fresh
<1>11. HeldToResolve'
  BY <1>1, <1>2 DEF FutureInv, HeldToResolve
<1> QED BY <1>6, <1>7, <1>8, <1>9, <1>10, <1>11 DEF FutureInv, Done

(* _record_result moves a complete request from the table to the monitor. *)
LEMMA FutureRecord ==
  ASSUME Typed, FutureInv, RecordResult
  PROVE  FutureInv'
<1> DEFINE n == mon.req
<1>1. Monitor \in Thread /\ pc[Monitor] = "record" /\ n \in pending
  BY DEF Thread, RecordResult, Acceptable
<1>2. UNCHANGED <<nextId, future, held>>
  BY DEF RecordResult
<1>3. CASE Goto(Monitor, "complete") /\ pending' = pending \ {n} /\ mon' = mon
  <2>1. /\ pc'[Monitor] = "complete"
        /\ \A u \in Thread : u # Monitor => pc'[u] = pc[u]
    BY <1>1, <1>3 DEF Goto, Typed, PcType
  <2>2. \A q \in ReqId : \A u \in Thread :
          Holds(u, q)' <=> Holds(u, q) \/ (u = Monitor /\ q = n)
    BY <1>1, <1>2, <1>3, <2>1 DEF Holds
  <2>3. Reachable'
    BY <1>1, <1>2, <1>3, <2>2 DEF FutureInv, Reachable
  <2>4. OnePlace'
    BY <1>1, <1>2, <1>3, <2>2 DEF FutureInv, OnePlace
  <2>5. Fresh' /\ HeldToResolve'
    BY <1>1, <1>2, <2>1 DEF FutureInv, Fresh, HeldToResolve
  <2> QED BY <2>3, <2>4, <2>5 DEF FutureInv
<1>4. CASE UNCHANGED pending /\ \E label \in {"fail", "drain"} : Goto(Monitor, label)
  BY <1>1, <1>2, <1>4, QuietMove
<1> QED BY <1>3, <1>4 DEF RecordResult

(* The monitor sets the result it holds. *)
LEMMA FutureComplete ==
  ASSUME Typed, FutureInv, Complete
  PROVE  FutureInv' /\ \A q \in ReqId : future[q] \in Done => future'[q] = future[q]
<1> DEFINE n == mon.req
<1>1. /\ Monitor \in Thread /\ pc[Monitor] = "complete" /\ n \in ReqId
      /\ UNCHANGED <<pending, nextId, held>>
  BY DEF Thread, Complete, Typed, LocalInv
<1>2. /\ pc'[Monitor] = "drain"
      /\ \A u \in Thread : u # Monitor => pc'[u] = pc[u]
  BY <1>1 DEF Complete, Goto, Typed, PcType
<1>3. /\ Holds(Monitor, n) /\ held[Monitor] = {}
      /\ \A q : Holds(Monitor, q) => q = n
  BY <1>1 DEF Holds, FutureInv, HeldToResolve
<1>4. \A q \in ReqId : \A u \in Thread : Holds(u, q)' <=> u # Monitor /\ Holds(u, q)
  BY <1>1, <1>2, <1>3 DEF Holds
<1>5. \A q \in ReqId : future'[q] = IF q = n THEN "result" ELSE future[q]
  BY <1>1 DEF Complete, Typed, TableType
<1>6. future[n] = "running"
  BY <1>1, <1>3 DEF FutureInv, Reachable
<1>7. Reachable'
  BY <1>1, <1>3, <1>4, <1>5 DEF FutureInv, Reachable, OnePlace
<1>8. OnePlace'
  BY <1>1, <1>4 DEF FutureInv, OnePlace
<1>9. Fresh' /\ HeldToResolve'
  BY <1>1, <1>2, <1>3, <1>5, <1>6 DEF FutureInv, Fresh, HeldToResolve
<1> QED BY <1>5, <1>6, <1>7, <1>8, <1>9 DEF FutureInv, Done

(* The other steps of the monitor. *)
LEMMA FutureMonitoring ==
  ASSUME Typed, FutureInv, Monitoring
  PROVE  FutureInv' /\ \A q \in ReqId : future[q] \in Done => future'[q] = future[q]
<1>0. Monitor \in Thread
  BY DEF Thread
<1>1. CASE RecordResult
  BY <1>1, FutureRecord DEF RecordResult
<1>2. CASE Complete
  BY <1>2, FutureComplete
<1>3. CASE MonitorExit \/ MonitorWait \/ MonitorSweep \/ RecordReject
  BY <1>0, <1>3, QuietMove DEF MonitorExit, MonitorWait, MonitorSweep, RecordReject
<1>4. ASSUME NEW w \in Worker, MonitorRecv(w)
      PROVE  FutureInv' /\ future' = future
  BY <1>0, <1>4, QuietMove DEF MonitorRecv
<1>5. ASSUME NEW w \in Worker, MonitorEof(w)
      PROVE  FutureInv' /\ future' = future
  <2>1. CASE UNCHANGED pc
    BY <1>5, <2>1, QuietFuture DEF MonitorEof
  <2>2. CASE Goto(Monitor, "fail")
    BY <1>0, <1>5, <2>2, QuietMove DEF MonitorEof
  <2> QED BY <1>5, <2>1, <2>2 DEF MonitorEof
<1> QED BY <1>1, <1>2, <1>3, <1>4, <1>5
        DEF Monitoring, MonitorExit, MonitorWait, MonitorSweep, RecordReject

(* The rest of submit(). *)
LEMMA FutureSending ==
  ASSUME Typed, FutureInv, NEW c \in Client, Sending(c) \/ SendUnpicklable(c)
  PROVE  FutureInv' /\ future' = future
<1>1. c \in Thread
  BY DEF Thread
<1>2. /\ UNCHANGED <<nextId, pending, future, held, mon>>
      /\ pc[c] \in {"lock", "put", "sending"}
  BY DEF Sending, SendLock, SendPut, SendReturn, SendBroken, SendUnpicklable, SendAborts
<1>3. \E label \in {"put", "idle", "sending", "fail"} : Goto(c, label)
  BY DEF Sending, SendLock, SendPut, SendReturn, SendBroken, SendUnpicklable, SendAborts,
         AfterSend
<1> QED BY <1>1, <1>2, <1>3, QuietMove

(* Steps of _mark_failed, close() and the shutdown. *)
LEMMA FutureShutting ==
  ASSUME Typed, FutureInv, NEW t \in Thread, Shutting(t) \/ (t \in Closer /\ CloseBegin(t))
  PROVE  FutureInv' /\ \A q \in ReqId : future[q] \in Done => future'[q] = future[q]
<1>0. ReturnPc(t) # "complete"
  BY DEF ReturnPc
<1>1. CASE Resolve(t)
  BY <1>1, FutureResolve
<1>2. CASE MarkFailed(t)
  BY <1>0, <1>2, FutureTake, QuietMove DEF MarkFailed
<1>3. CASE CloseBegin(t)
  BY <1>3, FutureTake, QuietMove DEF CloseBegin
<1>4. CASE ShutdownWait(t) \/ ShutdownSend(t) \/ CloseFinal(t)
  BY <1>0, <1>4, QuietMove DEF ShutdownWait, ShutdownSend, CloseFinal
<1>5. CASE Reap(t)
  <2>1. /\ UNCHANGED <<nextId, pending, future, held, mon>>
        /\ pc[t] \in {"shutJoin", "reap"} /\ Goto(t, ReturnPc(t))
    BY <1>5 DEF Reap
  <2> QED BY <1>0, <2>1, QuietMove
<1> QED BY <1>1, <1>2, <1>3, <1>4, <1>5 DEF Shutting

(* Every step keeps FutureInv and every outcome. *)
LEMMA FutureStep ==
  Typed /\ FutureInv /\ [Next]_vars
    => FutureInv' /\ \A q \in ReqId : future[q] \in Done => future'[q] = future[q]
<1> SUFFICES ASSUME Typed, FutureInv, [Next]_vars
    PROVE FutureInv' /\ \A q \in ReqId : future[q] \in Done => future'[q] = future[q]
  OBVIOUS
<1>1. ASSUME NEW w \in Worker, Working(w) PROVE ParentIdle
  BY <1>1 DEF Working, WorkerRecv, WorkerResult, WorkerSent, WorkerStop
<1>2. ASSUME Failing PROVE ParentIdle
  BY <1>2 DEF Failing, WorkerRaises, WorkerHang, WorkersCrash
<1>3. ASSUME NEW q \in ReqId, Expire(q) PROVE ParentIdle
  BY <1>3 DEF Expire
<1>4. ASSUME ParentIdle PROVE FutureInv' /\ future' = future
  BY <1>4, QuietFuture DEF ParentIdle
<1>5. ASSUME UNCHANGED vars PROVE ParentIdle
  BY <1>5 DEF vars, ParentIdle
<1>6. Closer \subseteq Thread
  BY DEF Thread
<1>7. ASSUME NEW c \in Client, NEW r \in Replica, Submit(c, r)
      PROVE  \A q \in ReqId : future[q] \in Done => future'[q] = future[q]
  BY <1>7 DEF Submit, FutureInv, Fresh, Typed, TableType, ReqId, Done
<1> QED BY <1>1, <1>2, <1>3, <1>4, <1>5, <1>6, <1>7, FutureSubmit, FutureSending,
           FutureShutting, FutureMonitoring DEF Next, Terminated

(* Initially there is no future. *)
LEMMA FutureInit == Init => FutureInv
<1> SUFFICES ASSUME Init PROVE FutureInv
  OBVIOUS
<1>1. \A t \in Thread : held[t] = {} /\ pc[t] # "complete"
  BY DEF Init
<1>2. \A t \in Thread : \A q : ~Holds(t, q)
  BY <1>1 DEF Holds, Thread
<1>3. Reachable /\ OnePlace
  BY <1>2 DEF Init, Reachable, OnePlace
<1> QED BY <1>1, <1>3 DEF Init, FutureInv, Fresh, HeldToResolve

(* No future is lost: until it is resolved, the Future submit() returned   *)
(* is in the table or with exactly one thread about to resolve it, for     *)
(* every plan and every number of threads, requests and faults.            *)
THEOREM FuturesKept == Spec => []NoLostFuture
<1>1. Init => Typed /\ FutureInv
  BY InitType, FutureInit
<1>2. Typed /\ FutureInv /\ [Next]_vars => (Typed /\ FutureInv)'
  BY TypedStep, FutureStep
<1> QED BY <1>1, <1>2, FutureInvSuffices, PTL DEF Spec

(* A future is resolved once: set_result and set_exception never meet a    *)
(* future that is done.                                                    *)
THEOREM FuturesResolvedOnce == Spec => ResolvedOnce
<1>1. Init => Typed /\ FutureInv
  BY InitType, FutureInit
<1>2. Typed /\ FutureInv /\ [Next]_vars => (Typed /\ FutureInv)'
  BY TypedStep, FutureStep
<1>3. Typed /\ FutureInv /\ [Next]_vars
        => [\A q \in ReqId : future[q] \in Done => future'[q] = future[q]]_future
  BY FutureStep
<1> QED BY <1>1, <1>2, <1>3, PTL DEF Spec, ResolvedOnce
-----------------------------------------------------------------------------
(* The refinement of FailFastService, step by step. *)

(* What the mapping to the service rests on. *)
ServiceInv == Typed /\ FutureInv /\ TableInv /\ CountInv

(* The request whose result the monitor is about to set. *)
Completes(q) == pc[Monitor] = "complete" /\ mon.req = q

(* A pending request is unresolved, numbered, and with nobody else. *)
LEMMA PendingFacts ==
  ASSUME ServiceInv, NEW q \in pending
  PROVE  /\ q \in ReqId /\ q < nextId /\ ~(q >= nextId) /\ future[q] = "running"
         /\ ~Completes(q) /\ state = "running"
<1>1. q \in ReqId /\ q < nextId /\ ~(q >= nextId)
  BY DEF ServiceInv, CountInv, Typed, TableType, ReqId
<1>2. future[q] = "running" /\ state = "running"
  BY <1>1 DEF ServiceInv, FutureInv, Reachable, TableInv, PendingOnlyWhileRunning
<1>3. ~Completes(q)
  BY <1>1 DEF ServiceInv, FutureInv, OnePlace, Holds, Completes, Thread
<1> QED BY <1>1, <1>2, <1>3

(* The status of a request in terms of Completes. *)
LEMMA StatusCases ==
  ASSUME ServiceInv, NEW q \in ReqId
  PROVE  /\ q >= nextId => StatusOf(q) = "none"
         /\ q \in pending => StatusOf(q) = "waiting"
         /\ ~(q >= nextId) /\ q \notin pending /\ (future[q] = "result" \/ Completes(q))
              => StatusOf(q) = "ok"
         /\ ~(q >= nextId) /\ q \notin pending /\ ~(future[q] = "result" \/ Completes(q))
              => StatusOf(q) = "unavailable"
BY PendingFacts DEF StatusOf, Completes

(* A step that leaves open and the status of every request alone. *)
LEMMA ServiceStutters ==
  ASSUME \A q \in ReqId : StatusOf(q)' = StatusOf(q),
         state' = "running" <=> state = "running"
  PROVE  UNCHANGED Service!vars
BY DEF Service!vars

(* Nobody takes, completes or resolves anything. *)
LEMMA ServiceQuiet ==
  ASSUME UNCHANGED <<nextId, pending, future>>, state' = "running" <=> state = "running",
         \A q \in ReqId : Completes(q)' <=> Completes(q)
  PROVE  UNCHANGED Service!vars
<1>1. \A q \in ReqId : StatusOf(q)' = StatusOf(q)
  BY DEF StatusOf, Completes
<1> QED BY <1>1, ServiceStutters

(* Submit is Accept. *)
LEMMA ServiceSubmit ==
  ASSUME ServiceInv, ServiceInv', NEW c \in Client, NEW r \in Replica, Submit(c, r)
  PROVE  Service!Accept(nextId) /\ nextId \in ReqId
<1>0. PICK n \in ReqId : n = nextId
  BY DEF Submit, ServiceInv, Typed, TableType, ReqId
<1>1. /\ nextId' = n + 1 /\ pending' = pending \cup {n}
      /\ future' = [future EXCEPT ![n] = "running"]
      /\ state = "running" /\ state' = state /\ mon' = mon
  BY <1>0 DEF Submit, Admits
<1>2. pc'[Monitor] = pc[Monitor]
  BY ThreadAssumption DEF Submit, Goto, Thread, ServiceInv, Typed, PcType
<1>3. \A q \in ReqId : q # n => StatusOf(q)' = StatusOf(q)
  <2>1. ASSUME NEW q \in ReqId, q # n
        PROVE  /\ q >= nextId' <=> q >= nextId
               /\ q \in pending' <=> q \in pending
               /\ future'[q] = future[q]
    BY <1>0, <1>1, <2>1 DEF ServiceInv, Typed, TableType, ReqId
  <2> QED BY <1>1, <1>2, <2>1 DEF StatusOf
<1>4. n >= nextId /\ n \in pending'
  BY <1>0, <1>1 DEF ReqId
<1>5. StatusOf(n) = "none" /\ StatusOf(n)' = "waiting"
  <2>1. ~(n >= nextId')
    BY <1>1 DEF ReqId
  <2> QED BY <1>4, <2>1 DEF StatusOf
<1>6. [q \in ReqId |-> StatusOf(q)]' = [[q \in ReqId |-> StatusOf(q)] EXCEPT ![n] = "waiting"]
  BY <1>3, <1>5
<1>7. UNCHANGED (state = "running")
  BY <1>1
<1> QED BY <1>0, <1>1, <1>5, <1>6, <1>7 DEF Service!Accept

(* Taking the pending futures in RUNNING is ShutDown. *)
LEMMA ServiceTake ==
  ASSUME ServiceInv, NEW t \in Thread, TakePending(t), UNCHANGED <<future, mon>>,
         pc[t] # "complete", Goto(t, "resolve"), state' # "running"
  PROVE  [Service!Next]_(Service!vars)
<1>1. pending' = {} /\ nextId' = nextId
  BY DEF TakePending
<1>2. \A q \in ReqId : Completes(q)' <=> Completes(q)
  BY DEF Goto, ServiceInv, Typed, PcType, Completes, Thread
<1>3. \A q \in ReqId : StatusOf(q)' = IF StatusOf(q) = "waiting" THEN "unavailable"
                                       ELSE StatusOf(q)
  <2> SUFFICES ASSUME NEW q \in ReqId
               PROVE  StatusOf(q)' = IF StatusOf(q) = "waiting" THEN "unavailable"
                                     ELSE StatusOf(q)
    OBVIOUS
  <2>1. CASE q \in pending
    BY <1>1, <1>2, <2>1, PendingFacts DEF StatusOf, Completes
  <2>2. CASE q \notin pending
    BY <1>1, <1>2, <2>2 DEF StatusOf, Completes
  <2> QED BY <2>1, <2>2
<1>4. CASE state = "running"
  BY <1>3, <1>4 DEF Service!Next, Service!ShutDown
<1>5. CASE state # "running"
  <2>1. pending = {}
    BY <1>5 DEF ServiceInv, TableInv, PendingOnlyWhileRunning
  <2>2. UNCHANGED Service!vars
    BY <1>1, <1>2, <1>5, <2>1, ServiceQuiet
  <2> QED BY <2>2
<1> QED BY <1>4, <1>5

(* Resolving them afterwards changes no status. *)
LEMMA ServiceResolve ==
  ASSUME ServiceInv, NEW t \in Thread, Resolve(t)
  PROVE  UNCHANGED Service!vars
<1>1. UNCHANGED <<nextId, pending, state, mon>> /\ pc[t] = "resolve"
  BY DEF Resolve
<1>2. \A q \in ReqId : Completes(q)' <=> Completes(q)
  BY <1>1 DEF Resolve, Goto, ServiceInv, Typed, PcType, Completes, Thread
<1>3. \A q \in ReqId : future'[q] = "result" <=> future[q] = "result"
  BY DEF Resolve, FailHeld, Done
<1>4. \A q \in ReqId : StatusOf(q)' = StatusOf(q)
  BY <1>1, <1>2, <1>3 DEF StatusOf, Completes
<1> QED BY <1>1, <1>4, ServiceStutters

(* The last answer, recorded under the lock, is Answer. *)
LEMMA ServiceRecord ==
  ASSUME ServiceInv, RecordResult
  PROVE  [Service!Next]_(Service!vars)
<1>0. PICK n : n = mon.req
  OBVIOUS
<1>1. /\ UNCHANGED <<nextId, future, state>> /\ n \in pending /\ pc[Monitor] = "record"
  BY <1>0 DEF RecordResult, Acceptable
<1>2. CASE Goto(Monitor, "complete") /\ pending' = pending \ {n} /\ mon' = mon
  <2>1. n \in ReqId /\ ~(n >= nextId) /\ state = "running"
    BY <1>1, PendingFacts
  <2>2. pc'[Monitor] = "complete"
    BY <1>2 DEF Goto, ServiceInv, Typed, PcType, Thread
  <2>3. StatusOf(n) = "waiting" /\ StatusOf(n)' = "ok"
    BY <1>0, <1>1, <1>2, <2>1, <2>2 DEF StatusOf
  <2>4. \A q \in ReqId : q # n => StatusOf(q)' = StatusOf(q)
    BY <1>0, <1>1, <1>2, <2>2 DEF StatusOf
  <2>5. [q \in ReqId |-> StatusOf(q)]' = [[q \in ReqId |-> StatusOf(q)] EXCEPT ![n] = "ok"]
    BY <2>3, <2>4
  <2>6. UNCHANGED (state = "running")
    BY <1>1
  <2>7. Service!Answer(n)
    BY <2>1, <2>3, <2>5, <2>6 DEF Service!Answer
  <2> QED BY <2>1, <2>7 DEF Service!Next
<1>3. CASE UNCHANGED pending /\ \E label \in {"fail", "drain"} : Goto(Monitor, label)
  <2>1. \A q \in ReqId : Completes(q)' <=> Completes(q)
    BY <1>1, <1>3 DEF Goto, ServiceInv, Typed, PcType, Completes, Thread
  <2>2. UNCHANGED Service!vars
    BY <1>1, <1>3, <2>1, ServiceQuiet
  <2> QED BY <2>2
<1> QED BY <1>0, <1>2, <1>3 DEF RecordResult

(* Setting the result afterwards changes no status. *)
LEMMA ServiceComplete ==
  ASSUME ServiceInv, Complete
  PROVE  UNCHANGED Service!vars
<1> DEFINE n == mon.req
<1>1. /\ UNCHANGED <<nextId, pending, state>> /\ pc[Monitor] = "complete" /\ n \in ReqId
  BY DEF Complete, ServiceInv, Typed, LocalInv
<1>2. pc'[Monitor] = "drain"
  BY DEF Complete, Goto, ServiceInv, Typed, PcType, Thread
<1>3. \A q \in ReqId : future'[q] = IF q = n THEN "result" ELSE future[q]
  BY <1>1 DEF Complete, ServiceInv, Typed, TableType
<1>4. \A q \in ReqId : StatusOf(q)' = StatusOf(q)
  BY <1>1, <1>2, <1>3 DEF StatusOf
<1> QED BY <1>1, <1>4, ServiceStutters

(* The other steps of a thread change neither table nor futures. *)
LEMMA ServiceMove ==
  ASSUME ServiceInv, UNCHANGED <<nextId, pending, future>>,
         state' = "running" <=> state = "running",
         NEW t \in Thread, NEW label, Goto(t, label), pc[t] # "complete", label # "complete",
         t = Monitor \/ mon' = mon
  PROVE  UNCHANGED Service!vars
<1>1. \A q \in ReqId : Completes(q)' <=> Completes(q)
  BY DEF Goto, ServiceInv, Typed, PcType, Completes, Thread
<1> QED BY <1>1, ServiceQuiet

(* Every step of the supervisor is a step of the service, or none. *)
LEMMA ServiceStep ==
  ServiceInv /\ ServiceInv' /\ [Next]_vars => [Service!Next]_(Service!vars)
<1> SUFFICES ASSUME ServiceInv, ServiceInv', [Next]_vars
             PROVE  [Service!Next]_(Service!vars)
  OBVIOUS
<1>0. Closer \subseteq Thread /\ Client \subseteq Thread /\ Monitor \in Thread
  BY DEF Thread
<1>1. ASSUME ParentIdle PROVE UNCHANGED Service!vars
  BY <1>1, ServiceQuiet DEF ParentIdle, Completes
<1>2. ASSUME NEW w \in Worker, Working(w) PROVE ParentIdle
  BY <1>2 DEF Working, WorkerRecv, WorkerResult, WorkerSent, WorkerStop
<1>3. ASSUME Failing PROVE ParentIdle
  BY <1>3 DEF Failing, WorkerRaises, WorkerHang, WorkersCrash
<1>4. ASSUME NEW q \in ReqId, Expire(q) PROVE ParentIdle
  BY <1>4 DEF Expire
<1>5. ASSUME UNCHANGED vars PROVE ParentIdle
  BY <1>5 DEF vars, ParentIdle
<1>6. ASSUME NEW c \in Client, NEW r \in Replica, Submit(c, r) PROVE Service!Next
  BY <1>6, ServiceSubmit DEF Service!Next
<1>7. ASSUME NEW c \in Client, Sending(c) \/ SendUnpicklable(c)
      PROVE  UNCHANGED Service!vars
  <2>1. /\ UNCHANGED <<nextId, pending, future, state, mon>>
        /\ pc[c] \in {"lock", "put", "sending"}
    BY <1>7 DEF Sending, SendLock, SendPut, SendReturn, SendBroken, SendUnpicklable,
                SendAborts
  <2>2. \E label \in {"put", "idle", "sending", "fail"} : Goto(c, label)
    BY <1>7 DEF Sending, SendLock, SendPut, SendReturn, SendBroken, SendUnpicklable,
                SendAborts, AfterSend
  <2> QED BY <1>0, <2>1, <2>2, ServiceMove
<1>8. ASSUME NEW t \in Closer, CloseBegin(t) PROVE [Service!Next]_(Service!vars)
  <2>1. CASE state = "stopped"
    <3>1. Goto(t, "done") /\ UNCHANGED <<nextId, pending, future, state, mon>>
      BY <1>8, <2>1 DEF CloseBegin
    <3>2. UNCHANGED Service!vars
      BY <1>0, <1>8, <3>1, ServiceMove DEF CloseBegin
    <3> QED BY <3>2
  <2>2. CASE state # "stopped"
    BY <1>0, <1>8, <2>2, ServiceTake DEF CloseBegin
  <2> QED BY <2>1, <2>2
<1>9. ASSUME NEW t \in Thread, Shutting(t) PROVE [Service!Next]_(Service!vars)
  <2>0. ReturnPc(t) # "complete"
    BY DEF ReturnPc
  <2>1. CASE MarkFailed(t)
    <3>1. CASE Ended
      <4>1. Goto(t, ReturnPc(t)) /\ UNCHANGED <<nextId, pending, future, state, mon>>
        BY <2>1, <3>1 DEF MarkFailed
      <4>2. UNCHANGED Service!vars
        BY <2>0, <2>1, <4>1, ServiceMove DEF MarkFailed
      <4> QED BY <4>2
    <3>2. CASE ~Ended
      BY <2>1, <3>2, ServiceTake DEF MarkFailed
    <3> QED BY <3>1, <3>2
  <2>2. CASE Resolve(t)
    BY <2>2, ServiceResolve
  <2>3. CASE ShutdownWait(t) \/ ShutdownSend(t)
    <3>1. UNCHANGED Service!vars
      BY <2>0, <2>3, ServiceMove DEF ShutdownWait, ShutdownSend
    <3> QED BY <3>1
  <2>4. CASE Reap(t)
    <3>1. /\ UNCHANGED <<nextId, pending, future, state, mon>>
          /\ pc[t] \in {"shutJoin", "reap"} /\ Goto(t, ReturnPc(t))
      BY <2>4 DEF Reap
    <3>2. UNCHANGED Service!vars
      BY <2>0, <3>1, ServiceMove
    <3> QED BY <3>2
  <2>5. CASE CloseFinal(t)
    <3>1. t \in Closer
      BY <2>5 DEF CloseFinal, ServiceInv, Typed, PcType, Thread, ClientPc, MonitorPc
    <3>2. state # "running" /\ state' # "running"
      BY <2>5, <3>1 DEF CloseFinal, ServiceInv, TableInv, ClosingInv
    <3>3. UNCHANGED Service!vars
      BY <2>5, <3>2, ServiceMove DEF CloseFinal
    <3> QED BY <3>3
  <2> QED BY <1>9, <2>1, <2>2, <2>3, <2>4, <2>5 DEF Shutting
<1>10. ASSUME Monitoring PROVE [Service!Next]_(Service!vars)
  <2>1. CASE RecordResult
    BY <2>1, ServiceRecord
  <2>2. CASE Complete
    BY <2>2, ServiceComplete
  <2>3. CASE MonitorExit \/ MonitorWait \/ MonitorSweep \/ RecordReject
    <3>1. UNCHANGED Service!vars
      BY <1>0, <2>3, ServiceMove DEF MonitorExit, MonitorWait, MonitorSweep, RecordReject
    <3> QED BY <3>1
  <2>4. ASSUME NEW w \in Worker, MonitorRecv(w) PROVE UNCHANGED Service!vars
    BY <1>0, <2>4, ServiceMove DEF MonitorRecv
  <2>5. ASSUME NEW w \in Worker, MonitorEof(w) PROVE UNCHANGED Service!vars
    <3>1. CASE UNCHANGED pc
      BY <2>5, <3>1, ServiceQuiet DEF MonitorEof, Completes
    <3>2. CASE Goto(Monitor, "fail")
      BY <1>0, <2>5, <3>2, ServiceMove DEF MonitorEof
    <3> QED BY <2>5, <3>1, <3>2 DEF MonitorEof
  <2> QED BY <1>10, <2>1, <2>2, <2>3, <2>4, <2>5 DEF Monitoring
<1> QED BY <1>1, <1>2, <1>3, <1>4, <1>5, <1>6, <1>7, <1>8, <1>9, <1>10
        DEF Next, Terminated

(* A started supervisor is an open service without requests. *)
LEMMA ServiceInit == Init => ServiceInv /\ Service!Init
<1> SUFFICES ASSUME Init PROVE ServiceInv /\ Service!Init
  OBVIOUS
<1>1. TableInv
  BY ThreadAssumption DEF Init, TableInv, PendingOnlyWhileRunning, ClosingInv, Thread
<1>2. CountInv
  BY CountInit
<1>3. \A q \in ReqId : StatusOf(q) = "none"
  BY DEF Init, StatusOf, ReqId
<1> QED BY <1>1, <1>2, <1>3, InitType, FutureInit DEF ServiceInv, Service!Init, Init

(* The supervisor implements the fail-fast service, for every plan and     *)
(* every number of threads, requests and faults: requests are accepted     *)
(* only while it serves, each gets one outcome, the step that ends RUNNING *)
(* fails every waiting one, and none succeeds after it.                    *)
THEOREM ServiceImplemented == Spec => ImplementsService
<1>1. Init => ServiceInv /\ Service!Init
  BY ServiceInit
<1>2. ServiceInv /\ [Next]_vars => ServiceInv'
  BY TypedStep, FutureStep, TableStep, CountStep DEF ServiceInv
<1>3. ServiceInv /\ ServiceInv' /\ [Next]_vars => [Service!Next]_(Service!vars)
  BY ServiceStep
<1> QED BY <1>1, <1>2, <1>3, PTL DEF Spec, ImplementsService, Service!Spec

-----------------------------------------------------------------------------
(* The order of requests.                                                  *)

(* Two ranks of one replica. *)
Mates(v, w) == ReplicaOf[v] = ReplicaOf[w]

(* A submit() that has the send lock, and the ranks it has not written to. *)
Busy(c) == pc[c] \in {"put", "sending"}
Todo(c) == IF pc[c] = "sending" THEN send[c].ranks \ {FirstRank(send[c].ranks)}
           ELSE send[c].ranks

(* A submit() writes to the ranks of one replica, from the first to the    *)
(* last, and holds the send lock all the while.                            *)
SenderInv ==
  \A c \in Client :
    /\ pc[c] \in {"lock", "put", "sending"} =>
         /\ send[c].ranks # {}
         /\ \A w \in send[c].ranks : \A u \in Worker :
              /\ u \in send[c].ranks => Mates(u, w)
              /\ Mates(u, w) /\ (u >= w \/ pc[c] = "lock") => u \in send[c].ranks
    /\ Busy(c) => sendLock = c

(* Ranks that have the request being sent while others still wait for it.  *)
ReachedBy(c, w) == Busy(c) /\ (\E u \in send[c].ranks : Mates(u, w)) /\ w \notin Todo(c)
Reached(w) == \E c \in Client : ReachedBy(c, w)

(* What has been written to a worker, read or not. *)
Total(w)    == Len(seen[w]) + Len(toWorker[w])
Entry(w, i) == IF i <= Len(seen[w]) THEN seen[w][i] ELSE toWorker[w][i - Len(seen[w])].req

(* ShutdownRequests have been sent, or the workers killed. *)
Down == shutComplete \/ \E t \in Thread : pc[t] = "shutJoin"

(* Every later submit() fails before it gets to w. *)
Stuck(w) == \E x \in Worker : Mates(x, w) /\ x <= w /\ ~Reached(x) /\ ~Alive(x)

(* Until then the pipes hold nothing but requests, ... *)
PipesClean == \A w \in Worker :
  wpc[w] # "stop" /\ \A i \in 1..Len(toWorker[w]) : toWorker[w][i].type = "execute"

(* ... an earlier rank got as many as a later one, the one being sent      *)
(* apart, or more when the later one can no longer be reached, ...         *)
InStep == \A v, w \in Worker : Mates(v, w) /\ v < w =>
  /\ Total(w) <= Total(v)
  /\ Stuck(w) \/ Total(v) = Total(w) + (IF Reached(v) /\ ~Reached(w) THEN 1 ELSE 0)

(* ... and the last one a reached rank got is the one being sent.          *)
LastIsCurrent == \A c \in Client, w \in Worker :
  ReachedBy(c, w) => Total(w) > 0 /\ Entry(w, Total(w)) = send[c].req

(* Afterwards no process goes past the ShutdownRequest.                    *)
Sealed == \A w \in Worker :
  ~Alive(w) \/ wpc[w] = "stop" \/ \E j \in 1..Len(toWorker[w]) : toWorker[w][j] = Shutdown

(* Requests a worker has taken, or will take if it lives. *)
Taking(w) == wpc[w] \in {"idle", "exec", "hung", "send"}
Usable(w, i) ==
  /\ i \in 1..(IF Taking(w) THEN Total(w) ELSE Len(seen[w]))
  /\ \A j \in 1..i : Entry(w, j) # None

(* Ranks of a replica agree on every one of them. *)
SameEntries == \A v, w \in Worker : Mates(v, w) =>
  \A i \in Nat : Usable(v, i) /\ Usable(w, i) => Entry(v, i) = Entry(w, i)

(* The inductive strengthening of RanksAgree. *)
OrderInv == /\ SenderInv /\ SameEntries
            /\ Down => Sealed
            /\ ~Down => PipesClean /\ InStep /\ LastIsCurrent
-----------------------------------------------------------------------------
(* Facts about the operators. *)

(* A set of natural numbers has a least element. *)
LEMMA Least ==
  ASSUME NEW S, S \subseteq Nat, S # {}
  PROVE  \E x \in S : \A y \in S : x <= y
<1> DEFINE R == OpToRel(<, Nat)
<1>1. IsWellFoundedOn(R, Nat)
  BY NatLessThanWellFounded
<1>2. \A x, y \in Nat : x < y => <<x, y>> \in R
  BY DEF OpToRel
<1> HIDE DEF R
<1>3. PICK x \in S : \A y \in S : ~(<<y, x>> \in R)
  BY <1>1, WFMin
<1>4. \A y \in S : x \in Nat /\ y \in Nat /\ ~(y < x)
  BY <1>2, <1>3, Zenon
<1>5. \A y \in S : x <= y
  BY <1>4
<1> QED BY <1>5

(* The loop over the placements takes the lowest rank first. *)
LEMMA FirstRankIs ==
  ASSUME NEW S, S \subseteq Worker, S # {}
  PROVE  FirstRank(S) \in S /\ \A v \in S : FirstRank(S) <= v
<1>1. \E x \in S : \A y \in S : x <= y
  BY Least, PlanAssumption
<1> QED BY <1>1 DEF FirstRank

(* Sequences that agree wherever both are defined: one begins the other. *)
LEMMA PrefixIf ==
  ASSUME NEW S, NEW s \in Seq(S), NEW t \in Seq(S),
         \A i : i \in 1..Len(s) /\ i \in 1..Len(t) => s[i] = t[i]
  PROVE  IsPrefix(s, t) \/ IsPrefix(t, s)
<1>1. CASE Len(s) <= Len(t)
  <2>1. SubSeq(s, 1, Len(s)) = SubSeq(t, 1, Len(s))
    BY <1>1
  <2> QED BY <1>1, <2>1 DEF IsPrefix
<1>2. CASE Len(t) <= Len(s)
  <2>1. SubSeq(t, 1, Len(t)) = SubSeq(s, 1, Len(t))
    BY <1>2
  <2> QED BY <1>2, <2>1 DEF IsPrefix
<1> QED BY <1>1, <1>2

(* What a write does to a pipe, ... *)
LEMMA AppendIs ==
  ASSUME NEW S, NEW s \in Seq(S), NEW e \in S, NEW n \in Nat, n = Len(s)
  PROVE  /\ Len(Append(s, e)) = n + 1 /\ Append(s, e)[n + 1] = e
         /\ \A j \in 1..n : Append(s, e)[j] = s[j]
OBVIOUS

(* ... and what a read does. *)
LEMMA TailIs ==
  ASSUME NEW S, NEW s \in Seq(S), NEW n \in Nat, n = Len(s), s # <<>>
  PROVE  /\ n > 0 /\ Len(Tail(s)) = n - 1 /\ Head(s) = s[1]
         /\ \A j \in 1..(n - 1) : Tail(s)[j] = s[j + 1]
OBVIOUS

(* The lengths are natural numbers. *)
LEMMA PipeTypes ==
  ASSUME Typed, NEW w \in Worker
  PROVE  /\ seen[w] \in Seq(ReqId) /\ toWorker[w] \in Seq(ParentMessage)
         /\ Len(seen[w]) \in Nat /\ Len(toWorker[w]) \in Nat
         /\ Total(w) \in Nat /\ Len(seen[w]) <= Total(w)
BY DEF Typed, ProcessType, Total

(* They can be named, and stay what they are when a step is taken. *)
LEMMA Lengths ==
  ASSUME Typed
  PROVE  \E l, m \in [Worker -> Nat] : \A w \in Worker :
           Len(seen[w]) = l[w] /\ Len(toWorker[w]) = m[w] /\ Total(w) = l[w] + m[w]
<1> DEFINE L == [w \in Worker |-> Len(seen[w])]
           M == [w \in Worker |-> Len(toWorker[w])]
<1>1. L \in [Worker -> Nat] /\ M \in [Worker -> Nat]
  BY PipeTypes
<1>2. \A w \in Worker : Len(seen[w]) = L[w] /\ Len(toWorker[w]) = M[w]
  OBVIOUS
<1>3. \A w \in Worker : Total(w) = L[w] + M[w]
  BY DEF Total
<1> HIDE DEF L, M
<1> QED BY <1>1, <1>2, <1>3

(* OrderInv gives the requests taken in the same order. *)
LEMMA OrderSuffices == Typed /\ OrderInv => RanksAgree
<1> SUFFICES ASSUME Typed, OrderInv, NEW v \in Worker, NEW w \in Worker, Mates(v, w)
             PROVE  IsPrefix(seen[v], seen[w]) \/ IsPrefix(seen[w], seen[v])
  BY DEF RanksAgree, Mates
<1>1. ASSUME NEW u \in Worker, NEW i \in 1..Len(seen[u])
      PROVE  Usable(u, i) /\ Entry(u, i) = seen[u][i]
  <2>1. \A j \in 1..i : Entry(u, j) = seen[u][j] /\ seen[u][j] \in ReqId
    BY <1>1, PipeTypes DEF Entry
  <2>2. None \notin ReqId
    BY ThreadAssumption DEF ReqId
  <2> QED BY <1>1, <2>1, <2>2, PipeTypes DEF Usable
<1>2. \A i : i \in 1..Len(seen[v]) /\ i \in 1..Len(seen[w]) => seen[v][i] = seen[w][i]
  BY <1>1, PipeTypes DEF OrderInv, SameEntries
<1> QED BY <1>2, PipeTypes, PrefixIf

-----------------------------------------------------------------------------
(* Steps that write to no pipe and read from none. *)

(* Such a step, in which no submit() takes or releases the send lock and   *)
(* processes may move or die, keeps OrderInv.                              *)
LEMMA QuietOrder ==
  ASSUME Typed, OrderInv, UNCHANGED <<toWorker, seen, send, sendLock>>,
         \A c \in Client : \/ pc'[c] = pc[c]
                           \/ {pc[c], pc'[c]} \cap {"lock", "put", "sending"} = {},
         Down => Down', Down' => Down \/ \A w \in Worker : ~Alive(w)',
         \A w \in Worker : /\ ~Alive(w) => ~Alive(w)'
                           /\ Taking(w)' => Taking(w)
                           /\ wpc'[w] = "stop" => wpc[w] = "stop"
                           /\ wpc[w] = "stop" => wpc'[w] = "stop" \/ ~Alive(w)'
  PROVE  OrderInv'
<1>1. \A c \in Client : \A w : ReachedBy(c, w)' <=> ReachedBy(c, w)
  BY DEF ReachedBy, Busy, Todo
<1>2. SenderInv'
  BY DEF OrderInv, SenderInv, Busy
<1>3. \A w : Total(w)' = Total(w) /\ \A i : Entry(w, i)' = Entry(w, i)
  BY DEF Total, Entry
<1>4. SameEntries'
  <2>1. \A w \in Worker : \A i \in Nat : Usable(w, i)' => Usable(w, i)
    <3> SUFFICES ASSUME NEW w \in Worker, NEW i \in Nat, Usable(w, i)'
                 PROVE  Usable(w, i)
      OBVIOUS
    <3>1. \A j \in 1..i : Entry(w, j) # None
      BY <1>3 DEF Usable
    <3>2. i \in 1..(IF Taking(w) THEN Total(w) ELSE Len(seen[w]))
      BY <1>3, PipeTypes DEF Usable
    <3> QED BY <3>1, <3>2 DEF Usable
  <2> QED BY <1>3, <2>1 DEF OrderInv, SameEntries
<1>5. ASSUME Down' PROVE Sealed'
  BY <1>5 DEF OrderInv, Sealed
<1>6. ASSUME ~Down' PROVE PipesClean' /\ InStep' /\ LastIsCurrent'
  <2>1. PipesClean /\ InStep /\ LastIsCurrent
    BY <1>6 DEF OrderInv
  <2>2. \A w \in Worker : (Reached(w)' <=> Reached(w)) /\ (Stuck(w) => Stuck(w)')
    <3>1. \A w : Reached(w)' <=> Reached(w)
      BY <1>1 DEF Reached
    <3> QED BY <3>1 DEF Stuck
  <2>3. InStep'
    BY <1>3, <2>1, <2>2 DEF InStep
  <2>4. LastIsCurrent'
    BY <1>1, <1>3, <2>1 DEF LastIsCurrent
  <2> QED BY <2>1, <2>3, <2>4 DEF PipesClean
<1> QED BY <1>2, <1>4, <1>5, <1>6 DEF OrderInv

(* Nobody writes or reads, no process moves; what changes is who is        *)
(* reached.                                                                *)
LEMMA SettledOrder ==
  ASSUME Typed, OrderInv, SenderInv', UNCHANGED <<toWorker, seen, wpc>>, Down' <=> Down,
         ~Down => InStep' /\ LastIsCurrent'
  PROVE  OrderInv'
<1>1. SameEntries'
  <2>1. \A w : Total(w)' = Total(w) /\ \A i : Entry(w, i)' = Entry(w, i)
    BY DEF Total, Entry
  <2>2. \A w, i : Usable(w, i)' <=> Usable(w, i)
    BY <2>1 DEF Usable, Taking
  <2> QED BY <2>1, <2>2 DEF OrderInv, SameEntries
<1>2. Down => Sealed'
  BY DEF OrderInv, Sealed, Alive
<1>3. ~Down => PipesClean'
  BY DEF OrderInv, PipesClean
<1> QED BY <1>1, <1>2, <1>3 DEF OrderInv

(* Steps of clients begin and end no shutdown. *)
LEMMA ClientKeepsDown ==
  ASSUME Typed, NEW c \in Client, NEW label, Goto(c, label), label # "shutJoin",
         pc[c] # "shutJoin", UNCHANGED shutComplete
  PROVE  Down' <=> Down
BY DEF Down, Goto, Typed, PcType

(* A submit() that has taken its request waits for the send lock, ... *)
LEMMA OrderSubmit ==
  ASSUME Typed, OrderInv, NEW c \in Client, NEW r \in Replica, Submit(c, r)
  PROVE  OrderInv'
<1>1. /\ pc[c] = "idle" /\ UNCHANGED <<toWorker, seen, wpc, sendLock, shutComplete>>
      /\ Goto(c, "lock")
  BY DEF Submit
<1>2. /\ \A d \in Client : pc'[d] = IF d = c THEN "lock" ELSE pc[d]
      /\ \A d \in Client : d # c => send'[d] = send[d]
      /\ send'[c].ranks = Ranks(r)
  BY DEF Submit, Goto, Typed, PcType, ThreadType, Thread
<1>3. /\ Ranks(r) # {}
      /\ \A w \in Ranks(r) : \A u \in Worker : u \in Ranks(r) <=> Mates(u, w)
  BY PlanAssumption DEF Ranks, Mates
<1>4. SenderInv'
  BY <1>1, <1>2, <1>3 DEF OrderInv, SenderInv, Busy
<1>5. \A d \in Client : \A w : ReachedBy(d, w)' <=> ReachedBy(d, w)
  BY <1>1, <1>2 DEF ReachedBy, Busy, Todo
<1>6. Down' <=> Down
  BY <1>1, ClientKeepsDown
<1>7. ASSUME ~Down PROVE InStep' /\ LastIsCurrent'
  <2>1. \A w : Total(w)' = Total(w) /\ \A i : Entry(w, i)' = Entry(w, i)
    BY <1>1 DEF Total, Entry
  <2>2. \A w : Reached(w)' <=> Reached(w)
    BY <1>5 DEF Reached
  <2>3. \A w : Stuck(w)' <=> Stuck(w)
    BY <1>1, <2>2 DEF Stuck, Alive
  <2>4. InStep'
    BY <1>7, <2>1, <2>2, <2>3 DEF OrderInv, InStep
  <2>5. \A d \in Client : \A w : ReachedBy(d, w) => send'[d] = send[d]
    BY <1>1, <1>2 DEF ReachedBy, Busy
  <2>6. LastIsCurrent'
    BY <1>5, <1>7, <2>1, <2>5 DEF OrderInv, LastIsCurrent
  <2> QED BY <2>4, <2>6
<1> QED BY <1>1, <1>4, <1>6, <1>7, SettledOrder

(* ... gets it when nobody sends, ... *)
LEMMA OrderLock ==
  ASSUME Typed, OrderInv, NEW c \in Client, SendLock(c)
  PROVE  OrderInv'
<1>1. /\ pc[c] = "lock" /\ UNCHANGED <<toWorker, seen, wpc, send, shutComplete>>
      /\ Goto(c, "put") /\ sendLock = None /\ sendLock' = c
  BY DEF SendLock
<1>2. \A d \in Client : pc'[d] = IF d = c THEN "put" ELSE pc[d]
  BY <1>1 DEF Goto, Typed, PcType, Thread
<1>3. \A d \in Client : ~Busy(d)
  BY <1>1, ThreadAssumption DEF OrderInv, SenderInv, Thread
<1>4. SenderInv'
  BY <1>1, <1>2, <1>3 DEF OrderInv, SenderInv, Busy
<1>5. \A d \in Client : \A w \in Worker : ~ReachedBy(d, w)
  BY <1>3 DEF ReachedBy
<1>6. \A d \in Client : \A w \in Worker : ~ReachedBy(d, w)'
  <2>1. \A d \in Client : d # c => ~Busy(d)'
    BY <1>2, <1>3 DEF Busy
  <2>2. ASSUME NEW w \in Worker, NEW u \in send[c].ranks, Mates(u, w)
        PROVE  w \in send[c].ranks
    BY <1>1, <2>2 DEF OrderInv, SenderInv, Mates, Typed, ThreadType
  <2>3. pc'[c] = "put" /\ Todo(c)' = send[c].ranks
    BY <1>1, <1>2 DEF Todo
  <2>4. \A w \in Worker : ~ReachedBy(c, w)'
    BY <1>1, <2>2, <2>3 DEF ReachedBy, Mates
  <2> QED BY <2>1, <2>4 DEF ReachedBy
<1>7. Down' <=> Down
  BY <1>1, ClientKeepsDown
<1>8. ASSUME ~Down PROVE InStep' /\ LastIsCurrent'
  <2>1. \A w : Total(w)' = Total(w)
    BY <1>1 DEF Total
  <2>2. \A w \in Worker : ~Reached(w) /\ ~Reached(w)'
    BY <1>5, <1>6 DEF Reached
  <2>3. \A w : Stuck(w)' <=> Stuck(w)
    BY <1>1, <2>2 DEF Stuck, Alive
  <2>4. InStep'
    BY <1>8, <2>1, <2>2, <2>3 DEF OrderInv, InStep
  <2> QED BY <1>6, <2>4 DEF LastIsCurrent
<1> QED BY <1>1, <1>4, <1>7, <1>8, SettledOrder

(* While c sends, nobody else is reached. *)
LEMMA OnlySender ==
  ASSUME OrderInv, NEW c \in Client, Busy(c)
  PROVE  \A d \in Client : \A w : ReachedBy(d, w) => d = c
BY DEF OrderInv, SenderInv, ReachedBy

(* The rank a submit() is at, and the ranks that come before and after it. *)
LEMMA SenderFacts ==
  ASSUME Typed, OrderInv, NEW c \in Client, Busy(c), NEW x, x = FirstRank(send[c].ranks)
  PROVE  /\ send[c].ranks # {} /\ send[c].ranks \subseteq Worker
         /\ x \in send[c].ranks /\ x \in Worker
         /\ \A u \in Worker : u \in send[c].ranks <=> Mates(u, x) /\ u >= x
         /\ \A u \in Worker : ReachedBy(c, u) <=>
              Mates(u, x) /\ (u < x \/ (u = x /\ pc[c] = "sending"))
<1>1. send[c].ranks # {} /\ send[c].ranks \subseteq Worker
  BY DEF OrderInv, SenderInv, Busy, Typed, ThreadType
<1>2. x \in send[c].ranks /\ \A v \in send[c].ranks : x <= v
  BY <1>1, FirstRankIs
<1>3. \A u \in Worker : u \in send[c].ranks <=> Mates(u, x) /\ u >= x
  BY <1>1, <1>2, PlanAssumption DEF OrderInv, SenderInv, Busy
<1>4. \A u \in Worker : (\E v \in send[c].ranks : Mates(v, u)) <=> Mates(u, x)
  BY <1>1, <1>2, <1>3 DEF Mates
<1>5. \A u \in Worker : u \in Nat /\ x \in Nat
  BY <1>1, <1>2, PlanAssumption
<1>6. CASE pc[c] = "sending"
  <2>1. Todo(c) = send[c].ranks \ {x}
    BY <1>6 DEF Todo
  <2> QED BY <1>1, <1>2, <1>3, <1>4, <1>5, <1>6, <2>1 DEF ReachedBy
<1>7. CASE pc[c] = "put"
  <2>1. Todo(c) = send[c].ranks
    BY <1>7 DEF Todo
  <2> QED BY <1>1, <1>2, <1>3, <1>4, <1>5, <1>7, <2>1 DEF ReachedBy
<1> QED BY <1>6, <1>7 DEF Busy

-----------------------------------------------------------------------------
(* Steps of a submit() that has the send lock. *)

(* The ranks that have the request once the send to x has returned. *)
Upto(x, u) == Mates(u, x) /\ u <= x

(* A send to x, blocked or returned: the ranks up to x are reached, or x   *)
(* was the last one and the lock is free again.                            *)
LEMMA SenderMoves ==
  ASSUME Typed, OrderInv, NEW c \in Client, Busy(c), NEW x, x = FirstRank(send[c].ranks),
         \/ AfterSend(c)
         \/ Goto(c, "sending") /\ UNCHANGED <<sendLock, send>>
  PROVE  /\ SenderInv'
         /\ \A d \in Client : \A u \in Worker :
              ReachedBy(d, u)' => d = c /\ Upto(x, u) /\ send'[c].req = send[c].req
         /\ \/ \A u \in Worker : Reached(u)' <=> Upto(x, u)
            \/ \A u \in Worker : ~Reached(u)' /\ (Mates(u, x) => u <= x)
<1>0. /\ send[c].ranks # {} /\ send[c].ranks \subseteq Worker
      /\ x \in send[c].ranks /\ x \in Worker
      /\ \A u \in Worker : u \in send[c].ranks <=> Mates(u, x) /\ u >= x
  BY SenderFacts
<1>1. sendLock = c /\ \A d \in Client : d # c => ~Busy(d)
  BY DEF OrderInv, SenderInv
<1>2. \A u \in Worker : u \in Nat
  BY PlanAssumption
<1>3. CASE AfterSend(c) /\ send[c].ranks \ {x} = {}
  <2>1. sendLock' = None /\ send' = [send EXCEPT ![c] = NoSend] /\ Goto(c, "idle")
    BY <1>3 DEF AfterSend
  <2>2. \A d \in Client : pc'[d] = IF d = c THEN "idle" ELSE pc[d]
    BY <2>1 DEF Goto, Typed, PcType, Thread
  <2>3. \A d \in Client : d # c => send'[d] = send[d]
    BY <2>1 DEF Typed, ThreadType
  <2>4. \A d \in Client : ~Busy(d)'
    BY <1>1, <2>2 DEF Busy
  <2>5. SenderInv'
    BY <2>2, <2>3, <2>4 DEF OrderInv, SenderInv
  <2>6. \A u \in Worker : Mates(u, x) => u <= x
    BY <1>0, <1>2, <1>3
  <2> QED BY <2>4, <2>5, <2>6 DEF ReachedBy, Reached
<1>4. CASE AfterSend(c) /\ send[c].ranks \ {x} # {}
  <2> DEFINE left == send[c].ranks \ {x}
  <2>1. /\ send' = [send EXCEPT ![c].ranks = left] /\ Goto(c, "put")
        /\ UNCHANGED sendLock
    BY <1>4 DEF AfterSend
  <2>2. \A d \in Client : pc'[d] = IF d = c THEN "put" ELSE pc[d]
    BY <2>1 DEF Goto, Typed, PcType, Thread
  <2>3. /\ \A d \in Client : d # c => send'[d] = send[d]
        /\ send'[c].ranks = left /\ send'[c].req = send[c].req
    BY <2>1 DEF Typed, ThreadType
  <2>4. /\ left # {} /\ left \subseteq Worker
        /\ \A u \in Worker : u \in left <=> Mates(u, x) /\ u > x
    BY <1>0, <1>2, <1>4
  <2> HIDE DEF left
  <2>5. SenderInv'
    <3>1. ASSUME NEW w \in left, NEW u \in Worker
          PROVE  (u \in left => Mates(u, w)) /\ (Mates(u, w) /\ u >= w => u \in left)
      BY <1>0, <1>2, <2>4 DEF Mates
    <3> QED BY <1>1, <2>1, <2>2, <2>3, <2>4, <3>1 DEF OrderInv, SenderInv, Busy
  <2>6. \A d \in Client : d # c => ~Busy(d)'
    BY <1>1, <2>2 DEF Busy
  <2>7. Busy(c)' /\ Todo(c)' = left
    BY <2>2, <2>3 DEF Busy, Todo
  <2>8. \A u \in Worker : (\E v \in left : Mates(v, u)) <=> Mates(u, x)
    BY <2>4 DEF Mates
  <2>9. \A u \in Worker : ReachedBy(c, u)' <=> Mates(u, x) /\ u \notin left
    BY <2>3, <2>7, <2>8 DEF ReachedBy, Mates
  <2>10. \A u \in Worker : ReachedBy(c, u)' <=> Upto(x, u)
    BY <1>0, <1>2, <2>4, <2>9 DEF Upto
  <2> QED BY <2>3, <2>5, <2>6, <2>10 DEF ReachedBy, Reached
<1>5. CASE Goto(c, "sending") /\ UNCHANGED <<sendLock, send>>
  <2>1. \A d \in Client : pc'[d] = IF d = c THEN "sending" ELSE pc[d]
    BY <1>5 DEF Goto, Typed, PcType, Thread
  <2>2. SenderInv'
    BY <1>1, <1>5, <2>1 DEF OrderInv, SenderInv, Busy
  <2>3. \A d \in Client : d # c => ~Busy(d)'
    BY <1>1, <2>1 DEF Busy
  <2>4. Busy(c)' /\ Todo(c)' = send[c].ranks \ {x}
    BY <1>5, <2>1 DEF Busy, Todo
  <2>5. \A u \in Worker : (\E v \in send[c].ranks : Mates(v, u)) <=> Mates(u, x)
    BY <1>0 DEF Mates
  <2>6. \A u \in Worker : ReachedBy(c, u)' <=> Mates(u, x) /\ u \notin send[c].ranks \ {x}
    BY <1>5, <2>4, <2>5 DEF ReachedBy, Mates
  <2>7. \A u \in Worker : ReachedBy(c, u)' <=> Upto(x, u)
    BY <1>0, <1>2, <2>6 DEF Upto
  <2> QED BY <1>5, <2>2, <2>3, <2>7 DEF ReachedBy, Reached
<1> QED BY <1>3, <1>4, <1>5

(* The ranks are in step once the send to x is over, when the ranks up to  *)
(* x are one request ahead of the others.                                  *)
LEMMA SentInStep ==
  ASSUME NEW x \in Worker,
         \A v, w \in Worker : Mates(v, w) /\ v < w =>
           /\ Total(w)' <= Total(v)'
           /\ \/ \E y \in Worker : Mates(y, w) /\ y <= w /\ ~Upto(x, y) /\ ~Alive(y)'
              \/ Total(v)' = Total(w)' + (IF Upto(x, v) /\ ~Upto(x, w) THEN 1 ELSE 0),
         \/ \A u \in Worker : Reached(u)' <=> Upto(x, u)
         \/ \A u \in Worker : ~Reached(u)' /\ (Mates(u, x) => u <= x)
  PROVE  InStep'
<1> SUFFICES ASSUME NEW v \in Worker, NEW w \in Worker, Mates(v, w), v < w
             PROVE  \/ Stuck(w)'
                    \/ Total(v)' = Total(w)' + (IF Reached(v)' /\ ~Reached(w)' THEN 1 ELSE 0)
  BY DEF InStep, Mates
<1>1. CASE \A u \in Worker : Reached(u)' <=> Upto(x, u)
  BY <1>1 DEF Stuck, Mates
<1>2. CASE \A u \in Worker : ~Reached(u)' /\ (Mates(u, x) => u <= x)
  <2>1. Upto(x, v) <=> Upto(x, w)
    BY <1>2 DEF Upto, Mates
  <2> QED BY <1>2, <2>1 DEF Stuck, Mates
<1> QED BY <1>1, <1>2

(* Messages may only be added, and none of them is ever taken. *)
LEMMA SameWhenUseless ==
  ASSUME Typed, Typed', SameEntries, UNCHANGED <<seen, wpc>>,
         \A w \in Worker : \A i \in 1..Total(w) : Entry(w, i)' = Entry(w, i),
         \A w \in Worker : \A i \in Nat : Usable(w, i)' => i <= Total(w)
  PROVE  SameEntries'
<1>1. ASSUME NEW w \in Worker, NEW i \in Nat, Usable(w, i)'
      PROVE  Usable(w, i) /\ Entry(w, i)' = Entry(w, i)
  <2>1. i \in 1..Total(w) /\ \A j \in 1..i : j \in 1..Total(w)
    BY <1>1, PipeTypes DEF Usable, Taking
  <2>2. \A j \in 1..i : Entry(w, j) # None
    BY <1>1, <2>1 DEF Usable
  <2>3. i \in 1..(IF Taking(w) THEN Total(w) ELSE Len(seen[w]))
    BY <1>1, <2>1 DEF Usable, Taking
  <2> QED BY <2>1, <2>2, <2>3 DEF Usable
<1> QED BY <1>1 DEF SameEntries, Mates

(* What a write to x changes. *)
LEMMA PutFacts ==
  ASSUME Typed, NEW c \in Client, SendPut(c), NEW x \in Worker, x = FirstRank(send[c].ranks),
         NEW n, n = Total(x) + 1
  PROVE  /\ pc[c] = "put" /\ Alive(x) /\ UNCHANGED <<wpc, seen, shutComplete>>
         /\ \A w \in Worker : w # x => toWorker'[w] = toWorker[w]
         /\ toWorker'[x] = Append(toWorker[x], Message("execute", send[c].req))
         /\ \A w \in Worker : Total(w)' = Total(w) + (IF w = x THEN 1 ELSE 0)
         /\ \A w \in Worker : \A i \in 1..Total(w) : Entry(w, i)' = Entry(w, i)
         /\ Entry(x, n)' = send[c].req
<1>1. /\ pc[c] = "put" /\ Alive(x) /\ UNCHANGED <<wpc, seen, shutComplete>>
      /\ \A w \in Worker : w # x => toWorker'[w] = toWorker[w]
      /\ toWorker'[x] = Append(toWorker[x], Message("execute", send[c].req))
  BY DEF SendPut, Broken, Typed, ProcessType
<1>2. /\ Len(toWorker'[x]) = Len(toWorker[x]) + 1
      /\ \A j \in 1..Len(toWorker[x]) : toWorker'[x][j] = toWorker[x][j]
      /\ toWorker'[x][Len(toWorker[x]) + 1] = Message("execute", send[c].req)
  BY <1>1, PipeTypes
<1>3. PICK l \in [Worker -> Nat], m \in [Worker -> Nat] : \A w \in Worker :
        Len(seen[w]) = l[w] /\ Len(toWorker[w]) = m[w] /\ Total(w) = l[w] + m[w]
  BY Lengths
<1>4. ASSUME NEW w \in Worker PROVE Total(w)' = Total(w) + (IF w = x THEN 1 ELSE 0)
  <2>1. Len(seen'[w]) = l[w] /\ Len(toWorker'[w]) = m[w] + (IF w = x THEN 1 ELSE 0)
    <3>1. seen'[w] = seen[w] /\ Len(seen[w]) = l[w] /\ Len(toWorker[w]) = m[w] /\ m[w] \in Nat
      BY <1>1, <1>3
    <3>2. CASE w = x
      BY <1>2, <3>1, <3>2
    <3>3. CASE w # x
      BY <1>1, <3>1, <3>3
    <3> QED BY <3>2, <3>3
  <2>2. Total(w)' = l[w] + (m[w] + (IF w = x THEN 1 ELSE 0))
    BY <2>1 DEF Total
  <2>3. Total(w) = l[w] + m[w] /\ l[w] \in Nat /\ m[w] \in Nat
    BY <1>3
  <2> QED BY <2>2, <2>3
<1>5. ASSUME NEW w \in Worker, NEW i \in 1..Total(w) PROVE Entry(w, i)' = Entry(w, i)
  <2>1. /\ Len(seen[w]) = l[w] /\ Len(toWorker[w]) = m[w] /\ i \in 1..(l[w] + m[w])
        /\ l[w] \in Nat /\ m[w] \in Nat
    BY <1>3, <1>5
  <2>2. i <= l[w] \/ i - l[w] \in 1..m[w]
    BY <2>1
  <2> QED BY <1>1, <1>2, <2>1, <2>2 DEF Entry
<1>6. Entry(x, n)' = send[c].req
  <2>1. /\ Len(seen[x]) = l[x] /\ Len(toWorker[x]) = m[x] /\ n = l[x] + m[x] + 1
        /\ l[x] \in Nat /\ m[x] \in Nat
    BY <1>3
  <2>2. ~(n <= l[x]) /\ n - l[x] = m[x] + 1
    BY <2>1
  <2> QED BY <1>1, <1>2, <2>1, <2>2 DEF Entry, Message
<1> QED BY <1>1, <1>4, <1>5, <1>6

(* The numbers of requests after a write to x. *)
LEMMA PutInStep ==
  ASSUME Typed, OrderInv, ~Down, NEW c \in Client, SendPut(c), NEW x \in Worker,
         x = FirstRank(send[c].ranks), NEW v \in Worker, NEW w \in Worker,
         Mates(v, w), v < w
  PROVE  /\ Total(w)' <= Total(v)'
         /\ \/ \E y \in Worker : Mates(y, w) /\ y <= w /\ ~Upto(x, y) /\ ~Alive(y)'
            \/ Total(v)' = Total(w)' + (IF Upto(x, v) /\ ~Upto(x, w) THEN 1 ELSE 0)
<1>0. /\ pc[c] = "put" /\ Alive(x) /\ UNCHANGED wpc
      /\ \A u \in Worker : Total(u)' = Total(u) + (IF u = x THEN 1 ELSE 0)
  BY PutFacts
<1>1. Busy(c)
  BY <1>0 DEF Busy
<1>2. \A u \in Worker : Reached(u) <=> Mates(u, x) /\ u < x
  BY <1>0, <1>1, SenderFacts, OnlySender DEF Reached
<1>3. /\ Total(w) <= Total(v)
      /\ Stuck(w) \/ Total(v) = Total(w) + (IF Reached(v) /\ ~Reached(w) THEN 1 ELSE 0)
  BY DEF OrderInv, InStep
<1>4. \A u \in Worker : u \in Nat /\ (Alive(u)' <=> Alive(u))
  BY <1>0, PlanAssumption DEF Alive
<1>5. Total(v) \in Nat /\ Total(w) \in Nat
  BY PipeTypes
<1>6. Stuck(w) => \E y \in Worker : Mates(y, w) /\ y <= w /\ ~Upto(x, y) /\ ~Alive(y)'
  <2> SUFFICES ASSUME NEW y \in Worker, Mates(y, w), y <= w, ~Reached(y), ~Alive(y)
               PROVE  ~Upto(x, y)
    BY <1>4 DEF Stuck
  <2>1. y # x /\ ~(Mates(y, x) /\ y < x)
    BY <1>0, <1>2
  <2> QED BY <1>4, <2>1 DEF Upto
<1>7. Stuck(w) => ~(Mates(w, x) /\ w <= x)
  BY <1>0, <1>2, <1>4 DEF Stuck, Mates
<1>8. Total(v)' = Total(v) + (IF v = x THEN 1 ELSE 0) /\ Total(w)' = Total(w) + (IF w = x THEN 1 ELSE 0)
  BY <1>0
<1>9. (Mates(v, x) <=> Mates(w, x)) /\ Mates(x, x)
  BY DEF Mates
<1>10. CASE ~Mates(w, x)
  <2>1. v # x /\ w # x /\ ~Reached(v) /\ ~Upto(x, v)
    BY <1>2, <1>9, <1>10 DEF Upto
  <2> QED BY <1>3, <1>5, <1>6, <1>8, <2>1
<1>11. CASE Mates(w, x) /\ w < x
  <2>1. v # x /\ w # x /\ Reached(v) /\ Reached(w) /\ Upto(x, w) /\ ~Stuck(w)
    BY <1>2, <1>4, <1>7, <1>9, <1>11 DEF Upto
  <2> QED BY <1>3, <1>5, <1>8, <2>1
<1>12. CASE w = x
  <2>1. v # x /\ Reached(v) /\ ~Reached(w) /\ Upto(x, w) /\ ~Stuck(w)
    BY <1>2, <1>4, <1>7, <1>9, <1>12 DEF Upto
  <2> QED BY <1>3, <1>5, <1>8, <1>12, <2>1
<1>13. CASE Mates(w, x) /\ w > x
  <2>1. w # x /\ ~Reached(w) /\ ~Upto(x, w) /\ Mates(v, x)
    BY <1>2, <1>4, <1>9, <1>13 DEF Upto
  <2>2. CASE v = x
    <3>1. Upto(x, v) /\ ~Reached(v)
      BY <1>2, <1>4, <1>9, <2>2 DEF Upto
    <3> QED BY <1>3, <1>5, <1>6, <1>8, <2>1, <2>2, <3>1
  <2>3. CASE v # x
    <3>1. Upto(x, v) <=> Reached(v)
      BY <1>2, <1>4, <2>1, <2>3 DEF Upto
    <3> QED BY <1>3, <1>5, <1>6, <1>8, <2>1, <2>3, <3>1
  <2> QED BY <2>2, <2>3
<1> QED BY <1>4, <1>10, <1>11, <1>12, <1>13

(* A request written to x is the one the ranks before x got in its place.  *)
LEMMA PutSame ==
  ASSUME Typed, Typed', OrderInv, ~Down, NEW c \in Client, SendPut(c), NEW x \in Worker,
         x = FirstRank(send[c].ranks)
  PROVE  SameEntries'
<1>0. PICK n : n = Total(x) + 1
  OBVIOUS
<1>1. /\ pc[c] = "put" /\ Alive(x) /\ UNCHANGED <<wpc, seen>>
      /\ \A w \in Worker : Total(w)' = Total(w) + (IF w = x THEN 1 ELSE 0)
      /\ \A w \in Worker : \A i \in 1..Total(w) : Entry(w, i)' = Entry(w, i)
      /\ Entry(x, n)' = send[c].req
  BY <1>0, PutFacts
<1>2. \A w \in Worker : Total(w) \in Nat /\ Len(seen[w]) <= Total(w) /\ Len(seen[w]) \in Nat
  BY PipeTypes
<1>3. ASSUME NEW w \in Worker, NEW i \in Nat, Usable(w, i)', i <= Total(w)
      PROVE  Usable(w, i) /\ Entry(w, i)' = Entry(w, i)
  <2>1. i \in 1..Total(w) /\ \A j \in 1..i : j \in 1..Total(w)
    BY <1>2, <1>3 DEF Usable, Taking
  <2>2. \A j \in 1..i : Entry(w, j) # None
    BY <1>1, <1>3, <2>1 DEF Usable
  <2>3. i \in 1..(IF Taking(w) THEN Total(w) ELSE Len(seen[w]))
    BY <1>1, <1>3, <2>1 DEF Usable, Taking
  <2> QED BY <1>1, <2>1, <2>2, <2>3 DEF Usable
<1>4. ASSUME NEW w \in Worker, NEW i \in Nat, Usable(w, i)'
      PROVE  i <= Total(w) \/ (w = x /\ i = n)
  <2>1. i <= Total(w)' \/ i <= Len(seen[w])
    BY <1>1, <1>4 DEF Usable, Taking
  <2>2. Total(w)' = Total(w) + (IF w = x THEN 1 ELSE 0)
    BY <1>1
  <2> QED BY <1>0, <1>2, <2>1, <2>2
<1>5. ASSUME NEW v \in Worker, Mates(v, x), v # x, Usable(v, n)'
      PROVE  Entry(v, n)' = send[c].req
  <2>0. n \in Nat /\ v \in Nat /\ x \in Nat
    BY <1>0, <1>2, PlanAssumption
  <2>1. n <= Total(v)
    BY <1>4, <1>5, <2>0
  <2>2. Busy(c)
    BY <1>1 DEF Busy
  <2>3. \A u \in Worker : ReachedBy(c, u) <=> Mates(u, x) /\ u < x
    BY <1>1, <2>2, SenderFacts
  <2>4. \A u \in Worker : Reached(u) <=> Mates(u, x) /\ u < x
    BY <2>2, <2>3, OnlySender DEF Reached
  <2>5. v < x
    <3>1. SUFFICES ASSUME x < v PROVE FALSE
      BY <1>5, <2>0
    <3>2. Total(v) <= Total(x)
      BY <1>5, <3>1 DEF OrderInv, InStep, Mates
    <3> QED BY <1>0, <1>2, <2>1, <3>2
  <2>6. ~Stuck(x)
    BY <1>1, <2>0, <2>4, PlanAssumption DEF Stuck
  <2>7. Total(v) = n
    <3>1. Total(v) = Total(x) + (IF Reached(v) /\ ~Reached(x) THEN 1 ELSE 0)
      BY <1>5, <2>5, <2>6 DEF OrderInv, InStep
    <3> QED BY <1>0, <1>2, <2>1, <3>1
  <2>8. Entry(v, Total(v)) = send[c].req
    BY <1>5, <2>3, <2>5 DEF OrderInv, LastIsCurrent
  <2>9. Entry(v, n)' = Entry(v, n)
    BY <1>1, <1>2, <1>0, <2>7
  <2> QED BY <2>7, <2>8, <2>9
<1>6. SUFFICES ASSUME NEW v \in Worker, NEW w \in Worker, Mates(v, w), NEW i \in Nat,
                      Usable(v, i)', Usable(w, i)'
               PROVE  Entry(v, i)' = Entry(w, i)'
  BY DEF SameEntries, Mates
<1>7. CASE i <= Total(v) /\ i <= Total(w)
  BY <1>3, <1>6, <1>7 DEF OrderInv, SameEntries
<1>8. CASE v = x /\ i = n
  BY <1>1, <1>5, <1>6, <1>8 DEF Mates
<1>9. CASE w = x /\ i = n
  BY <1>1, <1>5, <1>6, <1>9
<1> QED BY <1>4, <1>6, <1>7, <1>8, <1>9

(* ... and written to one rank after the other, ... *)
LEMMA OrderPut ==
  ASSUME Typed, Typed', OrderInv, NEW c \in Client, SendPut(c)
  PROVE  OrderInv'
<1>0. PICK x : x = FirstRank(send[c].ranks)
  OBVIOUS
<1>1. Busy(c)
  BY DEF Busy, SendPut
<1>2. x \in Worker /\ \A u \in Worker : ReachedBy(c, u) <=> Mates(u, x) /\ u < x
  BY <1>0, <1>1, SenderFacts DEF SendPut
<1>3. PICK n : n = Total(x) + 1
  OBVIOUS
<1>4. /\ pc[c] = "put" /\ Alive(x) /\ UNCHANGED <<wpc, seen, shutComplete>>
      /\ \A w \in Worker : w # x => toWorker'[w] = toWorker[w]
      /\ toWorker'[x] = Append(toWorker[x], Message("execute", send[c].req))
      /\ \A w \in Worker : Total(w)' = Total(w) + (IF w = x THEN 1 ELSE 0)
      /\ \A w \in Worker : \A i \in 1..Total(w) : Entry(w, i)' = Entry(w, i)
      /\ Entry(x, n)' = send[c].req
  BY <1>0, <1>2, <1>3, PutFacts
<1>5. AfterSend(c) \/ (Goto(c, "sending") /\ UNCHANGED <<sendLock, send>>)
  BY DEF SendPut
<1>6. /\ SenderInv'
      /\ \A d \in Client : \A u \in Worker :
           ReachedBy(d, u)' => d = c /\ Upto(x, u) /\ send'[c].req = send[c].req
      /\ \/ \A u \in Worker : Reached(u)' <=> Upto(x, u)
         \/ \A u \in Worker : ~Reached(u)' /\ (Mates(u, x) => u <= x)
  BY <1>0, <1>1, <1>5, SenderMoves
<1>7. Down' <=> Down
  <2>1. \E label \in {"idle", "put", "sending"} : Goto(c, label)
    BY <1>5 DEF AfterSend
  <2> QED BY <1>4, <2>1, ClientKeepsDown
<1>8. \A w \in Worker : \A j \in 1..Len(toWorker[w]) :
        j \in 1..Len(toWorker'[w]) /\ toWorker'[w][j] = toWorker[w][j]
  BY <1>4, PipeTypes
<1>9. \A w \in Worker : Total(w) \in Nat /\ w \in Nat
  BY PipeTypes, PlanAssumption
<1>10. ASSUME Down PROVE SameEntries' /\ Sealed'
  <2>1. Sealed
    BY <1>10 DEF OrderInv
  <2>2. Sealed'
    BY <1>4, <1>8, <2>1 DEF Sealed, Alive
  <2>3. ASSUME NEW w \in Worker, NEW i \in Nat, Usable(w, i)' PROVE i <= Total(w)
    <3>1. CASE w # x
      BY <1>4, <1>9, <2>3, <3>1, PipeTypes DEF Usable, Taking
    <3>2. CASE w = x /\ ~Taking(x)
      BY <1>4, <2>3, <3>2, PipeTypes DEF Usable, Taking
    <3>3. CASE w = x /\ Taking(x)
      <4>1. PICK j \in 1..Len(toWorker[x]) : toWorker[x][j] = Shutdown
        BY <1>4, <2>1, <3>3, <1>2 DEF Sealed, Taking
      <4>2. PICK k : k = Len(seen[x]) + j
        OBVIOUS
      <4>3. PICK l \in [Worker -> Nat], m \in [Worker -> Nat] : \A u \in Worker :
              Len(seen[u]) = l[u] /\ Len(toWorker[u]) = m[u] /\ Total(u) = l[u] + m[u]
        BY Lengths
      <4>4. /\ l[x] \in Nat /\ m[x] \in Nat /\ j \in 1..m[x] /\ k = l[x] + j
            /\ Total(x) = l[x] + m[x] /\ Len(seen[x]) = l[x]
        BY <1>2, <4>1, <4>2, <4>3
      <4>5. k \in 1..Total(x) /\ ~(k <= l[x]) /\ k - l[x] = j
        BY <4>4
      <4>6. Entry(x, k) = None
        <5>1. Shutdown.req = None
          BY DEF Shutdown, Message
        <5>2. Entry(x, k) = toWorker[x][j].req
          BY <4>4, <4>5 DEF Entry
        <5> QED
          BY <4>1, <5>1, <5>2
      <4>7. Entry(x, k)' = None
        BY <1>2, <1>4, <4>5, <4>6
      <4>8. ~(k \in 1..i)
        BY <2>3, <3>3, <4>7 DEF Usable
      <4> QED BY <1>9, <3>3, <4>5, <4>8
    <3> QED BY <3>1, <3>2, <3>3
  <2> QED BY <1>4, <2>2, <2>3, SameWhenUseless DEF OrderInv
<1>11. ASSUME ~Down PROVE SameEntries' /\ PipesClean' /\ InStep' /\ LastIsCurrent'
  <2>1. PipesClean /\ InStep /\ LastIsCurrent
    BY <1>11 DEF OrderInv
  <2>2. SameEntries'
    BY <1>0, <1>2, <1>11, PutSame
  <2>3. InStep'
    BY <1>0, <1>2, <1>6, <1>11, PutInStep, SentInStep
  <2>4. PipesClean'
    <3>1. toWorker[x] \in Seq(ParentMessage)
      BY <1>2, PipeTypes
    <3>2. \A j \in 1..Len(toWorker'[x]) :
            \/ j \in 1..Len(toWorker[x]) /\ toWorker'[x][j] = toWorker[x][j]
            \/ toWorker'[x][j] = Message("execute", send[c].req)
      BY <1>4, <3>1
    <3>3. \A j \in 1..Len(toWorker'[x]) : toWorker'[x][j].type = "execute"
      BY <1>2, <2>1, <3>2 DEF PipesClean, Message
    <3> QED BY <1>4, <2>1, <3>3 DEF PipesClean
  <2>5. LastIsCurrent'
    <3> SUFFICES ASSUME NEW u \in Worker, Upto(x, u)
                 PROVE  Total(u)' > 0 /\ Entry(u, Total(u))' = send[c].req
      BY <1>6 DEF LastIsCurrent
    <3>1. CASE u = x
      <4>1. Total(u)' = n /\ n > 0
        BY <1>2, <1>3, <1>4, <1>9, <3>1
      <4> QED BY <1>4, <3>1, <4>1
    <3>2. CASE u # x
      <4>1. Mates(u, x) /\ u < x
        BY <1>2, <1>9, <3>2 DEF Upto
      <4>2. PICK k : k = Total(u)
        OBVIOUS
      <4>3. k > 0 /\ Entry(u, k) = send[c].req
        BY <1>2, <2>1, <4>1, <4>2 DEF LastIsCurrent
      <4>4. Total(u)' = k
        BY <1>4, <1>9, <3>2, <4>2
      <4>5. Entry(u, k)' = Entry(u, k)
        BY <1>4, <1>9, <4>2, <4>3
      <4> QED BY <4>3, <4>4, <4>5
    <3> QED BY <3>1, <3>2
  <2> QED BY <2>2, <2>3, <2>4, <2>5
<1> QED BY <1>6, <1>7, <1>10, <1>11 DEF OrderInv

(* ... the last of which a blocked send may wait for, ... *)
LEMMA OrderReturn ==
  ASSUME Typed, OrderInv, NEW c \in Client, SendReturn(c)
  PROVE  OrderInv'
<1>0. PICK x : x = FirstRank(send[c].ranks)
  OBVIOUS
<1>1. /\ Busy(c) /\ pc[c] = "sending" /\ AfterSend(c)
      /\ UNCHANGED <<wpc, seen, toWorker, shutComplete>>
  BY DEF Busy, SendReturn
<1>2. x \in Worker /\ \A u \in Worker : ReachedBy(c, u) <=> Mates(u, x) /\ (u < x \/ u = x)
  BY <1>0, <1>1, SenderFacts DEF Mates
<1>3. \A u \in Worker : u \in Nat
  BY PlanAssumption
<1>4. \A u \in Worker : ReachedBy(c, u) <=> Upto(x, u)
  BY <1>2, <1>3 DEF Upto
<1>5. \A u \in Worker : Reached(u) <=> Upto(x, u)
  BY <1>1, <1>4, OnlySender DEF Reached
<1>6. /\ SenderInv'
      /\ \A d \in Client : \A u \in Worker :
           ReachedBy(d, u)' => d = c /\ Upto(x, u) /\ send'[c].req = send[c].req
      /\ \/ \A u \in Worker : Reached(u)' <=> Upto(x, u)
         \/ \A u \in Worker : ~Reached(u)' /\ (Mates(u, x) => u <= x)
  BY <1>0, <1>1, SenderMoves
<1>7. Down' <=> Down
  <2>1. \E label \in {"idle", "put"} : Goto(c, label)
    BY <1>1 DEF AfterSend
  <2> QED BY <1>1, <2>1, ClientKeepsDown
<1>8. \A w : Total(w)' = Total(w) /\ (Alive(w)' <=> Alive(w)) /\ \A i : Entry(w, i)' = Entry(w, i)
  BY <1>1 DEF Total, Entry, Alive
<1>9. ASSUME ~Down PROVE InStep' /\ LastIsCurrent'
  <2>1. InStep /\ LastIsCurrent
    BY <1>9 DEF OrderInv
  <2>2. InStep'
    <3>1. \A v, w \in Worker : Mates(v, w) /\ v < w =>
            /\ Total(w)' <= Total(v)'
            /\ \/ \E y \in Worker : Mates(y, w) /\ y <= w /\ ~Upto(x, y) /\ ~Alive(y)'
               \/ Total(v)' = Total(w)' + (IF Upto(x, v) /\ ~Upto(x, w) THEN 1 ELSE 0)
      BY <1>5, <1>8, <2>1 DEF InStep, Stuck
    <3> QED BY <1>2, <1>6, <3>1, SentInStep
  <2>3. LastIsCurrent'
    BY <1>4, <1>6, <1>8, <2>1 DEF LastIsCurrent
  <2> QED BY <2>2, <2>3
<1> QED BY <1>1, <1>6, <1>7, <1>9, SettledOrder

(* ... or the send raises: the ranks it did not get to can no longer be    *)
(* reached, because the first of them is dead.  A payload that cannot be   *)
(* pickled reaches none.                                                   *)
LEMMA OrderAborts ==
  ASSUME Typed, OrderInv, NEW c \in Client, SendBroken(c) \/ SendUnpicklable(c)
  PROVE  OrderInv'
<1>0. PICK x : x = FirstRank(send[c].ranks)
  OBVIOUS
<1>1. /\ Busy(c) /\ UNCHANGED <<wpc, seen, toWorker, shutComplete>> /\ sendLock' = None
      /\ send' = [send EXCEPT ![c] = NoSend] /\ Goto(c, "fail")
  BY DEF Busy, SendBroken, SendUnpicklable, SendAborts
<1>2. /\ x \in Worker
      /\ \A u \in Worker : u \in send[c].ranks <=> Mates(u, x) /\ u >= x
      /\ \A u \in Worker : ReachedBy(c, u) <=>
           Mates(u, x) /\ (u < x \/ (u = x /\ pc[c] = "sending"))
  BY <1>0, <1>1, SenderFacts
<1>3. \A d \in Client : pc'[d] = IF d = c THEN "fail" ELSE pc[d]
  BY <1>1 DEF Goto, Typed, PcType, Thread
<1>4. \A d \in Client : ~Busy(d)'
  BY <1>1, <1>3 DEF OrderInv, SenderInv, Busy
<1>5. \A d \in Client : d # c => send'[d] = send[d]
  BY <1>1 DEF Typed, ThreadType
<1>6. SenderInv'
  BY <1>3, <1>4, <1>5 DEF OrderInv, SenderInv
<1>7. Down' <=> Down
  BY <1>1, ClientKeepsDown DEF Busy
<1>8. \A w : Total(w)' = Total(w) /\ (Alive(w)' <=> Alive(w))
  BY <1>1 DEF Total, Alive
<1>9. \A u \in Worker : u \in Nat /\ Total(u) \in Nat
  BY PlanAssumption, PipeTypes
<1>10. \A u \in Worker : Reached(u) <=> ReachedBy(c, u)
  BY <1>1, OnlySender DEF Reached
<1>11. ASSUME ~Down, NEW v \in Worker, NEW w \in Worker, Mates(v, w), v < w
       PROVE  Stuck(w)' \/ Total(v) = Total(w)
  <2>1. \A u \in Worker : ~Reached(u)'
    BY <1>4 DEF Reached, ReachedBy
  <2>2. Stuck(w) \/ Total(v) = Total(w) + (IF Reached(v) /\ ~Reached(w) THEN 1 ELSE 0)
    BY <1>11 DEF OrderInv, InStep
  <2>3. Stuck(w) => Stuck(w)'
    BY <1>8, <2>1 DEF Stuck, Mates
  <2>4. CASE ~(Reached(v) /\ ~Reached(w))
    BY <1>9, <2>2, <2>3, <2>4
  <2>5. CASE Reached(v) /\ ~Reached(w)
    <3>1. Mates(v, x) /\ Mates(x, w) /\ x <= w
      BY <1>2, <1>9, <1>10, <1>11, <2>5 DEF Mates
    <3>2. CASE ~Alive(x)
      BY <1>2, <1>8, <2>1, <3>1, <3>2 DEF Stuck, Mates
    <3>3. CASE SendUnpicklable(c)
      <4>1. pc[c] = "put" /\ send[c].ranks = Ranks(req[send[c].req].replica)
        BY <3>3 DEF SendUnpicklable
      <4>2. v < x /\ v \notin send[c].ranks
        BY <1>2, <1>9, <1>10, <2>5, <4>1
      <4>3. x \in send[c].ranks
        BY <1>2, <1>9 DEF Mates
      <4> QED BY <1>2, <3>1, <4>1, <4>2, <4>3 DEF Ranks, Mates
    <3> QED BY <1>0, <1>11, <3>2, <3>3 DEF SendBroken, Broken, Down
  <2> QED BY <2>4, <2>5
<1>12. ASSUME ~Down PROVE InStep' /\ LastIsCurrent'
  <2>1. \A v, w \in Worker : Mates(v, w) /\ v < w => Total(w) <= Total(v)
    BY <1>12 DEF OrderInv, InStep
  <2>2. \A u \in Worker : ~Reached(u)'
    BY <1>4 DEF Reached, ReachedBy
  <2>3. InStep'
    BY <1>8, <1>9, <1>11, <1>12, <2>1, <2>2 DEF InStep, Mates
  <2> QED BY <1>4, <2>3 DEF LastIsCurrent, ReachedBy
<1> QED BY <1>1, <1>6, <1>7, <1>12, SettledOrder

-----------------------------------------------------------------------------
(* Steps of close(), of the workers and of the monitor. *)

(* No process takes anything behind a ShutdownRequest. *)
LEMMA OrderShutdownSend ==
  ASSUME Typed, Typed', OrderInv, NEW t \in Thread, ShutdownSend(t)
  PROVE  OrderInv'
<1>1. /\ UNCHANGED <<wpc, seen, send, sendLock, shutComplete>> /\ pc[t] = "shutSend"
      /\ Goto(t, "shutJoin")
      /\ \A w \in Worker : toWorker'[w] = IF Alive(w) THEN Append(toWorker[w], Shutdown)
                                           ELSE toWorker[w]
  BY DEF ShutdownSend
<1>2. t \notin Client /\ \A d \in Thread : pc'[d] = IF d = t THEN "shutJoin" ELSE pc[d]
  BY <1>1 DEF Goto, Typed, PcType, ClientPc
<1>3. SenderInv'
  BY <1>1, <1>2 DEF OrderInv, SenderInv, Busy, Thread
<1>4. Down'
  BY <1>2 DEF Down
<1>5. PICK l \in [Worker -> Nat], m \in [Worker -> Nat] : \A w \in Worker :
        Len(seen[w]) = l[w] /\ Len(toWorker[w]) = m[w] /\ Total(w) = l[w] + m[w]
  BY Lengths
<1>6. ASSUME NEW w \in Worker, Alive(w)
      PROVE  /\ Len(toWorker'[w]) = m[w] + 1 /\ toWorker'[w][m[w] + 1] = Shutdown
             /\ \A j \in 1..m[w] : toWorker'[w][j] = toWorker[w][j]
  <2>1. toWorker[w] \in Seq(ParentMessage) /\ Shutdown \in ParentMessage
        /\ m[w] \in Nat /\ m[w] = Len(toWorker[w])
    BY <1>5, PipeTypes DEF ParentMessage
  <2>2. /\ Len(Append(toWorker[w], Shutdown)) = m[w] + 1
        /\ Append(toWorker[w], Shutdown)[m[w] + 1] = Shutdown
        /\ \A j \in 1..m[w] : Append(toWorker[w], Shutdown)[j] = toWorker[w][j]
    BY <2>1, AppendIs
  <2>3. toWorker'[w] = Append(toWorker[w], Shutdown)
    BY <1>1, <1>6
  <2> QED BY <2>2, <2>3, Zenon
<1>7. \A w \in Worker : Alive(w) => \E j \in 1..Len(toWorker'[w]) : toWorker'[w][j] = Shutdown
  <2>1. \A w \in Worker : m[w] + 1 \in 1..(m[w] + 1)
    BY <1>5
  <2> QED BY <1>6, <2>1
<1>8. Sealed'
  BY <1>1, <1>7 DEF Sealed, Alive
<1>9. ASSUME NEW w \in Worker, NEW i \in 1..Total(w) PROVE Entry(w, i)' = Entry(w, i)
  <2>1. /\ Len(seen[w]) = l[w] /\ Len(toWorker[w]) = m[w] /\ i \in 1..(l[w] + m[w])
        /\ l[w] \in Nat /\ m[w] \in Nat
    BY <1>5, <1>9
  <2>2. i <= l[w] \/ i - l[w] \in 1..m[w]
    BY <2>1
  <2>3. \A j \in 1..m[w] : toWorker'[w][j] = toWorker[w][j]
    BY <1>1, <1>6
  <2> QED BY <1>1, <2>1, <2>2, <2>3 DEF Entry
<1>10. ASSUME NEW w \in Worker, NEW i \in Nat, Usable(w, i)' PROVE i <= Total(w)
  <2>1. /\ l[w] \in Nat /\ m[w] \in Nat /\ Len(seen[w]) = l[w] /\ Len(toWorker[w]) = m[w]
        /\ Total(w) = l[w] + m[w] /\ seen'[w] = seen[w]
    BY <1>1, <1>5
  <2>2. CASE ~Taking(w)
    <3>1. i <= l[w]
      BY <1>1, <1>10, <2>1, <2>2 DEF Usable, Taking
    <3> QED BY <2>1, <3>1
  <2>3. CASE Taking(w)
    <3>1. Alive(w)
      BY <2>3 DEF Taking, Alive, Exited
    <3>2. Len(toWorker'[w]) = m[w] + 1 /\ toWorker'[w][m[w] + 1] = Shutdown
      BY <1>6, <3>1
    <3>3. PICK k : k = l[w] + m[w] + 1
      OBVIOUS
    <3>4. ~(k <= l[w]) /\ k - l[w] = m[w] + 1 /\ k \in Nat /\ k > 0
      BY <2>1, <3>3
    <3>5. Entry(w, k)' = None
      BY <2>1, <3>2, <3>4 DEF Entry, Shutdown, Message
    <3>6. ~(k \in 1..i)
      BY <1>10, <3>5 DEF Usable
    <3> QED BY <2>1, <3>3, <3>4, <3>6
  <2> QED BY <2>2, <2>3
<1>11. SameEntries'
  BY <1>1, <1>9, <1>10, SameWhenUseless DEF OrderInv
<1> QED BY <1>3, <1>4, <1>8, <1>11 DEF OrderInv

(* A worker takes a request: what it got stays the same, ... *)
LEMMA OrderTake ==
  ASSUME Typed, Typed', OrderInv, NEW w \in Worker, WorkerRecv(w),
         Head(toWorker[w]).type = "execute"
  PROVE  OrderInv'
<1>1. /\ UNCHANGED <<pc, send, sendLock, shutComplete>> /\ wpc[w] = "idle"
      /\ toWorker[w] # <<>> /\ toWorker' = [toWorker EXCEPT ![w] = Tail(@)]
      /\ wpc' = [wpc EXCEPT ![w] = "exec"]
      /\ seen' = [seen EXCEPT ![w] = Append(@, Head(toWorker[w]).req)]
  BY DEF WorkerRecv, ParentIdle
<1>2. /\ \A v \in Worker : v # w => /\ toWorker'[v] = toWorker[v]
                                    /\ seen'[v] = seen[v] /\ wpc'[v] = wpc[v]
      /\ toWorker'[w] = Tail(toWorker[w]) /\ wpc'[w] = "exec"
      /\ seen'[w] = Append(seen[w], toWorker[w][1].req)
  BY <1>1, PipeTypes DEF Typed, ProcessType
<1>3. PICK l \in [Worker -> Nat], m \in [Worker -> Nat] : \A v \in Worker :
        Len(seen[v]) = l[v] /\ Len(toWorker[v]) = m[v] /\ Total(v) = l[v] + m[v]
  BY Lengths
<1>4. /\ l[w] \in Nat /\ m[w] \in Nat /\ m[w] > 0 /\ Total(w) = l[w] + m[w]
      /\ Len(seen[w]) = l[w] /\ Len(toWorker[w]) = m[w]
  BY <1>1, <1>3, PipeTypes
<1>5. /\ Len(seen'[w]) = l[w] + 1 /\ Len(toWorker'[w]) = m[w] - 1
      /\ \A i \in 1..l[w] : seen'[w][i] = seen[w][i]
      /\ seen'[w][l[w] + 1] = toWorker[w][1].req
      /\ \A j \in 1..(m[w] - 1) : toWorker'[w][j] = toWorker[w][j + 1]
  <2>1. /\ toWorker[w] \in Seq(ParentMessage) /\ seen[w] \in Seq(ReqId)
        /\ seen'[w] \in Seq(ReqId)
    BY PipeTypes DEF Typed, ProcessType
  <2>2. /\ Len(toWorker'[w]) = m[w] - 1
        /\ \A j \in 1..(m[w] - 1) : toWorker'[w][j] = toWorker[w][j + 1]
    <3>1. /\ Len(Tail(toWorker[w])) = m[w] - 1
          /\ \A j \in 1..(m[w] - 1) : Tail(toWorker[w])[j] = toWorker[w][j + 1]
      BY <1>1, <1>4, <2>1, TailIs, Zenon
    <3>2. toWorker'[w] = Tail(toWorker[w])
      BY <1>2
    <3> QED BY <3>1, <3>2, Zenon
  <2>3. /\ Len(seen'[w]) = l[w] + 1 /\ seen'[w][l[w] + 1] = toWorker[w][1].req
        /\ \A i \in 1..l[w] : seen'[w][i] = seen[w][i]
    <3>1. toWorker[w][1].req \in ReqId
      BY <1>1, <1>4, <2>1, TailIs DEF ParentMessage, Shutdown, Message
    <3> QED BY <1>2, <1>4, <2>1, <3>1, AppendIs
  <2> QED BY <2>2, <2>3
<1>6. \A v \in Worker : Total(v)' = Total(v)
  <2>1. Total(w)' = (l[w] + 1) + (m[w] - 1)
    BY <1>5 DEF Total
  <2>2. Total(w)' = Total(w)
    BY <1>4, <2>1
  <2>3. \A v \in Worker : v # w => Total(v)' = Total(v)
    BY <1>2 DEF Total
  <2> QED BY <2>2, <2>3
<1>7. ASSUME NEW v \in Worker, NEW i \in 1..Total(v) PROVE Entry(v, i)' = Entry(v, i)
  <2>1. CASE v # w
    BY <1>2, <2>1 DEF Entry
  <2>2. CASE v = w
    <3>1. i \in 1..(l[w] + m[w])
      BY <1>4, <1>7, <2>2
    <3>2. CASE i <= l[w]
      <4>1. i \in 1..l[w] /\ i <= l[w] + 1
        BY <1>4, <3>1, <3>2
      <4> QED BY <1>4, <1>5, <2>2, <3>2, <4>1 DEF Entry
    <3>3. CASE i = l[w] + 1
      <4>1. ~(i <= l[w]) /\ i - l[w] = 1 /\ i <= l[w] + 1
        BY <1>4, <3>3
      <4> QED BY <1>4, <1>5, <2>2, <3>3, <4>1 DEF Entry
    <3>4. CASE i > l[w] + 1
      <4>1. PICK j : j = i - (l[w] + 1)
        OBVIOUS
      <4>2. /\ ~(i <= l[w]) /\ ~(i <= l[w] + 1) /\ j \in 1..(m[w] - 1)
            /\ i - l[w] = j + 1
        <5>1. i \in Int /\ i <= l[w] + m[w] /\ l[w] \in Int /\ m[w] \in Int
          BY <1>4, <3>1
        <5> QED BY <3>4, <4>1, <5>1
      <4> QED BY <1>4, <1>5, <2>2, <4>1, <4>2 DEF Entry
    <3> QED BY <1>4, <3>1, <3>2, <3>3, <3>4
  <2> QED BY <2>1, <2>2
<1>8. \A v \in Worker : (Taking(v)' <=> Taking(v)) /\ (Alive(v)' <=> Alive(v))
                        /\ (wpc'[v] = "stop" <=> wpc[v] = "stop")
  BY <1>1, <1>2 DEF Taking, Alive, Exited
<1>9. SameEntries'
  <2>1. ASSUME NEW v \in Worker, NEW i \in Nat, Usable(v, i)'
        PROVE  Usable(v, i) /\ Entry(v, i)' = Entry(v, i)
    <3>1. i \in 1..(IF Taking(v) THEN Total(v) ELSE Len(seen[v]))
      <4>1. CASE Taking(v)
        BY <1>6, <1>8, <2>1, <4>1 DEF Usable
      <4>2. CASE ~Taking(v)
        <5>1. v # w
          BY <1>1, <4>2 DEF Taking
        <5> QED BY <1>2, <1>8, <2>1, <4>2, <5>1 DEF Usable
      <4> QED BY <4>1, <4>2
    <3>2. i \in 1..Total(v) /\ \A j \in 1..i : j \in 1..Total(v)
      BY <3>1, PipeTypes
    <3> QED BY <1>7, <2>1, <3>1, <3>2 DEF Usable
  <2> QED BY <2>1 DEF OrderInv, SameEntries, Mates
<1>10. SenderInv' /\ (Down' <=> Down) /\ \A c : \A v : ReachedBy(c, v)' <=> ReachedBy(c, v)
  BY <1>1 DEF OrderInv, SenderInv, Busy, Down, ReachedBy, Todo
<1>11. ASSUME Down PROVE Sealed'
  <2>1. Sealed
    BY <1>11 DEF OrderInv
  <2>2. CASE \E j \in 1..Len(toWorker[w]) : toWorker[w][j] = Shutdown
    <3>1. PICK j \in 1..m[w] : toWorker[w][j] = Shutdown
      BY <1>4, <2>2
    <3>2. j # 1
      BY <1>1, <3>1, PipeTypes DEF Shutdown, Message
    <3>3. PICK k : k = j - 1
      OBVIOUS
    <3>4. k \in 1..(m[w] - 1) /\ k + 1 = j
      BY <1>4, <3>1, <3>2, <3>3
    <3>5. toWorker'[w][k] = Shutdown
      BY <1>5, <3>1, <3>4
    <3>6. \E h \in 1..Len(toWorker'[w]) : toWorker'[w][h] = Shutdown
      BY <1>5, <3>4, <3>5
    <3> QED BY <1>2, <1>8, <2>1, <3>6 DEF Sealed
  <2>3. CASE ~Alive(w) \/ wpc[w] = "stop"
    BY <1>1, <2>3 DEF Alive, Exited
  <2> QED BY <2>1, <2>2, <2>3 DEF Sealed
<1>12. ASSUME ~Down PROVE PipesClean' /\ InStep' /\ LastIsCurrent'
  <2>1. PipesClean /\ InStep /\ LastIsCurrent
    BY <1>12 DEF OrderInv
  <2>2. PipesClean'
    <3>1. \A j \in 1..(m[w] - 1) : j + 1 \in 1..m[w]
      BY <1>4
    <3>2. \A j \in 1..Len(toWorker'[w]) : toWorker'[w][j].type = "execute"
      <4>1. \A j \in 1..m[w] : toWorker[w][j].type = "execute"
        BY <1>4, <2>1 DEF PipesClean
      <4>2. \A j \in 1..(m[w] - 1) : toWorker'[w][j].type = "execute"
        BY <1>5, <3>1, <4>1, Zenon
      <4> QED BY <1>5, <4>2, Zenon
    <3>3. ASSUME NEW v \in Worker
          PROVE  /\ wpc'[v] # "stop"
                 /\ \A j \in 1..Len(toWorker'[v]) : toWorker'[v][j].type = "execute"
      <4>1. wpc'[v] # "stop"
        BY <1>8, <2>1 DEF PipesClean
      <4>2. CASE v = w
        BY <3>2, <4>1, <4>2
      <4>3. CASE v # w
        BY <1>2, <2>1, <4>1, <4>3 DEF PipesClean
      <4> QED BY <4>2, <4>3
    <3> QED BY <3>3, Zenon DEF PipesClean
  <2>3. \A v : Reached(v)' <=> Reached(v)
    BY <1>10 DEF Reached
  <2>4. InStep'
    BY <1>6, <1>8, <2>1, <2>3 DEF InStep, Stuck
  <2>5. LastIsCurrent'
    <3> SUFFICES ASSUME NEW c \in Client, NEW v \in Worker, ReachedBy(c, v)
                 PROVE  Total(v)' > 0 /\ Entry(v, Total(v))' = send[c].req
      BY <1>1, <1>10 DEF LastIsCurrent
    <3>1. PICK k : k = Total(v)
      OBVIOUS
    <3>2. k > 0 /\ Entry(v, k) = send[c].req /\ k \in Nat
      BY <2>1, <3>1, PipeTypes DEF LastIsCurrent
    <3>3. Total(v)' = k /\ Entry(v, k)' = Entry(v, k)
      BY <1>6, <1>7, <3>1, <3>2
    <3> QED BY <3>2, <3>3
  <2> QED BY <2>2, <2>4, <2>5
<1> QED BY <1>9, <1>10, <1>11, <1>12 DEF OrderInv

(* ... or the ShutdownRequest, and takes nothing any more. *)
LEMMA OrderTakeShutdown ==
  ASSUME Typed, OrderInv, NEW w \in Worker, WorkerRecv(w),
         Head(toWorker[w]).type # "execute"
  PROVE  OrderInv'
<1>1. /\ UNCHANGED <<pc, send, sendLock, shutComplete, seen>> /\ wpc[w] = "idle"
      /\ toWorker[w] # <<>> /\ toWorker' = [toWorker EXCEPT ![w] = Tail(@)]
      /\ wpc' = [wpc EXCEPT ![w] = "stop"]
  BY DEF WorkerRecv, ParentIdle
<1>2. /\ \A v \in Worker : v # w => toWorker'[v] = toWorker[v] /\ wpc'[v] = wpc[v]
      /\ wpc'[w] = "stop"
  BY <1>1 DEF Typed, ProcessType
<1>3. SenderInv' /\ (Down' <=> Down)
  BY <1>1 DEF OrderInv, SenderInv, Busy, Down
<1>4. Down
  <2>1. toWorker[w] \in Seq(ParentMessage) /\ Len(toWorker[w]) \in Nat
    BY PipeTypes
  <2>2. Len(toWorker[w]) > 0 /\ Head(toWorker[w]) = toWorker[w][1]
    BY <1>1, <2>1, TailIs, Zenon
  <2>3. 1 \in 1..Len(toWorker[w])
    BY <2>1, <2>2
  <2> QED BY <2>2, <2>3 DEF OrderInv, PipesClean
<1>5. Sealed'
  BY <1>2, <1>4 DEF OrderInv, Sealed, Alive
<1>6. ASSUME NEW v \in Worker, NEW i \in Nat, Usable(v, i)'
      PROVE  Usable(v, i) /\ Entry(v, i)' = Entry(v, i)
  <2>1. CASE v # w
    <3>1. Total(v)' = Total(v) /\ \A j : Entry(v, j)' = Entry(v, j)
      BY <1>1, <1>2, <2>1 DEF Total, Entry
    <3> QED BY <1>1, <1>2, <1>6, <2>1, <3>1 DEF Usable, Taking
  <2>2. CASE v = w
    <3>1. i \in 1..Len(seen[v])
      BY <1>1, <1>2, <1>6, <2>2 DEF Usable, Taking
    <3>2. \A j \in 1..i : j <= Len(seen[v])
      BY <3>1, PipeTypes
    <3>3. \A j \in 1..i : Entry(v, j)' = Entry(v, j)
      BY <1>1, <3>2 DEF Entry
    <3>4. i \in 1..Total(v) /\ i \in 1..i
      BY <3>1, PipeTypes
    <3> QED BY <1>6, <3>1, <3>3, <3>4 DEF Usable
  <2> QED BY <2>1, <2>2
<1>7. SameEntries'
  BY <1>6 DEF OrderInv, SameEntries, Mates
<1> QED BY <1>3, <1>4, <1>5, <1>7 DEF OrderInv

(* The other steps of processes, faults included, read no pipe. *)
LEMMA OrderIdle ==
  ASSUME Typed, OrderInv, ParentIdle, UNCHANGED <<toWorker, seen>>,
         \A w \in Worker : ~Alive(w) => ~Alive(w)',
         \A w \in Worker : \/ wpc'[w] = wpc[w] \/ wpc'[w] \in Exited
                           \/ Taking(w) /\ Taking(w)'
  PROVE  OrderInv'
<1>1. /\ UNCHANGED <<send, sendLock, pc, shutComplete>> /\ (Down' <=> Down)
  BY DEF ParentIdle, Down
<1>2. ASSUME NEW w \in Worker
      PROVE  /\ Taking(w)' => Taking(w)
             /\ wpc'[w] = "stop" => wpc[w] = "stop"
             /\ wpc[w] = "stop" => wpc'[w] = "stop" \/ ~Alive(w)'
  BY DEF Taking, Alive, Exited
<1> QED BY <1>1, <1>2, QuietOrder

(* Results, exits, crashes, hangs and deadlines. *)
LEMMA OrderProcesses ==
  ASSUME Typed, OrderInv, \A w \in Worker : ~Alive(w) => ~Alive(w)',
         \/ \E w \in Worker : WorkerResult(w) \/ WorkerSent(w) \/ WorkerStop(w)
         \/ Failing \/ (\E q \in ReqId : Expire(q)) \/ UNCHANGED vars
  PROVE  OrderInv'
<1>0. wpc \in [Worker -> WorkerPc]
  BY DEF Typed, ProcessType
<1>1. ASSUME NEW w \in Worker,
             WorkerResult(w) \/ WorkerSent(w) \/ WorkerStop(w) \/ WorkerRaises(w) \/ WorkerHang(w)
      PROVE  OrderInv'
  <2>1. ParentIdle /\ UNCHANGED <<toWorker, seen>>
    BY <1>1 DEF WorkerResult, WorkerSent, WorkerStop, WorkerRaises, WorkerHang
  <2>2. \E label : /\ wpc' = [wpc EXCEPT ![w] = label]
                   /\ \/ label \in Exited
                      \/ /\ wpc[w] \in {"exec", "send"}
                         /\ label \in {"send", "idle", "hung"}
    BY <1>1 DEF WorkerResult, WorkerSent, WorkerStop, WorkerRaises, WorkerHang, Exited
  <2>3. \A v \in Worker : \/ wpc'[v] = wpc[v] \/ wpc'[v] \in Exited
                          \/ Taking(v) /\ Taking(v)'
    BY <1>0, <2>2 DEF Taking
  <2> QED BY <2>1, <2>3, OrderIdle
<1>2. ASSUME NEW S, WorkersCrash(S) PROVE OrderInv'
  <2>1. ParentIdle /\ UNCHANGED <<toWorker, seen>>
    BY <1>2 DEF WorkersCrash, Kill
  <2>2. \A v \in Worker : wpc'[v] = wpc[v] \/ wpc'[v] \in Exited
    BY <1>2 DEF WorkersCrash, Kill, Exited
  <2> QED BY <2>1, <2>2, OrderIdle
<1>3. ASSUME UNCHANGED vars \/ \E q \in ReqId : Expire(q) PROVE OrderInv'
  <2>1. ParentIdle /\ UNCHANGED <<toWorker, seen, wpc>>
    BY <1>3 DEF vars, ParentIdle, Expire
  <2> QED BY <2>1, OrderIdle
<1> QED BY <1>1, <1>2, <1>3 DEF Failing

(* A thread that is not sending moves, and neither begins nor ends the     *)
(* join of the workers.                                                    *)
LEMMA OrderThread ==
  ASSUME Typed, OrderInv, NEW t \in Thread, NEW label, UNCHANGED pc \/ Goto(t, label),
         {pc[t], label} \cap {"lock", "put", "sending", "shutJoin"} = {},
         UNCHANGED <<toWorker, seen, send, sendLock, wpc, shutComplete>>
  PROVE  OrderInv'
<1>1. \A u \in Thread : pc'[u] = pc[u] \/ (u = t /\ pc'[u] = label)
  BY DEF Goto, Typed, PcType
<1>2. Down' <=> Down
  BY <1>1 DEF Down
<1>3. \A c \in Client : \/ pc'[c] = pc[c]
                        \/ {pc[c], pc'[c]} \cap {"lock", "put", "sending"} = {}
  BY <1>1 DEF Thread
<1>4. \A w \in Worker : (Alive(w)' <=> Alive(w)) /\ (Taking(w)' <=> Taking(w))
  BY DEF Alive, Taking
<1> QED BY <1>2, <1>3, <1>4, QuietOrder

(* _mark_failed, close() and the shutdown. *)
LEMMA OrderShutting ==
  ASSUME Typed, Typed', OrderInv, NEW t \in Thread, Shutting(t) \/ (t \in Closer /\ CloseBegin(t))
  PROVE  OrderInv'
<1>1. CASE ShutdownSend(t)
  BY <1>1, OrderShutdownSend
<1>2. CASE Reap(t)
  <2>1. /\ UNCHANGED <<toWorker, seen, send, sendLock>> /\ Kill(Worker)
        /\ pc[t] \in {"shutJoin", "reap"} /\ Goto(t, ReturnPc(t))
    BY <1>2 DEF Reap, Kill
  <2>2. shutComplete' = TRUE
    BY <1>2, Zenon DEF Reap, ReleaseWaiters
  <2>3. \A w \in Worker : wpc'[w] \in Exited
    BY <2>1 DEF Kill, Alive, Exited, Typed, ProcessType
  <2>4. \A w \in Worker : ~Alive(w)' /\ ~Taking(w)' /\ wpc'[w] # "stop"
    BY <2>3 DEF Alive, Taking, Exited
  <2>5. ReturnPc(t) \in {"idle", "top", "closeFinal"}
    BY DEF ReturnPc
  <2>6. \A u \in Thread : pc'[u] = IF u = t THEN ReturnPc(t) ELSE pc[u]
    BY <2>1 DEF Goto, Typed, PcType
  <2>7. \A c \in Client : \/ pc'[c] = pc[c]
                          \/ {pc[c], pc'[c]} \cap {"lock", "put", "sending"} = {}
    BY <2>1, <2>5, <2>6 DEF Thread
  <2>8. Down'
    BY <2>2 DEF Down
  <2> QED BY <2>1, <2>4, <2>7, <2>8, QuietOrder
<1>3. CASE MarkFailed(t) \/ Resolve(t) \/ ShutdownWait(t) \/ CloseFinal(t) \/ CloseBegin(t)
  <2>1. UNCHANGED <<toWorker, seen, send, sendLock, wpc, shutComplete>>
    BY <1>3 DEF MarkFailed, Resolve, ShutdownWait, CloseFinal, CloseBegin
  <2>2. pc[t] \in {"fail", "resolve", "shutWait", "closeFinal", "idle"}
    BY <1>3 DEF MarkFailed, Resolve, ShutdownWait, CloseFinal, CloseBegin
  <2>3. ReturnPc(t) \in {"idle", "top", "closeFinal"}
    BY DEF ReturnPc
  <2>4. \E label \in {"idle", "top", "closeFinal", "resolve", "done", "shutWait", "reap", "shutSend"} :
          Goto(t, label)
    BY <1>3, <2>3 DEF MarkFailed, Resolve, ShutdownWait, CloseFinal, CloseBegin
  <2> QED BY <2>1, <2>2, <2>4, OrderThread
<1> QED BY <1>1, <1>2, <1>3 DEF Shutting

(* The monitor only reads what workers write. *)
LEMMA OrderMonitoring ==
  ASSUME Typed, OrderInv, Monitoring
  PROVE  OrderInv'
<1> DEFINE Places == {"top", "drain", "record", "complete", "fail", "exit"}
<1>1. /\ UNCHANGED <<toWorker, seen, send, sendLock, wpc, shutComplete>>
      /\ pc[Monitor] \in Places
  BY DEF Monitoring, MonitorExit, MonitorWait, MonitorSweep, RecordReject, RecordResult,
         Complete, MonitorEof, MonitorRecv
<1>2. \E label \in Places : UNCHANGED pc \/ Goto(Monitor, label)
  BY DEF Monitoring, MonitorExit, MonitorWait, MonitorSweep, RecordReject, RecordResult,
         Complete, MonitorEof, MonitorRecv
<1>3. Monitor \in Thread
  BY DEF Thread
<1> QED BY <1>1, <1>2, <1>3, OrderThread

(* Every step keeps OrderInv. *)
LEMMA OrderStep == Typed /\ Typed' /\ OrderInv /\ [Next]_vars => OrderInv'
<1> SUFFICES ASSUME Typed, Typed', OrderInv, [Next]_vars PROVE OrderInv'
  OBVIOUS
<1>0. \A w \in Worker : ~Alive(w) => ~Alive(w)'
  BY DeadStays
<1>1. ASSUME NEW c \in Client,
             Sending(c) \/ SendUnpicklable(c) \/ \E r \in Replica : Submit(c, r)
      PROVE  OrderInv'
  BY <1>1, OrderSubmit, OrderLock, OrderPut, OrderReturn, OrderAborts DEF Sending
<1>2. ASSUME NEW t \in Thread, Shutting(t) PROVE OrderInv'
  BY <1>2, OrderShutting
<1>3. ASSUME NEW t \in Closer, CloseBegin(t) PROVE OrderInv'
  BY <1>3, OrderShutting DEF Thread
<1>4. ASSUME NEW w \in Worker, Working(w) PROVE OrderInv'
  BY <1>0, <1>4, OrderTake, OrderTakeShutdown, OrderProcesses DEF Working
<1>5. ASSUME Failing \/ (\E q \in ReqId : Expire(q)) \/ UNCHANGED vars PROVE OrderInv'
  BY <1>0, <1>5, OrderProcesses
<1>6. ASSUME Monitoring PROVE OrderInv'
  BY <1>6, OrderMonitoring
<1> QED BY <1>1, <1>2, <1>3, <1>4, <1>5, <1>6 DEF Next, Terminated

(* start() leaves empty pipes and nobody sending. *)
LEMMA OrderInit == Init => OrderInv
<1> SUFFICES ASSUME Init PROVE OrderInv
  OBVIOUS
<1>1. /\ \A t \in Thread : pc[t] \in {"top", "idle"}
      /\ \A w \in Worker : wpc[w] = "idle" /\ toWorker[w] = <<>> /\ seen[w] = <<>>
  BY DEF Init
<1>2. shutComplete = FALSE
  BY Zenon DEF Init
<1>3. \A c \in Client : pc[c] \in {"top", "idle"} /\ ~Busy(c)
  BY <1>1 DEF Busy, Thread
<1>4. SenderInv /\ LastIsCurrent /\ ~Down
  BY <1>1, <1>2, <1>3 DEF SenderInv, LastIsCurrent, ReachedBy, Down
<1>5. \A w \in Worker : Total(w) = 0 /\ Len(seen[w]) = 0 /\ ~Reached(w)
  <2>1. \A w \in Worker : Len(seen[w]) = 0 /\ Len(toWorker[w]) = 0
    BY <1>1
  <2>2. \A w \in Worker : Total(w) = 0 + 0
    BY <2>1, Zenon DEF Total
  <2> QED BY <1>3, <2>1, <2>2 DEF Reached, ReachedBy
<1>6. SameEntries
  BY <1>5 DEF SameEntries, Usable
<1>7. PipesClean /\ InStep
  BY <1>1, <1>5 DEF PipesClean, InStep
<1> QED BY <1>4, <1>6, <1>7 DEF OrderInv

(* The ranks of a replica take requests from their pipes in the same       *)
(* order, for every plan and any number of threads in submit(), although   *)
(* workers die in the middle of a send and a shutdown comes between.       *)
THEOREM RanksTakeSameOrder == Spec => []RanksAgree
<1>1. Init => Typed /\ OrderInv
  BY InitType, OrderInit
<1>2. Typed /\ OrderInv /\ [Next]_vars => (Typed /\ OrderInv)'
  BY TypedStep, OrderStep
<1>3. Typed /\ OrderInv => RanksAgree
  BY OrderSuffices
<1> QED BY <1>1, <1>2, <1>3, PTL DEF Spec
-----------------------------------------------------------------------------
(* The way of a request at one rank: to be sent, in the pipe to it, taken, *)
(* executed, in the pipe back, with the monitor.                           *)

Active(c)         == pc[c] \in {"lock", "put", "sending"}
ToSend(c, w, q)   == Active(c) /\ send[c].req = q /\ w \in Todo(c)
Queued(w, i, q)   == i \in 1..Len(toWorker[w]) /\ toWorker[w][i] = Message("execute", q)
Executing(w, q)   == wpc[w] \in {"exec", "hung"} /\ Executes(w) = q
Answered(w, i, q) == i \in 1..Len(toParent[w]) /\ toParent[w][i].req = q
AtMonitor(w, q)   == pc[Monitor] = "record" /\ mon.worker = w /\ mon.req = q
Succeeded(q)      == future[q] = "result" \/ (pc[Monitor] = "complete" /\ mon.req = q)

(* Ids are handed out once, ... *)
IdsFresh ==
  /\ \A c \in Client : Active(c) =>
       /\ send[c].req \in ReqId /\ send[c].req < nextId
       /\ \A d \in Client : Active(d) /\ d # c => send[d].req # send[c].req
  /\ \A w \in Worker, q \in ReqId :
       Took(w, q) \/ (\E i \in Nat : Queued(w, i, q)) => q < nextId

(* ... a rank gets each request at most once, ... *)
GotOnce == \A w \in Worker, q \in ReqId :
  /\ \A i, j \in Nat : Queued(w, i, q) /\ Queued(w, j, q) => i = j
  /\ \A i \in Nat : Queued(w, i, q) => ~Took(w, q)
  /\ \A c \in Client : ToSend(c, w, q) =>
       ~Took(w, q) /\ \A i \in Nat : ~Queued(w, i, q)

(* ... it answers once, when it is done, ... *)
AnswersOnce == \A w \in Worker, q \in ReqId :
  /\ \A i \in Nat : Answered(w, i, q) => Took(w, q) /\ ~Executing(w, q)
  /\ \A i, j \in Nat : Answered(w, i, q) /\ Answered(w, j, q) => i = j
  /\ AtMonitor(w, q) =>
       Took(w, q) /\ ~Executing(w, q) /\ \A i \in Nat : ~Answered(w, i, q)

(* ... the ranks that are not waited for have answered, ... *)
RecordedAnswered == \A q \in ReqId : q < nextId =>
  \A w \in Ranks(req[q].replica) \ req[q].remaining :
    Took(w, q) /\ ~Executing(w, q) /\ \A i \in Nat : ~Answered(w, i, q)

(* ... and a result is set when no rank is waited for.                     *)
ResultRecorded == \A q \in ReqId :
  Succeeded(q) => q < nextId /\ req[q].remaining = {}

(* The inductive strengthening of ResultFromAllRanks. *)
ResultInv == /\ IdsFresh /\ GotOnce /\ AnswersOnce
             /\ RecordedAnswered /\ ResultRecorded

(* It gives the answer of every rank. *)
LEMMA ResultSuffices == Typed /\ ResultInv => ResultFromAllRanks
<1> SUFFICES ASSUME Typed, ResultInv, NEW q \in ReqId, future[q] = "result",
                    NEW w \in Ranks(req[q].replica)
             PROVE  /\ Took(w, q)
                    /\ wpc[w] \in {"exec", "hung"} => Executes(w) # q
                    /\ \A i \in DOMAIN toParent[w] : toParent[w][i].req # q
  BY DEF ResultFromAllRanks
<1>1. q < nextId /\ req[q].remaining = {}
  BY DEF ResultInv, ResultRecorded, Succeeded
<1>2. Took(w, q) /\ ~Executing(w, q) /\ \A i \in Nat : ~Answered(w, i, q)
  BY <1>1 DEF ResultInv, RecordedAnswered
<1>3. toParent[w] \in Seq(WorkerMessage)
  BY DEF Ranks, Typed, ProcessType
<1>4. \A i \in DOMAIN toParent[w] : i \in Nat /\ i \in 1..Len(toParent[w])
  BY <1>3
<1> QED BY <1>2, <1>4 DEF Executing, Answered

(* Steps that only take requests away. *)
LEMMA QuietResult ==
  ASSUME ResultInv, UNCHANGED <<nextId, req, seen>>,
         \A c \in Client : Active(c)' => Active(c) /\ send'[c].req = send[c].req,
         \A c \in Client, w \in Worker, q \in ReqId : ToSend(c, w, q)' => ToSend(c, w, q),
         \A w \in Worker, i \in Nat, q \in ReqId :
           /\ Queued(w, i, q)' => Queued(w, i, q)
           /\ Answered(w, i, q)' => Answered(w, i, q),
         \A w \in Worker : wpc'[w] \in {"exec", "hung"} => wpc[w] \in {"exec", "hung"},
         \A w \in Worker, q \in ReqId : AtMonitor(w, q)' => AtMonitor(w, q),
         \A q \in ReqId : Succeeded(q)' => Succeeded(q)
  PROVE  ResultInv'
<1>1. \A w, q : Took(w, q)' <=> Took(w, q)
  BY DEF Took
<1>2. \A w \in Worker : \A q : Executing(w, q)' => Executing(w, q)
  BY DEF Executing, Executes
<1>3. IdsFresh'
  BY <1>1 DEF ResultInv, IdsFresh
<1>4. GotOnce'
  BY <1>1 DEF ResultInv, GotOnce
<1>5. AnswersOnce'
  BY <1>1, <1>2 DEF ResultInv, AnswersOnce
<1>6. RecordedAnswered'
  BY <1>1, <1>2 DEF ResultInv, RecordedAnswered, Ranks
<1>7. ResultRecorded'
  BY DEF ResultInv, ResultRecorded
<1> QED BY <1>3, <1>4, <1>5, <1>6, <1>7 DEF ResultInv

(* A new request is in no pipe and in no process. *)
LEMMA ResultSubmit ==
  ASSUME Typed, ResultInv, NEW c \in Client, NEW r \in Replica, Submit(c, r)
  PROVE  ResultInv'
<1>0. PICK n : n = nextId
  OBVIOUS
<1>1. /\ n \in ReqId /\ n \in Nat /\ nextId' = n + 1 /\ pc[c] = "idle"
      /\ UNCHANGED <<seen, toWorker, toParent, wpc, mon>>
      /\ \A q \in ReqId : q < n => req'[q] = req[q]
      /\ req'[n].replica = r /\ req'[n].remaining = Ranks(r)
      /\ \A q \in ReqId : future'[q] = IF q = n THEN "running" ELSE future[q]
      /\ \A d \in Client : send'[d] = IF d = c THEN [req |-> n, ranks |-> Ranks(r)] ELSE send[d]
      /\ \A t \in Thread : pc'[t] = IF t = c THEN "lock" ELSE pc[t]
  BY <1>0, BoundAssumption DEF Submit, Goto, Typed, TableType, PcType, ThreadType, ReqId, Thread
<1>2. \A q \in ReqId : q \in Nat /\ (q < n + 1 <=> q < n \/ q = n)
  BY <1>1 DEF ReqId
<1>3. /\ \A w, q : Took(w, q)' <=> Took(w, q)
      /\ \A w, i, q : (Queued(w, i, q)' <=> Queued(w, i, q)) /\ (Answered(w, i, q)' <=> Answered(w, i, q))
      /\ \A w, q : Executing(w, q)' <=> Executing(w, q)
  BY <1>1 DEF Took, Queued, Answered, Executing, Executes
<1>4. /\ Monitor \in Thread /\ Monitor # c /\ Client \subseteq Thread
      /\ \A w, q : AtMonitor(w, q)' <=> AtMonitor(w, q)
  BY <1>1, ThreadAssumption DEF AtMonitor, Thread
<1>5. \A d \in Client : d # c => /\ Active(d)' <=> Active(d)
                                /\ send'[d] = send[d] /\ Todo(d)' = Todo(d)
  BY <1>1, <1>4 DEF Active, Todo
<1>6. Active(c)' /\ send'[c].req = n
  BY <1>1, <1>4 DEF Active
<1>7. IdsFresh'
  <2>1. \A d \in Client : d # c /\ Active(d)' =>
          /\ send'[d].req = send[d].req /\ send[d].req \in ReqId /\ send[d].req < n
          /\ Active(d)
    BY <1>0, <1>5 DEF ResultInv, IdsFresh
  <2>2. \A d \in Client : Active(d)' => send'[d].req \in ReqId /\ send'[d].req < nextId'
    BY <1>1, <1>2, <1>6, <2>1
  <2>3. ASSUME NEW d \in Client, NEW e \in Client, Active(d)', Active(e)', d # e
        PROVE  send'[d].req # send'[e].req
    <3>1. CASE d # c /\ e # c
      BY <2>1, <2>3, <3>1 DEF ResultInv, IdsFresh
    <3>2. CASE d = c
      BY <1>2, <1>6, <2>1, <2>3, <3>2
    <3>3. CASE e = c
      BY <1>2, <1>6, <2>1, <2>3, <3>3
    <3> QED BY <3>1, <3>2, <3>3
  <2>4. \A w \in Worker, q \in ReqId :
          Took(w, q)' \/ (\E i \in Nat : Queued(w, i, q)') => q < nextId'
    BY <1>0, <1>1, <1>2, <1>3 DEF ResultInv, IdsFresh
  <2> QED BY <2>2, <2>3, <2>4 DEF IdsFresh
<1>8. \A w \in Worker : ~Took(w, n) /\ \A i \in Nat : ~Queued(w, i, n)
  BY <1>0, <1>1, <1>2 DEF ResultInv, IdsFresh
<1>9. GotOnce'
  <2>1. ASSUME NEW d \in Client, NEW w \in Worker, NEW q \in ReqId, ToSend(d, w, q)'
        PROVE  ~Took(w, q) /\ \A i \in Nat : ~Queued(w, i, q)
    <3>1. CASE d = c
      BY <1>6, <1>8, <2>1, <3>1 DEF ToSend
    <3>2. CASE d # c
      BY <1>5, <2>1, <3>2 DEF ToSend, ResultInv, GotOnce
    <3> QED BY <3>1, <3>2
  <2> QED BY <1>3, <2>1 DEF ResultInv, GotOnce
<1>10. AnswersOnce'
  BY <1>3, <1>4 DEF ResultInv, AnswersOnce
<1>11. RecordedAnswered'
  BY <1>0, <1>1, <1>2, <1>3 DEF ResultInv, RecordedAnswered, Ranks
<1>12. ResultRecorded'
  <2>1. \A q \in ReqId : Succeeded(q)' => Succeeded(q)
    BY <1>1, <1>4 DEF Succeeded
  <2> QED BY <1>0, <1>1, <1>2, <2>1 DEF ResultInv, ResultRecorded
<1> QED BY <1>7, <1>9, <1>10, <1>11, <1>12 DEF ResultInv

(* A send that goes on to the next rank, or ends, leaves less to send. *)
LEMMA LessToSend ==
  ASSUME Typed, OrderInv, NEW c \in Client, Busy(c), NEW x, x = FirstRank(send[c].ranks),
         \/ AfterSend(c)
         \/ pc[c] = "put" /\ Goto(c, "sending") /\ UNCHANGED <<sendLock, send>>
  PROVE  /\ \A t \in Thread : t # c => pc'[t] = pc[t]
         /\ \A d \in Client : Active(d)' => Active(d) /\ send'[d].req = send[d].req
         /\ \A d \in Client : \A w, q : ToSend(d, w, q)' =>
              ToSend(d, w, q) /\ (d = c => w # x)
<1>0. c \in Thread /\ Active(c)
  BY DEF Thread, Active, Busy
<1>1. CASE AfterSend(c) /\ send[c].ranks \ {x} = {}
  <2>1. send' = [send EXCEPT ![c] = NoSend] /\ Goto(c, "idle")
    BY <1>1 DEF AfterSend
  <2>2. /\ \A t \in Thread : pc'[t] = IF t = c THEN "idle" ELSE pc[t]
        /\ \A d \in Client : d # c => send'[d] = send[d]
    BY <2>1 DEF Goto, Typed, PcType, ThreadType
  <2>3. Client \subseteq Thread
    BY DEF Thread
  <2> QED BY <2>2, <2>3 DEF Active, ToSend, Todo
<1>2. CASE AfterSend(c) /\ send[c].ranks \ {x} # {}
  <2>1. send' = [send EXCEPT ![c].ranks = send[c].ranks \ {x}] /\ Goto(c, "put")
    BY <1>2 DEF AfterSend
  <2>2. /\ \A t \in Thread : pc'[t] = IF t = c THEN "put" ELSE pc[t]
        /\ \A d \in Client : d # c => send'[d] = send[d]
        /\ send'[c].ranks = send[c].ranks \ {x} /\ send'[c].req = send[c].req
    BY <2>1 DEF Goto, Typed, PcType, ThreadType
  <2>3. Client \subseteq Thread
    BY DEF Thread
  <2>4. Todo(c)' = send[c].ranks \ {x} /\ send[c].ranks \ {x} \subseteq Todo(c)
    BY <1>0, <2>2 DEF Todo
  <2>5. \A d \in Client : d # c => Todo(d)' = Todo(d) /\ (Active(d)' <=> Active(d))
    BY <2>2, <2>3 DEF Todo, Active
  <2> QED BY <1>0, <2>2, <2>4, <2>5 DEF ToSend
<1>3. CASE pc[c] = "put" /\ Goto(c, "sending") /\ UNCHANGED <<sendLock, send>>
  <2>1. \A t \in Thread : pc'[t] = IF t = c THEN "sending" ELSE pc[t]
    BY <1>3 DEF Goto, Typed, PcType
  <2>2. Client \subseteq Thread
    BY DEF Thread
  <2>3. Todo(c)' = send[c].ranks \ {x} /\ Todo(c) = send[c].ranks
    BY <1>0, <1>3, <2>1 DEF Todo
  <2>4. \A d \in Client : d # c => Todo(d)' = Todo(d) /\ (Active(d)' <=> Active(d))
    BY <1>3, <2>1, <2>2 DEF Todo, Active
  <2> QED BY <1>0, <1>3, <2>1, <2>3, <2>4 DEF ToSend
<1> QED BY <1>1, <1>2, <1>3

(* A rank is sent a request it has not seen. *)
LEMMA ResultPut ==
  ASSUME Typed, OrderInv, ResultInv, NEW c \in Client, SendPut(c)
  PROVE  ResultInv'
<1>0. PICK x : x = FirstRank(send[c].ranks)
  OBVIOUS
<1>1. /\ UNCHANGED <<nextId, req, seen, toParent, wpc, mon, future>> /\ pc[c] = "put"
      /\ toWorker' = [toWorker EXCEPT ![x] = Append(@, Message("execute", send[c].req))]
      /\ \/ AfterSend(c)
         \/ Goto(c, "sending") /\ UNCHANGED <<sendLock, send>>
  BY <1>0 DEF SendPut
<1>2. Busy(c) /\ Active(c)
  BY <1>1 DEF Busy, Active
<1>3. x \in Worker /\ x \in send[c].ranks
  BY <1>0, <1>2, SenderFacts
<1>4. /\ \A t \in Thread : t # c => pc'[t] = pc[t]
      /\ \A d \in Client : Active(d)' => Active(d) /\ send'[d].req = send[d].req
      /\ \A d \in Client : \A w, q : ToSend(d, w, q)' => ToSend(d, w, q) /\ (d = c => w # x)
  BY <1>0, <1>1, <1>2, LessToSend
<1>5. PICK p : p = send[c].req
  OBVIOUS
<1>6. p \in ReqId /\ p < nextId /\ ToSend(c, x, p)
  BY <1>1, <1>2, <1>3, <1>5 DEF ResultInv, IdsFresh, ToSend, Todo
<1>7. ~Took(x, p) /\ \A i \in Nat : ~Queued(x, i, p)
  BY <1>3, <1>6 DEF ResultInv, GotOnce
<1>8. PICK n \in Nat : n = Len(toWorker[x])
  BY <1>3, PipeTypes
<1>9. \A w \in Worker, i \in Nat, q \in ReqId :
        Queued(w, i, q)' => Queued(w, i, q) \/ (w = x /\ i = n + 1 /\ q = p)
  <2>1. Message("execute", p) \in ParentMessage
    BY <1>6 DEF Message, ParentMessage
  <2>2. /\ toWorker'[x] = Append(toWorker[x], Message("execute", p))
        /\ \A w \in Worker : w # x => toWorker'[w] = toWorker[w]
        /\ toWorker[x] \in Seq(ParentMessage)
    BY <1>1, <1>3, <1>5 DEF Typed, ProcessType
  <2>3. /\ Len(toWorker'[x]) = n + 1 /\ toWorker'[x][n + 1] = Message("execute", p)
        /\ \A j \in 1..n : toWorker'[x][j] = toWorker[x][j]
    BY <1>8, <2>1, <2>2, AppendIs
  <2>4. \A i \in 1..(n + 1) : i \in 1..n \/ i = n + 1
    BY <1>8
  <2>5. ASSUME NEW i \in Nat, NEW q \in ReqId, Queued(x, i, q)'
        PROVE  Queued(x, i, q) \/ (i = n + 1 /\ q = p)
    BY <1>8, <2>3, <2>4, <2>5 DEF Queued, Message
  <2> QED BY <2>2, <2>5 DEF Queued
<1>10. /\ \A w, q : (Took(w, q)' <=> Took(w, q)) /\ (Executing(w, q)' <=> Executing(w, q))
       /\ \A w, i, q : Answered(w, i, q)' <=> Answered(w, i, q)
  BY <1>1 DEF Took, Answered, Executing, Executes
<1>11. /\ pc'[Monitor] = pc[Monitor]
       /\ \A w, q : AtMonitor(w, q)' <=> AtMonitor(w, q)
       /\ \A q : Succeeded(q)' <=> Succeeded(q)
  <2>1. Monitor \in Thread /\ Monitor # c
    BY ThreadAssumption DEF Thread
  <2> QED BY <1>1, <1>4, <2>1 DEF AtMonitor, Succeeded
<1>12. IdsFresh'
  BY <1>1, <1>4, <1>6, <1>9, <1>10 DEF ResultInv, IdsFresh
<1>13. GotOnce'
  <2>1. ASSUME NEW d \in Client, NEW w \in Worker, NEW q \in ReqId, ToSend(d, w, q)'
        PROVE  ~(w = x /\ q = p) /\ ToSend(d, w, q)
    <3>1. ToSend(d, w, q) /\ (d = c => w # x)
      BY <1>4, <2>1
    <3>2. d # c => q # p
      BY <1>2, <1>5, <3>1 DEF ResultInv, IdsFresh, ToSend
    <3> QED BY <3>1, <3>2
  <2>2. \A d \in Client, w \in Worker, q \in ReqId : ToSend(d, w, q)' =>
          ~Took(w, q)' /\ \A i \in Nat : ~Queued(w, i, q)'
    BY <1>9, <1>10, <2>1 DEF ResultInv, GotOnce
  <2>3. \A w \in Worker, q \in ReqId, i, j \in Nat :
          Queued(w, i, q)' /\ Queued(w, j, q)' => i = j /\ ~Took(w, q)'
    BY <1>7, <1>9, <1>10 DEF ResultInv, GotOnce
  <2> QED BY <2>2, <2>3 DEF GotOnce
<1>14. AnswersOnce'
  BY <1>10, <1>11 DEF ResultInv, AnswersOnce
<1>15. RecordedAnswered' /\ ResultRecorded'
  BY <1>1, <1>10, <1>11 DEF ResultInv, RecordedAnswered, ResultRecorded, Ranks
<1> QED BY <1>12, <1>13, <1>14, <1>15 DEF ResultInv

(* The other steps of a submit(). *)
LEMMA ResultSending ==
  ASSUME Typed, OrderInv, ResultInv, NEW c \in Client,
         SendLock(c) \/ SendReturn(c) \/ SendBroken(c) \/ SendUnpicklable(c)
  PROVE  ResultInv'
<1>0. /\ UNCHANGED <<nextId, req, seen, toWorker, toParent, wpc, mon, future>>
      /\ c \in Thread /\ Monitor \in Thread /\ Monitor # c /\ Client \subseteq Thread
  BY ThreadAssumption DEF SendLock, SendReturn, SendBroken, SendUnpicklable, SendAborts, Thread
<1>1. /\ \A t \in Thread : t # c => pc'[t] = pc[t]
      /\ \A d \in Client : Active(d)' => Active(d) /\ send'[d].req = send[d].req
      /\ \A d \in Client : \A w, q : ToSend(d, w, q)' => ToSend(d, w, q)
  <2>1. CASE SendLock(c)
    <3>1. /\ \A t \in Thread : pc'[t] = IF t = c THEN "put" ELSE pc[t]
          /\ UNCHANGED send /\ pc[c] = "lock"
      BY <1>0, <2>1 DEF SendLock, Goto, Typed, PcType
    <3> QED BY <1>0, <3>1 DEF Active, ToSend, Todo
  <2>2. CASE SendReturn(c)
    <3>1. Busy(c) /\ AfterSend(c)
      BY <2>2 DEF SendReturn, Busy
    <3> QED BY <3>1, LessToSend
  <2>3. CASE SendBroken(c) \/ SendUnpicklable(c)
    <3>1. /\ \A t \in Thread : pc'[t] = IF t = c THEN "fail" ELSE pc[t]
          /\ \A d \in Client : d # c => send'[d] = send[d]
      BY <1>0, <2>3 DEF SendBroken, SendUnpicklable, SendAborts, Goto, Typed, PcType, ThreadType
    <3> QED BY <1>0, <3>1 DEF Active, ToSend, Todo
  <2> QED BY <2>1, <2>2, <2>3
<1>2. /\ \A w, i, q : (Queued(w, i, q)' <=> Queued(w, i, q)) /\ (Answered(w, i, q)' <=> Answered(w, i, q))
      /\ \A w, q : AtMonitor(w, q)' <=> AtMonitor(w, q)
      /\ \A q : Succeeded(q)' <=> Succeeded(q)
  BY <1>0, <1>1 DEF Queued, Answered, AtMonitor, Succeeded
<1> QED BY <1>0, <1>1, <1>2, QuietResult

(* Nothing is left to send or changed for the steps of the processes. *)
LEMMA IdleKeeps ==
  ASSUME ParentIdle
  PROVE  /\ UNCHANGED <<nextId, req>>
         /\ \A c : (Active(c)' <=> Active(c)) /\ send'[c] = send[c]
         /\ \A c, w, q : ToSend(c, w, q)' <=> ToSend(c, w, q)
         /\ \A w, q : AtMonitor(w, q)' <=> AtMonitor(w, q)
         /\ \A q : Succeeded(q)' <=> Succeeded(q)
BY DEF ParentIdle, Active, ToSend, Todo, AtMonitor, Succeeded

(* A worker takes a request, which it has not taken before. *)
LEMMA ResultTake ==
  ASSUME Typed, Typed', ResultInv, NEW w \in Worker, WorkerRecv(w)
  PROVE  ResultInv'
<1>0. /\ ParentIdle /\ UNCHANGED toParent /\ wpc[w] = "idle" /\ toWorker[w] # <<>>
      /\ toWorker' = [toWorker EXCEPT ![w] = Tail(@)]
  BY DEF WorkerRecv
<1>1. /\ UNCHANGED <<nextId, req>>
      /\ \A c : (Active(c)' <=> Active(c)) /\ send'[c] = send[c]
      /\ \A c, v, q : ToSend(c, v, q)' <=> ToSend(c, v, q)
      /\ \A v, q : AtMonitor(v, q)' <=> AtMonitor(v, q)
      /\ \A q : Succeeded(q)' <=> Succeeded(q)
      /\ \A v, i, q : Answered(v, i, q)' <=> Answered(v, i, q)
  BY <1>0, IdleKeeps DEF Answered
<1>2. PICK n \in Nat : n = Len(toWorker[w])
  BY PipeTypes
<1>3. toWorker[w] \in Seq(ParentMessage)
  BY PipeTypes
<1>4. /\ n > 0 /\ Head(toWorker[w]) = toWorker[w][1] /\ Len(toWorker'[w]) = n - 1
      /\ \A j \in 1..(n - 1) : toWorker'[w][j] = toWorker[w][j + 1]
      /\ \A v \in Worker : v # w => toWorker'[v] = toWorker[v]
  <2>1. /\ toWorker'[w] = Tail(toWorker[w])
        /\ \A v \in Worker : v # w => toWorker'[v] = toWorker[v]
    BY <1>0 DEF Typed, ProcessType
  <2>2. /\ n > 0 /\ Head(toWorker[w]) = toWorker[w][1] /\ Len(Tail(toWorker[w])) = n - 1
        /\ \A j \in 1..(n - 1) : Tail(toWorker[w])[j] = toWorker[w][j + 1]
    BY <1>0, <1>2, <1>3, TailIs, Zenon
  <2> QED BY <2>1, <2>2, Zenon
<1>5. ASSUME NEW v \in Worker, NEW i \in Nat, NEW q \in ReqId, Queued(v, i, q)'
      PROVE  IF v = w THEN Queued(v, i + 1, q) /\ i + 1 # 1 /\ i + 1 \in Nat
             ELSE Queued(v, i, q)
  <2>1. CASE v # w
    BY <1>4, <1>5, <2>1 DEF Queued
  <2>2. CASE v = w
    <3>1. i \in 1..(n - 1) /\ toWorker'[w][i] = Message("execute", q)
      BY <1>4, <1>5, <2>2 DEF Queued
    <3>2. i + 1 \in 1..n /\ i + 1 # 1 /\ i + 1 \in Nat
      BY <1>2, <3>1
    <3> QED BY <1>2, <1>4, <2>2, <3>1, <3>2 DEF Queued
  <2> QED BY <2>1, <2>2
<1>6. CASE Head(toWorker[w]).type # "execute"
  <2>1. UNCHANGED seen /\ wpc' = [wpc EXCEPT ![w] = "stop"]
    BY <1>6 DEF WorkerRecv
  <2>2. \A v \in Worker : \A q : /\ Took(v, q)' <=> Took(v, q)
                                 /\ Executing(v, q)' => Executing(v, q)
    BY <2>1 DEF Took, Executing, Executes, Typed, ProcessType
  <2>3. IdsFresh'
    BY <1>1, <1>5, <2>2 DEF ResultInv, IdsFresh
  <2>4. GotOnce'
    <3>1. \A v \in Worker, q \in ReqId, i, j \in Nat :
            Queued(v, i, q)' /\ Queued(v, j, q)' => i = j /\ ~Took(v, q)'
      BY <1>5, <2>2 DEF ResultInv, GotOnce
    <3>2. ASSUME NEW c \in Client, NEW v \in Worker, NEW q \in ReqId, ToSend(c, v, q)'
          PROVE  ~Took(v, q)' /\ \A i \in Nat : ~Queued(v, i, q)'
      <4>1. ~Took(v, q) /\ \A i \in Nat : ~Queued(v, i, q)
        BY <1>1, <3>2 DEF ResultInv, GotOnce
      <4> QED BY <1>5, <2>2, <4>1
    <3> QED BY <3>1, <3>2 DEF GotOnce
  <2>5. AnswersOnce'
    BY <1>1, <2>2 DEF ResultInv, AnswersOnce
  <2>6. RecordedAnswered' /\ ResultRecorded'
    BY <1>1, <2>2 DEF ResultInv, RecordedAnswered, ResultRecorded, Ranks
  <2> QED BY <2>3, <2>4, <2>5, <2>6 DEF ResultInv
<1>7. CASE Head(toWorker[w]).type = "execute"
  <2>1. /\ wpc' = [wpc EXCEPT ![w] = "exec"]
        /\ seen' = [seen EXCEPT ![w] = Append(@, Head(toWorker[w]).req)]
    BY <1>7 DEF WorkerRecv
  <2>2. PICK p \in ReqId : Head(toWorker[w]) = Message("execute", p)
    <3>1. 1 \in 1..Len(toWorker[w])
      BY <1>2, <1>4
    <3>2. Head(toWorker[w]) \in ParentMessage
      BY <1>3, <1>4, <3>1
    <3> QED BY <1>7, <3>2 DEF ParentMessage, Shutdown, Message
  <2>3. Queued(w, 1, p)
    BY <1>2, <1>4, <2>2 DEF Queued
  <2>4. ~Took(w, p) /\ p < nextId /\ \A c \in Client : ~ToSend(c, w, p)
    BY <2>3 DEF ResultInv, GotOnce, IdsFresh
  <2>5. PICK l \in Nat : l = Len(seen[w])
    BY PipeTypes
  <2>6. /\ Len(seen'[w]) = l + 1 /\ seen'[w][l + 1] = p
        /\ \A i \in 1..l : seen'[w][i] = seen[w][i]
        /\ seen[w] \in Seq(ReqId) /\ seen'[w] \in Seq(ReqId)
    <3>1. seen'[w] = Append(seen[w], p) /\ seen[w] \in Seq(ReqId) /\ seen'[w] \in Seq(ReqId)
      BY <2>1, <2>2 DEF Typed, ProcessType, Message
    <3> QED BY <2>5, <3>1, AppendIs
  <2>7. /\ \A q : Took(w, q)' => Took(w, q) \/ q = p
        /\ \A q : Took(w, q) => Took(w, q)'
    <3>1. DOMAIN seen[w] = 1..l /\ DOMAIN seen'[w] = 1..(l + 1)
      BY <2>5, <2>6
    <3>2. /\ \A i \in 1..(l + 1) : i \in 1..l \/ i = l + 1
          /\ \A i \in 1..l : i \in 1..(l + 1)
      BY <2>5
    <3> QED BY <2>6, <3>1, <3>2 DEF Took
  <2>8. \A v \in Worker : v # w =>
          \A q : (Took(v, q)' <=> Took(v, q)) /\ (Executing(v, q)' <=> Executing(v, q))
    BY <2>1 DEF Took, Executing, Executes, Typed, ProcessType
  <2>9. \A q : Executing(w, q)' => q = p
    <3>1. Executes(w)' = p
      BY <2>6 DEF Executes, Last
    <3> QED BY <3>1 DEF Executing
  <2>10. IdsFresh'
    BY <1>1, <1>5, <2>4, <2>7, <2>8 DEF ResultInv, IdsFresh
  <2>11. GotOnce'
    <3>1. \A v \in Worker, q \in ReqId, i, j \in Nat : Queued(v, i, q)' /\ Queued(v, j, q)' => i = j
      BY <1>5 DEF ResultInv, GotOnce
    <3>2. ASSUME NEW v \in Worker, NEW q \in ReqId, NEW i \in Nat, Queued(v, i, q)'
          PROVE  ~Took(v, q)'
      <4>1. CASE v # w
        BY <1>5, <2>8, <3>2, <4>1 DEF ResultInv, GotOnce
      <4>2. CASE v = w
        <5>1. Queued(w, i + 1, q) /\ i + 1 # 1 /\ i + 1 \in Nat
          BY <1>5, <3>2, <4>2
        <5>2. q # p /\ ~Took(w, q)
          BY <2>3, <5>1 DEF ResultInv, GotOnce
        <5> QED BY <2>7, <4>2, <5>2
      <4> QED BY <4>1, <4>2
    <3>3. ASSUME NEW c \in Client, NEW v \in Worker, NEW q \in ReqId, ToSend(c, v, q)'
          PROVE  ~Took(v, q)' /\ \A i \in Nat : ~Queued(v, i, q)'
      <4>1. ToSend(c, v, q) /\ ~Took(v, q) /\ \A i \in Nat : ~Queued(v, i, q)
        BY <1>1, <3>3 DEF ResultInv, GotOnce
      <4>2. ~Took(v, q)'
        BY <2>4, <2>7, <2>8, <4>1
      <4> QED BY <1>5, <4>1, <4>2
    <3> QED BY <3>1, <3>2, <3>3 DEF GotOnce
  <2>12. \A v \in Worker, q \in ReqId : Took(v, q) /\ ~Executing(v, q) =>
            Took(v, q)' /\ ~Executing(v, q)'
    BY <2>4, <2>7, <2>8, <2>9
  <2>13. AnswersOnce'
    BY <1>1, <2>12 DEF ResultInv, AnswersOnce
  <2>14. RecordedAnswered' /\ ResultRecorded'
    BY <1>1, <2>12 DEF ResultInv, RecordedAnswered, ResultRecorded, Ranks
  <2> QED BY <2>10, <2>11, <2>13, <2>14 DEF ResultInv
<1> QED BY <1>6, <1>7

(* A worker answers the request it executed, for the first time. *)
LEMMA ResultAnswer ==
  ASSUME Typed, ResultInv, NEW w \in Worker, WorkerResult(w)
  PROVE  ResultInv'
<1>0. PICK p : p = Executes(w)
  OBVIOUS
<1>1. /\ ParentIdle /\ UNCHANGED <<toWorker, seen>> /\ wpc[w] = "exec"
      /\ toParent' = [toParent EXCEPT ![w] = Append(@, Message("result", p))]
      /\ \E label \in {"send", "idle"} : wpc' = [wpc EXCEPT ![w] = label]
  BY <1>0 DEF WorkerResult, Emit
<1>2. /\ UNCHANGED <<nextId, req>>
      /\ \A c : (Active(c)' <=> Active(c)) /\ send'[c] = send[c]
      /\ \A c, v, q : ToSend(c, v, q)' <=> ToSend(c, v, q)
      /\ \A v, q : AtMonitor(v, q)' <=> AtMonitor(v, q)
      /\ \A q : Succeeded(q)' <=> Succeeded(q)
      /\ \A v, i, q : Queued(v, i, q)' <=> Queued(v, i, q)
      /\ \A v, q : Took(v, q)' <=> Took(v, q)
  BY <1>1, IdleKeeps DEF Queued, Took
<1>3. p \in ReqId /\ Took(w, p)
  <2>1. seen[w] \in Seq(ReqId) /\ seen[w] # <<>>
    BY <1>1 DEF Typed, ProcessType, LocalInv
  <2>2. p = seen[w][Len(seen[w])] /\ Len(seen[w]) \in 1..Len(seen[w]) /\ DOMAIN seen[w] = 1..Len(seen[w])
    BY <1>0, <2>1 DEF Executes, Last
  <2> QED BY <2>1, <2>2 DEF Took
<1>4. Executing(w, p)
  BY <1>0, <1>1 DEF Executing
<1>5. /\ \A q : ~Executing(w, q)'
      /\ \A v \in Worker : v # w => \A q : Executing(v, q)' <=> Executing(v, q)
  BY <1>1 DEF Executing, Executes, Typed, ProcessType
<1>6. /\ ~AtMonitor(w, p) /\ \A i \in Nat : ~Answered(w, i, p)
      /\ p < nextId => ~(w \in Ranks(req[p].replica) \ req[p].remaining)
  BY <1>3, <1>4 DEF ResultInv, AnswersOnce, RecordedAnswered
<1>7. PICK n \in Nat : n = Len(toParent[w])
  BY DEF Typed, ProcessType
<1>8. \A v \in Worker, i \in Nat, q \in ReqId :
        Answered(v, i, q)' => Answered(v, i, q) \/ (v = w /\ i = n + 1 /\ q = p)
  <2>1. /\ toParent'[w] = Append(toParent[w], Message("result", p))
        /\ \A v \in Worker : v # w => toParent'[v] = toParent[v]
        /\ toParent[w] \in Seq(WorkerMessage) /\ Message("result", p) \in WorkerMessage
    BY <1>1, <1>3 DEF Typed, ProcessType, Message, WorkerMessage
  <2>2. /\ Len(toParent'[w]) = n + 1 /\ toParent'[w][n + 1] = Message("result", p)
        /\ \A j \in 1..n : toParent'[w][j] = toParent[w][j]
    BY <1>7, <2>1, AppendIs
  <2>3. \A i \in 1..(n + 1) : i \in 1..n \/ i = n + 1
    BY <1>7
  <2>4. ASSUME NEW i \in Nat, NEW q \in ReqId, Answered(w, i, q)'
        PROVE  Answered(w, i, q) \/ (i = n + 1 /\ q = p)
    BY <1>7, <2>2, <2>3, <2>4 DEF Answered, Message
  <2> QED BY <2>1, <2>4 DEF Answered
<1>9. IdsFresh' /\ GotOnce'
  BY <1>2 DEF ResultInv, IdsFresh, GotOnce
<1>10. AnswersOnce'
  <2>1. \A v \in Worker, q \in ReqId, i, j \in Nat :
          Answered(v, i, q)' /\ Answered(v, j, q)' => i = j /\ Took(v, q)' /\ ~Executing(v, q)'
    BY <1>2, <1>3, <1>5, <1>6, <1>8 DEF ResultInv, AnswersOnce
  <2>2. ASSUME NEW v \in Worker, NEW q \in ReqId, AtMonitor(v, q)'
        PROVE  Took(v, q)' /\ ~Executing(v, q)' /\ \A i \in Nat : ~Answered(v, i, q)'
    BY <1>2, <1>5, <1>6, <1>8, <2>2 DEF ResultInv, AnswersOnce
  <2> QED BY <2>1, <2>2 DEF AnswersOnce
<1>11. RecordedAnswered'
  <2>1. \A q : Ranks(req[q].replica) \subseteq Worker
    BY DEF Ranks
  <2>2. ASSUME NEW q \in ReqId, q < nextId, NEW v \in Ranks(req[q].replica) \ req[q].remaining
        PROVE  Took(v, q)' /\ ~Executing(v, q)' /\ \A i \in Nat : ~Answered(v, i, q)'
    <3>1. v \in Worker /\ Took(v, q) /\ ~Executing(v, q) /\ \A i \in Nat : ~Answered(v, i, q)
      BY <2>1, <2>2 DEF ResultInv, RecordedAnswered
    <3>2. ~(v = w /\ q = p)
      BY <1>6, <2>2
    <3>3. Took(v, q)' /\ ~Executing(v, q)'
      BY <1>2, <1>5, <3>1
    <3> QED BY <1>8, <3>1, <3>2, <3>3
  <2> QED BY <1>2, <2>2 DEF RecordedAnswered, Ranks
<1>12. ResultRecorded'
  BY <1>2 DEF ResultInv, ResultRecorded
<1> QED BY <1>9, <1>10, <1>11, <1>12 DEF ResultInv

(* Steps in which only processes die and nobody sends or receives. *)
LEMMA ResultIdle ==
  ASSUME Typed, ResultInv, UNCHANGED <<nextId, req, seen, send, toWorker>>,
         \A c \in Client : pc'[c] = pc[c] \/ (pc'[c] # pc[c] /\ ~Active(c) /\ ~Active(c)'),
         \A w \in Worker, i \in Nat, q \in ReqId : Answered(w, i, q)' => Answered(w, i, q),
         \A w \in Worker : wpc'[w] \in {"exec", "hung"} => wpc[w] \in {"exec", "hung"},
         \A w \in Worker, q \in ReqId : AtMonitor(w, q)' => AtMonitor(w, q),
         \A q \in ReqId : Succeeded(q)' => Succeeded(q)
  PROVE  ResultInv'
<1>1. \A c \in Client, w \in Worker, q \in ReqId : ToSend(c, w, q)' => ToSend(c, w, q)
  BY DEF ToSend, Todo, Active
<1>2. \A c \in Client : Active(c)' => Active(c) /\ send'[c].req = send[c].req
  BY DEF Active
<1>3. \A w, i, q : Queued(w, i, q)' <=> Queued(w, i, q)
  BY DEF Queued
<1> QED BY <1>1, <1>2, <1>3, QuietResult

(* The messages a dying process leaves were there before. *)
LEMMA CutOffAnswers ==
  ASSUME Typed, NEW w \in Worker, NEW i \in 1..Len(CutOff(w))
  PROVE  i \in 1..Len(toParent[w]) /\ CutOff(w)[i] = toParent[w][i]
<1>1. toParent[w] \in Seq(WorkerMessage)
  BY DEF Typed, ProcessType
<1>2. CASE CutOff(w) = toParent[w]
  BY <1>2
<1>3. CASE wpc[w] = "send" /\ ~Flushed(toParent[w])
  <2>1. PICK n \in Nat : n = Len(toParent[w])
    BY <1>1
  <2>2. n > 0
    BY <1>3, <2>1, BoundAssumption DEF Flushed
  <2>3. CutOff(w) = SubSeq(toParent[w], 1, n - 1)
    BY <1>3, <2>1 DEF CutOff, Front
  <2>4. Len(CutOff(w)) = n - 1 /\ \A j \in 1..(n - 1) : CutOff(w)[j] = toParent[w][j]
    BY <1>1, <2>1, <2>2, <2>3
  <2> QED BY <2>1, <2>2, <2>4
<1> QED BY <1>2, <1>3 DEF CutOff

(* Killed processes leave no new answers. *)
LEMMA KillAnswers ==
  ASSUME Typed, NEW S, Kill(S)
  PROVE  /\ \A w \in Worker, i \in Nat, q \in ReqId : Answered(w, i, q)' => Answered(w, i, q)
         /\ \A w \in Worker : wpc'[w] \in {"exec", "hung"} => wpc[w] \in {"exec", "hung"}
<1>1. \A w \in Worker : toParent'[w] \in {CutOff(w), toParent[w]}
  BY DEF Kill
<1>2. \A w \in Worker : wpc'[w] \in {"exec", "hung"} => wpc[w] \in {"exec", "hung"}
  BY DEF Kill
<1> QED BY <1>1, <1>2, CutOffAnswers DEF Answered

(* The other messages of a worker answer no request. *)
LEMMA ResultProcesses ==
  ASSUME Typed, ResultInv,
         \/ \E w \in Worker : WorkerSent(w) \/ WorkerStop(w)
         \/ Failing \/ (\E q \in ReqId : Expire(q)) \/ UNCHANGED vars
  PROVE  ResultInv'
<1>1. ASSUME ParentIdle, UNCHANGED <<seen, toWorker>>,
             \A w \in Worker, i \in Nat, q \in ReqId : Answered(w, i, q)' => Answered(w, i, q),
             \A w \in Worker : wpc'[w] \in {"exec", "hung"} => wpc[w] \in {"exec", "hung"}
      PROVE  ResultInv'
  <2>1. /\ UNCHANGED <<nextId, req, send, pc>>
        /\ \A w, q : AtMonitor(w, q)' <=> AtMonitor(w, q)
        /\ \A q : Succeeded(q)' <=> Succeeded(q)
    BY <1>1, IdleKeeps DEF ParentIdle
  <2> QED BY <1>1, <2>1, ResultIdle
<1>2. ASSUME NEW w \in Worker, WorkerSent(w) \/ WorkerHang(w)
      PROVE  ResultInv'
  <2>1. ParentIdle /\ UNCHANGED <<seen, toWorker, toParent>>
    BY <1>2 DEF WorkerSent, WorkerHang
  <2>2. \A v \in Worker : wpc'[v] \in {"exec", "hung"} => wpc[v] \in {"exec", "hung"}
    BY <1>2 DEF WorkerSent, WorkerHang, Typed, ProcessType
  <2>3. \A v, i, q : Answered(v, i, q)' <=> Answered(v, i, q)
    BY <2>1 DEF Answered
  <2> QED BY <1>1, <2>1, <2>2, <2>3
<1>3. ASSUME NEW w \in Worker, WorkerStop(w) \/ WorkerRaises(w)
      PROVE  ResultInv'
  <2>1. ParentIdle /\ UNCHANGED <<seen, toWorker>>
    BY <1>3 DEF WorkerStop, WorkerRaises
  <2>2. \A v \in Worker : wpc'[v] \in {"exec", "hung"} => wpc[v] \in {"exec", "hung"}
    BY <1>3 DEF WorkerStop, WorkerRaises, Typed, ProcessType
  <2>3. PICK m \in {Stopped, Error} : toParent' = [toParent EXCEPT ![w] = Append(@, m)]
    BY <1>3 DEF WorkerStop, WorkerRaises, Emit
  <2>4. PICK n \in Nat : n = Len(toParent[w])
    BY DEF Typed, ProcessType
  <2>5. /\ toParent'[w] = Append(toParent[w], m)
        /\ \A v \in Worker : v # w => toParent'[v] = toParent[v]
        /\ toParent[w] \in Seq(WorkerMessage) /\ m \in WorkerMessage
    BY <2>3 DEF Typed, ProcessType, WorkerMessage
  <2>6. /\ Len(toParent'[w]) = n + 1 /\ toParent'[w][n + 1] = m
        /\ \A j \in 1..n : toParent'[w][j] = toParent[w][j]
    BY <2>4, <2>5, AppendIs
  <2>7. m.req = None /\ None \notin ReqId
    BY ThreadAssumption DEF Stopped, Error, Message, ReqId
  <2>8. \A i \in 1..(n + 1) : i \in 1..n \/ i = n + 1
    BY <2>4
  <2>9. ASSUME NEW i \in Nat, NEW q \in ReqId, Answered(w, i, q)'
        PROVE  Answered(w, i, q)
    BY <2>4, <2>6, <2>7, <2>8, <2>9 DEF Answered
  <2>10. \A v \in Worker, i \in Nat, q \in ReqId : Answered(v, i, q)' => Answered(v, i, q)
    BY <2>5, <2>9 DEF Answered
  <2> QED BY <1>1, <2>1, <2>2, <2>10
<1>4. ASSUME NEW S, WorkersCrash(S) PROVE ResultInv'
  <2>1. ParentIdle /\ UNCHANGED <<seen, toWorker>> /\ Kill(S)
    BY <1>4 DEF WorkersCrash, Kill
  <2> QED BY <1>1, <2>1, KillAnswers
<1>5. ASSUME UNCHANGED vars \/ \E q \in ReqId : Expire(q) PROVE ResultInv'
  <2>1. ParentIdle /\ UNCHANGED <<seen, toWorker, toParent, wpc>>
    BY <1>5 DEF vars, ParentIdle, Expire
  <2>2. \A v, i, q : Answered(v, i, q)' <=> Answered(v, i, q)
    BY <2>1 DEF Answered
  <2> QED BY <1>1, <2>1, <2>2
<1> QED BY <1>2, <1>3, <1>4, <1>5 DEF Failing

(* The monitor takes an answer out of the pipe, the only one there is. *)
LEMMA ResultRecv ==
  ASSUME Typed, ResultInv, NEW w \in Worker, MonitorRecv(w)
  PROVE  ResultInv'
<1>0. /\ UNCHANGED <<nextId, req, seen, send, toWorker, wpc, future>>
      /\ pc[Monitor] = "drain" /\ toParent[w] # <<>>
      /\ toParent' = [toParent EXCEPT ![w] = Tail(@)]
  BY DEF MonitorRecv
<1>1. /\ \A t \in Thread : t # Monitor => pc'[t] = pc[t]
      /\ pc'[Monitor] \in {"record", "fail", "drain"}
      /\ pc'[Monitor] = "record" => mon'.worker = w /\ mon'.req = Head(toParent[w]).req
  <2>1. Monitor \in Thread
    BY DEF Thread
  <2> QED BY <2>1 DEF MonitorRecv, Goto, Typed, PcType, ThreadType
<1>2. \A c \in Client : c \in Thread /\ c # Monitor
  BY ThreadAssumption DEF Thread
<1>3. PICK n \in Nat : n = Len(toParent[w])
  BY DEF Typed, ProcessType
<1>4. /\ n > 0 /\ Head(toParent[w]) = toParent[w][1] /\ Len(toParent'[w]) = n - 1
      /\ \A j \in 1..(n - 1) : toParent'[w][j] = toParent[w][j + 1]
      /\ \A v \in Worker : v # w => toParent'[v] = toParent[v]
  <2>1. /\ toParent'[w] = Tail(toParent[w]) /\ toParent[w] \in Seq(WorkerMessage)
        /\ \A v \in Worker : v # w => toParent'[v] = toParent[v]
    BY <1>0 DEF Typed, ProcessType
  <2>2. /\ n > 0 /\ Head(toParent[w]) = toParent[w][1] /\ Len(Tail(toParent[w])) = n - 1
        /\ \A j \in 1..(n - 1) : Tail(toParent[w])[j] = toParent[w][j + 1]
    BY <1>0, <1>3, <2>1, TailIs, Zenon
  <2> QED BY <2>1, <2>2, Zenon
<1>5. ASSUME NEW v \in Worker, NEW i \in Nat, NEW q \in ReqId, Answered(v, i, q)'
      PROVE  IF v = w THEN Answered(v, i + 1, q) /\ i + 1 # 1 /\ i + 1 \in Nat
             ELSE Answered(v, i, q)
  <2>1. CASE v # w
    BY <1>4, <1>5, <2>1 DEF Answered
  <2>2. CASE v = w
    <3>1. i \in 1..(n - 1) /\ toParent'[w][i].req = q
      BY <1>4, <1>5, <2>2 DEF Answered
    <3>2. i + 1 \in 1..n /\ i + 1 # 1 /\ i + 1 \in Nat
      BY <1>3, <3>1
    <3> QED BY <1>3, <1>4, <2>2, <3>1, <3>2 DEF Answered
  <2> QED BY <2>1, <2>2
<1>6. /\ \A v, q : (Took(v, q)' <=> Took(v, q)) /\ (Executing(v, q)' <=> Executing(v, q))
      /\ \A v, i, q : Queued(v, i, q)' <=> Queued(v, i, q)
      /\ \A c \in Client : (Active(c)' <=> Active(c)) /\ Todo(c)' = Todo(c)
      /\ \A q : Succeeded(q)' => Succeeded(q)
  BY <1>0, <1>1, <1>2 DEF Took, Executing, Executes, Queued, Active, Todo, Succeeded
<1>7. IdsFresh' /\ GotOnce'
  BY <1>0, <1>6 DEF ResultInv, IdsFresh, GotOnce, ToSend
<1>8. AnswersOnce'
  <2>1. \A v \in Worker, q \in ReqId, i, j \in Nat :
          Answered(v, i, q)' /\ Answered(v, j, q)' => i = j /\ Took(v, q)' /\ ~Executing(v, q)'
    BY <1>5, <1>6 DEF ResultInv, AnswersOnce
  <2>2. ASSUME NEW v \in Worker, NEW q \in ReqId, AtMonitor(v, q)'
        PROVE  Took(v, q)' /\ ~Executing(v, q)' /\ \A i \in Nat : ~Answered(v, i, q)'
    <3>1. v = w /\ Answered(w, 1, q)
      BY <1>1, <1>3, <1>4, <2>2 DEF AtMonitor, Answered
    <3>2. Took(v, q) /\ ~Executing(v, q) /\ \A i \in Nat : Answered(v, i, q) => i = 1
      BY <3>1 DEF ResultInv, AnswersOnce
    <3> QED BY <1>5, <1>6, <3>1, <3>2
  <2> QED BY <2>1, <2>2 DEF AnswersOnce
<1>9. RecordedAnswered'
  <2>1. ASSUME NEW q \in ReqId, q < nextId, NEW v \in Ranks(req[q].replica) \ req[q].remaining
        PROVE  Took(v, q)' /\ ~Executing(v, q)' /\ \A i \in Nat : ~Answered(v, i, q)'
    <3>1. v \in Worker /\ Took(v, q) /\ ~Executing(v, q) /\ \A i \in Nat : ~Answered(v, i, q)
      BY <2>1 DEF ResultInv, RecordedAnswered, Ranks
    <3> QED BY <1>5, <1>6, <3>1
  <2> QED BY <1>0, <2>1 DEF RecordedAnswered, Ranks
<1>10. ResultRecorded'
  BY <1>0, <1>6 DEF ResultInv, ResultRecorded
<1> QED BY <1>7, <1>8, <1>9, <1>10 DEF ResultInv

(* ... notes it, ... *)
LEMMA ResultRecord ==
  ASSUME Typed, ResultInv, RecordResult
  PROVE  ResultInv'
<1>0. PICK w, p : w = mon.worker /\ p = mon.req
  OBVIOUS
<1>1. /\ UNCHANGED <<nextId, seen, send, toWorker, toParent, wpc, future>>
      /\ pc[Monitor] = "record" /\ w \in Worker /\ p \in ReqId
      /\ req' = [req EXCEPT ![p].remaining = req[p].remaining \ {w},
                            ![p].output = req[p].output \/ w = OutputOf[req[p].replica]]
  BY <1>0 DEF RecordResult, Left, Typed, LocalInv
<1>2. /\ \A t \in Thread : t # Monitor => pc'[t] = pc[t]
      /\ pc'[Monitor] \in {"complete", "fail", "drain"}
      /\ pc'[Monitor] = "complete" => mon'.req = p /\ req[p].remaining \ {w} = {}
  <2>1. Monitor \in Thread
    BY DEF Thread
  <2> QED BY <1>0, <2>1 DEF RecordResult, Left, Goto, Typed, PcType
<1>3. \A c \in Client : c \in Thread /\ c # Monitor
  BY ThreadAssumption DEF Thread
<1>4. /\ \A q \in ReqId : q # p => req'[q] = req[q]
      /\ req'[p].replica = req[p].replica /\ req'[p].remaining = req[p].remaining \ {w}
  BY <1>1 DEF Typed, TableType
<1>5. Took(w, p) /\ ~Executing(w, p) /\ \A i \in Nat : ~Answered(w, i, p)
  BY <1>0, <1>1 DEF AtMonitor, ResultInv, AnswersOnce
<1>6. p < nextId
  BY <1>1, <1>5 DEF ResultInv, IdsFresh
<1>7. /\ \A v, q : (Took(v, q)' <=> Took(v, q)) /\ (Executing(v, q)' <=> Executing(v, q))
      /\ \A v, i, q : (Queued(v, i, q)' <=> Queued(v, i, q)) /\ (Answered(v, i, q)' <=> Answered(v, i, q))
      /\ \A c \in Client : (Active(c)' <=> Active(c)) /\ Todo(c)' = Todo(c)
      /\ \A v, q : ~AtMonitor(v, q)'
  BY <1>1, <1>2, <1>3 DEF Took, Executing, Executes, Queued, Answered, Active, Todo, AtMonitor
<1>8. IdsFresh' /\ GotOnce'
  BY <1>1, <1>7 DEF ResultInv, IdsFresh, GotOnce, ToSend
<1>9. AnswersOnce'
  BY <1>7 DEF ResultInv, AnswersOnce
<1>10. RecordedAnswered'
  <2>1. ASSUME NEW q \in ReqId, q < nextId, NEW v \in Ranks(req'[q].replica) \ req'[q].remaining
        PROVE  Took(v, q)' /\ ~Executing(v, q)' /\ \A i \in Nat : ~Answered(v, i, q)'
    <3>1. Took(v, q) /\ ~Executing(v, q) /\ \A i \in Nat : ~Answered(v, i, q)
      BY <1>4, <1>5, <2>1 DEF ResultInv, RecordedAnswered
    <3> QED BY <1>7, <3>1
  <2> QED BY <1>1, <2>1 DEF RecordedAnswered, Ranks
<1>11. ResultRecorded'
  <2>1. \A q \in ReqId : Succeeded(q)' => Succeeded(q) \/ (q = p /\ req[p].remaining \ {w} = {})
    BY <1>1, <1>2 DEF Succeeded
  <2> QED BY <1>1, <1>4, <1>6, <2>1 DEF ResultInv, ResultRecorded
<1> QED BY <1>8, <1>9, <1>10, <1>11 DEF ResultInv

(* ... and sets the result; its other steps take nothing. *)
LEMMA ResultMonitoring ==
  ASSUME Typed, ResultInv, Monitoring
  PROVE  ResultInv'
<1>1. CASE \E w \in Worker : MonitorRecv(w)
  BY <1>1, ResultRecv
<1>2. CASE RecordResult
  BY <1>2, ResultRecord
<1>3. CASE \/ MonitorExit \/ MonitorWait \/ MonitorSweep \/ RecordReject \/ Complete
           \/ \E w \in Worker : MonitorEof(w)
  <2>1. UNCHANGED <<nextId, req, seen, send, toWorker, toParent, wpc>>
    BY <1>3 DEF MonitorExit, MonitorWait, MonitorSweep, RecordReject, Complete, MonitorEof
  <2>2. \E label \in {"top", "drain", "fail", "exit"} : Goto(Monitor, label) \/
          (UNCHANGED pc /\ pc[Monitor] = "drain")
    BY <1>3 DEF MonitorExit, MonitorWait, MonitorSweep, RecordReject, Complete, MonitorEof
  <2>3. /\ Monitor \in Thread
        /\ \A c \in Client : c \in Thread /\ c # Monitor
    BY ThreadAssumption DEF Thread
  <2>4. pc'[Monitor] \in {"top", "drain", "fail", "exit"} /\ \A c \in Client : pc'[c] = pc[c]
    BY <2>2, <2>3 DEF Goto, Typed, PcType
  <2>5. /\ \A w, i, q : Answered(w, i, q)' <=> Answered(w, i, q)
        /\ \A w, q : ~AtMonitor(w, q)'
    BY <2>1, <2>4 DEF Answered, AtMonitor
  <2>6. \A q \in ReqId : future'[q] = "result" => Succeeded(q)
    BY <1>3 DEF MonitorExit, MonitorWait, MonitorSweep, RecordReject, Complete, MonitorEof,
                Succeeded, Typed, TableType
  <2>7. \A q \in ReqId : Succeeded(q)' => Succeeded(q)
    BY <2>4, <2>6 DEF Succeeded
  <2> QED BY <2>1, <2>4, <2>5, <2>7, ResultIdle
<1> QED BY <1>1, <1>2, <1>3 DEF Monitoring

(* _mark_failed, close() and the shutdown. *)
LEMMA ResultShutting ==
  ASSUME Typed, ResultInv, NEW t \in Thread, Shutting(t) \/ (t \in Closer /\ CloseBegin(t))
  PROVE  ResultInv'
<1>0. \A q \in ReqId : future'[q] = "result" => future[q] = "result"
  BY DEF Shutting, MarkFailed, Resolve, ShutdownWait, ShutdownSend, Reap, CloseFinal, CloseBegin,
         FailHeld
<1>1. /\ UNCHANGED <<nextId, req, seen, send, mon>>
      /\ pc[t] \in {"fail", "resolve", "shutWait", "shutSend", "shutJoin", "reap", "closeFinal", "idle"}
  BY DEF Shutting, MarkFailed, Resolve, ShutdownWait, ShutdownSend, Reap, CloseFinal, CloseBegin,
         TakePending, Kill
<1>2. ReturnPc(t) \in {"idle", "top", "closeFinal"}
  BY DEF ReturnPc
<1>3. \E label \in {"idle", "top", "closeFinal", "resolve", "done", "shutWait", "reap", "shutSend",
                    "shutJoin"} : Goto(t, label)
  BY <1>2 DEF Shutting, MarkFailed, Resolve, ShutdownWait, ShutdownSend, Reap, CloseFinal, CloseBegin
<1>4. /\ \A u \in Thread : u # t => pc'[u] = pc[u]
      /\ pc'[t] \in {"idle", "top", "closeFinal", "resolve", "done", "shutWait", "reap", "shutSend",
                     "shutJoin"}
  BY <1>3 DEF Goto, Typed, PcType
<1>5. /\ \A c \in Client : c \in Thread
      /\ Monitor \in Thread
  BY DEF Thread
<1>6. \A c \in Client : pc'[c] = pc[c] \/ (~Active(c) /\ ~Active(c)')
  BY <1>1, <1>4, <1>5 DEF Active
<1>7. /\ \A w, q : AtMonitor(w, q)' => AtMonitor(w, q)
      /\ \A q \in ReqId : Succeeded(q)' => Succeeded(q)
  BY <1>0, <1>1, <1>4, <1>5 DEF AtMonitor, Succeeded
<1>8. CASE UNCHANGED <<toWorker, toParent, wpc>>
  <2>1. \A w, i, q : Answered(w, i, q)' <=> Answered(w, i, q)
    BY <1>8 DEF Answered
  <2> QED BY <1>1, <1>6, <1>7, <1>8, <2>1, ResultIdle
<1>9. CASE Kill(Worker)
  <2>1. UNCHANGED toWorker
    BY <1>9 DEF Kill
  <2> QED BY <1>1, <1>6, <1>7, <1>9, <2>1, KillAnswers, ResultIdle
<1>10. CASE ShutdownSend(t)
  <2>1. UNCHANGED <<toParent, wpc>>
    BY <1>10 DEF ShutdownSend
  <2>2. ASSUME NEW w \in Worker, NEW i \in Nat, NEW q \in ReqId, Queued(w, i, q)'
        PROVE  Queued(w, i, q)
    <3>1. PICK n \in Nat : n = Len(toWorker[w])
      BY PipeTypes
    <3>2. CASE toWorker'[w] = toWorker[w]
      BY <2>2, <3>2 DEF Queued
    <3>3. CASE toWorker'[w] = Append(toWorker[w], Shutdown)
      <4>1. toWorker[w] \in Seq(ParentMessage) /\ Shutdown \in ParentMessage
        BY PipeTypes DEF ParentMessage
      <4>2. /\ Len(Append(toWorker[w], Shutdown)) = n + 1
            /\ Append(toWorker[w], Shutdown)[n + 1] = Shutdown
            /\ \A j \in 1..n : Append(toWorker[w], Shutdown)[j] = toWorker[w][j]
        BY <3>1, <4>1, AppendIs
      <4>3. i \in 1..(n + 1) => i \in 1..n \/ i = n + 1
        BY <3>1
      <4>4. Shutdown # Message("execute", q)
        BY DEF Shutdown, Message
      <4> QED BY <2>2, <3>1, <3>3, <4>2, <4>3, <4>4 DEF Queued
    <3> QED BY <1>10, <3>2, <3>3 DEF ShutdownSend
  <2>3. /\ \A w, i, q : Answered(w, i, q)' <=> Answered(w, i, q)
        /\ \A c \in Client : Active(c)' => Active(c) /\ send'[c].req = send[c].req
        /\ \A c \in Client, w \in Worker, q \in ReqId : ToSend(c, w, q)' => ToSend(c, w, q)
    BY <1>1, <1>6, <2>1 DEF Answered, Active, ToSend, Todo
  <2> QED BY <1>1, <1>7, <2>1, <2>2, <2>3, QuietResult
<1> QED BY <1>8, <1>9, <1>10
        DEF Shutting, MarkFailed, Resolve, ShutdownWait, Reap, CloseFinal, CloseBegin

(* Every step keeps ResultInv. *)
LEMMA ResultStep == Typed /\ Typed' /\ OrderInv /\ ResultInv /\ [Next]_vars => ResultInv'
<1> SUFFICES ASSUME Typed, Typed', OrderInv, ResultInv, [Next]_vars PROVE ResultInv'
  OBVIOUS
<1>1. ASSUME NEW c \in Client,
             Sending(c) \/ SendUnpicklable(c) \/ \E r \in Replica : Submit(c, r)
      PROVE  ResultInv'
  BY <1>1, ResultSubmit, ResultPut, ResultSending DEF Sending
<1>2. ASSUME NEW t \in Thread, Shutting(t) PROVE ResultInv'
  BY <1>2, ResultShutting
<1>3. ASSUME NEW t \in Closer, CloseBegin(t) PROVE ResultInv'
  BY <1>3, ResultShutting DEF Thread
<1>4. ASSUME NEW w \in Worker, Working(w) PROVE ResultInv'
  BY <1>4, ResultTake, ResultAnswer, ResultProcesses DEF Working
<1>5. ASSUME Failing \/ (\E q \in ReqId : Expire(q)) \/ UNCHANGED vars PROVE ResultInv'
  BY <1>5, ResultProcesses
<1>6. ASSUME Monitoring PROVE ResultInv'
  BY <1>6, ResultMonitoring
<1> QED BY <1>1, <1>2, <1>3, <1>4, <1>5, <1>6 DEF Next, Terminated

(* start() leaves no request anywhere. *)
LEMMA ResultInit == Init => ResultInv
<1> SUFFICES ASSUME Init PROVE ResultInv
  OBVIOUS
<1>1. /\ \A t \in Thread : pc[t] \in {"top", "idle"}
      /\ \A w \in Worker : toWorker[w] = <<>> /\ toParent[w] = <<>> /\ seen[w] = <<>>
      /\ nextId = 1 /\ \A q \in ReqId : future[q] = "none"
  BY DEF Init
<1>2. /\ \A c \in Client : ~Active(c)
      /\ \A w, q : ~AtMonitor(w, q)
      /\ \A q \in ReqId : ~Succeeded(q) /\ ~(q < 1)
  BY <1>1 DEF Active, Thread, AtMonitor, Succeeded, ReqId
<1>3. \A w \in Worker : \A q : /\ ~Took(w, q)
                               /\ \A i \in Nat : ~Queued(w, i, q) /\ ~Answered(w, i, q)
  <2>1. \A w \in Worker : /\ Len(toWorker[w]) = 0 /\ Len(toParent[w]) = 0
                          /\ DOMAIN seen[w] = {}
    BY <1>1
  <2> QED BY <2>1 DEF Took, Queued, Answered
<1>4. IdsFresh /\ GotOnce
  BY <1>2, <1>3 DEF IdsFresh, GotOnce, ToSend
<1>5. AnswersOnce
  BY <1>2, <1>3 DEF AnswersOnce
<1>6. RecordedAnswered /\ ResultRecorded
  BY <1>1, <1>2 DEF RecordedAnswered, ResultRecorded
<1> QED BY <1>4, <1>5, <1>6 DEF ResultInv

(* A caller that sees a result has the answer of every rank: each took the *)
(* request once and finished it, and nothing of it is left in a process or *)
(* in a pipe.                                                              *)
THEOREM ResultsAreComplete == Spec => []ResultFromAllRanks
<1>1. Init => Typed /\ OrderInv /\ ResultInv
  BY InitType, OrderInit, ResultInit
<1>2. Typed /\ OrderInv /\ ResultInv /\ [Next]_vars => (Typed /\ OrderInv /\ ResultInv)'
  BY TypedStep, OrderStep, ResultStep
<1>3. Typed /\ ResultInv => ResultFromAllRanks
  BY ResultSuffices
<1> QED BY <1>1, <1>2, <1>3, PTL DEF Spec
=============================================================================
