----------------------------- MODULE EngineCore -----------------------------
(***************************************************************************)
(* The model runtime of a rank (phyai/engine.py, EngineCore) with the part *)
(* of the PI0.5 plugin that replaces weights while the engine lives        *)
(* (models/pi05/main_pi05.py).  _weight_update_lock is held inside single  *)
(* calls: UpdateLockFree tells from the program points of threads whether  *)
(* it is.  _model_lock is taken by one call and released by another, so it *)
(* is a variable; it is a threading.Lock and knows no owner.               *)
(***************************************************************************)
EXTENDS Integers, FiniteSets

CONSTANTS
  Trainer,      \* threads that update weights and run rollouts
  CoreThread,   \* all threads that call the core
  GivenVersion  \* versions that callers of finish_weight_update() choose

VARIABLES
  modelLock,  \* _model_lock is held
  update,     \* _weight_update_state
  version,    \* _version
  coreShut,   \* EngineCore._closed
  entryOpen,  \* entry is not None
  session,    \* the plugin's weight_update, "loaded" once a tensor matched
  weights,    \* the version in memory, or Partial, Torn or Mixed
  cpc         \* where each thread is in the core

coreVars == <<modelLock, update, version, coreShut, entryOpen, session, weights, cpc>>

(* Weights that are not those of a version: some tensors of an open update *)
(* are written (Partial), a batch of it raised half-way (Torn), or such an *)
(* update was finished all the same (Mixed).                               *)
Partial == -1
Torn    == -2
Mixed   == -3

Open    == {"clean", "dirty"}
Holding == {"beginModel", "beginEntry", "load", "finishing", "closeModel"}
Calls   == {"step", "begin", "update", "finish", "abort", "close"}

CoreGoto(t, label) == cpc' = [cpc EXCEPT ![t] = label]
Over(t)            == CoreGoto(t, IF t \in Trainer THEN "out" ELSE "over")
UpdateLockFree     == \A t \in CoreThread : cpc[t] \notin Holding

CoreInit ==
  /\ modelLock = FALSE /\ update = "idle" /\ version = 0
  /\ coreShut = FALSE /\ entryOpen = TRUE /\ session = "none" /\ weights = version
  /\ cpc = [t \in CoreThread |-> "out"]

CoreCall(t, call) ==
  /\ cpc[t] = "out" /\ CoreGoto(t, call)
  /\ UNCHANGED <<modelLock, update, version, coreShut, entryOpen, session, weights>>

-----------------------------------------------------------------------------
(* step() and rollout_step().                                              *)

Usable == update # "poisoned" /\ ~coreShut

CoreEnter(t) ==
  /\ cpc[t] = "step" /\ ~modelLock
  /\ IF Usable THEN modelLock' = TRUE /\ CoreGoto(t, "in")
               ELSE Over(t) /\ UNCHANGED modelLock
  /\ UNCHANGED <<update, version, coreShut, entryOpen, session, weights>>

CoreLeave(t) ==
  /\ cpc[t] = "in"
  /\ modelLock' = FALSE /\ Over(t)
  /\ UNCHANGED <<update, version, coreShut, entryOpen, session, weights>>

-----------------------------------------------------------------------------
(* begin_weight_update(): the model lock is kept when it succeeds.         *)

BeginLock(t) ==
  /\ cpc[t] = "begin" /\ UpdateLockFree
  /\ IF coreShut \/ update # "idle" THEN Over(t) ELSE CoreGoto(t, "beginModel")
  /\ UNCHANGED <<modelLock, update, version, coreShut, entryOpen, session, weights>>

BeginModel(t) ==
  /\ cpc[t] = "beginModel" /\ ~modelLock
  /\ modelLock' = TRUE /\ CoreGoto(t, "beginEntry")
  /\ UNCHANGED <<update, version, coreShut, entryOpen, session, weights>>

BeginEntry(t) ==
  /\ cpc[t] = "beginEntry"
  /\ \/ session = "none" /\ session' = "empty" /\ update' = "clean" /\ UNCHANGED modelLock
     \/ modelLock' = FALSE /\ UNCHANGED <<session, update>>
  /\ Over(t)
  /\ UNCHANGED <<version, coreShut, entryOpen, weights>>

(* update_weights(): dirty before the plugin sees the batch. *)
UpdateLock(t) ==
  /\ cpc[t] = "update" /\ UpdateLockFree
  /\ IF update \in Open THEN update' = "dirty" /\ CoreGoto(t, "load")
                        ELSE Over(t) /\ UNCHANGED update
  /\ UNCHANGED <<modelLock, version, coreShut, entryOpen, session, weights>>

(* A batch matches nothing, is written, or raises at a tensor when others  *)
(* have been written; what it wrote over a mixture leaves one.             *)
Load(t) ==
  /\ cpc[t] = "load"
  /\ \/ UNCHANGED <<weights, session>>
     \/ /\ weights' = IF weights \in {Torn, Mixed} THEN Torn ELSE Partial
        /\ session' = "loaded"
     \/ weights' = Torn /\ session' \in {session, "loaded"}
  /\ Over(t)
  /\ UNCHANGED <<modelLock, update, version, coreShut, entryOpen>>

FinishLock(t) ==
  /\ cpc[t] = "finish" /\ UpdateLockFree
  /\ IF update \in Open THEN CoreGoto(t, "finishing") ELSE Over(t)
  /\ UNCHANGED <<modelLock, update, version, coreShut, entryOpen, session, weights>>

AfterFailure_Idle == "idle"

(* The state when an update is given up: written weights stay written. *)
AfterFailure == IF update = "dirty" THEN "poisoned" ELSE "idle"

(* finish_weight_update(): the plugin refuses an update that matched       *)
(* nothing, and may fail otherwise; the lock is released in any case.      *)
(* Nobody remembers that a batch raised: the update is then committed as a *)
(* version like any other.                                                 *)
Finish(t) ==
  /\ cpc[t] = "finishing"
  /\ \/ /\ session = "loaded" /\ update' = "idle"
        /\ version' \in {version + 1} \cup GivenVersion
        /\ weights' = IF weights = Torn THEN Mixed ELSE version'
     \/ update' = AfterFailure /\ UNCHANGED <<version, weights>>
  /\ session' = "none" /\ modelLock' = FALSE /\ Over(t)
  /\ UNCHANGED <<coreShut, entryOpen>>

AbortLocked_KeepsLock ==
  IF update \in Open THEN update' = AfterFailure /\ session' = "none" /\ UNCHANGED modelLock
                     ELSE UNCHANGED <<update, session, modelLock>>

(* _abort_weight_update_locked(). *)
AbortLocked ==
  IF update \in Open THEN update' = AfterFailure /\ session' = "none" /\ modelLock' = FALSE
                     ELSE UNCHANGED <<update, session, modelLock>>

Abort(t) ==
  /\ cpc[t] = "abort" /\ UpdateLockFree
  /\ AbortLocked /\ Over(t)
  /\ UNCHANGED <<version, coreShut, entryOpen, weights>>

-----------------------------------------------------------------------------
(* close(): an open update is aborted, then the model lock waits for a     *)
(* step, and the plugin is closed under it.                                *)

CoreClose(t) ==
  /\ cpc[t] = "close" /\ UpdateLockFree
  /\ IF coreShut
     THEN Over(t) /\ UNCHANGED <<modelLock, update, coreShut, session>>
     ELSE coreShut' = TRUE /\ AbortLocked /\ CoreGoto(t, "closeModel")
  /\ UNCHANGED <<version, entryOpen, weights>>

CloseModel(t) ==
  /\ cpc[t] = "closeModel" /\ ~modelLock
  /\ modelLock' = TRUE /\ CoreGoto(t, "closeEntry")
  /\ UNCHANGED <<update, version, coreShut, entryOpen, session, weights>>

CloseEntry(t) ==
  /\ cpc[t] = "closeEntry"
  /\ entryOpen' = FALSE /\ session' = "none" /\ modelLock' = FALSE /\ Over(t)
  /\ UNCHANGED <<update, version, coreShut, weights>>

CoreStep(t) ==
  \/ CoreEnter(t) \/ CoreLeave(t)
  \/ BeginLock(t) \/ BeginModel(t) \/ BeginEntry(t)
  \/ UpdateLock(t) \/ Load(t) \/ FinishLock(t) \/ Finish(t) \/ Abort(t)
  \/ CoreClose(t) \/ CloseModel(t) \/ CloseEntry(t)

-----------------------------------------------------------------------------
(* Every variable of the core has its type, and a session of the plugin is *)
(* open exactly while the engine believes one is.                          *)
CoreTypeOK ==
  /\ {modelLock, coreShut, entryOpen} \subseteq BOOLEAN /\ version \in Nat
  /\ update \in Open \cup {"idle", "poisoned"}
  /\ session \in {"none", "empty", "loaded"} /\ weights \in Nat \cup {Partial, Torn, Mixed}
  /\ cpc \in [CoreThread -> Calls \cup Holding \cup {"out", "over", "in", "closeEntry"}]
  /\ session # "none" <=> update \in Open

(* The model lock, which begin takes and finish, abort or close releases   *)
(* in another call, is held for exactly one reason at a time: a step, an   *)
(* update, or the end of the plugin.                                       *)
ModelLockOwned ==
  LET users == {t \in CoreThread : cpc[t] \in {"in", "beginEntry", "closeEntry"}}
  IN /\ modelLock <=> users # {} \/ update \in Open
     /\ Cardinality(users) + (IF update \in Open THEN 1 ELSE 0) <= 1

(* "Engine is unavailable after a partially applied weight update": a step *)
(* runs only on the weights of the version the engine reports, never on    *)
(* some tensors of another one, whoever gave an update up: a failed        *)
(* finish, an abort, or close().  The one exception is a trainer that      *)
(* finishes an update although one of its batches raised: its version is a *)
(* mixture, and so is what later updates make of it.                       *)
WholeWeights == \A t \in CoreThread : cpc[t] = "in" => weights \in {version, Mixed}

(* No call reaches the plugin after close() has released it, though only   *)
(* step, rollout_step and begin look at _closed.                           *)
EntryOpen ==
  \A t \in CoreThread : cpc[t] \in {"in", "beginEntry", "load", "finishing"} => entryOpen

(* Model lock, state of the update and session of the plugin agree,      *)
(* whichever call began and whichever ended the update.                  *)
LockCorrect == CoreTypeOK /\ ModelLockOwned

(* What enters the plugin finds it open and, if it is a step, on the     *)
(* weights of a version that was finished, whole unless its trainer      *)
(* finished it after a batch had raised.                                 *)
PluginReady == WholeWeights /\ EntryOpen

=============================================================================
