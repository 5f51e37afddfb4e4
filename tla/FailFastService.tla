--------------------------- MODULE FailFastService ---------------------------
(***************************************************************************)
(* What a group of managed workers promises its callers                    *)
(* (EngineUnavailableError in phyai/server/lifecycle.py, "Failure handling *)
(* is fail-fast" in docs/deployment/parallel-serving.mdx): a request is    *)
(* accepted only while the group serves, gets one outcome, and the moment  *)
(* the group stops serving every waiting request fails and no later one    *)
(* succeeds.                                                               *)
(***************************************************************************)
CONSTANT Request
VARIABLES open, status
vars == <<open, status>>

TypeOK == /\ open \in BOOLEAN
          /\ status \in [Request -> {"none", "waiting", "ok", "unavailable"}]

Init == open = TRUE /\ status = [q \in Request |-> "none"]

Accept(q) == /\ open /\ status[q] = "none"
             /\ status' = [status EXCEPT ![q] = "waiting"]
             /\ UNCHANGED open

Answer(q) == /\ open /\ status[q] = "waiting"
             /\ status' = [status EXCEPT ![q] = "ok"]
             /\ UNCHANGED open

ShutDown == /\ open /\ open' = FALSE
            /\ status' = [q \in Request |-> IF status[q] = "waiting"
                                            THEN "unavailable" ELSE status[q]]

Next == ShutDown \/ \E q \in Request : Accept(q) \/ Answer(q)

Spec == Init /\ [][Next]_vars
=============================================================================
