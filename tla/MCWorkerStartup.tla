--------------------------- MODULE MCWorkerStartup ---------------------------
(* Every deployment and every split of weights within the bounds is        *)
(* planned, and one deployment is started: two replicas of two ranks on    *)
(* nodes of three and of two devices, where the first node starts three of *)
(* the workers.                                                            *)
EXTENDS WorkerStartup, DeploymentPlan, WeightShards, TLC

SmallPlacement ==
  [world |-> 2, count |-> 2, output |-> 0,
   nodes |-> [n \in {0, 1} |-> [devices |-> 3 - n, address |-> TRUE]]]
ASSUME FirstNode == WorkerCount = Cardinality(WorkersForNode(Build(SmallPlacement), 0))
Deployed   == parallel = DefaultParallel /\ placement = SmallPlacement /\ layer = SmallLayer

MCInit ==
  /\ Init
  /\ \/ PlanInit(SmallPlacement) /\ layer = SmallLayer
     \/ parallel = DefaultParallel /\ placement = SmallPlacement /\ layer \in Layer

MCNext ==
  /\ UNCHANGED <<planVars, layer>>
  /\ \/ Deployed /\ Next
     \/ ~Deployed /\ UNCHANGED vars

MCSpec ==
  /\ MCInit /\ [][MCNext]_<<vars, planVars, layer>>
  /\ WF_vars(Deployed /\ Starting) /\ WF_vars(Deployed /\ Expire)
=============================================================================
