SPECIFICATION FairSpec
CONSTANTS
  Worker = {1, 2}
  Replica = {1}
  ReplicaOf <- TwoRanks
  OutputOf <- TwoRanksOut
  Client = {c1}
  Closer = {x1}
  Monitor = monitor
  None = none
  MaxRequest = 1
  MaxFaults = 1
  PipeSlots = 0
  ExecutionTimeout = TRUE
INVARIANTS
  TypeOK
PROPERTIES
  RequestsResolve
  CloseTerminates
  FailureReapsWorkers
