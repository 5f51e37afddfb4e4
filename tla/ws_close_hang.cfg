SPECIFICATION FairSpec
CONSTANTS
  Worker = {1}
  Replica = {1}
  ReplicaOf <- OneRank
  OutputOf <- OneRankOut
  Client = {c1}
  Closer = {x1}
  Monitor = monitor
  None = none
  MaxRequest = 2
  MaxFaults = 0
  PipeSlots = 0
  ExecutionTimeout = FALSE
PROPERTIES
  CloseTerminates
CHECK_DEADLOCK FALSE
