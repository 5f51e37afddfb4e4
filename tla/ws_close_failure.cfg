SPECIFICATION Spec
CONSTANTS
  Worker = {1}
  Replica = {1}
  ReplicaOf <- OneRank
  OutputOf <- OneRankOut
  Client = {c1}
  Closer = {x1}
  Monitor = monitor
  None = none
  MaxRequest = 1
  MaxFaults = 0
  PipeSlots = 2
  ExecutionTimeout = FALSE
INVARIANTS
  NoSpuriousFailure
