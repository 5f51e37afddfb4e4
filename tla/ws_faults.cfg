SPECIFICATION Spec
CONSTANTS
  Worker = {1, 2}
  Replica = {1}
  ReplicaOf <- TwoRanks
  OutputOf <- TwoRanksOut
  Client = {c1, c2}
  Closer = {x1}
  Monitor = monitor
  None = none
  MaxRequest = 2
  MaxFaults = 1
  PipeSlots = 1
  ExecutionTimeout = TRUE
INVARIANTS
  NoLostFuture
  ResultFromAllRanks
  ClosedMeansDead
  RanksAgree
  InflightAccounting
PROPERTIES
  ResolvedOnce
  ImplementsService
SYMMETRY ThreadSymmetry
