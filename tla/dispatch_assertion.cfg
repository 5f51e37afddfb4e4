SPECIFICATION Spec
CONSTANTS
  ReplicaCount = 1
  Client = {c1, c2}
  Starter = {u1}
  Closer = {x1}
  None = none
  MaxRequest = 2
  MaxCompletions = 1
  MaxFaults = 0
INVARIANTS
  NoAssertion
