SPECIFICATION Spec
CONSTANTS
  ReplicaCount = 3
  Client = {c1, c2}
  Starter = {u1, u2}
  Closer = {x1, x2}
  None = none
  MaxRequest = 4
  MaxCompletions = 3
  MaxFaults = 1
INVARIANTS
  LifecycleCorrect
  TiesRotate
  Balanced
SYMMETRY ThreadSymmetry
