SPECIFICATION Spec
CONSTANTS
  Page = {a, b}
  MaxLen = 2
  Tier <- TwoTiers
  Total <- SmallTotal
  MaxPending <- SmallPending
  Caller = {r1}
  Pin = {p1, p2}
  None = none
INVARIANT
  PinsReleased
SYMMETRY PageSymmetry
