SPECIFICATION Spec
CONSTANTS
  Endpoint = {e1, e2}
  Model = {m1}
  Client = {c1, c2}
  MaxServers = 2
  HeartbeatTimeout = 0
  FailureThreshold = 2
  Flaky = {e1}
  MaxFlips = 3
INVARIANTS
  RecordsCorrect
  NeverCut
PROPERTIES
  TrustFollowsProbe
  RecordsSettle
