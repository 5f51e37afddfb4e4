SPECIFICATION MCSpec
CONSTANTS
  WorkerCount = 3
  MaxFaults = 2
  PipelineSize = {2}
  CfgSize = {1, 2}
  Size = {1, 2}
  MoeSize = {1, 3}
  MaxDevices = 3
  MaxNodes = 2
  MaxTp = 6
  MaxHeads = 8
  HeadDim = {1, 2}
  MaxWidth = 9
INVARIANTS
  StartIsClean
  InferredIsSmallest
  LayoutCorrect
  PlacementCorrect
  ShardsMeet
PROPERTIES
  DeathIsNoticed
  StartReturns
