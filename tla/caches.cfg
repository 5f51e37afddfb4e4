SPECIFICATION MCSpec
CONSTANTS
  Page = {a, b}
  MaxLen = 2
  Tier <- TwoTiers
  Total <- SmallTotal
  MaxPending <- SmallPending
  Caller = {r1}
  Pin = {p1}
  None = none
  Impl <- Kernels
  Ranked <- ByPriority
  Builtin = {"fast", "graph", "ref"}
  Broken = {"graph"}
  Measurable = {"fast", "ref"}
  Policy <- Policies
  Engine <- Engines
  Default <- NoEngine
  PluginKernel = "plugin"
  PluginPolicy = "override"
  Site = {"a", "b"}
  Prefer <- Preference
  CallQuery <- Calls
  MaxSelectors = 2
  MaxEpoch = 1
  MaxHeld = 2
INVARIANTS
  TreeCorrect
  UnitsCorrect
  ChoicesCorrect
  GraphSafe
PROPERTIES
  HeldUnitsStay
  FreezeKeepsAnswers
SYMMETRY PageSymmetry
