SPECIFICATION FairEngine
CONSTANTS
  Stepper = {s1, s2}
  Closer = {x1}
  WorkerThread = worker
  MaxItem = 3
  MaxInterrupts = 1
  Trainer = {t1}
  CoreThread = {s1, s2, x1, worker, t1}
  GivenVersion = {0}
  MaxCalls = 2
INVARIANTS
  TurnsCorrect
  CloseCorrect
  LockCorrect
  PluginReady
PROPERTIES
  CallsReturn
CHECK_DEADLOCK FALSE
