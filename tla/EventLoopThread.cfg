SPECIFICATION ThreadSpec
CONSTANTS
  Threads = {o, t}
  LoopThread = L
  Owner = o
  Functors = {f1, f2}
  MaxQueued = 3
  InitCallback = FALSE
INVARIANTS
  TypeOK
  FunctorsConserved
  NoLostWakeup
  QuitBetweenBatches
  LoopAliveInUse
PROPERTIES
  ImplementsTaskQueue
  QuitStopsLoop
CHECK_DEADLOCK FALSE
