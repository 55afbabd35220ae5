SPECIFICATION ThreadSpec
CONSTANTS
  Threads = {o}
  LoopThread = L
  Owner = o
  Functors = {f1}
  MaxQueued = 1
  InitCallback = FALSE
PROPERTIES
  DestroyTerminates
CHECK_DEADLOCK FALSE
