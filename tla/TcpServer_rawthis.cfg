SPECIFICATION Spec
CONSTANTS
  Conns = {c1}
  MaxThreads = 1
  ForeignCalls = 1
  MayStop = FALSE
INVARIANTS
  TaskOnLiveConnection
CHECK_DEADLOCK FALSE
