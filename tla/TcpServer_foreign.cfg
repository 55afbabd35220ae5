SPECIFICATION Spec
CONSTANTS
  Conns = {c1}
  MaxThreads = 1
  ForeignCalls = 2
  MayStop = TRUE
INVARIANTS
  UpThenDown

  
  
CHECK_DEADLOCK FALSE
