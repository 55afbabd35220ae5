SPECIFICATION SafetySpec
CONSTANTS
  Conns = {c1, c2}
  MaxThreads = 1
  ForeignCalls = 0
  MayStop = TRUE
SYMMETRY Symmetry
INVARIANTS
  NoDanglingChannel
  OpenIsInTable
  PollerConsistent
CHECK_DEADLOCK FALSE
