SPECIFICATION Spec
CONSTANTS
  Timers = {1, 2, 3}
  Interval <- MCInterval
  MinDelay = 1
  MaxTime = 4
INVARIANTS
  
  EntriesAreLive
PROPERTIES
  NeverEarly
CHECK_DEADLOCK FALSE
