SPECIFICATION ExitSpec
CONSTANTS
  BufferSize = 4201
  Lens <- MCLens
  Counts <- MCCounts
  MaxLines = 1
  MaxTime = 3
  MaxFailures = 0
  RollSize = 4300
  FlushInterval = 1
  CheckEveryN = 2
  RollPerSeconds = 2
  BasenameLen = 8
  LineDigits = 3
  Bodies <- MCBodies
  OpenLogging = FALSE
INVARIANTS
  AllWrittenAtExit
CHECK_DEADLOCK FALSE
