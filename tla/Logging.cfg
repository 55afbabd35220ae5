SPECIFICATION LoggingSpec
CONSTANTS
  BufferSize = 4201
  Lens <- MCLens
  Counts <- MCCounts
  MaxLines = 3
  MaxTime = 3
  MaxFailures = 1
  RollSize = 4300
  FlushInterval = 1
  CheckEveryN = 2
  RollPerSeconds = 2
  BasenameLen = 8
  LineDigits = 3
  Bodies <- MCBodies
  OpenLogging = TRUE
INVARIANTS
  TypeOK
  LinesConserved
  RecycleNeverStarves
  SparesAreEmpty
  RoundsAreOnDisk
  FlushedInTime
  RollsBySize
  RollsByPeriod
  LinesAreWhole
PROPERTIES
  LinesReachDisk
  StopEndsBackEnd
CHECK_DEADLOCK FALSE
