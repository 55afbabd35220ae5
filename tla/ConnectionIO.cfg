SPECIFICATION Spec
CONSTANTS
  CheapPrepend = 1
  InitialSize = 1
  ExtraSize = 2
  Lens = {1, 2}
  HighWaterMark = 3
  MaxSend = 3
  MaxReceive = 3
INVARIANTS
  IndexesInside
  SentInOrder
  ReceivedInOrder
  InterestIffBuffered
  FinAfterData
PROPERTIES
  BufferDrains
  FileEnds
  ShutdownSendsFin
CHECK_DEADLOCK FALSE
