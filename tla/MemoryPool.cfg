SPECIFICATION Spec
CONSTANTS
  Threads = {t1, t2}
  Size = 20
  BlockSize_ = 72
  Blocks = {16, 160, 304}
  SizeModulus = 65536
  MaxOwned = 2
INVARIANTS
  OneOwner
  ObjectsFit
CHECK_DEADLOCK FALSE
