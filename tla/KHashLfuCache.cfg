SPECIFICATION Spec
CONSTANTS
  k1 = k1
  k2 = k2
  k3 = k3
  k4 = k4
  Keys = {k1, k2, k3, k4}
  maxAverageNum_ = 4
  INT8_MAX = 4
  MaxFreq = 14
  capacity_ = 3
  sliceNum_ = 2
  Hash <- MCHash
  MaxAccesses = 14
INVARIANTS
  MinFreqCurrent
  ListsHoldTheNodes
PROPERTIES
  EvictsLeastFrequent
CHECK_DEADLOCK FALSE
