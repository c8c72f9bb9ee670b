SPECIFICATION Spec
CONSTANTS
  PortOpen = FALSE
  BoardIdHigh = 4
  BoardIdLow = 1
  BoardSlaves <- TwoSlaves
  Delivery = {}
  HeapByte = {0}
  kMaxSlaveCount = 127
  kMaxDataLength = 129
  MaxLate = 2
INVARIANTS StaysUp
CHECK_DEADLOCK FALSE
