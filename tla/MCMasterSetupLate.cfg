SPECIFICATION Spec
CONSTANTS
  PortOpen = TRUE
  BoardIdHigh = 4
  BoardIdLow = 1
  BoardSlaves <- TwoSlaves
  Delivery = {"late"}
  HeapByte = {0}
  kMaxSlaveCount = 127
  kMaxDataLength = 129
  MaxLate = 2
INVARIANTS SlaveCountRead
CHECK_DEADLOCK FALSE
