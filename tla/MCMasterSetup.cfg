SPECIFICATION FairSpec
CONSTANTS
  PortOpen = TRUE
  BoardIdHigh = 0
  BoardIdLow = 1
  BoardSlaves <- TwoSlaves
  Delivery = {"late", "lost", "damaged"}
  HeapByte = {0, 255}
  kMaxSlaveCount = 3
  kMaxDataLength = 5
  MaxLate = 2
INVARIANTS TypeOK MasterIdRight SlavesRight NoCrash
PROPERTIES SetupCompletes
CHECK_DEADLOCK FALSE
