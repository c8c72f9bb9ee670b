SPECIFICATION Spec
CONSTANTS
  Messages <- TwoMessages
  Commands <- TwoFrames
  SlaveIds <- TwoSlaves
  Faults = {"device", "log"}
  MaxQueue = 4
  MaxWire = 2
  MaxSpurious = 1
INVARIANTS TypeOK MutexInv FrontIsSafe NoStrandedPacket BoardReadsCommands
PROPERTIES LockedAccess IsFifo
CHECK_DEADLOCK FALSE
