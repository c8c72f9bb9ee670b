SPECIFICATION FairSpec
CONSTANTS
  Messages <- OneMessage
  Commands <- OneFrame
  SlaveIds <- TwoSlaves
  Faults = {"timeout"}
  MaxQueue = 2
  MaxWire = 1
  MaxSpurious = 1
PROPERTIES FifoMoves HandlerReturns
