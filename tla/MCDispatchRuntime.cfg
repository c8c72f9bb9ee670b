SPECIFICATION Spec
CONSTANTS
  Targets = {17, 18}
  Addresses <- Boundaries
  ErrorCodes = {1, 128}
  DataChoices <- Emergencies
  HeapByte = {0, 255}
  kMaxPollingCount = 10
PROPERTIES RuntimeIsReceived
CHECK_DEADLOCK FALSE
