SPECIFICATION Spec
CONSTANTS
  Targets = {17, 18}
  Addresses <- Boundaries
  ErrorCodes = {1, 128}
  DataChoices <- Documented6
  HeapByte = {0, 255}
  kMaxPollingCount = 10
PROPERTIES DefaultIsForTheRest
CHECK_DEADLOCK FALSE
