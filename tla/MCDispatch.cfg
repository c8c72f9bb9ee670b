SPECIFICATION FairSpec
CONSTANTS
  Targets = {17, 18}
  Addresses <- Boundaries
  ErrorCodes = {1, 128}
  DataChoices <- Emergencies
  HeapByte = {0, 255}
  kMaxPollingCount = 2
INVARIANTS TypeOK
PROPERTIES SuccessIsTrue SilenceReported
CHECK_DEADLOCK FALSE
