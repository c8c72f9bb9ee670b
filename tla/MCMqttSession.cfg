SPECIFICATION Spec
CONSTANTS
  Topics <- TwoTopics
  KeepAlive = 7
  BlockTimes = {0, 1, 13}
  Patience = 1
  SleepTime = 1
  SelectTime = 1
  MaxBacklog = 2
  MaxFaults = 3
INVARIANTS TypeOK ConnectFirst NeverDeaf CutNoticed
PROPERTIES HealthyKept Recovers
