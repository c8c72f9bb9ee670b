SPECIFICATION Spec
CONSTANTS
  SlaveCount = 1
  PollEvery = 4
  TempEvery = 9
  SelectWait = 1
  MaxPollingCount = 9
  ULONG_MAX = 255
  ClockSteps <- Steps
  MaxFaults = 1
  MaxCommands = 1
  MaxAlarms = 1
INVARIANTS TypeOK BacklogBounded RxBounded TurnBounded TimersFire SilenceIsReal PollsUnderWay
