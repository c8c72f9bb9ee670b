----------------------------- MODULE MCMainLoop -----------------------------
(* A small main loop: one slave, the intervals in half seconds scaled.      *)
EXTENDS MainLoop

Steps == {-100, -3, 5}

ASSUME InstanceFits == Capacity /\ PortCapacity /\ CountCapacity /\ ClockInReach

\* The intervals of the code, with five slaves, a command, a fault and seven
\* emergencies.
TheCode == INSTANCE MainLoop WITH
  SlaveCount <- 5, PollEvery <- 14, TempEvery <- 30, SelectWait <- 2,
  MaxPollingCount <- 10, ULONG_MAX <- 2147483647, MaxFaults <- 1, MaxCommands <- 1,
  MaxAlarms <- 7

ASSUME CodeFits == TheCode!Capacity /\ TheCode!PortCapacity /\ TheCode!CountCapacity
=============================================================================
