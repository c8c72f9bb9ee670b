--------------------------- MODULE MCMqttSession ---------------------------
(* Instances of MqttSession for TLC.                                       *)
EXTENDS MqttSession

TwoTopics == <<"water", "led">>

\* The instance is one of those a healthy connection is kept in.
ASSUME InstanceKeepsPace == KeepsPace

\* The numbers of the code in half seconds: eight topics, a keepalive of 10 s, and
\* turns that wait half a second for the board or the mutex.
TheCode == INSTANCE MqttSession WITH
  Topics <- <<"temperature", "water", "led", "fan", "read", "write", "raw", "test">>,
  KeepAlive <- 20, BlockTimes <- {0, 1}, Patience <- 1, SleepTime <- 1, SelectTime <- 2,
  MaxBacklog <- 1, MaxFaults <- 0

ASSUME CodeKeepsPace == TheCode!KeepsPace
=============================================================================
