------------------------------ MODULE MainLoop ------------------------------
(***************************************************************************)
(* The main loop of run in time: one mosquitto_loop, the poll and          *)
(* temperature timers on the system clock, the pushes that contend with    *)
(* the writer for the mutex, one packet from the board, half a second of   *)
(* sleep.                                                                  *)
(*                                                                         *)
(* The unit of time is the half second that the writer and the main loop   *)
(* sleep.  Time passes when neither thread can go on.  The board answers a *)
(* packet at once or not at all, and reports an emergency at any time.     *)
(* Packets are told apart by what they are about only; their order between *)
(* the threads is the subject of PacketQueue.                              *)
(***************************************************************************)
EXTENDS Integers, Sequences, FiniteSets

CONSTANTS
  SlaveCount,   \* master_board_.slave_count()
  PollEvery,    \* 7000 ms
  TempEvery,    \* 15000 ms
  SelectWait,   \* the timeout of mosquitto_loop, 1000 ms
  MaxPollingCount,  \* kMaxPollingCount
  ULONG_MAX,    \* the greatest unsigned long
  ClockSteps,   \* by how much the system clock may be set
  MaxFaults,    \* bound: how often it is set or the connection is lost
  MaxCommands,  \* bound: how many commands the server sends
  MaxAlarms     \* bound: how many emergencies the board reports

ASSUME LoopAssumption ==
  /\ SlaveCount \in Nat
  /\ PollEvery \in Nat /\ TempEvery \in Nat
  /\ SelectWait \in Nat \ {0}
  /\ MaxPollingCount \in Nat
  /\ ULONG_MAX \in Nat
  /\ ClockSteps \subseteq Int
  /\ MaxFaults \in Nat
  /\ MaxCommands \in Nat /\ MaxAlarms \in Nat

VARIABLES
  pc,        \* where the main thread is
  left,      \* how long it still waits in select or sleeps
  todo,      \* the packets this turn still has to push
  pollDiff,  \* now - polling_interval
  tempDiff,  \* now - temperature_interval
  count,     \* polling_count_, capped at MaxPollingCount + 1
  queue,     \* the packets in *packet_queue_
  busy,      \* how long the writer still holds the mutex
  waiting,   \* the writer waits for a notify
  rx,        \* the packets in the receive buffer of the port
  commands,  \* how many commands came
  alarms,    \* how many emergencies the board reported
  faults,    \* how often the clock was set or the connection lost
  sincePoll, \* connected time since the last poll
  sinceTemp, \* connected time since the last temperature request
  turnAge,   \* time since the last call of IsConnected
  owed       \* a poll went unanswered since the last answer to one was heard

timers  == <<pollDiff, tempDiff>>
main    == <<pc, left, todo, count>>
writer  == <<busy, waiting>>
history == <<commands, alarms, faults, sincePoll, sinceTemp, turnAge, owed>>
vars == <<main, timers, queue, writer, rx, history>>

Kind == {"poll", "temperature", "command", "emergency"}

-----------------------------------------------------------------------------
\* The timers start at 0 and the clock in the present: both are long overdue.
Overdue == TempEvery + 1

Init ==
  /\ pc = "sleep" /\ left = 0 /\ todo = <<>>
  /\ pollDiff = Overdue /\ tempDiff = Overdue
  /\ count = 0
  /\ queue = <<>> /\ rx = <<>>
  /\ busy = 0 /\ waiting = FALSE
  /\ commands = 0 /\ alarms = 0 /\ faults = 0
  /\ sincePoll = 0 /\ sinceTemp = 0 /\ turnAge = 0 /\ owed = FALSE

-----------------------------------------------------------------------------
(* One turn of the main thread.                                            *)

\* select returns when the broker sends something, for the byte a publication
\* leaves in the socket pair of the library, or after SelectWait.
Select ==
  /\ pc = "sleep" /\ left = 0
  /\ left' \in 0 .. SelectWait
  /\ turnAge' = 0
  /\ pc' = "select"
  /\ UNCHANGED <<todo, count, timers, queue, writer, rx, commands, alarms, faults, sincePoll, sinceTemp, owed>>

\* A push takes the mutex; the two handlers that notify wake the writer.
Push(kind, notifies) ==
  /\ busy = 0
  /\ queue' = Append(queue, kind)
  /\ waiting' = (waiting /\ ~notifies)

OnMessage ==
  /\ pc = "select" /\ left = 0
  /\ commands < MaxCommands
  /\ Push("command", TRUE)
  /\ commands' = commands + 1
  /\ pc' = "clock"
  /\ UNCHANGED <<left, todo, count, timers, busy, rx, alarms, faults, sincePoll, sinceTemp, turnAge, owed>>

IsConnected ==
  /\ pc = "select" /\ left = 0
  /\ pc' = "clock"
  /\ UNCHANGED <<left, todo, count, timers, queue, writer, rx, history>>

\* No connection: reconnect and sleep, the board is not looked after.
IsNotConnected ==
  /\ pc = "select" /\ left = 0
  /\ faults < MaxFaults /\ faults' = faults + 1
  /\ pc' = "down"
  /\ sincePoll' = 0 /\ sinceTemp' = 0
  /\ UNCHANGED <<left, todo, count, timers, queue, writer, rx, commands, alarms, turnAge, owed>>

Reconnect ==
  /\ pc = "down"
  /\ pc' = "sleep"
  /\ left' = 1
  /\ UNCHANGED <<todo, count, timers, queue, writer, rx, history>>

\* Mutant of Elapsed: the interval is a signed long.
SignedElapsed(diff) == diff

\* The elapsed time is a difference of unsigned longs.
Elapsed(diff) == diff % (ULONG_MAX + 1)

\* Mutant of ReadClock: temperature_interval is not set.
TemperatureEveryTurn ==
  /\ pc = "clock"
  /\ LET pollDue == Elapsed(pollDiff) > PollEvery
         tempDue == Elapsed(tempDiff) > TempEvery
     IN  /\ todo' = (IF pollDue THEN <<"poll">> ELSE <<>>)
                       \o [i \in 1 .. IF tempDue THEN SlaveCount ELSE 0 |-> "temperature"]
         /\ pollDiff' = IF pollDue THEN 0 ELSE pollDiff
         /\ sincePoll' = IF pollDue THEN 0 ELSE sincePoll
         /\ sinceTemp' = IF tempDue THEN 0 ELSE sinceTemp
  /\ pc' = "push"
  /\ UNCHANGED <<tempDiff, left, count, queue, writer, rx, commands, alarms, faults, turnAge, owed>>

\* Mutant of ReadClock: i <= slave_count.
OneSlaveTooMany ==
  /\ pc = "clock"
  /\ LET pollDue == Elapsed(pollDiff) > PollEvery
         tempDue == Elapsed(tempDiff) > TempEvery
     IN  /\ todo' = (IF pollDue THEN <<"poll">> ELSE <<>>)
                       \o [i \in 1 .. IF tempDue THEN SlaveCount + 1 ELSE 0 |-> "temperature"]
         /\ pollDiff' = IF pollDue THEN 0 ELSE pollDiff
         /\ tempDiff' = IF tempDue THEN 0 ELSE tempDiff
         /\ sincePoll' = IF pollDue THEN 0 ELSE sincePoll
         /\ sinceTemp' = IF tempDue THEN 0 ELSE sinceTemp
  /\ pc' = "push"
  /\ UNCHANGED <<left, count, queue, writer, rx, commands, alarms, faults, turnAge, owed>>

\* Mutant of ReadClock: the loop runs over kMaxSlaveCount.
EverySlot ==
  /\ pc = "clock"
  /\ LET pollDue == Elapsed(pollDiff) > PollEvery
         tempDue == Elapsed(tempDiff) > TempEvery
     IN  /\ todo' = (IF pollDue THEN <<"poll">> ELSE <<>>)
                       \o [i \in 1 .. IF tempDue THEN 127 ELSE 0 |-> "temperature"]
         /\ pollDiff' = IF pollDue THEN 0 ELSE pollDiff
         /\ tempDiff' = IF tempDue THEN 0 ELSE tempDiff
         /\ sincePoll' = IF pollDue THEN 0 ELSE sincePoll
         /\ sinceTemp' = IF tempDue THEN 0 ELSE sinceTemp
  /\ pc' = "push"
  /\ UNCHANGED <<left, count, queue, writer, rx, commands, alarms, faults, turnAge, owed>>

\* The clock is read once in a turn, before anything is pushed.
ReadClock ==
  /\ pc = "clock"
  /\ LET pollDue == Elapsed(pollDiff) > PollEvery
         tempDue == Elapsed(tempDiff) > TempEvery
     IN  /\ todo' = (IF pollDue THEN <<"poll">> ELSE <<>>)
                       \o [i \in 1 .. IF tempDue THEN SlaveCount ELSE 0 |-> "temperature"]
         /\ pollDiff' = IF pollDue THEN 0 ELSE pollDiff
         /\ tempDiff' = IF tempDue THEN 0 ELSE tempDiff
         /\ sincePoll' = IF pollDue THEN 0 ELSE sincePoll
         /\ sinceTemp' = IF tempDue THEN 0 ELSE sinceTemp
  /\ pc' = "push"
  /\ UNCHANGED <<left, count, queue, writer, rx, commands, alarms, faults, turnAge, owed>>

\* Polling notifies the writer and counts the poll.
Polling ==
  /\ pc = "push" /\ todo # <<>> /\ Head(todo) = "poll"
  /\ Push("poll", TRUE)
  /\ count' = IF count > MaxPollingCount THEN count ELSE count + 1
  /\ todo' = Tail(todo)
  /\ UNCHANGED <<pc, left, timers, busy, rx, history>>

\* RequestTemperature takes the mutex anew for each slave and notifies nobody.
RequestTemperature ==
  /\ pc = "push" /\ todo # <<>> /\ Head(todo) = "temperature"
  /\ Push("temperature", FALSE)
  /\ todo' = Tail(todo)
  /\ UNCHANGED <<pc, left, count, timers, busy, rx, history>>

AllPushed ==
  /\ pc = "push" /\ todo = <<>>
  /\ pc' = "listen"
  /\ UNCHANGED <<left, todo, count, timers, queue, writer, rx, history>>

\* Mutant of Listen: ResetPollingCount is forgotten.
CountKept ==
  /\ pc = "listen" /\ rx # <<>>
  /\ rx' = Tail(rx)
  /\ owed' = (owed /\ Head(rx) # "poll")
  /\ pc' = "sleep" /\ left' = 1
  /\ UNCHANGED <<todo, count, timers, queue, writer, commands, alarms, faults, sincePoll, sinceTemp, turnAge>>

\* ListeningMaster: one packet a turn, if there is one.  Answers are published.
Listen ==
  /\ pc = "listen" /\ rx # <<>>
  /\ rx' = Tail(rx)
  /\ count' = IF Head(rx) = "poll" THEN 0 ELSE count
  /\ owed' = (owed /\ Head(rx) # "poll")
  /\ pc' = "sleep" /\ left' = 1
  /\ UNCHANGED <<todo, timers, queue, writer, commands, alarms, faults, sincePoll, sinceTemp, turnAge>>

NothingToHear ==
  /\ pc = "listen" /\ rx = <<>>
  /\ pc' = "sleep" /\ left' = 1
  /\ UNCHANGED <<todo, count, timers, queue, writer, rx, history>>

-----------------------------------------------------------------------------
(* The writer, the board and the clock.                                    *)

\* Mutant of Write: the writer sleeps for six seconds.
LongWrite ==
  /\ busy = 0 /\ ~waiting /\ queue # <<>>
  /\ queue' = Tail(queue)
  /\ busy' = 12
  /\ \E answers \in BOOLEAN :
       /\ rx' = IF answers THEN Append(rx, Head(queue)) ELSE rx
       /\ owed' = (owed \/ (Head(queue) = "poll" /\ ~answers))
  /\ UNCHANGED <<main, timers, waiting, commands, alarms, faults, sincePoll, sinceTemp, turnAge>>

\* The writer takes a packet and keeps the mutex while it writes, logs and
\* sleeps.  The board answers, or it does not.
Write ==
  /\ busy = 0 /\ ~waiting /\ queue # <<>>
  /\ queue' = Tail(queue)
  /\ busy' = 1
  /\ \E answers \in BOOLEAN :
       /\ rx' = IF answers THEN Append(rx, Head(queue)) ELSE rx
       /\ owed' = (owed \/ (Head(queue) = "poll" /\ ~answers))
  /\ UNCHANGED <<main, timers, waiting, commands, alarms, faults, sincePoll, sinceTemp, turnAge>>

WaitForNotify ==
  /\ busy = 0 /\ ~waiting /\ queue = <<>>
  /\ waiting' = TRUE
  /\ UNCHANGED <<main, timers, queue, busy, rx, history>>

\* The wait may return without a notify; it goes on if the queue is not empty.
SpuriousWake ==
  /\ waiting /\ busy = 0 /\ queue # <<>>
  /\ waiting' = FALSE
  /\ UNCHANGED <<main, timers, queue, busy, rx, history>>

\* Beyond Overdue all differences are alike.
Later(diff) == IF diff >= Overdue THEN diff ELSE diff + 1
Less(n) == IF n > 0 THEN n - 1 ELSE 0

MainWaits ==
  \/ pc = "down"
  \/ pc \in {"select", "sleep"} /\ left > 0
  \/ busy > 0 /\ \/ pc = "select" /\ commands < MaxCommands
                 \/ pc = "push" /\ todo # <<>>

Tick ==
  /\ MainWaits
  /\ busy > 0 \/ waiting
  /\ pollDiff' = Later(pollDiff) /\ tempDiff' = Later(tempDiff)
  /\ left' = Less(left)
  /\ busy' = Less(busy)
  /\ IF pc = "down"
     THEN UNCHANGED <<sincePoll, sinceTemp, turnAge>>
     ELSE /\ sincePoll' = sincePoll + 1 /\ sinceTemp' = sinceTemp + 1
          /\ turnAge' = turnAge + 1
  /\ UNCHANGED <<pc, todo, count, queue, waiting, rx, commands, alarms, faults, owed>>

\* A slave board has an emergency and the master board reports it, unasked (external).
Emergency ==
  /\ alarms < MaxAlarms /\ alarms' = alarms + 1
  /\ rx' = Append(rx, "emergency")
  /\ UNCHANGED <<main, timers, queue, writer, commands, faults, sincePoll, sinceTemp, turnAge, owed>>

\* The system clock is set, forward or back.
SetClock ==
  /\ faults < MaxFaults
  /\ \E d \in ClockSteps :
       /\ pollDiff' = pollDiff + d
       /\ tempDiff' = tempDiff + d
  /\ faults' = faults + 1
  /\ UNCHANGED <<main, queue, writer, rx, commands, alarms, sincePoll, sinceTemp, turnAge, owed>>

-----------------------------------------------------------------------------
MainThread ==
  \/ Select \/ OnMessage \/ IsConnected \/ IsNotConnected \/ Reconnect
  \/ ReadClock \/ Polling \/ RequestTemperature \/ AllPushed
  \/ Listen \/ NothingToHear

Writer == Write \/ WaitForNotify \/ SpuriousWake

Next == MainThread \/ Writer \/ Emergency \/ Tick \/ SetClock

Spec == Init /\ [][Next]_vars

-----------------------------------------------------------------------------
\* Every variable keeps its type: no turn pushes more than it should.
TypeOK ==
  /\ pc \in {"select", "down", "clock", "push", "listen", "sleep"}
  /\ left \in 0 .. SelectWait /\ todo \in Seq(Kind) /\ Len(todo) <= SlaveCount + 1
  /\ pollDiff \in Int /\ tempDiff \in Int
  /\ count \in 0 .. MaxPollingCount + 1
  /\ queue \in Seq(Kind) /\ rx \in Seq(Kind)
  /\ busy \in {0, 1} /\ waiting \in BOOLEAN
  /\ commands \in 0 .. MaxCommands /\ alarms \in 0 .. MaxAlarms
  /\ faults \in 0 .. MaxFaults
  /\ sincePoll \in Nat /\ sinceTemp \in Nat /\ turnAge \in Nat
  /\ owed \in BOOLEAN

\* The temperatures of one period and of the one before it, which nobody
\* notified the writer of, with a poll each, the commands, and what one more
\* period adds for every step of the clock or lost connection.
MostQueued == (2 + faults) * (SlaveCount + 1) + MaxCommands

\* The pushes of one turn may lose the mutex to the writer for as long as it has
\* packets to write, and those the turn itself adds.
LongestTurn == SelectWait + 1 + MostQueued + SlaveCount + 1

\* RequestTemperature and Polling never pile up packets faster than the writer
\* takes them, one in half a second, when a period holds them.
BacklogBounded == Len(queue) <= MostQueued

\* What the port may hold is more than that: while the pushes of a turn lose the
\* mutex nothing is heard and the timers go on, a packet for every turn's worth
\* of writes; so is a turn that heard nothing, one without a connection, and one
\* that heard an emergency.
MostUnheard == MostQueued + MostQueued \div (SelectWait + 1) + 1 + faults + alarms

\* One packet a turn keeps up with the answers the board gives and with the
\* emergencies it reports.
RxBounded == Len(rx) <= MostUnheard

\* The client library is called again within a time that the constants bound,
\* whatever the writer does with the mutex.  (That is a bound, not a promise that
\* the session survives: with the code's numbers and five slaves it is 22 half
\* seconds, more than the keepalive of 20.  A turn that long is a slow one in
\* MqttSession.)
TurnBounded == turnAge <= LongestTurn

\* While connected, the board is polled and its temperatures are requested in
\* time.  Each time the system clock is set back costs one interval and one turn
\* at most, however far it is set: the unsigned difference wraps.
TimersFire ==
  /\ sincePoll <= (1 + faults) * (PollEvery + 1 + LongestTurn)
  /\ sinceTemp <= (1 + faults) * (TempEvery + 1 + LongestTurn)

\* "no response" is reported only of a board that left a poll unanswered, never
\* because its answers are still in the queue or the port behind others, the
\* emergencies among them.
SilenceIsReal == count > MaxPollingCount => owed

\* A poll is counted when it is queued: while none was left unanswered, every
\* counted one is on its way, in the queue or as an answer in the port.
Polls(packets) == Cardinality({i \in DOMAIN packets : packets[i] = "poll"})
PollsUnderWay == ~owed => count <= Polls(queue) + Polls(rx)

-----------------------------------------------------------------------------
(* What the bounds rest on.                                                *)

\* A period of temperatures leaves the writer the time for a packet of each
\* slave and for the polls of the period.
Capacity ==
  /\ 1 <= PollEvery /\ PollEvery <= TempEvery
  /\ SlaveCount * (PollEvery + 1) <= PollEvery * (TempEvery + 1)

\* So it leaves the main thread: a packet costs it a turn, and a half second
\* in which the writer has the mutex.
HearingCost == SelectWait + 2
PortCapacity ==
  /\ HearingCost <= PollEvery + 1
  /\ SlaveCount * (HearingCost * (PollEvery + 1))
       <= (PollEvery + 1 - HearingCost) * (TempEvery + 1)

\* kMaxPollingCount polls take longer to come than anything waits to be heard,
\* after as many faults and emergencies as there may be.
CountCapacity ==
  LET most == (2 + MaxFaults) * (SlaveCount + 1) + MaxCommands
      turn == SelectWait + 1
  IN  HearingCost * (HearingCost * most + turn * (MaxFaults + MaxAlarms))
        < turn * ((PollEvery + 1) * (MaxPollingCount - MaxFaults))

\* The clock is not set so far that a difference wraps all the way round.
ClockInReach ==
  \E r \in 0 .. ULONG_MAX :
    /\ \A d \in ClockSteps : -r <= d /\ d <= r
    /\ MaxFaults * r + Overdue <= ULONG_MAX

=============================================================================
