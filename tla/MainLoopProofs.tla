--------------------------- MODULE MainLoopProofs ---------------------------
(* Theorems of MainLoop, for any number of slaves and any intervals.       *)
EXTENDS MainLoop, SequenceTheorems, FiniteSetTheorems, FunctionTheorems, WellFoundedInduction, TLAPS

LEMMA Naturals ==
  /\ SlaveCount \in Nat /\ SelectWait \in Nat \ {0} /\ MaxPollingCount \in Nat
  /\ TempEvery \in Nat /\ MaxFaults \in Nat /\ MaxCommands \in Nat /\ MaxAlarms \in Nat
  /\ \A d \in ClockSteps : d \in Int
BY LoopAssumption DEF LoopAssumption

LEMMA LessTyped ==
  ASSUME NEW n \in Nat
  PROVE  Less(n) \in 0 .. n
BY DEF Less

\* What a turn has to push: a poll at most, and a temperature of each slave.
LEMMA TodoTyped ==
  ASSUME NEW poll \in BOOLEAN, NEW temperature \in BOOLEAN
  PROVE  LET todos == (IF poll THEN <<"poll">> ELSE <<>>)
                         \o [i \in 1 .. IF temperature THEN SlaveCount ELSE 0 |-> "temperature"]
         IN  todos \in Seq(Kind) /\ Len(todos) <= SlaveCount + 1
<1> DEFINE n == IF temperature THEN SlaveCount ELSE 0
           polls == IF poll THEN <<"poll">> ELSE <<>>
           temperatures == [i \in 1 .. n |-> "temperature"]
<1>1. n \in Nat /\ n <= SlaveCount
  BY Naturals
<1>2. polls \in Seq(Kind) /\ Len(polls) <= 1
  <2>1. <<"poll">> \in Seq(Kind) /\ Len(<<"poll">>) = 1
    BY DEF Kind
  <2>2. <<>> \in Seq(Kind) /\ Len(<<>>) = 0
    OBVIOUS
  <2>3. polls = <<"poll">> \/ polls = <<>>
    OBVIOUS
  <2> QED
    BY <2>1, <2>2, <2>3
<1>3. temperatures \in Seq(Kind) /\ Len(temperatures) = n
  <2> HIDE DEF n
  <2>1. temperatures \in [1 .. n -> Kind]
    BY DEF Kind
  <2>2. temperatures \in Seq(Kind)
    BY <1>1, <2>1
  <2>3. DOMAIN temperatures = 1 .. n
    OBVIOUS
  <2> QED
    BY <1>1, <2>2, <2>3
<1> HIDE DEF n, polls, temperatures
<1>4. Len(polls \o temperatures) = Len(polls) + Len(temperatures)
  BY <1>2, <1>3
<1>5. polls \o temperatures \in Seq(Kind)
  BY <1>2, <1>3
<1>6. Len(polls) \in Nat
  BY <1>2
<1>7. Len(polls \o temperatures) <= SlaveCount + 1
  BY <1>1, <1>2, <1>3, <1>4, <1>6, Naturals
<1> QED
  BY <1>5, <1>7 DEF polls, temperatures, n

-----------------------------------------------------------------------------
LEMMA TypedInit ==
  ASSUME Init
  PROVE  TypeOK
<1> USE Naturals
<1>1. Overdue \in Int /\ 0 \in 0 .. SelectWait /\ 0 \in 0 .. MaxPollingCount + 1
  BY DEF Overdue
<1>2. 0 \in 0 .. MaxCommands /\ 0 \in 0 .. MaxFaults /\ 0 \in 0 .. MaxAlarms
  OBVIOUS
<1>3. <<>> \in Seq(Kind) /\ Len(<<>>) <= SlaveCount + 1
  OBVIOUS
<1> QED
  BY <1>1, <1>2, <1>3 DEF Init, TypeOK

LEMMA TypedStep ==
  ASSUME TypeOK, [Next]_vars
  PROVE  TypeOK'
<1> USE Naturals
<1> USE DEF TypeOK
<1>1. CASE Select
  BY <1>1 DEF Select, timers, writer
<1>2. CASE OnMessage
  BY <1>2 DEF OnMessage, Push, timers, Kind
<1>3. CASE IsConnected
  BY <1>3 DEF IsConnected, timers, writer, history
<1>4. CASE IsNotConnected
  BY <1>4 DEF IsNotConnected, timers, writer
<1>5. CASE Reconnect
  BY <1>5 DEF Reconnect, timers, writer, history
<1>6. CASE ReadClock
  <2> DEFINE pollDue == Elapsed(pollDiff) > PollEvery
             tempDue == Elapsed(tempDiff) > TempEvery
  <2>1. todo' \in Seq(Kind) /\ Len(todo') <= SlaveCount + 1
    <3> HIDE DEF pollDue, tempDue
    <3>1. todo' = (IF pollDue THEN <<"poll">> ELSE <<>>)
                     \o [i \in 1 .. IF tempDue THEN SlaveCount ELSE 0 |-> "temperature"]
      BY <1>6 DEF ReadClock, pollDue, tempDue
    <3> QED
      BY <3>1, TodoTyped
  <2>2. pollDiff' \in Int /\ tempDiff' \in Int /\ sincePoll' \in Nat /\ sinceTemp' \in Nat
    BY <1>6 DEF ReadClock
  <2> QED
    BY <1>6, <2>1, <2>2 DEF ReadClock, writer
<1>7. CASE Polling
  BY <1>7 DEF Polling, Push, timers, history, Kind
<1>8. CASE RequestTemperature
  BY <1>8 DEF RequestTemperature, Push, timers, history, Kind
<1>9. CASE AllPushed
  BY <1>9 DEF AllPushed, timers, writer, history
<1>10. CASE Listen
  BY <1>10 DEF Listen, timers, writer
<1>11. CASE NothingToHear
  BY <1>11 DEF NothingToHear, timers, writer, history
<1>12. CASE Write
  BY <1>12 DEF Write, main, timers
<1>13. CASE WaitForNotify \/ SpuriousWake
  BY <1>13 DEF WaitForNotify, SpuriousWake, main, timers, history
<1>14. CASE Tick
  <2>1. left' \in 0 .. SelectWait /\ busy' \in {0, 1}
    <3>1. left' = Less(left) /\ busy' = Less(busy)
      BY <1>14 DEF Tick
    <3>2. left \in Nat /\ busy \in Nat /\ left <= SelectWait /\ busy <= 1
      OBVIOUS
    <3>3. left' \in 0 .. left /\ busy' \in 0 .. busy
      BY <3>1, <3>2, LessTyped
    <3>4. \A i \in 0 .. busy : i = 0 \/ i = 1
      BY <3>2
    <3> QED
      BY <3>2, <3>3, <3>4
  <2>2. pollDiff' \in Int /\ tempDiff' \in Int
    BY <1>14 DEF Tick, Later
  <2>3. sincePoll' \in Nat /\ sinceTemp' \in Nat /\ turnAge' \in Nat
    <3>1. CASE pc = "down"
      BY <1>14, <3>1 DEF Tick
    <3>2. CASE pc # "down"
      BY <1>14, <3>2 DEF Tick
    <3> QED
      BY <3>1, <3>2
  <2>4. UNCHANGED <<pc, todo, count, queue, waiting, rx, commands, alarms, faults, owed>>
    BY <1>14 DEF Tick
  <2> QED
    BY <2>1, <2>2, <2>3, <2>4
<1>15. CASE SetClock
  <2>1. PICK d \in ClockSteps : pollDiff' = pollDiff + d /\ tempDiff' = tempDiff + d
    BY <1>15 DEF SetClock
  <2>2. d \in Int
    OBVIOUS
  <2>3. pollDiff' \in Int /\ tempDiff' \in Int
    BY <2>1, <2>2
  <2>4. faults' \in 0 .. MaxFaults
    BY <1>15 DEF SetClock
  <2> QED
    BY <1>15, <2>3, <2>4 DEF SetClock, main, writer
<1>16. CASE Emergency
  BY <1>16 DEF Emergency, main, timers, writer, Kind
<1>17. CASE UNCHANGED vars
  BY <1>17 DEF vars, main, timers, writer, history
<1> QED
  BY <1>1, <1>2, <1>3, <1>4, <1>5, <1>6, <1>7, <1>8, <1>9, <1>10, <1>11, <1>12, <1>13, <1>14,
     <1>15, <1>16, <1>17 DEF Next, MainThread, Writer

\* Type correctness: whatever the clock does, no turn pushes more than a poll and
\* one temperature for each slave, and the mutex is held for one write at a time.
THEOREM TypeCorrect == Spec => []TypeOK
<1>1. Init => TypeOK
  BY TypedInit
<1>2. TypeOK /\ [Next]_vars => TypeOK'
  BY TypedStep
<1> QED
  BY <1>1, <1>2, PTL DEF Spec

-----------------------------------------------------------------------------
(* The bounds.                                                             *)

\* What the writer has to do: a packet costs PollEvery + 1, so that in a half
\* second there is one for the polls and PollEvery for the temperatures.
D == PollEvery + 1
Load(n) == D * n
Work == Len(queue) + Len(todo) + busy

\* What the timers have saved up since they fired.  A difference that is no time
\* since then counts as if the timer were due, as it is.
PollCredit(d) == IF 0 <= d /\ d < D THEN d ELSE D
TempCredit(d) ==
  IF 0 <= d /\ PollEvery * d < D * SlaveCount THEN PollEvery * d ELSE D * SlaveCount

LEMMA Units ==
  ASSUME Capacity
  PROVE  /\ D \in Nat \ {0} /\ D = PollEvery + 1 /\ PollEvery \in Nat \ {0} /\ TempEvery \in Nat
         /\ SlaveCount \in Nat /\ PollEvery <= TempEvery /\ Overdue = TempEvery + 1
         /\ D * SlaveCount <= PollEvery * (TempEvery + 1)
<1>1. /\ SlaveCount \in Nat /\ PollEvery \in Nat /\ TempEvery \in Nat
      /\ 1 <= PollEvery /\ PollEvery <= TempEvery
      /\ SlaveCount * (PollEvery + 1) <= PollEvery * (TempEvery + 1)
  BY LoopAssumption DEF LoopAssumption, Capacity
<1>2. PICK s \in Nat, p \in Nat \ {0} : s = SlaveCount /\ p = PollEvery
  BY <1>1
<1>3. (p + 1) * s = s * (p + 1) /\ p + 1 \in Nat \ {0}
  BY ONLY s \in Nat, p \in Nat \ {0}
<1> QED
  BY <1>1, <1>2, <1>3 DEF D, Overdue

LEMMA LoadAdd ==
  ASSUME Capacity, NEW m \in Nat, NEW n \in Nat
  PROVE  /\ Load(m) \in Nat /\ Load(0) = 0 /\ Load(1) = D
         /\ Load(m + n) = Load(m) + Load(n)
<1>1. PICK x \in Nat : x = D
  BY Units
<1>2. x * m \in Nat /\ x * 0 = 0 /\ x * 1 = x /\ x * (m + n) = x * m + x * n
  BY ONLY x \in Nat, m \in Nat, n \in Nat
<1> QED
  BY ONLY <1>1, <1>2 DEF Load

LEMMA LoadOrder ==
  ASSUME Capacity, NEW m \in Nat, NEW n \in Nat
  PROVE  /\ m <= n => Load(m) <= Load(n)
         /\ Load(m) <= Load(n) => m <= n
<1>1. PICK x \in Nat \ {0} : x = D
  BY Units
<1>2. ASSUME NEW a \in Nat, NEW b \in Nat, a <= b PROVE x * a <= x * b
  <2>1. PICK k \in Nat : b = a + k
    <3>1. b - a \in Nat /\ b = a + (b - a)
      BY <1>2
    <3> QED
      BY <3>1
  <2>2. x * (a + k) = x * a + x * k /\ x * k \in Nat /\ x * a \in Nat
    BY ONLY x \in Nat \ {0}, a \in Nat, k \in Nat
  <2> QED
    BY ONLY <2>1, <2>2
<1>3. ASSUME n < m PROVE x * n < x * m
  <2>1. n + 1 \in Nat /\ n + 1 <= m
    BY <1>3
  <2>2. x * (n + 1) <= x * m
    BY <1>2, <2>1
  <2>3. x * (n + 1) = x * n + x /\ x * n \in Nat /\ x * m \in Nat
    BY ONLY x \in Nat \ {0}, n \in Nat, m \in Nat
  <2> QED
    BY ONLY <2>2, <2>3, x \in Nat \ {0}
<1>4. x * m <= x * n => m <= n
  <2>1. x * m \in Nat /\ x * n \in Nat
    BY ONLY x \in Nat \ {0}, m \in Nat, n \in Nat
  <2> QED
    BY <1>3, <2>1
<1>5. m <= n => x * m <= x * n
  BY <1>2
<1> QED
  BY ONLY <1>1, <1>4, <1>5 DEF Load

LEMMA PollCredits ==
  ASSUME Capacity, NEW d \in Int
  PROVE  /\ PollCredit(d) \in Nat /\ PollCredit(d) <= D /\ PollCredit(0) = 0
         /\ ~(0 <= d /\ d <= PollEvery) => PollCredit(d) = D
         /\ PollCredit(Later(d)) <= PollCredit(d) + 1
BY Units DEF PollCredit, Later

LEMMA TempCredits ==
  ASSUME Capacity, NEW d \in Int
  PROVE  /\ TempCredit(d) \in Nat /\ TempCredit(d) <= Load(SlaveCount) /\ TempCredit(0) = 0
         /\ ~(0 <= d /\ d <= TempEvery) => TempCredit(d) = Load(SlaveCount)
         /\ TempCredit(Later(d)) <= TempCredit(d) + PollEvery
<1>1. PICK p \in Nat \ {0}, t \in Nat, m \in Nat :
        p = PollEvery /\ t = TempEvery /\ m = D * SlaveCount /\ Overdue = t + 1 /\ m <= p * (t + 1)
  <2>1. SlaveCount \in Nat
    BY Naturals
  <2>2. Load(SlaveCount) \in Nat
    BY <2>1, LoadAdd
  <2> QED
    BY <2>2, Units DEF Load
<1>2. ASSUME NEW e \in Int
      PROVE  TempCredit(e) = IF 0 <= e /\ p * e < m THEN p * e ELSE m
  BY <1>1 DEF TempCredit
<1>3. p * d \in Int /\ p * (d + 1) = p * d + p /\ p * 0 = 0 /\ (0 <= d => 0 <= p * d)
  BY ONLY p \in Nat \ {0}, d \in Int
<1>4. d > t => p * (t + 1) <= p * d
  <2> SUFFICES ASSUME d > t PROVE p * (t + 1) <= p * d
    OBVIOUS
  <2>1. PICK k \in Nat : d = (t + 1) + k
    <3>1. d - (t + 1) \in Nat /\ d = (t + 1) + (d - (t + 1))
      OBVIOUS
    <3> QED
      BY <3>1
  <2>2. p * ((t + 1) + k) = p * (t + 1) + p * k /\ p * k \in Nat /\ p * (t + 1) \in Nat
    BY ONLY p \in Nat \ {0}, t \in Nat, k \in Nat
  <2> QED
    BY ONLY <2>1, <2>2
<1>5. TempCredit(d) \in Nat /\ TempCredit(d) <= m
  BY ONLY <1>2, <1>3, d \in Int, m \in Nat
<1>6. TempCredit(0) = 0
  <2>1. TempCredit(0) = IF 0 <= 0 /\ p * 0 < m THEN p * 0 ELSE m
    BY <1>2
  <2> QED
    BY ONLY <1>3, <2>1, m \in Nat
<1>7. ~(0 <= d /\ d <= t) => TempCredit(d) = m
  <2>1. p * (t + 1) \in Nat
    BY ONLY p \in Nat \ {0}, t \in Nat
  <2>2. m <= p * (t + 1)
    BY <1>1
  <2> QED
    BY ONLY <1>2, <1>3, <1>4, <2>1, <2>2, d \in Int, m \in Nat, t \in Nat
<1>8. TempCredit(Later(d)) <= TempCredit(d) + p
  <2>1. Later(d) = IF d >= t + 1 THEN d ELSE d + 1
    BY <1>1 DEF Later
  <2>2. CASE d >= t + 1
    <3>1. Later(d) = d
      BY <2>1, <2>2
    <3> QED
      BY ONLY <1>5, <3>1, p \in Nat \ {0}
  <2>3. CASE ~(d >= t + 1)
    <3>1. Later(d) = d + 1 /\ d + 1 \in Int
      BY <2>1, <2>3
    <3>2. TempCredit(d + 1) = IF 0 <= d + 1 /\ p * (d + 1) < m THEN p * (d + 1) ELSE m
      BY <1>2, <3>1
    <3>3. TempCredit(d) = IF 0 <= d /\ p * d < m THEN p * d ELSE m
      BY <1>2
    <3>4. 0 <= d + 1 => 0 <= d \/ p * (d + 1) = 0
      <4>1. d + 1 = 0 => p * (d + 1) = 0
        BY <1>3
      <4> QED
        BY <4>1
    <3>5. PICK a \in Int, b \in Int : a = p * d /\ b = p * (d + 1) /\ b = a + p
      BY <1>3
    <3>6. (IF 0 <= d + 1 /\ b < m THEN b ELSE m) <= (IF 0 <= d /\ a < m THEN a ELSE m) + p
      <4>1. 0 <= d + 1 => 0 <= d \/ b = 0
        BY <3>4, <3>5
      <4>2. b = a + p
        BY <3>5
      <4>3. 0 <= d => 0 <= d + 1
        OBVIOUS
      <4> QED
        BY ONLY <4>1, <4>2, <4>3, d \in Int, a \in Int, b \in Int, m \in Nat, p \in Nat \ {0}
    <3> QED
      BY <3>1, <3>2, <3>3, <3>5, <3>6
  <2> QED
    BY <2>2, <2>3
<1> QED
  BY <1>1, <1>5, <1>6, <1>7, <1>8 DEF Load

\* A timer that is due is not within its interval.
LEMMA DueOutside ==
  ASSUME NEW d \in Int, NEW every \in Nat, Elapsed(d) > every
  PROVE  ~(0 <= d /\ d <= every)
<1>1. PICK m \in Nat \ {0} : m = ULONG_MAX + 1
  BY LoopAssumption DEF LoopAssumption
<1>2. ASSUME d \in Nat PROVE d % m <= d
  BY ONLY <1>2, m \in Nat \ {0}
<1>3. d % m \in Nat
  BY ONLY d \in Int, m \in Nat \ {0}
<1> QED
  BY <1>1, <1>2, <1>3 DEF Elapsed

\* How far the clock may be set, by every step of it.
Off ==
  CHOOSE r \in 0 .. ULONG_MAX :
    /\ \A d \in ClockSteps : -r <= d /\ d <= r
    /\ MaxFaults * r + Overdue <= ULONG_MAX
Reach(n) == n * Off

LEMMA ReachAdd ==
  ASSUME ClockInReach, NEW n \in 0 .. MaxFaults
  PROVE  /\ Reach(n) \in Nat /\ Reach(n) + Overdue <= ULONG_MAX
         /\ Off \in Nat /\ Reach(0) = 0 /\ Reach(n + 1) = Reach(n) + Off
         /\ \A d \in ClockSteps : -Off <= d /\ d <= Off
<1>1. /\ Off \in 0 .. ULONG_MAX
      /\ \A d \in ClockSteps : -Off <= d /\ d <= Off
      /\ MaxFaults * Off + Overdue <= ULONG_MAX
  BY DEF ClockInReach, Off
<1>2. ULONG_MAX \in Nat /\ MaxFaults \in Nat /\ TempEvery \in Nat
  BY LoopAssumption DEF LoopAssumption
<1>3. PICK x \in Nat, m \in Nat, u \in Nat, v \in Nat :
        x = Off /\ m = MaxFaults /\ u = ULONG_MAX /\ v = Overdue
  BY <1>1, <1>2 DEF Overdue
<1>4. PICK k \in Nat : m = n + k
  <2>1. m - n \in Nat /\ m = n + (m - n)
    BY <1>3
  <2> QED
    BY <2>1
<1>5. (n + k) * x = n * x + k * x /\ n * x \in Nat /\ k * x \in Nat /\ (n + 1) * x = n * x + x
      /\ 0 * x = 0
  <2>1. n \in Nat
    OBVIOUS
  <2> QED
    BY ONLY <2>1, k \in Nat, x \in Nat
<1>6. (n + k) * x + v <= u
  BY <1>1, <1>3, <1>4
<1>7. n * x + v <= u
  BY ONLY <1>5, <1>6, v \in Nat, u \in Nat
<1> QED
  BY <1>1, <1>3, <1>5, <1>7 DEF Reach

\* The differences lie where the clock can have brought them.
InReach(d) == -Reach(faults) <= d /\ d <= Overdue + Reach(faults)
InRange == InReach(pollDiff) /\ InReach(tempDiff)

\* There a timer that is not due is within its interval.
LEMMA NotDueInside ==
  ASSUME ClockInReach, TypeOK, NEW d \in Int, InReach(d),
         NEW every \in Nat, every <= TempEvery, ~(Elapsed(d) > every)
  PROVE  0 <= d /\ d <= every
<1>1. PICK u \in Nat, r \in Nat, t \in Nat : u = ULONG_MAX /\ r = Reach(faults) /\ t = TempEvery
  <2>1. ULONG_MAX \in Nat /\ TempEvery \in Nat
    BY LoopAssumption DEF LoopAssumption
  <2>2. Reach(faults) \in Nat
    BY ReachAdd DEF TypeOK
  <2> QED
    BY <2>1, <2>2
<1>2. r + (t + 1) <= u /\ -r <= d /\ d <= (t + 1) + r
  BY <1>1, ReachAdd DEF TypeOK, InReach, Overdue
<1>3. every <= t /\ ~(d % (u + 1) > every)
  BY <1>1 DEF Elapsed
<1>4. CASE d < 0
  <2>1. d % (u + 1) = d + (u + 1)
    <3>1. -(u + 1) <= d /\ d < 0
      BY ONLY <1>2, <1>4, u \in Nat, r \in Nat, t \in Nat, d \in Int
    <3> QED
      BY ONLY <3>1, u \in Nat, d \in Int
  <2> QED
    BY ONLY <1>2, <1>3, <2>1, u \in Nat, r \in Nat, t \in Nat, d \in Int, every \in Nat
<1>5. CASE 0 <= d
  <2>1. d % (u + 1) = d
    <3>1. 0 <= d /\ d < u + 1
      BY ONLY <1>2, <1>5, u \in Nat, r \in Nat, t \in Nat, d \in Int
    <3> QED
      BY ONLY <3>1, u \in Nat, d \in Int
  <2> QED
    BY ONLY <1>3, <1>5, <2>1, d \in Int, every \in Nat
<1> QED
  BY <1>4, <1>5

\* A batch is a temperature of each slave and a poll.
Batches(n) == n * (SlaveCount + 1)
Room == Batches(2 + faults) + commands

LEMMA BatchesAdd ==
  ASSUME NEW n \in Nat
  PROVE  /\ Batches(n) \in Nat /\ Batches(n + 1) = Batches(n) + SlaveCount + 1
         /\ Batches(0) = 0 /\ Batches(1) = SlaveCount + 1
         /\ Batches(n) + SlaveCount + 1 \in Nat
<1>1. PICK s \in Nat : s = SlaveCount
  BY Naturals
<1>2. /\ n * (s + 1) \in Nat /\ (n + 1) * (s + 1) = n * (s + 1) + (s + 1)
      /\ 0 * (s + 1) = 0 /\ 1 * (s + 1) = s + 1
  BY ONLY n \in Nat, s \in Nat
<1>3. n * (s + 1) + (s + 1) = n * (s + 1) + s + 1 /\ n * (s + 1) + s + 1 \in Nat
  BY ONLY <1>2, n \in Nat, s \in Nat
<1> QED
  BY <1>1, <1>2, <1>3 DEF Batches

\* The batches of this state, by what the last lemma says of them.
LEMMA Batched ==
  ASSUME TypeOK
  PROVE  \E b \in Nat :
           /\ Batches(faults) = b /\ Batches(1 + faults) = b + SlaveCount + 1
           /\ Batches(2 + faults) = b + 2 * (SlaveCount + 1)
           /\ Batches(3 + faults) = b + 3 * (SlaveCount + 1)
           /\ (faults >= 1 => SlaveCount + 1 <= b)
<1>1. faults \in Nat /\ SlaveCount \in Nat
  BY Naturals DEF TypeOK
<1>2. PICK f \in Nat, s \in Nat : f = faults /\ s = SlaveCount
  BY <1>1
<1>3. /\ Batches(f) \in Nat /\ Batches(1 + f) = Batches(f) + s + 1
      /\ Batches(2 + f) = Batches(1 + f) + s + 1
      /\ Batches(3 + f) = Batches(2 + f) + s + 1
  <2>1. 1 + f = f + 1 /\ 2 + f = (1 + f) + 1 /\ 3 + f = (2 + f) + 1 /\ 1 + f \in Nat /\ 2 + f \in Nat
    OBVIOUS
  <2> QED
    BY <1>2, <2>1, BatchesAdd
<1>4. f >= 1 => s + 1 <= Batches(f)
  <2> SUFFICES ASSUME f >= 1 PROVE s + 1 <= Batches(f)
    OBVIOUS
  <2>1. f - 1 \in Nat /\ f = (f - 1) + 1
    OBVIOUS
  <2>2. Batches(f) = Batches(f - 1) + s + 1 /\ Batches(f - 1) \in Nat
    BY <1>2, <2>1, BatchesAdd
  <2> QED
    BY <2>2
<1>5. PICK b \in Nat : b = Batches(f)
  BY <1>3
<1>6. /\ Batches(1 + f) = b + s + 1 /\ Batches(2 + f) = b + 2 * (s + 1)
      /\ Batches(3 + f) = b + 3 * (s + 1)
  BY <1>3, <1>5
<1> QED
  BY <1>2, <1>4, <1>5, <1>6

-----------------------------------------------------------------------------
(* What the steps do to the work.                                          *)

\* Where there is something to push, where the writer is free, who counts.
Places ==
  /\ pc # "push" => todo = <<>>
  /\ waiting => busy = 0
  /\ pc \notin {"select", "sleep"} => left = 0

LEMMA WorkTyped ==
  ASSUME TypeOK
  PROVE  /\ Work \in Nat /\ Len(queue) \in Nat /\ Len(todo) \in Nat /\ busy \in Nat
         /\ Len(todo) <= SlaveCount + 1 /\ busy <= 1
BY DEF TypeOK, Work

\* The writer and the pushes hand the work on.
LEMMA WorkKept ==
  ASSUME TypeOK,
         \/ Select \/ IsConnected \/ IsNotConnected \/ Reconnect \/ Polling \/ RequestTemperature
         \/ AllPushed \/ Listen \/ NothingToHear \/ Writer \/ Emergency \/ SetClock \/ UNCHANGED vars
  PROVE  Work' = Work
<1> USE DEF TypeOK
<1>1. CASE \/ Select \/ IsConnected \/ IsNotConnected \/ Reconnect \/ AllPushed \/ Listen
           \/ NothingToHear \/ Emergency \/ SetClock \/ UNCHANGED vars
  <2>1. UNCHANGED <<queue, todo, busy>>
    BY <1>1 DEF Select, IsConnected, IsNotConnected, Reconnect, AllPushed, Listen, NothingToHear,
                Emergency, SetClock, writer, main, vars
  <2> QED
    BY <2>1 DEF Work
<1>2. CASE Polling \/ RequestTemperature
  <2>1. \E k \in Kind : queue' = Append(queue, k)
    BY <1>2 DEF Polling, RequestTemperature, Push, Kind
  <2>2. Len(queue') = Len(queue) + 1
    BY <2>1
  <2>3. todo # <<>> /\ todo' = Tail(todo) /\ busy' = busy
    BY <1>2 DEF Polling, RequestTemperature
  <2>4. Len(todo') = Len(todo) - 1
    BY <2>3
  <2> QED
    BY <2>2, <2>3, <2>4 DEF Work
<1>3. CASE Write
  <2>1. queue # <<>> /\ queue' = Tail(queue) /\ busy = 0 /\ busy' = 1 /\ todo' = todo
    BY <1>3 DEF Write, main
  <2>2. Len(queue') = Len(queue) - 1
    BY <2>1
  <2> QED
    BY <2>1, <2>2 DEF Work
<1>4. CASE WaitForNotify \/ SpuriousWake
  <2>1. UNCHANGED <<queue, todo, busy>>
    BY <1>4 DEF WaitForNotify, SpuriousWake, main
  <2> QED
    BY <2>1 DEF Work
<1> QED
  BY <1>1, <1>2, <1>3, <1>4 DEF Writer

LEMMA WorkSent ==
  ASSUME TypeOK, OnMessage
  PROVE  Work' = Work + 1
<1>1. queue' = Append(queue, "command") /\ "command" \in Kind /\ UNCHANGED <<todo, busy>>
  BY DEF OnMessage, Push, Kind
<1>2. Len(queue') = Len(queue) + 1
  BY <1>1 DEF TypeOK
<1> QED
  BY <1>1, <1>2, WorkTyped DEF Work

LEMMA WorkDone ==
  ASSUME TypeOK, Tick
  PROVE  IF busy > 0 THEN Work = Work' + 1 ELSE Work' = Work /\ waiting /\ waiting'
<1>1. UNCHANGED <<queue, todo, waiting>> /\ busy' = Less(busy) /\ (busy > 0 \/ waiting)
  BY DEF Tick
<1>2. busy = 0 \/ busy = 1
  BY DEF TypeOK
<1> QED
  BY <1>1, <1>2, WorkTyped DEF Work, Less

PollDue == Elapsed(pollDiff) > PollEvery
TempDue == Elapsed(tempDiff) > TempEvery

\* What a turn has to push, by the timers that are due.
LEMMA WorkRead ==
  ASSUME TypeOK, Places, ReadClock
  PROVE  /\ Work' = Work + (IF PollDue THEN 1 ELSE 0) + (IF TempDue THEN SlaveCount ELSE 0)
         /\ PollDue => todo' # <<>> /\ Head(todo') = "poll"
         /\ ~PollDue /\ ~TempDue => todo' = <<>>
         /\ PollDue /\ ~TempDue => todo' = <<"poll">>
         /\ todo = <<>> /\ Len(todo') <= SlaveCount + 1
<1> DEFINE n == IF TempDue THEN SlaveCount ELSE 0
           polls == IF PollDue THEN <<"poll">> ELSE <<>>
           temperatures == [i \in 1 .. n |-> "temperature"]
<1>2. todo' = polls \o temperatures /\ UNCHANGED <<queue, busy>> /\ pc = "clock"
  BY DEF ReadClock, writer, PollDue, TempDue
<1>3. todo = <<>>
  BY <1>2 DEF Places
<1>4. n \in Nat
  BY Naturals
<1>5. /\ polls \in Seq(Kind) /\ Len(polls) = IF PollDue THEN 1 ELSE 0
      /\ (PollDue => polls = <<"poll">>) /\ (~PollDue => polls = <<>>)
  <2>1. <<"poll">> \in Seq(Kind) /\ Len(<<"poll">>) = 1
    BY DEF Kind
  <2>2. <<>> \in Seq(Kind) /\ Len(<<>>) = 0
    OBVIOUS
  <2>3. (PollDue => polls = <<"poll">>) /\ (~PollDue => polls = <<>>)
    OBVIOUS
  <2> QED
    BY <2>1, <2>2, <2>3
<1>6. temperatures \in Seq(Kind) /\ Len(temperatures) = n /\ (~TempDue => temperatures = <<>>)
  <2>0. ~TempDue => n = 0
    OBVIOUS
  <2> HIDE DEF n
  <2>1. temperatures \in [1 .. n -> Kind]
    BY DEF Kind
  <2>2. temperatures \in Seq(Kind)
    BY <1>4, <2>1
  <2>3. DOMAIN temperatures = 1 .. n
    OBVIOUS
  <2>4. Len(temperatures) = n
    BY <1>4, <2>2, <2>3
  <2> HIDE DEF temperatures
  <2>5. ~TempDue => temperatures = <<>>
    BY <2>0, <2>2, <2>4, EmptySeq
  <2> QED
    BY <2>2, <2>4, <2>5
<1> HIDE DEF polls, temperatures
<1>7. Len(todo') = Len(polls) + Len(temperatures)
  <2>1. polls \in Seq(Kind) /\ temperatures \in Seq(Kind)
    BY <1>5, <1>6
  <2> QED
    BY <1>2, <2>1
<1>8. Work' = Work + (IF PollDue THEN 1 ELSE 0) + (IF TempDue THEN SlaveCount ELSE 0)
  BY SMTT(30), <1>2, <1>3, <1>4, <1>5, <1>6, <1>7, WorkTyped DEF Work
<1>9. PollDue => todo' # <<>> /\ Head(todo') = "poll"
  <2> SUFFICES ASSUME PollDue PROVE todo' # <<>> /\ Head(todo') = "poll"
    OBVIOUS
  <2>1. todo' = <<"poll">> \o temperatures
    BY <1>2, <1>5
  <2> QED
    BY <1>6, <2>1
<1>10. ~TempDue => todo' = polls
  BY <1>2, <1>5, <1>6
<1> QED
  BY <1>3, <1>4, <1>5, <1>6, <1>7, <1>8, <1>9, <1>10, Naturals

LEMMA PlacesStep ==
  ASSUME TypeOK, Places, [Next]_vars
  PROVE  Places'
<1> USE DEF Places
<1>1. CASE Select \/ IsConnected \/ IsNotConnected \/ Reconnect \/ AllPushed \/ NothingToHear \/ Listen
  BY <1>1 DEF Select, IsConnected, IsNotConnected, Reconnect, AllPushed, NothingToHear, Listen, writer
<1>2. CASE OnMessage \/ Polling \/ RequestTemperature
  BY <1>2 DEF OnMessage, Polling, RequestTemperature, Push
<1>3. CASE ReadClock
  BY <1>3 DEF ReadClock, writer
<1>4. CASE Write \/ WaitForNotify \/ SpuriousWake
  BY <1>4 DEF Write, WaitForNotify, SpuriousWake, main
<1>5. CASE Tick
  <2>1. busy \in Nat /\ left \in Nat
    BY DEF TypeOK
  <2> QED
    BY <1>5, <2>1 DEF Tick, Less
<1>6. CASE Emergency \/ SetClock \/ UNCHANGED vars
  BY <1>6 DEF Emergency, SetClock, main, writer, vars
<1> QED
  BY <1>1, <1>2, <1>3, <1>4, <1>5, <1>6 DEF Next, MainThread, Writer

\* The steps that leave the timers and the faults alone.
LEMMA TimersKept ==
  ASSUME \/ Select \/ OnMessage \/ IsConnected \/ Reconnect \/ Polling \/ RequestTemperature
         \/ AllPushed \/ Listen \/ NothingToHear \/ Writer \/ Emergency \/ UNCHANGED vars
  PROVE  UNCHANGED <<pollDiff, tempDiff, faults>>
BY DEF Select, OnMessage, IsConnected, Reconnect, Polling, RequestTemperature, AllPushed, Listen,
       NothingToHear, Writer, Write, WaitForNotify, SpuriousWake, Emergency, vars, history, timers

LEMMA InRangeStep ==
  ASSUME ClockInReach, TypeOK, TypeOK', InRange, [Next]_vars
  PROVE  InRange'
<1>1. PICK r \in Nat, v \in Nat : r = Reach(faults) /\ v = Overdue
  <2>1. Reach(faults) \in Nat
    BY ReachAdd DEF TypeOK
  <2>2. Overdue \in Nat
    BY Naturals DEF Overdue
  <2> QED
    BY <2>1, <2>2
<1>2. PICK q \in Nat : q = Reach(faults')
  BY ReachAdd DEF TypeOK
<1>3. /\ -r <= pollDiff /\ pollDiff <= v + r
      /\ -r <= tempDiff /\ tempDiff <= v + r
  BY <1>1 DEF InRange, InReach
<1>4. SUFFICES /\ -q <= pollDiff' /\ pollDiff' <= v + q
               /\ -q <= tempDiff' /\ tempDiff' <= v + q
  BY <1>1, <1>2 DEF InRange, InReach, Overdue
<1>5. pollDiff \in Int /\ tempDiff \in Int /\ pollDiff' \in Int /\ tempDiff' \in Int
  BY DEF TypeOK
<1>6. faults' = faults => q = r
  BY <1>1, <1>2
<1>7. CASE \/ Select \/ OnMessage \/ IsConnected \/ Reconnect \/ Polling \/ RequestTemperature
           \/ AllPushed \/ Listen \/ NothingToHear \/ Writer \/ Emergency \/ UNCHANGED vars
  BY <1>3, <1>6, <1>7, TimersKept
<1>8. faults' = faults + 1 => q = r + Off /\ Off \in Nat
  BY <1>1, <1>2, ReachAdd DEF TypeOK
<1>9. CASE IsNotConnected
  <2>1. faults' = faults + 1 /\ UNCHANGED <<pollDiff, tempDiff>>
    BY <1>9 DEF IsNotConnected, timers
  <2>2. q >= r
    BY <1>8, <2>1
  <2> QED
    BY <1>3, <1>5, <2>1, <2>2
<1>10. CASE ReadClock
  <2>1. /\ pollDiff' = 0 \/ pollDiff' = pollDiff
        /\ tempDiff' = 0 \/ tempDiff' = tempDiff
        /\ faults' = faults
    BY <1>10 DEF ReadClock
  <2> QED
    BY <1>3, <1>5, <1>6, <2>1
<1>11. CASE Tick
  <2>1. pollDiff' = Later(pollDiff) /\ tempDiff' = Later(tempDiff) /\ faults' = faults
    BY <1>11 DEF Tick
  <2>2. ASSUME NEW d \in Int, -r <= d, d <= v + r PROVE -r <= Later(d) /\ Later(d) <= v + r
    BY <1>1, <2>2 DEF Later
  <2> QED
    BY <1>3, <1>5, <1>6, <2>1, <2>2
<1>12. CASE SetClock
  <2>1. PICK d \in ClockSteps : pollDiff' = pollDiff + d /\ tempDiff' = tempDiff + d
    BY <1>12 DEF SetClock
  <2>2. faults' = faults + 1
    BY <1>12 DEF SetClock
  <2>3. PICK x \in Nat : x = Off
    BY <1>8, <2>2
  <2>4. -x <= d /\ d <= x /\ d \in Int
    BY <2>3, ReachAdd, Naturals DEF TypeOK
  <2>5. q = r + x
    BY <1>8, <2>2, <2>3
  <2> QED
    BY ONLY <1>3, <1>5, <2>1, <2>4, <2>5, r \in Nat, q \in Nat, x \in Nat, v \in Nat
<1> QED
  BY <1>7, <1>9, <1>10, <1>11, <1>12 DEF Next, MainThread

-----------------------------------------------------------------------------
(* The temperatures nobody notified the writer of.                         *)

PollFirst == todo # <<>> /\ Head(todo) = "poll"

\* The temperatures were requested last, or both in the same turn.
InOrder == 0 <= tempDiff /\ tempDiff <= pollDiff

\* Without a fault a turn that requests temperatures polls first, or has polled
\* within the interval.
Ordered == todo # <<>> /\ todo # <<"poll">> => faults >= 1 \/ InOrder

\* While the writer waits there is one batch for every fault, and one more after
\* the temperatures were requested: the poll that follows notifies it.
Unnotified ==
  waiting /\ ~PollFirst =>
    Work <= Batches(faults) \/ (Work <= Batches(1 + faults) /\ InOrder)

\* Later keeps the order of the differences.
LEMMA InOrderLater ==
  ASSUME TypeOK, InOrder, Tick
  PROVE  InOrder'
<1>1. pollDiff' = Later(pollDiff) /\ tempDiff' = Later(tempDiff)
  BY DEF Tick
<1>2. ASSUME NEW a \in Int, NEW b \in Int, 0 <= a, a <= b PROVE 0 <= Later(a) /\ Later(a) <= Later(b)
  BY <1>2, Naturals DEF Later, Overdue
<1> QED
  BY <1>1, <1>2 DEF InOrder, TypeOK

\* What a turn finds at the timers.
LEMMA TimersRead ==
  ASSUME Capacity, ClockInReach, TypeOK, InRange, ReadClock
  PROVE  /\ pollDiff' = IF PollDue THEN 0 ELSE pollDiff
         /\ tempDiff' = IF TempDue THEN 0 ELSE tempDiff
         /\ PollDue => ~(0 <= pollDiff /\ pollDiff <= PollEvery)
         /\ TempDue => ~(0 <= tempDiff /\ tempDiff <= TempEvery)
         /\ ~PollDue => 0 <= pollDiff /\ pollDiff <= PollEvery
         /\ ~TempDue => 0 <= tempDiff /\ tempDiff <= TempEvery
         /\ UNCHANGED <<faults, commands, alarms, waiting>>
<1>1. pollDiff \in Int /\ tempDiff \in Int /\ InReach(pollDiff) /\ InReach(tempDiff)
  BY DEF TypeOK, InRange
<1>2. PollEvery \in Nat /\ TempEvery \in Nat /\ PollEvery <= TempEvery /\ TempEvery <= TempEvery
  BY Units
<1>3. PollDue => ~(0 <= pollDiff /\ pollDiff <= PollEvery)
  BY <1>1, <1>2, DueOutside DEF PollDue, TempDue
<1>4. TempDue => ~(0 <= tempDiff /\ tempDiff <= TempEvery)
  BY <1>1, <1>2, DueOutside DEF PollDue, TempDue
<1>5. ~PollDue => 0 <= pollDiff /\ pollDiff <= PollEvery
  BY <1>1, <1>2, NotDueInside DEF PollDue, TempDue
<1>6. ~TempDue => 0 <= tempDiff /\ tempDiff <= TempEvery
  BY <1>1, <1>2, NotDueInside DEF PollDue, TempDue
<1>7. /\ pollDiff' = IF PollDue THEN 0 ELSE pollDiff
      /\ tempDiff' = IF TempDue THEN 0 ELSE tempDiff
      /\ UNCHANGED <<faults, commands, alarms, waiting>>
  BY DEF ReadClock, writer, PollDue, TempDue
<1> QED
  BY <1>3, <1>4, <1>5, <1>6, <1>7

LEMMA OrderedStep ==
  ASSUME Capacity, ClockInReach, TypeOK, TypeOK', Places, InRange, Ordered, [Next]_vars
  PROVE  Ordered'
<1> USE DEF Ordered
<1>0. faults \in Nat /\ faults' \in Nat /\ pollDiff \in Int /\ tempDiff \in Int
  BY DEF TypeOK
<1>1. CASE \/ Select \/ OnMessage \/ IsConnected \/ Reconnect \/ AllPushed \/ Listen
           \/ NothingToHear \/ Writer \/ Emergency \/ UNCHANGED vars
  <2>1. todo' = todo
    BY <1>1 DEF Select, OnMessage, IsConnected, Reconnect, AllPushed, Listen, NothingToHear, Writer,
                Write, WaitForNotify, SpuriousWake, Emergency, vars, main
  <2>2. InOrder' <=> InOrder
    BY <1>1, TimersKept DEF InOrder
  <2> QED
    BY <1>1, <2>1, <2>2, TimersKept
<1>2. CASE Polling \/ RequestTemperature
  <2>1. todo # <<>> /\ todo' = Tail(todo) /\ todo \in Seq(Kind)
    BY <1>2 DEF Polling, RequestTemperature, TypeOK
  <2>2. todo = <<"poll">> => todo' = <<>>
    BY <2>1
  <2>3. InOrder' <=> InOrder
    BY <1>2, TimersKept DEF InOrder
  <2> QED
    BY <1>2, <2>1, <2>2, <2>3, TimersKept
<1>3. CASE IsNotConnected \/ SetClock
  <2>1. faults' = faults + 1
    BY <1>3 DEF IsNotConnected, SetClock
  <2> QED
    BY <1>0, <2>1
<1>4. CASE Tick
  <2>1. UNCHANGED <<todo, faults>>
    BY <1>4 DEF Tick
  <2> QED
    BY <1>4, <2>1, InOrderLater
<1>5. CASE ReadClock
  <2>1. ~PollDue /\ ~TempDue => todo' = <<>>
    BY <1>5, WorkRead
  <2>2. PollDue /\ ~TempDue => todo' = <<"poll">>
    BY <1>5, WorkRead
  <2>3. TempDue => tempDiff' = 0 /\ 0 <= pollDiff'
    <3>1. /\ pollDiff' = IF PollDue THEN 0 ELSE pollDiff
          /\ tempDiff' = IF TempDue THEN 0 ELSE tempDiff
          /\ ~PollDue => 0 <= pollDiff
      BY <1>5, TimersRead
    <3> QED
      BY <3>1
  <2>4. TempDue => InOrder'
    BY <2>3 DEF InOrder
  <2> QED
    BY <2>1, <2>2, <2>4
<1> QED
  BY <1>1, <1>2, <1>3, <1>4, <1>5 DEF Next, MainThread

\* More faults make room for more.
LEMMA BatchesGrow ==
  ASSUME TypeOK, TypeOK', faults' = faults + 1
  PROVE  /\ Batches(faults') = Batches(1 + faults)
         /\ Batches(1 + faults') = Batches(2 + faults)
         /\ Batches(2 + faults') = Batches(3 + faults)
<1>1. faults \in Nat
  BY DEF TypeOK
<1>2. faults' = 1 + faults /\ 1 + faults' = 2 + faults /\ 2 + faults' = 3 + faults
  BY <1>1
<1> QED
  BY <1>2 DEF Batches

LEMMA UnnotifiedStep ==
  ASSUME Capacity, ClockInReach, TypeOK, TypeOK', Places, InRange, Ordered, Unnotified, [Next]_vars
  PROVE  Unnotified'
<1>0. SUFFICES ASSUME waiting', ~PollFirst'
               PROVE  \/ Work' <= Batches(faults')
                      \/ Work' <= Batches(1 + faults') /\ InOrder'
  <2>1. (1 + faults)' = 1 + faults'
    OBVIOUS
  <2> QED
    BY DEF Unnotified, Batches
<1>1. PICK b \in Nat, s \in Nat, w \in Nat :
        /\ s = SlaveCount /\ w = Work
        /\ Batches(faults) = b /\ Batches(1 + faults) = b + s + 1 /\ Batches(2 + faults) = b + 2 * (s + 1)
        /\ (faults >= 1 => s + 1 <= b)
  BY Batched, WorkTyped, Naturals
<1>2. waiting /\ ~PollFirst => w <= b \/ (w <= b + s + 1 /\ InOrder)
  BY <1>1 DEF Unnotified
<1>3. CASE Work' = Work /\ waiting /\ ~PollFirst /\ (InOrder => InOrder') /\ faults' = faults
  BY <1>1, <1>2, <1>3
<1>4. CASE \/ Select \/ IsConnected \/ Reconnect \/ AllPushed \/ Listen \/ NothingToHear
           \/ Emergency \/ UNCHANGED vars
  <2>1. UNCHANGED <<todo, waiting>>
    BY <1>4 DEF Select, IsConnected, Reconnect, AllPushed, Listen, NothingToHear, Emergency, vars, main,
                writer
  <2>2. waiting /\ ~PollFirst
    BY <1>0, <2>1 DEF PollFirst
  <2>3. UNCHANGED <<pollDiff, tempDiff, faults>> /\ Work' = Work
    BY <1>4, TimersKept, WorkKept
  <2> QED
    BY <1>3, <2>2, <2>3 DEF InOrder
<1>5. CASE IsNotConnected \/ SetClock
  <2>1. faults' = faults + 1 /\ UNCHANGED <<todo, waiting>> /\ Work' = Work
    BY <1>5, WorkKept DEF IsNotConnected, SetClock, main, writer
  <2>2. waiting /\ ~PollFirst
    BY <1>0, <2>1 DEF PollFirst
  <2>3. w <= b + s + 1
    BY <1>2, <2>2
  <2> QED
    BY <1>1, <2>1, <2>3, BatchesGrow
<1>6. CASE OnMessage \/ Polling \/ SpuriousWake \/ Write
  <2>1. waiting' = FALSE
    BY <1>6 DEF OnMessage, Polling, Push, SpuriousWake, Write, TypeOK
  <2> QED
    BY <1>0, <2>1
<1>7. CASE RequestTemperature
  <2>1. waiting /\ ~PollFirst
    BY <1>0, <1>7 DEF RequestTemperature, Push, PollFirst
  <2>2. UNCHANGED <<pollDiff, tempDiff, faults>> /\ Work' = Work
    BY <1>7, TimersKept, WorkKept
  <2> QED
    BY <1>3, <2>1, <2>2 DEF InOrder
<1>8. CASE WaitForNotify
  <2>1. /\ queue = <<>> /\ busy = 0
        /\ UNCHANGED <<todo, faults, pollDiff, tempDiff>> /\ Work' = Work
    BY <1>8, TimersKept, WorkKept DEF WaitForNotify, Writer, main
  <2>2. w = Len(todo) /\ w <= s + 1
    BY <1>1, <2>1, WorkTyped DEF Work
  <2>3. CASE todo = <<>>
    <3>1. w = 0
      BY <2>2, <2>3
    <3> QED
      BY <1>1, <2>1, <3>1
  <2>4. CASE todo # <<>>
    <3>1. todo # <<"poll">>
      <4>1. Head(todo) # "poll"
        BY <1>0, <2>1, <2>4 DEF PollFirst
      <4> QED
        BY <4>1
    <3>2. faults >= 1 \/ InOrder'
      BY <2>1, <2>4, <3>1 DEF Ordered, InOrder
    <3>3. w <= b + s + 1 /\ (faults >= 1 => w <= b)
      BY <1>1, <2>2
    <3> QED
      BY <1>1, <2>1, <3>2, <3>3
  <2> QED
    BY <2>3, <2>4
<1>9. CASE ReadClock
  <2>1. /\ Work' = Work + (IF PollDue THEN 1 ELSE 0) + (IF TempDue THEN SlaveCount ELSE 0)
        /\ PollDue => PollFirst'
        /\ todo = <<>>
    BY <1>9, WorkRead DEF PollFirst
  <2>2. /\ pollDiff' = IF PollDue THEN 0 ELSE pollDiff
        /\ tempDiff' = IF TempDue THEN 0 ELSE tempDiff
        /\ TempDue => ~(0 <= tempDiff /\ tempDiff <= TempEvery)
        /\ ~PollDue => 0 <= pollDiff /\ pollDiff <= PollEvery
        /\ UNCHANGED <<faults, waiting>>
    BY <1>9, TimersRead
  <2>3. ~PollDue /\ waiting /\ ~PollFirst
    BY <1>0, <2>1, <2>2 DEF PollFirst
  <2>4. pollDiff' = pollDiff /\ 0 <= pollDiff /\ pollDiff <= PollEvery
    BY <2>2, <2>3
  <2>5. CASE ~TempDue
    BY <1>3, <2>1, <2>2, <2>3, <2>4, <2>5, WorkTyped DEF InOrder
  <2>6. CASE TempDue
    <3>1. ~InOrder
      <4>1. PollEvery <= TempEvery /\ PollEvery \in Nat /\ TempEvery \in Nat
        BY Units
      <4>2. pollDiff \in Int /\ tempDiff \in Int
        BY DEF TypeOK
      <4>3. InOrder => 0 <= tempDiff /\ tempDiff <= TempEvery
        BY <2>4, <4>1, <4>2 DEF InOrder
      <4> QED
        BY <2>2, <2>6, <4>3
    <3>2. w <= b
      BY <1>2, <2>3, <3>1
    <3>3. Work' = w + s
      BY <1>1, <2>1, <2>3, <2>6
    <3>4. InOrder'
      BY <2>2, <2>4, <2>6 DEF InOrder
    <3> QED
      BY <1>1, <2>2, <3>2, <3>3, <3>4
  <2> QED
    BY <2>5, <2>6
<1>10. CASE Tick
  <2>1. UNCHANGED <<todo, waiting, faults>>
    BY <1>10 DEF Tick
  <2>2. waiting /\ ~PollFirst
    BY <1>0, <2>1 DEF PollFirst
  <2>3. Work' = Work
    BY <1>10, <2>2, WorkDone DEF Places
  <2> QED
    BY <1>3, <1>10, <2>1, <2>2, <2>3, InOrderLater
<1> QED
  BY <1>4, <1>5, <1>6, <1>7, <1>8, <1>9, <1>10 DEF Next, MainThread, Writer

-----------------------------------------------------------------------------
(* The backlog.                                                            *)

Credits == PollCredit(pollDiff) + TempCredit(tempDiff)

\* What there is to write, with what the timers have saved up, is within what
\* the writer will have the time for.
Covered == Load(Work) + Credits <= Load(Room)

LEMMA CreditsBounded ==
  ASSUME Capacity, TypeOK
  PROVE  Credits \in Nat /\ Credits <= Load(SlaveCount + 1)
<1>1. PICK p \in Nat, t \in Nat, x \in Nat, y \in Nat :
        /\ p = PollCredit(pollDiff) /\ t = TempCredit(tempDiff) /\ x = D /\ y = Load(SlaveCount)
        /\ p <= x /\ t <= y /\ Load(SlaveCount + 1) = y + x
  <2>1. pollDiff \in Int /\ tempDiff \in Int /\ SlaveCount \in Nat /\ 1 \in Nat
    BY Naturals DEF TypeOK
  <2>2. Load(SlaveCount + 1) = Load(SlaveCount) + D /\ Load(SlaveCount) \in Nat
    BY <2>1, LoadAdd
  <2>3. D \in Nat
    BY Units
  <2>4. PollCredit(pollDiff) \in Nat /\ PollCredit(pollDiff) <= D
    BY <2>1, PollCredits
  <2>5. TempCredit(tempDiff) \in Nat /\ TempCredit(tempDiff) <= Load(SlaveCount)
    BY <2>1, TempCredits
  <2> QED
    BY <2>2, <2>3, <2>4, <2>5
<1> QED
  BY <1>1 DEF Credits

LEMMA RoomTyped ==
  ASSUME TypeOK
  PROVE  Room \in Nat /\ commands \in Nat /\ Room = Batches(1 + faults) + SlaveCount + 1 + commands
<1>1. commands \in Nat /\ SlaveCount \in Nat
  BY Naturals DEF TypeOK
<1> QED
  BY <1>1, Batched DEF Room

\* What the room does when the faults or the commands grow.
LEMMA RoomStep ==
  ASSUME TypeOK, TypeOK'
  PROVE  /\ faults' = faults /\ commands' = commands => Room' = Room
         /\ faults' = faults + 1 /\ commands' = commands => Room' = Room + (SlaveCount + 1)
         /\ faults' = faults /\ commands' = commands + 1 => Room' = Room + 1
<1>1. commands \in Nat /\ commands' \in Nat /\ SlaveCount \in Nat
  BY Naturals DEF TypeOK
<1>2. Room' = Batches(2 + faults') + commands'
  BY DEF Room, Batches
<1>3. PICK b \in Nat : /\ Batches(2 + faults) = b + 2 * (SlaveCount + 1)
                       /\ Batches(3 + faults) = b + 3 * (SlaveCount + 1)
  BY Batched
<1>4. Room = b + 2 * (SlaveCount + 1) + commands
  BY <1>3 DEF Room
<1>5. faults' = faults => Room' = b + 2 * (SlaveCount + 1) + commands'
  BY <1>2, <1>3
<1>6. faults' = faults + 1 => Room' = b + 3 * (SlaveCount + 1) + commands'
  BY <1>2, <1>3, BatchesGrow
<1> QED
  BY <1>1, <1>4, <1>5, <1>6

\* A batch less than the room covers whatever the timers have saved up.
LEMMA CoveredAnyway ==
  ASSUME Capacity, TypeOK, Work <= Batches(1 + faults)
  PROVE  Covered
<1>1. PICK w \in Nat, r \in Nat, s \in Nat, c \in Nat :
        /\ w = Work /\ r = Room /\ s = SlaveCount + 1 /\ c = Credits
        /\ w + s <= r /\ c <= Load(s)
  <2>1. PICK b \in Nat : Batches(1 + faults) = b + SlaveCount + 1
    BY Batched
  <2>2. Work + (SlaveCount + 1) <= Room
    BY <2>1, RoomTyped, WorkTyped, Naturals
  <2>3. Work \in Nat /\ Room \in Nat /\ SlaveCount + 1 \in Nat /\ Credits \in Nat
    BY RoomTyped, WorkTyped, Naturals, CreditsBounded
  <2> QED
    BY <2>2, <2>3, CreditsBounded
<1>2. Load(w + s) = Load(w) + Load(s) /\ Load(w) \in Nat /\ Load(s) \in Nat
  BY LoadAdd
<1>3. Load(w + s) <= Load(r) /\ Load(r) \in Nat
  <2>1. w + s \in Nat
    OBVIOUS
  <2> QED
    BY <1>1, <2>1, LoadAdd, LoadOrder
<1>4. Load(w) + c <= Load(r)
  BY <1>1, <1>2, <1>3
<1> QED
  BY <1>1, <1>4 DEF Covered

LEMMA CoveredWaiting ==
  ASSUME Capacity, TypeOK, Unnotified, waiting, ~PollFirst
  PROVE  Covered
<1>1. Work <= Batches(1 + faults)
  <2>1. PICK b \in Nat : Batches(faults) = b /\ Batches(1 + faults) = b + SlaveCount + 1
    BY Batched
  <2>2. Work <= Batches(faults) \/ Work <= Batches(1 + faults)
    BY DEF Unnotified
  <2> QED
    BY <2>1, <2>2, WorkTyped, Naturals
<1> QED
  BY <1>1, CoveredAnyway

\* A half second of the writer is worth what the timers save up in it.
LEMMA CreditsLater ==
  ASSUME Capacity, TypeOK, Tick
  PROVE  Credits' <= Credits + D
<1>1. pollDiff' = Later(pollDiff) /\ tempDiff' = Later(tempDiff) /\ pollDiff \in Int /\ tempDiff \in Int
  BY DEF Tick, TypeOK
<1>2. Later(pollDiff) \in Int /\ Later(tempDiff) \in Int
  BY <1>1 DEF Later
<1>3. PICK p \in Nat, t \in Nat, q \in Nat, u \in Nat, x \in Nat :
        /\ p = PollCredit(pollDiff) /\ t = TempCredit(tempDiff) /\ x = PollEvery /\ D = x + 1
        /\ q = PollCredit(Later(pollDiff)) /\ u = TempCredit(Later(tempDiff))
  <2>1. PollCredit(pollDiff) \in Nat /\ PollCredit(Later(pollDiff)) \in Nat
    BY <1>1, <1>2, PollCredits
  <2>2. TempCredit(tempDiff) \in Nat /\ TempCredit(Later(tempDiff)) \in Nat
    BY <1>1, <1>2, TempCredits
  <2>3. PollEvery \in Nat /\ D = PollEvery + 1
    BY Units
  <2> QED
    BY <2>1, <2>2, <2>3
<1>4. q <= p + 1
  BY <1>1, <1>3, PollCredits
<1>5. u <= t + x
  BY <1>1, <1>3, TempCredits
<1>6. Credits = p + t
  BY <1>3 DEF Credits
<1>7. Credits' = q + u
  BY <1>1, <1>3 DEF Credits, PollCredit, TempCredit, D
<1> QED
  BY ONLY <1>3, <1>4, <1>5, <1>6, <1>7

\* What a timer has saved up pays for what it has to push.
LEMMA CreditsRead ==
  ASSUME Capacity, ClockInReach, TypeOK, InRange, ReadClock
  PROVE  Credits = Credits' + (IF PollDue THEN D ELSE 0) + (IF TempDue THEN Load(SlaveCount) ELSE 0)
<1>1. /\ pollDiff \in Int /\ tempDiff \in Int
      /\ pollDiff' = IF PollDue THEN 0 ELSE pollDiff
      /\ tempDiff' = IF TempDue THEN 0 ELSE tempDiff
      /\ PollDue => ~(0 <= pollDiff /\ pollDiff <= PollEvery)
      /\ TempDue => ~(0 <= tempDiff /\ tempDiff <= TempEvery)
  BY TimersRead DEF TypeOK
<1>2. Credits' = PollCredit(pollDiff') + TempCredit(tempDiff')
  BY DEF Credits, PollCredit, TempCredit, D
<1>3. PollCredit(pollDiff) = PollCredit(pollDiff') + (IF PollDue THEN D ELSE 0)
  <2>1. CASE PollDue
    <3>1. pollDiff' = 0 /\ PollCredit(0) = 0 /\ PollCredit(pollDiff) = D /\ D \in Nat
      BY <1>1, <2>1, PollCredits, Units
    <3> QED
      BY <2>1, <3>1
  <2>2. CASE ~PollDue
    <3>1. pollDiff' = pollDiff /\ PollCredit(pollDiff) \in Nat
      BY <1>1, <2>2, PollCredits
    <3> QED
      BY <2>2, <3>1
  <2> QED
    BY <2>1, <2>2
<1>4. TempCredit(tempDiff) = TempCredit(tempDiff') + (IF TempDue THEN Load(SlaveCount) ELSE 0)
  <2>1. CASE TempDue
    <3>1. tempDiff' = 0 /\ TempCredit(0) = 0 /\ TempCredit(tempDiff) = Load(SlaveCount)
      BY <1>1, <2>1, TempCredits
    <3>2. Load(SlaveCount) \in Nat
      BY Naturals, LoadAdd
    <3> QED
      BY <2>1, <3>1, <3>2
  <2>2. CASE ~TempDue
    <3>1. tempDiff' = tempDiff /\ TempCredit(tempDiff) \in Nat
      BY <1>1, <2>2, TempCredits
    <3> QED
      BY <2>2, <3>1
  <2> QED
    BY <2>1, <2>2
<1>5. PollCredit(pollDiff') \in Nat /\ TempCredit(tempDiff') \in Nat /\ D \in Nat /\ Load(SlaveCount) \in Nat
  <2>1. pollDiff' \in Int /\ tempDiff' \in Int
    BY <1>1
  <2> QED
    BY <2>1, PollCredits, TempCredits, Units, Naturals, LoadAdd
<1> QED
  BY <1>2, <1>3, <1>4, <1>5 DEF Credits

LEMMA CoveredStep ==
  ASSUME Capacity, ClockInReach, TypeOK, TypeOK', Places, InRange, Covered, Unnotified', [Next]_vars
  PROVE  Covered'
<1>1. PICK w \in Nat, r \in Nat, c \in Nat, d \in Nat :
        w = Work /\ r = Room /\ c = Credits /\ d = D /\ Load(w) + c <= Load(r)
  BY WorkTyped, RoomTyped, CreditsBounded, Units DEF Covered
<1>2. PICK v \in Nat, q \in Nat, e \in Nat :
        v = Work' /\ q = Room' /\ e = Credits' /\ e <= Load(SlaveCount + 1)
  <2>1. (TypeOK => Work \in Nat)'
    BY WorkTyped, PTL
  <2>2. (TypeOK => Room \in Nat)'
    BY RoomTyped, PTL
  <2>3. (Capacity /\ TypeOK => Credits \in Nat /\ Credits <= Load(SlaveCount + 1))'
    BY CreditsBounded, PTL
  <2>4. Capacity' /\ Load(SlaveCount + 1)' = Load(SlaveCount + 1)
    BY DEF Capacity, Load, D
  <2> QED
    BY <2>1, <2>2, <2>3, <2>4
<1>3. SUFFICES Load(v) + e <= Load(q)
  BY <1>2 DEF Covered, Load, D
<1>4. PICK s \in Nat, x \in Nat, y \in Nat :
        s = SlaveCount /\ x = Load(w) /\ y = Load(r) /\ x + c <= y
  BY <1>1, Naturals, LoadAdd
<1>5. CASE \/ Select \/ IsConnected \/ Reconnect \/ Polling \/ RequestTemperature
           \/ AllPushed \/ Listen \/ NothingToHear \/ Writer \/ Emergency \/ UNCHANGED vars
  <2>1. UNCHANGED <<pollDiff, tempDiff, faults>> /\ Work' = Work
    BY <1>5, TimersKept, WorkKept
  <2>2. commands' = commands
    BY <1>5 DEF Select, IsConnected, Reconnect, Polling, RequestTemperature, AllPushed, Listen,
                NothingToHear, Writer, Write, WaitForNotify, SpuriousWake, Emergency, vars, history
  <2>3. Credits' = Credits /\ Room' = Room
    BY <2>1, <2>2 DEF Credits, Room, PollCredit, TempCredit, D, Batches
  <2>4. v = w /\ e = c /\ q = r
    BY <1>1, <1>2, <2>1, <2>3
  <2> QED
    BY <1>1, <2>4
<1>6. CASE OnMessage
  <2>1. UNCHANGED <<pollDiff, tempDiff, faults>> /\ Work' = Work + 1
    BY <1>6, TimersKept, WorkSent
  <2>2. commands' = commands + 1
    BY <1>6 DEF OnMessage
  <2>3. Credits' = Credits
    BY <2>1 DEF Credits, PollCredit, TempCredit, D
  <2>4. Room' = Room + 1
    BY <2>1, <2>2, RoomStep
  <2>5. v = w + 1 /\ e = c /\ q = r + 1
    BY <1>1, <1>2, <2>1, <2>3, <2>4
  <2>6. Load(w + 1) = x + d /\ Load(r + 1) = y + d
    BY <1>1, <1>4, LoadAdd
  <2> QED
    BY <1>4, <2>5, <2>6
<1>7. ASSUME faults' = faults + 1, commands' = commands
      PROVE  q = r + (s + 1) /\ Load(q) = y + Load(s + 1) /\ Load(s + 1) \in Nat
  <2>1. q = r + (s + 1)
    BY <1>1, <1>2, <1>4, <1>7, RoomStep
  <2>2. s + 1 \in Nat
    OBVIOUS
  <2> QED
    BY <1>4, <2>1, <2>2, LoadAdd
<1>8. CASE IsNotConnected
  <2>1. UNCHANGED <<pollDiff, tempDiff, commands>> /\ Work' = Work /\ faults' = faults + 1
    BY <1>8, WorkKept DEF IsNotConnected, timers
  <2>2. Credits' = Credits
    BY <2>1 DEF Credits, PollCredit, TempCredit, D
  <2>3. v = w /\ e = c
    BY <1>1, <1>2, <2>1, <2>2
  <2> QED
    BY <1>4, <1>7, <2>1, <2>3
<1>9. CASE SetClock
  <2>1. UNCHANGED <<commands>> /\ Work' = Work /\ faults' = faults + 1
    BY <1>9, WorkKept DEF SetClock
  <2>2. v = w /\ e <= Load(s + 1)
    BY <1>1, <1>2, <1>4, <2>1
  <2> QED
    BY <1>4, <1>7, <2>1, <2>2
<1>10. CASE ReadClock
  <2>1. v = w + (IF PollDue THEN 1 ELSE 0) + (IF TempDue THEN s ELSE 0)
    BY <1>1, <1>2, <1>4, <1>10, WorkRead
  <2>2. c = e + (IF PollDue THEN d ELSE 0) + (IF TempDue THEN Load(s) ELSE 0)
    BY <1>1, <1>2, <1>4, <1>10, CreditsRead
  <2>3. q = r
    <3>1. UNCHANGED <<faults, commands>>
      BY <1>10, TimersRead
    <3> QED
      BY <1>1, <1>2, <3>1 DEF Room, Batches
  <2>4. /\ Load(w + 1) = x + d /\ Load(w + s) = x + Load(s) /\ Load((w + 1) + s) = x + d + Load(s)
        /\ Load(s) \in Nat
    <3>1. w + 1 \in Nat /\ 1 \in Nat /\ Load(1) = d
      BY <1>1, LoadAdd
    <3>2. Load(w + 1) = Load(w) + Load(1) /\ Load(w + s) = Load(w) + Load(s) /\ Load(s) \in Nat
      BY <3>1, LoadAdd
    <3>3. Load((w + 1) + s) = Load(w + 1) + Load(s)
      BY <3>1, LoadAdd
    <3> QED
      BY ONLY <1>4, <3>1, <3>2, <3>3
  <2>5. Load(v) = x + (IF PollDue THEN d ELSE 0) + (IF TempDue THEN Load(s) ELSE 0)
    BY <1>4, <2>1, <2>4
  <2> QED
    BY <1>4, <2>2, <2>3, <2>4, <2>5
<1>11. CASE Tick
  <2>1. UNCHANGED <<faults, commands, todo, waiting, pc>>
    BY <1>11 DEF Tick
  <2>2. q = r
    BY <1>1, <1>2, <2>1 DEF Room, Batches
  <2>3. CASE busy > 0
    <3>1. w = v + 1
      BY <1>1, <1>2, <1>11, <2>3, WorkDone
    <3>2. e <= c + d
      BY <1>1, <1>2, <1>11, CreditsLater
    <3>3. Load(v + 1) = Load(v) + d /\ Load(v) \in Nat
      <4>1. 1 \in Nat /\ Load(1) = d
        BY <1>1, LoadAdd
      <4>2. Load(v + 1) = Load(v) + Load(1) /\ Load(v) \in Nat
        BY <4>1, LoadAdd
      <4> QED
        BY ONLY <4>1, <4>2
    <3> QED
      BY <1>4, <2>2, <3>1, <3>2, <3>3
  <2>4. CASE ~(busy > 0)
    <3>1. waiting'
      BY <1>11, <2>4, WorkDone
    <3>2. todo = <<>>
      BY <1>11, <2>4 DEF Tick, MainWaits, Places
    <3>3. ~PollFirst'
      BY <2>1, <3>2 DEF PollFirst
    <3>4. (Capacity /\ TypeOK /\ Unnotified /\ waiting /\ ~PollFirst => Covered)'
      BY CoveredWaiting, PTL
    <3>5. Capacity'
      BY DEF Capacity
    <3>6. Covered'
      BY <3>1, <3>3, <3>4, <3>5
    <3> QED
      BY <1>2, <3>6 DEF Covered, Load, D
  <2> QED
    BY <2>3, <2>4
<1> QED
  BY <1>5, <1>6, <1>8, <1>9, <1>10, <1>11 DEF Next, MainThread

-----------------------------------------------------------------------------
(* The inductive invariant of the bounds.                                  *)

Paced == TypeOK /\ Places /\ InRange /\ Ordered /\ Unnotified /\ Covered

LEMMA PacedInit ==
  ASSUME Capacity, ClockInReach, Init
  PROVE  Paced
<1>1. TypeOK
  BY TypedInit
<1>2. Places
  BY DEF Init, Places
<1>3. InRange
  <2>1. pollDiff = Overdue /\ tempDiff = Overdue /\ faults = 0 /\ Overdue \in Nat
    BY Naturals DEF Init, Overdue
  <2>2. Reach(faults) = 0
    BY <1>1, <2>1, ReachAdd DEF TypeOK
  <2> QED
    BY <2>1, <2>2 DEF InRange, InReach
<1>4. Ordered /\ Unnotified
  BY DEF Init, Ordered, Unnotified
<1>5. Covered
  <2>1. Work = 0
    <3>1. queue = <<>> /\ todo = <<>> /\ busy = 0 /\ Len(<<>>) = 0
      BY DEF Init
    <3> QED
      BY <3>1 DEF Work
  <2>2. PICK b \in Nat : Batches(1 + faults) = b + SlaveCount + 1
    BY <1>1, Batched
  <2> QED
    BY <1>1, <2>1, <2>2, CoveredAnyway, Naturals
<1> QED
  BY <1>1, <1>2, <1>3, <1>4, <1>5 DEF Paced

LEMMA PacedStep ==
  ASSUME Capacity, ClockInReach, Paced, [Next]_vars
  PROVE  Paced'
<1> USE DEF Paced
<1>1. TypeOK'
  BY TypedStep
<1>2. Places'
  BY PlacesStep
<1>3. InRange'
  BY <1>1, InRangeStep
<1>4. Ordered'
  BY <1>1, OrderedStep
<1>5. Unnotified'
  BY <1>1, UnnotifiedStep
<1>6. Covered'
  BY <1>1, <1>5, CoveredStep
<1> QED
  BY <1>1, <1>2, <1>3, <1>4, <1>5, <1>6

\* The room there is to the bound of the properties.
LEMMA WorkWithin ==
  ASSUME Capacity, Paced
  PROVE  /\ Work <= Room /\ Room <= MostQueued
         /\ MostQueued \in Nat /\ Room \in Nat /\ Work \in Nat
<1> USE DEF Paced
<1>1. Work <= Room
  <2>1. PICK w \in Nat, r \in Nat, c \in Nat :
          w = Work /\ r = Room /\ c = Credits /\ Load(w) + c <= Load(r)
    BY WorkTyped, RoomTyped, CreditsBounded DEF Covered
  <2>2. Load(w) \in Nat /\ Load(r) \in Nat
    BY LoadAdd
  <2>3. Load(w) <= Load(r)
    BY <2>1, <2>2
  <2> QED
    BY <2>1, <2>3, LoadOrder
<1>2. MostQueued = Batches(2 + faults) + MaxCommands
  BY DEF MostQueued, Batches
<1>3. 2 + faults \in Nat /\ commands \in Nat /\ commands <= MaxCommands /\ MaxCommands \in Nat
  BY Naturals DEF TypeOK
<1>4. Batches(2 + faults) \in Nat
  BY <1>3, BatchesAdd
<1> QED
  BY <1>1, <1>2, <1>3, <1>4, WorkTyped DEF Room

\* The writer takes the packets faster than the timers add them, however the two
\* threads share the mutex: the queue holds two periods at most, one more for
\* every fault, and the commands.
THEOREM Backlog ==
  ASSUME Capacity, ClockInReach
  PROVE  Spec => []BacklogBounded
<1>1. Paced => BacklogBounded
  <2> SUFFICES ASSUME Paced PROVE BacklogBounded
    OBVIOUS
  <2>1. Len(queue) <= Work
    BY WorkTyped DEF Paced, Work
  <2> QED
    BY <2>1, WorkWithin, WorkTyped DEF Paced, BacklogBounded
<1>2. Init => Paced
  BY PacedInit
<1>3. Paced /\ [Next]_vars => Paced'
  BY PacedStep
<1> QED
  BY <1>1, <1>2, <1>3, PTL DEF Spec

-----------------------------------------------------------------------------
(* The length of a turn.                                                   *)

\* How long the turn may still take: each push may wait for the mutex once, and
\* so may the command, for as long as there is something to write.
TurnLeft ==
  CASE pc = "select" -> left + Work + SlaveCount + 2
    [] pc = "clock" -> Work + SlaveCount + 2
    [] pc = "push" -> Work + 1
    [] pc \in {"listen", "down"} -> 1
    [] pc = "sleep" -> left

TurnLong == turnAge + TurnLeft <= SelectWait + 2 + Room + SlaveCount

LEMMA TurnLongStep ==
  ASSUME Capacity, ClockInReach, Paced, TurnLong, [Next]_vars
  PROVE  TurnLong'
<1>1. PICK w \in Nat, v \in Nat, r \in Nat, q \in Nat, s \in Nat, m \in Nat :
        /\ w = Work /\ v = Work' /\ r = Room /\ q = Room' /\ s = SlaveCount /\ m = SelectWait
        /\ w <= r /\ v <= q
  <2>1. Paced'
    BY PacedStep
  <2>2. (Capacity /\ Paced => Work <= Room /\ Work \in Nat /\ Room \in Nat)'
    BY WorkWithin, PTL
  <2>3. Capacity'
    BY DEF Capacity
  <2> QED
    BY <2>1, <2>2, <2>3, WorkWithin, Naturals
<1>2. /\ left \in Nat /\ turnAge \in Nat /\ left \in 0 .. m
      /\ pc \in {"select", "down", "clock", "push", "listen", "sleep"}
      /\ (pc \notin {"select", "sleep"} => left = 0)
      /\ (pc # "push" => todo = <<>>)
  BY <1>1 DEF Paced, TypeOK, Places
<1>3. /\ pc = "select" => turnAge + (left + w + s + 2) <= m + 2 + r + s
      /\ pc = "clock" => turnAge + (w + s + 2) <= m + 2 + r + s
      /\ pc = "push" => turnAge + (w + 1) <= m + 2 + r + s
      /\ pc \in {"listen", "down"} => turnAge + 1 <= m + 2 + r + s
      /\ pc = "sleep" => turnAge + left <= m + 2 + r + s
  BY <1>1, <1>2 DEF TurnLong, TurnLeft
<1>4. SUFFICES
        /\ pc' = "select" => turnAge' + (left' + v + s + 2) <= m + 2 + q + s
        /\ pc' = "clock" => turnAge' + (v + s + 2) <= m + 2 + q + s
        /\ pc' = "push" => turnAge' + (v + 1) <= m + 2 + q + s
        /\ pc' \in {"listen", "down"} => turnAge' + 1 <= m + 2 + q + s
        /\ pc' = "sleep" => turnAge' + left' <= m + 2 + q + s
  <2>1. pc' \in {"select", "down", "clock", "push", "listen", "sleep"}
    BY PacedStep DEF Paced, TypeOK
  <2> QED
    BY <1>1, <2>1 DEF TurnLong, TurnLeft
<1>5. /\ faults' = faults /\ commands' = commands => q = r
      /\ faults' = faults + 1 /\ commands' = commands => r <= q
      /\ faults' = faults /\ commands' = commands + 1 => q = r + 1
  BY <1>1, RoomStep, PacedStep DEF Paced
<1>6. CASE Select
  <2>1. pc' = "select" /\ left' \in 0 .. m /\ turnAge' = 0
    BY <1>1, <1>6 DEF Select
  <2>2. v <= q
    BY <1>1
  <2>3. PICK l \in Nat : l = left' /\ l <= m
    BY <2>1
  <2>4. 0 + (l + v + s + 2) <= m + 2 + q + s
    <3>1. l <= m
      BY <2>3
    <3> QED
      BY ONLY <2>2, <3>1, l \in Nat, v \in Nat, s \in Nat, m \in Nat, q \in Nat
  <2> QED
    BY ONLY <2>1, <2>3, <2>4
<1>7. CASE OnMessage
  <2>1. pc = "select" /\ left = 0 /\ pc' = "clock" /\ faults' = faults /\ commands' = commands + 1 /\ turnAge' = turnAge
    BY <1>7 DEF OnMessage
  <2>2. v = w + 1
    BY <1>1, <1>7, WorkSent DEF Paced
  <2> QED
    BY <1>2, <1>3, <1>5, <2>1, <2>2
<1>8. CASE IsConnected
  <2>1. pc = "select" /\ left = 0 /\ pc' = "clock" /\ UNCHANGED <<faults, commands, turnAge>> /\ v = w
    BY <1>1, <1>8, WorkKept DEF IsConnected, history, Paced
  <2> QED
    BY <1>2, <1>3, <1>5, <2>1
<1>9. CASE IsNotConnected
  <2>1. pc = "select" /\ pc' = "down" /\ faults' = faults + 1 /\ UNCHANGED <<commands, turnAge>>
    BY <1>9 DEF IsNotConnected
  <2> QED
    BY <1>2, <1>3, <1>5, <2>1
<1>10. CASE Reconnect
  <2>1. pc = "down" /\ pc' = "sleep" /\ left' = 1 /\ UNCHANGED <<faults, commands, turnAge>>
    BY <1>10 DEF Reconnect, history
  <2> QED
    BY <1>2, <1>3, <1>5, <2>1
<1>11. CASE ReadClock
  <2>1. pc = "clock" /\ pc' = "push" /\ UNCHANGED <<faults, commands, turnAge>>
    BY <1>11 DEF ReadClock
  <2>2. v <= w + 1 + s
    BY <1>1, <1>11, WorkRead DEF Paced
  <2> QED
    BY <1>2, <1>3, <1>5, <2>1, <2>2
<1>12. CASE Polling \/ RequestTemperature
  <2>1. pc = "push" /\ pc' = "push" /\ UNCHANGED <<faults, commands, turnAge>> /\ v = w
    BY <1>1, <1>12, WorkKept DEF Polling, RequestTemperature, history, Paced
  <2> QED
    BY <1>2, <1>3, <1>5, <2>1
<1>13. CASE AllPushed
  <2>1. pc = "push" /\ pc' = "listen" /\ UNCHANGED <<faults, commands, turnAge>>
    BY <1>13 DEF AllPushed, history
  <2> QED
    BY <1>2, <1>3, <1>5, <2>1
<1>14. CASE Listen \/ NothingToHear
  <2>1. pc = "listen" /\ pc' = "sleep" /\ left' = 1 /\ UNCHANGED <<faults, commands, turnAge>>
    BY <1>14 DEF Listen, NothingToHear, history
  <2> QED
    BY <1>2, <1>3, <1>5, <2>1
<1>15. CASE Writer \/ Emergency \/ UNCHANGED vars
  <2>1. UNCHANGED <<pc, left, faults, commands, turnAge>> /\ v = w
    BY <1>1, <1>15, WorkKept DEF Writer, Write, WaitForNotify, SpuriousWake, Emergency, main, history, vars,
                                 Paced
  <2> QED
    BY <1>2, <1>3, <1>5, <2>1
<1>16. CASE SetClock
  <2>1. UNCHANGED <<pc, left, commands, turnAge>> /\ faults' = faults + 1 /\ v = w
    BY <1>1, <1>16, WorkKept DEF SetClock, main, Paced
  <2> QED
    BY <1>2, <1>3, <1>5, <2>1
<1>17. CASE Tick
  <2>1. UNCHANGED <<pc, faults, commands>> /\ left' = Less(left)
    BY <1>17 DEF Tick
  <2>2. turnAge' = IF pc = "down" THEN turnAge ELSE turnAge + 1
    BY <1>17 DEF Tick
  <2>3. IF busy > 0 THEN w = v + 1 ELSE w = v
    BY <1>1, <1>17, WorkDone DEF Paced
  <2>4. \/ pc = "down"
        \/ pc \in {"select", "sleep"} /\ left > 0
        \/ busy > 0 /\ pc \in {"select", "push"}
    BY <1>17 DEF Tick, MainWaits
  <2>5. left' = IF left > 0 THEN left - 1 ELSE 0
    BY <2>1 DEF Less
  <2> QED
    BY <1>2, <1>3, <1>5, <2>1, <2>2, <2>3, <2>4, <2>5
<1> QED
  BY <1>6, <1>7, <1>8, <1>9, <1>10, <1>11, <1>12, <1>13, <1>14, <1>15, <1>16, <1>17
     DEF Next, MainThread

\* The client library is called again within LongestTurn, whatever the writer
\* does with the mutex.
THEOREM TurnsBounded ==
  ASSUME Capacity, ClockInReach
  PROVE  Spec => []TurnBounded
<1>1. Paced /\ TurnLong => TurnBounded
  <2> SUFFICES ASSUME Paced, TurnLong PROVE TurnBounded
    OBVIOUS
  <2>0. /\ Work \in Nat /\ SlaveCount \in Nat /\ left \in Nat /\ turnAge \in Nat
        /\ pc \in {"select", "down", "clock", "push", "listen", "sleep"}
    BY WorkWithin, Naturals DEF Paced, TypeOK
  <2>1. TurnLeft \in Nat /\ turnAge \in Nat
    BY <2>0 DEF TurnLeft
  <2>2. turnAge <= SelectWait + 2 + Room + SlaveCount
    BY <2>1, WorkWithin, Naturals DEF TurnLong
  <2>3. LongestTurn = SelectWait + 1 + MostQueued + SlaveCount + 1
    BY DEF LongestTurn
  <2> QED
    BY <2>1, <2>2, <2>3, WorkWithin, Naturals DEF TurnBounded
<1>2. Init => Paced /\ TurnLong
  <2> SUFFICES ASSUME Init PROVE Paced /\ TurnLong
    OBVIOUS
  <2>1. Paced
    BY PacedInit
  <2>2. TurnLeft = 0 /\ turnAge = 0
    BY DEF Init, TurnLeft
  <2> QED
    BY <2>1, <2>2, WorkWithin, Naturals DEF TurnLong
<1>3. Paced /\ TurnLong /\ [Next]_vars => Paced' /\ TurnLong'
  BY PacedStep, TurnLongStep
<1> QED
  BY <1>1, <1>2, <1>3, PTL DEF Spec

-----------------------------------------------------------------------------
(* The timers.                                                             *)

\* How long it may take until the clock is read next.
ToClock ==
  CASE pc = "select" -> left + Work
    [] pc = "clock" -> 0
    [] pc \in {"push", "listen", "down"} -> 1 + SelectWait + Work
    [] pc = "sleep" -> left + SelectWait + Work

Interval(every) == every + 1 + LongestTurn
Late(every) == faults * Interval(every)

\* Since a timer fired it has run for its difference, but for what the steps of
\* the clock have cost; a difference below 0 is seen as due when the clock is read.
Timely(diff, since, every) ==
  /\ 0 <= diff /\ diff <= every => since <= Late(every) + diff
  /\ diff < 0 => since + ToClock <= Late(every)
  /\ since + ToClock <= Late(every) + Interval(every)

\* The numbers of a state.
LEMMA Lateness ==
  ASSUME Capacity, Paced, NEW every \in Nat
  PROVE  /\ Late(every) \in Nat /\ Interval(every) \in Nat /\ ToClock \in Nat
         /\ every + 2 + SelectWait + Work <= Interval(every)
         /\ faults >= 1 => Interval(every) <= Late(every)
         /\ (1 + faults) * Interval(every) = Late(every) + Interval(every)
<1>1. PICK m \in Nat, s \in Nat, k \in Nat : m = SelectWait /\ s = SlaveCount /\ k = MostQueued
  BY WorkWithin, Naturals
<1>2. Interval(every) = every + 1 + (m + 1 + k + s + 1)
  BY <1>1 DEF Interval, LongestTurn
<1>3. PICK i \in Nat, f \in Nat : i = Interval(every) /\ f = faults
  <2>1. Interval(every) \in Nat
    BY <1>2
  <2>2. faults \in Nat
    BY DEF Paced, TypeOK
  <2> QED
    BY <2>1, <2>2
<1>4. f * i \in Nat /\ (1 + f) * i = f * i + i /\ (f >= 1 => i <= f * i)
  <2>1. f * i \in Nat /\ (1 + f) * i = f * i + i
    BY ONLY f \in Nat, i \in Nat
  <2>2. ASSUME f >= 1 PROVE i <= f * i
    <3>1. f - 1 \in Nat /\ f = (f - 1) + 1
      BY <2>2
    <3>2. PICK g \in Nat : f = g + 1
      BY <3>1
    <3>3. (g + 1) * i = g * i + i /\ g * i \in Nat
      BY ONLY g \in Nat, i \in Nat
    <3> QED
      BY ONLY <3>2, <3>3, i \in Nat
  <2> QED
    BY <2>1, <2>2
<1>5. ToClock \in Nat
  <2>1. Work \in Nat /\ left \in Nat /\ SelectWait \in Nat
        /\ pc \in {"select", "down", "clock", "push", "listen", "sleep"}
    BY WorkWithin, Naturals DEF Paced, TypeOK
  <2> QED
    BY <2>1 DEF ToClock
<1>6. every + 2 + m + Work <= i
  <2>1. Work \in Nat /\ Work <= k
    BY <1>1, WorkWithin
  <2> QED
    BY <1>2, <1>3, <2>1
<1> QED
  BY <1>1, <1>3, <1>4, <1>5, <1>6 DEF Late

\* A fault pays for an interval and a turn.
LEMMA LaterByAFault ==
  ASSUME Capacity, ClockInReach, Paced, [Next]_vars, NEW every \in Nat
  PROVE  /\ faults' = faults =>
              Late(every)' = Late(every) /\ Interval(every)' = Interval(every)
         /\ faults' = faults + 1 => Late(every) + Interval(every) <= Late(every)'
<1>1. faults' = faults => Late(every)' = Late(every) /\ Interval(every)' = Interval(every)
  BY DEF Late, Interval, LongestTurn, MostQueued
<1>2. ASSUME faults' = faults + 1 PROVE Late(every) + Interval(every) <= Late(every)'
  <2>1. PICK i \in Nat, f \in Nat, j \in Nat :
          /\ i = Interval(every) /\ f = faults /\ j = Interval(every)'
    <3>1. (Capacity /\ Paced => Interval(every) \in Nat)'
      BY Lateness, PTL
    <3>2. Capacity' /\ Paced'
      BY PacedStep DEF Capacity
    <3>3. Interval(every) \in Nat
      BY Lateness
    <3>4. faults \in Nat
      BY DEF Paced, TypeOK
    <3> QED
      BY <3>1, <3>2, <3>3, <3>4
  <2>2. i <= j
    <3>1. MostQueued' = MostQueued + (SlaveCount + 1)
      <4>1. MostQueued = Batches(2 + faults) + MaxCommands
        BY DEF MostQueued, Batches
      <4>2. MostQueued' = Batches(2 + faults') + MaxCommands
        BY DEF MostQueued, Batches
      <4>3. Batches(2 + faults') = Batches(3 + faults)
        BY <1>2, BatchesGrow, PacedStep DEF Paced
      <4>4. PICK b \in Nat : /\ Batches(2 + faults) = b + 2 * (SlaveCount + 1)
                             /\ Batches(3 + faults) = b + 3 * (SlaveCount + 1)
        BY Batched DEF Paced
      <4> QED
        BY <4>1, <4>2, <4>3, <4>4, Naturals
    <3>2. PICK m \in Nat, s \in Nat, k \in Nat : m = SelectWait /\ s = SlaveCount /\ k = MostQueued
      BY WorkWithin, Naturals
    <3>3. i = every + 1 + (m + 1 + k + s + 1)
      BY <2>1, <3>2 DEF Interval, LongestTurn
    <3>4. j = every + 1 + (m + 1 + (k + (s + 1)) + s + 1)
      BY <2>1, <3>1, <3>2 DEF Interval, LongestTurn
    <3> QED
      BY <3>3, <3>4
  <2>3. (f + 1) * i <= (f + 1) * j /\ (f + 1) * i = f * i + i
    <3>1. PICK g \in Nat : j = i + g
      <4>1. j - i \in Nat /\ j = i + (j - i)
        BY <2>2
      <4> QED
        BY <4>1
    <3>2. (f + 1) * (i + g) = (f + 1) * i + (f + 1) * g /\ (f + 1) * g \in Nat /\ (f + 1) * i \in Nat
          /\ (f + 1) * i = f * i + i
      BY ONLY f \in Nat, i \in Nat, g \in Nat
    <3> QED
      BY ONLY <3>1, <3>2
  <2>4. Late(every) = f * i
    BY <2>1 DEF Late
  <2>5. Late(every)' = (f + 1) * j
    BY <1>2, <2>1 DEF Late
  <2> QED
    BY <2>1, <2>3, <2>4, <2>5
<1> QED
  BY <1>1, <1>2

\* The numbers a step does not touch when it only moves the main thread.
LEMMA TimelyStep ==
  ASSUME Capacity, ClockInReach, Paced, [Next]_vars, NEW every \in Nat, every <= TempEvery,
         NEW d \in Int, NEW e \in Int, NEW since \in Nat, NEW next \in Nat,
         Timely(d, since, every),
         ~(IsNotConnected \/ ReadClock \/ Tick \/ SetClock) => e = d /\ next = since,
         IsNotConnected => e = d /\ next = 0,
         ReadClock => \/ ~(0 <= d /\ d <= every) /\ e = 0 /\ next = 0
                      \/ 0 <= d /\ d <= every /\ e = d /\ next = since,
         Tick => e = Later(d) /\ next = IF pc = "down" THEN since ELSE since + 1,
         SetClock => next = since
  PROVE  /\ 0 <= e /\ e <= every => next <= Late(every)' + e
         /\ e < 0 => next + ToClock' <= Late(every)'
         /\ next + ToClock' <= Late(every)' + Interval(every)'
<1>1. PICK a \in Nat, b \in Nat, i \in Nat, j \in Nat, t \in Nat, u \in Nat :
        /\ a = Late(every) /\ b = Late(every)' /\ i = Interval(every) /\ j = Interval(every)'
        /\ t = ToClock /\ u = ToClock'
        /\ every + 2 + SelectWait + Work' <= j /\ (faults' >= 1 => j <= b)
  <2>1. (Capacity /\ Paced => /\ Late(every) \in Nat /\ Interval(every) \in Nat /\ ToClock \in Nat
                              /\ every + 2 + SelectWait + Work <= Interval(every)
                              /\ faults >= 1 => Interval(every) <= Late(every))'
    BY Lateness, PTL
  <2>2. Capacity' /\ Paced'
    BY PacedStep DEF Capacity
  <2>3. Late(every) \in Nat /\ Interval(every) \in Nat /\ ToClock \in Nat
    BY Lateness
  <2> QED
    BY <2>1, <2>2, <2>3
<1>2. /\ faults' = faults => b = a /\ j = i
      /\ faults' = faults + 1 => a + i <= b
  BY <1>1, LaterByAFault
<1>3. /\ 0 <= d /\ d <= every => since <= a + d
      /\ d < 0 => since + t <= a
      /\ since + t <= a + i
  BY <1>1 DEF Timely
<1>4. SUFFICES /\ 0 <= e /\ e <= every => next <= b + e
               /\ e < 0 => next + u <= b
               /\ next + u <= b + j
  BY <1>1
<1>5. PICK w \in Nat, v \in Nat, m \in Nat, l \in Nat :
        /\ w = Work /\ v = Work' /\ m = SelectWait /\ l = left /\ l <= m
        /\ every + 2 + m + v <= j
  <2>1. Work \in Nat /\ SelectWait \in Nat /\ left \in 0 .. SelectWait
    BY WorkWithin, Naturals DEF Paced, TypeOK
  <2>2. (TypeOK => Work \in Nat)'
    BY WorkTyped, PTL
  <2>3. TypeOK'
    BY PacedStep DEF Paced
  <2> QED
    BY <1>1, <2>1, <2>2, <2>3
<1>5a. l <= m /\ every + 2 + m + v <= j
  BY <1>5
<1>6. /\ pc \in {"select", "down", "clock", "push", "listen", "sleep"}
      /\ pc' \in {"select", "down", "clock", "push", "listen", "sleep"}
  BY PacedStep DEF Paced, TypeOK
<1>7. /\ pc = "select" => t = l + w
      /\ pc = "clock" => t = 0
      /\ pc \in {"push", "listen", "down"} => t = 1 + m + w
      /\ pc = "sleep" => t = l + m + w
  BY <1>1, <1>5 DEF ToClock
<1>8. /\ pc' = "select" => u = left' + v
      /\ pc' = "clock" => u = 0
      /\ pc' \in {"push", "listen", "down"} => u = 1 + m + v
      /\ pc' = "sleep" => u = left' + m + v
  BY <1>1, <1>5 DEF ToClock
\* A step that only moves the main thread does not bring the clock any further off.
<1>9. ASSUME u <= t, faults' = faults, e = d, next = since
      PROVE  /\ 0 <= e /\ e <= every => next <= b + e
             /\ e < 0 => next + u <= b
             /\ next + u <= b + j
  BY <1>2, <1>3, <1>9
<1>10. CASE ~(IsNotConnected \/ ReadClock \/ Tick \/ SetClock)
  <2>1. e = d /\ next = since
    BY <1>10
  <2>2. u <= t /\ faults' = faults
    <3>1. CASE Select
      <4>1. pc = "sleep" /\ left = 0 /\ pc' = "select" /\ left' \in 0 .. SelectWait /\ faults' = faults
        BY <3>1 DEF Select
      <4>2. v = w
        BY <1>5, <3>1, WorkKept DEF Paced
      <4>3. PICK n \in Nat : n = left' /\ n <= m
        BY <1>5, <4>1
      <4>4. t = m + w /\ u = n + w
        BY <1>5, <1>7, <1>8, <4>1, <4>2, <4>3
      <4>5. n <= m
        BY <4>3
      <4> QED
        BY <4>1, <4>4, <4>5
    <3>2. CASE OnMessage \/ IsConnected
      <4>1. pc' = "clock" /\ faults' = faults
        BY <3>2 DEF OnMessage, IsConnected, history
      <4> QED
        BY <1>8, <4>1
    <3>3. CASE Reconnect \/ Listen \/ NothingToHear
      <4>1. pc \in {"down", "listen"} /\ pc' = "sleep" /\ left' = 1 /\ faults' = faults
        BY <3>3 DEF Reconnect, Listen, NothingToHear, history
      <4>2. v = w
        BY <1>5, <3>3, WorkKept DEF Paced
      <4> QED
        BY <1>7, <1>8, <4>1, <4>2
    <3>4. CASE Polling \/ RequestTemperature \/ AllPushed
      <4>1. pc = "push" /\ pc' \in {"push", "listen"} /\ faults' = faults
        BY <3>4 DEF Polling, RequestTemperature, AllPushed, history
      <4>2. v = w
        BY <1>5, <3>4, WorkKept DEF Paced
      <4> QED
        BY <1>7, <1>8, <4>1, <4>2
    <3>5. CASE Writer \/ Emergency \/ UNCHANGED vars
      <4>1. UNCHANGED <<pc, left, faults>>
        BY <3>5 DEF Writer, Write, WaitForNotify, SpuriousWake, Emergency, main, history, vars
      <4>2. v = w
        BY <1>5, <3>5, WorkKept DEF Paced
      <4> QED
        BY <1>5, <1>6, <1>7, <1>8, <4>1, <4>2
    <3> QED
      BY <1>10, <3>1, <3>2, <3>3, <3>4, <3>5 DEF Next, MainThread
  <2> QED
    BY <1>9, <2>1, <2>2
<1>11. CASE IsNotConnected
  <2>1. pc' = "down" /\ faults' = faults + 1 /\ faults \in Nat
    BY <1>11 DEF IsNotConnected, Paced, TypeOK
  <2>2. u <= j /\ j <= b
    BY <1>1, <1>5, <1>8, <2>1
  <2>3. next = 0
    BY <1>11
  <2> QED
    BY <2>2, <2>3
<1>12. CASE ReadClock
  <2>1. pc = "clock" /\ pc' = "push" /\ faults' = faults
    BY <1>12 DEF ReadClock
  <2>2. \/ ~(0 <= d /\ d <= every) /\ e = 0 /\ next = 0
        \/ 0 <= d /\ d <= every /\ e = d /\ next = since
    BY <1>12
  <2>3. u = 1 + m + v
    BY <1>8, <2>1
  <2>4. CASE next = 0 /\ e = 0
    BY <1>5a, <2>3, <2>4
  <2>5. CASE 0 <= d /\ d <= every /\ e = d /\ next = since
    <3>1. since <= a + d /\ b = a /\ j = i
      BY <1>2, <1>3, <2>1, <2>5
    <3> QED
      BY ONLY <1>5a, <2>3, <2>5, <3>1, a \in Nat, j \in Nat, m \in Nat, v \in Nat, d \in Int,
              every \in Nat, since \in Nat
  <2> QED
    BY <2>2, <2>4, <2>5
<1>13. CASE Tick
  <2>1. UNCHANGED <<pc, faults>> /\ left' = Less(left)
    BY <1>13 DEF Tick
  <2>2. e = Later(d) /\ next = IF pc = "down" THEN since ELSE since + 1
    BY <1>13
  <2>3. v <= w /\ (busy > 0 => w = v + 1)
    <3>1. IF busy > 0 THEN w = v + 1 ELSE v = w
      BY <1>5, <1>13, WorkDone DEF Paced
    <3> QED
      BY ONLY <3>1, v \in Nat, w \in Nat
  <2>4. \/ pc = "down"
        \/ pc \in {"select", "sleep"} /\ l > 0
        \/ busy > 0 /\ pc \in {"select", "push"}
    BY <1>5, <1>13 DEF Tick, MainWaits
  <2>5. left' = IF l > 0 THEN l - 1 ELSE 0
    BY <1>5, <2>1 DEF Less
  <2>6. next + u <= since + t
    <3>1. CASE pc = "down"
      <4>1. next = since /\ t = 1 + m + w /\ u = 1 + m + v /\ v <= w
        BY <1>7, <1>8, <2>1, <2>2, <2>3, <3>1
      <4> QED
        BY ONLY <4>1, v \in Nat, w \in Nat, m \in Nat, since \in Nat
    <3>2. CASE pc = "push"
      <4>1. next = since + 1 /\ t = 1 + m + w /\ u = 1 + m + v /\ w = v + 1
        BY <1>7, <1>8, <2>1, <2>2, <2>3, <2>4, <3>2
      <4> QED
        BY ONLY <4>1, v \in Nat, m \in Nat, since \in Nat
    <3>3. CASE pc = "sleep"
      <4>1. next = since + 1 /\ t = l + m + w /\ u = (l - 1) + m + v /\ v <= w
        BY <1>7, <1>8, <2>1, <2>2, <2>3, <2>4, <2>5, <3>3
      <4> QED
        BY ONLY <4>1, v \in Nat, w \in Nat, l \in Nat, m \in Nat, since \in Nat
    <3>4. CASE pc = "select"
      <4>1. next = since + 1 /\ t = l + w /\ u = left' + v /\ v <= w
        BY <1>7, <1>8, <2>1, <2>2, <2>3, <3>4
      <4>2. CASE l > 0
        <5>1. left' = l - 1
          BY <2>5, <4>2
        <5> QED
          BY ONLY <4>1, <5>1, v \in Nat, w \in Nat, l \in Nat, since \in Nat
      <4>3. CASE ~(l > 0)
        <5>1. left' = 0 /\ w = v + 1 /\ l = 0
          BY <2>3, <2>4, <2>5, <3>4, <4>3
        <5> QED
          BY ONLY <4>1, <5>1, v \in Nat, w \in Nat, since \in Nat
      <4> QED
        BY <4>2, <4>3
    <3> QED
      BY <2>4, <3>1, <3>2, <3>3, <3>4
  <2>7. b = a /\ j = i
    BY <1>2, <2>1
  <2>8. next <= since + 1
    BY <2>2
  <2>9. PICK z \in Nat : z = TempEvery /\ every <= z
    BY Naturals
  <2>10. e = IF d >= z + 1 THEN d ELSE d + 1
    BY <2>2, <2>9 DEF Later, Overdue
  <2>11. ASSUME 0 <= e, e <= every PROVE next <= a + e
    <3>1. d < z + 1 /\ e = d + 1
      BY <2>9, <2>10, <2>11
    <3>2. CASE 0 <= d
      BY <1>3, <2>8, <2>11, <3>1, <3>2
    <3>3. CASE d < 0
      <4>1. next + u <= a
        BY <1>3, <2>6, <3>3
      <4> QED
        BY <2>11, <4>1
    <3> QED
      BY <3>2, <3>3
  <2>12. e < 0 => d < 0
    BY <2>9, <2>10
  <2> QED
    BY <1>3, <2>6, <2>7, <2>11, <2>12
<1>14. CASE SetClock
  <2>1. UNCHANGED <<pc, left>> /\ faults' = faults + 1
    BY <1>14 DEF SetClock, main
  <2>2. v = w
    BY <1>5, <1>14, WorkKept DEF Paced
  <2>3. u = t
    BY <1>5, <1>6, <1>7, <1>8, <2>1, <2>2
  <2>4. next = since
    BY <1>14
  <2> QED
    BY <1>2, <1>3, <2>1, <2>3, <2>4
<1> QED
  BY <1>10, <1>11, <1>12, <1>13, <1>14

PollTimely == Timely(pollDiff, sincePoll, PollEvery)
TempTimely == Timely(tempDiff, sinceTemp, TempEvery)

\* A step that is none of these leaves the two timers alone.
LEMMA TimersUntouched ==
  ASSUME [Next]_vars, ~(IsNotConnected \/ ReadClock \/ Tick \/ SetClock)
  PROVE  UNCHANGED <<pollDiff, tempDiff, sincePoll, sinceTemp>>
<1>1. CASE Select \/ OnMessage \/ IsConnected \/ Reconnect
  BY <1>1 DEF Select, OnMessage, IsConnected, Reconnect, history, timers
<1>2. CASE Polling \/ RequestTemperature \/ AllPushed \/ Listen \/ NothingToHear
  BY <1>2 DEF Polling, RequestTemperature, AllPushed, Listen, NothingToHear, history, timers
<1>3. CASE Writer \/ Emergency \/ UNCHANGED vars
  BY <1>3 DEF Writer, Write, WaitForNotify, SpuriousWake, Emergency, vars, history, timers
<1> QED
  BY <1>1, <1>2, <1>3 DEF Next, MainThread

LEMMA PollTimelyStep ==
  ASSUME Capacity, ClockInReach, Paced, PollTimely, [Next]_vars
  PROVE  PollTimely'
<1>1. /\ pollDiff \in Int /\ pollDiff' \in Int /\ sincePoll \in Nat /\ sincePoll' \in Nat
      /\ PollEvery \in Nat /\ PollEvery <= TempEvery
  BY PacedStep, Units DEF Paced, TypeOK
<1>2. ~(IsNotConnected \/ ReadClock \/ Tick \/ SetClock) => pollDiff' = pollDiff /\ sincePoll' = sincePoll
  BY TimersUntouched
<1>3. IsNotConnected => pollDiff' = pollDiff /\ sincePoll' = 0
  BY DEF IsNotConnected, timers
<1>4. ReadClock => \/ ~(0 <= pollDiff /\ pollDiff <= PollEvery) /\ pollDiff' = 0 /\ sincePoll' = 0
                   \/ 0 <= pollDiff /\ pollDiff <= PollEvery /\ pollDiff' = pollDiff /\ sincePoll' = sincePoll
  <2> SUFFICES ASSUME ReadClock
               PROVE  \/ ~(0 <= pollDiff /\ pollDiff <= PollEvery) /\ pollDiff' = 0 /\ sincePoll' = 0
                      \/ 0 <= pollDiff /\ pollDiff <= PollEvery /\ pollDiff' = pollDiff /\ sincePoll' = sincePoll
    OBVIOUS
  <2>1. sincePoll' = IF PollDue THEN 0 ELSE sincePoll
    BY DEF ReadClock, PollDue
  <2>2. /\ pollDiff' = IF PollDue THEN 0 ELSE pollDiff
        /\ PollDue => ~(0 <= pollDiff /\ pollDiff <= PollEvery)
        /\ ~PollDue => 0 <= pollDiff /\ pollDiff <= PollEvery
    BY TimersRead DEF Paced
  <2> QED
    BY <2>1, <2>2
<1>5. Tick => pollDiff' = Later(pollDiff) /\ sincePoll' = IF pc = "down" THEN sincePoll ELSE sincePoll + 1
  BY DEF Tick
<1>6. SetClock => sincePoll' = sincePoll
  BY DEF SetClock
<1>7. Timely(pollDiff, sincePoll, PollEvery)
  BY DEF PollTimely
<1>8. /\ 0 <= pollDiff' /\ pollDiff' <= PollEvery => sincePoll' <= Late(PollEvery)' + pollDiff'
      /\ pollDiff' < 0 => sincePoll' + ToClock' <= Late(PollEvery)'
      /\ sincePoll' + ToClock' <= Late(PollEvery)' + Interval(PollEvery)'
  BY <1>1, <1>2, <1>3, <1>4, <1>5, <1>6, <1>7, TimelyStep
<1> QED
  BY <1>8 DEF PollTimely, Timely

LEMMA TempTimelyStep ==
  ASSUME Capacity, ClockInReach, Paced, TempTimely, [Next]_vars
  PROVE  TempTimely'
<1>1. /\ tempDiff \in Int /\ tempDiff' \in Int /\ sinceTemp \in Nat /\ sinceTemp' \in Nat
      /\ TempEvery \in Nat /\ TempEvery <= TempEvery
  BY PacedStep, Units DEF Paced, TypeOK
<1>2. ~(IsNotConnected \/ ReadClock \/ Tick \/ SetClock) => tempDiff' = tempDiff /\ sinceTemp' = sinceTemp
  BY TimersUntouched
<1>3. IsNotConnected => tempDiff' = tempDiff /\ sinceTemp' = 0
  BY DEF IsNotConnected, timers
<1>4. ReadClock => \/ ~(0 <= tempDiff /\ tempDiff <= TempEvery) /\ tempDiff' = 0 /\ sinceTemp' = 0
                   \/ 0 <= tempDiff /\ tempDiff <= TempEvery /\ tempDiff' = tempDiff /\ sinceTemp' = sinceTemp
  <2> SUFFICES ASSUME ReadClock
               PROVE  \/ ~(0 <= tempDiff /\ tempDiff <= TempEvery) /\ tempDiff' = 0 /\ sinceTemp' = 0
                      \/ 0 <= tempDiff /\ tempDiff <= TempEvery /\ tempDiff' = tempDiff /\ sinceTemp' = sinceTemp
    OBVIOUS
  <2>1. sinceTemp' = IF TempDue THEN 0 ELSE sinceTemp
    BY DEF ReadClock, TempDue
  <2>2. /\ tempDiff' = IF TempDue THEN 0 ELSE tempDiff
        /\ TempDue => ~(0 <= tempDiff /\ tempDiff <= TempEvery)
        /\ ~TempDue => 0 <= tempDiff /\ tempDiff <= TempEvery
    BY TimersRead DEF Paced
  <2> QED
    BY <2>1, <2>2
<1>5. Tick => tempDiff' = Later(tempDiff) /\ sinceTemp' = IF pc = "down" THEN sinceTemp ELSE sinceTemp + 1
  BY DEF Tick
<1>6. SetClock => sinceTemp' = sinceTemp
  BY DEF SetClock
<1>7. Timely(tempDiff, sinceTemp, TempEvery)
  BY DEF TempTimely
<1>8. /\ 0 <= tempDiff' /\ tempDiff' <= TempEvery => sinceTemp' <= Late(TempEvery)' + tempDiff'
      /\ tempDiff' < 0 => sinceTemp' + ToClock' <= Late(TempEvery)'
      /\ sinceTemp' + ToClock' <= Late(TempEvery)' + Interval(TempEvery)'
  BY <1>1, <1>2, <1>3, <1>4, <1>5, <1>6, <1>7, TimelyStep
<1> QED
  BY <1>8 DEF TempTimely, Timely

\* A timer that is timely fires in time.
LEMMA TimelyFires ==
  ASSUME Capacity, Paced, NEW every \in Nat, NEW d \in Int, NEW since \in Nat, Timely(d, since, every)
  PROVE  since <= (1 + faults) * (every + 1 + LongestTurn)
<1>1. PICK a \in Nat, i \in Nat, t \in Nat :
        /\ a = Late(every) /\ i = Interval(every) /\ t = ToClock
        /\ (1 + faults) * Interval(every) = a + i
  BY Lateness
<1>2. since + t <= a + i
  BY <1>1 DEF Timely
<1>3. since <= a + i
  BY ONLY <1>2, since \in Nat, t \in Nat, a \in Nat, i \in Nat
<1> QED
  BY <1>1, <1>3 DEF Interval

\* While connected, the board is polled and its temperatures are requested in time,
\* however the system clock is set: a step of it costs an interval and a turn.
THEOREM TimersInTime ==
  ASSUME Capacity, ClockInReach
  PROVE  Spec => []TimersFire
<1>1. Paced /\ PollTimely /\ TempTimely => TimersFire
  <2> SUFFICES ASSUME Paced, PollTimely, TempTimely PROVE TimersFire
    OBVIOUS
  <2>1. pollDiff \in Int /\ tempDiff \in Int /\ sincePoll \in Nat /\ sinceTemp \in Nat
    BY DEF Paced, TypeOK
  <2>2. PollEvery \in Nat /\ TempEvery \in Nat
    BY Units
  <2>3. sincePoll <= (1 + faults) * (PollEvery + 1 + LongestTurn)
    BY <2>1, <2>2, TimelyFires DEF PollTimely
  <2>4. sinceTemp <= (1 + faults) * (TempEvery + 1 + LongestTurn)
    BY <2>1, <2>2, TimelyFires DEF TempTimely
  <2> QED
    BY <2>3, <2>4 DEF TimersFire
<1>2. Init => Paced /\ PollTimely /\ TempTimely
  <2> SUFFICES ASSUME Init PROVE Paced /\ PollTimely /\ TempTimely
    OBVIOUS
  <2>1. Paced
    BY PacedInit
  <2>2. ASSUME NEW every \in Nat PROVE Timely(Overdue, 0, every)
    <3>1. PICK a \in Nat, i \in Nat, t \in Nat, m \in Nat, w \in Nat, o \in Nat :
            /\ a = Late(every) /\ i = Interval(every) /\ t = ToClock /\ o = Overdue
            /\ m = SelectWait /\ w = Work
      <4>1. Overdue \in Nat /\ SelectWait \in Nat
        BY Naturals DEF Overdue
      <4>2. Work \in Nat
        BY <2>1, WorkWithin
      <4>3. Late(every) \in Nat /\ Interval(every) \in Nat /\ ToClock \in Nat
        BY <2>1, Lateness
      <4> QED
        BY <4>1, <4>2, <4>3
    <3>2. t = m + w
      BY <3>1 DEF Init, ToClock
    <3>3. every + 2 + m + w <= i
      BY <2>1, <3>1, Lateness
    <3>4. 0 + t <= a + i /\ 0 <= a + o /\ ~(o < 0)
      BY ONLY <3>2, <3>3, a \in Nat, i \in Nat, m \in Nat, w \in Nat, o \in Nat, every \in Nat
    <3> QED
      BY <3>1, <3>4 DEF Timely
  <2>3. PollEvery \in Nat /\ TempEvery \in Nat
    BY Units
  <2>4. pollDiff = Overdue /\ tempDiff = Overdue /\ sincePoll = 0 /\ sinceTemp = 0
    BY DEF Init
  <2> QED
    BY <2>1, <2>2, <2>3, <2>4 DEF PollTimely, TempTimely
<1>3. Paced /\ PollTimely /\ TempTimely /\ [Next]_vars => Paced' /\ PollTimely' /\ TempTimely'
  BY PacedStep, PollTimelyStep, TempTimelyStep
<1> QED
  BY <1>1, <1>2, <1>3, PTL DEF Spec

-----------------------------------------------------------------------------
(* The polls that are counted.                                             *)

PollsAt(packets) == {i \in DOMAIN packets : packets[i] = "poll"}

LEMMA PollsTyped ==
  ASSUME NEW s \in Seq(Kind)
  PROVE  IsFiniteSet(PollsAt(s)) /\ Polls(s) \in Nat /\ Polls(s) = Cardinality(PollsAt(s))
<1>1. Len(s) \in Nat /\ DOMAIN s = 1 .. Len(s)
  OBVIOUS
<1>2. IsFiniteSet(1 .. Len(s))
  BY <1>1, FS_Interval
<1>3. PollsAt(s) \in SUBSET (1 .. Len(s))
  BY <1>1 DEF PollsAt
<1>4. IsFiniteSet(PollsAt(s))
  BY <1>2, <1>3, FS_Subset
<1> QED
  BY <1>4, FS_CardinalityType DEF Polls, PollsAt

LEMMA PollsAppend ==
  ASSUME NEW s \in Seq(Kind), NEW k \in Kind
  PROVE  Polls(Append(s, k)) = Polls(s) + IF k = "poll" THEN 1 ELSE 0
<1>1. PICK n \in Nat : n = Len(s)
  OBVIOUS
<1>2. /\ Append(s, k) \in Seq(Kind) /\ DOMAIN Append(s, k) = 1 .. n + 1 /\ DOMAIN s = 1 .. n
      /\ \A i \in 1 .. n : Append(s, k)[i] = s[i]
      /\ Append(s, k)[n + 1] = k
  BY <1>1
<1>3. PollsAt(Append(s, k)) = IF k = "poll" THEN PollsAt(s) \cup {n + 1} ELSE PollsAt(s)
  BY <1>2 DEF PollsAt
<1>4. n + 1 \notin PollsAt(s)
  BY <1>2 DEF PollsAt
<1>5. Cardinality(PollsAt(s) \cup {n + 1}) = Cardinality(PollsAt(s)) + 1
  BY <1>4, PollsTyped, FS_AddElement
<1>6. Polls(s) = Cardinality(PollsAt(s)) /\ Polls(s) \in Nat
  BY PollsTyped
<1>7. Polls(Append(s, k)) = Cardinality(PollsAt(Append(s, k)))
  BY DEF Polls, PollsAt
<1> QED
  BY ONLY <1>3, <1>5, <1>6, <1>7

LEMMA PollsTail ==
  ASSUME NEW s \in Seq(Kind), s # <<>>
  PROVE  Polls(s) = Polls(Tail(s)) + IF Head(s) = "poll" THEN 1 ELSE 0
<1>1. PICK n \in Nat : n + 1 = Len(s)
  <2>1. Len(s) \in Nat \ {0}
    BY EmptySeq
  <2>2. Len(s) - 1 \in Nat /\ (Len(s) - 1) + 1 = Len(s)
    BY <2>1
  <2> QED
    BY <2>2
<1>2. /\ Tail(s) \in Seq(Kind) /\ DOMAIN Tail(s) = 1 .. n /\ DOMAIN s = 1 .. n + 1
      /\ \A i \in 1 .. n : Tail(s)[i] = s[i + 1]
      /\ Head(s) = s[1]
  BY <1>1
<1> DEFINE A == PollsAt(Tail(s))
           B == PollsAt(s) \ {1}
           f == [i \in A |-> i + 1]
<1>3. f \in Bijection(A, B)
  <2>1. \A i \in A : i \in 1 .. n /\ Tail(s)[i] = "poll"
    BY <1>2 DEF PollsAt
  <2>2. \A i \in A : i + 1 \in B
    BY <1>2, <2>1 DEF PollsAt
  <2>3. f \in [A -> B]
    BY <2>2
  <2>4. \A a, b \in A : f[a] = f[b] => a = b
    BY <2>1
  <2>5. \A t \in B : t - 1 \in A /\ t = (t - 1) + 1
    BY <1>2 DEF PollsAt
  <2>6. \A t \in B : \E i \in A : f[i] = t
    BY <2>5
  <2> QED
    BY <2>3, <2>4, <2>6, Fun_IsBij
<1>4. Cardinality(B) = Polls(Tail(s))
  <2>1. ExistsBijection(A, B)
    BY <1>3 DEF ExistsBijection
  <2>2. IsFiniteSet(A) /\ Cardinality(A) = Polls(Tail(s))
    BY <1>2, PollsTyped
  <2> HIDE DEF A, B
  <2> QED
    BY <2>1, <2>2, FS_Bijection
<1>5. Cardinality(B) = IF 1 \in PollsAt(s) THEN Cardinality(PollsAt(s)) - 1 ELSE Cardinality(PollsAt(s))
  BY PollsTyped, FS_RemoveElement
<1>6. 1 \in PollsAt(s) <=> Head(s) = "poll"
  BY <1>2 DEF PollsAt
<1> QED
  BY <1>2, <1>4, <1>5, <1>6, PollsTyped

\* While no poll was left unanswered, every poll that is counted is on its way:
\* in the queue or, answered, in the port.
THEOREM CountedUnderWay == Spec => []PollsUnderWay
<1>1. Init => PollsUnderWay
  <2>1. Init => queue \in Seq(Kind) /\ rx \in Seq(Kind) /\ count = 0
    BY TypedInit DEF TypeOK, Init
  <2> QED
    BY <2>1, PollsTyped DEF PollsUnderWay
<1>2. TypeOK /\ TypeOK' /\ PollsUnderWay /\ [Next]_vars => PollsUnderWay'
  <2> SUFFICES ASSUME TypeOK, TypeOK', PollsUnderWay, [Next]_vars PROVE PollsUnderWay'
    OBVIOUS
  <2>1. /\ queue \in Seq(Kind) /\ rx \in Seq(Kind) /\ count \in Nat /\ owed \in BOOLEAN
        /\ Polls(queue) \in Nat /\ Polls(rx) \in Nat
    BY PollsTyped DEF TypeOK
  <2>2. ~owed => count <= Polls(queue) + Polls(rx)
    BY DEF PollsUnderWay
  <2>3. SUFFICES ASSUME ~owed' PROVE count' <= Polls(queue') + Polls(rx')
    BY DEF PollsUnderWay, Polls
  <2>4. CASE UNCHANGED <<queue, rx, count, owed>>
    BY <2>2, <2>3, <2>4
  <2>5. CASE OnMessage \/ RequestTemperature
    <3>1. PICK k \in Kind : k # "poll" /\ queue' = Append(queue, k)
      BY <2>5 DEF OnMessage, RequestTemperature, Push, Kind
    <3>2. UNCHANGED <<rx, count, owed>>
      BY <2>5 DEF OnMessage, RequestTemperature, history
    <3>3. Polls(queue') = Polls(queue)
      BY <2>1, <3>1, PollsAppend
    <3> QED
      BY <2>2, <2>3, <3>2, <3>3
  <2>6. CASE Polling
    <3>1. queue' = Append(queue, "poll") /\ "poll" \in Kind
      BY <2>6 DEF Polling, Push, Kind
    <3>2. UNCHANGED <<rx, owed>> /\ count' <= count + 1
      BY <2>1, <2>6 DEF Polling, history
    <3>3. Polls(queue') = Polls(queue) + 1
      BY <2>1, <3>1, PollsAppend
    <3>4. count' \in Nat
      BY DEF TypeOK
    <3> QED
      BY <2>1, <2>2, <2>3, <3>2, <3>3, <3>4
  <2>7. CASE Listen
    <3>1. rx # <<>> /\ rx' = Tail(rx) /\ queue' = queue
      BY <2>7 DEF Listen, writer
    <3>2. Polls(rx) = Polls(rx') + IF Head(rx) = "poll" THEN 1 ELSE 0
      BY <2>1, <3>1, PollsTail
    <3>3. Polls(rx') \in Nat
      BY PollsTyped DEF TypeOK
    <3>4. CASE Head(rx) = "poll"
      <4>1. count' = 0
        BY <2>7, <3>4 DEF Listen
      <4> QED
        BY <2>1, <3>1, <3>3, <4>1
    <3>5. CASE Head(rx) # "poll"
      <4>1. count' = count /\ owed' = owed
        BY <2>1, <2>7, <3>5 DEF Listen
      <4> QED
        BY <2>1, <2>2, <2>3, <3>1, <3>2, <3>3, <3>5, <4>1
    <3> QED
      BY <3>4, <3>5
  <2>8. CASE Write
    <3>1. PICK answers \in BOOLEAN :
            /\ rx' = IF answers THEN Append(rx, Head(queue)) ELSE rx
            /\ owed' = (owed \/ (Head(queue) = "poll" /\ ~answers))
      BY <2>8 DEF Write
    <3>2. queue # <<>> /\ queue' = Tail(queue) /\ count' = count /\ Head(queue) \in Kind
      BY <2>1, <2>8 DEF Write, main
    <3>3. Polls(queue) = Polls(queue') + IF Head(queue) = "poll" THEN 1 ELSE 0
      BY <2>1, <3>2, PollsTail
    <3>4. Polls(queue') \in Nat
      BY PollsTyped DEF TypeOK
    <3>5. ~owed /\ (Head(queue) = "poll" => answers)
      BY <2>3, <3>1
    <3>6. CASE answers
      <4>1. Polls(rx') = Polls(rx) + IF Head(queue) = "poll" THEN 1 ELSE 0
        BY <2>1, <3>1, <3>2, <3>6, PollsAppend
      <4> QED
        BY <2>1, <2>2, <3>2, <3>3, <3>4, <3>5, <4>1
    <3>7. CASE ~answers
      <4>1. rx' = rx /\ Head(queue) # "poll"
        BY <3>1, <3>5, <3>7
      <4>2. Polls(queue) = Polls(queue')
        BY <3>3, <3>4, <4>1
      <4> QED
        BY <2>2, <3>2, <3>5, <4>1, <4>2
    <3> QED
      BY <3>6, <3>7
  <2>9. CASE Select \/ IsConnected \/ IsNotConnected \/ Reconnect \/ ReadClock \/ AllPushed \/ NothingToHear
    BY <2>4, <2>9 DEF Select, IsConnected, IsNotConnected, Reconnect, ReadClock, AllPushed,
                      NothingToHear, writer, history
  <2>10. CASE WaitForNotify \/ SpuriousWake \/ Tick \/ SetClock \/ UNCHANGED vars
    BY <2>4, <2>10 DEF WaitForNotify, SpuriousWake, Tick, SetClock, vars, main, writer, history
  <2>11. CASE Emergency
    <3>1. rx' = Append(rx, "emergency") /\ "emergency" \in Kind /\ UNCHANGED <<queue, count, owed>>
      BY <2>11 DEF Emergency, main, Kind
    <3>2. Polls(rx') = Polls(rx)
      BY <2>1, <3>1, PollsAppend
    <3> QED
      BY <2>2, <2>3, <3>1, <3>2
  <2> QED
    BY <2>5, <2>6, <2>7, <2>8, <2>9, <2>10, <2>11 DEF Next, MainThread, Writer
<1> QED
  BY <1>1, <1>2, TypeCorrect, PTL DEF Spec

-----------------------------------------------------------------------------
(* What is heard.  A packet costs the main thread a turn, and a half       *)
(* second in which the writer has the mutex.                               *)

Turn == SelectWait + 1
Turns(n) == Turn * n
Price(n) == HearingCost * n

\* What a packet costs where a half second is worth D, and the part of it that
\* is the turn.
Slow(n) == Load(Price(n))
Fast(n) == Load(Turns(n))

LEMMA Product ==
  ASSUME NEW c \in Nat, NEW m \in Nat, NEW n \in Nat
  PROVE  /\ c * m \in Nat /\ c * 0 = 0 /\ c * 1 = c
         /\ c * (m + n) = c * m + c * n
         /\ m <= n => c * m <= c * n
<1>1. c * m \in Nat /\ c * 0 = 0 /\ c * 1 = c /\ c * (m + n) = c * m + c * n
  BY ONLY c \in Nat, m \in Nat, n \in Nat
<1>2. m <= n => c * m <= c * n
  <2> SUFFICES ASSUME m <= n PROVE c * m <= c * n
    OBVIOUS
  <2>1. PICK k \in Nat : n = m + k
    <3>1. n - m \in Nat /\ n = m + (n - m)
      OBVIOUS
    <3> QED
      BY <3>1
  <2>2. c * (m + k) = c * m + c * k /\ c * m \in Nat /\ c * k \in Nat
    BY ONLY c \in Nat, m \in Nat, k \in Nat
  <2> QED
    BY ONLY <2>1, <2>2
<1> QED
  BY <1>1, <1>2

LEMMA HearingUnits ==
  /\ Turn \in Nat \ {0} /\ HearingCost \in Nat \ {0} /\ HearingCost = Turn + 1
  /\ SelectWait \in Nat \ {0} /\ Turn = SelectWait + 1
BY Naturals DEF Turn, HearingCost

LEMMA PriceAdd ==
  ASSUME NEW m \in Nat, NEW n \in Nat
  PROVE  /\ Price(m) \in Nat /\ Price(0) = 0 /\ Price(1) = HearingCost
         /\ Price(m + n) = Price(m) + Price(n)
         /\ Turns(m) \in Nat /\ Turns(0) = 0 /\ Turns(1) = Turn
         /\ Turns(m + n) = Turns(m) + Turns(n)
         /\ m <= n => Price(m) <= Price(n) /\ Turns(m) <= Turns(n)
         /\ Price(m) = m + Turns(m)
<1>1. PICK t \in Nat, c \in Nat : t = Turn /\ c = HearingCost /\ c = t + 1
  BY HearingUnits
<1>2. (t + 1) * m = m + t * m
  BY ONLY t \in Nat, m \in Nat
<1> QED
  BY <1>1, <1>2, Product DEF Price, Turns

\* Of one number only: what the provers need to know of most terms.
LEMMA TurnsTyped ==
  ASSUME NEW m \in Nat
  PROVE  Turns(m) \in Nat /\ Price(m) \in Nat /\ Price(m) = m + Turns(m)
BY PriceAdd

LEMMA SlowFast ==
  ASSUME Capacity, NEW m \in Nat, NEW n \in Nat
  PROVE  /\ Slow(m) \in Nat /\ Slow(0) = 0
         /\ Slow(m + n) = Slow(m) + Slow(n)
         /\ Fast(m) \in Nat /\ Fast(0) = 0
         /\ Fast(m + n) = Fast(m) + Fast(n)
         /\ m <= n => Slow(m) <= Slow(n) /\ Fast(m) <= Fast(n)
         /\ Slow(m) = Load(m) + Fast(m) /\ Load(m) \in Nat
         /\ Slow(Turns(m)) = Fast(Price(m))
         /\ Price(Load(m)) = Slow(m)
<1>1. /\ Price(m) \in Nat /\ Price(n) \in Nat /\ Turns(m) \in Nat /\ Turns(n) \in Nat
      /\ Price(0) = 0 /\ Turns(0) = 0
      /\ Price(m + n) = Price(m) + Price(n) /\ Turns(m + n) = Turns(m) + Turns(n)
      /\ m <= n => Price(m) <= Price(n) /\ Turns(m) <= Turns(n)
      /\ Price(m) = m + Turns(m)
  BY PriceAdd
<1>2. Slow(m) \in Nat /\ Fast(m) \in Nat /\ Load(m) \in Nat /\ Slow(0) = 0 /\ Fast(0) = 0
  BY <1>1, LoadAdd DEF Slow, Fast
<1>3. Slow(m + n) = Slow(m) + Slow(n)
  BY <1>1, LoadAdd DEF Slow
<1>4. Fast(m + n) = Fast(m) + Fast(n)
  BY <1>1, LoadAdd DEF Fast
<1>5. m <= n => Slow(m) <= Slow(n) /\ Fast(m) <= Fast(n)
  BY <1>1, LoadOrder DEF Slow, Fast
<1>6. Slow(m) = Load(m) + Fast(m)
  BY <1>1, LoadAdd DEF Slow, Fast
<1>7. PICK t \in Nat, c \in Nat, d \in Nat : t = Turn /\ c = HearingCost /\ d = D
  BY HearingUnits, Units
<1>8. d * (c * (t * m)) = d * (t * (c * m)) /\ c * (d * m) = d * (c * m)
  <2>1. c * (t * m) = t * (c * m)
    BY ONLY c \in Nat, t \in Nat, m \in Nat
  <2>2. c * (d * m) = d * (c * m)
    BY ONLY c \in Nat, d \in Nat, m \in Nat
  <2> QED
    BY <2>1, <2>2
<1>9. Slow(Turns(m)) = Fast(Price(m)) /\ Price(Load(m)) = Slow(m)
  BY <1>7, <1>8 DEF Slow, Fast, Load, Price, Turns
<1> QED
  BY <1>2, <1>3, <1>4, <1>5, <1>6, <1>9

\* What a timer that earns so much a half second has earned since it fired, where
\* it needs so much.
Earned(d, rate, full) == IF 0 <= d /\ rate * d < full THEN rate * d ELSE full

LEMMA Earning ==
  ASSUME NEW d \in Int, NEW p \in Nat, NEW m \in Nat, m <= p * (TempEvery + 1)
  PROVE  /\ Earned(d, p, m) \in Nat /\ Earned(d, p, m) <= m /\ Earned(0, p, m) = 0
         /\ ~(0 <= d /\ d <= TempEvery) => Earned(d, p, m) = m
         /\ Earned(Later(d), p, m) <= Earned(d, p, m) + p
<1>1. PICK t \in Nat : t = TempEvery /\ Overdue = t + 1 /\ m <= p * (t + 1)
  BY Naturals DEF Overdue
<1>2. ASSUME NEW e \in Int
      PROVE  Earned(e, p, m) = IF 0 <= e /\ p * e < m THEN p * e ELSE m
  BY DEF Earned
<1>3. p * d \in Int /\ p * (d + 1) = p * d + p /\ p * 0 = 0 /\ (0 <= d => 0 <= p * d)
  BY ONLY p \in Nat, d \in Int
<1>4. d > t => p * (t + 1) <= p * d
  <2> SUFFICES ASSUME d > t PROVE p * (t + 1) <= p * d
    OBVIOUS
  <2>1. t + 1 \in Nat /\ d \in Nat /\ t + 1 <= d
    OBVIOUS
  <2> QED
    BY <2>1, Product
<1>5. Earned(d, p, m) \in Nat /\ Earned(d, p, m) <= m
  BY ONLY <1>2, <1>3, d \in Int, m \in Nat
<1>6. Earned(0, p, m) = 0
  <2>1. Earned(0, p, m) = IF 0 <= 0 /\ p * 0 < m THEN p * 0 ELSE m
    BY <1>2
  <2> QED
    BY ONLY <1>3, <2>1, m \in Nat
<1>7. ~(0 <= d /\ d <= t) => Earned(d, p, m) = m
  <2>1. p * (t + 1) \in Nat
    BY ONLY p \in Nat, t \in Nat
  <2>2. m <= p * (t + 1)
    BY <1>1
  <2> QED
    BY ONLY <1>2, <1>3, <1>4, <2>1, <2>2, d \in Int, m \in Nat, t \in Nat
<1>8. Earned(Later(d), p, m) <= Earned(d, p, m) + p
  <2>1. Later(d) = IF d >= t + 1 THEN d ELSE d + 1
    BY <1>1 DEF Later
  <2>2. CASE d >= t + 1
    <3>1. Later(d) = d
      BY <2>1, <2>2
    <3> QED
      BY ONLY <1>5, <3>1, p \in Nat
  <2>3. CASE ~(d >= t + 1)
    <3>1. Later(d) = d + 1 /\ d + 1 \in Int
      BY <2>1, <2>3
    <3>2. Earned(d + 1, p, m) = IF 0 <= d + 1 /\ p * (d + 1) < m THEN p * (d + 1) ELSE m
      BY <1>2, <3>1
    <3>3. Earned(d, p, m) = IF 0 <= d /\ p * d < m THEN p * d ELSE m
      BY <1>2
    <3>4. 0 <= d + 1 => 0 <= d \/ p * (d + 1) = 0
      <4>1. d + 1 = 0 => p * (d + 1) = 0
        BY <1>3
      <4> QED
        BY <4>1
    <3>5. PICK a \in Int, b \in Int : a = p * d /\ b = p * (d + 1) /\ b = a + p
      BY <1>3
    <3>6. (IF 0 <= d + 1 /\ b < m THEN b ELSE m) <= (IF 0 <= d /\ a < m THEN a ELSE m) + p
      <4>1. 0 <= d + 1 => 0 <= d \/ b = 0
        BY <3>4, <3>5
      <4>2. b = a + p
        BY <3>5
      <4>3. 0 <= d => 0 <= d + 1
        OBVIOUS
      <4> QED
        BY ONLY <4>1, <4>2, <4>3, d \in Int, a \in Int, b \in Int, m \in Nat, p \in Nat
    <3> QED
      BY <3>1, <3>2, <3>3, <3>5, <3>6
  <2> QED
    BY <2>2, <2>3
<1> QED
  BY <1>1, <1>5, <1>6, <1>7, <1>8

\* What the timers have saved up for that since they fired.  Without a connection
\* time is not bounded, and they count as due.
TempRate == D - HearingCost
Saved ==
  IF pc = "down" THEN Slow(SlaveCount + 1)
  ELSE Price(PollCredit(pollDiff)) + Earned(tempDiff, TempRate, Slow(SlaveCount))
Near == IF pc = "down" THEN D ELSE PollCredit(pollDiff)

LEMMA PortUnits ==
  ASSUME Capacity, PortCapacity
  PROVE  /\ TempRate \in Nat /\ HearingCost + TempRate = D /\ D \in Nat \ {0} /\ SlaveCount \in Nat
         /\ Slow(SlaveCount) \in Nat /\ Slow(SlaveCount) <= TempRate * (TempEvery + 1)
         /\ Slow(1) \in Nat /\ Price(D) = Slow(1) /\ Slow(SlaveCount + 1) = Slow(SlaveCount) + Slow(1)
         /\ Slow(1) = D + Fast(1) /\ Fast(1) \in Nat
<1>1. PICK s \in Nat, c \in Nat, d \in Nat \ {0} : s = SlaveCount /\ c = HearingCost /\ d = D
  BY Units, HearingUnits
<1>2. c <= d /\ s * (c * d) <= (d - c) * (TempEvery + 1)
  <2>1. PICK p \in Nat, t \in Nat : p = PollEvery /\ t = TempEvery
    BY Units
  <2>2. /\ HearingCost <= PollEvery + 1
        /\ SlaveCount * (HearingCost * (PollEvery + 1))
             <= (PollEvery + 1 - HearingCost) * (TempEvery + 1)
    BY Zenon DEF PortCapacity
  <2>3. c <= p + 1 /\ s * (c * (p + 1)) <= (p + 1 - c) * (t + 1)
    BY ONLY <1>1, <2>1, <2>2, Zenon
  <2>4. d = p + 1
    BY <1>1, <2>1, Units
  <2>5. c <= d /\ s * (c * d) <= (d - c) * (t + 1)
    BY ONLY <2>3, <2>4, SMT
  <2> QED
    BY ONLY <2>1, <2>5, Zenon
<1>3. d * (c * s) = s * (c * d)
  BY ONLY s \in Nat, c \in Nat, d \in Nat \ {0}
<1>4. Slow(SlaveCount) = s * (c * d) /\ TempRate = d - c
  BY <1>1, <1>3 DEF Slow, Load, Price, TempRate
<1>5. d - c \in Nat /\ c + (d - c) = d
  BY <1>2
<1>6. /\ Slow(s) \in Nat /\ Slow(1) \in Nat /\ Fast(1) \in Nat /\ Slow(s + 1) = Slow(s) + Slow(1)
      /\ Price(Load(1)) = Slow(1) /\ Load(1) = D /\ Slow(1) = Load(1) + Fast(1)
  BY SlowFast, LoadAdd
<1>7. D \in Nat \ {0}
  BY <1>1
<1> QED
  BY <1>1, <1>2, <1>4, <1>5, <1>6, <1>7

\* Both parts of what is saved up.
LEMMA SavedParts ==
  ASSUME Capacity, PortCapacity, TypeOK
  PROVE  \E p \in Nat, t \in Nat :
           /\ p = Price(PollCredit(pollDiff)) /\ p <= Slow(1)
           /\ t = Earned(tempDiff, TempRate, Slow(SlaveCount)) /\ t <= Slow(SlaveCount)
           /\ PollCredit(pollDiff) \in Nat /\ PollCredit(pollDiff) <= D
<1>1. PICK c \in Nat, d \in Nat : c = PollCredit(pollDiff) /\ d = D /\ c <= d
  <2>1. pollDiff \in Int
    BY DEF TypeOK
  <2> QED
    BY <2>1, PollCredits, Units
<1>2. Price(c) \in Nat /\ Price(c) <= Price(d)
  BY <1>1, PriceAdd
<1>3. /\ Earned(tempDiff, TempRate, Slow(SlaveCount)) \in Nat
      /\ Earned(tempDiff, TempRate, Slow(SlaveCount)) <= Slow(SlaveCount)
  <2>1. tempDiff \in Int
    BY DEF TypeOK
  <2> QED
    BY <2>1, PortUnits, Earning
<1> QED
  BY <1>1, <1>2, <1>3, PortUnits

LEMMA SavedTyped ==
  ASSUME Capacity, PortCapacity, TypeOK
  PROVE  /\ Saved \in Nat /\ Saved <= Slow(SlaveCount + 1)
         /\ Near \in Nat /\ Near <= D
<1>1. PICK p \in Nat, t \in Nat :
           /\ p = Price(PollCredit(pollDiff)) /\ p <= Slow(1)
           /\ t = Earned(tempDiff, TempRate, Slow(SlaveCount)) /\ t <= Slow(SlaveCount)
           /\ PollCredit(pollDiff) \in Nat /\ PollCredit(pollDiff) <= D
  BY SavedParts
<1>2. PICK a \in Nat, b \in Nat, d \in Nat :
        a = Slow(1) /\ b = Slow(SlaveCount) /\ Slow(SlaveCount + 1) = b + a /\ d = D
  BY PortUnits
<1>3. CASE pc = "down"
  <2>1. Saved = b + a /\ Near = d
    BY <1>2, <1>3 DEF Saved, Near
  <2> QED
    BY <1>2, <2>1
<1>4. CASE pc # "down"
  <2>1. Saved = p + t /\ Near = PollCredit(pollDiff)
    BY <1>1, <1>4 DEF Saved, Near
  <2> QED
    BY <1>1, <1>2, <2>1
<1> QED
  BY <1>3, <1>4

\* It is less than what the writer's time for as many packets is worth here.
LEMMA SavedCredits ==
  ASSUME Capacity, PortCapacity, TypeOK, pc # "down"
  PROVE  Saved <= Price(Credits)
<1>1. PICK c \in Nat, r \in Nat, p \in Nat, m \in Nat :
        /\ c = HearingCost /\ r = TempRate /\ p = PollEvery /\ m = Load(SlaveCount)
        /\ r <= c * p /\ c \in Nat \ {0}
  <2>1. PICK c \in Nat \ {0}, p \in Nat : c = HearingCost /\ p = PollEvery
    BY HearingUnits, Units
  <2>2. p <= c * p
    <3>1. PICK k \in Nat : c = k + 1
      <4>1. c - 1 \in Nat /\ c = (c - 1) + 1
        BY ONLY c \in Nat \ {0}
      <4> QED
        BY <4>1
    <3>2. (k + 1) * p = k * p + p /\ k * p \in Nat
      BY ONLY k \in Nat, p \in Nat
    <3> QED
      BY ONLY <3>1, <3>2, p \in Nat
  <2>3. TempRate <= p
    BY <2>1, Units DEF TempRate
  <2>4. c * p \in Nat /\ TempRate \in Nat
    BY PortUnits, Product
  <2>5. Load(SlaveCount) \in Nat
    BY Units, LoadAdd
  <2>6. TempRate <= c * p
    BY <2>2, <2>3, <2>4
  <2> QED
    BY <2>1, <2>4, <2>5, <2>6
<1>2. PICK d \in Int : d = tempDiff
  BY DEF TypeOK
<1>3. Slow(SlaveCount) = c * m
  <2>1. Price(Load(SlaveCount)) = Slow(SlaveCount)
    BY Units, SlowFast
  <2> QED
    BY <1>1, <2>1 DEF Price
<1>4. TempCredit(d) = (IF 0 <= d /\ p * d < m THEN p * d ELSE m) /\ TempCredit(d) \in Nat
  BY <1>1, TempCredits DEF TempCredit, Load
<1>5. Earned(d, r, c * m) <= c * TempCredit(d)
  <2>1. Earned(d, r, c * m) <= c * m
    BY <1>1, <1>2, <1>3, PortUnits, Earning
  <2>2. CASE ~(0 <= d /\ p * d < m)
    BY <1>4, <2>1, <2>2
  <2>3. CASE 0 <= d /\ p * d < m
    <3>1. d \in Nat
      BY <2>3
    <3>2. r * d <= c * (p * d)
      <4>1. d * r <= d * (c * p)
        <5>1. c * p \in Nat
          BY Product
        <5> QED
          BY <1>1, <3>1, <5>1, Product
      <4>2. d * r = r * d /\ d * (c * p) = c * (p * d)
        BY ONLY d \in Nat, r \in Nat, c \in Nat, p \in Nat
      <4> QED
        BY ONLY <4>1, <4>2, Zenon
    <3>3. Earned(d, r, c * m) <= r * d
      <4>1. r * d \in Nat /\ c * m \in Nat
        BY <3>1, Product
      <4> QED
        BY <3>1, <4>1 DEF Earned
    <3>4. c * (p * d) \in Nat /\ r * d \in Nat /\ Earned(d, r, c * m) \in Nat
      <4>1. p * d \in Nat
        BY <3>1, Product
      <4>2. c * (p * d) \in Nat /\ r * d \in Nat
        BY ONLY <3>1, <4>1, c \in Nat, r \in Nat, Product
      <4>3. Earned(d, r, c * m) \in Nat
        BY <1>1, <1>2, <1>3, PortUnits, Earning
      <4> QED
        BY ONLY <4>2, <4>3, Zenon
    <3>5. TempCredit(d) = p * d
      BY <1>4, <2>3
    <3> QED
      BY <3>2, <3>3, <3>4, <3>5
  <2> QED
    BY <2>2, <2>3
<1>6. PollCredit(pollDiff) \in Nat
  BY SavedParts
<1>7. Price(Credits) = Price(PollCredit(pollDiff)) + Price(TempCredit(d))
  BY <1>2, <1>4, <1>6, PriceAdd DEF Credits
<1>8. Saved = Price(PollCredit(pollDiff)) + Earned(d, r, c * m)
  BY <1>1, <1>2, <1>3 DEF Saved
<1>9. Price(TempCredit(d)) = c * TempCredit(d)
  BY <1>1 DEF Price
<1>10. /\ Price(PollCredit(pollDiff)) \in Nat /\ Price(TempCredit(d)) \in Nat
       /\ Earned(d, r, c * m) \in Nat
  BY <1>1, <1>2, <1>3, <1>4, <1>6, PriceAdd, PortUnits, Earning
<1> QED
  BY <1>5, <1>7, <1>8, <1>9, <1>10

-----------------------------------------------------------------------------
(* What the steps do to it.                                                *)

LEMMA SavedKept ==
  ASSUME \/ Select \/ OnMessage \/ IsConnected \/ Polling \/ RequestTemperature \/ AllPushed
         \/ Listen \/ NothingToHear \/ Writer \/ Emergency \/ UNCHANGED vars
  PROVE  Saved' = Saved /\ Near' = Near
<1>1. UNCHANGED <<pollDiff, tempDiff>>
  BY TimersKept
<1>2. pc' = "down" <=> pc = "down"
  BY DEF Select, OnMessage, IsConnected, Polling, RequestTemperature, AllPushed, Listen, NothingToHear,
         Writer, Write, WaitForNotify, SpuriousWake, Emergency, vars, main
<1> QED
  BY <1>1, <1>2 DEF Saved, Near, PollCredit, Earned, D, Price, Slow, Load, TempRate, HearingCost

\* Any step: it is bounded again.
LEMMA SavedAfter ==
  ASSUME Capacity, PortCapacity, TypeOK'
  PROVE  /\ Saved' \in Nat /\ Saved' <= Slow(SlaveCount + 1)
         /\ Near' \in Nat /\ Near' <= D
<1>1. (Capacity /\ PortCapacity /\ TypeOK =>
        Saved \in Nat /\ Saved <= Slow(SlaveCount + 1) /\ Near \in Nat /\ Near <= D)'
  BY SavedTyped, PTL
<1>2. Capacity' /\ PortCapacity'
  BY DEF Capacity, PortCapacity, HearingCost
<1>3. Slow(SlaveCount + 1)' = Slow(SlaveCount + 1) /\ D' = D
  BY DEF Slow, Load, Price, D, HearingCost
<1> QED
  BY <1>1, <1>2, <1>3

LEMMA SavedReconnect ==
  ASSUME Capacity, PortCapacity, TypeOK, TypeOK', Reconnect
  PROVE  Saved' <= Saved /\ Near' <= Near
<1>1. Saved = Slow(SlaveCount + 1) /\ Near = D
  BY DEF Reconnect, Saved, Near
<1> QED
  BY <1>1, SavedAfter

LEMMA SavedTick ==
  ASSUME Capacity, PortCapacity, TypeOK, TypeOK', Tick
  PROVE  /\ pc = "down" => Saved' = Saved /\ Near' = Near
         /\ Saved' <= Saved + D /\ Near' <= Near + 1
<1>1. pc' = pc /\ pollDiff' = Later(pollDiff) /\ tempDiff' = Later(tempDiff)
      /\ pollDiff \in Int /\ tempDiff \in Int
  BY DEF Tick, TypeOK
<1>2. CASE pc = "down"
  <2>1. Saved' = Saved /\ Near' = Near
    BY <1>1, <1>2 DEF Saved, Near, Slow, Load, Price, D, HearingCost
  <2> QED
    BY <2>1, SavedTyped, Units
<1>3. CASE pc # "down"
  <2>1. PICK a \in Nat, b \in Nat : a = PollCredit(pollDiff) /\ b = PollCredit(Later(pollDiff)) /\ b <= a + 1
    <3>1. Later(pollDiff) \in Int
      BY <1>1 DEF Later
    <3>2. PollCredit(pollDiff) \in Nat /\ PollCredit(Later(pollDiff)) <= PollCredit(pollDiff) + 1
      BY <1>1, PollCredits
    <3>3. PollCredit(Later(pollDiff)) \in Nat
      BY <3>1, PollCredits
    <3> QED
      BY <3>2, <3>3
  <2>2. PICK x \in Nat, y \in Nat, r \in Nat, c \in Nat :
          /\ x = Earned(tempDiff, TempRate, Slow(SlaveCount))
          /\ y = Earned(Later(tempDiff), TempRate, Slow(SlaveCount))
          /\ y <= x + r /\ c = HearingCost /\ c + r = D
    <3>1. Later(tempDiff) \in Int
      BY <1>1 DEF Later
    <3>2. /\ Earned(tempDiff, TempRate, Slow(SlaveCount)) \in Nat
          /\ Earned(Later(tempDiff), TempRate, Slow(SlaveCount))
               <= Earned(tempDiff, TempRate, Slow(SlaveCount)) + TempRate
      BY <1>1, PortUnits, Earning
    <3>3. Earned(Later(tempDiff), TempRate, Slow(SlaveCount)) \in Nat
      BY <3>1, PortUnits, Earning
    <3>4. TempRate \in Nat /\ HearingCost \in Nat /\ HearingCost + TempRate = D
      BY PortUnits, HearingUnits
    <3>5. Earned(Later(tempDiff), TempRate, Slow(SlaveCount))
            <= Earned(tempDiff, TempRate, Slow(SlaveCount)) + TempRate
      BY ONLY <3>2, Zenon
    <3>6. Earned(tempDiff, TempRate, Slow(SlaveCount)) \in Nat
      BY ONLY <3>2, Zenon
    <3>7. TempRate \in Nat /\ HearingCost \in Nat
      BY ONLY <3>4, Zenon
    <3> USE <3>3, <3>6, <3>7
    <3> WITNESS Earned(tempDiff, TempRate, Slow(SlaveCount)) \in Nat,
                Earned(Later(tempDiff), TempRate, Slow(SlaveCount)) \in Nat,
                TempRate \in Nat, HearingCost \in Nat
    <3> QED
      BY ONLY <3>4, <3>5, Zenon
  <2>3. Price(b) <= Price(a) + c /\ Price(a) \in Nat /\ Price(b) \in Nat
    <3>1. Price(a + 1) = Price(a) + Price(1) /\ Price(1) = c /\ Price(a) \in Nat
      <4>1. Price(a + 1) = Price(a) + Price(1) /\ Price(1) = HearingCost /\ Price(a) \in Nat
        BY ONLY a \in Nat, PriceAdd
      <4>2. c = HearingCost
        BY ONLY <2>2, Zenon
      <4> QED
        BY ONLY <4>1, <4>2, Zenon
    <3>2. Price(b) <= Price(a + 1) /\ Price(b) \in Nat
      <4>1. a + 1 \in Nat
        OBVIOUS
      <4> QED
        BY <2>1, <4>1, PriceAdd
    <3> QED
      BY <3>1, <3>2
  <2>4. Saved = Price(a) + x /\ Near = a
    BY <1>3, <2>1, <2>2 DEF Saved, Near
  <2>5. Saved' = Price(b) + y /\ Near' = b
    BY <1>1, <1>3, <2>1, <2>2
       DEF Saved, Near, PollCredit, Earned, D, Price, Slow, Load, TempRate, HearingCost
  <2> QED
    BY <1>3, <2>1, <2>2, <2>3, <2>4, <2>5
<1> QED
  BY <1>2, <1>3

LEMMA SavedRead ==
  ASSUME Capacity, PortCapacity, ClockInReach, TypeOK, TypeOK', InRange, ReadClock
  PROVE  /\ Saved = Saved' + (IF PollDue THEN Slow(1) ELSE 0) + (IF TempDue THEN Slow(SlaveCount) ELSE 0)
         /\ Near = Near' + (IF PollDue THEN D ELSE 0)
         /\ PollDue => Near' = 0
<1>1. /\ pollDiff \in Int /\ tempDiff \in Int
      /\ pollDiff' = IF PollDue THEN 0 ELSE pollDiff
      /\ tempDiff' = IF TempDue THEN 0 ELSE tempDiff
      /\ PollDue => ~(0 <= pollDiff /\ pollDiff <= PollEvery)
      /\ TempDue => ~(0 <= tempDiff /\ tempDiff <= TempEvery)
  BY TimersRead DEF TypeOK
<1> DEFINE earned(d) == Earned(d, TempRate, Slow(SlaveCount))
<1>2. pc = "clock" /\ pc' = "push"
  BY DEF ReadClock
<1>3. Saved = Price(PollCredit(pollDiff)) + earned(tempDiff) /\ Near = PollCredit(pollDiff)
  BY <1>2 DEF Saved, Near
<1>4. Saved' = Price(PollCredit(pollDiff')) + earned(tempDiff') /\ Near' = PollCredit(pollDiff')
  BY <1>2 DEF Saved, Near, PollCredit, Earned, D, Price, Slow, Load, TempRate, HearingCost
<1>5. /\ PollCredit(pollDiff) = PollCredit(pollDiff') + (IF PollDue THEN D ELSE 0)
      /\ PollDue => PollCredit(pollDiff') = 0 /\ PollCredit(pollDiff) = D
  <2>1. CASE PollDue
    <3>1. pollDiff' = 0 /\ PollCredit(0) = 0 /\ PollCredit(pollDiff) = D /\ D \in Nat
      BY <1>1, <2>1, PollCredits, Units
    <3> QED
      BY <2>1, <3>1
  <2>2. CASE ~PollDue
    <3>1. pollDiff' = pollDiff /\ PollCredit(pollDiff) \in Nat
      BY <1>1, <2>2, PollCredits
    <3> QED
      BY <2>2, <3>1
  <2> QED
    BY <2>1, <2>2
<1>6. Price(PollCredit(pollDiff)) = Price(PollCredit(pollDiff')) + (IF PollDue THEN Slow(1) ELSE 0)
  <2>1. CASE PollDue
    <3>1. Price(PollCredit(pollDiff)) = Slow(1) /\ Price(PollCredit(pollDiff')) = 0 /\ Slow(1) \in Nat
      BY <1>5, <2>1, PortUnits, PriceAdd
    <3> QED
      BY <2>1, <3>1
  <2>2. CASE ~PollDue
    <3>1. pollDiff' = pollDiff /\ PollCredit(pollDiff) \in Nat
      BY <1>1, <2>2, PollCredits
    <3>2. Price(PollCredit(pollDiff)) \in Nat
      BY <3>1, PriceAdd
    <3> QED
      BY <2>2, <3>1, <3>2
  <2> QED
    BY <2>1, <2>2
<1>7. earned(tempDiff) = earned(tempDiff') + (IF TempDue THEN Slow(SlaveCount) ELSE 0)
  <2>1. CASE TempDue
    <3>1. earned(tempDiff) = Slow(SlaveCount) /\ earned(0) = 0 /\ Slow(SlaveCount) \in Nat
      BY <1>1, <2>1, PortUnits, Earning
    <3>2. tempDiff' = 0
      BY <1>1, <2>1
    <3> HIDE DEF earned
    <3> QED
      BY <2>1, <3>1, <3>2
  <2>2. CASE ~TempDue
    <3>1. tempDiff' = tempDiff /\ earned(tempDiff) \in Nat
      BY <1>1, <2>2, PortUnits, Earning
    <3> HIDE DEF earned
    <3> QED
      BY <2>2, <3>1
  <2> QED
    BY <2>1, <2>2
<1>8. /\ Price(PollCredit(pollDiff')) \in Nat /\ earned(tempDiff') \in Nat
      /\ Slow(1) \in Nat /\ Slow(SlaveCount) \in Nat /\ PollCredit(pollDiff') \in Nat
  <2>1. pollDiff' \in Int /\ tempDiff' \in Int
    BY <1>1
  <2> QED
    BY <2>1, PollCredits, PriceAdd, PortUnits, Earning
<1> HIDE DEF earned
<1> QED
  BY <1>3, <1>4, <1>5, <1>6, <1>7, <1>8

-----------------------------------------------------------------------------
(* The port.                                                               *)

\* How long until the main thread listens, if no push loses the mutex.
ToListen == left + (IF pc = "down" THEN Turn ELSE IF pc = "sleep" THEN SelectWait ELSE 0)

\* The time for what is on its way to be written and heard.
Pending == Price(Len(queue) + Len(todo)) + busy + Turns(Len(rx)) + ToListen

\* What cost a turn without writing or hearing an answer.
Delays == faults + alarms
Limit == Price(Room) + Turns(1 + Delays)

\* It is, with what the timers have saved up, within the time that there is.
Heard == Load(Pending) + Saved <= Load(Limit)

LEMMA Sizes ==
  ASSUME TypeOK
  PROVE  /\ queue \in Seq(Kind) /\ rx \in Seq(Kind) /\ todo \in Seq(Kind)
         /\ Len(queue) \in Nat /\ Len(rx) \in Nat /\ Len(todo) \in Nat
         /\ busy \in Nat /\ left \in Nat /\ left <= SelectWait
         /\ faults \in Nat /\ commands \in Nat /\ alarms \in Nat /\ Delays \in Nat
BY Naturals DEF TypeOK, Delays

LEMMA SizesAfter ==
  ASSUME TypeOK'
  PROVE  /\ queue' \in Seq(Kind) /\ rx' \in Seq(Kind) /\ todo' \in Seq(Kind)
         /\ Len(queue') \in Nat /\ Len(rx') \in Nat /\ Len(todo') \in Nat
         /\ busy' \in Nat /\ left' \in Nat /\ faults' \in Nat /\ commands' \in Nat
         /\ alarms' \in Nat
<1>1. (TypeOK => /\ queue \in Seq(Kind) /\ rx \in Seq(Kind) /\ todo \in Seq(Kind)
                 /\ Len(queue) \in Nat /\ Len(rx) \in Nat /\ Len(todo) \in Nat
                 /\ busy \in Nat /\ left \in Nat /\ faults \in Nat /\ commands \in Nat
                 /\ alarms \in Nat)'
  BY Sizes, PTL
<1> QED
  BY <1>1

LEMMA PendingTyped ==
  ASSUME TypeOK
  PROVE  /\ Pending \in Nat /\ ToListen \in Nat /\ Len(rx) \in Nat
         /\ Len(queue) + Len(todo) \in Nat /\ left \in Nat
<1>1. ToListen \in Nat /\ left \in Nat
  <2>1. left \in Nat /\ Turn \in Nat /\ SelectWait \in Nat
    BY HearingUnits DEF TypeOK
  <2> QED
    BY <2>1 DEF ToListen
<1>2. Len(queue) + Len(todo) \in Nat /\ Len(rx) \in Nat /\ busy \in Nat
  BY DEF TypeOK
<1>3. Price(Len(queue) + Len(todo)) \in Nat /\ Turns(Len(rx)) \in Nat
  BY <1>2, PriceAdd
<1> QED
  BY <1>1, <1>2, <1>3 DEF Pending

LEMMA LimitTyped ==
  ASSUME Capacity, TypeOK
  PROVE  /\ Limit \in Nat /\ Load(Limit) = Slow(Room) + Fast(1 + Delays)
         /\ Slow(Room) \in Nat /\ Fast(1 + Delays) \in Nat /\ Fast(1) <= Fast(1 + Delays)
<1>1. Room \in Nat /\ 1 + Delays \in Nat /\ 1 \in Nat /\ 1 <= 1 + Delays
  BY RoomTyped, Sizes
<1>2. Price(Room) \in Nat /\ Turns(1 + Delays) \in Nat
  BY <1>1, PriceAdd
<1>3. Load(Price(Room) + Turns(1 + Delays)) = Load(Price(Room)) + Load(Turns(1 + Delays))
  BY <1>2, LoadAdd
<1>4. Slow(Room) \in Nat /\ Fast(1 + Delays) \in Nat /\ Fast(1) <= Fast(1 + Delays)
  BY <1>1, SlowFast
<1>5. Limit \in Nat
  BY <1>2 DEF Limit
<1>6. Load(Limit) = Slow(Room) + Fast(1 + Delays)
  BY <1>3, Zenon DEF Limit, Slow, Fast
<1> QED
  BY <1>4, <1>5, <1>6

LEMMA LimitStep ==
  ASSUME TypeOK, TypeOK'
  PROVE  /\ UNCHANGED <<faults, commands, alarms>> => Limit' = Limit
         /\ faults' = faults + 1 /\ commands' = commands /\ alarms' = alarms
              => Limit' = Limit + Price(SlaveCount + 1) + Turn
         /\ faults' = faults /\ commands' = commands + 1 /\ alarms' = alarms
              => Limit' = Limit + HearingCost
         /\ faults' = faults /\ commands' = commands /\ alarms' = alarms + 1
              => Limit' = Limit + Turn
<1>1. PICK r \in Nat, f \in Nat, a \in Nat, s \in Nat :
        r = Room /\ f = faults /\ a = alarms /\ s = SlaveCount + 1
  <2>1. SlaveCount + 1 \in Nat
    BY Naturals
  <2> QED
    BY <2>1, RoomTyped, Sizes
<1>2. Limit' = Price(Room') + Turns(1 + (faults' + alarms'))
  BY DEF Limit, Delays, Price, Turns, HearingCost, Turn
<1>3. Limit = Price(r) + Turns(1 + (f + a))
  BY <1>1 DEF Limit, Delays
<1>4. /\ Price(r) \in Nat /\ Price(r + 1) = Price(r) + HearingCost
      /\ Price(r + s) = Price(r) + Price(s) /\ Price(s) \in Nat
      /\ Turns(1 + (f + a)) \in Nat /\ Turns((1 + (f + a)) + 1) = Turns(1 + (f + a)) + Turn
  <2>1. 1 \in Nat /\ 1 + (f + a) \in Nat
    OBVIOUS
  <2>2. Price(r) \in Nat /\ Price(s) \in Nat /\ Price(r + s) = Price(r) + Price(s)
    BY PriceAdd
  <2>3. Price(r + 1) = Price(r) + Price(1) /\ Price(1) = HearingCost
    BY <2>1, PriceAdd
  <2>4. /\ Turns(1 + (f + a)) \in Nat
        /\ Turns((1 + (f + a)) + 1) = Turns(1 + (f + a)) + Turns(1) /\ Turns(1) = Turn
    BY <2>1, PriceAdd
  <2> QED
    BY <2>2, <2>3, <2>4
<1>5. /\ Turn \in Nat /\ HearingCost \in Nat
      /\ 1 + ((f + 1) + a) = (1 + (f + a)) + 1 /\ 1 + (f + (a + 1)) = (1 + (f + a)) + 1
  BY HearingUnits
<1>6. ASSUME UNCHANGED <<faults, commands, alarms>> PROVE Limit' = Limit
  <2>1. Room' = Room
    BY <1>6, RoomStep
  <2>2. Limit' = Price(r) + Turns(1 + (f + a))
    BY <1>1, <1>2, <1>6, <2>1
  <2> QED
    BY <1>3, <2>2, Zenon
<1>7. ASSUME faults' = faults + 1, commands' = commands, alarms' = alarms
      PROVE  Limit' = Limit + Price(SlaveCount + 1) + Turn
  <2>1. Room' = r + s
    BY <1>1, <1>7, RoomStep
  <2>2. Limit' = Price(r + s) + Turns((1 + (f + a)) + 1)
    BY <1>1, <1>2, <1>5, <1>7, <2>1
  <2> QED
    BY <1>1, <1>3, <1>4, <1>5, <1>7, <2>2
<1>8. ASSUME faults' = faults, commands' = commands + 1, alarms' = alarms
      PROVE  Limit' = Limit + HearingCost
  <2>1. Room' = r + 1
    BY <1>1, <1>8, RoomStep
  <2>2. Limit' = Price(r + 1) + Turns(1 + (f + a))
    BY <1>1, <1>2, <1>8, <2>1
  <2> QED
    BY <1>1, <1>3, <1>4, <1>5, <1>8, <2>2
<1>9. ASSUME faults' = faults, commands' = commands, alarms' = alarms + 1
      PROVE  Limit' = Limit + Turn
  <2>1. Room' = r
    BY <1>1, <1>9, RoomStep
  <2>2. Limit' = Price(r) + Turns((1 + (f + a)) + 1)
    BY <1>1, <1>2, <1>5, <1>9, <2>1
  <2> QED
    BY <1>3, <1>4, <1>5, <2>2
<1> QED
  BY <1>6, <1>7, <1>8, <1>9

\* Where the writer's time covers the work, the time to hear it covers it too.
LEMMA CoveredSlow ==
  ASSUME Capacity, PortCapacity, TypeOK, Covered, pc # "down"
  PROVE  Slow(Work) + Saved <= Slow(Room) /\ Slow(Work) \in Nat /\ Slow(Room) \in Nat
<1>1. PICK w \in Nat, r \in Nat, c \in Nat :
        w = Work /\ r = Room /\ c = Credits /\ Load(w) + c <= Load(r)
  BY WorkTyped, RoomTyped, CreditsBounded DEF Covered
<1>2. /\ Load(w) \in Nat /\ Load(r) \in Nat
      /\ Price(Load(w)) = Slow(w) /\ Price(Load(r)) = Slow(r) /\ Slow(w) \in Nat /\ Slow(r) \in Nat
  BY LoadAdd, SlowFast
<1>3. Price(Load(w) + c) <= Price(Load(r))
  <2>1. Load(w) + c \in Nat
    BY <1>2
  <2> QED
    BY <1>1, <1>2, <2>1, PriceAdd
<1>4. Price(Load(w) + c) = Slow(w) + Price(c) /\ Price(c) \in Nat
  <2>1. Price(Load(w) + c) = Price(Load(w)) + Price(c) /\ Price(c) \in Nat
    BY <1>2, PriceAdd
  <2> QED
    BY <1>2, <2>1
<1>5. Saved <= Price(c) /\ Saved \in Nat
  BY <1>1, SavedCredits, SavedTyped
<1> QED
  BY <1>1, <1>2, <1>3, <1>4, <1>5

\* A turn that finds the port empty starts afresh.
LEMMA HeardAnew ==
  ASSUME Capacity, PortCapacity, TypeOK, Covered, pc # "down", rx = <<>>, ToListen <= Turn
  PROVE  Heard
<1>1. PICK w \in Nat, m \in Nat, b \in Nat : w = Work /\ m = Len(queue) + Len(todo) /\ b = busy /\ w = m + b
  BY WorkTyped, PendingTyped DEF Work
<1>2. PICK t \in Nat, u \in Nat : t = ToListen /\ u = Turn /\ t <= u
  BY PendingTyped, HearingUnits
<1>3. Turns(Len(rx)) = 0
  <2>1. Len(rx) = 0
    OBVIOUS
  <2> QED
    BY <2>1, PriceAdd
<1>4. Price(w) = Price(m) + Price(b) /\ b <= Price(b) /\ Price(m) \in Nat /\ Price(b) \in Nat
  <2>1. Price(b) = b + Turns(b) /\ Turns(b) \in Nat /\ Price(b) \in Nat
    BY TurnsTyped
  <2>2. Price(m) \in Nat
    BY TurnsTyped
  <2>3. Price(m + b) = Price(m) + Price(b)
    BY PriceAdd
  <2>4. Price(w) = Price(m + b)
    BY ONLY <1>1, Zenon
  <2>5. b <= Price(b)
    BY ONLY <2>1, b \in Nat
  <2> QED
    BY ONLY <2>1, <2>2, <2>3, <2>4, <2>5, Zenon
<1>5. Pending <= Price(w) + u /\ Price(w) + u \in Nat
  <2>1. Pending = Price(m) + b + 0 + t
    BY <1>1, <1>2, <1>3 DEF Pending
  <2> QED
    BY <1>2, <1>4, <2>1
<1>6. Load(Pending) <= Slow(w) + Fast(1) /\ Load(Pending) \in Nat
  <2>1. Price(w) \in Nat /\ u = Turns(1)
    BY <1>2, <1>4, PriceAdd
  <2>2. Load(Pending) <= Load(Price(w) + u) /\ Load(Pending) \in Nat
    BY <1>5, PendingTyped, LoadOrder, LoadAdd
  <2>3. Load(Price(w) + u) = Load(Price(w)) + Load(u)
    BY <2>1, LoadAdd
  <2> QED
    BY <2>1, <2>2, <2>3 DEF Slow, Fast
<1>7. Slow(w) + Saved <= Slow(Room) /\ Slow(w) \in Nat
  BY <1>1, CoveredSlow
<1>8. Saved \in Nat /\ Fast(1) \in Nat
  BY SavedTyped, PortUnits
<1> QED
  BY <1>6, <1>7, <1>8, LimitTyped DEF Heard

\* A packet that is written costs the writer its half second, and the main
\* thread a turn if it was answered.
LEMMA PendingWrite ==
  ASSUME TypeOK, Write
  PROVE  Pending' <= Pending
<1>1. /\ queue # <<>> /\ queue' = Tail(queue) /\ busy = 0 /\ busy' = 1
      /\ UNCHANGED <<todo, pc, left>>
      /\ \E a \in BOOLEAN : rx' = IF a THEN Append(rx, Head(queue)) ELSE rx
  BY DEF Write, main
<1>2. PICK m \in Nat, r \in Nat, q \in Nat, t \in Nat :
        /\ Len(queue) + Len(todo) = m + 1 /\ Len(queue') + Len(todo') = m
        /\ r = Len(rx) /\ q = Len(rx') /\ q <= r + 1 /\ t = ToListen
  <2>1. queue \in Seq(Kind) /\ todo \in Seq(Kind) /\ rx \in Seq(Kind) /\ Head(queue) \in Kind
    BY <1>1 DEF TypeOK
  <2>2. Len(queue') = Len(queue) - 1 /\ Len(queue) \in Nat \ {0}
    BY <1>1, <2>1
  <2>3. Len(rx') \in Nat /\ Len(rx') <= Len(rx) + 1
    BY <1>1, <2>1
  <2>4. ToListen \in Nat /\ Len(rx) \in Nat /\ Len(todo) \in Nat /\ Len(todo') = Len(todo)
    BY <1>1, <2>1, PendingTyped
  <2>5. Len(queue') + Len(todo') \in Nat /\ Len(queue) + Len(todo) = (Len(queue') + Len(todo')) + 1
    BY <2>2, <2>4
  <2> QED
    BY <2>3, <2>4, <2>5
<1>3. Pending = Price(m + 1) + Turns(r) + t
  <2>1. Pending = Price(m + 1) + 0 + Turns(r) + t
    BY <1>1, <1>2 DEF Pending
  <2>2. Price(m + 1) \in Nat
    BY PriceAdd
  <2> QED
    BY <2>1, <2>2
<1>4. Pending' = Price(m) + 1 + Turns(q) + t
  BY <1>1, <1>2 DEF Pending, ToListen, Price, Turns, HearingCost, Turn
<1>5. /\ Price(m + 1) = Price(m) + HearingCost /\ Price(m) \in Nat
      /\ Turns(r + 1) = Turns(r) + Turn /\ Turns(r) \in Nat /\ Turns(q) \in Nat
      /\ Turns(q) <= Turns(r + 1)
  <2>1. 1 \in Nat /\ r + 1 \in Nat
    OBVIOUS
  <2> QED
    BY <1>2, <2>1, PriceAdd
<1> QED
  BY <1>3, <1>4, <1>5, HearingUnits

\* The steps of the two threads that take no time and add nothing.
LEMMA PendingKept ==
  ASSUME TypeOK, TypeOK', Places,
         \/ Select \/ IsConnected \/ Reconnect \/ Polling \/ RequestTemperature \/ AllPushed \/ Listen
         \/ Writer \/ SetClock \/ UNCHANGED vars
  PROVE  Pending' <= Pending
<1>1. Pending \in Nat /\ ToListen \in Nat /\ Len(rx) \in Nat /\ Len(queue) + Len(todo) \in Nat
  BY PendingTyped
<1>2. /\ Pending' = Price(Len(queue') + Len(todo')) + busy' + Turns(Len(rx')) + ToListen'
      /\ ToListen' = left' + (IF pc' = "down" THEN Turn ELSE IF pc' = "sleep" THEN SelectWait ELSE 0)
  BY DEF Pending, ToListen, Price, Turns, HearingCost, Turn
<1>3. SelectWait \in Nat /\ Turn = SelectWait + 1
  BY HearingUnits
<1>4. CASE Select \/ IsConnected \/ Reconnect \/ AllPushed
  <2>1. UNCHANGED <<queue, todo, busy, rx>>
    BY <1>4 DEF Select, IsConnected, Reconnect, AllPushed, writer
  <2>2. ToListen' <= ToListen /\ ToListen' \in Nat
    <3>1. left \in Nat /\ left' \in Nat
      BY Sizes, SizesAfter
    <3>2. CASE Select
      <4>1. pc = "sleep" /\ left = 0 /\ left' \in 0 .. SelectWait /\ pc' = "select"
        BY <3>2 DEF Select
      <4>2. ToListen = 0 + SelectWait /\ ToListen' = left' + 0
        BY <1>2, <4>1 DEF ToListen
      <4> QED
        <5>1. PICK m \in Nat, k \in Nat : m = SelectWait /\ k = left' /\ k <= m
          BY <1>3, <3>1, <4>1
        <5>2. ToListen = m /\ ToListen' = k
          <6>1. ToListen = 0 + m
            BY ONLY <4>2, <5>1, Zenon
          <6>2. ToListen' = k + 0
            BY ONLY <4>2, <5>1, Zenon
          <6> QED
            BY ONLY <6>1, <6>2, m \in Nat, k \in Nat
        <5> QED
          BY <5>1, <5>2
    <3>3. CASE IsConnected \/ AllPushed
      <4>1. pc \notin {"down", "sleep"} /\ pc' \notin {"down", "sleep"} /\ left' = left
        BY <3>3 DEF IsConnected, AllPushed
      <4> QED
        BY <1>2, <3>1, <4>1 DEF ToListen
    <3>4. CASE Reconnect
      <4>1. pc = "down" /\ pc' = "sleep" /\ left' = 1 /\ left = 0
        BY <3>4 DEF Reconnect, Places
      <4> QED
        BY <1>2, <1>3, <4>1 DEF ToListen
    <3> QED
      BY <1>4, <3>2, <3>3, <3>4
  <2>3. Price(Len(queue) + Len(todo)) \in Nat /\ Turns(Len(rx)) \in Nat /\ busy \in Nat
    BY <1>1, PriceAdd, Sizes
  <2>4. Pending = Price(Len(queue) + Len(todo)) + busy + Turns(Len(rx)) + ToListen
    BY DEF Pending
  <2>5. Pending' = Price(Len(queue) + Len(todo)) + busy + Turns(Len(rx)) + ToListen'
    BY <1>2, <2>1
  <2> QED
    BY <1>1, <2>2, <2>3, <2>4, <2>5
<1>5. CASE Polling \/ RequestTemperature
  <2>1. todo # <<>> /\ todo' = Tail(todo) /\ UNCHANGED <<busy, rx, pc, left>>
    BY <1>5 DEF Polling, RequestTemperature
  <2>2. \E k \in Kind : queue' = Append(queue, k)
    BY <1>5 DEF Polling, RequestTemperature, Push, Kind
  <2>3. Len(queue') + Len(todo') = Len(queue) + Len(todo)
    <3>1. Len(queue') = Len(queue) + 1 /\ Len(queue) \in Nat
      BY <2>2, Sizes
    <3>2. Len(todo') = Len(todo) - 1 /\ Len(todo) \in Nat
      BY <2>1, Sizes
    <3> QED
      BY <3>1, <3>2
  <2>4. Pending' = Pending
    BY <1>2, <2>1, <2>3 DEF Pending, ToListen
  <2> QED
    BY <1>1, <2>4
<1>6. CASE Listen
  <2>1. /\ rx # <<>> /\ rx' = Tail(rx) /\ pc = "listen" /\ pc' = "sleep" /\ left' = 1
        /\ UNCHANGED <<queue, todo, busy>>
    BY <1>6 DEF Listen, writer
  <2>2. PICK r \in Nat : Len(rx') = r /\ Len(rx) = r + 1
    <3>1. Len(rx') = Len(rx) - 1 /\ Len(rx) \in Nat \ {0}
      BY <2>1, Sizes
    <3> QED
      BY <3>1
  <2>3. ToListen = 0 /\ ToListen' = Turn
    BY <1>2, <1>3, <2>1 DEF ToListen, Places
  <2>4. Turns(r + 1) = Turns(r) + Turn /\ Turns(r) \in Nat
    BY PriceAdd
  <2>5. Price(Len(queue) + Len(todo)) \in Nat /\ busy \in Nat
    BY <1>1, PriceAdd, Sizes
  <2>6. Pending = Price(Len(queue) + Len(todo)) + busy + Turns(r + 1) + 0
    BY <2>2, <2>3 DEF Pending
  <2>7. Pending' = Price(Len(queue) + Len(todo)) + busy + Turns(r) + Turn
    BY <1>2, <2>1, <2>2, <2>3
  <2> QED
    BY <1>1, <1>3, <2>4, <2>5, <2>6, <2>7
<1>7. CASE Write
  BY <1>7, PendingWrite
<1>8. CASE WaitForNotify \/ SpuriousWake \/ SetClock \/ UNCHANGED vars
  <2>1. UNCHANGED <<queue, todo, busy, rx, pc, left>>
    BY <1>8 DEF WaitForNotify, SpuriousWake, SetClock, vars, main, writer
  <2>2. Pending' = Pending
    BY <1>2, <2>1 DEF Pending, ToListen
  <2> QED
    BY <1>1, <2>2
<1> QED
  BY <1>4, <1>5, <1>6, <1>7, <1>8 DEF Writer

\* Time goes on at what is pending, unless there is no connection.
LEMMA PendingTick ==
  ASSUME TypeOK, TypeOK', Places, Tick
  PROVE  Pending' <= Pending /\ (pc # "down" => Pending' + 1 <= Pending)
<1>1. PICK m \in Nat, x \in Nat, b \in Nat, l \in Nat, y \in Nat :
        /\ m = Price(Len(queue) + Len(todo)) /\ x = Turns(Len(rx)) /\ b = busy /\ l = left
        /\ y = IF pc = "down" THEN Turn ELSE IF pc = "sleep" THEN SelectWait ELSE 0
        /\ Pending = m + b + x + (l + y)
  <2>1. (IF pc = "down" THEN Turn ELSE IF pc = "sleep" THEN SelectWait ELSE 0) \in Nat
    BY HearingUnits
  <2>2. Price(Len(queue) + Len(todo)) \in Nat /\ Turns(Len(rx)) \in Nat
    BY PendingTyped, PriceAdd
  <2>3. busy \in Nat /\ left \in Nat
    BY DEF TypeOK
  <2> QED
    BY <2>1, <2>2, <2>3 DEF Pending, ToListen
<1>2. /\ UNCHANGED <<queue, todo, rx, pc, waiting>> /\ left' = Less(left) /\ busy' = Less(busy)
      /\ busy > 0 \/ (waiting /\ (pc = "down" \/ left > 0))
  <2>1. /\ UNCHANGED <<queue, todo, rx, pc, waiting>> /\ left' = Less(left) /\ busy' = Less(busy)
        /\ busy > 0 \/ waiting
        /\ \/ pc = "down" \/ left > 0
           \/ busy > 0
    BY DEF Tick, MainWaits
  <2>2. waiting => busy = 0
    BY DEF Places
  <2>3. left = l /\ busy = b
    BY <1>1
  <2>4. /\ left' = Less(l) /\ busy' = Less(b) /\ (b > 0 \/ waiting)
        /\ pc = "down" \/ l > 0 \/ b > 0
    BY <2>1, <2>3
  <2>5. b > 0 \/ (waiting /\ (pc = "down" \/ l > 0))
    BY <2>4, Zenon
  <2> QED
    BY <2>1, <2>3, <2>5
<1>3. Pending' = m + Less(b) + x + (Less(l) + y)
  BY <1>1, <1>2 DEF Pending, ToListen, Price, Turns, HearingCost, Turn
<1>4. /\ Less(b) \in Nat /\ Less(b) <= b /\ (b > 0 => Less(b) + 1 = b)
      /\ Less(l) \in Nat /\ Less(l) <= l /\ (l > 0 => Less(l) + 1 = l)
  BY DEF Less
<1>5. PICK e \in Nat, k \in Nat, P \in Nat : e = Less(b) /\ k = Less(l) /\ P = Pending
  BY <1>4, PendingTyped
<1>6. CASE pc = "down"
  <2>1. Pending' = m + e + x + (k + y) /\ P = m + b + x + (l + y) /\ e <= b /\ k <= l
    BY <1>1, <1>3, <1>4, <1>5
  <2>2. Pending' <= P
    BY ONLY <2>1, m \in Nat, x \in Nat, b \in Nat, l \in Nat, y \in Nat, e \in Nat, k \in Nat, P \in Nat
  <2> QED
    BY <1>5, <1>6, <2>2
<1>7. CASE pc # "down"
  <2>1. Pending' = m + e + x + (k + y) /\ P = m + b + x + (l + y) /\ e <= b /\ k <= l
    BY <1>1, <1>3, <1>4, <1>5
  <2>2. b > 0 \/ l > 0
    BY <1>1, <1>2, <1>7
  <2>3. e + 1 = b \/ k + 1 = l
    BY <1>4, <1>5, <2>2
  <2>4. Pending' <= P /\ Pending' + 1 <= P
    BY ONLY <2>1, <2>3, m \in Nat, x \in Nat, b \in Nat, l \in Nat, y \in Nat, e \in Nat, k \in Nat, P \in Nat
  <2> QED
    BY <1>5, <2>4
<1> QED
  BY <1>6, <1>7

LEMMA PendingAdded ==
  ASSUME TypeOK, TypeOK', Places
  PROVE  /\ OnMessage => Pending' = Pending + HearingCost
         /\ IsNotConnected => Pending' = Pending + Turn
         /\ ReadClock => Pending' = Pending + Price(Len(todo')) /\ todo = <<>>
         /\ Emergency => Pending' = Pending + Turn
<1>1. PICK m \in Nat, x \in Nat, b \in Nat, l \in Nat :
        /\ m = Len(queue) + Len(todo) /\ x = Turns(Len(rx)) /\ b = busy /\ l = ToListen
        /\ Pending = Price(m) + b + x + l
  <2>1. Turns(Len(rx)) \in Nat
    BY PendingTyped, PriceAdd
  <2> QED
    BY <2>1, PendingTyped, Sizes DEF Pending
<1>2. Pending' = Price(Len(queue') + Len(todo')) + busy' + Turns(Len(rx')) + ToListen'
  BY DEF Pending, Price, Turns, HearingCost, Turn
<1>3. ToListen' = left' + (IF pc' = "down" THEN Turn ELSE IF pc' = "sleep" THEN SelectWait ELSE 0)
  BY DEF ToListen, Turn
<1>4. PICK p \in Nat, c \in Nat, t \in Nat :
        p = Price(m) /\ c = HearingCost /\ t = Turn /\ Price(m + 1) = p + c
  <2>1. Price(m) \in Nat /\ Price(m + 1) = Price(m) + Price(1) /\ Price(1) = HearingCost
    BY PriceAdd
  <2> QED
    BY <2>1, HearingUnits
<1>0. Pending = p + b + x + l
  BY <1>1, <1>4
<1>5. ASSUME OnMessage PROVE Pending' = Pending + HearingCost
  <2>1. /\ queue' = Append(queue, "command") /\ "command" \in Kind /\ UNCHANGED <<todo, busy, rx, left>>
        /\ pc = "select" /\ pc' = "clock"
    BY <1>5 DEF OnMessage, Push, Kind
  <2>2. Len(queue') + Len(todo') = m + 1
    <3>1. Len(queue') = Len(queue) + 1 /\ Len(queue) \in Nat /\ Len(todo) \in Nat /\ todo' = todo
      BY <2>1, Sizes
    <3> QED
      BY <1>1, <3>1
  <2>3. ToListen' = l
    BY <1>1, <1>3, <2>1 DEF ToListen
  <2>4. Pending' = (p + c) + b + x + l
    BY <1>1, <1>2, <1>4, <2>1, <2>2, <2>3
  <2>5. (p + c) + b + x + l = (p + b + x + l) + c
    OBVIOUS
  <2> QED
    BY <1>0, <1>4, <2>4, <2>5
<1>6. ASSUME IsNotConnected PROVE Pending' = Pending + Turn
  <2>1. UNCHANGED <<queue, todo, busy, rx, left>> /\ pc = "select" /\ pc' = "down" /\ left = 0
    BY <1>6 DEF IsNotConnected, writer
  <2>2. ToListen' = l + Turn
    BY <1>1, <1>3, <1>4, <2>1 DEF ToListen
  <2>3. Pending' = p + b + x + (l + t)
    BY <1>1, <1>2, <1>4, <2>1, <2>2
  <2>4. p + b + x + (l + t) = (p + b + x + l) + t
    OBVIOUS
  <2> QED
    BY <1>0, <1>4, <2>3, <2>4
<1>7. ASSUME ReadClock PROVE Pending' = Pending + Price(Len(todo')) /\ todo = <<>>
  <2>1. UNCHANGED <<queue, busy, rx, left>> /\ pc = "clock" /\ pc' = "push" /\ todo = <<>>
    BY <1>7 DEF ReadClock, writer, Places
  <2>2. PICK n \in Nat : n = Len(todo') /\ Len(queue') + Len(todo') = m + n
    <3>1. Len(todo) = 0 /\ Len(queue) \in Nat /\ Len(todo') \in Nat
      BY <2>1, Sizes, SizesAfter
    <3> QED
      BY <1>1, <2>1, <3>1
  <2>3. ToListen' = l
    BY <1>1, <1>3, <2>1 DEF ToListen
  <2>4. PICK v \in Nat : v = Price(n) /\ Price(m + n) = p + v
    <3>1. Price(n) \in Nat /\ Price(m + n) = Price(m) + Price(n)
      BY PriceAdd
    <3> QED
      BY <1>4, <3>1
  <2>5. Pending' = (p + v) + b + x + l
    BY <1>1, <1>2, <2>1, <2>2, <2>3, <2>4
  <2>6. (p + v) + b + x + l = (p + b + x + l) + v
    OBVIOUS
  <2> QED
    BY <1>0, <2>1, <2>2, <2>4, <2>5, <2>6
<1>8. ASSUME Emergency PROVE Pending' = Pending + Turn
  <2>1. /\ rx' = Append(rx, "emergency") /\ "emergency" \in Kind
        /\ UNCHANGED <<queue, todo, busy, left, pc>>
    BY <1>8 DEF Emergency, writer, main, Kind
  <2>2. PICK n \in Nat : n = Len(rx) /\ Len(rx') = n + 1
    BY <2>1, Sizes
  <2>3. Turns(n + 1) = x + t
    <3>1. 1 \in Nat
      OBVIOUS
    <3>2. Turns(n + 1) = Turns(n) + Turns(1) /\ Turns(1) = Turn
      BY <3>1, PriceAdd
    <3> QED
      BY <1>1, <1>4, <2>2, <3>2
  <2>4. ToListen' = l
    BY <1>1, <1>3, <2>1 DEF ToListen
  <2>5. Pending' = p + b + (x + t) + l
    BY <1>1, <1>2, <1>4, <2>1, <2>2, <2>3, <2>4
  <2>6. p + b + (x + t) + l = (p + b + x + l) + t
    OBVIOUS
  <2> QED
    BY <1>0, <1>4, <2>5, <2>6
<1> QED
  BY <1>5, <1>6, <1>7, <1>8

\* What a turn has to push, with what the timers keep, is what they had saved.
LEMMA LoadRead ==
  ASSUME Capacity, PortCapacity, ClockInReach, TypeOK, TypeOK', Places, InRange, ReadClock
  PROVE  Slow(Len(todo')) + Saved' = Saved /\ Slow(Len(todo')) \in Nat /\ Saved' \in Nat
<1>1. Saved = Saved' + (IF PollDue THEN Slow(1) ELSE 0) + (IF TempDue THEN Slow(SlaveCount) ELSE 0)
  BY SavedRead
<1>2. Len(todo') = (IF PollDue THEN 1 ELSE 0) + (IF TempDue THEN SlaveCount ELSE 0)
  <2>1. /\ Work' = Work + (IF PollDue THEN 1 ELSE 0) + (IF TempDue THEN SlaveCount ELSE 0)
        /\ todo = <<>> /\ UNCHANGED <<queue, busy>>
    BY WorkRead DEF ReadClock, writer
  <2>2. Work' = Len(queue) + Len(todo') + busy /\ Work = Len(queue) + 0 + busy
    BY <2>1 DEF Work
  <2>3. Len(queue) \in Nat /\ busy \in Nat /\ Len(todo') \in Nat /\ SlaveCount \in Nat
    BY Naturals, Sizes, SizesAfter
  <2> QED
    BY ONLY <2>1, <2>2, <2>3
<1>3. PICK s \in Nat : s = SlaveCount
  BY Naturals
<1>4. /\ Slow(0) = 0 /\ Slow(1) \in Nat /\ Slow(s) \in Nat /\ Slow(1 + s) = Slow(1) + Slow(s)
      /\ Saved' \in Nat
  BY SlowFast, SavedAfter
<1>5. Slow(Len(todo')) = (IF PollDue THEN Slow(1) ELSE 0) + (IF TempDue THEN Slow(s) ELSE 0)
  BY <1>2, <1>3, <1>4
<1> QED
  BY <1>1, <1>3, <1>4, <1>5

LEMMA HeardInit ==
  ASSUME Capacity, PortCapacity, ClockInReach, Init
  PROVE  Heard
<1>1. TypeOK /\ Covered
  BY PacedInit DEF Paced
<1>2. pc = "sleep" /\ left = 0 /\ rx = <<>>
  BY DEF Init
<1>3. ToListen = 0 + SelectWait
  BY <1>2 DEF ToListen
<1>4. ToListen <= Turn
  BY <1>3, HearingUnits
<1> QED
  BY <1>1, <1>2, <1>4, HeardAnew

LEMMA HeardStep ==
  ASSUME Capacity, PortCapacity, ClockInReach, Paced, Heard, [Next]_vars
  PROVE  Heard'
<1>0. Paced' /\ TypeOK /\ TypeOK' /\ Places /\ InRange /\ Covered'
  BY PacedStep DEF Paced
<1>1. PICK p \in Nat, l \in Nat, s \in Nat, x \in Nat, y \in Nat :
        /\ p = Pending /\ l = Limit /\ s = Saved
        /\ x = Load(p) /\ y = Load(l) /\ x + s <= y
  BY <1>0, PendingTyped, LimitTyped, SavedTyped, LoadAdd DEF Heard
<1>2. PICK q \in Nat, m \in Nat, t \in Nat :
        q = Pending' /\ m = Limit' /\ t = Saved' /\ t <= Slow(SlaveCount + 1)
  <2>1. (Capacity /\ TypeOK => Pending \in Nat /\ Limit \in Nat)'
    BY PendingTyped, LimitTyped, PTL
  <2>2. Capacity'
    BY DEF Capacity
  <2>3. Saved' \in Nat /\ Saved' <= Slow(SlaveCount + 1)
    BY <1>0, SavedAfter
  <2> QED
    BY <1>0, <2>1, <2>2, <2>3
<1>3. SUFFICES Load(q) + t <= Load(m)
  BY <1>2 DEF Heard, Load, D
<1>4. Load(q) \in Nat /\ Load(m) \in Nat /\ (q <= p => Load(q) <= x)
  BY <1>1, LoadAdd, LoadOrder
<1>5. PICK c \in Nat, w \in Nat, d \in Nat, h \in Nat, u \in Nat, v \in Nat :
        /\ c = HearingCost /\ w = Turn /\ d = D /\ h = Load(c) /\ u = Load(w) /\ v = Slow(SlaveCount + 1)
        /\ Load(p + c) = x + h /\ Load(l + c) = y + h
        /\ Load(p + w) = x + u /\ Load(l + w) = y + u /\ Load(l + Price(SlaveCount + 1) + w) = y + v + u
  <2>1. PICK c \in Nat, w \in Nat, k \in Nat : c = HearingCost /\ w = Turn /\ k = Price(SlaveCount + 1)
    <3>1. SlaveCount + 1 \in Nat
      BY Naturals
    <3> QED
      BY <3>1, HearingUnits, PriceAdd
  <2>2. /\ Load(p + c) = x + Load(c) /\ Load(l + c) = y + Load(c)
        /\ Load(p + w) = x + Load(w) /\ Load(l + w) = y + Load(w)
    BY <1>1, LoadAdd
  <2>3. Load((l + k) + w) = (y + Load(k)) + Load(w)
    <3>1. l + k \in Nat
      OBVIOUS
    <3>2. Load(l + k) = y + Load(k)
      BY <1>1, LoadAdd
    <3>3. Load((l + k) + w) = Load(l + k) + Load(w)
      BY <3>1, LoadAdd
    <3> QED
      BY <3>2, <3>3
  <2>4. Load(c) \in Nat /\ Load(w) \in Nat /\ Load(k) \in Nat /\ D \in Nat
    BY LoadAdd, Units
  <2>5. Slow(SlaveCount + 1) = Load(k)
    BY <2>1 DEF Slow
  <2>6. Slow(SlaveCount + 1) \in Nat /\ HearingCost = c /\ Turn = w
    BY ONLY <2>1, <2>4, <2>5, Zenon
  <2> USE <2>4, <2>6
  <2> WITNESS c \in Nat, w \in Nat, D \in Nat, Load(c) \in Nat, Load(w) \in Nat,
              Slow(SlaveCount + 1) \in Nat
  <2> QED
    BY ONLY <2>1, <2>2, <2>3, <2>5, <2>6, Zenon
<1>6. CASE \/ Select \/ IsConnected \/ Reconnect \/ Polling \/ RequestTemperature
           \/ AllPushed \/ Listen \/ Writer \/ UNCHANGED vars
  <2>1. q <= p
    BY <1>0, <1>1, <1>2, <1>6, PendingKept
  <2>2. t <= s
    BY <1>0, <1>1, <1>2, <1>6, SavedKept, SavedReconnect
  <2>3. UNCHANGED <<faults, commands, alarms>>
    BY <1>6, TimersKept
       DEF Select, IsConnected, Reconnect, Polling, RequestTemperature, AllPushed, Listen,
           Writer, Write, WaitForNotify, SpuriousWake, vars, history
  <2>4. m = l
    BY <1>0, <1>1, <1>2, <2>3, LimitStep
  <2> QED
    BY <1>1, <1>4, <2>1, <2>2, <2>4
<1>7. CASE OnMessage
  <2>1. q = p + c
    BY <1>0, <1>1, <1>2, <1>5, <1>7, PendingAdded
  <2>2. t = s
    BY <1>1, <1>2, <1>7, SavedKept
  <2>3. faults' = faults /\ commands' = commands + 1 /\ alarms' = alarms
    BY <1>7, TimersKept DEF OnMessage
  <2>4. m = l + c
    BY <1>0, <1>1, <1>2, <1>5, <2>3, LimitStep
  <2> QED
    BY <1>1, <1>5, <2>1, <2>2, <2>4
<1>8. faults' = faults + 1 /\ commands' = commands /\ alarms' = alarms => Load(m) = y + v + u
  <2> SUFFICES ASSUME faults' = faults + 1, commands' = commands, alarms' = alarms
               PROVE  Load(m) = y + v + u
    OBVIOUS
  <2>1. Limit' = Limit + Price(SlaveCount + 1) + Turn
    BY <1>0, LimitStep
  <2>2. m = l + Price(SlaveCount + 1) + w
    BY <1>1, <1>2, <1>5, <2>1
  <2> QED
    BY <1>5, <2>2
<1>9. CASE IsNotConnected
  <2>1. q = p + w
    BY <1>0, <1>1, <1>2, <1>5, <1>9, PendingAdded
  <2>2. faults' = faults + 1 /\ commands' = commands /\ alarms' = alarms
    BY <1>9 DEF IsNotConnected
  <2> QED
    BY <1>1, <1>2, <1>5, <1>8, <2>1, <2>2
<1>10. CASE SetClock
  <2>1. q <= p
    BY <1>0, <1>1, <1>2, <1>10, PendingKept
  <2>2. faults' = faults + 1 /\ commands' = commands /\ alarms' = alarms
    BY <1>10 DEF SetClock
  <2> QED
    BY <1>1, <1>2, <1>4, <1>5, <1>8, <2>1, <2>2
<1>11. CASE ReadClock
  <2>1. PICK n \in Nat : n = Len(todo')
    BY <1>0, SizesAfter
  <2>2. q = p + Price(n) /\ Price(n) \in Nat
    BY <1>0, <1>1, <1>2, <1>11, <2>1, PendingAdded, PriceAdd
  <2>3. Load(q) = x + Slow(n) /\ Slow(n) \in Nat
    BY <1>1, <2>2, LoadAdd DEF Slow
  <2>4. Slow(n) + t = s
    BY <1>0, <1>1, <1>2, <1>11, <2>1, LoadRead
  <2>5. faults' = faults /\ commands' = commands /\ alarms' = alarms
    BY <1>0, <1>11, TimersRead
  <2>6. m = l
    BY <1>0, <1>1, <1>2, <2>5, LimitStep
  <2> QED
    BY <1>1, <2>3, <2>4, <2>6
<1>12. CASE Tick
  <2>1. m = l
    <3>1. faults' = faults /\ commands' = commands /\ alarms' = alarms
      BY <1>12 DEF Tick
    <3> QED
      BY <1>0, <1>1, <1>2, <3>1, LimitStep
  <2>2. CASE pc = "down"
    <3>1. q <= p /\ t = s
      BY <1>0, <1>1, <1>2, <1>12, <2>2, PendingTick, SavedTick
    <3> QED
      BY <1>1, <1>4, <2>1, <3>1
  <2>3. CASE pc # "down"
    <3>1. q + 1 <= p
      BY <1>0, <1>1, <1>2, <1>12, <2>3, PendingTick
    <3>2. t <= s + d
      BY <1>0, <1>1, <1>2, <1>5, <1>12, SavedTick
    <3>3. Load(q) + d <= x
      <4>1. q + 1 \in Nat /\ 1 \in Nat
        OBVIOUS
      <4>2. Load(q + 1) = Load(q) + d
        BY <1>5, <4>1, LoadAdd
      <4>3. Load(q + 1) <= Load(p)
        BY <3>1, <4>1, LoadOrder
      <4> QED
        BY <1>1, <4>2, <4>3
    <3> QED
      BY <1>1, <1>4, <2>1, <3>2, <3>3
  <2> QED
    BY <2>2, <2>3
<1>13. CASE NothingToHear
  <2>1. pc' = "sleep" /\ left' = 1 /\ rx' = <<>>
    BY <1>13 DEF NothingToHear
  <2>2. ToListen' = 1 + SelectWait
    BY <2>1 DEF ToListen
  <2>3. ToListen' <= Turn'
    <3>1. Turn' = Turn
      BY DEF Turn
    <3> QED
      BY <2>2, <3>1, HearingUnits
  <2>4. Capacity' /\ PortCapacity'
    BY DEF Capacity, PortCapacity, HearingCost
  <2>5. (Capacity /\ PortCapacity /\ TypeOK /\ Covered /\ pc # "down" /\ rx = <<>> /\ ToListen <= Turn
          => Heard)'
    BY HeardAnew, PTL
  <2>6. Heard'
    BY <1>0, <2>1, <2>3, <2>4, <2>5
  <2> QED
    BY <1>2, <2>6 DEF Heard, Load, D
<1>14. CASE Emergency
  <2>1. q = p + w
    BY <1>0, <1>1, <1>2, <1>5, <1>14, PendingAdded
  <2>2. t = s
    BY <1>1, <1>2, <1>14, SavedKept
  <2>3. faults' = faults /\ commands' = commands /\ alarms' = alarms + 1
    BY <1>14 DEF Emergency
  <2>4. m = l + w
    BY <1>0, <1>1, <1>2, <1>5, <2>3, LimitStep
  <2> QED
    BY <1>1, <1>5, <2>1, <2>2, <2>4
<1> QED
  BY <1>6, <1>7, <1>9, <1>10, <1>11, <1>12, <1>13, <1>14 DEF Next, MainThread

\* How many packets in the port that is.
LEMMA HeardBounds ==
  ASSUME Capacity, PortCapacity, Paced, Heard
  PROVE  RxBounded
<1>1. PICK n \in Nat, w \in Nat \ {0}, r \in Nat, f \in Nat :
        n = Len(rx) /\ w = Turn /\ r = Room /\ f = Delays
  BY HearingUnits, RoomTyped, Sizes DEF Paced
<1>2. Pending <= Limit
  <2>1. PICK p \in Nat, l \in Nat, s \in Nat : p = Pending /\ l = Limit /\ s = Saved /\ Load(p) + s <= Load(l)
    BY PendingTyped, LimitTyped, SavedTyped DEF Paced, Heard
  <2>2. Load(p) \in Nat /\ Load(l) \in Nat
    BY LoadAdd
  <2>3. Load(p) <= Load(l)
    BY <2>1, <2>2
  <2> QED
    BY <2>1, <2>3, LoadOrder
<1>3. Turns(n) <= Pending
  <2>1. PICK a \in Nat, b \in Nat, c \in Nat, e \in Nat :
          /\ a = Price(Len(queue) + Len(todo)) /\ b = busy /\ c = Turns(n) /\ e = ToListen
          /\ Pending = a + b + c + e
    <3>1. Price(Len(queue) + Len(todo)) \in Nat /\ Turns(n) \in Nat /\ ToListen \in Nat /\ busy \in Nat
      BY PendingTyped, PriceAdd, Sizes DEF Paced
    <3>2. Pending = Price(Len(queue) + Len(todo)) + busy + Turns(n) + ToListen
      BY <1>1 DEF Pending
    <3> QED
      BY <3>1, <3>2
  <2> QED
    BY <2>1
<1>4. Limit = r + Turns((r + 1) + f)
  <2>1. Price(r) = r + Turns(r) /\ Turns(r) \in Nat
    BY PriceAdd
  <2>2. r + (1 + f) = (r + 1) + f /\ 1 + f \in Nat
    OBVIOUS
  <2>3. Turns(r + (1 + f)) = Turns(r) + Turns(1 + f) /\ Turns(1 + f) \in Nat
    BY <2>2, PriceAdd
  <2>4. Limit = Price(r) + Turns(1 + f)
    BY <1>1 DEF Limit
  <2> QED
    BY <2>1, <2>2, <2>3, <2>4
<1>5. PICK q \in Nat : q = MostQueued /\ r <= q
  <2>1. Batches(2 + faults) \in Nat /\ Batches(2 + faults) = (2 + faults) * (SlaveCount + 1)
    <3>1. 2 + faults \in Nat
      BY Sizes DEF Paced
    <3> QED
      BY <3>1, BatchesAdd DEF Batches
  <2>2. commands \in Nat /\ commands <= MaxCommands /\ MaxCommands \in Nat
    BY Naturals DEF Paced, TypeOK
  <2>3. MostQueued = Batches(2 + faults) + MaxCommands /\ Room = Batches(2 + faults) + commands
    BY <2>1 DEF MostQueued, Room, Batches
  <2> QED
    BY <1>1, <2>1, <2>2, <2>3
<1>6. n <= r + 1 + f + q \div w
  <2>1. CASE n <= r + 1 + f
    <3>1. q \div w \in Nat
      BY ONLY q \in Nat, w \in Nat \ {0}
    <3> QED
      BY <2>1, <3>1
  <2>2. CASE ~(n <= r + 1 + f)
    <3>1. PICK k \in Nat : n = ((r + 1) + f) + k
      <4>1. n - (r + 1 + f) \in Nat /\ n = ((r + 1) + f) + (n - (r + 1 + f))
        BY <2>2
      <4> QED
        BY <4>1
    <3>2. Turns(n) = Turns((r + 1) + f) + Turns(k) /\ Turns((r + 1) + f) \in Nat /\ Turns(k) \in Nat
      <4>1. (r + 1) + f \in Nat
        OBVIOUS
      <4> QED
        BY <3>1, <4>1, PriceAdd
    <3>3. w * k <= q
      <4>1. Turns(k) <= q
        <5>1. PICK p \in Nat : p = Pending /\ Turns(n) <= p /\ p <= r + Turns((r + 1) + f)
          BY <1>2, <1>3, <1>4, PendingTyped DEF Paced
        <5> QED
          BY <1>5, <3>2, <5>1
      <4> QED
        BY <1>1, <4>1 DEF Turns
    <3>4. k <= q \div w
      <4>1. PICK e \in Nat : e = q \div w /\ q < w * (e + 1)
        <5>1. q \div w \in Nat /\ q < w * (q \div w + 1)
          BY ONLY q \in Nat, w \in Nat \ {0}
        <5> QED
          BY <5>1
      <4>2. e + 1 <= k => w * (e + 1) <= w * k
        <5>1. w \in Nat /\ e + 1 \in Nat
          OBVIOUS
        <5> QED
          BY <5>1, Product
      <4>3. w * k \in Nat /\ w * (e + 1) \in Nat
        BY ONLY w \in Nat \ {0}, k \in Nat, e \in Nat
      <4> QED
        BY <3>3, <4>1, <4>2, <4>3
    <3>5. q \div w \in Nat
      BY ONLY q \in Nat, w \in Nat \ {0}
    <3> QED
      BY <3>1, <3>4, <3>5
  <2> QED
    BY <2>1, <2>2
<1>7. q \div w \in Nat
  BY ONLY q \in Nat, w \in Nat \ {0}
<1>8. MostUnheard = q + q \div w + 1 + f
  <2>1. PICK a \in Nat, b \in Nat : a = faults /\ b = alarms
    BY Sizes DEF Paced
  <2>2. f = a + b
    BY <1>1, <2>1 DEF Delays
  <2>3. MostUnheard = q + q \div w + 1 + a + b
    BY <1>1, <1>5, <2>1 DEF MostUnheard, Turn
  <2> QED
    BY <1>7, <2>2, <2>3
<1>9. Len(rx) <= q + q \div w + 1 + f
  BY <1>1, <1>5, <1>6, <1>7
<1> QED
  BY <1>8, <1>9 DEF RxBounded

\* One packet a turn keeps up with the answers of the board and its emergencies:
\* where a period leaves the main thread a turn and a half second for each answer,
\* the port never holds more than the emergencies and what the pushes of one turn
\* may keep it from hearing.
THEOREM PortBounded ==
  ASSUME Capacity, ClockInReach, PortCapacity
  PROVE  Spec => []RxBounded
<1>1. Init => Paced /\ Heard
  BY PacedInit, HeardInit
<1>2. Paced /\ Heard /\ [Next]_vars => Paced' /\ Heard'
  BY PacedStep, HeardStep
<1>3. Paced /\ Heard => RxBounded
  BY HeardBounds
<1> QED
  BY <1>1, <1>2, <1>3, PTL DEF Spec

-----------------------------------------------------------------------------
(* The polls on their way, oldest first: heard next, to be heard, to be    *)
(* written, to be pushed.                                                  *)

Line == rx \o queue \o todo

PollsAfter(packets, i) == {k \in PollsAt(packets) : k > i}
After(packets, i) == Cardinality(PollsAfter(packets, i))

LEMMA AfterTyped ==
  ASSUME NEW s \in Seq(Kind), NEW i \in Nat
  PROVE  IsFiniteSet(PollsAfter(s, i)) /\ After(s, i) \in Nat
<1>1. PollsAfter(s, i) \in SUBSET PollsAt(s)
  BY DEF PollsAfter
<1>2. IsFiniteSet(PollsAfter(s, i))
  BY <1>1, PollsTyped, FS_Subset
<1> QED
  BY <1>2, FS_CardinalityType DEF After

\* Where a packet was before the one at m + 1 was taken out.
Was(m, k) == IF k <= m THEN k ELSE k + 1

\* Taking packets out puts no poll behind another one.
LEMMA AfterThinned ==
  ASSUME NEW s \in Seq(Kind), NEW t \in Seq(Kind), NEW m \in Nat, NEW i \in Nat,
         \A k \in PollsAt(s) : Was(m, k) \in PollsAt(t)
  PROVE  After(s, i) <= After(t, Was(m, i))
<1> DEFINE A == PollsAfter(s, i)
           B == PollsAfter(t, Was(m, i))
           f == [k \in A |-> Was(m, k)]
<1>1. \A k \in A : k \in Nat /\ k > i /\ k \in PollsAt(s)
  BY DEF PollsAfter, PollsAt
<1>2. \A k \in A : Was(m, k) \in B
  BY <1>1 DEF PollsAfter, Was
<1>3. f \in [A -> B]
  BY <1>2
<1>4. \A a, b \in A : f[a] = f[b] => a = b
  BY <1>1 DEF Was
<1>5. IsFiniteSet(B)
  <2>1. Was(m, i) \in Nat
    BY DEF Was
  <2> QED
    BY <2>1, AfterTyped
<1> HIDE DEF A, B, f
<1>6. f \in Injection(A, B)
  BY <1>3, <1>4, Fun_IsInj
<1>7. Cardinality(A) <= Cardinality(B)
  BY <1>5, <1>6, FS_Injection
<1> QED
  BY <1>7 DEF After, A, B

\* Where a packet was before the one at m + 1 came in.
Before(m, k) == IF k <= m THEN k ELSE k - 1

\* Putting in what is no poll puts no poll behind another one.
LEMMA AfterInserted ==
  ASSUME NEW s \in Seq(Kind), NEW t \in Seq(Kind), NEW m \in Nat, NEW i \in Nat,
         i # m + 1,
         \A k \in PollsAt(s) : k # m + 1 /\ Before(m, k) \in PollsAt(t)
  PROVE  After(s, i) <= After(t, Before(m, i))
<1> DEFINE A == PollsAfter(s, i)
           B == PollsAfter(t, Before(m, i))
           f == [k \in A |-> Before(m, k)]
<1>1. \A k \in A : k \in Nat /\ k > i /\ k \in PollsAt(s) /\ k # m + 1
  BY DEF PollsAfter, PollsAt
<1>2. \A k \in A : Before(m, k) \in B
  BY <1>1 DEF PollsAfter, Before
<1>3. f \in [A -> B]
  BY <1>2
<1>4. \A a, b \in A : f[a] = f[b] => a = b
  BY <1>1 DEF Before
<1>5. IsFiniteSet(B)
  <2>1. Before(m, i) \in Nat
    BY DEF Before
  <2> QED
    BY <2>1, AfterTyped
<1> HIDE DEF A, B, f
<1>6. f \in Injection(A, B)
  BY <1>3, <1>4, Fun_IsInj
<1>7. Cardinality(A) <= Cardinality(B)
  BY <1>5, <1>6, FS_Injection
<1> QED
  BY <1>7 DEF After, A, B

\* A line in three parts.
LEMMA LineParts ==
  ASSUME NEW r \in Seq(Kind), NEW q \in Seq(Kind), NEW t \in Seq(Kind)
  PROVE  /\ r \o q \o t \in Seq(Kind)
         /\ Len(r \o q \o t) = Len(r) + Len(q) + Len(t)
         /\ \A k \in Nat :
              k \in PollsAt(r \o q \o t) <=>
                \/ k \in PollsAt(r)
                \/ k > Len(r) /\ k - Len(r) \in PollsAt(q)
                \/ k > Len(r) + Len(q) /\ k - (Len(r) + Len(q)) \in PollsAt(t)
<1>1. PICK a \in Nat, b \in Nat, c \in Nat : a = Len(r) /\ b = Len(q) /\ c = Len(t)
  OBVIOUS
<1>2. /\ r \o q \in Seq(Kind) /\ Len(r \o q) = a + b
      /\ \A i \in 1 .. a + b : (r \o q)[i] = IF i <= a THEN r[i] ELSE q[i - a]
  BY <1>1, ConcatProperties
<1>3. /\ (r \o q) \o t \in Seq(Kind) /\ Len((r \o q) \o t) = a + b + c
      /\ \A i \in 1 .. a + b + c : ((r \o q) \o t)[i] = IF i <= a + b THEN (r \o q)[i] ELSE t[i - (a + b)]
  BY <1>1, <1>2, ConcatProperties
<1>4. /\ DOMAIN r = 1 .. a /\ DOMAIN q = 1 .. b /\ DOMAIN t = 1 .. c
      /\ DOMAIN ((r \o q) \o t) = 1 .. a + b + c
  BY <1>1, <1>3
<1>5. ASSUME NEW k \in Nat
      PROVE  k \in PollsAt(r \o q \o t) <=>
                \/ k \in PollsAt(r)
                \/ k > a /\ k - a \in PollsAt(q)
                \/ k > a + b /\ k - (a + b) \in PollsAt(t)
  <2>1. CASE k <= a
    BY <1>2, <1>3, <1>4, <2>1 DEF PollsAt
  <2>2. CASE k > a /\ k <= a + b
    <3>1. k - a \in 1 .. b /\ k \in 1 .. a + b /\ ~(k <= a) /\ ~(k > a + b)
      BY <2>2
    <3>2. ((r \o q) \o t)[k] = q[k - a] /\ k \in 1 .. a + b + c
      BY <1>2, <1>3, <3>1
    <3> QED
      BY <1>4, <3>1, <3>2 DEF PollsAt
  <2>3. CASE k > a + b
    <3>1. ~(k <= a) /\ ~(k - a <= b) /\ ~(k <= a + b)
      BY <2>3
    <3>2. k - (a + b) \in 1 .. c <=> k \in 1 .. a + b + c
      BY <2>3
    <3>3. k \in 1 .. a + b + c => ((r \o q) \o t)[k] = t[k - (a + b)]
      BY <1>3, <3>1
    <3> QED
      BY <1>4, <2>3, <3>1, <3>2, <3>3 DEF PollsAt
  <2> QED
    BY <2>1, <2>2, <2>3
<1> QED
  BY <1>1, <1>3, <1>5

\* Handing the first packet on leaves the line as it is.
LEMMA HandOn ==
  ASSUME NEW q \in Seq(Kind), NEW t \in Seq(Kind), t # <<>>
  PROVE  Append(q, Head(t)) \o Tail(t) = q \o t
<1>1. PICK a \in Nat, b \in Nat : a = Len(q) /\ Len(t) = b + 1
  <2>1. Len(t) \in Nat \ {0}
    BY EmptySeq
  <2>2. Len(t) - 1 \in Nat /\ Len(t) = (Len(t) - 1) + 1 /\ Len(q) \in Nat
    BY <2>1
  <2> QED
    BY <2>2, Zenon
<1>2. /\ Head(t) \in Kind /\ Tail(t) \in Seq(Kind) /\ Len(Tail(t)) = b /\ Head(t) = t[1]
      /\ \A i \in 1 .. b : Tail(t)[i] = t[i + 1]
  BY <1>1
<1>3. /\ Append(q, Head(t)) \in Seq(Kind) /\ Len(Append(q, Head(t))) = a + 1
      /\ \A i \in 1 .. a : Append(q, Head(t))[i] = q[i]
      /\ Append(q, Head(t))[a + 1] = t[1]
  BY <1>1, <1>2
<1>4. /\ Append(q, Head(t)) \o Tail(t) \in Seq(Kind) /\ Len(Append(q, Head(t)) \o Tail(t)) = a + 1 + b
      /\ \A i \in 1 .. a + 1 + b : (Append(q, Head(t)) \o Tail(t))[i] =
           IF i <= a + 1 THEN Append(q, Head(t))[i] ELSE Tail(t)[i - (a + 1)]
  <2>1. /\ Append(q, Head(t)) \o Tail(t) \in Seq(Kind)
        /\ Len(Append(q, Head(t)) \o Tail(t)) = Len(Append(q, Head(t))) + Len(Tail(t))
        /\ \A i \in 1 .. Len(Append(q, Head(t))) + Len(Tail(t)) :
             (Append(q, Head(t)) \o Tail(t))[i] =
                IF i <= Len(Append(q, Head(t))) THEN Append(q, Head(t))[i]
                ELSE Tail(t)[i - Len(Append(q, Head(t)))]
    BY <1>2, <1>3, ConcatProperties
  <2> QED
    BY ONLY <1>2, <1>3, <2>1, Zenon
<1>5. /\ q \o t \in Seq(Kind) /\ Len(q \o t) = a + (b + 1)
      /\ \A i \in 1 .. a + (b + 1) : (q \o t)[i] = IF i <= a THEN q[i] ELSE t[i - a]
  <2>1. /\ q \o t \in Seq(Kind) /\ Len(q \o t) = Len(q) + Len(t)
        /\ \A i \in 1 .. Len(q) + Len(t) : (q \o t)[i] = IF i <= Len(q) THEN q[i] ELSE t[i - Len(q)]
    BY ConcatProperties
  <2> QED
    BY ONLY <1>1, <2>1, Zenon
<1>6. ASSUME NEW i \in 1 .. a + 1 + b
      PROVE  (Append(q, Head(t)) \o Tail(t))[i] = (q \o t)[i]
  <2>1. CASE i <= a
    BY <1>3, <1>4, <1>5, <2>1
  <2>2. CASE i = a + 1
    BY <1>3, <1>4, <1>5, <2>2
  <2>3. CASE i > a + 1
    <3>1. i - (a + 1) \in 1 .. b /\ (i - (a + 1)) + 1 = i - a /\ ~(i <= a + 1) /\ ~(i <= a)
      BY <2>3
    <3>2. Tail(t)[i - (a + 1)] = t[i - a]
      BY <1>2, <3>1
    <3>3. (Append(q, Head(t)) \o Tail(t))[i] = Tail(t)[i - (a + 1)]
      BY <1>4, <3>1
    <3>4. (q \o t)[i] = t[i - a]
      <4>1. i \in 1 .. a + (b + 1)
        OBVIOUS
      <4> QED
        BY <1>5, <3>1, <4>1
    <3> QED
      BY <3>2, <3>3, <3>4
  <2>4. i <= a \/ i = a + 1 \/ i > a + 1
    BY ONLY a \in Nat, b \in Nat, i \in 1 .. a + 1 + b
  <2> QED
    BY <2>1, <2>2, <2>3, <2>4, Zenon
<1>7. Len(Append(q, Head(t)) \o Tail(t)) = Len(q \o t)
  BY <1>4, <1>5
<1> QED
  BY <1>4, <1>5, <1>6, <1>7, SeqEqual

\* Where the polls of the tail are.
LEMMA PollsAtTail ==
  ASSUME NEW s \in Seq(Kind), s # <<>>, NEW k \in Nat
  PROVE  k \in PollsAt(Tail(s)) => k + 1 \in PollsAt(s)
<1>1. PICK n \in Nat : n + 1 = Len(s)
  <2>1. Len(s) \in Nat \ {0}
    BY EmptySeq
  <2>2. Len(s) - 1 \in Nat /\ (Len(s) - 1) + 1 = Len(s)
    BY <2>1
  <2> QED
    BY <2>2
<1>2. /\ DOMAIN Tail(s) = 1 .. n /\ DOMAIN s = 1 .. n + 1
      /\ \A i \in 1 .. n : Tail(s)[i] = s[i + 1]
  BY <1>1
<1>3. SUFFICES ASSUME k \in PollsAt(Tail(s)) PROVE k + 1 \in PollsAt(s)
  OBVIOUS
<1>4. k \in 1 .. n /\ Tail(s)[k] = "poll"
  BY <1>2, <1>3 DEF PollsAt
<1>5. k + 1 \in 1 .. n + 1
  BY ONLY <1>4, n \in Nat
<1>6. s[k + 1] = "poll"
  BY ONLY <1>2, <1>4, Zenon
<1>7. k + 1 \in DOMAIN s
  BY ONLY <1>2, <1>5, Zenon
<1> QED
  BY ONLY <1>6, <1>7, Zenon DEF PollsAt

LEMMA Regroup ==
  ASSUME NEW r \in Seq(Kind), NEW s \in Seq(Kind), NEW t \in Seq(Kind)
  PROVE  (r \o s) \o t = r \o (s \o t)
BY ConcatAssociative

\* Where the polls of a line may be.
LEMMA LineTyped ==
  ASSUME TypeOK
  PROVE  /\ Line \in Seq(Kind) /\ Len(Line) = Len(rx) + Len(queue) + Len(todo)
         /\ \A i \in PollsAt(Line) : i \in Nat \ {0} /\ i <= Len(rx) + Len(queue) + Len(todo)
<1>1. Line \in Seq(Kind) /\ Len(Line) = Len(rx) + Len(queue) + Len(todo)
  BY LineParts, Sizes DEF Line
<1>2. \A i \in PollsAt(Line) : i \in 1 .. Len(Line)
  BY <1>1 DEF PollsAt
<1>3. Len(Line) \in Nat
  BY <1>1
<1> QED
  BY <1>1, <1>2, <1>3

\* The steps that hand a packet on, and those that touch none.
LEMMA LineKept ==
  ASSUME TypeOK,
         \/ Select \/ IsConnected \/ IsNotConnected \/ Reconnect \/ Polling \/ RequestTemperature
         \/ AllPushed \/ NothingToHear \/ WaitForNotify \/ SpuriousWake \/ Tick \/ SetClock
         \/ UNCHANGED vars
         \/ Write /\ rx' # rx
  PROVE  Line' = Line
<1>1. CASE Polling \/ RequestTemperature
  <2>1. todo # <<>> /\ queue' = Append(queue, Head(todo)) /\ todo' = Tail(todo) /\ rx' = rx
    BY <1>1 DEF Polling, RequestTemperature, Push
  <2>2. queue \in Seq(Kind) /\ todo \in Seq(Kind) /\ rx \in Seq(Kind)
    BY Sizes
  <2>3. Head(todo) \in Kind /\ Tail(todo) \in Seq(Kind) /\ Append(queue, Head(todo)) \in Seq(Kind)
    BY <2>1, <2>2
  <2>4. (rx \o Append(queue, Head(todo))) \o Tail(todo) = rx \o (Append(queue, Head(todo)) \o Tail(todo))
    BY <2>2, <2>3, Regroup
  <2>5. Append(queue, Head(todo)) \o Tail(todo) = queue \o todo
    BY <2>1, <2>2, HandOn
  <2>6. (rx \o queue) \o todo = rx \o (queue \o todo)
    BY <2>2, ConcatAssociative
  <2> QED
    BY <2>1, <2>4, <2>5, <2>6, Zenon DEF Line
<1>2. CASE Write /\ rx' # rx
  <2>1. queue # <<>> /\ queue' = Tail(queue) /\ rx' = Append(rx, Head(queue)) /\ todo' = todo
    BY <1>2 DEF Write, main
  <2>2. Append(rx, Head(queue)) \o Tail(queue) = rx \o queue
    BY <2>1, Sizes, HandOn
  <2> QED
    BY <2>1, <2>2, Zenon DEF Line
<1>3. CASE \/ Select \/ IsConnected \/ IsNotConnected \/ Reconnect \/ AllPushed \/ NothingToHear
           \/ WaitForNotify \/ SpuriousWake \/ Tick \/ SetClock \/ UNCHANGED vars
  <2>1. UNCHANGED <<rx, queue, todo>>
    BY <1>3 DEF Select, IsConnected, IsNotConnected, Reconnect, AllPushed, NothingToHear,
                WaitForNotify, SpuriousWake, Tick, SetClock, vars, main, writer
  <2> QED
    BY <2>1 DEF Line
<1> QED
  BY <1>1, <1>2, <1>3

\* Where the polls of the next state were, where this step asks for none.
LEMMA LineStep ==
  ASSUME TypeOK, TypeOK', Places, [Next]_vars, ~ReadClock, NEW j \in PollsAt(Line')
  PROVE  \E i \in PollsAt(Line) :
           /\ After(Line', j) <= After(Line, i)
           /\ Emergency => j <= i + 1
           /\ ~Emergency => j <= i
           /\ Listen => i = j + 1
           /\ j > Len(rx') => i > Len(rx) /\ (j - Len(rx')) + busy' <= (i - Len(rx)) + busy
<1>1. /\ rx \in Seq(Kind) /\ queue \in Seq(Kind) /\ todo \in Seq(Kind) /\ Line \in Seq(Kind)
      /\ busy \in Nat
  BY Sizes, LineTyped
<1>2. Line' \in Seq(Kind) /\ j \in Nat
  <2>1. (TypeOK => Line \in Seq(Kind))'
    BY LineTyped, PTL
  <2> QED
    BY <2>1 DEF PollsAt
<1>3. PICK a \in Nat, b \in Nat : a = Len(rx) /\ b = Len(queue)
  BY Sizes
<1>4. CASE \/ Select \/ IsConnected \/ IsNotConnected \/ Reconnect \/ Polling \/ RequestTemperature
           \/ AllPushed \/ NothingToHear \/ WaitForNotify \/ SpuriousWake \/ Tick \/ SetClock
           \/ UNCHANGED vars
  <2>1. Line' = Line /\ rx' = rx
    BY <1>4, LineKept
       DEF Select, IsConnected, IsNotConnected, Reconnect, Polling, RequestTemperature, AllPushed,
           NothingToHear, WaitForNotify, SpuriousWake, Tick, SetClock, vars, main, writer
  <2>2. ~Listen
    BY <1>4 DEF Select, IsConnected, IsNotConnected, Reconnect, Polling, RequestTemperature, AllPushed,
                NothingToHear, WaitForNotify, SpuriousWake, Tick, SetClock, vars, main, Listen
  <2>3. busy' <= busy /\ busy' \in Nat
    <3>1. Less(busy) <= busy
      BY <1>1 DEF Less
    <3>2. busy' = busy \/ busy' = Less(busy)
      BY <1>4 DEF Select, IsConnected, IsNotConnected, Reconnect, Polling, RequestTemperature, AllPushed,
                  NothingToHear, WaitForNotify, SpuriousWake, Tick, SetClock, vars, main, writer
    <3> QED
      BY <1>1, <3>1, <3>2, SizesAfter
  <2>4. After(Line, j) \in Nat
    BY <1>1, <1>2, AfterTyped
  <2>5. After(Line', j) <= After(Line, j) /\ j \in PollsAt(Line)
    BY <2>1, <2>4
  <2>6. (j - Len(rx')) + busy' <= (j - Len(rx)) + busy /\ (j > Len(rx') => j > Len(rx)) /\ j <= j /\ j <= j + 1
    BY <1>1, <1>2, <1>3, <2>1, <2>3
  <2> QED
    BY <2>2, <2>5, <2>6
<1>5. CASE OnMessage
  <2>1. /\ queue' = Append(queue, "command") /\ "command" \in Kind /\ UNCHANGED <<rx, todo, busy>>
        /\ pc = "select" /\ pc' = "clock"
    BY <1>5 DEF OnMessage, Push, Kind
  <2>2. \A k \in PollsAt(queue') : k \in PollsAt(queue)
    <3>1. /\ DOMAIN queue' = 1 .. b + 1 /\ DOMAIN queue = 1 .. b
          /\ \A i \in 1 .. b : queue'[i] = queue[i]
          /\ queue'[b + 1] = "command"
      BY <1>1, <1>3, <2>1
    <3> QED
      BY <3>1 DEF PollsAt
  <2>3. todo = <<>> /\ \A k \in Nat : k \notin PollsAt(todo)
    <3>1. todo = <<>>
      BY <2>1 DEF Places
    <3> QED
      BY <3>1 DEF PollsAt
  <2>4. \A k \in PollsAt(Line') : k \in PollsAt(Line)
    <3>1. queue' \in Seq(Kind) /\ rx' = rx /\ todo' = todo
      BY <2>1, SizesAfter
    <3>2. \A k \in Nat : k \in PollsAt(Line') =>
            \/ k \in PollsAt(rx)
            \/ k > Len(rx) /\ k - Len(rx) \in PollsAt(queue')
      <4>1. PICK s \in Seq(Kind) : s = queue'
        BY <3>1
      <4>2. \A k \in Nat : k \in PollsAt(rx \o s \o todo) =>
              \/ k \in PollsAt(rx)
              \/ k > Len(rx) /\ k - Len(rx) \in PollsAt(s)
              \/ k > Len(rx) + Len(s) /\ k - (Len(rx) + Len(s)) \in PollsAt(todo)
        BY <1>1, LineParts
      <4>3. \A k \in Nat : k > Len(rx) + Len(s) => k - (Len(rx) + Len(s)) \in Nat
        BY <1>1
      <4>4. Line' = rx \o s \o todo
        BY <3>1, <4>1 DEF Line
      <4> QED
        BY <2>3, <4>1, <4>2, <4>3, <4>4
    <3>3. \A k \in Nat : /\ k \in PollsAt(rx) => k \in PollsAt(Line)
                         /\ k > Len(rx) /\ k - Len(rx) \in PollsAt(queue) => k \in PollsAt(Line)
      BY <1>1, LineParts DEF Line
    <3>4. \A k \in PollsAt(Line') : k \in Nat
      BY <1>2 DEF PollsAt
    <3> QED
      BY <2>2, <3>2, <3>3, <3>4
  <2>5. After(Line', j) <= After(Line, j) /\ j \in PollsAt(Line)
    <3>1. \A k \in PollsAt(Line') : Was(j + Len(Line'), k) = k /\ Was(j + Len(Line'), j) = j
      BY <1>2 DEF PollsAt, Was
    <3>2. \A k \in PollsAt(Line') : Was(j + Len(Line'), k) \in PollsAt(Line)
      BY <2>4, <3>1
    <3>3. j + Len(Line') \in Nat
      BY <1>2
    <3>4. After(Line', j) <= After(Line, Was(j + Len(Line'), j))
      BY <1>1, <1>2, <3>2, <3>3, AfterThinned
    <3> QED
      BY <2>4, <3>1, <3>4
  <2>6. ~Listen
    BY <2>1 DEF Listen
  <2>7. (j - Len(rx')) + busy' <= (j - Len(rx)) + busy /\ (j > Len(rx') => j > Len(rx)) /\ j <= j /\ j <= j + 1
    BY <1>1, <1>2, <1>3, <2>1
  <2> QED
    BY <2>5, <2>6, <2>7
<1>6. CASE Listen
  <2>1. rx # <<>> /\ rx' = Tail(rx) /\ UNCHANGED <<queue, todo, busy>>
    BY <1>6 DEF Listen, writer
  <2>2. PICK c \in Nat : Len(rx') = c /\ a = c + 1
    <3>1. Len(rx') = Len(rx) - 1 /\ Len(rx) \in Nat \ {0}
      BY <1>1, <2>1, EmptySeq
    <3> QED
      BY <1>3, <3>1
  <2>3. \A k \in PollsAt(Line') : k + 1 \in PollsAt(Line) /\ k \in Nat \ {0}
    <3>1. \A k \in PollsAt(Line') : k \in Nat \ {0}
      BY <1>2 DEF PollsAt
    <3>2. \A k \in Nat : k \in PollsAt(Line') =>
                \/ k \in PollsAt(rx')
                \/ k > c /\ k - c \in PollsAt(queue)
                \/ k > c + b /\ k - (c + b) \in PollsAt(todo)
      BY <1>1, <1>3, <2>1, <2>2, SizesAfter, LineParts DEF Line
    <3>3. \A k \in Nat : k \in PollsAt(Line) <=>
                \/ k \in PollsAt(rx)
                \/ k > c + 1 /\ k - (c + 1) \in PollsAt(queue)
                \/ k > c + 1 + b /\ k - (c + 1 + b) \in PollsAt(todo)
      <4>1. \A k \in Nat : k \in PollsAt(Line) <=>
                \/ k \in PollsAt(rx)
                \/ k > a /\ k - a \in PollsAt(queue)
                \/ k > a + b /\ k - (a + b) \in PollsAt(todo)
        BY <1>1, <1>3, LineParts DEF Line
      <4> QED
        BY <2>2, <4>1
    <3>4. \A k \in Nat : k \in PollsAt(rx') => k + 1 \in PollsAt(rx)
      BY <1>1, <2>1, PollsAtTail
    <3>5. \A k \in Nat : /\ (k + 1) - (c + 1) = k - c /\ (k + 1) - (c + 1 + b) = k - (c + b)
                         /\ k > c => k + 1 > c + 1
                         /\ k > c + b => k + 1 > c + 1 + b
                         /\ k + 1 \in Nat
      OBVIOUS
    <3>6. ASSUME NEW k \in Nat, k \in PollsAt(Line') PROVE k + 1 \in PollsAt(Line)
      BY <3>2, <3>3, <3>4, <3>5, <3>6
    <3> QED
      BY <3>1, <3>6
  <2>4. After(Line', j) <= After(Line, j + 1)
    <3>1. \A k \in PollsAt(Line') : Was(0, k) = k + 1
      BY <2>3 DEF Was
    <3>2. \A k \in PollsAt(Line') : Was(0, k) \in PollsAt(Line)
      BY <2>3, <3>1
    <3>3. After(Line', j) <= After(Line, Was(0, j))
      BY <1>1, <1>2, <3>2, AfterThinned
    <3> QED
      BY <3>1, <3>3
  <2>5. /\ j + 1 \in PollsAt(Line) /\ j <= j + 1 /\ j <= (j + 1) + 1
        /\ j > Len(rx') => j + 1 > Len(rx) /\ (j - Len(rx')) + busy' <= ((j + 1) - Len(rx)) + busy
    BY <1>1, <1>2, <1>3, <2>1, <2>2, <2>3
  <2> QED
    BY <2>4, <2>5
<1>7. CASE Write
  <2>1. /\ queue # <<>> /\ queue' = Tail(queue) /\ todo' = todo /\ busy = 0 /\ busy' = 1
        /\ rx' = rx \/ rx' = Append(rx, Head(queue))
        /\ UNCHANGED pc
    BY <1>7 DEF Write, main
  <2>2. ~Listen
    BY <2>1 DEF Listen
  <2>3. CASE rx' # rx
    <3>1. Line' = Line
      BY <1>7, <2>3, LineKept
    <3>2. Len(rx') = a + 1
      BY <1>1, <1>3, <2>1, <2>3
    <3>3. After(Line, j) \in Nat
      BY <1>1, <1>2, AfterTyped
    <3>4. After(Line', j) <= After(Line, j) /\ j \in PollsAt(Line)
      BY <3>1, <3>3
    <3>5. j > Len(rx') => j > Len(rx) /\ (j - Len(rx')) + busy' <= (j - Len(rx)) + busy
      BY <1>2, <1>3, <2>1, <3>2
    <3>6. j <= j /\ j <= j + 1
      BY <1>2
    <3> QED
      BY <2>2, <3>4, <3>5, <3>6
  <2>4. CASE rx' = rx
    <3>1. Len(queue) \in Nat /\ Len(queue) = Len(queue') + 1 /\ Len(queue') \in Nat
      BY <1>1, <2>1, EmptySeq
    <3>2. PICK e \in Nat : e = Len(queue') /\ b = e + 1
      BY <1>3, <3>1
    <3>3. \A k \in PollsAt(Line') : Was(a, k) \in PollsAt(Line) /\ k \in Nat
      <4>1. \A k \in PollsAt(Line') : k \in Nat \ {0}
        BY <1>2 DEF PollsAt
      <4>2. \A k \in Nat : k \in PollsAt(Line') =>
                  \/ k \in PollsAt(rx)
                  \/ k > a /\ k - a \in PollsAt(queue')
                  \/ k > a + e /\ k - (a + e) \in PollsAt(todo)
        BY <1>1, <1>3, <2>1, <2>4, <3>2, SizesAfter, LineParts DEF Line
      <4>3. \A k \in Nat : k \in PollsAt(Line) <=>
                  \/ k \in PollsAt(rx)
                  \/ k > a /\ k - a \in PollsAt(queue)
                  \/ k > a + (e + 1) /\ k - (a + (e + 1)) \in PollsAt(todo)
        <5>1. queue \in Seq(Kind) /\ todo \in Seq(Kind) /\ rx \in Seq(Kind)
          BY <1>1, Sizes
        <5>2. Len(rx) = a /\ Len(queue) = e + 1
          BY ONLY <1>3, <3>2, Zenon
        <5> QED
          BY ONLY <5>1, <5>2, LineParts, Zenon DEF Line
      <4>4. \A k \in Nat : k \in PollsAt(queue') => k + 1 \in PollsAt(queue)
        BY <1>1, <2>1, PollsAtTail
      <4>5. \A k \in PollsAt(rx) : k <= a
        BY <1>1, <1>3 DEF PollsAt
      <4>6. ASSUME NEW k \in Nat, k \in PollsAt(Line') PROVE Was(a, k) \in PollsAt(Line)
        <5>1. CASE k \in PollsAt(rx)
          BY <4>3, <4>5, <5>1 DEF Was
        <5>2. CASE k > a /\ k - a \in PollsAt(queue')
          <6>1. k - a \in Nat /\ (k - a) + 1 = (k + 1) - a /\ k + 1 > a /\ k + 1 \in Nat
            BY <5>2
          <6>2. (k + 1) - a \in PollsAt(queue)
            BY <4>4, <5>2, <6>1
          <6>3. k + 1 \in PollsAt(Line)
            BY <4>3, <6>1, <6>2
          <6> QED
            BY <5>2, <6>3 DEF Was
        <5>3. CASE k > a + e /\ k - (a + e) \in PollsAt(todo)
          <6>1. /\ k + 1 > a + (e + 1) /\ (k + 1) - (a + (e + 1)) = k - (a + e) /\ k + 1 \in Nat
                /\ ~(k <= a)
            BY <5>3
          <6>2. k + 1 \in PollsAt(Line)
            BY <4>3, <5>3, <6>1
          <6> QED
            BY <6>1, <6>2 DEF Was
        <5> QED
          BY <4>2, <4>6, <5>1, <5>2, <5>3
      <4> QED
        BY <4>1, <4>6
    <3>4. After(Line', j) <= After(Line, Was(a, j))
      BY <1>1, <1>2, <3>3, AfterThinned
    <3>5. /\ j <= Was(a, j) /\ j <= Was(a, j) + 1
          /\ j > Len(rx') => Was(a, j) > Len(rx) /\ (j - Len(rx')) + busy' <= (Was(a, j) - Len(rx)) + busy
      BY <1>2, <1>3, <2>1, <2>4 DEF Was
    <3> QED
      BY <2>2, <3>3, <3>4, <3>5
  <2> QED
    BY <2>3, <2>4
<1>8. CASE Emergency
  <2>1. rx' = Append(rx, "emergency") /\ "emergency" \in Kind /\ UNCHANGED <<queue, todo, busy, pc>>
    BY <1>8 DEF Emergency, main, writer, Kind
  <2>2. ~Listen
    BY <2>1 DEF Listen
  <2>3. Len(rx') = a + 1
    BY <1>1, <1>3, <2>1
  <2>4. \A k \in Nat : k \in PollsAt(rx') => k \in PollsAt(rx) /\ k <= a
    <3>1. /\ DOMAIN rx' = 1 .. a + 1 /\ DOMAIN rx = 1 .. a
          /\ \A k \in 1 .. a : rx'[k] = rx[k]
          /\ rx'[a + 1] = "emergency"
      BY <1>1, <1>3, <2>1
    <3> QED
      BY <3>1 DEF PollsAt
  <2>7. \A k \in Nat : k \in PollsAt(Line') =>
              \/ k \in PollsAt(rx')
              \/ k > a + 1 /\ k - (a + 1) \in PollsAt(queue)
              \/ k > a + 1 + b /\ k - (a + 1 + b) \in PollsAt(todo)
    <3>1. PICK s \in Seq(Kind) : s = rx'
      BY SizesAfter
    <3>2. Line' = s \o queue \o todo /\ Len(s) = a + 1 /\ Len(queue) = b
      BY <1>3, <2>1, <2>3, <3>1 DEF Line
    <3>3. \A k \in Nat : k \in PollsAt(s \o queue \o todo) =>
              \/ k \in PollsAt(s)
              \/ k > Len(s) /\ k - Len(s) \in PollsAt(queue)
              \/ k > Len(s) + Len(queue) /\ k - (Len(s) + Len(queue)) \in PollsAt(todo)
      BY <1>1, LineParts
    <3> QED
      BY ONLY <3>1, <3>2, <3>3, Zenon
  <2>8. \A k \in Nat : k \in PollsAt(Line) <=>
              \/ k \in PollsAt(rx)
              \/ k > a /\ k - a \in PollsAt(queue)
              \/ k > a + b /\ k - (a + b) \in PollsAt(todo)
    BY <1>1, <1>3, LineParts DEF Line
  <2>9. ASSUME NEW k \in Nat, k \in PollsAt(Line')
        PROVE  k # a + 1 /\ Before(a, k) \in PollsAt(Line)
    <3>1. CASE k \in PollsAt(rx')
      <4>1. k \in PollsAt(rx) /\ k <= a /\ k # a + 1
        BY <2>4, <3>1
      <4> QED
        BY <2>8, <4>1 DEF Before
    <3>2. CASE k > a + 1 /\ k - (a + 1) \in PollsAt(queue)
      <4>1. k - 1 \in Nat /\ (k - 1) - a = k - (a + 1) /\ k - 1 > a /\ ~(k <= a) /\ k # a + 1
        BY <3>2
      <4>2. k - 1 \in PollsAt(Line)
        BY <2>8, <3>2, <4>1
      <4> QED
        BY <4>1, <4>2 DEF Before
    <3>3. CASE k > a + 1 + b /\ k - (a + 1 + b) \in PollsAt(todo)
      <4>1. /\ k - 1 \in Nat /\ (k - 1) - (a + b) = k - (a + 1 + b) /\ k - 1 > a + b
            /\ ~(k <= a) /\ k # a + 1
        BY <3>3
      <4>2. k - 1 \in PollsAt(Line)
        BY <2>8, <3>3, <4>1
      <4> QED
        BY <4>1, <4>2 DEF Before
    <3> QED
      BY <2>7, <2>9, <3>1, <3>2, <3>3
  <2>10. \A k \in PollsAt(Line') : k # a + 1 /\ Before(a, k) \in PollsAt(Line)
    <3>1. \A k \in PollsAt(Line') : k \in Nat
      BY <1>2 DEF PollsAt
    <3> QED
      BY <2>9, <3>1
  <2>11. After(Line', j) <= After(Line, Before(a, j))
    BY <1>1, <1>2, <2>10, AfterInserted
  <2>12. /\ j <= Before(a, j) + 1
         /\ j > Len(rx') => /\ Before(a, j) > Len(rx)
                            /\ (j - Len(rx')) + busy' <= (Before(a, j) - Len(rx)) + busy
    BY <1>1, <1>2, <1>3, <2>1, <2>3 DEF Before
  <2> QED
    BY <1>8, <2>2, <2>10, <2>11, <2>12
<1> QED
  BY <1>4, <1>5, <1>6, <1>7, <1>8 DEF Next, MainThread, Writer

\* A turn asks for a poll at most, before the temperatures.
LEMMA PollRead ==
  ASSUME TypeOK, TypeOK', ReadClock, NEW k \in Nat, k \in PollsAt(todo')
  PROVE  k = 1 /\ PollDue /\ Len(todo') \in Nat \ {0}
<1> DEFINE n == IF TempDue THEN SlaveCount ELSE 0
           polls == IF PollDue THEN <<"poll">> ELSE <<>>
           temperatures == [i \in 1 .. n |-> "temperature"]
<1>1. todo' = polls \o temperatures
  BY DEF ReadClock, PollDue, TempDue
<1>2. n \in Nat
  BY Naturals
<1>3. temperatures \in Seq(Kind) /\ Len(temperatures) = n /\ \A i \in 1 .. n : temperatures[i] # "poll"
  <2> HIDE DEF n
  <2>1. temperatures \in [1 .. n -> Kind]
    BY DEF Kind
  <2>2. temperatures \in Seq(Kind)
    BY <1>2, <2>1
  <2>3. DOMAIN temperatures = 1 .. n
    OBVIOUS
  <2> QED
    BY <1>2, <2>2, <2>3
<1>4. k \in 1 .. Len(todo') /\ todo'[k] = "poll" /\ Len(todo') \in Nat
  BY SizesAfter DEF PollsAt
<1> HIDE DEF n, temperatures
<1>5. CASE PollDue
  <2>1. polls = <<"poll">> /\ polls \in Seq(Kind) /\ Len(polls) = 1
    BY <1>5 DEF Kind
  <2> HIDE DEF polls
  <2>2. Len(todo') = 1 + n
    BY <1>1, <1>3, <2>1, ConcatProperties
  <2>3. k > 1 => todo'[k] = temperatures[k - 1] /\ k - 1 \in 1 .. n
    BY <1>1, <1>2, <1>3, <1>4, <2>1, <2>2, ConcatProperties
  <2> QED
    BY <1>2, <1>3, <1>4, <1>5, <2>2, <2>3
<1>6. CASE ~PollDue
  <2>1. polls = <<>>
    BY <1>6
  <2>2. todo' = temperatures
    BY <1>1, <1>3, <2>1
  <2> QED
    BY <1>3, <1>4, <2>2
<1> QED
  BY <1>5, <1>6

LEMMA LineRead ==
  ASSUME TypeOK, TypeOK', Places, ReadClock, NEW j \in PollsAt(Line')
  PROVE  \/ j \in PollsAt(Line) /\ After(Line', j) <= After(Line, j) + (IF PollDue THEN 1 ELSE 0)
         \/ /\ PollDue /\ j = Len(rx) + Len(queue) + 1 /\ After(Line', j) = 0
            /\ Len(todo') \in Nat \ {0}
<1>1. /\ rx \in Seq(Kind) /\ queue \in Seq(Kind) /\ todo' \in Seq(Kind) /\ Line \in Seq(Kind)
      /\ UNCHANGED <<rx, queue>> /\ todo = <<>>
  <2>1. UNCHANGED <<rx, queue>> /\ pc = "clock"
    BY DEF ReadClock
  <2> QED
    BY <2>1, Sizes, SizesAfter, LineTyped DEF Places
<1>2. Line' \in Seq(Kind) /\ j \in Nat
  <2>1. (TypeOK => Line \in Seq(Kind))'
    BY LineTyped, PTL
  <2> QED
    BY <2>1 DEF PollsAt
<1>3. PICK m \in Nat : m = Len(rx) + Len(queue)
  BY <1>1
<1>4. \A k \in PollsAt(Line) : k <= m
  <2>1. Len(todo) = 0
    BY <1>1
  <2>2. Len(rx) \in Nat /\ Len(queue) \in Nat
    BY <1>1
  <2> QED
    BY <1>3, <2>1, <2>2, LineTyped
<1>5. \A k \in PollsAt(Line') : k \in PollsAt(Line) \/ (PollDue /\ k = m + 1 /\ Len(todo') \in Nat \ {0})
  <2>1. \A k \in Nat : k \in PollsAt(Line') =>
              \/ k \in PollsAt(rx)
              \/ k > Len(rx) /\ k - Len(rx) \in PollsAt(queue)
              \/ k > m /\ k - m \in PollsAt(todo')
    <3>1. PICK t \in Seq(Kind) : t = todo'
      BY <1>1
    <3>2. \A k \in Nat : k \in PollsAt(rx \o queue \o t) =>
              \/ k \in PollsAt(rx)
              \/ k > Len(rx) /\ k - Len(rx) \in PollsAt(queue)
              \/ k > Len(rx) + Len(queue) /\ k - (Len(rx) + Len(queue)) \in PollsAt(t)
      BY <1>1, LineParts
    <3>3. Line' = rx \o queue \o t
      BY <1>1, <3>1 DEF Line
    <3> QED
      BY <1>3, <3>1, <3>2, <3>3
  <2>2. \A k \in Nat : /\ k \in PollsAt(rx) => k \in PollsAt(Line)
                       /\ k > Len(rx) /\ k - Len(rx) \in PollsAt(queue) => k \in PollsAt(Line)
    <3>1. todo \in Seq(Kind)
      BY Sizes
    <3> QED
      BY <1>1, <3>1, LineParts DEF Line
  <2>3. ASSUME NEW k \in Nat, k > m, k - m \in PollsAt(todo')
        PROVE  PollDue /\ k = m + 1 /\ Len(todo') \in Nat \ {0}
    <3>1. k - m \in Nat
      BY <2>3
    <3>2. k - m = 1 /\ PollDue /\ Len(todo') \in Nat \ {0}
      BY <2>3, <3>1, PollRead
    <3> QED
      BY <3>2
  <2>4. \A k \in PollsAt(Line') : k \in Nat
    BY <1>2 DEF PollsAt
  <2> QED
    BY <2>1, <2>2, <2>3, <2>4
<1>6. CASE j \in PollsAt(Line)
  <2>1. PollsAfter(Line', j) \in SUBSET (PollsAfter(Line, j) \cup (IF PollDue THEN {m + 1} ELSE {}))
    BY <1>5 DEF PollsAfter
  <2>2. IsFiniteSet(PollsAfter(Line, j)) /\ Cardinality(PollsAfter(Line, j)) \in Nat
    BY <1>1, <1>2, AfterTyped DEF After
  <2>3. CASE PollDue
    <3>1. /\ IsFiniteSet(PollsAfter(Line, j) \cup {m + 1})
          /\ Cardinality(PollsAfter(Line, j) \cup {m + 1}) <= Cardinality(PollsAfter(Line, j)) + 1
          /\ Cardinality(PollsAfter(Line, j) \cup {m + 1}) \in Nat
      BY <2>2, FS_AddElement
    <3>2. PollsAfter(Line', j) \in SUBSET (PollsAfter(Line, j) \cup {m + 1})
      BY <2>1, <2>3
    <3>3. Cardinality(PollsAfter(Line', j)) <= Cardinality(PollsAfter(Line, j) \cup {m + 1})
      BY <3>1, <3>2, FS_Subset
    <3>4. Cardinality(PollsAfter(Line', j)) \in Nat
      BY <1>2, AfterTyped DEF After
    <3>5. After(Line', j) <= After(Line, j) + 1
      BY <2>2, <3>1, <3>3, <3>4 DEF After
    <3> QED
      BY <1>6, <2>3, <3>5
  <2>4. CASE ~PollDue
    <3>1. PollsAfter(Line', j) \in SUBSET PollsAfter(Line, j)
      BY <2>1, <2>4
    <3>2. After(Line', j) <= After(Line, j) /\ After(Line, j) \in Nat
      BY <2>2, <3>1, FS_Subset DEF After
    <3>3. After(Line', j) <= After(Line, j) + 0
      BY <3>2
    <3> QED
      BY <1>6, <2>4, <3>3
  <2> QED
    BY <2>3, <2>4
<1>7. CASE PollDue /\ j = m + 1 /\ Len(todo') \in Nat \ {0}
  <2>1. PollsAfter(Line', j) = {}
    <3>1. ASSUME NEW k \in PollsAfter(Line', j) PROVE FALSE
      <4>1. k \in PollsAt(Line') /\ k > m + 1 /\ k \in Nat
        BY <1>2, <1>7 DEF PollsAfter, PollsAt
      <4> QED
        BY <1>4, <1>5, <4>1
    <3> QED
      BY <3>1
  <2>2. After(Line', j) = 0
    BY <2>1, FS_EmptySet DEF After
  <2> QED
    BY <1>3, <1>7, <2>2
<1> QED
  BY <1>5, <1>6, <1>7

-----------------------------------------------------------------------------
(* How long a poll may take to be written and heard.                       *)

\* The time that the polls behind this one took to come, with what the timer
\* has saved up for the next.
Come(i) == Load(After(Line, i)) + Near

\* While the writer waits there is no poll in the queue: Polling notifies it.
Notified == waiting => \A k \in Nat : k \notin PollsAt(queue)

\* A poll is written before the writer has had the time for all there may be.
Written ==
  \A i \in PollsAt(Line) :
    i > Len(rx) => (i - Len(rx)) + busy + Come(i) <= Room + Load(faults)

LEMMA NotifiedStep ==
  ASSUME TypeOK, TypeOK', Notified, [Next]_vars
  PROVE  Notified'
<1>1. SUFFICES ASSUME waiting' PROVE \A k \in Nat : k \notin PollsAt(queue')
  BY DEF Notified, PollsAt
<1>2. CASE OnMessage \/ Polling \/ Write \/ SpuriousWake
  <2>1. waiting' = FALSE
    BY <1>2 DEF OnMessage, Polling, Push, Write, SpuriousWake, TypeOK
  <2> QED
    BY <1>1, <2>1
<1>3. CASE RequestTemperature
  <2>1. waiting /\ queue' = Append(queue, "temperature")
    BY <1>1, <1>3 DEF RequestTemperature, Push
  <2>2. queue \in Seq(Kind) /\ "temperature" \in Kind
    BY Sizes DEF Kind
  <2>3. /\ DOMAIN queue' = 1 .. Len(queue) + 1 /\ DOMAIN queue = 1 .. Len(queue)
        /\ \A i \in 1 .. Len(queue) : queue'[i] = queue[i]
        /\ queue'[Len(queue) + 1] = "temperature" /\ Len(queue) \in Nat
    BY <2>1, <2>2
  <2>4. \A k \in Nat : k \notin PollsAt(queue)
    BY <2>1 DEF Notified
  <2> QED
    BY <2>3, <2>4 DEF PollsAt
<1>4. CASE WaitForNotify
  <2>1. queue' = <<>>
    BY <1>4 DEF WaitForNotify
  <2> QED
    BY <2>1 DEF PollsAt
<1>5. CASE \/ Select \/ IsConnected \/ IsNotConnected \/ Reconnect \/ ReadClock \/ AllPushed \/ Listen
           \/ NothingToHear \/ Emergency \/ Tick \/ SetClock \/ UNCHANGED vars
  <2>1. UNCHANGED <<queue, waiting>>
    BY <1>5 DEF Select, IsConnected, IsNotConnected, Reconnect, ReadClock, AllPushed, Listen,
                NothingToHear, Emergency, Tick, SetClock, vars, writer
  <2> QED
    BY <1>1, <2>1 DEF Notified
<1> QED
  BY <1>2, <1>3, <1>4, <1>5 DEF Next, MainThread, Writer

LEMMA ComeTyped ==
  ASSUME Capacity, PortCapacity, TypeOK, NEW i \in PollsAt(Line)
  PROVE  Come(i) \in Nat /\ After(Line, i) \in Nat /\ i \in Nat
<1>1. i \in Nat /\ Line \in Seq(Kind)
  BY LineTyped
<1>2. After(Line, i) \in Nat
  BY <1>1, AfterTyped
<1> QED
  <2>1. Load(After(Line, i)) \in Nat /\ Near \in Nat
    BY <1>2, LoadAdd, SavedTyped
  <2> QED
    BY <1>1, <1>2, <2>1 DEF Come

\* A clock read takes from the timer what the new poll adds behind the others.
LEMMA ComeStep ==
  ASSUME Capacity, PortCapacity, ClockInReach, TypeOK, TypeOK', Places, InRange, [Next]_vars,
         NEW i \in PollsAt(Line), NEW j \in Nat, After(Line', j) \in Nat,
         After(Line', j) <= After(Line, i) + (IF ReadClock /\ PollDue THEN 1 ELSE 0)
  PROVE  /\ Come(j)' \in Nat
         /\ Come(j)' <= Come(i) + (IF Tick /\ pc # "down" THEN 1
                                   ELSE IF IsNotConnected \/ SetClock THEN D ELSE 0)
<1>1. PICK a \in Nat, b \in Nat, n \in Nat, e \in Nat, d \in Nat :
        /\ a = After(Line, i) /\ b = After(Line', j) /\ n = Near /\ e = Near' /\ d = D /\ e <= d
  BY ComeTyped, SavedTyped, SavedAfter, Units
<1>2. Come(i) = Load(a) + n /\ Come(j)' = Load(b) + e
  BY <1>1 DEF Come, Load, D, PollsAfter, After
<1>3. Load(a) \in Nat /\ Load(b) \in Nat /\ Load(a + 1) = Load(a) + d
  <2>1. 1 \in Nat /\ Load(1) = d
    BY <1>1, LoadAdd
  <2> QED
    BY <2>1, LoadAdd
<1>4. b <= a => Load(b) <= Load(a)
  BY LoadOrder
<1>5. CASE ReadClock
  <2>1. ~Tick /\ ~IsNotConnected /\ ~SetClock
    <3>1. pc = "clock" /\ pc' = "push"
      BY <1>5 DEF ReadClock
    <3> QED
      BY <3>1 DEF Tick, IsNotConnected, SetClock, main
  <2>2. n = e + (IF PollDue THEN d ELSE 0)
    BY <1>1, <1>5, SavedRead
  <2>3. Load(b) <= Load(a) + (IF PollDue THEN d ELSE 0)
    <3>1. CASE PollDue
      <4>1. b <= a + 1 /\ a + 1 \in Nat
        BY <1>1, <1>5, <3>1
      <4>2. Load(b) <= Load(a + 1)
        BY <4>1, LoadOrder
      <4> QED
        BY <1>3, <3>1, <4>2
    <3>2. CASE ~PollDue
      <4>1. b <= a
        BY <1>1, <3>2
      <4> QED
        BY <1>3, <1>4, <3>2, <4>1
    <3> QED
      BY <3>1, <3>2
  <2> QED
    BY <1>2, <1>3, <2>1, <2>2, <2>3
<1>6. CASE ~ReadClock
  <2>1. Load(b) <= Load(a)
    <3>1. b <= a
      BY <1>1, <1>6
    <3> QED
      BY <1>4, <3>1
  <2>2. CASE IsNotConnected \/ SetClock
    <3>1. ~Tick
      <4>1. faults' # faults
        BY <2>2, Sizes DEF IsNotConnected, SetClock
      <4> QED
        BY <4>1 DEF Tick
    <3>2. Load(b) + e <= Load(a) + n + d
      BY <1>1, <1>3, <2>1
    <3> QED
      BY <1>1, <1>2, <1>3, <2>2, <3>1, <3>2
  <2>3. CASE Tick
    <3>1. ~(IsNotConnected \/ SetClock)
      <4>1. faults' = faults
        BY <2>3 DEF Tick
      <4> QED
        BY <4>1, Sizes DEF IsNotConnected, SetClock
    <3>2. e <= n + (IF pc # "down" THEN 1 ELSE 0)
      BY <1>1, <2>3, SavedTick
    <3> QED
      BY <1>2, <1>3, <2>1, <2>3, <3>1, <3>2
  <2>4. CASE ~Tick /\ ~IsNotConnected /\ ~SetClock
    <3>1. e <= n
      BY <1>1, <1>6, <2>4, SavedKept, SavedReconnect DEF Next, MainThread
    <3> QED
      BY <1>2, <1>3, <2>1, <2>4, <3>1
  <2> QED
    BY <2>2, <2>3, <2>4
<1> QED
  BY <1>5, <1>6

\* A fault makes room for a poll more.
LEMMA RoomLoad ==
  ASSUME Capacity, TypeOK, TypeOK', [Next]_vars
  PROVE  /\ Room \in Nat /\ Room' \in Nat /\ Load(faults) \in Nat /\ Load(faults') \in Nat
         /\ Room + Load(faults) + (IF IsNotConnected \/ SetClock THEN D ELSE 0) <= Room' + Load(faults')
<1>1. PICK r \in Nat, s \in Nat, f \in Nat, d \in Nat :
        r = Room /\ s = SlaveCount + 1 /\ f = faults /\ d = D
  <2>1. SlaveCount + 1 \in Nat
    BY Naturals
  <2> QED
    BY <2>1, RoomTyped, Sizes, Units
<1>2. Load(f) \in Nat /\ Load(f + 1) = Load(f) + d
  <2>1. 1 \in Nat /\ Load(1) = d
    BY <1>1, LoadAdd
  <2> QED
    BY <2>1, LoadAdd
<1>3. CASE IsNotConnected \/ SetClock
  <2>1. faults' = f + 1 /\ commands' = commands
    BY <1>1, <1>3 DEF IsNotConnected, SetClock
  <2>2. Room' = r + s
    BY <1>1, <2>1, RoomStep
  <2> QED
    BY <1>1, <1>2, <1>3, <2>1, <2>2
<1>4. CASE ~(IsNotConnected \/ SetClock)
  <2>1. faults' = f /\ (commands' = commands \/ commands' = commands + 1)
    BY <1>1, <1>4 DEF Next, MainThread, Writer, Select, OnMessage, IsConnected, Reconnect, ReadClock, Polling,
       RequestTemperature, AllPushed, Listen, NothingToHear, Write, WaitForNotify, SpuriousWake, Tick,
       Emergency, vars, history
  <2>2. Room' = r \/ Room' = r + 1
    BY <1>1, <2>1, RoomStep
  <2> QED
    BY <1>1, <1>2, <1>4, <2>1, <2>2
<1> QED
  BY <1>3, <1>4

LEMMA WrittenStep ==
  ASSUME Capacity, PortCapacity, ClockInReach, Paced, Notified, Written, [Next]_vars
  PROVE  Written'
<1>0. TypeOK /\ TypeOK' /\ Places /\ InRange /\ Paced'
  BY PacedStep DEF Paced
<1>1. SUFFICES ASSUME NEW j \in PollsAt(Line'), j > Len(rx')
               PROVE  (j - Len(rx')) + busy' + Come(j)' <= Room' + Load(faults')
  BY DEF Written, PollsAt, Load, D
<1>2. /\ Line \in Seq(Kind) /\ Line' \in Seq(Kind) /\ j \in Nat
      /\ Len(rx) \in Nat /\ Len(rx') \in Nat /\ busy \in Nat /\ busy' \in Nat
  <2>1. (TypeOK => Line \in Seq(Kind))'
    BY LineTyped, PTL
  <2>2. Line \in Seq(Kind) /\ Line' \in Seq(Kind)
    BY <1>0, <2>1, LineTyped
  <2>3. Len(rx) \in Nat /\ busy \in Nat
    BY <1>0, Sizes
  <2>4. Len(rx') \in Nat /\ busy' \in Nat
    BY <1>0, SizesAfter
  <2>5. j \in Nat
    BY <2>2 DEF PollsAt
  <2> QED
    BY ONLY <2>2, <2>3, <2>4, <2>5
<1>3. After(Line', j) \in Nat
  BY <1>2, AfterTyped
<1>4. PICK r \in Nat, q \in Nat, f \in Nat, g \in Nat, d \in Nat :
        /\ r = Room /\ q = Room' /\ f = Load(faults) /\ g = Load(faults') /\ d = D
        /\ r + f + (IF IsNotConnected \/ SetClock THEN d ELSE 0) <= q + g
  BY <1>0, RoomLoad, Units
<1>9. PICK y \in Int : y = (j - Len(rx')) + busy'
  BY <1>2
<1>10. SUFFICES y + Come(j)' <= q + g
  BY <1>4, <1>9, Zenon
<1>5. ASSUME NEW i \in PollsAt(Line), i > Len(rx)
      PROVE  (i - Len(rx)) + busy + Come(i) <= r + f /\ Come(i) \in Nat /\ i \in Nat
  BY <1>0, <1>4, <1>5, ComeTyped DEF Written
<1>6. CASE Tick
  <2>1. Line' = Line /\ rx' = rx /\ ~ReadClock /\ ~IsNotConnected /\ ~SetClock
    <3>1. faults' = faults /\ pc' = pc
      BY <1>6 DEF Tick
    <3> QED
      BY <1>0, <1>6, <3>1, LineKept, Sizes DEF Tick, ReadClock, IsNotConnected, SetClock
  <2>2. j \in PollsAt(Line) /\ j > Len(rx) /\ After(Line', j) <= After(Line, j)
    BY <1>1, <1>3, <2>1
  <2>3. busy > 0
    <3> SUFFICES ASSUME ~(busy > 0) PROVE FALSE
      OBVIOUS
    <3>1. waiting /\ pc # "push" /\ todo = <<>>
      <4>1. waiting
        BY <1>6 DEF Tick
      <4>2. pc # "push"
        BY <1>6 DEF Tick, MainWaits
      <4> QED
        BY <1>0, <4>1, <4>2 DEF Places
    <3>2. j - Len(rx) \in Nat /\ j - Len(rx) \notin PollsAt(queue)
      BY <1>2, <2>2, <3>1 DEF Notified
    <3>3. \A k \in Nat : k \notin PollsAt(todo)
      BY <3>1 DEF PollsAt
    <3>4. j \notin PollsAt(rx)
      BY <1>2, <2>2, Sizes, <1>0 DEF PollsAt
    <3>5. \/ j > Len(rx) /\ j - Len(rx) \in PollsAt(queue)
          \/ j > Len(rx) + Len(queue) /\ j - (Len(rx) + Len(queue)) \in PollsAt(todo)
      BY <1>0, <1>2, <2>2, <3>4, Sizes, LineParts DEF Line
    <3>6. j > Len(rx) + Len(queue) => j - (Len(rx) + Len(queue)) \in Nat
      BY <1>0, <1>2, Sizes
    <3> QED
      BY <3>2, <3>3, <3>5, <3>6
  <2>4. busy' + 1 = busy
    BY <1>2, <1>6, <2>3 DEF Tick, Less
  <2>5. Come(j)' <= Come(j) + 1 /\ Come(j)' \in Nat /\ Come(j) \in Nat
    <3>1. Come(j)' <= Come(j) + (IF Tick /\ pc # "down" THEN 1
                                 ELSE IF IsNotConnected \/ SetClock THEN D ELSE 0) /\ Come(j)' \in Nat
      <4>1. After(Line', j) <= After(Line, j) + (IF ReadClock /\ PollDue THEN 1 ELSE 0)
        <5>1. After(Line, j) \in Nat
          BY <1>2, AfterTyped
        <5> QED
          BY <2>1, <2>2, <5>1
      <4> QED
        BY <1>0, <1>2, <1>3, <2>2, <4>1, ComeStep
    <3>2. Come(j) \in Nat
      BY <1>5, <2>2
    <3> QED
      BY <2>1, <3>1, <3>2
  <2>6. (j - Len(rx)) + busy + Come(j) <= r + f
    BY <1>5, <2>2
  <2>7. r + f <= q + g
    BY <1>4, <2>1
  <2>11. PICK x \in Int : x = (j - Len(rx)) + busy
    <3>1. (j - Len(rx)) + busy \in Int
      BY <1>2
    <3> QED
      BY <3>1, Zenon
  <2>12. PICK c \in Nat, e \in Nat : c = Come(j) /\ e = Come(j)'
    BY <2>5, Zenon
  <2>8. e = Come(j)' /\ e <= c + 1 /\ x + c <= r + f
    BY ONLY <2>5, <2>6, <2>11, <2>12, Zenon
  <2>9. y + 1 = x
    <3>1. PICK b \in Nat, k \in Nat, l \in Nat : b = busy' /\ k = Len(rx) /\ l = busy
      BY <1>2, Zenon
    <3>2. y = (j - k) + b /\ x = (j - k) + l /\ b + 1 = l
      BY ONLY <1>9, <2>1, <2>4, <2>11, <3>1, Zenon
    <3> QED
      BY ONLY <1>2, <3>2, y \in Int, x \in Int, b \in Nat, k \in Nat, l \in Nat
  <2>10. y + e <= q + g
    BY ONLY <2>7, <2>8, <2>9, y \in Int, x \in Int, c \in Nat, e \in Nat,
            r \in Nat, q \in Nat, f \in Nat, g \in Nat
  <2> QED
    BY ONLY <2>8, <2>10, Zenon
<1>7. CASE ~Tick /\ ~ReadClock
  <2>1. PICK i \in PollsAt(Line) :
           /\ After(Line', j) <= After(Line, i)
           /\ i > Len(rx) /\ (j - Len(rx')) + busy' <= (i - Len(rx)) + busy
    BY <1>0, <1>1, <1>7, LineStep
  <2>2. Come(i) \in Nat /\ i \in Nat /\ (i - Len(rx)) + busy + Come(i) <= r + f
    BY <1>5, <2>1
  <2>3. Come(j)' \in Nat /\ Come(j)' <= Come(i) + (IF IsNotConnected \/ SetClock THEN d ELSE 0)
    <3>1. After(Line', j) <= After(Line, i) + (IF ReadClock /\ PollDue THEN 1 ELSE 0)
      <4>1. After(Line, i) \in Nat
        BY <1>2, <2>2, AfterTyped
      <4> QED
        BY <1>7, <2>1, <4>1
    <3>2. /\ Come(j)' \in Nat
          /\ Come(j)' <= Come(i) + (IF Tick /\ pc # "down" THEN 1
                                    ELSE IF IsNotConnected \/ SetClock THEN D ELSE 0)
      BY <1>0, <1>2, <1>3, <3>1, ComeStep
    <3> QED
      BY <1>4, <1>7, <3>2
  <2>8. PICK x \in Int : x = (i - Len(rx)) + busy
    <3>1. (i - Len(rx)) + busy \in Int
      BY <1>2, <2>2
    <3> QED
      BY <3>1, Zenon
  <2>9. PICK c \in Nat, e \in Nat : c = Come(i) /\ e = Come(j)'
    BY <2>2, <2>3, Zenon
  <2>10. PICK k \in Nat : k = (IF IsNotConnected \/ SetClock THEN d ELSE 0)
    <3>1. (IF IsNotConnected \/ SetClock THEN d ELSE 0) \in Nat
      OBVIOUS
    <3> QED
      BY <3>1, Zenon
  <2>4. e = Come(j)' /\ x + c <= r + f
    BY ONLY <2>2, <2>8, <2>9, Zenon
  <2>5. e <= c + k /\ r + f + k <= q + g /\ y <= x
    BY ONLY <1>4, <1>9, <2>1, <2>3, <2>8, <2>9, <2>10, Zenon
  <2>6. y + e <= q + g
    BY ONLY <2>4, <2>5, y \in Int, x \in Int, c \in Nat, e \in Nat, k \in Nat,
            r \in Nat, q \in Nat, f \in Nat, g \in Nat
  <2> QED
    BY <2>4, <2>6
<1>8. CASE ReadClock
  <2>1. rx' = rx /\ queue' = queue /\ busy' = busy
    BY <1>8 DEF ReadClock, writer
  <2>2. ~Tick /\ ~IsNotConnected /\ ~SetClock
    <3>1. pc = "clock" /\ pc' = "push"
      BY <1>8 DEF ReadClock
    <3> QED
      BY <3>1 DEF Tick, IsNotConnected, SetClock, main
  <2>3. CASE j \in PollsAt(Line) /\ After(Line', j) <= After(Line, j) + (IF PollDue THEN 1 ELSE 0)
    <3>1. Come(j)' \in Nat /\ Come(j)' <= Come(j) + 0
      <4>1. After(Line', j) <= After(Line, j) + (IF ReadClock /\ PollDue THEN 1 ELSE 0)
        BY <1>8, <2>3
      <4>2. /\ Come(j)' \in Nat
            /\ Come(j)' <= Come(j) + (IF Tick /\ pc # "down" THEN 1
                                      ELSE IF IsNotConnected \/ SetClock THEN D ELSE 0)
        BY <1>0, <1>2, <1>3, <2>3, <4>1, ComeStep
      <4> QED
        BY <2>2, <4>2
    <3>2. (j - Len(rx)) + busy + Come(j) <= r + f /\ Come(j) \in Nat
      BY <1>1, <1>5, <2>1, <2>3
    <3>3. r + f <= q + g
      BY <1>4, <2>2
    <3> QED
      <4>1. y = (j - Len(rx)) + busy
        BY <1>9, <2>1
      <4>2. PICK c \in Nat, e \in Nat : c = Come(j) /\ e = Come(j)' /\ e <= c /\ y + c <= r + f
        BY <3>1, <3>2, <4>1
      <4>3. y + e <= q + g
        BY ONLY <3>3, <4>2, y \in Int, c \in Nat, e \in Nat, r \in Nat, q \in Nat, f \in Nat, g \in Nat
      <4> QED
        BY <4>2, <4>3
  <2>4. CASE /\ PollDue /\ j = Len(rx) + Len(queue) + 1 /\ After(Line', j) = 0
             /\ Len(todo') \in Nat \ {0}
    <3>1. Come(j)' = 0
      <4>1. Near' = 0
        BY <1>0, <1>8, <2>4, SavedRead
      <4>2. Come(j)' = Load(After(Line', j)) + Near'
        BY DEF Come, Load, D, After, PollsAfter, PollsAt
      <4>3. Load(0) = 0
        <5>1. 0 \in Nat
          OBVIOUS
        <5> QED
          BY <5>1, LoadAdd
      <4> QED
        BY <2>4, <4>1, <4>2, <4>3
    <3>2. Work' <= q
      <4>1. (Capacity /\ Paced => Work <= Room)'
        BY WorkWithin, PTL
      <4>2. Capacity'
        BY DEF Capacity
      <4> QED
        BY <1>0, <1>4, <4>1, <4>2
    <3>3. Work' = Len(queue) + Len(todo') + busy
      BY <2>1 DEF Work
    <3>4. Len(queue) \in Nat
      BY <1>0, Sizes
    <3> QED
      <4>1. PICK a \in Nat, b \in Nat, n \in Nat \ {0}, m \in Nat :
              a = Len(rx) /\ b = Len(queue) /\ n = Len(todo') /\ m = busy
        BY <1>2, <2>4, <3>4
      <4>2. j = a + b + 1 /\ y = (j - a) + m /\ b + n + m <= q
        BY <1>9, <2>1, <2>4, <3>2, <3>3, <4>1
      <4>3. y + 0 <= q + g
        BY ONLY <4>2, a \in Nat, b \in Nat, n \in Nat \ {0}, m \in Nat, q \in Nat, g \in Nat
      <4> QED
        BY <3>1, <4>3
  <2> QED
    BY <1>0, <1>8, <2>3, <2>4, LineRead
<1> QED
  BY <1>6, <1>7, <1>8

LEMMA NothingOnItsWay ==
  ASSUME Init
  PROVE  Notified /\ Written /\ \A i : i \notin PollsAt(Line)
<1>1. rx = <<>> /\ queue = <<>> /\ todo = <<>> /\ waiting = FALSE
  BY DEF Init
<1>2. Line = <<>>
  BY <1>1 DEF Line
<1>3. \A i : i \notin PollsAt(Line)
  BY <1>2 DEF PollsAt
<1> QED
  BY <1>1, <1>3 DEF Notified, Written

-----------------------------------------------------------------------------
(* When a poll is heard.                                                   *)

\* The time until what is at i is heard, without what is pushed behind it.
Ahead(i) == ToListen + Turns(i) + Work

\* With what the timers have saved up it is, for the time that the polls behind it
\* took to come, within the time that there is.
Reached ==
  \A i \in PollsAt(Line) :
    Slow(Ahead(i)) + Saved + Fast(Come(i)) <= Slow(Limit) + Fast(Load(faults))

LEMMA AheadTyped ==
  ASSUME TypeOK, NEW i \in Nat
  PROVE  Ahead(i) \in Nat /\ Turns(i) \in Nat /\ Work \in Nat /\ ToListen \in Nat
<1>1. Turns(i) \in Nat /\ Work \in Nat /\ ToListen \in Nat
  BY PriceAdd, WorkTyped, PendingTyped
<1> QED
  BY <1>1 DEF Ahead

LEMMA ListenStep ==
  ASSUME TypeOK, TypeOK', Places, [Next]_vars
  PROVE  /\ ToListen' \in Nat
         /\ Listen \/ IsNotConnected => ToListen' = ToListen + Turn
         /\ NothingToHear => ToListen = 0 /\ ToListen' = Turn
         /\ Tick => ToListen' <= ToListen /\ (left > 0 => ToListen' + 1 <= ToListen)
         /\ ~Listen /\ ~IsNotConnected /\ ~NothingToHear => ToListen' <= ToListen
<1>1. PICK l \in Nat, k \in Nat, w \in Nat, u \in Nat :
        l = left /\ k = left' /\ w = SelectWait /\ u = Turn /\ u = w + 1 /\ l <= w
  BY Sizes, SizesAfter, HearingUnits
<1>2. ToListen = l + (IF pc = "down" THEN u ELSE IF pc = "sleep" THEN w ELSE 0)
  BY <1>1 DEF ToListen
<1>3. ToListen' = k + (IF pc' = "down" THEN u ELSE IF pc' = "sleep" THEN w ELSE 0)
  BY <1>1 DEF ToListen, Turn
<1>4. ToListen' \in Nat /\ ToListen \in Nat
  BY <1>2, <1>3
<1>5. ASSUME Listen PROVE ToListen' = ToListen + u
  <2>1. pc = "listen" /\ pc' = "sleep" /\ k = 1 /\ l = 0
    BY <1>1, <1>5 DEF Listen, Places
  <2> QED
    BY <1>1, <1>2, <1>3, <2>1
<1>6. ASSUME IsNotConnected PROVE ToListen' = ToListen + u
  <2>1. pc = "select" /\ pc' = "down" /\ k = l /\ l = 0
    BY <1>1, <1>6 DEF IsNotConnected
  <2> QED
    BY <1>2, <1>3, <2>1
<1>7. ASSUME NothingToHear PROVE ToListen = 0 /\ ToListen' = u
  <2>1. pc = "listen" /\ pc' = "sleep" /\ k = 1 /\ l = 0
    BY <1>1, <1>7 DEF NothingToHear, Places
  <2> QED
    BY <1>1, <1>2, <1>3, <2>1
<1>8. ASSUME Tick PROVE ToListen' <= ToListen /\ (l > 0 => ToListen' + 1 <= ToListen)
  <2>1. pc' = pc /\ k = Less(l)
    BY <1>1, <1>8 DEF Tick
  <2>2. k <= l /\ (l > 0 => k + 1 <= l)
    BY <2>1 DEF Less
  <2>3. PICK v \in Nat : v = (IF pc = "down" THEN u ELSE IF pc = "sleep" THEN w ELSE 0)
    <3>1. (IF pc = "down" THEN u ELSE IF pc = "sleep" THEN w ELSE 0) \in Nat
      OBVIOUS
    <3> QED
      BY <3>1, Zenon
  <2>4. ToListen = l + v /\ ToListen' = k + v
    BY ONLY <1>2, <1>3, <2>1, <2>3, Zenon
  <2> QED
    BY <2>2, <2>4
<1>9. CASE Select
  <2>1. pc = "sleep" /\ l = 0 /\ k \in 0 .. w /\ pc' = "select"
    BY <1>1, <1>9 DEF Select
  <2>2. ToListen' <= ToListen
    BY <1>2, <1>3, <2>1
  <2>3. ~Listen /\ ~IsNotConnected /\ ~NothingToHear /\ ~Tick
    BY <2>1 DEF Listen, IsNotConnected, NothingToHear, Tick
  <2> QED
    BY <1>4, <2>2, <2>3
<1>10. CASE Reconnect
  <2>1. pc = "down" /\ pc' = "sleep" /\ k = 1 /\ l = 0
    BY <1>1, <1>10 DEF Reconnect, Places
  <2>2. ToListen' <= ToListen
    BY <1>1, <1>2, <1>3, <2>1
  <2>3. ~Listen /\ ~IsNotConnected /\ ~NothingToHear /\ ~Tick
    BY <2>1 DEF Listen, IsNotConnected, NothingToHear, Tick
  <2> QED
    BY <1>4, <2>2, <2>3
<1>11. ASSUME \/ OnMessage \/ IsConnected \/ ReadClock \/ Polling \/ RequestTemperature \/ AllPushed
              \/ Writer \/ Emergency \/ SetClock \/ UNCHANGED vars
       PROVE  ToListen' <= ToListen
  <2>1. k = l /\ (pc' = "down" <=> pc = "down") /\ (pc' = "sleep" <=> pc = "sleep")
    BY <1>1, <1>11 DEF OnMessage, IsConnected, ReadClock, Polling, RequestTemperature, AllPushed,
       Writer, Write, WaitForNotify, SpuriousWake, Emergency, SetClock, vars, main
  <2>2. ToListen' = ToListen
    BY ONLY <1>2, <1>3, <2>1, Zenon
  <2> QED
    BY <1>4, <2>2
<1> QED
  BY <1>1, <1>4, <1>5, <1>6, <1>7, <1>8, <1>9, <1>10, <1>11 DEF Next, MainThread

\* What a step adds to the one and to the other.
LEMMA Adds ==
  ASSUME Capacity, NEW a \in Nat, NEW x \in Nat, NEW b \in Nat, b <= a + x
  PROVE  /\ Slow(b) <= Slow(a) + Slow(x) /\ Slow(a) \in Nat /\ Slow(b) \in Nat /\ Slow(x) \in Nat
         /\ Fast(b) <= Fast(a) + Fast(x) /\ Fast(a) \in Nat /\ Fast(b) \in Nat /\ Fast(x) \in Nat
<1>1. a + x \in Nat
  OBVIOUS
<1>2. Slow(b) <= Slow(a + x) /\ Fast(b) <= Fast(a + x)
  BY <1>1, SlowFast
<1>3. Slow(a + x) = Slow(a) + Slow(x) /\ Slow(a) \in Nat /\ Slow(b) \in Nat /\ Slow(x) \in Nat
  BY SlowFast
<1>4. Fast(a + x) = Fast(a) + Fast(x) /\ Fast(a) \in Nat /\ Fast(b) \in Nat /\ Fast(x) \in Nat
  BY SlowFast
<1> QED
  BY <1>2, <1>3, <1>4

\* A poll that is asked for comes behind everything that was on its way.
AskedFor ==
  \A i \in Nat, n \in Nat \ {0} :
    /\ Capacity /\ PortCapacity /\ TypeOK /\ Heard
    /\ i = Len(rx) + Len(queue) + 1 /\ n = Len(todo)
    => Slow(Ahead(i)) + Saved <= Slow(Limit)

LEMMA ReachedAnew == AskedFor
<1> SUFFICES ASSUME NEW i \in Nat, NEW n \in Nat \ {0}, Capacity, PortCapacity, TypeOK, Heard,
                    i = Len(rx) + Len(queue) + 1, n = Len(todo)
             PROVE  Slow(Ahead(i)) + Saved <= Slow(Limit)
  BY DEF AskedFor
<1>1. PICK r \in Nat, q \in Nat, b \in Nat, k \in Nat, p \in Nat, s \in Nat, l \in Nat :
        /\ r = Len(rx) /\ q = Len(queue) /\ b = busy /\ k = ToListen /\ p = Pending /\ s = Saved /\ l = Limit
        /\ Load(p) + s <= Load(l)
  BY Sizes, PendingTyped, SavedTyped, LimitTyped DEF Heard
<1>2. Slow(p) + s <= Slow(l)
  <2>1. /\ Load(p) \in Nat /\ Load(l) \in Nat
        /\ Price(Load(p)) = Slow(p) /\ Price(Load(l)) = Slow(l)
        /\ Slow(p) \in Nat /\ Slow(l) \in Nat
    BY LoadAdd, SlowFast
  <2>2. Load(p) + s \in Nat
    BY <2>1
  <2>3. Price(Load(p) + s) <= Price(Load(l))
    BY <1>1, <2>1, <2>2, PriceAdd
  <2>4. Price(s) = s + Turns(s) /\ Turns(s) \in Nat /\ Price(s) \in Nat
    BY <1>1, TurnsTyped
  <2>5. PICK v \in Nat, x \in Nat : v = Load(p) /\ x = Price(s)
    BY ONLY <2>1, <2>4, Zenon
  <2>6. Price(v + s) = Price(v) + Price(s)
    BY ONLY PriceAdd, v \in Nat, s \in Nat
  <2>7. Slow(p) + x <= Slow(l)
    BY ONLY <2>1, <2>3, <2>5, <2>6, Zenon
  <2>8. s <= x
    BY ONLY <2>4, <2>5, s \in Nat
  <2> QED
    BY ONLY <2>1, <2>7, <2>8, s \in Nat, x \in Nat
<1>3. Ahead(i) <= p /\ Ahead(i) \in Nat
  <2>1. i = r + (q + 1) /\ q + 1 \in Nat /\ q + n \in Nat /\ q + 1 <= q + n
    BY <1>1
  <2>2. /\ Turns(i) = Turns(r) + Turns(q + 1) /\ Turns(q + 1) <= Turns(q + n)
        /\ Turns(r) \in Nat /\ Turns(q + 1) \in Nat /\ Turns(q + n) \in Nat
        /\ Price(q + n) = (q + n) + Turns(q + n)
    <3>1. PICK v \in Nat, o \in Nat : v = q + 1 /\ o = q + n
      BY <2>1, Zenon
    <3>2. Turns(r + v) = Turns(r) + Turns(v) /\ Turns(r) \in Nat
      BY ONLY PriceAdd, r \in Nat, v \in Nat
    <3>3. Turns(v) <= Turns(o) /\ Turns(v) \in Nat /\ Turns(o) \in Nat /\ Price(o) = o + Turns(o)
      <4>1. v <= o
        BY <2>1, <3>1
      <4> QED
        BY <4>1, PriceAdd
    <3> QED
      BY ONLY <2>1, <3>1, <3>2, <3>3, Zenon
  <2>3. p = Price(q + n) + b + Turns(r) + k
    BY <1>1 DEF Pending
  <2>4. Ahead(i) = k + Turns(i) + (q + n + b)
    BY <1>1 DEF Ahead, Work
  <2> QED
    BY ONLY <2>2, <2>3, <2>4, r \in Nat, q \in Nat, b \in Nat, k \in Nat, p \in Nat, n \in Nat \ {0}
<1>4. Slow(Ahead(i)) <= Slow(p) /\ Slow(Ahead(i)) \in Nat /\ Slow(p) \in Nat /\ Slow(l) \in Nat
  BY <1>3, SlowFast
<1> QED
  BY <1>1, <1>2, <1>4

LEMMA FastTyped ==
  ASSUME Capacity, NEW m \in Nat
  PROVE  Fast(m) \in Nat /\ Slow(m) \in Nat /\ Load(m) \in Nat
BY SlowFast

LEMMA SlowAdd ==
  ASSUME Capacity, NEW m \in Nat, NEW n \in Nat
  PROVE  Slow(m + n) = Slow(m) + Slow(n)
BY SlowFast

LEMMA FastAdd ==
  ASSUME Capacity, NEW m \in Nat, NEW n \in Nat
  PROVE  Fast(m + n) = Fast(m) + Fast(n)
BY SlowFast

\* A turn that finds the port empty: the poll is in the queue.
LEMMA ReachedUnheard ==
  ASSUME Capacity, PortCapacity, Paced, Written, pc # "down", todo = <<>>, rx = <<>>,
         NEW i \in PollsAt(Line), NEW b \in Nat, b = Turn + Turns(i) + Work
  PROVE  Slow(b) + Saved + Fast(Come(i)) <= Slow(Limit) + Fast(Load(faults))
<1>1. TypeOK /\ Covered
  BY DEF Paced
<1>2. PICK w \in Nat, r \in Nat, f \in Nat, g \in Nat, s \in Nat, c \in Nat, u \in Nat :
        /\ w = Work /\ r = Room /\ f = Delays /\ g = Load(faults) /\ s = Saved /\ c = Come(i) /\ u = Turn
        /\ i \in Nat /\ i <= w /\ w <= r /\ i + c <= r + g
  <2>1. i \in Nat \ {0} /\ i <= Len(rx) + Len(queue) + Len(todo) /\ Len(rx) = 0 /\ Len(todo) = 0
    BY <1>1, LineTyped
  <2>2. Len(queue) \in Nat /\ busy \in Nat /\ Work = Len(queue) + 0 + busy
    BY <1>1, <2>1, WorkTyped DEF Work
  <2>3. Come(i) \in Nat /\ Room \in Nat /\ Load(faults) \in Nat /\ Delays \in Nat
    <3>1. faults \in Nat /\ Delays \in Nat
      BY <1>1, Sizes
    <3> QED
      BY <1>1, <3>1, ComeTyped, RoomTyped, LoadAdd
  <2>4. (i - 0) + busy + Come(i) <= Room + Load(faults)
    BY <2>1 DEF Written
  <2>5. Work <= Room /\ Work \in Nat
    BY WorkWithin
  <2>6. i <= Work
    BY <2>1, <2>2
  <2>7. i + Come(i) <= Room + Load(faults)
    BY <2>1, <2>2, <2>3, <2>4
  <2>8. Saved \in Nat /\ Turn \in Nat
    BY <1>1, SavedTyped, HearingUnits
  <2> QED
    BY ONLY <2>1, <2>3, <2>5, <2>6, <2>7, <2>8, Zenon
<1>3. Slow(w) + s <= Slow(r) /\ Slow(w) \in Nat /\ Slow(r) \in Nat
  BY <1>1, <1>2, CoveredSlow
<1>4. /\ Slow(b) = Slow(u) + Slow(Turns(i)) + Slow(w)
      /\ Slow(u) \in Nat /\ Slow(Turns(i)) \in Nat
  <2>1. Turns(i) \in Nat /\ u + Turns(i) \in Nat
    <3>1. i \in Nat
      BY ONLY <1>2, Zenon
    <3>2. Turns(i) \in Nat
      BY ONLY <3>1, TurnsTyped
    <3> QED
      BY ONLY <3>2, u \in Nat
  <2>2. Slow((u + Turns(i)) + w) = Slow(u + Turns(i)) + Slow(w) /\ Slow(u + Turns(i)) = Slow(u) + Slow(Turns(i))
    <3>1. PICK x \in Nat, y \in Nat : x = Turns(i) /\ y = u + Turns(i)
      BY ONLY <2>1, Zenon
    <3>2. Slow(y + w) = Slow(y) + Slow(w)
      BY ONLY Capacity, y \in Nat, w \in Nat, SlowAdd
    <3>3. Slow(u + x) = Slow(u) + Slow(x)
      BY ONLY Capacity, u \in Nat, x \in Nat, SlowAdd
    <3> QED
      BY ONLY <3>1, <3>2, <3>3, Zenon
  <2>3. Slow(u) \in Nat /\ Slow(Turns(i)) \in Nat
    BY <2>1, SlowFast
  <2>4. b = (u + Turns(i)) + w
    BY <1>2
  <2> QED
    BY <2>2, <2>3, <2>4
<1>5. /\ Slow(Turns(i)) = Fast(i) + Fast(Turns(i)) /\ Fast(i) \in Nat /\ Fast(Turns(i)) \in Nat
      /\ Fast(Turns(i)) <= Fast(Turns(r))
      /\ Slow(Turns(r)) = Fast(r) + Fast(Turns(r)) /\ Fast(r) \in Nat /\ Fast(Turns(r)) \in Nat
  <2>1. /\ Turns(i) \in Nat /\ Turns(r) \in Nat /\ Turns(i) <= Turns(r)
        /\ Price(i) = i + Turns(i) /\ Price(r) = r + Turns(r)
    <3>1. i <= r
      BY <1>2
    <3> QED
      BY <1>2, <3>1, PriceAdd
  <2>2. Slow(Turns(i)) = Fast(i + Turns(i)) /\ Slow(Turns(r)) = Fast(r + Turns(r))
    BY <1>2, <2>1, SlowFast
  <2>3. /\ Fast(i + Turns(i)) = Fast(i) + Fast(Turns(i)) /\ Fast(r + Turns(r)) = Fast(r) + Fast(Turns(r))
        /\ Fast(Turns(i)) <= Fast(Turns(r))
        /\ Fast(i) \in Nat /\ Fast(Turns(i)) \in Nat /\ Fast(r) \in Nat /\ Fast(Turns(r)) \in Nat
    <3>1. PICK v \in Nat, y \in Nat, z \in Nat : v = i /\ y = Turns(i) /\ z = Turns(r) /\ y <= z
      BY <1>2, <2>1, Zenon
    <3>2. Fast(v + y) = Fast(v) + Fast(y) /\ Fast(v) \in Nat /\ Fast(y) \in Nat
      <4>1. Fast(v + y) = Fast(v) + Fast(y)
        BY FastAdd
      <4>2. Fast(v) \in Nat
        BY ONLY Capacity, v \in Nat, FastTyped
      <4>3. Fast(y) \in Nat
        BY ONLY Capacity, y \in Nat, FastTyped
      <4> QED
        BY <4>1, <4>2, <4>3
    <3>3. Fast(r + z) = Fast(r) + Fast(z) /\ Fast(r) \in Nat /\ Fast(z) \in Nat
      <4>1. Fast(r + z) = Fast(r) + Fast(z)
        BY FastAdd
      <4>2. Fast(r) \in Nat
        BY ONLY Capacity, r \in Nat, FastTyped
      <4>3. Fast(z) \in Nat
        BY ONLY Capacity, z \in Nat, FastTyped
      <4> QED
        BY <4>1, <4>2, <4>3
    <3>4. Fast(y) <= Fast(z)
      BY <3>1, SlowFast
    <3> QED
      BY ONLY <3>1, <3>2, <3>3, <3>4, Zenon
  <2> QED
    BY <2>2, <2>3
<1>6. Fast(i) + Fast(c) <= Fast(r) + Fast(g) /\ Fast(c) \in Nat /\ Fast(g) \in Nat
  <2>1. i + c \in Nat /\ r + g \in Nat
    BY <1>2
  <2>2. Fast(i + c) <= Fast(r + g)
    BY <1>2, <2>1, SlowFast
  <2>3. Fast(i + c) = Fast(i) + Fast(c) /\ Fast(r + g) = Fast(r) + Fast(g) /\ Fast(c) \in Nat /\ Fast(g) \in Nat
    BY <1>2, SlowFast
  <2> QED
    BY <2>2, <2>3
<1>7. /\ Slow(Limit) = Slow(r) + Slow(Turns(r)) + Slow(Turns(1 + f))
      /\ Slow(u) <= Slow(Turns(1 + f)) /\ Slow(Turns(1 + f)) \in Nat
  <2>1. /\ Price(r) = r + Turns(r) /\ Turns(r) \in Nat /\ 1 + f \in Nat /\ 1 <= 1 + f /\ 1 \in Nat
    <3>1. Price(r) = r + Turns(r) /\ Turns(r) \in Nat
      BY PriceAdd
    <3>2. 1 + f \in Nat /\ 1 <= 1 + f /\ 1 \in Nat
      OBVIOUS
    <3> QED
      BY <3>1, <3>2
  <2>2. Turns(1 + f) \in Nat /\ u <= Turns(1 + f)
    <3>1. PICK v \in Nat, o \in Nat : v = 1 + f /\ o = 1 /\ o <= v
      BY <2>1, Zenon
    <3>2. Turns(v) \in Nat /\ Turns(o) <= Turns(v) /\ Turns(1) = Turn
      BY <3>1, PriceAdd
    <3> QED
      BY ONLY <1>2, <3>1, <3>2, Zenon
  <2>3. Slow((r + Turns(r)) + Turns(1 + f)) = Slow(r + Turns(r)) + Slow(Turns(1 + f))
        /\ Slow(r + Turns(r)) = Slow(r) + Slow(Turns(r))
    <3>1. PICK y \in Nat, z \in Nat : y = Turns(r) /\ z = Turns(1 + f)
      BY <2>1, <2>2, Zenon
    <3>2. r + y \in Nat
      OBVIOUS
    <3>3. Slow((r + y) + z) = Slow(r + y) + Slow(z)
      BY <3>2, SlowFast
    <3>4. Slow(r + y) = Slow(r) + Slow(y)
      BY SlowFast
    <3> QED
      BY ONLY <3>1, <3>3, <3>4, Zenon
  <2>4. Slow(u) <= Slow(Turns(1 + f)) /\ Slow(Turns(1 + f)) \in Nat
    BY <2>2, SlowFast
  <2>5. Limit = (r + Turns(r)) + Turns(1 + f)
    BY <1>2, <2>1 DEF Limit
  <2> QED
    BY <2>3, <2>4, <2>5
<1>8. Slow(b) + s + Fast(c) <= Slow(Limit) + Fast(g)
  <2>1. PICK x1 \in Nat, x2 \in Nat, x3 \in Nat, x4 \in Nat, x5 \in Nat, x6 \in Nat, x7 \in Nat :
          /\ x1 = Slow(u) /\ x2 = Slow(w) /\ x3 = Fast(i) /\ x4 = Fast(Turns(i))
          /\ x5 = Slow(r) /\ x6 = Fast(r) /\ x7 = Fast(Turns(r))
    BY <1>3, <1>4, <1>5
  <2>2. PICK y1 \in Nat, y2 \in Nat, y3 \in Nat : y1 = Slow(Turns(1 + f)) /\ y2 = Fast(c) /\ y3 = Fast(g)
    BY <1>6, <1>7
  <2>3. /\ Slow(b) = x1 + (x3 + x4) + x2 /\ Slow(Limit) = x5 + (x6 + x7) + y1
        /\ x2 + s <= x5 /\ x4 <= x7 /\ x3 + y2 <= x6 + y3 /\ x1 <= y1
    BY ONLY <1>3, <1>4, <1>5, <1>6, <1>7, <2>1, <2>2, Zenon
  <2>4. (x1 + (x3 + x4) + x2) + s + y2 <= (x5 + (x6 + x7) + y1) + y3
    BY ONLY <2>3, x1 \in Nat, x2 \in Nat, x3 \in Nat, x4 \in Nat, x5 \in Nat, x6 \in Nat, x7 \in Nat,
            y1 \in Nat, y2 \in Nat, y3 \in Nat, s \in Nat
  <2> QED
    BY ONLY <2>2, <2>3, <2>4, Zenon
<1> QED
  BY ONLY <1>2, <1>8, Zenon

\* What a fault adds to the time that there is.
LEMMA FaultRoom ==
  ASSUME Capacity, PortCapacity, TypeOK, TypeOK', IsNotConnected \/ SetClock
  PROVE  \E l \in Nat, m \in Nat :
           /\ l = Slow(Limit) + Fast(Load(faults)) /\ m = Slow(Limit') + Fast(Load(faults'))
           /\ Slow(Turn) + Slow(SlaveCount + 1) + Fast(D) + l <= m
<1>1. PICK f \in Nat, k \in Nat, s \in Nat, u \in Nat, d \in Nat :
        f = faults /\ k = Limit /\ s = SlaveCount + 1 /\ u = Turn /\ d = D
  <2>1. SlaveCount + 1 \in Nat
    BY Naturals
  <2> QED
    BY <2>1, Sizes, LimitTyped, HearingUnits, Units
<1>2. faults' = f + 1 /\ commands' = commands /\ alarms' = alarms
  BY <1>1 DEF IsNotConnected, SetClock
<1>3. Limit' = (k + Price(s)) + u /\ s <= Price(s) /\ Price(s) \in Nat
  <2>1. Price(s) = s + Turns(s) /\ Price(s) \in Nat /\ Turns(s) \in Nat
    BY PriceAdd
  <2>2. Limit' = Limit + Price(SlaveCount + 1) + Turn
    BY <1>1, <1>2, LimitStep
  <2> QED
    BY <1>1, <2>1, <2>2
<1>4. /\ Slow(Limit') = Slow(k) + Slow(Price(s)) + Slow(u) /\ Slow(s) <= Slow(Price(s))
      /\ Slow(k) \in Nat /\ Slow(Price(s)) \in Nat /\ Slow(u) \in Nat /\ Slow(s) \in Nat
  <2>1. PICK p \in Nat : p = Price(s) /\ s <= p /\ k + p \in Nat
    BY <1>3
  <2>2. Slow((k + p) + u) = Slow(k + p) + Slow(u) /\ Slow(u) \in Nat
    BY <2>1, SlowFast
  <2>3. Slow(k + p) = Slow(k) + Slow(p) /\ Slow(k) \in Nat /\ Slow(p) \in Nat
    BY SlowFast
  <2>4. Slow(s) <= Slow(p) /\ Slow(s) \in Nat
    BY <2>1, SlowFast
  <2> QED
    BY <1>3, <2>1, <2>2, <2>3, <2>4
<1>5. /\ Fast(Load(faults')) = Fast(Load(f)) + Fast(d)
      /\ Fast(Load(f)) \in Nat /\ Fast(d) \in Nat
  <2>1. PICK v \in Nat : v = Load(f) /\ Load(f + 1) = v + d
    <3>1. 1 \in Nat /\ Load(1) = d
      BY <1>1, LoadAdd
    <3>2. Load(f + 1) = Load(f) + Load(1) /\ Load(f) \in Nat
      BY <3>1, LoadAdd
    <3> QED
      BY <3>1, <3>2
  <2>2. Fast(v + d) = Fast(v) + Fast(d)
    BY FastAdd
  <2>3. Fast(v) \in Nat /\ Fast(d) \in Nat
    BY SlowFast
  <2> QED
    BY <1>2, <2>1, <2>2, <2>3
<1>6. PICK l \in Nat, m \in Nat :
        /\ l = Slow(Limit) + Fast(Load(faults)) /\ m = Slow(Limit') + Fast(Load(faults'))
  BY <1>1, <1>4, <1>5
<1>7. Slow(u) + Slow(s) + Fast(d) + l <= m
  BY <1>1, <1>4, <1>5, <1>6
<1> QED
  BY <1>1, <1>6, <1>7

\* The steps other than the clock read and the turn that hears nothing.
LEMMA AheadStep ==
  ASSUME TypeOK, TypeOK', Places, [Next]_vars, ~ReadClock, ~NothingToHear,
         NEW i \in Nat, NEW j \in Nat, Emergency => j <= i + 1, ~Emergency => j <= i,
         Listen => i = j + 1
  PROVE  /\ Ahead(j)' \in Nat
         /\ OnMessage => Ahead(j)' <= Ahead(i) + 1
         /\ IsNotConnected \/ Emergency => Ahead(j)' <= Ahead(i) + Turn
         /\ ~OnMessage /\ ~IsNotConnected /\ ~Emergency => Ahead(j)' <= Ahead(i)
         /\ Tick /\ pc # "down" => Ahead(j)' + 1 <= Ahead(i)
<1>1. PICK k \in Nat, l \in Nat, x \in Nat, y \in Nat, w \in Nat, u \in Nat :
        /\ k = ToListen /\ l = ToListen' /\ x = Turns(i) /\ y = Turns(j) /\ w = Work /\ u = Turn
        /\ (~Emergency => y <= x) /\ y <= x + u /\ (i = j + 1 => x = y + u)
  <2>1. /\ Turns(i) \in Nat /\ Turns(j) \in Nat /\ (~Emergency => Turns(j) <= Turns(i))
        /\ Turns(j) <= Turns(i) + Turn
    <3>1. Turns(i) \in Nat /\ Turns(j) \in Nat /\ (~Emergency => Turns(j) <= Turns(i))
      BY PriceAdd
    <3>2. PICK n \in Nat : n = i + 1 /\ j <= n
      OBVIOUS
    <3>3. Turns(j) <= Turns(n) /\ Turns(n) = Turns(i) + Turn
      BY <3>2, PriceAdd
    <3> QED
      BY ONLY <3>1, <3>3, Zenon
  <2>2. i = j + 1 => Turns(i) = Turns(j) + Turn
    BY PriceAdd
  <2>3. ToListen \in Nat /\ ToListen' \in Nat /\ Work \in Nat /\ Turn \in Nat
    BY PendingTyped, ListenStep, WorkTyped, HearingUnits
  <2> QED
    BY ONLY <2>1, <2>2, <2>3, Zenon
<1>2. Ahead(i) = k + x + w
  BY <1>1 DEF Ahead
<1>3. PICK v \in Nat : v = Work'
  <2>1. (TypeOK => Work \in Nat)'
    BY WorkTyped, PTL
  <2> QED
    BY <2>1
<1>4. Ahead(j)' = l + y + v
  <2>1. Ahead(j)' = ToListen' + Turns(j) + Work'
    BY DEF Ahead, Turns, Turn
  <2> QED
    BY <1>1, <1>3, <2>1
<1>5. CASE OnMessage
  <2>1. v = w + 1
    BY <1>1, <1>3, <1>5, WorkSent
  <2>2. ~Listen /\ ~IsNotConnected /\ ~NothingToHear /\ ~Tick /\ ~Emergency
    <3>1. pc = "select" /\ pc' = "clock"
      BY <1>5 DEF OnMessage
    <3> QED
      BY <3>1 DEF Listen, IsNotConnected, NothingToHear, Tick, Emergency, main
  <2>3. l <= k
    BY <1>1, <2>2, ListenStep
  <2>4. l + y + v <= (k + x + w) + 1
    BY <1>1, <2>1, <2>2, <2>3
  <2> QED
    BY <1>2, <1>4, <1>5, <2>2, <2>4
<1>6. CASE Tick
  <2>1. l <= k /\ (left > 0 => l + 1 <= k)
    BY <1>1, <1>6, ListenStep
  <2>2. IF busy > 0 THEN w = v + 1 ELSE v = w /\ waiting
    BY <1>1, <1>3, <1>6, WorkDone
  <2>3. UNCHANGED <<faults, commands, alarms, pc>>
    BY <1>6 DEF Tick
  <2>4. ~OnMessage /\ ~IsNotConnected /\ ~Emergency
    <3>1. faults' # faults + 1 /\ commands' # commands + 1 /\ alarms' # alarms + 1
      BY <2>3, Sizes
    <3> QED
      BY ONLY <3>1, Zenon DEF OnMessage, IsNotConnected, Emergency
  <2>5. pc # "down" => busy > 0 \/ left > 0
    BY <1>6 DEF Tick, MainWaits
  <2>6. l + y + v <= k + x + w /\ (pc # "down" => (l + y + v) + 1 <= k + x + w)
    <3>1. v <= w /\ (pc # "down" => l + 1 <= k \/ v + 1 <= w)
      <4>1. CASE busy > 0
        BY <2>2, <4>1
      <4>2. CASE ~(busy > 0)
        BY <2>1, <2>2, <2>5, <4>2
      <4> QED
        BY <4>1, <4>2
    <3>2. y <= x /\ l <= k
      BY <1>1, <2>1, <2>4
    <3> QED
      BY ONLY <3>1, <3>2, k \in Nat, l \in Nat, x \in Nat, y \in Nat, w \in Nat, v \in Nat
  <2> QED
    BY <1>2, <1>4, <1>6, <2>4, <2>6
<1>7. CASE ~OnMessage /\ ~Tick
  <2>1. v = w
    BY <1>1, <1>3, <1>7, WorkKept DEF Next, MainThread
  <2>2. CASE IsNotConnected
    <3>1. l = k + u
      BY <1>1, <2>2, ListenStep
    <3>2. ~Emergency
      <4>1. pc' # pc
        BY <2>2 DEF IsNotConnected
      <4> QED
        BY <4>1 DEF Emergency, main
    <3>3. l + y + v <= (k + x + w) + u
      BY <1>1, <2>1, <3>1, <3>2
    <3> QED
      BY <1>1, <1>2, <1>4, <1>7, <2>2, <3>2, <3>3
  <2>3. CASE Listen
    <3>1. l = k + u /\ x = y + u
      BY <1>1, <2>3, ListenStep
    <3>2. l + y + v <= k + x + w
      BY <2>1, <3>1
    <3>3. ~IsNotConnected /\ ~Emergency
      BY <2>3 DEF Listen, IsNotConnected, Emergency, main
    <3> QED
      BY <1>2, <1>4, <1>7, <3>2, <3>3
  <2>4. CASE ~IsNotConnected /\ ~Listen
    <3>1. l <= k
      BY <1>1, <2>4, ListenStep
    <3>2. l + y + v <= (k + x + w) + u /\ (~Emergency => l + y + v <= k + x + w)
      BY <1>1, <2>1, <3>1
    <3> QED
      BY <1>1, <1>2, <1>4, <1>7, <2>4, <3>2
  <2> QED
    BY <2>2, <2>3, <2>4
<1> QED
  BY <1>5, <1>6, <1>7

LEMMA ReachedStep ==
  ASSUME Capacity, PortCapacity, ClockInReach, Paced, Heard, Written, Reached, [Next]_vars
  PROVE  Reached'
<1>0. TypeOK /\ TypeOK' /\ Places /\ InRange /\ Paced' /\ Heard'
  <2>1. Paced' /\ Heard'
    BY PacedStep, HeardStep
  <2> QED
    BY <2>1 DEF Paced
<1>1. SUFFICES ASSUME NEW j \in PollsAt(Line')
               PROVE  Slow(Ahead(j)') + Saved' + Fast(Come(j)') <= Slow(Limit') + Fast(Load(faults'))
  BY DEF Reached, PollsAt, Slow, Fast, Load, Price, Turns, HearingCost, Turn, D
<1>2. /\ Line \in Seq(Kind) /\ Line' \in Seq(Kind) /\ j \in Nat
      /\ After(Line', j) \in Nat
  <2>1. (TypeOK => Line \in Seq(Kind))'
    BY LineTyped, PTL
  <2>2. Line \in Seq(Kind) /\ Line' \in Seq(Kind) /\ j \in Nat
    BY <1>0, <2>1, LineTyped DEF PollsAt
  <2> QED
    BY <2>2, AfterTyped
<1>3. PICK s \in Nat, t \in Nat, l \in Nat, m \in Nat :
        /\ s = Saved /\ t = Saved' /\ t <= Slow(SlaveCount + 1)
        /\ l = Slow(Limit) + Fast(Load(faults)) /\ m = Slow(Limit') + Fast(Load(faults'))
  <2>1. Saved \in Nat /\ Saved' \in Nat /\ Saved' <= Slow(SlaveCount + 1)
    BY <1>0, SavedTyped, SavedAfter
  <2>2. Slow(Limit) \in Nat /\ Slow(Limit') \in Nat
    <3>1. (Capacity /\ TypeOK => Limit \in Nat)'
      BY LimitTyped, PTL
    <3>2. Capacity'
      BY DEF Capacity
    <3>3. Limit \in Nat /\ Limit' \in Nat
      BY <1>0, <3>1, <3>2, LimitTyped
    <3> QED
      BY <3>3, SlowFast
  <2>3. Fast(Load(faults)) \in Nat /\ Fast(Load(faults')) \in Nat
    <3>1. Load(faults) \in Nat /\ Load(faults') \in Nat
      BY <1>0, Sizes, SizesAfter, LoadAdd
    <3> QED
      BY <3>1, SlowFast
  <2>4. Slow(Limit) + Fast(Load(faults)) \in Nat /\ Slow(Limit') + Fast(Load(faults')) \in Nat
    BY <2>2, <2>3
  <2> QED
    BY ONLY <2>1, <2>4, Zenon
<1>4. SUFFICES Slow(Ahead(j)') + t + Fast(Come(j)') <= m
  BY ONLY <1>3, <1>4, Zenon
<1>5. ASSUME NEW i \in PollsAt(Line)
      PROVE  /\ Slow(Ahead(i)) + s + Fast(Come(i)) <= l
             /\ i \in Nat /\ Ahead(i) \in Nat /\ Come(i) \in Nat
  <2>1. i \in Nat /\ Come(i) \in Nat
    BY <1>0, ComeTyped
  <2> QED
    BY <1>0, <1>3, <2>1, AheadTyped DEF Reached
<1>6. UNCHANGED <<faults, commands, alarms>> => m = l
  <2> SUFFICES ASSUME faults' = faults, commands' = commands, alarms' = alarms PROVE m = l
    OBVIOUS
  <2>1. Limit' = Limit
    BY <1>0, LimitStep
  <2> QED
    BY ONLY <1>3, <2>1, faults' = faults, Zenon
<1>7. Slow(0) = 0 /\ Fast(0) = 0 /\ Slow(1) \in Nat /\ D \in Nat /\ Turn \in Nat
  <2>1. 0 \in Nat /\ 1 \in Nat
    OBVIOUS
  <2> QED
    BY <2>1, SlowFast, Units, HearingUnits
<1>8. CASE ReadClock
  <2>1. UNCHANGED <<faults, commands, alarms>>
    BY <1>0, <1>8, TimersRead
  <2>2. /\ UNCHANGED <<rx, queue, busy>>
        /\ ~Tick /\ ~IsNotConnected /\ ~SetClock /\ ~Listen /\ ~NothingToHear
    <3>1. pc = "clock" /\ pc' = "push" /\ UNCHANGED <<rx, queue, busy>>
      BY <1>8 DEF ReadClock, writer
    <3> QED
      BY <3>1 DEF Tick, IsNotConnected, SetClock, Listen, NothingToHear, main
  <2>3. CASE j \in PollsAt(Line) /\ After(Line', j) <= After(Line, j) + (IF PollDue THEN 1 ELSE 0)
    <3>1. PICK n \in Nat : n = Len(todo') /\ Slow(n) + t = s /\ Slow(n) \in Nat
      BY <1>0, <1>3, <1>8, LoadRead, SizesAfter
    <3>2. PICK a \in Nat, c \in Nat : a = Ahead(j) /\ c = Come(j) /\ Slow(a) + s + Fast(c) <= l
      BY <1>5, <2>3
    <3>3. PICK e \in Nat : e = Come(j)' /\ e <= c + 0
      <4>1. After(Line', j) <= After(Line, j) + (IF ReadClock /\ PollDue THEN 1 ELSE 0)
        BY <1>8, <2>3
      <4>2. /\ Come(j)' \in Nat
            /\ Come(j)' <= Come(j) + (IF Tick /\ pc # "down" THEN 1
                                      ELSE IF IsNotConnected \/ SetClock THEN D ELSE 0)
        BY <1>0, <1>2, <2>3, <4>1, ComeStep
      <4> QED
        BY <2>2, <3>2, <4>2
    <3>4. PICK b \in Nat : b = Ahead(j)' /\ b <= a + n
      <4>1. PICK k \in Nat, h \in Nat, x \in Nat, w \in Nat :
              k = ToListen /\ h = ToListen' /\ h <= k /\ x = Turns(j) /\ w = Work
        BY <1>0, <1>2, <2>2, ListenStep, AheadTyped
      <4>2. Work' = w + n
        <5>1. Work' = Len(queue) + n + busy /\ todo = <<>>
          BY <1>0, <1>8, <2>2, <3>1, WorkRead DEF Work
        <5>2. w = Len(queue) + 0 + busy
          BY <4>1, <5>1 DEF Work
        <5>3. Len(queue) \in Nat /\ busy \in Nat
          BY <1>0, Sizes
        <5> QED
          BY <5>1, <5>2, <5>3
      <4>3. Ahead(j)' = h + x + (w + n)
        BY <4>1, <4>2 DEF Ahead, Turns, Turn
      <4>4. a = k + x + w
        BY <3>2, <4>1 DEF Ahead
      <4>5. h + x + (w + n) \in Nat /\ h + x + (w + n) <= a + n
        BY <4>1, <4>4
      <4> QED
        BY <4>3, <4>5
    <3>5. Slow(b) + t + Fast(e) <= m
      <4>1. Slow(b) <= Slow(a) + Slow(n) /\ Slow(b) \in Nat /\ Slow(a) \in Nat
        <5>1. a + n \in Nat
          OBVIOUS
        <5>2. Slow(b) <= Slow(a + n) /\ Slow(b) \in Nat
          BY <3>4, <5>1, SlowFast
        <5>3. Slow(a + n) = Slow(a) + Slow(n) /\ Slow(a) \in Nat
          BY SlowFast
        <5> QED
          BY <5>2, <5>3
      <4>2. Fast(e) <= Fast(c) /\ Fast(e) \in Nat /\ Fast(c) \in Nat
        <5>1. e <= c
          BY <3>3
        <5> QED
          BY <5>1, SlowFast
      <4> QED
        <5>1. PICK x1 \in Nat, x2 \in Nat, x3 \in Nat, y1 \in Nat, y2 \in Nat :
                x1 = Slow(a) /\ x2 = Slow(b) /\ x3 = Slow(n) /\ y1 = Fast(c) /\ y2 = Fast(e)
          BY ONLY <3>1, <4>1, <4>2, Zenon
        <5>2. /\ x1 + s + y1 <= l /\ x3 + t = s /\ x2 <= x1 + x3 /\ y2 <= y1 /\ m = l
          BY ONLY <1>6, <2>1, <3>1, <3>2, <4>1, <4>2, <5>1, Zenon
        <5>3. x2 + t + y2 <= m
          BY ONLY <5>2, x1 \in Nat, x2 \in Nat, x3 \in Nat, y1 \in Nat, y2 \in Nat,
                  s \in Nat, t \in Nat, l \in Nat, m \in Nat
        <5> QED
          BY ONLY <5>1, <5>3, Zenon
    <3> QED
      BY <3>3, <3>4, <3>5
  <2>4. CASE /\ PollDue /\ j = Len(rx) + Len(queue) + 1 /\ After(Line', j) = 0
             /\ Len(todo') \in Nat \ {0}
    <3>1. Come(j)' = 0
      <4>1. Near' = 0
        BY <1>0, <1>8, <2>4, SavedRead
      <4>2. Come(j)' = Load(After(Line', j)) + Near'
        BY DEF Come, Load, D, After, PollsAfter, PollsAt
      <4>3. Load(0) = 0
        <5>1. 0 \in Nat
          OBVIOUS
        <5> QED
          BY <5>1, LoadAdd
      <4> QED
        BY <2>4, <4>1, <4>2, <4>3
    <3>2. Slow(Ahead(j)') + t <= Slow(Limit')
      <4>1. (AskedFor)'
        BY ReachedAnew, PTL
      <4>2. Capacity' /\ PortCapacity'
        BY DEF Capacity, PortCapacity, HearingCost
      <4>3. j = Len(rx') + Len(queue') + 1
        BY <2>2, <2>4
      <4>4. (Slow(Ahead(j)) + Saved <= Slow(Limit))'
        BY <1>0, <1>2, <2>4, <4>1, <4>2, <4>3 DEF AskedFor
      <4>5. Slow(Ahead(j)') + Saved' <= Slow(Limit')
        BY <4>4 DEF Slow, Load, Price, HearingCost, D
      <4> QED
        BY <1>3, <4>5
    <3>3. PICK z \in Nat : z = Fast(Load(faults'))
      <4>1. Load(faults') \in Nat
        BY <1>0, SizesAfter, LoadAdd
      <4> QED
        BY <4>1, SlowFast
    <3>4. PICK b \in Nat : b = Ahead(j)' /\ Slow(b) \in Nat
      <4>1. (TypeOK => ToListen \in Nat /\ Work \in Nat)'
        BY PendingTyped, WorkTyped, PTL
      <4>2. Turns(j) \in Nat
        BY <1>2, PriceAdd
      <4>3. Ahead(j)' = ToListen' + Turns(j) + Work'
        BY DEF Ahead, Turns, Turn
      <4>4. Ahead(j)' \in Nat
        BY <1>0, <4>1, <4>2, <4>3
      <4> QED
        BY <4>4, SlowFast
    <3>5. PICK v \in Int : v = Slow(Limit')
      <4>1. (Capacity /\ TypeOK => Limit \in Nat)'
        BY LimitTyped, PTL
      <4>2. Capacity'
        BY DEF Capacity
      <4>3. Limit' \in Nat
        BY <1>0, <4>1, <4>2
      <4> QED
        BY <4>3, SlowFast
    <3>6. Slow(b) + t <= v /\ m = v + z
      BY ONLY <1>3, <3>2, <3>3, <3>4, <3>5, Zenon
    <3>7. Slow(b) + t + 0 <= m
      BY ONLY <3>4, <3>6, t \in Nat, v \in Int, z \in Nat, m \in Nat
    <3> QED
      BY ONLY <1>7, <3>1, <3>4, <3>7, Zenon
  <2> QED
    BY <1>0, <1>8, <2>3, <2>4, LineRead
<1>9. CASE NothingToHear
  <2>1. /\ pc = "listen" /\ rx = <<>> /\ todo = <<>>
        /\ UNCHANGED <<faults, commands, alarms>>
    BY <1>0, <1>9 DEF NothingToHear, Places, history
  <2>2. ~ReadClock /\ ~Tick /\ ~IsNotConnected /\ ~SetClock
    <3>1. pc' = "sleep"
      BY <1>9 DEF NothingToHear
    <3> QED
      BY <2>1, <3>1 DEF ReadClock, Tick, IsNotConnected, SetClock, main
  <2>3. Line' = Line
    BY <1>0, <1>9, LineKept
  <2>4. j \in PollsAt(Line)
    BY <2>3
  <2>5. PICK c \in Nat : c = Come(j) /\ j \in Nat
    BY <1>5, <2>4
  <2>6. PICK e \in Nat : e = Come(j)' /\ e <= c
    <3>1. After(Line', j) <= After(Line, j) + (IF ReadClock /\ PollDue THEN 1 ELSE 0)
      <4>1. After(Line, j) \in Nat
        BY <1>2, AfterTyped
      <4> QED
        BY <2>2, <2>3, <4>1
    <3>2. /\ Come(j)' \in Nat
          /\ Come(j)' <= Come(j) + (IF Tick /\ pc # "down" THEN 1
                                    ELSE IF IsNotConnected \/ SetClock THEN D ELSE 0)
      BY <1>0, <1>2, <2>4, <3>1, ComeStep
    <3>3. Come(j)' <= c + 0
      BY ONLY <2>2, <2>5, <3>2, Zenon
    <3> QED
      BY <3>2, <3>3
  <2>7. PICK b \in Nat : b = Ahead(j)' /\ b = Turn + Turns(j) + Work
    <3>1. ToListen' = Turn /\ Work' = Work
      BY <1>0, <1>9, ListenStep, WorkKept
    <3>2. Ahead(j)' = Turn + Turns(j) + Work
      BY <3>1 DEF Ahead, Turns, Turn
    <3>3. Turn + Turns(j) + Work \in Nat
      <4>1. Turn \in Nat /\ Turns(j) \in Nat /\ Work \in Nat
        BY <1>0, <1>2, HearingUnits, AheadTyped
      <4> QED
        BY ONLY <4>1
    <3> QED
      BY <3>2, <3>3
  <2>8. Slow(b) + s + Fast(c) <= l
    <3>1. Slow(b) + Saved + Fast(Come(j)) <= Slow(Limit) + Fast(Load(faults))
      BY <2>1, <2>4, <2>7, ReachedUnheard
    <3> QED
      BY ONLY <1>3, <2>5, <3>1, Zenon
  <2>9. t = s
    BY <1>3, <1>9, SavedKept
  <2>10. Fast(e) <= Fast(c) /\ Fast(e) \in Nat /\ Fast(c) \in Nat /\ Slow(b) \in Nat
    BY <2>6, SlowFast
  <2>11. Slow(b) + t + Fast(e) <= m
    BY <1>6, <2>1, <2>8, <2>9, <2>10
  <2> QED
    BY <2>6, <2>7, <2>11
<1>10. CASE ~ReadClock /\ ~NothingToHear
  <2>1. PICK i \in PollsAt(Line) :
           /\ After(Line', j) <= After(Line, i) /\ (Listen => i = j + 1)
           /\ Emergency => j <= i + 1
           /\ ~Emergency => j <= i
    BY <1>0, <1>10, LineStep
  <2>2. PICK a \in Nat, c \in Nat :
          a = Ahead(i) /\ c = Come(i) /\ Slow(a) + s + Fast(c) <= l /\ i \in Nat
    BY <1>5
  <2>3. PICK e \in Nat :
          /\ e = Come(j)'
          /\ e <= c + (IF Tick /\ pc # "down" THEN 1
                       ELSE IF IsNotConnected \/ SetClock THEN D ELSE 0)
    <3>1. After(Line', j) <= After(Line, i) + (IF ReadClock /\ PollDue THEN 1 ELSE 0)
      <4>1. After(Line, i) \in Nat
        BY <1>2, <2>2, AfterTyped
      <4> QED
        BY <1>10, <2>1, <4>1
    <3>2. /\ Come(j)' \in Nat
          /\ Come(j)' <= Come(i) + (IF Tick /\ pc # "down" THEN 1
                                    ELSE IF IsNotConnected \/ SetClock THEN D ELSE 0)
      BY <1>0, <1>2, <3>1, ComeStep
    <3> QED
      BY ONLY <2>2, <3>2, Zenon
  <2>4. PICK b \in Nat :
          /\ b = Ahead(j)'
          /\ OnMessage => b <= a + 1
          /\ IsNotConnected \/ Emergency => b <= a + Turn
          /\ ~OnMessage /\ ~IsNotConnected /\ ~Emergency => b <= a
          /\ Tick /\ pc # "down" => b + 1 <= a
    <3>1. /\ Ahead(j)' \in Nat
          /\ OnMessage => Ahead(j)' <= Ahead(i) + 1
          /\ IsNotConnected \/ Emergency => Ahead(j)' <= Ahead(i) + Turn
          /\ ~OnMessage /\ ~IsNotConnected /\ ~Emergency => Ahead(j)' <= Ahead(i)
          /\ Tick /\ pc # "down" => Ahead(j)' + 1 <= Ahead(i)
      BY <1>0, <1>2, <1>10, <2>1, <2>2, AheadStep
    <3> QED
      BY ONLY <2>2, <3>1, Zenon
  <2>5. SUFFICES Slow(b) + t + Fast(e) <= m
    BY ONLY <2>3, <2>4, <2>5, Zenon
  <2>10. b <= a /\ e <= c => Slow(b) <= Slow(a) /\ Fast(e) <= Fast(c)
    BY SlowFast
  <2>11. Slow(a) \in Nat /\ Slow(b) \in Nat /\ Fast(c) \in Nat /\ Fast(e) \in Nat
    BY SlowFast
  <2>6. CASE IsNotConnected \/ SetClock
    <3>1. Slow(Turn) + Slow(SlaveCount + 1) + Fast(D) + l <= m
      BY <1>0, <1>3, <2>6, FaultRoom
    <3>2. PICK u \in Nat, d \in Nat, z \in Nat :
            u = Turn /\ d = D /\ z = Slow(SlaveCount + 1)
      <4>1. SlaveCount + 1 \in Nat
        BY Naturals
      <4> QED
        BY <1>7, <4>1, SlowFast
    <3>3. faults' = faults + 1 /\ faults \in Nat
      BY <1>0, <2>6, Sizes DEF IsNotConnected, SetClock
    <3>4. ~Tick /\ ~OnMessage /\ ~Emergency
      <4>1. Tick \/ OnMessage \/ Emergency => faults' = faults
        BY DEF Tick, OnMessage, Emergency
      <4> QED
        BY <3>3, <4>1
    <3>5. e <= c + d /\ b <= a + u /\ t <= s + z
      BY <1>3, <2>3, <2>4, <2>6, <3>2, <3>4
    <3>6. Slow(u) + z + Fast(d) + l <= m
      <4>1. Slow(u) \in Nat /\ Fast(d) \in Nat
        BY SlowFast
      <4> QED
        BY ONLY <3>1, <3>2, Zenon
    <3>7. Slow(b) <= Slow(a) + Slow(u) /\ Slow(a) \in Nat /\ Slow(b) \in Nat /\ Slow(u) \in Nat
      BY <3>5, Adds
    <3>8. Fast(e) <= Fast(c) + Fast(d) /\ Fast(c) \in Nat /\ Fast(e) \in Nat /\ Fast(d) \in Nat
      BY <3>5, Adds
    <3> QED
      BY <2>2, <3>5, <3>6, <3>7, <3>8
  <2>7. CASE OnMessage
    <3>1. /\ faults' = faults /\ commands' = commands + 1 /\ alarms' = alarms
          /\ ~Tick /\ ~IsNotConnected /\ ~SetClock /\ ~Emergency
      <4>1. /\ faults' = faults /\ commands' = commands + 1 /\ alarms' = alarms
            /\ commands \in Nat /\ faults \in Nat
        BY <1>0, <2>7, TimersKept, Sizes DEF OnMessage
      <4> QED
        BY <4>1 DEF Tick, IsNotConnected, SetClock, Emergency
    <3>2. e <= c /\ b <= a + 1 /\ t <= s
      BY <1>3, <2>3, <2>4, <2>7, <3>1, SavedKept
    <3>3. Slow(1) + l <= m
      <4>1. PICK k \in Nat, h \in Nat, g \in Nat :
              k = Limit /\ h = HearingCost /\ 1 <= h /\ Limit' = k + h /\ g = Fast(Load(faults))
        <5>1. Load(faults) \in Nat
          BY <1>0, Sizes, LoadAdd
        <5>2. Fast(Load(faults)) \in Nat
          BY <5>1, SlowFast
        <5>3. Limit' = Limit + HearingCost /\ Limit \in Nat
          BY <1>0, <3>1, LimitStep, LimitTyped
        <5>4. HearingCost \in Nat /\ 1 <= HearingCost
          BY HearingUnits
        <5> QED
          BY ONLY <5>2, <5>3, <5>4, Zenon
      <4>2. Slow(k + h) = Slow(k) + Slow(h) /\ Slow(1) <= Slow(h) /\ Slow(k) \in Nat /\ Slow(h) \in Nat
        <5>1. PICK o \in Nat : o = 1 /\ o <= h
          BY <4>1
        <5>2. Slow(o) <= Slow(h) /\ Slow(h) \in Nat
          BY <5>1, SlowFast
        <5>3. Slow(k + h) = Slow(k) + Slow(h) /\ Slow(k) \in Nat
          BY SlowFast
        <5> QED
          BY <5>1, <5>2, <5>3
      <4>3. l = Slow(k) + g /\ m = Slow(k + h) + g
        BY ONLY <1>3, <3>1, <4>1, Zenon
      <4> QED
        BY <1>7, <4>2, <4>3
    <3>4. Slow(b) <= Slow(a) + Slow(1) /\ Slow(a) \in Nat /\ Slow(b) \in Nat
      BY <3>2, Adds
    <3>5. Fast(e) <= Fast(c) /\ Fast(c) \in Nat /\ Fast(e) \in Nat
      BY <3>2, SlowFast
    <3> QED
      BY <1>7, <2>2, <3>2, <3>3, <3>4, <3>5
  <2>8. CASE Tick
    <3>1. /\ ~IsNotConnected /\ ~SetClock /\ ~OnMessage /\ ~Emergency
          /\ UNCHANGED <<faults, commands, alarms>>
      <4>1. /\ UNCHANGED <<faults, commands, alarms>>
            /\ faults \in Nat /\ commands \in Nat /\ alarms \in Nat
        BY <1>0, <2>8, Sizes DEF Tick
      <4>2. faults' # faults + 1 /\ commands' # commands + 1 /\ alarms' # alarms + 1
        BY ONLY <4>1
      <4> QED
        BY ONLY <4>1, <4>2, Zenon DEF IsNotConnected, SetClock, OnMessage, Emergency
    <3>2. m = l
      BY <1>6, <3>1
    <3>3. CASE pc = "down"
      <4>1. e <= c /\ b <= a /\ t <= s
        <5>1. t = s
          BY <1>0, <1>3, <2>8, <3>3, SavedTick
        <5> QED
          BY <2>3, <2>4, <3>1, <3>3, <5>1
      <4> QED
        BY <2>2, <2>10, <2>11, <3>2, <4>1
    <3>4. CASE pc # "down"
      <4>1. PICK d \in Nat : d = D /\ t <= s + d /\ e <= c + 1 /\ b + 1 <= a
        BY <1>0, <1>3, <1>7, <2>3, <2>4, <2>8, <3>4, SavedTick
      <4>2. PICK o \in Nat, p \in Nat, q \in Nat : o = 1 /\ p = Slow(o) /\ q = Fast(o) /\ p = d + q
        <5>1. Slow(1) = D + Fast(1) /\ Fast(1) \in Nat
          BY PortUnits
        <5>2. 1 \in Nat
          OBVIOUS
        <5> QED
          BY ONLY <1>7, <4>1, <5>1, <5>2, Zenon
      <4>3. Slow(b) + p <= Slow(a) /\ Slow(b) \in Nat /\ Slow(a) \in Nat
        <5>1. b + o \in Nat /\ b + o <= a
          BY <4>1, <4>2
        <5>2. Slow(b + o) <= Slow(a) /\ Slow(a) \in Nat
          BY <5>1, SlowFast
        <5>3. Slow(b + o) = Slow(b) + Slow(o) /\ Slow(b) \in Nat
          BY SlowFast
        <5> QED
          BY <4>2, <5>2, <5>3
      <4>4. Fast(e) <= Fast(c) + q /\ Fast(e) \in Nat /\ Fast(c) \in Nat
        <5>1. c + o \in Nat /\ e <= c + o
          BY <4>1, <4>2
        <5>2. Fast(e) <= Fast(c + o) /\ Fast(e) \in Nat
          BY <5>1, SlowFast
        <5>3. Fast(c + o) = Fast(c) + Fast(o)
          BY FastAdd
        <5>4. Fast(c) \in Nat
          BY SlowFast
        <5> QED
          BY <4>2, <5>2, <5>3, <5>4
      <4> QED
        BY <2>2, <3>2, <4>1, <4>2, <4>3, <4>4
    <3> QED
      BY <3>3, <3>4
  <2>9. CASE ~IsNotConnected /\ ~SetClock /\ ~OnMessage /\ ~Emergency /\ ~Tick
    <3>1. t <= s
      <4>1. CASE Reconnect
        BY <1>0, <1>3, <4>1, SavedReconnect
      <4>2. CASE ~Reconnect
        <5>1. t = s
          BY <1>3, <1>10, <2>9, <4>2, SavedKept DEF Next, MainThread
        <5> QED
          BY <5>1
      <4> QED
        BY <4>1, <4>2
    <3>2. m = l
      <4>1. UNCHANGED <<faults, commands, alarms>>
        BY <1>10, <2>9 DEF Next, MainThread, Writer, Select, IsConnected, Reconnect, Polling,
           RequestTemperature, AllPushed, Listen, Write, WaitForNotify, SpuriousWake, vars, history
      <4> QED
        BY <1>6, <4>1
    <3>3. e <= c /\ b <= a /\ t <= s
      BY <2>3, <2>4, <2>9, <3>1
    <3> QED
      BY <2>2, <2>10, <2>11, <3>2, <3>3
  <2>12. CASE Emergency
    <3>1. /\ faults' = faults /\ commands' = commands /\ alarms' = alarms + 1
          /\ ~Tick /\ ~IsNotConnected /\ ~SetClock
      <4>1. /\ faults' = faults /\ commands' = commands /\ alarms' = alarms + 1
            /\ faults \in Nat /\ alarms \in Nat
        BY <1>0, <2>12, Sizes DEF Emergency
      <4> QED
        BY <4>1 DEF Tick, IsNotConnected, SetClock
    <3>2. t <= s
      BY <1>3, <2>12, SavedKept
    <3>3. PICK u \in Nat : u = Turn /\ e <= c /\ b <= a + u
      BY <1>7, <2>3, <2>4, <2>12, <3>1
    <3>4. Slow(u) + l <= m
      <4>1. PICK k \in Nat, g \in Nat : k = Limit /\ Limit' = k + u /\ g = Fast(Load(faults))
        <5>1. Load(faults) \in Nat
          BY <1>0, Sizes, LoadAdd
        <5>2. Fast(Load(faults)) \in Nat
          BY <5>1, SlowFast
        <5>3. Limit' = Limit + Turn /\ Limit \in Nat
          BY <1>0, <3>1, LimitStep, LimitTyped
        <5> QED
          BY ONLY <3>3, <5>2, <5>3, Zenon
      <4>2. Slow(k + u) = Slow(k) + Slow(u) /\ Slow(k) \in Nat /\ Slow(u) \in Nat
        BY SlowFast
      <4>3. l = Slow(k) + g /\ m = Slow(k + u) + g
        BY ONLY <1>3, <3>1, <4>1, Zenon
      <4> QED
        BY <4>2, <4>3
    <3>5. Slow(b) <= Slow(a) + Slow(u) /\ Slow(a) \in Nat /\ Slow(b) \in Nat /\ Slow(u) \in Nat
      BY <3>3, Adds
    <3>6. Fast(e) <= Fast(c) /\ Fast(c) \in Nat /\ Fast(e) \in Nat
      BY <3>3, SlowFast
    <3> QED
      BY <2>2, <3>2, <3>4, <3>5, <3>6
  <2> QED
    BY <2>6, <2>7, <2>8, <2>9, <2>12
<1> QED
  BY <1>8, <1>9, <1>10

\* The polls that are counted are in the line.
LEMMA PollsInLine ==
  ASSUME TypeOK
  PROVE  /\ Polls(queue) + Polls(rx) <= Polls(Line)
         /\ Polls(queue) \in Nat /\ Polls(rx) \in Nat /\ Polls(Line) \in Nat
<1>1. rx \in Seq(Kind) /\ queue \in Seq(Kind) /\ todo \in Seq(Kind) /\ Line \in Seq(Kind)
  BY Sizes, LineTyped
<1>2. PICK r \in Nat : r = Len(rx)
  BY <1>1
<1> DEFINE Shifted == {r + k : k \in PollsAt(queue)}
           f == [k \in PollsAt(queue) |-> r + k]
<1>3. /\ \A k \in PollsAt(rx) : k \in Nat /\ k <= r
      /\ \A k \in PollsAt(queue) : k \in Nat /\ k > 0
  BY <1>1, <1>2 DEF PollsAt
<1>4. f \in Bijection(PollsAt(queue), Shifted)
  <2>1. f \in [PollsAt(queue) -> Shifted]
    OBVIOUS
  <2>2. \A a, b \in PollsAt(queue) : f[a] = f[b] => a = b
    BY <1>3
  <2>3. \A t \in Shifted : \E k \in PollsAt(queue) : f[k] = t
    OBVIOUS
  <2> QED
    BY <2>1, <2>2, <2>3, Fun_IsBij
<1>5. /\ IsFiniteSet(PollsAt(rx)) /\ IsFiniteSet(PollsAt(queue)) /\ IsFiniteSet(PollsAt(Line))
      /\ Polls(rx) = Cardinality(PollsAt(rx)) /\ Polls(queue) = Cardinality(PollsAt(queue))
      /\ Polls(Line) = Cardinality(PollsAt(Line))
      /\ Polls(rx) \in Nat /\ Polls(queue) \in Nat /\ Polls(Line) \in Nat
  BY <1>1, PollsTyped
<1>6. IsFiniteSet(Shifted) /\ Cardinality(Shifted) = Polls(queue)
  <2>1. ExistsBijection(PollsAt(queue), Shifted)
    BY <1>4 DEF ExistsBijection
  <2> HIDE DEF Shifted
  <2> QED
    BY <1>5, <2>1, FS_Bijection
<1>7. PollsAt(rx) \cap Shifted = {}
  BY <1>3
<1>8. PollsAt(rx) \cup Shifted \subseteq PollsAt(Line)
  <2>1. \A k \in Nat :
          /\ k \in PollsAt(rx) => k \in PollsAt(Line)
          /\ k > r /\ k - r \in PollsAt(queue) => k \in PollsAt(Line)
    BY <1>1, <1>2, LineParts DEF Line
  <2>2. \A k \in PollsAt(queue) : r + k \in Nat /\ r + k > r /\ (r + k) - r = k
    BY <1>3
  <2> QED
    BY <1>3, <2>1, <2>2
<1> HIDE DEF Shifted, f
<1>9. IsFiniteSet(PollsAt(rx) \cup Shifted) /\ Cardinality(PollsAt(rx) \cup Shifted) = Polls(rx) + Polls(queue)
  <2>1. /\ IsFiniteSet(PollsAt(rx) \cup Shifted)
        /\ Cardinality(PollsAt(rx) \cup Shifted)
             = Cardinality(PollsAt(rx)) + Cardinality(Shifted) - Cardinality(PollsAt(rx) \cap Shifted)
    BY <1>5, <1>6, FS_Union
  <2>2. Cardinality(PollsAt(rx) \cap Shifted) = 0
    BY <1>7, FS_EmptySet
  <2> QED
    BY <1>5, <1>6, <2>1, <2>2
<1>10. Cardinality(PollsAt(rx) \cup Shifted) <= Cardinality(PollsAt(Line))
  BY <1>5, <1>8, FS_Subset
<1> QED
  BY <1>5, <1>9, <1>10

\* All polls but the oldest are behind the oldest.
LEMMA OldestPoll ==
  ASSUME NEW s \in Seq(Kind), PollsAt(s) # {}
  PROVE  \E i \in PollsAt(s) : i \in Nat \ {0} /\ Polls(s) = 1 + After(s, i)
<1> DEFINE T == PollsAt(s)
<1>1. T \subseteq Nat /\ \A k \in T : k \in Nat \ {0}
  BY DEF PollsAt
<1> HIDE DEF T
<1>2. PICK i \in T : \A k \in T : <<k, i>> \notin OpToRel(<, Nat)
  <2>1. T # {}
    BY DEF T
  <2> QED
    BY <1>1, <2>1, WFMin, NatLessThanWellFounded, Zenon
<1>3. \A k \in T : ~(k < i)
  BY <1>1, <1>2 DEF OpToRel
<1>4. T = PollsAfter(s, i) \cup {i} /\ i \notin PollsAfter(s, i)
  <2>1. \A k \in T : k \in Nat /\ i \in Nat /\ ~(k < i)
    BY <1>1, <1>2, <1>3
  <2>2. \A k \in T : k > i \/ k = i
    BY <2>1
  <2> QED
    <3>1. \A k : k \in PollsAfter(s, i) <=> k \in T /\ k > i
      BY DEF PollsAfter, T
    <3>2. ~(i > i)
      <4>1. i \in Nat
        BY <1>2, <2>1
      <4> QED
        BY ONLY <4>1
    <3> QED
      BY <1>2, <2>2, <3>1, <3>2
<1>5. IsFiniteSet(PollsAfter(s, i)) /\ After(s, i) \in Nat /\ i \in Nat \ {0}
  BY <1>1, <1>2, AfterTyped
<1>6. Cardinality(PollsAfter(s, i) \cup {i}) = Cardinality(PollsAfter(s, i)) + 1
  BY <1>4, <1>5, FS_AddElement
<1>7. Polls(s) = 1 + After(s, i)
  <2>1. Polls(s) = Cardinality(T)
    BY PollsTyped DEF T
  <2>2. Polls(s) = Cardinality(PollsAfter(s, i)) + 1
    BY ONLY <1>4, <1>6, <2>1, Zenon
  <2>3. Polls(s) = After(s, i) + 1
    BY ONLY <2>2, Zenon DEF After
  <2> QED
    BY <1>5, <2>3
<1> QED
  BY <1>2, <1>5, <1>7 DEF T

\* What kMaxPollingCount has to be more than.
LEMMA CountUnits ==
  ASSUME Capacity, CountCapacity, NEW r \in Nat, NEW f \in Nat, NEW y \in Nat,
         r <= (2 + MaxFaults) * (SlaveCount + 1) + MaxCommands, f <= MaxFaults,
         y <= MaxFaults + MaxAlarms
  PROVE  Slow(Price(r)) + Slow(Turns(y)) + Fast(Load(f)) < Fast(Load(MaxPollingCount))
<1>1. PICK q \in Nat, g \in Nat, v \in Nat, k \in Nat, w \in Nat, c \in Nat, d \in Nat :
        /\ q = (2 + MaxFaults) * (SlaveCount + 1) + MaxCommands /\ g = MaxFaults
        /\ v = MaxFaults + MaxAlarms /\ MaxPollingCount = k + g /\ w = Turn /\ c = HearingCost /\ d = D
        /\ c * (c * q + w * v) < w * (d * k)
  <2>1. PICK b \in Nat, g \in Nat, v \in Nat, n \in Nat, e \in Nat :
          v = MaxFaults + MaxAlarms /\ g = MaxFaults /\ n = MaxPollingCount /\ e = MaxCommands /\ b = (2 + g) * (SlaveCount + 1)
    <3>1. PICK g \in Nat, s \in Nat : g = MaxFaults /\ s = SlaveCount
      BY Naturals
    <3>2. (2 + g) * (s + 1) \in Nat
      BY ONLY g \in Nat, s \in Nat
    <3>3. MaxFaults + MaxAlarms \in Nat
      BY Naturals
    <3> QED
      BY <3>1, <3>2, <3>3, Naturals
  <2>2. PICK w \in Nat, c \in Nat, d \in Nat : w = Turn /\ c = HearingCost /\ d = D
    BY HearingUnits, Units
  <2>3. PICK q \in Nat : q = b + e
    OBVIOUS
  <2>4. c * (c * q + w * v) < w * (d * (n - g))
    BY <2>1, <2>2, <2>3, Zenon DEF CountCapacity, Turn, D
  <2>5. n - g \in Nat
    <3> SUFFICES ASSUME n < g PROVE FALSE
      OBVIOUS
    <3>1. PICK h \in Nat : n - g = -h
      <4>1. g - n \in Nat /\ n - g = -(g - n)
        OBVIOUS
      <4> QED
        BY <4>1
    <3>2. w * (d * (-h)) = -(w * (d * h)) /\ w * (d * h) \in Nat
      <4>1. d * h \in Nat /\ d * (-h) = -(d * h)
        BY ONLY d \in Nat, h \in Nat
      <4>2. PICK o \in Nat : o = d * h
        BY <4>1
      <4>3. w * (-o) = -(w * o) /\ w * o \in Nat
        BY ONLY w \in Nat, o \in Nat
      <4> QED
        BY ONLY <4>1, <4>2, <4>3, Zenon
    <3>3. c * (c * q + w * v) \in Nat
      <4>1. c * q \in Nat /\ w * v \in Nat
        BY Product
      <4>2. c * q + w * v \in Nat
        BY <4>1
      <4> QED
        BY <4>2, Product
    <3>4. PICK x \in Nat, m \in Nat : x = c * (c * q + w * v) /\ m = w * (d * h) /\ x < -m
      BY ONLY <2>4, <3>1, <3>2, <3>3, Zenon
    <3> QED
      BY ONLY <3>4
  <2>6. PICK k \in Nat : k = n - g /\ n = k + g
    BY <2>5
  <2> QED
    BY ONLY <2>1, <2>2, <2>3, <2>4, <2>6, Zenon
<1>2. Slow(Price(q)) + Slow(Turns(v)) < Fast(Load(k))
  <2>1. Price(q) \in Nat /\ Turns(v) \in Nat /\ Price(q) = c * q /\ Turns(v) = w * v
    BY <1>1, PriceAdd DEF Price, Turns
  <2>2. PICK x \in Nat, z \in Nat, o \in Nat : x = Price(q) /\ z = Turns(v) /\ o = Load(k)
    BY <2>1, LoadAdd
  <2>3. Price(x + z) < Turns(o)
    BY <1>1, <2>1, <2>2 DEF Price, Turns, Load
  <2>4. Price(x + z) \in Nat /\ Turns(o) \in Nat
    <3>1. x + z \in Nat
      OBVIOUS
    <3> QED
      BY <3>1, PriceAdd
  <2>5. Load(Price(x + z)) < Load(Turns(o))
    <3>1. ~(Turns(o) <= Price(x + z))
      BY <2>3, <2>4
    <3>2. Load(Price(x + z)) \in Nat /\ Load(Turns(o)) \in Nat
      BY <2>4, LoadAdd
    <3>3. ~(Load(Turns(o)) <= Load(Price(x + z)))
      BY <2>4, <3>1, LoadOrder
    <3> QED
      BY <3>2, <3>3
  <2>6. Slow(x + z) < Fast(o)
    BY <2>5 DEF Slow, Fast
  <2>7. Slow(x + z) = Slow(x) + Slow(z)
    BY SlowFast
  <2> QED
    BY ONLY <2>2, <2>6, <2>7, Zenon
<1>3. Fast(Load(MaxPollingCount)) = Fast(Load(k)) + Fast(Load(g))
  <2>1. PICK x \in Nat, z \in Nat : x = Load(k) /\ z = Load(g) /\ Load(k + g) = x + z
    <3>1. Load(k) \in Nat /\ Load(g) \in Nat
      BY LoadAdd
    <3>2. Load(k + g) = Load(k) + Load(g)
      BY LoadAdd
    <3> QED
      BY ONLY <3>1, <3>2, Zenon
  <2>2. Fast(x + z) = Fast(x) + Fast(z)
    BY FastAdd
  <2> QED
    BY ONLY <1>1, <2>1, <2>2, Zenon
<1>4. Slow(Price(r)) <= Slow(Price(q)) /\ Slow(Price(r)) \in Nat /\ Slow(Price(q)) \in Nat
  <2>1. r <= q
    BY <1>1
  <2>2. PICK x \in Nat, z \in Nat : x = Price(r) /\ z = Price(q) /\ x <= z
    <3>1. Price(r) \in Nat /\ Price(q) \in Nat /\ Price(r) <= Price(q)
      BY ONLY <2>1, r \in Nat, q \in Nat, PriceAdd
    <3> QED
      BY ONLY <3>1, Zenon
  <2> QED
    BY <2>2, SlowFast
<1>5. Slow(Turns(y)) <= Slow(Turns(v)) /\ Slow(Turns(y)) \in Nat /\ Slow(Turns(v)) \in Nat
  <2>1. y <= v
    BY <1>1
  <2>2. PICK x \in Nat, z \in Nat : x = Turns(y) /\ z = Turns(v) /\ x <= z
    <3>1. Turns(y) \in Nat /\ Turns(v) \in Nat /\ Turns(y) <= Turns(v)
      BY ONLY <2>1, y \in Nat, v \in Nat, PriceAdd
    <3> QED
      BY ONLY <3>1, Zenon
  <2> QED
    BY <2>2, SlowFast
<1>6. Fast(Load(f)) <= Fast(Load(g)) /\ Fast(Load(f)) \in Nat /\ Fast(Load(g)) \in Nat
  <2>1. f <= g
    BY <1>1
  <2>2. PICK x \in Nat, z \in Nat : x = Load(f) /\ z = Load(g) /\ x <= z
    BY <2>1, LoadAdd, LoadOrder
  <2> QED
    BY <2>2, SlowFast
<1>7. Fast(Load(k)) \in Nat
  BY LoadAdd, SlowFast
<1> QED
  BY <1>2, <1>3, <1>4, <1>5, <1>6, <1>7

\* Fewer polls are behind the oldest than are reported.
LEMMA SilenceBounds ==
  ASSUME Capacity, PortCapacity, CountCapacity, Paced, Reached, PollsUnderWay
  PROVE  SilenceIsReal
<1>0. TypeOK
  BY DEF Paced
<1>1. SUFFICES ASSUME ~owed, count > MaxPollingCount PROVE FALSE
  BY DEF SilenceIsReal
<1>2. PICK n \in Nat, z \in Nat, p \in Nat :
        n = count /\ z = MaxPollingCount /\ z < n /\ p = Polls(Line) /\ n <= p
  <2>1. count \in Nat /\ MaxPollingCount \in Nat
    BY <1>0, Naturals DEF TypeOK
  <2>2. count <= Polls(queue) + Polls(rx)
    BY <1>1 DEF PollsUnderWay
  <2>3. /\ Polls(queue) + Polls(rx) <= Polls(Line)
        /\ Polls(queue) \in Nat /\ Polls(rx) \in Nat /\ Polls(Line) \in Nat
    BY <1>0, PollsInLine
  <2> QED
    BY <1>1, <2>1, <2>2, <2>3
<1>3. PICK i \in PollsAt(Line) : i \in Nat \ {0} /\ p = 1 + After(Line, i)
  <2>1. Line \in Seq(Kind)
    BY <1>0, LineTyped
  <2>2. PollsAt(Line) # {}
    <3> SUFFICES ASSUME PollsAt(Line) = {} PROVE FALSE
      OBVIOUS
    <3>1. Polls(Line) = 0
      BY <2>1, PollsTyped, FS_EmptySet
    <3> QED
      BY <1>2, <3>1
  <2> QED
    BY <1>2, <2>1, <2>2, OldestPoll
<1>4. PICK a \in Nat, c \in Nat, h \in Nat, r \in Nat, f \in Nat, s \in Nat, u \in Nat, e \in Nat, y \in Nat :
        /\ y = Delays /\ y <= MaxFaults + MaxAlarms /\ a = Ahead(i) /\ c = Come(i) /\ h = After(Line, i) /\ r = Room /\ f = faults /\ s = Saved
        /\ u = Turn /\ u <= a /\ e = Load(h) /\ e <= c
        /\ r <= (2 + MaxFaults) * (SlaveCount + 1) + MaxCommands /\ f <= MaxFaults
  <2>1. Come(i) \in Nat /\ After(Line, i) \in Nat /\ i \in Nat
    BY <1>0, ComeTyped
  <2>2. Load(After(Line, i)) <= Come(i) /\ Load(After(Line, i)) \in Nat
    <3>1. Load(After(Line, i)) \in Nat
      BY <2>1, LoadAdd
    <3>2. Near \in Nat
      BY <1>0, SavedTyped
    <3> QED
      BY <3>1, <3>2 DEF Come
  <2>3. Turn <= Ahead(i) /\ Ahead(i) \in Nat /\ Turn \in Nat
    <3>1. Ahead(i) \in Nat /\ Turns(i) \in Nat /\ Work \in Nat /\ ToListen \in Nat
      BY <1>0, <2>1, AheadTyped
    <3>2. Turn <= Turns(i)
      <4>1. PICK o \in Nat, v \in Nat : o = 1 /\ v = i /\ o <= v
        BY <1>3
      <4>2. Turns(o) <= Turns(v)
        BY <4>1, PriceAdd
      <4>3. Turns(1) = Turn
        BY PriceAdd
      <4> QED
        BY ONLY <4>1, <4>2, <4>3, Zenon
    <3>3. Turn \in Nat
      BY HearingUnits
    <3> QED
      BY <3>1, <3>2, <3>3 DEF Ahead
  <2>4. faults \in Nat /\ faults <= MaxFaults /\ Room \in Nat
    BY <1>0, RoomTyped DEF TypeOK
  <2>5. Room <= (2 + MaxFaults) * (SlaveCount + 1) + MaxCommands
    <3>1. PICK f \in Nat, g \in Nat, k \in Nat : f = faults /\ g = MaxFaults /\ g = f + k
      <4>1. MaxFaults - faults \in Nat /\ MaxFaults = faults + (MaxFaults - faults) /\ MaxFaults \in Nat
        BY <2>4, Naturals
      <4> QED
        BY <2>4, <4>1
    <3>2. Batches((2 + f) + k) = Batches(2 + f) + Batches(k) /\ Batches(2 + f) \in Nat /\ Batches(k) \in Nat
      <4>1. PICK b \in Nat, v \in Nat : b = SlaveCount + 1 /\ v = 2 + f
        <5>1. SlaveCount + 1 \in Nat /\ 2 + f \in Nat
          BY Naturals
        <5> QED
          BY <5>1, Zenon
      <4>2. (v + k) * b = v * b + k * b /\ v * b \in Nat /\ k * b \in Nat
        BY ONLY v \in Nat, k \in Nat, b \in Nat
      <4> QED
        BY ONLY <4>1, <4>2, Zenon DEF Batches
    <3>3. commands \in Nat /\ commands <= MaxCommands /\ MaxCommands \in Nat
      BY <1>0, Naturals DEF TypeOK
    <3>4. (2 + f) + k = 2 + g
      BY <3>1
    <3>5. Room = Batches(2 + f) + commands
      BY <3>1 DEF Room
    <3>6. Batches(2 + g) + MaxCommands = (2 + MaxFaults) * (SlaveCount + 1) + MaxCommands
      BY <3>1, Zenon DEF Batches
    <3>7. Room <= Batches(2 + g) + MaxCommands
      <4>1. PICK x \in Nat, y \in Nat, v \in Nat, w \in Nat :
              x = Batches(2 + f) /\ y = Batches(k) /\ v = commands /\ w = MaxCommands /\ v <= w
        BY <3>2, <3>3, Zenon
      <4>2. Room = x + v /\ Batches(2 + g) = x + y
        BY ONLY <3>2, <3>4, <3>5, <4>1, Zenon
      <4> QED
        BY <4>1, <4>2
    <3> QED
      BY ONLY <3>6, <3>7, Zenon
  <2>6. Saved \in Nat
    BY <1>0, SavedTyped
  <2>7. Delays \in Nat /\ Delays <= MaxFaults + MaxAlarms
    <3>1. /\ faults \in Nat /\ faults <= MaxFaults /\ alarms \in Nat /\ alarms <= MaxAlarms
          /\ MaxFaults \in Nat /\ MaxAlarms \in Nat
      BY <1>0, Naturals DEF TypeOK
    <3> QED
      BY ONLY <3>1 DEF Delays
  <2> QED
    BY ONLY <2>1, <2>2, <2>3, <2>4, <2>5, <2>6, <2>7, Zenon
<1>5. Slow(a) + s + Fast(c) <= Slow(Limit) + Fast(Load(f))
  BY <1>3, <1>4, Zenon DEF Reached
<1>6. Slow(u) <= Slow(a) /\ Fast(e) <= Fast(c)
  BY <1>4, SlowFast
<1>7. Slow(Limit) = Slow(Price(r)) + Slow(u) + Slow(Turns(y))
  <2>1. PICK x \in Nat, o \in Nat : x = Price(r) /\ o = Turns(y)
    BY PriceAdd
  <2>2. Turns(1 + y) = u + o
    <3>1. 1 \in Nat
      OBVIOUS
    <3>2. Turns(1 + y) = Turns(1) + Turns(y) /\ Turns(1) = Turn
      BY <3>1, PriceAdd
    <3> QED
      BY ONLY <1>4, <2>1, <3>2, Zenon
  <2>3. Slow(x + (u + o)) = Slow(x) + Slow(u + o)
    <3>1. PICK v \in Nat : v = u + o
      OBVIOUS
    <3>2. Slow(x + v) = Slow(x) + Slow(v)
      BY SlowFast
    <3> QED
      BY ONLY <3>1, <3>2, Zenon
  <2>4. Slow(u + o) = Slow(u) + Slow(o)
    BY SlowFast
  <2>5. Slow(x) \in Nat /\ Slow(u) \in Nat /\ Slow(o) \in Nat
    BY SlowFast
  <2>6. Limit = x + (u + o)
    BY ONLY <1>4, <2>1, <2>2, Zenon DEF Limit
  <2> QED
    BY <2>1, <2>3, <2>4, <2>5, <2>6
<1>8. Slow(Price(r)) + Slow(Turns(y)) + Fast(Load(f)) < Fast(Load(z))
  BY <1>2, <1>4, CountUnits
<1>9. ~(z <= h)
  <2> SUFFICES ASSUME z <= h PROVE FALSE
    OBVIOUS
  <2>1. Fast(Load(z)) <= Fast(e)
    <3>1. PICK v \in Nat : v = Load(z) /\ v <= e
      BY <1>4, LoadAdd, LoadOrder
    <3> QED
      BY <3>1, SlowFast
  <2>2. PICK x1 \in Nat, x2 \in Nat, x3 \in Nat, x4 \in Nat, x5 \in Nat, x6 \in Nat, x7 \in Nat, x8 \in Nat :
          /\ x1 = Slow(a) /\ x2 = Slow(u) /\ x3 = Fast(c) /\ x4 = Fast(e)
          /\ x5 = Slow(Price(r)) /\ x6 = Slow(Turns(y)) /\ x7 = Fast(Load(f)) /\ x8 = Fast(Load(z))
    <3>1. Price(r) \in Nat /\ Turns(y) \in Nat /\ Load(f) \in Nat /\ Load(z) \in Nat
      BY PriceAdd, LoadAdd
    <3>2. Slow(Price(r)) \in Nat /\ Slow(Turns(y)) \in Nat /\ Fast(Load(f)) \in Nat /\ Fast(Load(z)) \in Nat
      BY <3>1, SlowFast
    <3>3. Slow(a) \in Nat /\ Slow(u) \in Nat /\ Fast(c) \in Nat /\ Fast(e) \in Nat
      BY SlowFast
    <3> QED
      BY ONLY <3>2, <3>3, Zenon
  <2>3. x1 + s + x3 <= (x5 + x2 + x6) + x7 /\ x2 <= x1 /\ x4 <= x3 /\ x5 + x6 + x7 < x8 /\ x8 <= x4
    BY ONLY <1>5, <1>6, <1>7, <1>8, <2>1, <2>2, Zenon
  <2> QED
    BY ONLY <2>3, x1 \in Nat, x2 \in Nat, x3 \in Nat, x4 \in Nat, x5 \in Nat, x6 \in Nat, x7 \in Nat,
            x8 \in Nat, s \in Nat
<1>10. n <= 1 + h
  BY ONLY <1>2, <1>3, <1>4, Zenon
<1> QED
  BY ONLY <1>2, <1>9, <1>10, n \in Nat, z \in Nat, h \in Nat

\* "no response" is reported only of a board that left a poll unanswered: where
\* kMaxPollingCount polls take longer to come than any packet waits to be heard,
\* their count is back at 0 in time, whatever is queued or in the port before them.
THEOREM SilenceMeansSilence ==
  ASSUME Capacity, ClockInReach, PortCapacity, CountCapacity
  PROVE  Spec => []SilenceIsReal
<1>1. Init => Paced /\ Heard /\ Notified /\ Written /\ Reached
  BY PacedInit, HeardInit, NothingOnItsWay DEF Reached
<1>2. /\ Paced /\ Heard /\ Notified /\ Written /\ Reached /\ [Next]_vars
      => Paced' /\ Heard' /\ Notified' /\ Written' /\ Reached'
  <2> SUFFICES ASSUME Paced, Heard, Notified, Written, Reached, [Next]_vars
               PROVE  Paced' /\ Heard' /\ Notified' /\ Written' /\ Reached'
    OBVIOUS
  <2>1. Paced' /\ TypeOK /\ TypeOK'
    BY PacedStep, TypedStep DEF Paced
  <2> QED
    BY <2>1, HeardStep, NotifiedStep, WrittenStep, ReachedStep
<1>3. Paced /\ Reached /\ PollsUnderWay => SilenceIsReal
  BY SilenceBounds
<1>4. Spec => []PollsUnderWay
  BY CountedUnderWay
<1> QED
  BY <1>1, <1>2, <1>3, <1>4, PTL DEF Spec

=============================================================================
