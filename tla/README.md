# Formal model of the IoT gateway

TLA+ modules, TLC configurations and TLAPS proofs for the gateway under `src/src` and
`src/include`: a C++ program that sits between an MQTT broker and a *master board* on a
serial line. Slaves (sensors and actuators of a plant) hang on the master board. Line
numbers below are of the repository's files; `GM` is `src/src/gateway/gateway_manager.cpp`.

## 1. Inventory

`main` (`src/src/main.cpp`) opens an in-memory log, then `run` asks the master board for its
id and its slaves, retrying every 2 s; only then does it create the MQTT client, detach the
writer thread, and enter the main loop: one `loop()` of the MQTT client, a poll every 7 s, a
temperature request per slave every 15 s, one packet from the board, a sleep of 500 ms.

| Component | State | Operations | Interacts with |
|---|---|---|---|
| Outbound queue, writer (`Polling`, `RequestTemperature`, `on_message`, `WritePacket`) | queue of raw packets, mutex, condition variable | push from three handlers of the main thread; wait, pop, write, log, sleep on the writer | shared memory between two threads; serial port |
| Set-up (`SetupMasterId`, `SetupSlaveIds`) | `MasterBoard`: id, slave count, array of slave ids | request, sleep 500 ms, take what is in the receive buffer; retry | board, over the serial line |
| Framing (`ReceivePacket`, `ResponsePacket`) | receive buffer of the port | look for the start byte, read header, body, tail; checksum | set-up and main loop |
| Dispatch (`ListeningMaster`, `ParseCommand`, `Parse*`, `Publish*`) | count of unanswered polls | route by command and memory address, publish | framing, MQTT client |
| Main loop (`run`) | time of the last poll and temperature request | a turn: MQTT, timers, pushes, one packet, sleep; or reconnect and sleep | all |
| MQTT session (`MQTTManager` on the mosquitto client) | socket, state, outgoing packets, ping, times of the last packet in and out | connect, subscribe in `on_connect`, publish, `loop`, `Reconnect` | broker, over TCP |
| MQTT parsing, request packets (`ParseMqttMessage`, `RequestPacket`) | none | JSON to the bytes of a request | outbound queue |
| Log, database | SQLite handle | one insert per event; throws on failure | both threads |
| Port discovery (`master_config.cpp`) | port name | never called | set-up |

What is hard, and what each part has to get right:

* **Queue.** The writer keeps the mutex while it writes, logs and sleeps 500 ms; one of the
  three producers never notifies; a write may time out; an exception on either thread ends
  the process. Right means: packets reach the board at most once and in order, none is left
  behind a sleeping writer, the main thread is not starved.
* **Set-up.** No answer is compared with its request, so answers that come late are taken for
  answers to something else. Right means: the id and the slaves are the board's, a retry
  repairs what went wrong, nothing past the end of a packet is read.
* **Framing.** There is no escape for the start byte and no inter-frame gap: after a start byte or a
  length is changed, or any byte lost, the search for the start goes on inside other frames. Right
  means: where the place is kept only what the board sent is accepted and one bad byte costs one frame;
  where it is lost, a silence gives it back.
* **Dispatch.** Right means: what the server is told follows from the packet that came, and a
  silent board is reported.
* **Session.** One thread keeps the session alive and also waits for the serial port and for
  the mutex; one packet is read a turn; subscriptions hang on a callback; the results of
  `publish` and `reconnect` are ignored. Right means: every connection starts with its CONNECT,
  none is up and deaf, a dead link is noticed, a good one is kept, faults are recovered from.
* **Time and capacity.** The writer sends two packets a second, the loop hears two a second;
  temperature requests come in bursts that nobody notifies the writer of; the timers subtract
  unsigned readings of a clock that can be set. Right means: queues stay short, turns end,
  timers fire, and a board is called silent only if it was.
* **Ingress.** Numbers of a message are cut to bytes, a length decides whether its data is sent
  at all. Right means: the board reads what the message asked for.
* **Shutdown.** A detached thread on a dying stack frame: undefined behaviour, not modelled.

## 2. Modules

| Module | Models |
|---|---|
| `OutboundFifo` | abstract: one line of packets to the board |
| `PacketQueue` | the queue with both threads; implements `OutboundFifo` |
| `PacketQueueProofs` | its safety theorems, and over `CommandPath` that the board reads the bytes asked for |
| `ByteSums` | the checksum of both kinds of packet: bytes added up in a `uint8_t` |
| `ByteSumsProofs` | that one changed byte always changes it |
| `MqttIngress` | from a message of the server to the bytes of a request |
| `MqttIngressProofs` | that no two documented messages become the same bytes, and that every message becomes the frame it asks for |
| `CommandPath` | composition: what `MqttIngress` makes goes through `PacketQueue` |
| `MasterSetup` | the set-up dialogue |
| `MasterSetupProofs` | its safety theorems |
| `Receive` | `ReceivePacket`, byte by byte |
| `ReceiveProofs` | its type, what is accepted, what a hit byte costs and that a silence ends it |
| `Dispatch` | from a received packet to what is published |
| `DispatchProofs` | its type, and that success is never reported falsely |
| `MqttSession` | `MQTTManager`, the client library, the connection, the broker's side |
| `MqttSessionProofs` | its safety theorems |
| `MainLoop` | the main loop against the writer, in time |
| `MainLoopProofs` | its type, the bounds of queue, port, turns and timers, where the counted polls are, and that silence is real |
| `MC*` | instances for TLC (constants that a `.cfg` cannot write) |

Each module has `Mutant of ...` operators next to some actions: a plausible bug in that very
piece of code, used to confirm that a property fails when the code is wrong. They are not part
of `Next`.

### PacketQueue

`main` and `writer` are the two program counters; one step is one operation on shared state.
A handler of the main thread is `Enter` with the packets it will push, then `MainLock`,
`MainPush`, `MainUnlock` per packet (`RequestTemperature` locks anew for each slave), and
`MainNotify` if it notifies. The writer is `WriterLock`, `WriterTest` (the predicate of
`wait`, which releases the mutex in the same step it blocks), `WriterTake` (front and pop),
`WriterWrite`, `WriterRelease`. `Blank` is the empty vector that `MakePacket` returns for a
message it cannot parse, and that `on_message` pushes nevertheless; writing it sends nothing.
`Faults` chooses which failures happen: `timeout` (a write gives up after 20 s; its byte count
is not looked at), `device` (the port throws), `log` (an entry throws). An exception ends both
threads at once. The order in which the main loop calls its handlers is left open: it is a
superset of what the timers allow.

The refinement maps the line of `OutboundFifo` to `wire \o InHand \o queue`: the packets in
the driver, the one in the writer's hand, and the queue.

### MqttIngress and CommandPath

`ParseMqttMessage` takes what the JSON parser makes of a text (its shape, and the numbers and
the list of an object) and gives the code's result and the bytes `RequestPacket::Packet` lays
out: header, address and list if the header announces data, checksum, end. `CommandPath` puts
those bytes into `PacketQueue` as its commands and reads them on the other side. `Asks` says,
without the helpers of `MqttIngress`, what frame the board should read. Things the run and the
code agree on and a user of the broker may not expect: numbers are cut to a byte, so that
target 273 addresses slave 17; the topic a message came on is not looked at; with a length of 0
the list *and the address* are dropped; a length that disagrees with the list goes out as it is.

### MasterSetup

`step` says what `run` is setting up, `mode` whether it sends or receives next. The board
answers requests in order; an answer may be damaged or lost, or the gateway may give up before
it comes (`late`). `rx` holds answers whole, with a flag for an intact checksum: framing is the
business of `Receive`. `Usable` is a valid checksum and a body `ReceivePacket` takes. What
reading past the end of a vector yields is any of `HeapByte`; a vector without memory ends the
process (`crashed`).

### Receive

The board sends frames, bytes move one by one from `air` into the receive buffer, and at most
one byte on the whole run is changed (to a member of `Noise`) or lost, *any* byte of any
frame, the length and the start included. `ReadStart`, `ReadHeader`, `ReadBody` and `ReadTail`
are the reads of `ReceivePacket`, with its failures. A read that wants more than there is
waits, and gives up only while the board sends nothing; a reader that gives up while more is
to come is thus covered (the next frame may be sent at any later time). Any byte of a header
or of a body counts as success in the code; the rest is zeros.

`calm` and `before` are history: how much had been sent and accepted when a frame was last sent on
a line that was `Quiet`. The properties speak of what happened since. They tell two kinds of hit
apart: a changed byte that is no start and no length leaves `ReceivePacket` in its place
(`HitStaysInFrame`); any other may make it lose it (`LostPlace`).

### Dispatch

One packet at a time, with everything `ParseCommand` looks at: command, address, error code,
data. `published` is what the handler published, in order. It is the release build; code
under `#ifdef DEBUG` is left out. `Decoded` does the arithmetic of `PublishTemperature` in
tenths. Exceptions of the log are left to `PacketQueue`.

### MqttSession

`pc` is the place of the main thread in a turn: `LoopNoConn`, or `LoopRead` (one packet, since
nothing has QoS above 0), `LoopWrite`, `LoopMisc`/`LoopPing`/`LoopKeepaliveLost` are one
`mosquitto_loop`; then `PublishTopic` and `Block` (the board and the mutex take their time), or
`Reconnect`; then `Sleep`. The state of the library is what those functions read: socket, state,
queue of packets, `ping_t` and the times since a packet came and since one was sent. The
connection is two queues and a flag: `up`, `cut` (dead, and nobody knows), `shut` (by the
broker; what had not arrived is lost). The broker accepts, refuses, subscribes, answers pings,
drops a client that was idle for one and a half keepalives, publishes, and closes. The last
stands for a restart, a reset, and another gateway: all of them connect with the same
`CLIENT_ID` (`mqtt_config.h` 11), so that two gateways on one broker evict each other for ever.

Time passes only while the thread blocks or sleeps (`Passes`), and not before the broker has served
what reached it. `select`, with which a `mosquitto_loop` begins, waits up to a second when its
socket has nothing to read (`SelectWaits`, `loop.c` 100-138); the model counts that wait with the
sleep it follows, so that `LoopRead` and `LoopReadNothing` themselves take no time. A turn is then
at most `LongTurn`: what the port or the mutex takes (`Patience`), the sleep and the wait. Two
things the model makes visible: the packet `on_disconnect` wants to publish ("dis/1") is never sent,
because the library has closed the socket before it calls back; and `loop()` succeeds, so that
packets of the board are handled and published, before the broker has said CONNACK (`ConnectFirst`
holds because TCP keeps their order).

The mosquitto library is found through `pkg-config` by the build; its vendored copy is taken for
its source.

### MainLoop

The unit is the half second that both threads sleep. `Tick` lets time pass when the main thread
waits (in `select`, in its sleep, for the mutex) and the writer holds the mutex or waits for a
notify. A turn is `Select`, `OnMessage` or not, `ReadClock` (once; what is due goes into `todo`), one
push per packet, `Listen`, sleep. `Write` takes the front of the queue and holds the mutex for a
unit; the board answers at once or not at all. `Emergency` is what it reports unasked, at any time: such a
packet waits in the same port as the answers and costs the main thread a turn of its own (what is
published for it is in `Dispatch`). `PacketQueue` has the same two threads in single
steps and without time; here a push is one step, and `busy` is what the main thread waits for.
The mutex is fair to neither side: when it is free both may go first. The system clock is only
seen through the differences `pollDiff` and `tempDiff`; `SetClock` moves both, and `Elapsed` is
the subtraction of unsigned longs (the documented targets have 64 bits).

`sincePoll`, `sinceTemp`, `turnAge` and `owed` are history: they are read by properties only.

## 3. Runs

| Run | Question | Bounds |
|---|---|---|
| `queue` | safety of the queue, FIFO refinement, the bytes of the commands | 4 messages of which 2 parse, 2 slaves, queue up to 5, driver of 2, 1 spurious wakeup, exceptions |
| `queue_live` | does everything move, does a push return | 2 messages of which 1 parses, 2 slaves, queue up to 3, driver of 1, write timeouts |
| `setup` | safety of the set-up, and its end | 2 slaves, array of 3, at most 3 answers outstanding |
| `setup_late` | violated: is the slave count the board's? | the code's 127 and 129 |
| `setup_no_port` | violated: does the process stay up? | the port name as it is |
| `dispatch` | success reports, silence reports | both ends of every memory range and their neighbours, five lengths of data, limit of 2 polls instead of 10 |
| `dispatch_temperature`, `dispatch_default`, `dispatch_runtime` | violated: see findings | the same addresses, the code's limit of 10 |
| `receive` | framing under one bad byte | 4 frames of 3 payloads that hold 35, 1, 2 and 7, bodies up to 7 instead of 129, noise 1 and 35 |
| `session` | what the session sends and hears, when a dead link is noticed, that a good one is kept, recovery | 2 topics, keepalive 7, turns of 1 to 3 units or one of 14 or 15, 2 unread packets, 3 faults |
| `main_loop` | queues, port, turns, timers and the report of silence, in time | 1 slave, polls every 4 and temperatures every 9 half seconds, limit of 9 polls, `ULONG_MAX` of 255, steps of the clock of -100, -3 and 5, 1 fault, 1 command, 1 emergency |

Why these are enough: `MaxQueue` bounds only the *start* of a handler, so that a queue is seen
empty, with one packet, and with several of every kind, and `RequestTemperature` pushes twice with
the writer in between. With two slaves and an array of three, a count can be right, too small, too
large for the array, and zero. `BoardIdHigh = 0` in `setup` is the case in which a late answer asks
for no ids at all, and the answer without data is reached. In `dispatch` the polling count is capped
one above the value from which it is reported; below and above the cap the code does the same. In
`receive` the payloads are those that mislead: the temperature 29.1 has a start byte as its low
byte, so that a lost start byte makes a header of its last bytes and the next frame; the numbers of
the slaves and the 7 of the memory address get to where a length is read when a byte is missing,
which gives bodies of one byte (the process ends), of two, and of seven bytes that swallow most of
the frame after; 35, 39, 160 and 193 are over the limit; and 247 makes a sum that fits a frame
nobody sent. The fourth frame shows that the gateway is back. The messages of `queue` are the
example in `ParseMqttMessage` (whose sum overflows a byte), one with a length of 0, a list all the
same and a number over 255, and two that fail. In `session` three faults are enough for one to hit
the recovery from another (a refused connection after a cut link, say); the slow turn is longer than
a keepalive and than the grace of the broker; the backlog lets a PINGRESP queue behind commands. In
`main_loop` a period of temperatures spans two polls, as in the code (15 s and 7 s); one slave is
what `PortCapacity` allows there, and nine polls is what `CountCapacity` asks for, so that all the
capacities hold of the instance (`InstanceFits`); the clock is set forward by more than a poll's
period, back by less than one, and back by more than any interval; 255 is beyond every difference
that occurs, as 2^64 - 1 is (`ClockInReach`). `MaxFrames`, `MaxLate`, `MaxWire`, `MaxSpurious`,
`MaxQueue`, `MaxBacklog`, `MaxFaults`, `MaxAlarms` and `MaxCommands` are bounds of the model, not of
the code.

`CHECK_DEADLOCK FALSE`: the process ends after an exception (`queue`), the set-up is over
(`setup`), the frames are all sent (`receive`), or the code crashed (`dispatch`).

What passes:

* `MutexInv`, `LockedAccess`: the lock is held where it has to be, and the queue changes only
  under it.
* `FrontIsSafe`, `NoStrandedPacket`: no pop from an empty queue; no lost wakeup for commands
  and polls. Temperature requests *can* lie behind a sleeping writer, until the next poll.
* `BoardReadsCommands`: every command on the wire is, byte by byte, what the JSON of some message
  asks for, through parsing, the queue and the driver; a message that fails sends nothing.
* `IsFifo`, `FifoMoves`, `HandlerReturns`: see section 4 for the fairness of the last two.
* `MasterIdRight`: nothing but the id is asked for until it is known, so even late answers are
  answers to the right question. `SlavesRight`, `NoCrash`: only a late answer can break the
  slaves; lost and damaged ones cannot. `SetupCompletes`: stale answers that are still in the
  buffer when the line gets better are used up.
* `SuccessIsTrue`: a write is reported as done only for an undamaged `kOK` answer of that slave
  about that actuator's memory. `SilenceReported`.
* `OnlySentAccepted`: while `ReceivePacket` has its place nothing is accepted that was not sent, and
  all in the order it was sent; a hit that makes it lose its place changes nothing in what is accepted of
  the frames before. What it accepts from there to the next silence nobody vouches for: the checksum is a
  sum of eight bits, and among the frames put together from the middle of others one in 256 fits. The run
  reaches such frames and accepts some. `DamageIsContained`: a silence heals; a lost place can cost the
  frames that follow without a pause, and none before the hit or after the pause. `SurvivesNoise`: a body
  of one byte ends the process (`response_packet.cpp` 12: `vector::assign` throws); it is read only where the place is lost.
  With payloads that hold the start byte this needs no noise, only one lost byte.
* `OnlyHitFrameLost`: as long as the start byte, the length and the number of bytes of the hit frame
  survive, the gateway accepts every other frame and never loses its place: exactly the hit frame is
  lost, or none if it was its end byte, which nobody looks at.
* `ConnectFirst`: the stream of every connection starts with its CONNECT and has no other, so
  nothing of an old session (the subscriptions of a refused one, a message the socket did not
  take, the "disconnect") leaks into a new one. `NeverDeaf`: a connection the library calls
  active is subscribed to every topic or about to be.
* `CutNoticed`: without slow turns a link that died in silence is noticed within two keepalives,
  each seen up to a turn late, and a turn per packet still unread (the commands, an answer to each
  subscription, one to a ping), although every publication on it succeeds and puts the next ping off.
* `HealthyKept`: on a good link only a fault or a slow turn ends the session. It rests on
  `KeepsPace`: one packet is read in a turn, so the answer to a ping waits behind the commands
  before it, and behind the answers to the subscriptions at the start. With the code's numbers (a
  keepalive of 20 half seconds, a sleep of one, a `select` of up to two, eight topics) and half a
  second a turn for the board and the mutex, a turn takes up to four: there is room for one unread
  command (`CodeKeepsPace`). That is sufficient, not necessary, since `select` does not wait when
  there is something to read: in the instance TLC finds the session lost with two commands more than
  `KeepsPace` allows. A turn longer than half a keepalive can cost the session by itself; with the
  code's numbers (10 s) that is a read that waits 20 s for the serial port, or `RequestTemperature`
  that loses the mutex to the writer for some ten packets.
* `Recovers`: after the last fault the gateway gets connected, subscribed to everything, and stays.
* `BacklogBounded`, `TurnBounded`: temperatures are pushed without a notify and wait for the next
  poll, so a backlog can hold two periods, and more after a step of the clock or a lost connection
  (each lets a burst come early); not more (`MostQueued`). A turn ends when the writer has nothing
  left to hold the mutex for. Its bound `LongestTurn` counts a full queue *and* the packets the turn
  pushes itself: the writer may take one between any two of them. The bound promises nothing to the
  MQTT session: with the code's numbers and five slaves it is 22 half seconds, and the keepalive is
  20. A full backlog is one of the slow turns that `HealthyKept` excepts. All this is so while a
  period holds its packets, which is `Capacity`: with the code's numbers (polls every 7 s,
  temperatures every 15 s, a packet in half a second) up to 28 slaves; from there on the queue grows
  without bound.
* `RxBounded`: one packet is heard a turn, so what the board answers, and the emergencies it reports
  unasked, stay in the port for as long as it takes. More can pile up than the queue ever holds
  (`MostUnheard`): nothing is heard while the pushes of a turn lose the mutex to the writer, and the
  timers go on in that time, which is good for a packet more for every turn's worth of writes; a
  turn that looked into the port just before the answer came, and each turn without a connection,
  heard nothing either, and each emergency takes the turn of an answer. It is bounded while a period
  leaves the main thread a turn for each answer and the half second in which it waits for the mutex
  (`PortCapacity`). That is far less than what suits the writer: if `select` always takes its full
  second, it is up to 5 slaves with the code's numbers.
* `TimersFire`: however far the clock is set back, the difference wraps and the poll comes at once,
  or the interval at most doubles; forward, a poll comes early. Each fault (a step of the clock, a
  turn without a connection) costs at most one more interval and one more turn.
* `PollsUnderWay`: while no poll was left unanswered, every poll that is counted as unanswered is still
  in the queue, or its answer in the port.
* `SilenceIsReal`: "no response" means that a poll was left unanswered since the last answer to one
  was heard, though polls count when they are queued and their answers wait behind others. What may
  wait must be heard in less time than the counted polls take to come (`CountCapacity`), emergencies
  included; with ten polls of 7 s, five slaves, a fault, a command and seven emergencies it is (`CodeFits`),
  and in the instance that TLC checks too.

What is violated, and says something about the code (`findings` in `PROJECT.json`):

1. A late answer for the master id becomes the number of slaves (GM 603, comment at GM 581).
2. The serial port name is empty, so the program ends at its first write (`master_config.h` 19).
3. The published temperature is not the documented one (GM 205-217, comment at GM 195-204).
4. An emergency of a fan is reported as unhandled as well (GM 354, missing return).
5. The runtime of a short emergency is read past the end of its data (GM 380-390).

## 4. Fairness

* `PacketQueue`: both threads run (`WF` on the steps of each), and the board reads. The mutex
  is only weakly fair: `std::mutex` promises nothing to a thread that waits. That the main
  thread still gets it follows from the code: only it pushes, so the writer runs out of packets
  and waits. `Polling` is strongly fair: the main loop comes to it however many messages were
  delivered before, as long as the MQTT client stays connected; without a connection neither
  polls nor the notify they bring happen, and `FifoMoves` is not promised.
* `MasterSetup`: the gateway goes on; the board answers or the answer is lost. `SetupCompletes`
  has the hypothesis that from some point on no answer is lost, damaged, or given up.
* `Dispatch`: a handler runs to its end (`WF`); `Polling` as above (`SF`).
* `MqttSession`: the main thread runs (`WF`; nothing in the code stops it but an exception), and
  the broker serves what reached it (`WF`). Whether the broker publishes, refuses, resets, drops
  or gets cut off is its own affair and not fair; such faults are at most `MaxFaults`, which is
  the hypothesis of `Recovers`: once they are over. `BrokerDrops` needs no fairness because
  no property waits for it.
* `Receive` and `MainLoop` have no liveness property. `MainLoop` says in time
  what liveness would say without (`TurnBounded`, `TimersFire`), and deadlock is checked; no cycle of
  its steps is free of a `Tick`.

## 5. Proofs

For all values of the constants that satisfy the named assumptions, checked by TLAPS:

* `PacketQueueProofs`: `TypeOK`, `MutexInv`, `FrontIsSafe`, `NoStrandedPacket` are invariants,
  `LockedAccess` holds of every step, and `Spec => IsFifo`: the queue implements
  `OutboundFifo`. The inductive invariant is their conjunction with `HandlerInv`, which ties
  what a handler has left to push to where it is: without it a handler could be in `push` with
  nothing to push, and a handler about to notify could not be told from one that will not.
  `FrontIsSafe` needs `MutexInv`: nobody takes a packet between the predicate and the pop,
  because only the owner of the mutex gets there. The refinement goes action by action:
  `MainPush` is `Accept`, `BoardReads` is `HeadLeaves`, a timeout or a blank write is a `Drop`,
  all else stutters.
* `MasterSetupProofs`: `TypeOK`, `MasterIdRight`, `SlavesRight`, `NoCrash`. Two strengthenings:
  `OnlyIdAsked` (until the id is known, everything asked or received concerns the id) gives
  `MasterIdRight`; `InStep` (without a late answer at most one request or answer is under way,
  and it is that of the present step) gives the other two. That the ids fit their array rests on
  `kMaxDataLength = kMaxSlaveCount + 2`, which the code has as 129 and 127 in two places.
* `MqttSessionProofs`: `TypeOK`, `ConnectFirst`, `NeverDeaf`. A step either leaves a connection as it
  is and only makes its stream grow at the end, or ends it, or starts a new one; `ConnectFirst` is
  then inductive with the type. `NeverDeaf` needs `NotYet` (until the broker has accepted, the
  library does not call the session active and nothing has come down) and is proved as
  `HearsAll`: a topic is covered if it is subscribed or its SUBSCRIBE is anywhere in the stream,
  and packets only move along the stream into the subscriptions.
* `DispatchProofs`: `TypeOK` and `SuccessIsTrue`, whatever a packet carries and whatever a read past
  its end yields. The strengthening `Unpublished` says that while a packet is being handled
  nothing of it has been published; so what a handler publishes is judged against the packet it
  has. The rest is that no other topic looks like a report of success.
* `MqttIngressProofs`: `NothingLost`: messages of the documented form whose bytes are equal ask for the
  same thing; it does not need the value of the checksum. `FramesAsAsked`: *any* message, with numbers
  of any size and a list of any length, becomes nothing or exactly the frame that `Asks` describes,
  which adds up wide integers where the code adds to a byte. With it `PacketQueueProofs` has
  `BoardReadsAsked`: what is on the wire are those frames (`NoBlank`: the empty packet of a message that
  does not parse is never sent; `CommandsAreAsked`: every command in the queue or in hand is asked for).
* `ByteSumsProofs`: `OneByteShows`: sequences that differ in one byte have different sums. The sum
  is a recursive function; what it holds after `n` steps is shown for the set of those `n` for which
  it is so, whose least missing number would have a predecessor that is not missing.
* `ReceiveProofs`: `TypeOK`, `OnlySentAccepted`, `DamageIsContained`, `OnlyHitFrameLost` and
  `SurvivesNoise`, for any payloads, any number of frames, any noise and any place of the hit;
  nothing is left to the bytes a run chooses. The invariant (`InStep`) has two cases. Either there
  is a place the gateway is in step with (`Somewhere`): since the line was last quiet it is done
  with `k` frames and `c` bytes into the line, the start of every frame is known, every byte is as
  it was sent but the hit one, and what it accepted are those `k` frames without the hit one. That
  the hit frame itself is refused is `OneByteShows`. Or a hit made it lose its place (`Astray`):
  then all that it should have accepted before is there, and packets are only ever added.
  `HitInStep` and `LoseInStep` say which hit leads where, `ResetInStep` that a silence leads back.
  `Past` carries `OnlyHitFrameLost`, which speaks of the whole run, across the silences.
* `MqttSessionProofs` also has `CutNoticed`. It takes three invariants: `Backlog` (at most one ping or
  its answer is under way; the subscriptions still to be answered are next to each other), from which
  `Unread` bounds what a cut leaves to be read, and `Clock`: the time the link has been cut and the
  time the gateway may still take (`Left`, by where the thread is, whether a ping is out, and the
  packets to read) add up to no more than the bound. Every passage of time takes from `Left` what it
  adds to the age; every ping and every packet read is paid for.
* Its largest result is `KeptWhenHealthy`: under `KeepsPace` the specification implies `HealthyKept`. On
  a good link nothing is lost, so `Order` can say that a ping the gateway waits for, or the answer to
  it, is on its way in one of the streams. `Timely` counts, for each answer that waits to be read,
  a turn for each packet ahead of it (`DueBy`), and says that it is read before the keepalive
  (for the subscriptions, before two) has run out; `Young` covers the beginning, when the
  subscriptions are still being written and nothing can be overdue. `Content` is the broker's side: it
  hears something before its patience ends, since a gateway that has nothing to say pings. The three
  are inductive only together (`InTime`), and only while the session is good (`Good`).
* `MainLoopProofs`: `TypeOK` and `PollsUnderWay` for every value of the constants; `BacklogBounded`,
  `TurnBounded` and `TimersFire` under `Capacity` (a period of temperatures leaves the writer time for
  its packets) and `ClockInReach` (the clock is not set so far that a difference wraps all the
  way round). Both are what the claims rest on in the code, and the instance that TLC checks satisfies
  them (`InstanceFits`). The inductive invariant is `Paced`. Its core, `Covered`, is a leaky bucket: a
  packet costs `PollEvery + 1` and the passing of a unit earns, for as long as a timer is not due,
  1 for the next poll and `PollEvery` for the next temperatures; what is queued, to be pushed or
  being written, plus what has been earned, stays within the room. While the writer waits nothing is
  served, so `Unnotified` says separately what can lie there: the temperatures of one period and those
  that a fault let come early, since the next poll wakes the writer; for this `Ordered` keeps track of which
  timer fires first. `TurnLong` adds up what a turn has taken and still may take, `Timely` relates
  the time since the last poll to the clock difference and to the faults that can have separated them.
* It also has `RxBounded`, under `PortCapacity`, and `SilenceIsReal`, under `PortCapacity` and
  `CountCapacity`. The invariant of the first, `Heard`, is a second bucket, of the main thread's
  time: what it may still take to push what is queued and to hear what was and will be answered
  (`Pending`: `HearingCost` for a packet not yet written, a turn for an answer or an emergency in
  the port, the rest of the present turn), plus what the timers have saved up for their next packets
  (`Saved`), stays within the room. A turn that hears nothing must not add to it: then the port was
  empty, and `Covered` says that the queue alone is within the bound. For the second, a place in the
  line of packets (port, queue, to be pushed) is followed: `Come` is the time the polls behind a
  poll took to come. `Written` says that a poll that is not yet written, with the time since it
  came, is within the room of the writer, and `Reached` the same of the time until it is heard and
  the room of the main thread. `Notified` serves `Written`: while the writer waits there is no poll
  in the queue, so time does not pass for one without service. If the count were over its limit,
  `PollsUnderWay` would put that many polls in the line, and the oldest would have `Come` above what
  `Reached` allows.

Model-checked only:

* Liveness (`FifoMoves`, `HandlerReturns`, `SetupCompletes`, `SilenceReported`, `Recovers`): the prover
  does not handle fairness and `ENABLED`.

## 6. Assumptions and limits

* Release build; a serial port that is configured (all runs but `setup_no_port`).
* `ReceiveAssumption` leaves out bodies of one byte: a body that is there begins with its two address
  bytes. `Capacity`, `PortCapacity`, `CountCapacity` and `ClockInReach` are hypotheses of theorems of
  `MainLoop`, and `KeepsPace` of the one about `HealthyKept`, not of the models. TLC evaluates them: on
  the instances, and all but `ClockInReach` on the code's numbers (`TheCode` in `MCMainLoop` and
  `MCMqttSession`).
* `PortCapacity`, `CountCapacity` and `KeepsPace` are sufficient and not claimed to be necessary:
  `select` returns early when the broker sends something, for one.
* `MasterSetup` takes answers whole; the bytes an over-long answer leaves behind are assumed to
  contain no start byte, so that the next `ReceivePacket` skips them.
* An exception ends both threads in one step. In the code the writer is detached and goes on
  using `run`'s locals while they are destroyed; this is undefined behaviour and not modelled.
* Time is modelled in `MqttSession` and `MainLoop`; elsewhere timers are "may happen at any turn"
  and sleeps are steps.
* `MqttSession`: a write on a cut link is taken by the kernel; that its buffer fills up (`EAGAIN`) is
  left out, `CutNoticed` counts from the last byte heard and does not depend on it. The broker
  looks for idle clients every 5 s, here at any time after the grace.
* `Receive`: one byte is hit in a run. Nothing is claimed of what is accepted between the loss of the
  place and the next silence, since an eight-bit sum cannot vouch for it, nor that the process survives it.
* `MainLoop`: emergencies (GM 88-90, 317-365) come at any time, at most `MaxAlarms` over the run; a
  board that reports more than the main thread can hear (two a second, or two in three seconds when
  `select` waits) keeps answers waiting for as long as it does, and `CountCapacity` has room for
  seven with the code's numbers.
* `MainLoop`: the board answers at once or never; late answers are the subject of `MasterSetup`.
  Lost connections come one turn at a time. Commands at two a second for ever would keep the
  writer busy for ever; `MaxCommands` bounds them. A message that does not parse costs the writer
  the same half second as a command.
* Not modelled: messages that are JSON but not the documented form (they trip assertions of
  rapidjson, or not, depending on `NDEBUG`); the log, which nothing reads and whose failures are
  in `PacketQueue`; text formatting beyond its outcome; the port discovery that nothing calls.
* Not modelled of the vendored libraries: all that the gateway does not use of them. `src/lib` holds
  SQLite, rapidjson, the whole of mosquitto (broker, plugins, TLS, bridges, QoS above 0) and a serial
  library, about 320,000 lines against some 1,700 of the gateway. What the gateway's behaviour rests on
  is modelled (`mosquitto_loop`, reconnecting, the keepalive on both sides, serial reads); a general
  SQL engine or JSON parser has no place in a model of this program, so the share of *all* lines
  under `src/` that the definitions stand for stays small whatever is added.

## 7. Plan

Done in this order: queue, set-up, framing, dispatch, their proofs; then session, ingress and
command path, main loop in time, and the proofs of session, dispatch and ingress; then the checksum,
framing under one hit byte, the bytes of the commands, the notice of a dead link, the bounds of the
main loop, that a good link is kept, and the bound of the port with the report of silence; then
emergencies in the port, `select` in the session's time, and framing for payloads that hold start
bytes and lengths. The proof of `RxBounded` corrected its bound: it used to be `MostQueued`, which
the small instance never exceeds and which is too small for others (thirty slaves, polls every 29
and temperatures every 99 half seconds). What could follow:

1. A refinement of `PacketQueue`'s two threads by `MainLoop`, so that the timed model inherits
   `IsFifo` instead of leaving order out.
2. `MqttSession` with two gateways on one `CLIENT_ID`, without a bound on evictions: what can still be
   promised.
3. `Lifecycle`: exceptions, unwinding and the detached thread, as far as outcomes can be told apart.
