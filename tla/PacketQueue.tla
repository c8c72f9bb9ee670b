----------------------------- MODULE PacketQueue -----------------------------
(***************************************************************************)
(* The outbound path of the gateway: the queue of raw packets that the     *)
(* main thread fills and the detached writer thread drains into the serial *)
(* port, with the mutex and the condition variable that guard it.          *)
(*                                                                         *)
(* The main thread pushes from three handlers: on_message (a command the   *)
(* server sent over MQTT), Polling, and RequestTemperature.  The first two *)
(* notify the condition variable after they unlock; RequestTemperature     *)
(* never does.  The writer (GatewayManager::WritePacket) keeps the mutex   *)
(* from the moment its wait returns until it has written the packet,       *)
(* logged it and slept.                                                    *)
(*                                                                         *)
(* Here any handler may run whenever the main thread is not in one; their  *)
(* order in the main loop is left open.                                    *)
(***************************************************************************)
EXTENDS Naturals, Sequences

CONSTANTS
  Commands,      \* the commands the server may send, by name
  SlaveIds,      \* slave_ids()[0 .. slave_count() - 1]
  Faults,        \* a subset of {"timeout", "device", "log"}
  MaxQueue,      \* bound: no handler is entered that would make the queue longer
  MaxWire,       \* packets the serial driver buffers before a write blocks
  MaxSpurious    \* bound: spurious wakeups of the condition variable

ASSUME QueueAssumption ==
  /\ SlaveIds \in Seq(Nat)
  /\ Faults \subseteq {"timeout", "device", "log"}
  /\ MaxQueue \in Nat
  /\ MaxWire \in Nat \ {0}
  /\ MaxSpurious \in Nat

VARIABLES
  running,   \* the process is alive
  mutex,     \* packet_queue_mutex_: "free" or the thread that owns it
  queue,     \* *packet_queue_
  main,      \* where the main thread is: "away" from the queue, or in a push
  todo,      \* the packets the handler still has to push
  notifies,  \* the handler calls notify_one when it has pushed
  writer,    \* where the writer thread is
  packet,    \* the writer's local variable: the packet it popped
  wire,      \* the packets in the serial driver, not yet read by the board
  spurious   \* spurious wakeups so far

mainVars   == <<main, todo, notifies>>
writerVars == <<writer, packet>>
vars == <<running, mutex, queue, mainVars, writerVars, wire, spurious>>

-----------------------------------------------------------------------------
(* The packets.  The empty vector MakePacket returns when the message does *)
(* not parse is pushed like any other packet: it is Blank.                 *)

PollingPacket == [kind |-> "polling", target |-> 255]
TemperaturePacket(s) == [kind |-> "temperature", target |-> s]
CommandPacket(c) == [kind |-> "command", target |-> c]
Blank == [kind |-> "blank", target |-> 0]

Slave == {SlaveIds[i] : i \in 1 .. Len(SlaveIds)}
Packet == {PollingPacket, Blank}
            \cup {TemperaturePacket(s) : s \in Slave}
            \cup {CommandPacket(c) : c \in Commands}

-----------------------------------------------------------------------------
Init ==
  /\ running = TRUE
  /\ mutex = "free"
  /\ queue = <<>>
  /\ main = "away"
  /\ todo = <<>>
  /\ notifies = FALSE
  /\ writer = "lock"
  /\ packet = Blank
  /\ wire = <<>>
  /\ spurious = 0

-----------------------------------------------------------------------------
(* The main thread.                                                        *)

\* A handler starts to push ps.  Only the bound can keep it from starting.
Enter(ps, notify) ==
  /\ running
  /\ main = "away"
  /\ main' = "lock"
  /\ todo' = ps
  /\ notifies' = notify
  /\ UNCHANGED <<running, mutex, queue, writerVars, wire, spurious>>

\* on_message: a command that parses is pushed as it is, any other as Blank.
OnMessage ==
  \E p \in {CommandPacket(c) : c \in Commands} \cup {Blank} :
    /\ Len(queue) < MaxQueue
    /\ Enter(<<p>>, TRUE)

\* Polling may always find one more place, so that the bound alone never
\* keeps the wakeup that drains a full queue from being sent.
Polling ==
  /\ Len(queue) <= MaxQueue
  /\ Enter(<<PollingPacket>>, TRUE)

\* Mutant of RequestTemperature: the loop over the slave ids runs once too often.
RequestTemperatureOnceMore ==
  /\ Len(queue) + Len(SlaveIds) < MaxQueue
  /\ Enter([i \in 1 .. Len(SlaveIds) + 1 |->
              TemperaturePacket(IF i \in DOMAIN SlaveIds THEN SlaveIds[i] ELSE 0)], FALSE)

RequestTemperature ==
  /\ SlaveIds # <<>>
  /\ Len(queue) + Len(SlaveIds) <= MaxQueue
  /\ Enter([i \in 1 .. Len(SlaveIds) |-> TemperaturePacket(SlaveIds[i])], FALSE)

\* Mutant of MainLock: the push is not guarded by the lock.
MainLockForgotten ==
  /\ running
  /\ main = "lock"
  /\ main' = "push"
  /\ UNCHANGED <<running, mutex, queue, todo, notifies, writerVars, wire, spurious>>

MainLock ==
  /\ running
  /\ main = "lock"
  /\ mutex = "free"
  /\ mutex' = "main"
  /\ main' = "push"
  /\ UNCHANGED <<running, queue, todo, notifies, writerVars, wire, spurious>>

MainPush ==
  /\ running
  /\ main = "push"
  /\ queue' = Append(queue, Head(todo))
  /\ todo' = Tail(todo)
  /\ main' = "unlock"
  /\ UNCHANGED <<running, mutex, notifies, writerVars, wire, spurious>>

\* Mutant of MainUnlock: the handler forgets notify_one.
MainUnlockNoNotify ==
  /\ running
  /\ main = "unlock"
  /\ mutex' = "free"
  /\ main' = IF todo # <<>> THEN "lock" ELSE "away"
  /\ UNCHANGED <<running, queue, todo, notifies, writerVars, wire, spurious>>

\* The end of the scope of the lock.  RequestTemperature locks anew for each
\* slave.
MainUnlock ==
  /\ running
  /\ main = "unlock"
  /\ mutex' = "free"
  /\ main' = IF todo # <<>> THEN "lock" ELSE IF notifies THEN "notify" ELSE "away"
  /\ UNCHANGED <<running, queue, todo, notifies, writerVars, wire, spurious>>

\* notify_one: it is lost on a writer that is not blocked.
MainNotify ==
  /\ running
  /\ main = "notify"
  /\ main' = "away"
  /\ writer' = IF writer = "wait" THEN "lock" ELSE writer
  /\ UNCHANGED <<running, mutex, queue, todo, notifies, packet, wire, spurious>>

\* An exception on the main thread, from a log entry or from reading the
\* serial port, ends run() and with it the process.
MainThrows ==
  /\ running
  /\ main = "away"
  /\ Faults \cap {"device", "log"} # {}
  /\ running' = FALSE
  /\ UNCHANGED <<mutex, queue, mainVars, writerVars, wire, spurious>>

-----------------------------------------------------------------------------
(* The writer thread.                                                      *)

\* It locks at the top of its loop, and again when the wait wakes up.
WriterLock ==
  /\ running
  /\ writer = "lock"
  /\ mutex = "free"
  /\ mutex' = "writer"
  /\ writer' = "test"
  /\ UNCHANGED <<running, queue, mainVars, packet, wire, spurious>>

\* Mutants of WriterTest: the wait has no predicate; the writer sleeps in the
\* wait without releasing the mutex.
WriterTestNoPredicate ==
  /\ running
  /\ writer = "test"
  /\ writer' = "take"
  /\ UNCHANGED <<running, mutex, queue, mainVars, packet, wire, spurious>>

WriterTestKeepsMutex ==
  /\ running
  /\ writer = "test"
  /\ writer' = IF queue # <<>> THEN "take" ELSE "wait"
  /\ UNCHANGED <<running, mutex, queue, mainVars, packet, wire, spurious>>

\* The predicate of the wait: blocking releases the mutex in the same step.
WriterTest ==
  /\ running
  /\ writer = "test"
  /\ \/ /\ queue # <<>>
        /\ writer' = "take"
        /\ UNCHANGED mutex
     \/ /\ queue = <<>>
        /\ writer' = "wait"
        /\ mutex' = "free"
  /\ UNCHANGED <<running, queue, mainVars, packet, wire, spurious>>

SpuriousWakeup ==
  /\ running
  /\ writer = "wait"
  /\ spurious < MaxSpurious
  /\ spurious' = spurious + 1
  /\ writer' = "lock"
  /\ UNCHANGED <<running, mutex, queue, mainVars, packet, wire>>

\* Mutant of WriterTake: the packets are kept on a stack.
WriterTakeLast ==
  /\ running
  /\ writer = "take"
  /\ packet' = queue[Len(queue)]
  /\ queue' = SubSeq(queue, 1, Len(queue) - 1)
  /\ writer' = "write"
  /\ UNCHANGED <<running, mutex, mainVars, wire, spurious>>

\* front and pop.
WriterTake ==
  /\ running
  /\ writer = "take"
  /\ packet' = Head(queue)
  /\ queue' = Tail(queue)
  /\ writer' = "write"
  /\ UNCHANGED <<running, mutex, mainVars, wire, spurious>>

\* The serial write blocks while the driver's buffer is full.
WriterWrite ==
  /\ running
  /\ writer = "write"
  /\ \/ /\ packet = Blank
        /\ UNCHANGED wire
     \/ /\ packet # Blank
        /\ Len(wire) < MaxWire
        /\ wire' = Append(wire, packet)
  /\ writer' = "rest"
  /\ UNCHANGED <<running, mutex, queue, mainVars, packet, spurious>>

\* The write times out after 20 seconds; its byte count is not looked at, and
\* what the board got of the packet is no packet.
WriterTimesOut ==
  /\ running
  /\ writer = "write"
  /\ "timeout" \in Faults
  /\ packet # Blank
  /\ writer' = "rest"
  /\ UNCHANGED <<running, mutex, queue, mainVars, packet, wire, spurious>>

\* An exception on the writer thread, from the write or from the log entry
\* that follows it, terminates the process.
WriterThrows ==
  /\ running
  /\ \/ writer = "write" /\ packet # Blank /\ "device" \in Faults
     \/ writer = "rest" /\ "log" \in Faults
  /\ running' = FALSE
  /\ UNCHANGED <<mutex, queue, mainVars, writerVars, wire, spurious>>

\* The packet is logged, the thread sleeps 500 ms and only then is the mutex
\* released, at the end of its scope.
WriterRelease ==
  /\ running
  /\ writer = "rest"
  /\ mutex' = "free"
  /\ writer' = "lock"
  /\ UNCHANGED <<running, queue, mainVars, packet, wire, spurious>>

-----------------------------------------------------------------------------
\* The board reads a packet off the line (external).
BoardReads ==
  /\ running
  /\ wire # <<>>
  /\ wire' = Tail(wire)
  /\ UNCHANGED <<running, mutex, queue, mainVars, writerVars, spurious>>

-----------------------------------------------------------------------------
MainStep == MainLock \/ MainPush \/ MainUnlock \/ MainNotify
Writer   == WriterLock \/ WriterTest \/ WriterTake \/ WriterWrite \/ WriterRelease

Next ==
  \/ OnMessage \/ Polling \/ RequestTemperature
  \/ MainStep \/ MainThrows
  \/ Writer \/ SpuriousWakeup \/ WriterTimesOut \/ WriterThrows
  \/ BoardReads

Spec == Init /\ [][Next]_vars

(***************************************************************************)
(* Both threads run, and the board reads.  Taking the mutex is only weakly *)
(* fair: it is granted to whoever comes first, and the writer asks for it  *)
(* again the moment it releases it.  Polling is strongly fair because the  *)
(* main loop comes to it however many messages loop() delivered before.    *)
(***************************************************************************)
Fairness ==
  /\ WF_vars(MainStep)
  /\ WF_vars(Writer)
  /\ WF_vars(BoardReads)
  /\ SF_vars(Polling)

FairSpec == Spec /\ Fairness

-----------------------------------------------------------------------------
(* Properties.                                                             *)

\* Every variable has its type.
TypeOK ==
  /\ running \in BOOLEAN
  /\ mutex \in {"free", "main", "writer"}
  /\ queue \in Seq(Packet)
  /\ main \in {"away", "lock", "push", "unlock", "notify"}
  /\ todo \in Seq(Packet)
  /\ notifies \in BOOLEAN
  /\ writer \in {"lock", "test", "wait", "take", "write", "rest"}
  /\ packet \in Packet
  /\ wire \in Seq(Packet)
  /\ spurious \in 0 .. MaxSpurious

\* The owner of the mutex is the thread whose program counter lies between
\* its lock and its unlock: the lock the main thread takes around push, and
\* the one WritePacket takes at the top of its loop and gives up in wait.
MutexInv ==
  /\ mutex = "main"   <=> main \in {"push", "unlock"}
  /\ mutex = "writer" <=> writer \in {"test", "take", "write", "rest"}

\* WritePacket never calls front() and pop() on an empty queue, whatever
\* wakes it up.
FrontIsSafe == writer = "take" => queue # <<>>

\* A command or a polling packet never lies in the queue behind a writer that
\* is blocked in wait, but for the moment between the push and the notify_one
\* that follows it.  (Temperature requests do: nothing notifies for them.)
NoStrandedPacket ==
  writer = "wait" /\ (\E i \in 1 .. Len(queue) : queue[i].kind # "temperature")
    => notifies /\ main \in {"unlock", "notify"}

\* The queue only changes while the thread that changes it owns the mutex:
\* the main thread when it grows and the writer when it shrinks.
LockedAccess ==
  [][/\ Len(queue') > Len(queue) => mutex = "main"
     /\ Len(queue') < Len(queue) => mutex = "writer"]_vars

\* Packets on their way to the board: in the driver, in the writer's hand, and
\* in the queue.
InHand  == IF writer = "write" THEN <<packet>> ELSE <<>>
Transit == wire \o InHand \o queue

Fifo == INSTANCE OutboundFifo
          WITH transit <- Transit, Lossy <- "timeout" \in Faults

\* The queue, the writer and the serial driver together are one line of
\* packets: none is duplicated, none overtakes another, and none is lost as
\* long as no write times out.
IsFifo == Fifo!Spec

\* Whatever is in that line reaches its head and leaves it, temperature
\* requests included, because polling goes on.
FifoMoves == Fifo!FairSpec

\* A push does not hang on the writer, which holds the mutex while it sleeps
\* and asks for it again at once: only the main thread pushes, so the writer
\* runs out of packets and waits.
HandlerReturns == main # "away" ~> main = "away"
=============================================================================
