-------------------------- MODULE PacketQueueProofs --------------------------
(***************************************************************************)
(* PacketQueue's properties, for every set of commands, list of slaves,    *)
(* choice of faults and value of the bounds; and CommandPath's, for every  *)
(* set of messages of the server.                                          *)
(***************************************************************************)
EXTENDS CommandPath, TLAPS, SequenceTheorems

Parsing == INSTANCE MqttIngressProofs

(* What the handlers keep true besides the properties: a handler that has  *)
(* not pushed everything has something left to push; one that notifies     *)
(* pushes a single packet; one that does not pushes temperature requests.  *)
HandlerInv ==
  /\ main \in {"lock", "push"} => todo # <<>>
  /\ notifies /\ main \in {"lock", "push"} => Tail(todo) = <<>>
  /\ notifies /\ main \in {"unlock", "notify"} => todo = <<>>
  /\ main = "notify" => notifies
  /\ ~notifies => \A i \in 1 .. Len(todo) : todo[i].kind = "temperature"

IInv == TypeOK /\ MutexInv /\ FrontIsSafe /\ HandlerInv /\ NoStrandedPacket

-----------------------------------------------------------------------------
(* Types.                                                                  *)

LEMMA PacketTypes ==
  /\ PollingPacket \in Packet
  /\ Blank \in Packet
  /\ \A c \in Commands : CommandPacket(c) \in Packet
  /\ [i \in 1 .. Len(SlaveIds) |-> TemperaturePacket(SlaveIds[i])] \in Seq(Packet)
<1>1. \A i \in 1 .. Len(SlaveIds) : TemperaturePacket(SlaveIds[i]) \in Packet
  BY DEF Packet, Slave
<1>2. Len(SlaveIds) \in Nat
  BY QueueAssumption
<1>3. [i \in 1 .. Len(SlaveIds) |-> TemperaturePacket(SlaveIds[i])] \in Seq(Packet)
  BY <1>1, <1>2, IsASeq
<1> QED  BY <1>3 DEF Packet

LEMMA InitInv == Init => IInv
<1> SUFFICES ASSUME Init PROVE IInv
  OBVIOUS
<1> USE DEF Init
<1>1. TypeOK
  <2>1. <<>> \in Seq(Packet)
    OBVIOUS
  <2>2. spurious \in 0 .. MaxSpurious
    BY QueueAssumption
  <2>3. running \in BOOLEAN /\ notifies \in BOOLEAN
    BY Zenon
  <2> QED  BY <2>1, <2>2, <2>3, PacketTypes DEF TypeOK
<1>2. MutexInv /\ FrontIsSafe
  BY DEF MutexInv, FrontIsSafe
<1>3. HandlerInv
  BY DEF HandlerInv
<1>4. NoStrandedPacket
  BY DEF NoStrandedPacket
<1> QED  BY <1>1, <1>2, <1>3, <1>4 DEF IInv

LEMMA TypeStep == TypeOK /\ HandlerInv /\ FrontIsSafe /\ [Next]_vars => TypeOK'
<1> SUFFICES ASSUME TypeOK, HandlerInv, FrontIsSafe, [Next]_vars
             PROVE  TypeOK'
  OBVIOUS
<1> USE DEF TypeOK, mainVars, writerVars
<1>1. CASE OnMessage
  BY <1>1, PacketTypes DEF OnMessage, Enter
<1>2. CASE Polling
  BY <1>2, PacketTypes DEF Polling, Enter
<1>3. CASE RequestTemperature
  BY <1>3, PacketTypes DEF RequestTemperature, Enter
<1>4. CASE MainStep
  <2>1. CASE MainLock
    BY <2>1 DEF MainLock
  <2>2. CASE MainPush
    <3>1. todo # <<>>
      BY <2>2 DEF MainPush, HandlerInv
    <3>2. Head(todo) \in Packet /\ Tail(todo) \in Seq(Packet)
      BY <3>1, HeadTailProperties
    <3> QED  BY <2>2, <3>2 DEF MainPush
  <2>3. CASE MainUnlock
    BY <2>3 DEF MainUnlock
  <2>4. CASE MainNotify
    BY <2>4 DEF MainNotify
  <2> QED  BY <1>4, <2>1, <2>2, <2>3, <2>4 DEF MainStep
<1>5. CASE Writer
  <2>1. CASE WriterLock
    BY <2>1 DEF WriterLock
  <2>2. CASE WriterTest
    BY <2>2 DEF WriterTest
  <2>3. CASE WriterTake
    <3>1. Head(queue) \in Packet /\ Tail(queue) \in Seq(Packet)
      BY <2>3, HeadTailProperties DEF WriterTake, FrontIsSafe
    <3> QED  BY <2>3, <3>1 DEF WriterTake
  <2>4. CASE WriterWrite
    <3>1. wire' \in Seq(Packet)
      <4>1. wire \in Seq(Packet) /\ packet \in Packet
        BY DEF TypeOK
      <4>2. Append(wire, packet) \in Seq(Packet)
        BY <4>1, AppendProperties, Zenon
      <4>3. wire' = wire \/ wire' = Append(wire, packet)
        BY <2>4 DEF WriterWrite
      <4> QED  BY <4>1, <4>2, <4>3, Zenon
    <3>2. writer' = "rest" /\ UNCHANGED <<running, mutex, queue, mainVars, packet, spurious>>
      BY <2>4 DEF WriterWrite
    <3> QED  BY <3>1, <3>2
  <2>5. CASE WriterRelease
    BY <2>5 DEF WriterRelease
  <2> QED  BY <1>5, <2>1, <2>2, <2>3, <2>4, <2>5 DEF Writer
<1>6. CASE MainThrows
  BY <1>6 DEF MainThrows
<1>7. CASE SpuriousWakeup
  BY <1>7, QueueAssumption DEF SpuriousWakeup
<1>8. CASE WriterTimesOut
  BY <1>8 DEF WriterTimesOut
<1>9. CASE WriterThrows
  BY <1>9 DEF WriterThrows
<1>10. CASE BoardReads
  <2>1. Tail(wire) \in Seq(Packet)
    BY <1>10, HeadTailProperties DEF BoardReads
  <2> QED  BY <1>10, <2>1 DEF BoardReads
<1>11. CASE UNCHANGED vars
  BY <1>11 DEF vars
<1> QED
  BY <1>1, <1>2, <1>3, <1>4, <1>5, <1>6, <1>7, <1>8, <1>9, <1>10, <1>11 DEF Next
-----------------------------------------------------------------------------
(* The mutex and the wait.                                                 *)

LEMMA MutexStep == MutexInv /\ [Next]_vars => MutexInv'
<1> SUFFICES ASSUME MutexInv, [Next]_vars PROVE MutexInv'
  OBVIOUS
<1> USE DEF MutexInv, mainVars, writerVars
<1>1. CASE OnMessage \/ Polling \/ RequestTemperature
  BY <1>1 DEF OnMessage, Polling, RequestTemperature, Enter
<1>2. CASE MainStep
  BY <1>2 DEF MainStep, MainLock, MainPush, MainUnlock, MainNotify
<1>3. CASE Writer
  BY <1>3 DEF Writer, WriterLock, WriterTest, WriterTake, WriterWrite, WriterRelease
<1>4. CASE MainThrows \/ SpuriousWakeup \/ WriterTimesOut \/ WriterThrows \/ BoardReads
  BY <1>4 DEF MainThrows, SpuriousWakeup, WriterTimesOut, WriterThrows, BoardReads
<1>5. CASE UNCHANGED vars
  BY <1>5 DEF vars
<1> QED  BY <1>1, <1>2, <1>3, <1>4, <1>5 DEF Next

\* Between the test and the take the writer has the mutex, so the main thread,
\* which only ever adds to the queue, does not even run its push.
LEMMA FrontStep == TypeOK /\ MutexInv /\ FrontIsSafe /\ [Next]_vars => FrontIsSafe'
<1> SUFFICES ASSUME TypeOK, MutexInv, FrontIsSafe, [Next]_vars PROVE FrontIsSafe'
  OBVIOUS
<1> USE DEF FrontIsSafe, mainVars, writerVars
<1>1. CASE OnMessage \/ Polling \/ RequestTemperature
  BY <1>1 DEF OnMessage, Polling, RequestTemperature, Enter
<1>2. CASE MainStep
  BY <1>2 DEF MainStep, MainLock, MainPush, MainUnlock, MainNotify, MutexInv
<1>3. CASE Writer
  BY <1>3 DEF Writer, WriterLock, WriterTest, WriterTake, WriterWrite, WriterRelease
<1>4. CASE MainThrows \/ SpuriousWakeup \/ WriterTimesOut \/ WriterThrows \/ BoardReads
  BY <1>4 DEF MainThrows, SpuriousWakeup, WriterTimesOut, WriterThrows, BoardReads
<1>5. CASE UNCHANGED vars
  BY <1>5 DEF vars
<1> QED  BY <1>1, <1>2, <1>3, <1>4, <1>5 DEF Next

-----------------------------------------------------------------------------
(* The handlers and the lost wakeup.                                       *)

LEMMA HandlerStep == TypeOK /\ HandlerInv /\ [Next]_vars => HandlerInv'
<1> SUFFICES ASSUME TypeOK, HandlerInv, [Next]_vars PROVE HandlerInv'
  OBVIOUS
<1> USE DEF HandlerInv, mainVars, writerVars
<1>1. CASE OnMessage \/ Polling
  <2>1. PICK p \in Packet : Enter(<<p>>, TRUE)
    BY <1>1, PacketTypes DEF OnMessage, Polling
  <2>2. Tail(<<p>>) = <<>> /\ <<p>> # <<>>
    OBVIOUS
  <2> QED  BY <2>1, <2>2 DEF Enter
<1>2. CASE RequestTemperature
  <2> DEFINE ps == [i \in 1 .. Len(SlaveIds) |-> TemperaturePacket(SlaveIds[i])]
  <2>1. Enter(ps, FALSE) /\ SlaveIds # <<>>
    BY <1>2 DEF RequestTemperature
  <2>2. Len(SlaveIds) \in Nat \ {0}
    BY <2>1, QueueAssumption
  <2>3. Len(ps) = Len(SlaveIds) /\ ps # <<>>
    BY <2>2
  <2>4. \A i \in 1 .. Len(ps) : ps[i].kind = "temperature"
    BY <2>3 DEF TemperaturePacket
  <2> HIDE DEF ps
  <2> QED  BY <2>1, <2>3, <2>4 DEF Enter
<1>3. CASE MainLock
  BY <1>3 DEF MainLock
<1>4. CASE MainPush
  <2>1. main = "push" /\ main' = "unlock" /\ todo' = Tail(todo) /\ notifies' = notifies
    BY <1>4 DEF MainPush
  <2>2. todo # <<>> /\ todo \in Seq(Packet)
    BY <2>1 DEF TypeOK
  <2>3. ~notifies' => \A i \in 1 .. Len(todo') : todo'[i].kind = "temperature"
    BY <2>1, <2>2
  <2> QED  BY <2>1, <2>3
<1>5. CASE MainUnlock
  <2>1. main = "unlock" /\ UNCHANGED <<todo, notifies>>
    BY <1>5 DEF MainUnlock
  <2>2. main' = IF todo # <<>> THEN "lock" ELSE IF notifies THEN "notify" ELSE "away"
    BY <1>5 DEF MainUnlock
  <2> QED  BY <2>1, <2>2
<1>6. CASE MainNotify
  BY <1>6 DEF MainNotify
<1>7. CASE Writer
  BY <1>7 DEF Writer, WriterLock, WriterTest, WriterTake, WriterWrite, WriterRelease
<1>8. CASE MainThrows \/ SpuriousWakeup \/ WriterTimesOut \/ WriterThrows \/ BoardReads
  BY <1>8 DEF MainThrows, SpuriousWakeup, WriterTimesOut, WriterThrows, BoardReads
<1>9. CASE UNCHANGED vars
  BY <1>9 DEF vars
<1> QED
  BY <1>1, <1>2, <1>3, <1>4, <1>5, <1>6, <1>7, <1>8, <1>9 DEF Next, MainStep

\* The writer only blocks on an empty queue; what the main thread pushes then
\* is followed by notify_one, unless it is a temperature request.
LEMMA StrandedStep == TypeOK /\ HandlerInv /\ NoStrandedPacket /\ [Next]_vars
                        => NoStrandedPacket'
<1> SUFFICES ASSUME TypeOK, HandlerInv, NoStrandedPacket, [Next]_vars
             PROVE  NoStrandedPacket'
  OBVIOUS
<1> USE DEF NoStrandedPacket, mainVars, writerVars
<1>1. CASE OnMessage \/ Polling \/ RequestTemperature
  BY <1>1 DEF OnMessage, Polling, RequestTemperature, Enter
<1>2. CASE MainLock
  BY <1>2 DEF MainLock
<1>3. CASE MainPush
  <2>1. /\ main = "push" /\ main' = "unlock" /\ UNCHANGED <<writer, notifies>>
        /\ queue' = Append(queue, Head(todo))
    BY <1>3 DEF MainPush
  <2>2. CASE notifies
    BY <2>1, <2>2
  <2>3. CASE ~notifies /\ writer = "wait"
    <3>1. \A i \in 1 .. Len(queue) : queue[i].kind = "temperature"
      BY <2>1, <2>3
    <3>2. Head(todo).kind = "temperature"
      BY <2>1, <2>3 DEF HandlerInv, TypeOK
    <3>3. \A i \in 1 .. Len(queue') : queue'[i].kind = "temperature"
      BY <2>1, <3>1, <3>2 DEF TypeOK
    <3> QED  BY <3>3
  <2> QED  BY <2>1, <2>2, <2>3 DEF TypeOK
<1>4. CASE MainUnlock
  BY <1>4 DEF MainUnlock, HandlerInv
<1>5. CASE MainNotify
  BY <1>5 DEF MainNotify
<1>6. CASE Writer
  <2>1. CASE WriterLock
    BY <2>1 DEF WriterLock
  <2>2. CASE WriterTest
    BY <2>2 DEF WriterTest
  <2>3. CASE WriterTake \/ WriterWrite \/ WriterRelease
    BY <2>3 DEF WriterTake, WriterWrite, WriterRelease
  <2> QED  BY <1>6, <2>1, <2>2, <2>3 DEF Writer
<1>7. CASE MainThrows \/ SpuriousWakeup \/ WriterTimesOut \/ WriterThrows \/ BoardReads
  BY <1>7 DEF MainThrows, SpuriousWakeup, WriterTimesOut, WriterThrows, BoardReads
<1>8. CASE UNCHANGED vars
  BY <1>8 DEF vars
<1> QED
  BY <1>1, <1>2, <1>3, <1>4, <1>5, <1>6, <1>7, <1>8 DEF Next, MainStep

-----------------------------------------------------------------------------
(* The invariant.                                                          *)

LEMMA InvStep == IInv /\ [Next]_vars => IInv'
BY TypeStep, MutexStep, FrontStep, HandlerStep, StrandedStep DEF IInv

\* The inductive invariant: the types, and what holds of the mutex, of the
\* wait and of the handlers, which support one another.
THEOREM Invariant == Spec => []IInv
<1> QED  BY InitInv, InvStep, PTL DEF Spec

\* Every variable has its type, whatever the commands, slaves and faults.
THEOREM TypeCorrect == Spec => []TypeOK
<1>1. IInv => TypeOK
  BY DEF IInv
<1> QED  BY <1>1, Invariant, PTL

\* The owner of the mutex is the thread that is between its lock and unlock.
THEOREM MutexIsOwned == Spec => []MutexInv
<1>1. IInv => MutexInv
  BY DEF IInv
<1> QED  BY <1>1, Invariant, PTL

\* WritePacket never takes the front of an empty queue.
THEOREM FrontSafe == Spec => []FrontIsSafe
<1>1. IInv => FrontIsSafe
  BY DEF IInv
<1> QED  BY <1>1, Invariant, PTL

\* No wakeup for a command or a polling packet is lost.
THEOREM NothingStranded == Spec => []NoStrandedPacket
<1>1. IInv => NoStrandedPacket
  BY DEF IInv
<1> QED  BY <1>1, Invariant, PTL

-----------------------------------------------------------------------------
(* The lock.                                                               *)

LEMMA LockedStep ==
  IInv /\ [Next]_vars => /\ Len(queue') > Len(queue) => mutex = "main"
                         /\ Len(queue') < Len(queue) => mutex = "writer"
<1> SUFFICES ASSUME IInv, [Next]_vars
             PROVE  /\ Len(queue') > Len(queue) => mutex = "main"
                    /\ Len(queue') < Len(queue) => mutex = "writer"
  OBVIOUS
<1>1. CASE MainPush
  <2>1. mutex = "main" /\ Len(queue') = Len(queue) + 1 /\ Len(queue) \in Nat
    BY <1>1 DEF MainPush, IInv, TypeOK, MutexInv
  <2> QED  BY <2>1
<1>2. CASE WriterTake
  <2>1. mutex = "writer" /\ Len(queue') = Len(queue) - 1 /\ Len(queue) \in Nat
    BY <1>2 DEF WriterTake, IInv, TypeOK, MutexInv, FrontIsSafe
  <2> QED  BY <2>1
<1>3. CASE ~MainPush /\ ~WriterTake
  <2>1. queue' = queue
    BY <1>3 DEF Next, OnMessage, Polling, RequestTemperature, Enter, MainStep,
                MainLock, MainUnlock, MainNotify, MainThrows, Writer, WriterLock,
                WriterTest, WriterWrite, WriterRelease, SpuriousWakeup,
                WriterTimesOut, WriterThrows, BoardReads, vars
  <2>2. Len(queue) \in Nat
    BY DEF IInv, TypeOK
  <2> QED  BY <2>1, <2>2
<1> QED  BY <1>1, <1>2, <1>3

\* The queue grows only under the main thread's lock, and shrinks only under
\* the writer's.
THEOREM QueueIsLocked == Spec => LockedAccess
<1>1. IInv /\ [Next]_vars
        => [/\ Len(queue') > Len(queue) => mutex = "main"
            /\ Len(queue') < Len(queue) => mutex = "writer"]_vars
  BY LockedStep
<1> QED  BY <1>1, Invariant, PTL DEF Spec, LockedAccess

-----------------------------------------------------------------------------
(* The line of packets: what each step does to wire \o InHand \o queue, in *)
(* terms of sequences alone.                                               *)

LEMMA PushAppends ==
  ASSUME NEW w \in Seq(Packet), NEW h \in Seq(Packet), NEW q \in Seq(Packet), NEW p \in Packet
  PROVE  w \o h \o Append(q, p) = Append(w \o h \o q, p)
OBVIOUS

LEMMA TakeKeeps ==
  ASSUME NEW w \in Seq(Packet), NEW q \in Seq(Packet), q # <<>>
  PROVE  w \o <<Head(q)>> \o Tail(q) = w \o <<>> \o q
OBVIOUS

LEMMA WriteKeeps ==
  ASSUME NEW w \in Seq(Packet), NEW q \in Seq(Packet), NEW p \in Packet
  PROVE  Append(w, p) \o <<>> \o q = w \o <<p>> \o q
OBVIOUS

LEMMA ReadTakesHead ==
  ASSUME NEW w \in Seq(Packet), NEW h \in Seq(Packet), NEW q \in Seq(Packet), w # <<>>
  PROVE  /\ w \o h \o q # <<>>
         /\ Tail(w) \o h \o q = Tail(w \o h \o q)
BY SMTT(30)

LEMMA DropFromHand ==
  ASSUME NEW w \in Seq(Packet), NEW q \in Seq(Packet), NEW p \in Packet
  PROVE  LET t == w \o <<p>> \o q
             i == Len(w) + 1
         IN  /\ i \in 1 .. Len(t)
             /\ t[i] = p
             /\ w \o <<>> \o q = SubSeq(t, 1, i - 1) \o SubSeq(t, i + 1, Len(t))
<1> DEFINE t == w \o <<p>> \o q
           i == Len(w) + 1
<1>1. t \in Seq(Packet) /\ Len(t) = Len(w) + 1 + Len(q)
  OBVIOUS
<1>2. i \in 1 .. Len(t)
  BY <1>1
<1>3. t[i] = p
  OBVIOUS
<1>4. SubSeq(t, 1, i - 1) = w
  BY <1>1
<1>5. SubSeq(t, i + 1, Len(t)) = q
  BY <1>1
<1>6. w \o <<>> = w
  OBVIOUS
<1> HIDE DEF t, i
<1> QED  BY <1>2, <1>3, <1>4, <1>5, <1>6 DEF t, i

-----------------------------------------------------------------------------
(* The refinement.                                                         *)

LEMMA TransitType == TypeOK => Transit \in Seq(Packet)
BY DEF TypeOK, Transit, InHand

LEMMA TransitInit == Init => Fifo!Init
BY DEF Init, Fifo!Init, Transit, InHand

LEMMA TransitStep == IInv /\ [Next]_vars => [Fifo!Next]_Transit
<1> SUFFICES ASSUME IInv, [Next]_vars PROVE [Fifo!Next]_Transit
  OBVIOUS
<1> USE DEF mainVars, writerVars
<1>0. /\ wire \in Seq(Packet) /\ queue \in Seq(Packet) /\ todo \in Seq(Packet)
      /\ packet \in Packet
  BY DEF IInv, TypeOK
<1>1. CASE OnMessage \/ Polling \/ RequestTemperature
  <2>1. UNCHANGED Transit
    BY <1>1 DEF OnMessage, Polling, RequestTemperature, Enter, Transit, InHand
  <2> QED  BY <2>1
<1>2. CASE MainPush
  <2>1. Head(todo) \in Packet
    BY <1>2, <1>0 DEF MainPush, IInv, HandlerInv
  <2>2. InHand \in Seq(Packet) /\ InHand' = InHand
    BY <1>2, <1>0 DEF MainPush, InHand
  <2>3. Transit' = wire \o InHand \o Append(queue, Head(todo))
    BY <1>2, <2>2 DEF MainPush, Transit
  <2>4. wire \o InHand \o Append(queue, Head(todo))
          = Append(wire \o InHand \o queue, Head(todo))
    <3>1. InHand \in Seq(Packet) /\ wire \in Seq(Packet) /\ queue \in Seq(Packet)
      BY <1>0, <2>2
    <3> HIDE DEF mainVars, writerVars
    <3> QED  BY <2>1, <3>1, PushAppends, ZenonT(40)
  <2>5. Transit' = Append(Transit, Head(todo))
    BY <2>3, <2>4 DEF Transit
  <2> QED  BY <2>1, <2>5 DEF Fifo!Next, Fifo!Accept
<1>3. CASE MainLock \/ MainUnlock \/ MainThrows
  BY <1>3 DEF MainLock, MainUnlock, MainThrows, Transit, InHand
<1>4. CASE MainNotify
  BY <1>4 DEF MainNotify, Transit, InHand
<1>5. CASE WriterTake
  <2>1. queue # <<>>
    BY <1>5 DEF WriterTake, IInv, FrontIsSafe
  <2>2. Transit = wire \o <<>> \o queue
    BY <1>5 DEF WriterTake, Transit, InHand
  <2>3. Transit' = wire \o <<Head(queue)>> \o Tail(queue)
    BY <1>5 DEF WriterTake, Transit, InHand
  <2> QED  BY <1>0, <2>1, <2>2, <2>3, TakeKeeps
<1>6. CASE WriterWrite
  <2>1. Transit = wire \o <<packet>> \o queue
    BY <1>6 DEF WriterWrite, Transit, InHand
  <2>2. CASE packet = Blank /\ UNCHANGED wire
    <3>1. Transit' = wire \o <<>> \o queue
      BY <1>6, <2>2 DEF WriterWrite, Transit, InHand
    <3> DEFINE i == Len(wire) + 1
    <3>2. /\ i \in 1 .. Len(Transit)
          /\ Transit[i] = packet
          /\ wire \o <<>> \o queue
               = SubSeq(Transit, 1, i - 1) \o SubSeq(Transit, i + 1, Len(Transit))
      BY <1>0, <2>1, DropFromHand, ZenonT(40)
    <3>3. Fifo!Drop(i)
      BY <2>2, <3>1, <3>2 DEF Fifo!Drop
    <3> QED  BY <3>2, <3>3 DEF Fifo!Next
  <2>3. CASE wire' = Append(wire, packet)
    <3>1. Transit' = Append(wire, packet) \o <<>> \o queue
      BY <1>6, <2>3 DEF WriterWrite, Transit, InHand
    <3> QED  BY <1>0, <2>1, <3>1, WriteKeeps
  <2> QED  BY <1>6, <2>2, <2>3 DEF WriterWrite
<1>7. CASE WriterTimesOut
  <2>1. Transit = wire \o <<packet>> \o queue /\ Transit' = wire \o <<>> \o queue
    BY <1>7 DEF WriterTimesOut, Transit, InHand
  <2> DEFINE i == Len(wire) + 1
  <2>2. /\ i \in 1 .. Len(Transit)
        /\ wire \o <<>> \o queue
             = SubSeq(Transit, 1, i - 1) \o SubSeq(Transit, i + 1, Len(Transit))
    BY <1>0, <2>1, DropFromHand, ZenonT(40)
  <2>3. Fifo!Drop(i)
    BY <1>7, <2>1, <2>2 DEF Fifo!Drop, WriterTimesOut
  <2> QED  BY <2>2, <2>3 DEF Fifo!Next
<1>8. CASE WriterLock \/ WriterTest \/ WriterRelease \/ WriterThrows \/ SpuriousWakeup
  BY <1>8 DEF WriterLock, WriterTest, WriterRelease, WriterThrows, SpuriousWakeup,
              Transit, InHand
<1>9. CASE BoardReads
  <2>1. InHand \in Seq(Packet) /\ InHand' = InHand /\ wire # <<>> /\ wire' = Tail(wire)
        /\ queue' = queue
    BY <1>9, <1>0 DEF BoardReads, InHand
  <2>2. Transit' = Tail(wire) \o InHand \o queue
    BY <2>1 DEF Transit
  <2>3. /\ wire \o InHand \o queue # <<>>
        /\ Tail(wire) \o InHand \o queue = Tail(wire \o InHand \o queue)
    <3>1. InHand \in Seq(Packet) /\ wire \in Seq(Packet) /\ queue \in Seq(Packet)
      BY <1>0, <2>1
    <3>2. wire # <<>>
      BY <2>1
    <3> HIDE DEF mainVars, writerVars
    <3> QED  BY <3>1, <3>2, ReadTakesHead, ZenonT(40)
  <2>4. Transit # <<>> /\ Transit' = Tail(Transit)
    BY <2>2, <2>3, Zenon DEF Transit
  <2> QED  BY <2>4 DEF Fifo!Next, Fifo!HeadLeaves
<1>10. CASE UNCHANGED vars
  BY <1>10 DEF vars, Transit, InHand
<1> QED
  BY <1>1, <1>2, <1>3, <1>4, <1>5, <1>6, <1>7, <1>8, <1>9, <1>10
     DEF Next, MainStep, Writer

\* The queue, the writer and the driver are one line of packets: each step of
\* either thread is a step of OutboundFifo or leaves the line as it is.
THEOREM QueueImplementsFifo == Spec => IsFifo
<1> QED  BY TransitInit, TransitStep, Invariant, PTL DEF Spec, IsFifo, Fifo!Spec

-----------------------------------------------------------------------------
(* The commands, from the message to the board.                            *)

LEMMA SameParsing ==
  /\ \A m : Ingress!MakePacket(m) = Parsing!MakePacket(m)
  /\ \A m, frame : Ingress!Asks(m, frame) = Parsing!Asks(m, frame)
<1>1. \A bytes : Ingress!ByteSum(bytes) = Parsing!ByteSum(bytes)
  BY DEF Ingress!ByteSum, Parsing!ByteSum, Ingress!Sums, Parsing!Sums, Ingress!Add,
         Parsing!Add
<1>2. \A m : Ingress!MakePacket(m) = Parsing!MakePacket(m)
  BY <1>1 DEF Ingress!MakePacket, Ingress!ParseMqttMessage, Ingress!Packet, Ingress!Body,
              Ingress!Cut, Ingress!CalculateChecksum, Ingress!kSuccessParse, Ingress!kEnd,
              Ingress!kFailParsePayload, Ingress!kFailIsNotObject,
              Parsing!MakePacket, Parsing!ParseMqttMessage, Parsing!Packet, Parsing!Body,
              Parsing!Cut, Parsing!CalculateChecksum, Parsing!kSuccessParse, Parsing!kEnd,
              Parsing!kFailParsePayload, Parsing!kFailIsNotObject
<1>3. \A m, frame : Ingress!Asks(m, frame) = Parsing!Asks(m, frame)
  BY DEF Ingress!Asks, Ingress!Asked, Ingress!WideSum,
         Parsing!Asks, Parsing!Asked, Parsing!WideSum
<1> QED
  BY <1>2, <1>3

\* What on_message pushes for a message, if not Blank, is what the message asks for.
LEMMA CommandsAreAsked ==
  ASSUME NEW c \in Commands
  PROVE  \E m \in Messages : Ingress!Asks(m, c)
<1>1. PICK m \in Messages : c = Ingress!MakePacket(m) /\ c # <<>>
  BY PathAssumption DEF Frames
<1>2. c = Parsing!MakePacket(m)
  BY <1>1, SameParsing
<1>3. m \in Parsing!Message
  BY PathAssumption DEF Ingress!Message, Ingress!Shapes, Ingress!Numbers,
                        Parsing!Message, Parsing!Shapes, Parsing!Numbers
<1>4. Parsing!Asks(m, c)
  BY <1>1, <1>2, <1>3, Parsing!FramesAsAsked
<1> QED
  BY <1>4, SameParsing

\* The packets in the driver are not the empty vector: the writer gives the
\* serial port nothing when it takes one.
NoBlank == \A i \in 1 .. Len(wire) : wire[i] # Blank

LEMMA WireStep == TypeOK /\ NoBlank /\ [Next]_vars => NoBlank'
<1> SUFFICES ASSUME TypeOK, NoBlank, [Next]_vars PROVE NoBlank'
  OBVIOUS
<1> USE DEF mainVars, writerVars
<1>1. wire \in Seq(Packet) /\ packet \in Packet
  BY DEF TypeOK
<1>2. CASE UNCHANGED wire
  BY <1>2 DEF NoBlank
<1>3. CASE WriterWrite
  <2>1. wire' = wire \/ (wire' = Append(wire, packet) /\ packet # Blank)
    BY <1>3 DEF WriterWrite
  <2>2. CASE wire' = Append(wire, packet) /\ packet # Blank
    <3>1. /\ Len(wire') = Len(wire) + 1 /\ wire'[Len(wire) + 1] = packet
          /\ \A i \in 1 .. Len(wire) : wire'[i] = wire[i]
      BY ONLY <1>1, <2>2, AppendProperties
    <3>2. Len(wire) \in Nat
      BY <1>1
    <3> QED
      BY <2>2, <3>1, <3>2 DEF NoBlank
  <2> QED
    BY <1>2, <2>1, <2>2
<1>4. CASE BoardReads
  <2>1. wire' = Tail(wire) /\ wire # <<>>
    BY <1>4 DEF BoardReads
  <2>2. Len(wire') = Len(wire) - 1 /\ \A i \in 1 .. Len(wire') : wire'[i] = wire[i + 1]
    BY ONLY <1>1, <2>1, HeadTailProperties
  <2>3. Len(wire) \in Nat
    BY <1>1
  <2> QED
    BY <2>2, <2>3 DEF NoBlank
<1>5. WriterWrite \/ BoardReads \/ UNCHANGED wire
  BY DEF Next, vars, OnMessage, Polling, RequestTemperature, Enter, MainStep, MainLock,
         MainPush, MainUnlock, MainNotify, MainThrows, Writer, WriterLock, WriterTest,
         WriterTake, WriterRelease, SpuriousWakeup, WriterTimesOut, WriterThrows
<1> QED
  BY <1>2, <1>3, <1>4, <1>5

\* Whatever messages the server sends, in whatever order they, the polling and
\* the temperature requests get into the queue: each command the board reads is
\* byte for byte what one of the messages asked for, and a message that does not
\* parse reaches the board as nothing at all.
THEOREM BoardReadsAsked == Spec => []BoardReadsCommands
<1>1. Init => NoBlank
  <2>1. Len(<<>>) = 0
    BY EmptySeq
  <2> QED
    BY <2>1 DEF Init, NoBlank
<1>2. TypeOK /\ NoBlank => BoardReadsCommands
  <2> SUFFICES ASSUME TypeOK, NoBlank, NEW i \in DOMAIN wire
               PROVE  /\ wire[i] # Blank
                      /\ wire[i].kind = "command"
                           => \E m \in Messages : Ingress!Asks(m, wire[i].target)
    BY DEF BoardReadsCommands
  <2>1. i \in 1 .. Len(wire) /\ wire[i] \in Packet
    BY DEF TypeOK
  <2>2. wire[i] # Blank
    BY <2>1 DEF NoBlank
  <2>3. wire[i].kind = "command" => wire[i].target \in Commands
    BY <2>1 DEF Packet, PollingPacket, Blank, TemperaturePacket, CommandPacket
  <2> QED
    BY <2>2, <2>3, CommandsAreAsked
<1> QED
  BY <1>1, <1>2, WireStep, TypeCorrect, PTL DEF Spec

=============================================================================
