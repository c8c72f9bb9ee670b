----------------------------- MODULE MasterSetup -----------------------------
(***************************************************************************)
(* What run() does before its main loop: it asks the master board for its  *)
(* id, then for the number of its slaves and for their ids, one request at *)
(* a time over the serial port, and starts over (SetupMasterId, or all of  *)
(* SetupSlaveIds) whenever a request brings no usable answer.              *)
(*                                                                         *)
(* After each request the gateway sleeps 500 ms and then takes the first   *)
(* packet that is in the receive buffer, if there is one.  Nothing in a    *)
(* packet is compared with the request: command, address and length are    *)
(* not looked at.  So an answer that comes too late stays in the buffer    *)
(* and is taken for the answer to a later request.                         *)
(***************************************************************************)
EXTENDS Naturals, Sequences

CONSTANTS
  PortOpen,        \* SERIAL_PORT names a device, and it opened
  BoardIdHigh,     \* the id in the board's memory, high byte
  BoardIdLow,      \* ... and low byte
  BoardSlaves,     \* the ids of the slaves the board is connected to
  Delivery,        \* what may happen to an answer: {"late", "lost", "damaged"}
  HeapByte,        \* what reading past the end of a vector may yield
  kMaxSlaveCount,  \* the size of the array of slave ids (127)
  kMaxDataLength,  \* the longest body ReceivePacket takes (129)
  MaxLate          \* bound: answers outstanding when a receive gives up

Byte == 0 .. 255
Id   == {high * 256 + low : high \in Byte, low \in Byte}

ASSUME SetupAssumption ==
  /\ PortOpen \in BOOLEAN
  /\ BoardIdHigh \in Byte /\ BoardIdLow \in Byte
  /\ BoardSlaves \in Seq(Byte)
  /\ Delivery \subseteq {"late", "lost", "damaged"}
  /\ HeapByte \subseteq Byte
  /\ kMaxSlaveCount \in 2 .. 253
  /\ kMaxDataLength = kMaxSlaveCount + 2
  /\ Len(BoardSlaves) <= kMaxSlaveCount
  /\ MaxLate \in Nat

VARIABLES
  step,         \* what run() is setting up, or how it ended
  mode,         \* "request", or "receive" once the request is sent
  asked,        \* the requests the board has not answered
  rx,           \* the receive buffer: the answers, and whether they are intact
  master_id,    \* master_board_'s fields
  slave_count,
  slave_ids,    \* what was copied into the array; the rest of it is 0
  late          \* some receive gave up before the board had answered

fields == <<master_id, slave_count, slave_ids>>
vars == <<step, mode, asked, rx, fields, late>>

-----------------------------------------------------------------------------
(* Requests and answers.  A request names what is read and how many bytes. *)

What == {"master_id", "slave_count", "slave_ids"}
Request == [what : What, n : Byte]

\* Mutant of RequestOf: the last slave id is not asked for.
RequestOfOneShort(s) ==
  [what |-> s,
   n |-> CASE s = "master_id"   -> 2
           [] s = "slave_count" -> 1
           [] s = "slave_ids"   -> slave_count - 1]

\* RequestMasterId, RequestSlaveCount, RequestSlaveIds(slave_count).
RequestOf(s) ==
  [what |-> s,
   n |-> CASE s = "master_id"   -> 2
           [] s = "slave_count" -> 1
           [] s = "slave_ids"   -> slave_count]

\* The memory the board reads for a request (external).
DataOf(r) ==
  CASE r.what = "master_id"   -> <<BoardIdHigh, BoardIdLow>>
    [] r.what = "slave_count" -> <<Len(BoardSlaves)>>
    [] r.what = "slave_ids"   ->
         [i \in 1 .. r.n |-> IF i <= Len(BoardSlaves) THEN BoardSlaves[i] ELSE 0]

\* Mutant of Usable: a body of any length is copied.
UsableAnyLength(a) == a.intact

\* The answer has a valid checksum and a body ReceivePacket takes: two
\* address bytes, then the data.
Usable(a) == a.intact /\ Len(DataOf(a.to)) + 2 <= kMaxDataLength

\* data[i - 1] of a body with some data.
DataAt(d, i) == IF i <= Len(d) THEN {d[i]} ELSE HeapByte

-----------------------------------------------------------------------------
Init ==
  /\ step = "master_id"
  /\ mode = "request"
  /\ asked = <<>>
  /\ rx = <<>>
  /\ master_id = 0
  /\ slave_count = 0
  /\ slave_ids = <<>>
  /\ late = FALSE

\* Mutant of SendRequest: the request is sent twice, to be sure.
SendRequestTwice ==
  /\ step \in What
  /\ mode = "request"
  /\ PortOpen
  /\ asked' = asked \o <<RequestOf(step), RequestOf(step)>>
  /\ mode' = "receive"
  /\ UNCHANGED <<step, rx, fields, late>>

\* Writing to a port that is not open throws; the exception leaves run().
SendRequest ==
  /\ step \in What
  /\ mode = "request"
  /\ IF PortOpen
       THEN /\ asked' = Append(asked, RequestOf(step))
            /\ mode' = "receive"
            /\ UNCHANGED step
       ELSE /\ step' = "exited"
            /\ UNCHANGED <<asked, mode>>
  /\ UNCHANGED <<rx, fields, late>>

\* Mutants of Retry: every failure starts over at the master id; the gateway
\* receives again without asking again.
RetryFromStart ==
  /\ mode' = "request"
  /\ step' = "master_id"

RetryNoRequest ==
  /\ mode' = "receive"
  /\ step' = IF step = "master_id" THEN "master_id" ELSE "slave_count"

\* Where run() starts over: at SetupMasterId, or at the head of SetupSlaveIds.
Retry ==
  /\ mode' = "request"
  /\ step' = IF step = "master_id" THEN "master_id" ELSE "slave_count"

\* Nothing has come after 500 ms: the answer was lost, or it is late.
ReceiveNothing ==
  /\ step \in What
  /\ mode = "receive"
  /\ rx = <<>>
  /\ \/ /\ asked = <<>>
        /\ UNCHANGED late
     \/ /\ asked # <<>>
        /\ "late" \in Delivery
        /\ Len(asked) <= MaxLate
        /\ late' = TRUE
  /\ Retry
  /\ UNCHANGED <<asked, rx, fields>>

\* The packet fails its checksum or is too long.
ReceiveUnusable ==
  /\ step \in What
  /\ mode = "receive"
  /\ rx # <<>>
  /\ ~Usable(Head(rx))
  /\ rx' = Tail(rx)
  /\ Retry
  /\ UNCHANGED <<asked, fields, late>>

\* The data of the packet that is there, whatever it answers.
Receive(s, next) ==
  /\ step = s
  /\ mode = "receive"
  /\ rx # <<>>
  /\ Usable(Head(rx))
  /\ rx' = Tail(rx)
  /\ mode' = "request"
  /\ step' = next
  /\ UNCHANGED <<asked, late>>

Received == DataOf(Head(rx).to)

\* SetupMasterId, ParseMasterId: two bytes, high byte first.
ReceiveMasterId ==
  /\ Receive("master_id", "slave_count")
  /\ Received # <<>>
  /\ \E high \in DataAt(Received, 1), low \in DataAt(Received, 2) :
       master_id' = high * 256 + low
  /\ UNCHANGED <<slave_count, slave_ids>>

\* GetSlaveCount, SetSlaveCount.
ReceiveSlaveCount ==
  /\ Receive("slave_count", "slave_ids")
  /\ Received # <<>>
  /\ slave_count' = Received[1]
  /\ UNCHANGED <<master_id, slave_ids>>

\* Both index the data without a look at its length; there may be none.
ReceiveNoData ==
  /\ step \in {"master_id", "slave_count"}
  /\ Receive(step, "crashed")
  /\ Received = <<>>
  /\ UNCHANGED fields

\* GetSlaveIds copies all of the data into the array; SetSlaveIds.
ReceiveSlaveIds ==
  /\ Receive("slave_ids", "ready")
  /\ slave_ids' = Received
  /\ UNCHANGED <<master_id, slave_count>>

-----------------------------------------------------------------------------
(* The board (external): it answers requests in the order they come.       *)

BoardAnswers(w) ==
  /\ asked # <<>>
  /\ Head(asked).what = w
  /\ asked' = Tail(asked)
  /\ rx' = Append(rx, [to |-> Head(asked), intact |-> TRUE])
  /\ UNCHANGED <<step, mode, fields, late>>

AnswerDamaged ==
  /\ "damaged" \in Delivery
  /\ asked # <<>>
  /\ asked' = Tail(asked)
  /\ rx' = Append(rx, [to |-> Head(asked), intact |-> FALSE])
  /\ UNCHANGED <<step, mode, fields, late>>

AnswerLost ==
  /\ "lost" \in Delivery
  /\ asked # <<>>
  /\ asked' = Tail(asked)
  /\ UNCHANGED <<step, mode, rx, fields, late>>

-----------------------------------------------------------------------------
Gateway ==
  \/ SendRequest \/ ReceiveNothing \/ ReceiveUnusable
  \/ ReceiveMasterId \/ ReceiveSlaveCount \/ ReceiveNoData \/ ReceiveSlaveIds

Next ==
  \/ Gateway
  \/ \E w \in What : BoardAnswers(w)
  \/ AnswerDamaged \/ AnswerLost

Spec == Init /\ [][Next]_vars

\* The gateway goes on, and the board answers.
Board == (\E w \in What : BoardAnswers(w)) \/ AnswerDamaged \/ AnswerLost
FairSpec == Spec /\ WF_vars(Gateway) /\ WF_vars(Board)

-----------------------------------------------------------------------------
(* Properties.                                                             *)

\* Every variable has its type; in particular the ids GetSlaveIds copies fit
\* the array of kMaxSlaveCount bytes.
TypeOK ==
  /\ step \in What \cup {"ready", "exited", "crashed"}
  /\ mode \in {"request", "receive"}
  /\ asked \in Seq(Request)
  /\ rx \in Seq([to : Request, intact : BOOLEAN])
  /\ master_id \in Id
  /\ slave_count \in Byte
  /\ slave_ids \in Seq(Byte)
  /\ Len(slave_ids) <= kMaxSlaveCount
  /\ late \in BOOLEAN

BoardId == BoardIdHigh * 256 + BoardIdLow

\* Once SetupMasterId is done the gateway has the board's id, whatever was
\* late, lost or damaged: until then nothing but the id was ever asked for.
MasterIdRight == step \notin {"master_id", "exited", "crashed"} => master_id = BoardId

\* If no answer was late, the gateway enters its main loop with the board's
\* slaves: requests and answers have stayed in step through every retry.
SlavesRight ==
  step = "ready" /\ ~late =>
    slave_count = Len(BoardSlaves) /\ slave_ids = BoardSlaves

\* If no answer was late, no packet without data is ever indexed.
NoCrash == ~late => step # "crashed"

\* Once the line misbehaves no more, the retries of SetupMasterId and
\* SetupSlaveIds come to an end: the stale and damaged answers that are still
\* in the buffer by then cannot keep the gateway asking for ever.  (The end is
\* the main loop unless a stale answer without data is indexed: see NoCrash.)
GivesUpEarly == ReceiveNothing /\ asked # <<>>
Misbehaves   == GivesUpEarly \/ AnswerDamaged \/ AnswerLost
SetupCompletes == <>[][~Misbehaves]_vars => <>(step \in {"ready", "crashed"})

\* "Master에 연결된 slave 수 읽기": the count GetSlaveCount returns is the number
\* of slaves connected to the master.
SlaveCountRead == step \in {"slave_ids", "ready"} => slave_count = Len(BoardSlaves)

\* The README has the binary executed once the cable is connected; it does not
\* end before it has talked to the board.
StaysUp == step # "exited"
=============================================================================
