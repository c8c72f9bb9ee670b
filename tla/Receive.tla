-------------------------------- MODULE Receive --------------------------------
(***************************************************************************)
(* How ReceivePacket finds packets in the bytes that come over the serial  *)
(* line, byte by byte, and how ListeningMaster tells a good one by its     *)
(* checksum.                                                               *)
(*                                                                         *)
(* The board sends whole frames.  On the line one byte may be hit: it      *)
(* changes, or it gets lost.  A read that wants more bytes than there are  *)
(* waits for them; it gives up, after 20 seconds, only while the board is  *)
(* silent, and then returns what there is.                                 *)
(***************************************************************************)
EXTENDS Naturals, Sequences, FiniteSets, SequencesExt, ByteSums

CONSTANTS
  Payloads,         \* what the board may send: [header, body]
  Noise,            \* the bytes a hit byte may turn into
  kMaxSlaveCount,   \* the longest body that is read (129 in the code)
  MaxFrames         \* bound: frames the board sends

Byte == 0 .. 255
kStart == 35
kEnd == 13
HeaderSize == 5   \* idx, target_id, command, error_code, data_length

Payload == [header : [1 .. HeaderSize - 1 -> Byte], body : Seq(Byte)]

\* A body begins with the two bytes of the address it is about.
ASSUME ReceiveAssumption ==
  /\ Payloads \subseteq Payload
  /\ \A p \in Payloads : Len(p.body) <= kMaxSlaveCount /\ Len(p.body) # 1
  /\ Noise \subseteq Byte
  /\ kMaxSlaveCount \in Byte
  /\ MaxFrames \in Nat

VARIABLES
  sent,      \* the payloads the board has sent
  air,       \* what is left on the line of the last frame sent
  hit,       \* [frame, at, kind] of the byte that was hit; frame 0 if none was
  buffer,    \* the serial port's receive buffer
  pc,        \* where ReceivePacket is
  header,    \* its local variables
  body,
  accepted,  \* the packets ParseCommand got, in order
  running,   \* the process is alive
  calm,      \* history: how many frames the board had sent, and the packets
  before     \* ParseCommand had got, when a frame was last sent on a quiet line

locals == <<pc, header, body>>
history == <<calm, before>>
vars == <<sent, air, hit, buffer, locals, accepted, running, history>>

-----------------------------------------------------------------------------
(* Frames.                                                                 *)

\* CalculateChecksum: start, header and body.
Checksum(h, b) == ByteSum(<<kStart>> \o h \o b)

\* A frame: start, header with the length of the body, body, tail.
FrameOf(p) ==
  LET h == Append(p.header, Len(p.body))
  IN  <<kStart>> \o h \o p.body \o <<Checksum(h, p.body), kEnd>>

LengthOf(h) == h[HeaderSize]

\* A buffer of n zeros of which a read has filled the front.
Filled(bytes, n) == [i \in 1 .. n |-> IF i <= Len(bytes) THEN bytes[i] ELSE 0]

-----------------------------------------------------------------------------
Init ==
  /\ sent = <<>>
  /\ air = <<>>
  /\ hit = [frame |-> 0, at |-> 0, kind |-> "none"]
  /\ buffer = <<>>
  /\ pc = "away"
  /\ header = <<>>
  /\ body = <<>>
  /\ accepted = <<>>
  /\ running = TRUE
  /\ calm = 0 /\ before = <<>>

\* Nothing is on its way and ReceivePacket is not in the middle of anything.
Quiet == pc = "away" /\ air = <<>> /\ buffer = <<>>

(* The board and the line (external).                                      *)

BoardSends ==
  /\ air = <<>>
  /\ Len(sent) < MaxFrames
  /\ \E p \in Payloads :
       /\ sent' = Append(sent, p)
       /\ air' = FrameOf(p)
  /\ IF Quiet /\ running
       THEN calm' = Len(sent) /\ before' = accepted
       ELSE UNCHANGED history
  /\ UNCHANGED <<hit, buffer, locals, accepted, running>>

ByteArrives ==
  /\ air # <<>>
  /\ air' = Tail(air)
  /\ buffer' = Append(buffer, Head(air))
  /\ UNCHANGED <<sent, hit, locals, accepted, running, history>>

ByteIsHit(kind) ==
  /\ air # <<>>
  /\ hit.frame = 0
  /\ hit' = [frame |-> Len(sent),
             at |-> Len(FrameOf(Last(sent))) - Len(air),
             kind |-> kind]
  /\ air' = Tail(air)
  /\ \/ /\ kind = "changed"
        /\ \E b \in Noise \ {Head(air)} : buffer' = Append(buffer, b)
     \/ /\ kind = "lost"
        /\ UNCHANGED buffer
  /\ UNCHANGED <<sent, locals, accepted, running, history>>

-----------------------------------------------------------------------------
(* The serial port.                                                        *)

\* What read(n) may return; nothing while it waits.
Reads(n) ==
  IF Len(buffer) >= n THEN {SubSeq(buffer, 1, n)}
  ELSE IF air = <<>> THEN {buffer} ELSE {}

\* Mutant of Consumed: a read flushes what it did not ask for.
ConsumedAll(bytes) == buffer' = SubSeq(bytes, 1, 0)

Consumed(bytes) == buffer' = SubSeq(buffer, Len(bytes) + 1, Len(buffer))

-----------------------------------------------------------------------------
(* ReceivePacket.                                                          *)

Return == pc' = "away"

\* Mutant of TooLong: the length of the body is not checked.
NeverTooLong(h) == Len(h) = 0

TooLong(h) == LengthOf(h) > kMaxSlaveCount

\* Mutant of HalfAddress: the constructor does not ask whether the body is empty.
NoRoomForAddress(b) == Len(b) < 2

\* ResponsePacket takes two bytes of address out of any body but the empty one:
\* one byte makes it throw.
HalfAddress(b) == Len(b) = 1

\* Mutant of ValidChecksum: the end byte decides.
ValidEnd(h, b, tail) == Len(h \o b) > 0 /\ Last(tail) = kEnd

\* ValidChecksum; the end byte is not looked at.
ValidChecksum(h, b, tail) == tail[1] = Checksum(h, b)

Call ==
  /\ running
  /\ pc = "away"
  /\ buffer # <<>>
  /\ pc' = "scan"
  /\ UNCHANGED <<sent, air, hit, buffer, header, body, accepted, running, history>>

\* Nothing is available any more: kFailReceiveHeader.
NothingAvailable ==
  /\ pc = "scan"
  /\ buffer = <<>>
  /\ Return
  /\ UNCHANGED <<sent, air, hit, buffer, header, body, accepted, running, history>>

\* One byte is read; anything but kStart is skipped.
ReadStart ==
  /\ pc = "scan"
  /\ buffer # <<>>
  /\ buffer' = Tail(buffer)
  /\ pc' = IF Head(buffer) = kStart THEN "header" ELSE "scan"
  /\ UNCHANGED <<sent, air, hit, header, body, accepted, running, history>>

\* Any byte of a header will do; a body that is too long is left in the
\* buffer: kFailOverMaxSlaveCount.
ReadHeader ==
  /\ pc = "header"
  /\ \E got \in Reads(HeaderSize) :
       LET h == Filled(got, HeaderSize) IN
       /\ Consumed(got)
       /\ header' = h
       /\ pc' = CASE got = <<>>          -> "scan"
                  [] TooLong(h)          -> "away"
                  [] LengthOf(h) = 0     -> "tail"
                  [] OTHER               -> "body"
  /\ body' = <<>>
  /\ UNCHANGED <<sent, air, hit, accepted, running, history>>

\* Any byte of a body will do; none is kFailReceiveBodyData.
ReadBody ==
  /\ pc = "body"
  /\ \E got \in Reads(LengthOf(header)) :
       /\ Consumed(got)
       /\ body' = Filled(got, LengthOf(header))
       /\ pc' = IF got = <<>> THEN "away" ELSE "tail"
  /\ UNCHANGED <<sent, air, hit, header, accepted, running, history>>

\* The line ReceivePacket reads is two bytes: the line ending it gives is "13"
\* and never comes first.  kFailReceiveTail without a byte.
ReadTail ==
  /\ pc = "tail"
  /\ \E got \in Reads(2) :
       /\ Consumed(got)
       /\ \/ /\ got = <<>>
             /\ UNCHANGED <<accepted, running>>
          \/ /\ got # <<>>
             /\ HalfAddress(body)
             /\ running' = FALSE
             /\ UNCHANGED accepted
          \/ /\ got # <<>>
             /\ ~HalfAddress(body)
             /\ accepted' = IF ValidChecksum(header, body, got)
                              THEN Append(accepted,
                                          [header |-> SubSeq(header, 1, HeaderSize - 1),
                                           body |-> body])
                              ELSE accepted
             /\ UNCHANGED running
  /\ Return
  /\ UNCHANGED <<sent, air, hit, header, body, history>>

Gateway == Call \/ NothingAvailable \/ ReadStart \/ ReadHeader \/ ReadBody \/ ReadTail

Next ==
  \/ BoardSends \/ ByteArrives
  \/ \E kind \in {"changed", "lost"} : ByteIsHit(kind)
  \/ Gateway

Spec == Init /\ [][Next]_vars

-----------------------------------------------------------------------------
(* Properties.                                                             *)

\* Every variable has its type.
TypeOK ==
  /\ sent \in Seq(Payloads)
  /\ air \in Seq(Byte)
  /\ hit \in [frame : 0 .. MaxFrames, at : 0 .. HeaderSize + kMaxSlaveCount + 2,
             kind : {"none", "changed", "lost"}]
  /\ buffer \in Seq(Byte)
  /\ pc \in {"away", "scan", "header", "body", "tail"}
  /\ header \in Seq(Byte)
  /\ body \in Seq(Byte) /\ Len(body) <= kMaxSlaveCount
  /\ accepted \in Seq(Payload)
  /\ running \in BOOLEAN
  /\ calm \in 0 .. Len(sent) /\ before \in Seq(Payload)

\* sent without the frames of S.
Without(S) ==
  LET left == {i \in 1 .. Len(sent) : i \notin S}
  IN  [k \in 1 .. Cardinality(left) |->
         sent[CHOOSE i \in left : Cardinality({j \in left : j < i}) = k - 1]]

\* A hit that ReceivePacket does not lose its place by: a changed byte that is
\* neither the start of a frame nor the length of its body.
HitStaysInFrame ==
  hit.frame = 0 \/ (hit.kind = "changed" /\ hit.at \notin {0, HeaderSize})

\* Any other hit since the line was last quiet: ReceivePacket may take bytes of
\* bodies and headers for the start, the length and the checksum of a frame.
LostPlace == hit.frame > calm /\ ~HitStaysInFrame

\* Where ReceivePacket keeps its place the hit costs the frame it is in, unless
\* it is at the end byte, which ValidChecksum does not look at.
HitCosts == hit.frame # 0 /\ hit.at # Len(FrameOf(sent[hit.frame])) - 1

\* The frames from m + 1 to k whose packets are good.
KeptOf(m, k) ==
  IF HitCosts /\ hit.frame \in m + 1 .. k
    THEN SubSeq(sent, m + 1, hit.frame - 1) \o SubSeq(sent, hit.frame + 1, k)
    ELSE SubSeq(sent, m + 1, k)

\* The last frame that ReceivePacket is sure to come to.
Sure == IF LostPlace THEN hit.frame - 1 ELSE Len(sent)

\* The packets that should have been accepted, whatever the hit was, when all
\* that was sent has been read.
Due == before \o KeptOf(calm, Sure)

\* While ReceivePacket has its place only what the board sent is accepted, in
\* the order it was sent; and a hit that makes it lose its place changes nothing
\* in what is accepted of the frames sent before that.  (What it accepts later,
\* until the line is quiet, the 8-bit sum does not vouch for.)
OnlySentAccepted ==
  IsPrefix(accepted, Due) \/ (LostPlace /\ IsPrefix(Due, accepted))

\* Silence heals: when the line is quiet every frame sent since it last was
\* quiet has been accepted, but for what a hit since then cost.  A hit that made
\* ReceivePacket lose its place can cost the frames that follow it without a
\* pause, and none that came before it or that come after the next silence.
DamageIsContained ==
  Quiet /\ running => IF LostPlace THEN IsPrefix(Due, accepted) ELSE accepted = Due

\* With a hit that ReceivePacket does not lose its place by the gateway has, when
\* the line is quiet, every frame but the one that was hit, and that one too if
\* only its end byte was: the checksum finds any one byte that changed, and the
\* frames after it are found where they are.
OnlyHitFrameLost ==
  HitStaysInFrame /\ Quiet =>
    /\ running
    /\ accepted =
         IF hit.frame = 0 \/ hit.at = Len(FrameOf(sent[hit.frame])) - 1
           THEN sent ELSE Without({hit.frame})

\* A body without an address, which ends the gateway, is read only where
\* ReceivePacket has lost its place, and a silence gives it its place back.
SurvivesNoise == ~running => LostPlace
=============================================================================
