----------------------------- MODULE MqttIngress -----------------------------
(***************************************************************************)
(* From a message of the server to the bytes for the board:                *)
(* ParseMqttMessage reads the JSON, RequestPacket lays out the frame.      *)
(*                                                                         *)
(* A message is what the JSON parser makes of it: its shape and, of an     *)
(* object with all the members, the numbers and the list.  A member that   *)
(* is missing or of another type, and text that is JSON but no object,     *)
(* trip an assertion of rapidjson; such messages are not among these.      *)
(***************************************************************************)
EXTENDS Naturals, Sequences, ByteSums

\* The members that go into the header, in its order, then the address.
Numbers == [1 .. 7 -> Nat]
Shapes == {"garbled", "no data", "data garbled", "data no object", "object"}
Message == [shape : Shapes, numbers : Numbers, list : Seq(Nat)]

kSuccessParse == 0
kFailParsePayload == 1
kFailIsNotObject == 2
kEnd == 13

-----------------------------------------------------------------------------
\* A uint8_t takes what fits.
Cut(numbers) == [i \in DOMAIN numbers |-> numbers[i] % 256]

\* RequestPacket::CalculateChecksum.
CalculateChecksum(bytes) == ByteSum(bytes)

\* Mutant of Body: the data is left out without a length, the address is not.
AddressAnyway(header, address, data) ==
  IF header[5] > 0 THEN address \o data ELSE address

\* A header that announces no data has no body, not even the address.
Body(header, address, data) ==
  IF header[5] > 0 THEN address \o data ELSE <<>>

\* RequestPacket::Packet.
Packet(header, body) ==
  header \o body \o <<CalculateChecksum(header \o body), kEnd>>

\* The announced length is not compared with the list.
ParseMqttMessage(m) ==
  LET n == Cut(m.numbers)
      header == SubSeq(n, 1, 5)
  IN  CASE m.shape \in {"garbled", "no data", "data garbled"} ->
             [code |-> kFailParsePayload, packet |-> <<>>]
        [] m.shape = "data no object" -> [code |-> kFailIsNotObject, packet |-> <<>>]
        [] m.shape = "object" ->
             [code |-> kSuccessParse,
              packet |-> Packet(header, Body(header, SubSeq(n, 6, 7), Cut(m.list)))]

\* What on_message pushes; the empty vector for a message that fails.
MakePacket(m) ==
  LET parsed == ParseMqttMessage(m)
  IN  IF parsed.code # kSuccessParse THEN <<>> ELSE parsed.packet

-----------------------------------------------------------------------------
(* What a frame should be, said without the steps that make it.            *)

\* A sum as wide as it gets.
WideSum(numbers) ==
  LET sum[i \in 0 .. Len(numbers)] == IF i = 0 THEN 0 ELSE numbers[i] + sum[i - 1]
  IN  sum[Len(numbers)]

\* The numbers a message asks for: address and data unless the length is 0.
Asked(m) ==
  IF m.numbers[5] % 256 = 0 THEN SubSeq(m.numbers, 1, 5) ELSE m.numbers \o m.list

\* The frame, read byte by byte, is the one the JSON of m stands for: of every
\* number what fits a byte, of their sum what fits a byte, the end.
Asks(m, frame) ==
  LET whole == Asked(m)
  IN  /\ m.shape = "object"
      /\ Len(frame) = Len(whole) + 2
      /\ \A i \in DOMAIN whole : frame[i] = whole[i] % 256
      /\ frame[Len(whole) + 1] = WideSum(whole) % 256
      /\ frame[Len(frame)] = 13

=============================================================================
