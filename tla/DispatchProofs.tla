--------------------------- MODULE DispatchProofs ---------------------------
(* Theorems of Dispatch, for every packet the board may send and every      *)
(* value that reading past the end of the data may yield.                  *)
EXTENDS Dispatch, TLAPS

\* What is in an empty list of messages, in one of one and in one of two.
LEMMA Listed ==
  /\ ToSet(<<>>) = {} /\ Len(<<>>) = 0
  /\ \A m : ToSet(<<m>>) = {m} /\ Len(<<m>>) = 1
  /\ \A m, n : ToSet(<<m, n>>) = {m, n} /\ Len(<<m, n>>) = 2
<1>1. ToSet(<<>>) = {} /\ Len(<<>>) = 0
  BY DEF ToSet
<1>2. ASSUME NEW m PROVE ToSet(<<m>>) = {m} /\ Len(<<m>>) = 1
  BY DEF ToSet
<1>3. ASSUME NEW m, NEW n PROVE ToSet(<<m, n>>) = {m, n} /\ Len(<<m, n>>) = 2
  BY DEF ToSet
<1> QED
  BY <1>1, <1>2, <1>3

-----------------------------------------------------------------------------
(* The messages.                                                           *)

\* No success of a write: its topic would have five parts.
Other(m) == m.payload \in Int /\ Len(m.topic) # 5

LEMMA OtherMessages ==
  /\ \A what : Other(Asserted(what))
  /\ \A sensor : \A payload \in Int : Other(State(sensor, payload))
  /\ \A id : \A payload \in Int : Other(Message(<<"slave", id, "temperature">>, payload))
  /\ \A payload \in Int : /\ Other(Message(<<"polling">>, payload))
                          /\ Other(Message(<<"polling", "error">>, payload))
                          /\ Other(Message(<<"test-res-packet">>, payload))
BY DEF Other, Asserted, State, Message, Text

\* The bytes of the data, and what may be read past its end, are bytes.
LEMMA DataIsBytes ==
  ASSUME TypeOK, NEW i \in Nat \ {0}
  PROVE  DataAt(i) \subseteq Byte
<1>1. packet.data \in DataChoices \/ packet.data = <<>>
  <2>1. packet \in WithBody \/ packet \in WithoutBody \/ packet = NoPacket
    BY DEF TypeOK
  <2>2. CASE packet \in WithBody
    BY <2>2 DEF WithBody
  <2>3. CASE packet \in WithoutBody
    BY <2>3 DEF WithoutBody
  <2>4. CASE packet = NoPacket
    BY <2>4 DEF NoPacket
  <2> QED
    BY <2>1, <2>2, <2>3, <2>4
<1>2. HeapByte \subseteq Byte
  BY HeapAssumption
<1>3. packet.data \in Seq(Byte)
  <2> DEFINE B == Byte
  <2>1. DataChoices \subseteq Seq(B)
    BY DataAssumption
  <2>2. <<>> \in Seq(B)
    <3> HIDE DEF B
    <3> QED OBVIOUS
  <2> QED
    BY <1>1, <2>1, <2>2
<1>4. i <= Len(packet.data) => packet.data[i] \in Byte
  BY <1>3
<1> QED
  BY <1>2, <1>4 DEF DataAt

LEMMA DecodedInt ==
  ASSUME NEW high \in Byte, NEW low \in Byte
  PROVE  Decoded(high, low) \in Int
BY DEF Decoded, Byte

\* The answer to a write of an actuator: a success only with kOK.
LEMMA ResponseTopic ==
  ASSUME NEW s
  PROVE  /\ Response(s).payload \in Int
         /\ Response(s).topic = <<"slave", packet.target_id, s, "state", "response">>
              \/ (packet.error_code # kOK /\ Len(Response(s).topic) = 6)
         /\ packet.error_code # kOK => Len(Response(s).topic) = 6
BY DEF Response, Message, Text

-----------------------------------------------------------------------------
(* The handlers.                                                           *)

\* All messages are others, and there are no more than two.
Ordinary(messages) == Len(messages) <= 2 /\ \A m \in ToSet(messages) : Other(m)

LEMMA OrdinaryLists ==
  /\ Ordinary(<<>>)
  /\ \A m : Other(m) => Ordinary(<<m>>)
  /\ \A m, n : Other(m) /\ Other(n) => Ordinary(<<m, n>>)
BY Listed DEF Ordinary

LEMMA SensorStateOther ==
  ASSUME TypeOK, NEW s, NEW m \in SensorState(s)
  PROVE  Other(m)
<1>1. CASE packet.data = <<>>
  BY <1>1, OtherMessages DEF SensorState
<1>2. CASE packet.data # <<>>
  <2>0. m \in {State(s, high * 256 + low) : high \in DataAt(3), low \in DataAt(4)}
    BY <1>2 DEF SensorState
  <2> PICK high \in DataAt(3), low \in DataAt(4) : m = State(s, high * 256 + low)
    BY <2>0
  <2>1. DataAt(3) \subseteq Byte /\ DataAt(4) \subseteq Byte
    BY DataIsBytes
  <2>2. high \in Byte /\ low \in Byte
    BY <2>1
  <2>3. high * 256 + low \in Int
    BY <2>2 DEF Byte
  <2> QED
    BY <2>3, OtherMessages
<1> QED
  BY <1>1, <1>2

\* Every handler but that of a write publishes ordinary messages.
LEMMA OrdinaryHandlers ==
  ASSUME TypeOK,
         DropDamaged \/ ParsePolling \/ ParseMemoryRead \/ ParseEmergency
           \/ ParseDefault \/ Polling
  PROVE  Ordinary(published') \/ UNCHANGED published
<1>0. Text \in Int /\ kOK \in Int /\ NoResponse \in Int
  BY DEF Text, kOK, NoResponse
<1>1. CASE DropDamaged \/ ParsePolling \/ ParseDefault
  BY <1>0, <1>1, OtherMessages, OrdinaryLists DEF DropDamaged, ParsePolling, ParseDefault, Publish
<1>2. CASE Polling
  BY <1>0, <1>2, OtherMessages, OrdinaryLists DEF Polling, Publish
<1>3. CASE ParseMemoryRead
  <2>1. CASE PublishTemperature
    <3>1. CASE packet.data = <<>>
      BY <2>1, <3>1 DEF PublishTemperature
    <3>2. CASE packet.data # <<>>
      <4> PICK high \in DataAt(1), low \in DataAt(2) :
                 published' = <<Message(<<"slave", packet.target_id, "temperature">>,
                                        Decoded(high, low))>>
        BY <2>1, <3>2 DEF PublishTemperature, Publish
      <4>1. Decoded(high, low) \in Int
        BY DataIsBytes, DecodedInt
      <4> QED
        BY <4>1, OtherMessages, OrdinaryLists
    <3> QED
      BY <3>1, <3>2
  <2>2. CASE ~PublishTemperature
    <3>1. \/ published' = <<Asserted("MemReadHumidity"), Message(<<"test-res-packet">>, Text)>>
          \/ \E s \in {"water", "led", "fan"} : published' = <<State(s, Text)>>
          \/ published' = <<>>
      BY <1>3, <2>2 DEF ParseMemoryRead, Publish
    <3> QED
      BY <1>0, <3>1, OtherMessages, OrdinaryLists
  <2> QED
    BY <2>1, <2>2
<1>4. CASE ParseEmergency
  <2>1. \/ \E what \in {"EmergencyTemperature", "EmergencyHumidity", "EmergencyDefault"} :
             published' = <<Asserted(what)>>
        \/ \E s \in {"water", "led"} : \E m \in SensorState(s) : published' = <<m>>
        \/ \E m \in SensorState("fan") : published' = <<m, Asserted("EmergencyDefault")>>
    BY <1>4 DEF ParseEmergency, Publish
  <2> QED
    BY <2>1, SensorStateOther, OtherMessages, OrdinaryLists
<1> QED
  BY <1>1, <1>2, <1>3, <1>4

\* The handler of a write publishes one message, the answer of the actuator
\* the address is of, or an assertion.
LEMMA WriteHandler ==
  ASSUME TypeOK, ParseMemoryWrite
  PROVE  \/ Ordinary(published')
         \/ \E s \in {"water", "led", "fan"} :
              published' = <<Response(s)>> /\ Sensor(packet.address) = s
<1>1. \/ \E what \in {"MemoryWriteTemperature", "MemoryWriteHumidity", "MemoryWriteDefault"} :
           published' = <<Asserted(what)>>
      \/ packet.address \in Motor /\ published' = <<Response("water")>>
      \/ packet.address \in Led /\ published' = <<Response("led")>>
      \/ packet.address \in Fan /\ published' = <<Response("fan")>>
  BY DEF ParseMemoryWrite, Publish
<1>2. /\ \A a \in Motor : Sensor(a) = "water"
      /\ \A a \in Led : Sensor(a) = "led"
      /\ \A a \in Fan : Sensor(a) = "fan"
  <2>1. \A a \in Motor : a \in 4000 .. 4179 /\ (a - 4000) \div 60 + 1 = 1
    BY DEF Motor
  <2>2. \A a \in Led : a \in 4000 .. 4179 /\ (a - 4000) \div 60 + 1 = 2
    BY DEF Led
  <2>3. \A a \in Fan : a \in 4000 .. 4179 /\ (a - 4000) \div 60 + 1 = 3
    BY DEF Fan
  <2> QED
    BY <2>1, <2>2, <2>3 DEF Sensor
<1> QED
  BY <1>1, <1>2, OtherMessages, OrdinaryLists

-----------------------------------------------------------------------------
\* Type correctness: at most two messages, and a count that stays in its cap.
THEOREM TypeCorrect == Spec => []TypeOK
<1>1. Init => TypeOK
  <2> SUFFICES ASSUME Init PROVE TypeOK
    OBVIOUS
  <2>1. kMaxPollingCount \in Nat
    BY ONLY DispatchAssumption
  <2> QED
    BY <2>1, Listed DEF Init, TypeOK
<1>2. TypeOK /\ [Next]_vars => TypeOK'
  <2> SUFFICES ASSUME TypeOK, [Next]_vars PROVE TypeOK'
    OBVIOUS
  <2>0. kMaxPollingCount \in Nat /\ polling_count \in 0 .. kMaxPollingCount + 2
    <3>1. kMaxPollingCount \in Nat
      BY ONLY DispatchAssumption
    <3> QED
      BY ONLY TypeOK, <3>1 DEF TypeOK
  <2>1. CASE Receive
    BY <2>1, Listed DEF Receive, TypeOK
  <2>2. CASE Handler \/ Polling
    <3>1. /\ \A m \in ToSet(published') : m.payload \in Int
          /\ Len(published') <= 2
      <4>1. CASE Ordinary(published') \/ UNCHANGED published
        BY <4>1 DEF Ordinary, Other, TypeOK
      <4>2. CASE \E s : published' = <<Response(s)>>
        BY <4>2, Listed, ResponseTopic
      <4> QED
        BY <2>2, <4>1, <4>2, OrdinaryHandlers, WriteHandler DEF Handler
    <3>2. polling_count' \in 0 .. kMaxPollingCount + 2
      <4>1. CASE Polling
        BY <2>0, <4>1 DEF Polling
      <4>2. CASE Handler
        BY <2>0, <4>2 DEF Handler, DropDamaged, ParsePolling, ParseMemoryRead,
                          ParseMemoryWrite, ParseEmergency, ParseDefault
      <4> QED
        BY <2>2, <4>1, <4>2
    <3>3. running' \in BOOLEAN /\ packet' \in {packet, NoPacket}
      BY <2>2 DEF Handler, Polling, DropDamaged, ParsePolling, ParseMemoryRead,
                  ParseMemoryWrite, ParseEmergency, ParseDefault, Publish,
                  PublishTemperature, TypeOK
    <3> QED
      BY <3>1, <3>2, <3>3 DEF TypeOK
  <2>3. CASE UNCHANGED vars
    BY <2>3 DEF vars, TypeOK
  <2> QED
    BY <2>1, <2>2, <2>3 DEF Next
<1> QED
  BY <1>1, <1>2, PTL DEF Spec

-----------------------------------------------------------------------------
(* What the server is told of a write.                                     *)

\* While a packet is being handled nothing of it has been published yet.
Unpublished == packet # NoPacket => published = <<>>

LEMMA UnpublishedStep ==
  ASSUME Unpublished, Next
  PROVE  Unpublished'
<1>1. CASE Receive
  BY <1>1 DEF Receive, Unpublished
<1>2. CASE Handler
  BY <1>2 DEF Handler, Unpublished, DropDamaged, ParsePolling, ParseMemoryRead,
              ParseMemoryWrite, ParseEmergency, ParseDefault, Publish, PublishTemperature
<1>3. CASE Polling
  BY <1>3 DEF Polling, Publish, Unpublished
<1> QED
  BY <1>1, <1>2, <1>3 DEF Next

\* The success of a write of actuator s of slave t.
Success(t, s) == <<"slave", t, s, "state", "response">>

LEMMA SuccessHasFiveParts ==
  ASSUME NEW m, NEW t, NEW s, m.topic = Success(t, s)
  PROVE  Len(m.topic) = 5
BY DEF Success

\* The server is told that an actuator did what a write asked for only when
\* the slave said so with kOK, about memory of that actuator.
THEOREM SuccessTrue == Spec => SuccessIsTrue
<1> DEFINE True(m, t, s) ==
             m.topic = Success(t, s) =>
               /\ packet.intact
               /\ packet.command = kMemoryWrite
               /\ packet.error_code = kOK
               /\ packet.target_id = t
               /\ Sensor(packet.address) = s
           Claim == \A m \in ToSet(published'), t \in Targets, s \in {"water", "led", "fan"} :
                      True(m, t, s)
<1>1. Init => Unpublished
  BY DEF Init, Unpublished
<1>2. Unpublished /\ [Next]_vars => Unpublished'
  BY UnpublishedStep DEF Unpublished, vars
<1>3. TypeOK /\ Unpublished /\ [Next]_vars => [Claim]_vars
  <2> SUFFICES ASSUME TypeOK, Unpublished, Next PROVE Claim
    OBVIOUS
  <2> TAKE m \in ToSet(published'), t \in Targets, s \in {"water", "led", "fan"}
  <2> SUFFICES ASSUME m.topic = Success(t, s) PROVE True(m, t, s)
    OBVIOUS
  <2>0. Len(m.topic) = 5
    BY SuccessHasFiveParts
  <2>1. ~Ordinary(published') /\ published' # <<>>
    BY <2>0, Listed DEF Ordinary, Other
  <2>2. ParseMemoryWrite
    <3>1. CASE Receive
      BY <2>1, <3>1 DEF Receive
    <3>2. CASE DropDamaged \/ ParsePolling \/ ParseMemoryRead \/ ParseEmergency \/ ParseDefault
      <4>1. packet # NoPacket
        BY <3>2 DEF DropDamaged, ParsePolling, ParseMemoryRead, ParseEmergency, ParseDefault, Handling
      <4>2. published = <<>>
        BY <4>1 DEF Unpublished
      <4> QED
        BY <2>1, <3>2, <4>2, OrdinaryHandlers
    <3>3. CASE Polling
      BY <2>1, <3>3, Listed, OtherMessages, OrdinaryLists DEF Polling, Publish, NoResponse
    <3> QED
      BY <3>1, <3>2, <3>3 DEF Next, Handler
  <2>3. PICK u \in {"water", "led", "fan"} :
          published' = <<Response(u)>> /\ Sensor(packet.address) = u
    BY <2>1, <2>2, WriteHandler
  <2>4. m = Response(u)
    BY <2>3, Listed
  <2>5. packet.error_code = kOK /\ Success(t, s) = <<"slave", packet.target_id, u, "state", "response">>
    BY <2>0, <2>4, ResponseTopic
  <2>6. t = packet.target_id /\ s = u
    BY <2>5 DEF Success
  <2>7. packet.intact /\ packet.command = kMemoryWrite
    BY <2>2 DEF ParseMemoryWrite, Handling
  <2> QED
    BY <2>3, <2>5, <2>6, <2>7
<1>4. (Claim <=> \A m \in ToSet(published'), t \in Targets, s \in {"water", "led", "fan"} :
        m.topic = <<"slave", t, s, "state", "response">> =>
          /\ packet.intact
          /\ packet.command = kMemoryWrite
          /\ packet.error_code = kOK
          /\ packet.target_id = t
          /\ Sensor(packet.address) = s)
  BY DEF Success
<1> QED
  BY <1>1, <1>2, <1>3, <1>4, TypeCorrect, PTL DEF Spec, SuccessIsTrue

=============================================================================
