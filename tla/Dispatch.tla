------------------------------- MODULE Dispatch -------------------------------
(***************************************************************************)
(* What the main thread does with what the master board sends:             *)
(* ListeningMaster takes a packet, drops it if it is damaged, and          *)
(* ParseCommand routes it by its command and by the memory address in its  *)
(* body to the handler that publishes it over MQTT.  Polling is here with  *)
(* the count of unanswered polls it keeps; the packet it queues is in      *)
(* PacketQueue.                                                            *)
(*                                                                         *)
(* This is the release build: what is under #ifdef DEBUG is left out.      *)
(* Topics are the tuple of their parts; a topic under "master/<id>" of the *)
(* board's own id starts with "slave", one under the fixed "master/1" does *)
(* not.  A payload is the value published; the text of a whole packet      *)
(* (PacketToString) is the constant Text.                                  *)
(***************************************************************************)
EXTENDS Integers, Sequences, SequencesExt

CONSTANTS
  Targets,          \* the slave ids a packet may carry
  Addresses,        \* the memory addresses a packet may carry
  ErrorCodes,       \* ... and the error codes
  DataChoices,      \* ... and the data after the address
  HeapByte,         \* what reading past the end of the data may yield
  kMaxPollingCount  \* 10

Byte == 0 .. 255
Word == 0 .. 65535

ASSUME DispatchAssumption ==
  /\ Targets \subseteq Byte
  /\ Addresses \subseteq Word
  /\ ErrorCodes \subseteq Byte
  /\ kMaxPollingCount \in Nat

ASSUME HeapAssumption == HeapByte \subseteq Byte
ASSUME DataAssumption == DataChoices \subseteq Seq(Byte)

VARIABLES
  running,        \* the process is alive
  packet,         \* the packet ReceivePacket returned, or NoPacket
  published,      \* the messages the last handler published, in order
  polling_count   \* master_board_.polling_count_, capped

vars == <<running, packet, published, polling_count>>

-----------------------------------------------------------------------------
kPolling == 160
kMemoryRead == 193
kMemoryWrite == 209
kEmergency == 224
kOK == 128

\* The ranges of EMemoryMap.
Temperature == 2000 .. 2019
Humidity    == 2020 .. 2039
Motor       == 4000 .. 4059
Led         == 4060 .. 4119
Fan         == 4120 .. 4179

\* A packet without a body has no address; ParseCommand takes 0.
WithBody == [command : {kPolling, kMemoryRead, kMemoryWrite, kEmergency, 0},
             target_id : Targets, error_code : ErrorCodes,
             address : Addresses, data : DataChoices, intact : BOOLEAN]
WithoutBody == [command : {kPolling, kMemoryRead, kMemoryWrite, kEmergency, 0},
                target_id : Targets, error_code : ErrorCodes,
                address : {0}, data : {<<>>}, intact : BOOLEAN]
NoPacket == [command |-> 0, target_id |-> 0, error_code |-> 0,
             address |-> 0, data |-> <<>>, intact |-> FALSE]

Text == -1
NoResponse == -2

Message(topic, payload) == [topic |-> topic, payload |-> payload]
Asserted(what) == Message(<<"assert", what>>, Text)
\* GetSlaveStateTopic; the id is that of the packet.
State(sensor, payload) ==
  Message(<<"slave", packet.target_id, sensor, "state">>, payload)

\* data[i - 1]: past the end of the data it is whatever is there.
DataAt(i) == IF i <= Len(packet.data) THEN {packet.data[i]} ELSE HeapByte

-----------------------------------------------------------------------------
Init ==
  /\ running = TRUE
  /\ packet = NoPacket
  /\ published = <<>>
  /\ polling_count = 0

\* ReceivePacket returns the next packet of the board.
Receive ==
  /\ running
  /\ packet = NoPacket
  /\ packet' \in WithBody \cup WithoutBody
  /\ published' = <<>>
  /\ UNCHANGED <<running, polling_count>>

Publish(messages) ==
  /\ running
  /\ published' = messages
  /\ packet' = NoPacket
  /\ UNCHANGED running

Handling(command) ==
  /\ packet # NoPacket
  /\ packet.intact
  /\ packet.command = command

\* Mutant of DropDamaged: whatever comes counts as a sign of life.
DropDamagedResets ==
  /\ packet # NoPacket
  /\ ~packet.intact
  /\ Publish(<<>>)
  /\ polling_count' = 0

\* ListeningMaster: the checksum is wrong.
DropDamaged ==
  /\ packet # NoPacket
  /\ ~packet.intact
  /\ Publish(<<>>)
  /\ UNCHANGED polling_count

\* Mutant of ParsePolling: an answer takes back one poll.
ParsePollingDecrements ==
  /\ Handling(kPolling)
  /\ Publish(<<Message(<<"polling">>, kOK)>>)
  /\ polling_count' = polling_count - 1

\* PublishPollingSuccess.
ParsePolling ==
  /\ Handling(kPolling)
  /\ Publish(<<Message(<<"polling">>, kOK)>>)
  /\ polling_count' = 0

\* The value PublishTemperature computes, in tenths of a degree.
Decoded(high, low) ==
  LET ten   == (high % 16) * 16
      one   == low \div 16
      point == high % 16
      value == (ten + one) * 10 + point
  IN  IF high > 240 THEN -value ELSE value

\* PublishTemperature: with no data at all the vector has no memory to read.
PublishTemperature ==
  \/ /\ packet.data # <<>>
     /\ \E high \in DataAt(1), low \in DataAt(2) :
          Publish(<<Message(<<"slave", packet.target_id, "temperature">>,
                            Decoded(high, low))>>)
  \/ /\ packet.data = <<>>
     /\ running' = FALSE
     /\ UNCHANGED <<packet, published>>

ParseMemoryRead ==
  /\ Handling(kMemoryRead)
  /\ \/ packet.address \in Temperature /\ PublishTemperature
     \/ /\ packet.address \in Humidity
        /\ Publish(<<Asserted("MemReadHumidity"), Message(<<"test-res-packet">>, Text)>>)
     \/ packet.address \in Motor /\ Publish(<<State("water", Text)>>)
     \/ packet.address \in Led /\ Publish(<<State("led", Text)>>)
     \/ packet.address \in Fan /\ Publish(<<State("fan", Text)>>)
     \/ /\ packet.address \notin Temperature \cup Humidity \cup Motor \cup Led \cup Fan
        /\ Publish(<<>>)
  /\ UNCHANGED polling_count

\* Mutant of Response: the error code is not looked at.
ResponseUnchecked(sensor) ==
  Message(<<"slave", packet.target_id, sensor, "state", "response">>, Text)

\* The topic of an answer to a write: the server's request was done or not.
Response(sensor) ==
  LET topic == <<"slave", packet.target_id, sensor, "state", "response">>
      success == packet.error_code = kOK
  IN  Message(IF success THEN topic ELSE Append(topic, "fail"), Text)

ParseMemoryWrite ==
  /\ Handling(kMemoryWrite)
  /\ \/ packet.address \in Temperature /\ Publish(<<Asserted("MemoryWriteTemperature")>>)
     \/ packet.address \in Humidity /\ Publish(<<Asserted("MemoryWriteHumidity")>>)
     \/ packet.address \in Motor /\ Publish(<<Response("water")>>)
     \/ packet.address \in Led /\ Publish(<<Response("led")>>)
     \/ packet.address \in Fan /\ Publish(<<Response("fan")>>)
     \/ /\ packet.address \notin Temperature \cup Humidity \cup Motor \cup Led \cup Fan
        /\ Publish(<<Asserted("MemoryWriteDefault")>>)
  /\ UNCHANGED polling_count

\* PublishSensorStateTopic: the length in the header counts the address too.
SensorState(sensor) ==
  IF packet.data = <<>>
    THEN {Asserted("emergencyDataLength")}
    ELSE {State(sensor, high * 256 + low) : high \in DataAt(3), low \in DataAt(4)}

\* The case of the fan has no return: the default follows.
ParseEmergency ==
  /\ Handling(kEmergency)
  /\ \/ packet.address \in Temperature /\ Publish(<<Asserted("EmergencyTemperature")>>)
     \/ packet.address \in Humidity /\ Publish(<<Asserted("EmergencyHumidity")>>)
     \/ packet.address \in Motor /\ \E m \in SensorState("water") : Publish(<<m>>)
     \/ packet.address \in Led /\ \E m \in SensorState("led") : Publish(<<m>>)
     \/ /\ packet.address \in Fan
        /\ \E m \in SensorState("fan") : Publish(<<m, Asserted("EmergencyDefault")>>)
     \/ /\ packet.address \notin Temperature \cup Humidity \cup Motor \cup Led \cup Fan
        /\ Publish(<<Asserted("EmergencyDefault")>>)
  /\ UNCHANGED polling_count

ParseDefault ==
  /\ Handling(0)
  /\ Publish(<<Asserted("ParseDefault")>>)
  /\ UNCHANGED polling_count

\* Polling: the error is published again at each poll once the count is over
\* its limit; the cap of the count is one above the first such value.
Polling ==
  /\ packet = NoPacket
  /\ Publish(IF polling_count > kMaxPollingCount
               THEN <<Message(<<"polling", "error">>, NoResponse)>>
               ELSE <<>>)
  /\ polling_count' = IF polling_count > kMaxPollingCount + 1
                        THEN polling_count ELSE polling_count + 1

Handler == DropDamaged \/ ParsePolling \/ ParseMemoryRead \/ ParseMemoryWrite
             \/ ParseEmergency \/ ParseDefault

Next == Receive \/ Handler \/ Polling

Spec == Init /\ [][Next]_vars

\* A handler runs to its end, and the main loop polls again and again however
\* much the board sends in between.
FairSpec == Spec /\ WF_vars(Handler) /\ SF_vars(Polling)

-----------------------------------------------------------------------------
(* Properties.                                                             *)

\* Every variable has its type.
TypeOK ==
  /\ running \in BOOLEAN
  /\ packet \in WithBody \cup WithoutBody \cup {NoPacket}
  /\ \A m \in ToSet(published) : m.payload \in Int
  /\ Len(published) <= 2
  /\ polling_count \in 0 .. kMaxPollingCount + 2

\* The memory of the actuators, by number: 60 addresses each from 4000 on.
Sensor(address) ==
  IF address \in 4000 .. 4179
    THEN <<"water", "led", "fan">>[(address - 4000) \div 60 + 1] ELSE "none"

\* The server is told that an actuator did what a write asked for only when an
\* undamaged packet of that slave says so with kOK, about memory of that very
\* actuator: no other packet of the board leads to such a message.
SuccessIsTrue ==
  [][\A m \in ToSet(published'), t \in Targets, s \in {"water", "led", "fan"} :
       m.topic = <<"slave", t, s, "state", "response">> =>
         /\ packet.intact
         /\ packet.command = kMemoryWrite
         /\ packet.error_code = kOK
         /\ packet.target_id = t
         /\ Sensor(packet.address) = s]_vars

\* A board that does not answer polls any more is reported to the server from
\* some point on, again and again, whatever else it sends.
ReportsNoResponse == \E m \in ToSet(published) : m.payload = NoResponse
SilenceReported ==
  <>[][~ParsePolling]_vars => []<>ReportsNoResponse \/ <>~running

\* "0x02 0x35 = 23.5도, 0xf1 0x90 = -19.0도": the tens of the temperature are in
\* the low digit of the high byte, the ones and the tenths are the digits of
\* the low byte, and the high digit f of the high byte is the minus sign.
Documented(high, low) ==
  LET value == (high % 16) * 100 + (low \div 16) * 10 + (low % 16)
  IN  IF high \div 16 = 15 THEN -value ELSE value

\* What is published as a temperature is what the comment of
\* PublishTemperature says the two bytes mean.
TemperatureAsDocumented ==
  [][\A m \in ToSet(published'), t \in Targets :
       m.topic = <<"slave", t, "temperature">> /\ Len(packet.data) >= 2 =>
         m.payload = Documented(packet.data[1], packet.data[2])]_vars

\* "Call Parse Emergency Default Assert": the default of ParseEmergency is the
\* assertion that an emergency is about memory no case of it handles.
DefaultIsForTheRest ==
  [][Asserted("EmergencyDefault") \in ToSet(published') =>
       packet.address \notin Temperature \cup Humidity \cup Motor \cup Led \cup Fan]_vars

\* "len 06 ... runtime": the runtime published for an emergency is read from
\* the packet, whose length is checked first ("Validate Emergency Data Length").
RuntimeIsReceived ==
  [][\A m \in ToSet(published'), t \in Targets, s \in {"water", "led", "fan"} :
       packet.command = kEmergency /\ m.topic = <<"slave", t, s, "state">> =>
         Len(packet.data) >= 4 /\ m.payload = packet.data[3] * 256 + packet.data[4]]_vars
=============================================================================
