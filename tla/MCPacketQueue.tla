---------------------------- MODULE MCPacketQueue ----------------------------
(* Instances of PacketQueue for TLC.                                       *)
EXTENDS CommandPath

OneSlave  == <<17>>
TwoSlaves == <<17, 18>>

\* The example in ParseMqttMessage, whose checksum overflows.
Example == [shape |-> "object", numbers |-> <<35, 33, 17, 193, 2, 7, 208>>, list |-> <<1, 2>>]
\* No length though there is a list, and a target that does not fit a byte.
NoLength == [shape |-> "object", numbers |-> <<35, 33, 273, 160, 0, 7, 208>>, list |-> <<1>>]
Garbled == [shape |-> "data garbled", numbers |-> <<0, 0, 0, 0, 0, 0, 0>>, list |-> <<>>]
NoObject == [Garbled EXCEPT !.shape = "data no object"]

OneMessage == {Example, Garbled}
TwoMessages == {Example, NoLength, Garbled, NoObject}

OneFrame == {Ingress!MakePacket(m) : m \in OneMessage} \ {<<>>}
TwoFrames == {Ingress!MakePacket(m) : m \in TwoMessages} \ {<<>>}
=============================================================================
