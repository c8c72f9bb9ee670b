----------------------------- MODULE CommandPath -----------------------------
(* The outbound path with the commands it carries: what MqttIngress makes of *)
(* the messages of the server goes through PacketQueue to the board.        *)
EXTENDS PacketQueue

CONSTANT Messages   \* the messages the server may send

Ingress == INSTANCE MqttIngress

Frames == {Ingress!MakePacket(m) : m \in Messages} \ {<<>>}

ASSUME PathAssumption ==
  /\ Messages \subseteq Ingress!Message
  /\ Commands = Frames

-----------------------------------------------------------------------------
\* A command the board reads is what one of the messages asked for, to the last
\* byte, and a message that fails to parse sends it nothing at all.
BoardReadsCommands ==
  \A i \in DOMAIN wire :
    /\ wire[i] # Blank
    /\ wire[i].kind = "command" => \E m \in Messages : Ingress!Asks(m, wire[i].target)

=============================================================================
