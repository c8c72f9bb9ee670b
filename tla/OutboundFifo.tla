---------------------------- MODULE OutboundFifo ----------------------------
(***************************************************************************)
(* What the gateway promises the plant server about packets bound for the  *)
(* master board: one line of packets, each handed to the board at most     *)
(* once and in the order the gateway accepted them.  A packet only leaves  *)
(* the line out of turn when it is Blank (what MakePacket returns for a    *)
(* message it cannot parse: it has no byte to send) or, on a line that may *)
(* lose packets, when it is lost.                                          *)
(***************************************************************************)
EXTENDS Naturals, Sequences

CONSTANTS Packet,   \* what can be sent to the board
          Blank,    \* the packet without bytes
          Lossy     \* TRUE when a serial write may time out

VARIABLE transit    \* the packets accepted and not yet at the board

Init == transit = <<>>

Accept(p) == transit' = Append(transit, p)

\* The board takes the packet at the head of the line, or the head vanishes
\* because it is Blank.
HeadLeaves == transit # <<>> /\ transit' = Tail(transit)

Drop(i) ==
  /\ Lossy \/ transit[i] = Blank
  /\ transit' = SubSeq(transit, 1, i - 1) \o SubSeq(transit, i + 1, Len(transit))

Next ==
  \/ \E p \in Packet : Accept(p)
  \/ HeadLeaves
  \/ \E i \in 1 .. Len(transit) : Drop(i)

Spec == Init /\ [][Next]_transit

\* The line keeps moving.
FairSpec == Spec /\ WF_transit(HeadLeaves)
=============================================================================
