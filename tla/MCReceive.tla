------------------------------ MODULE MCReceive ------------------------------
(* Instances of Receive for TLC.                                           *)
EXTENDS Receive

\* The answer to a poll, and the temperatures 29.1 of slave 1 and 24.7 of slave
\* 2.  They hold what misleads ReceivePacket: 35, the start byte, in a body;
\* bytes that are lengths where a byte is missing (7, and the numbers of the
\* slaves); and bytes whose sum fits a frame that was never sent.
Answers == {[header |-> <<39, 255, 160, 128>>, body |-> <<>>],
            [header |-> <<34, 1, 193, 128>>, body |-> <<7, 208, 1, 35>>],
            [header |-> <<34, 2, 193, 128>>, body |-> <<7, 208, 0, 247>>]}
=============================================================================
