------------------------------- MODULE ByteSums -------------------------------
(***************************************************************************)
(* The checksum of both kinds of packet: CalculateChecksum adds byte after *)
(* byte to a uint8_t.                                                      *)
(***************************************************************************)
EXTENDS Naturals, Sequences

\* An addition to a uint8_t.
Add(x, b) == (x + b) % 256

\* The value of the uint8_t after each step of the loop.
Sums(bytes) ==
  LET sum[i \in 0 .. Len(bytes)] == IF i = 0 THEN 0 ELSE Add(sum[i - 1], bytes[i])
  IN  sum

ByteSum(bytes) == Sums(bytes)[Len(bytes)]

=============================================================================
