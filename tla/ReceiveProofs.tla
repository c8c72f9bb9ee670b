----------------------------- MODULE ReceiveProofs -----------------------------
(* Theorems of Receive, for payloads of any bytes and any length.           *)
EXTENDS Receive, ByteSumsProofs, SequenceTheorems, FiniteSetTheorems

-----------------------------------------------------------------------------
(* Sequences of bytes.                                                     *)

LEMMA ConcatAt ==
  ASSUME NEW s \in Seq(Byte), NEW t \in Seq(Byte)
  PROVE  /\ s \o t \in Seq(Byte) /\ Len(s \o t) = Len(s) + Len(t)
         /\ \A i \in 1 .. Len(s) : (s \o t)[i] = s[i]
         /\ \A i \in 1 .. Len(t) : (s \o t)[Len(s) + i] = t[i]
OBVIOUS

LEMMA AppendAt ==
  ASSUME NEW s \in Seq(Byte), NEW e \in Byte
  PROVE  /\ Append(s, e) \in Seq(Byte) /\ Len(Append(s, e)) = Len(s) + 1
         /\ \A i \in 1 .. Len(s) : Append(s, e)[i] = s[i]
         /\ Append(s, e)[Len(s) + 1] = e
OBVIOUS

\* The part of s after m, n long.
LEMMA SubSeqAt ==
  ASSUME NEW s \in Seq(Byte), NEW m \in Nat, NEW n \in Nat, m + n <= Len(s)
  PROVE  /\ SubSeq(s, m + 1, m + n) \in Seq(Byte) /\ Len(SubSeq(s, m + 1, m + n)) = n
         /\ \A i \in 1 .. n : SubSeq(s, m + 1, m + n)[i] = s[m + i]
OBVIOUS

LEMMA SameSeq ==
  ASSUME NEW s \in Seq(Byte), NEW t \in Seq(Byte), Len(s) = Len(t),
         \A i \in 1 .. Len(s) : s[i] = t[i]
  PROVE  s = t
OBVIOUS

-----------------------------------------------------------------------------
(* Frames.                                                                 *)

LEMMA ByteType ==
  Byte \subseteq Nat /\ kStart \in Byte /\ kEnd \in Byte /\ 0 \in Byte
BY DEF Byte, kStart, kEnd

LEMMA SmallByte ==
  ASSUME NEW n \in Nat, NEW m \in Byte, n <= m
  PROVE  n \in Byte
BY DEF Byte

LEMMA ByteAt ==
  ASSUME NEW s \in Seq(Byte), NEW i \in 1 .. Len(s)
  PROVE  s[i] \in Byte /\ s[i] \in Nat
<1>1. s[i] \in Byte
  OBVIOUS
<1> QED
  BY <1>1, ByteType

LEMMA PayloadType ==
  ASSUME NEW p \in Payloads
  PROVE  /\ p.header \in Seq(Byte) /\ Len(p.header) = 4
         /\ p.body \in Seq(Byte) /\ Len(p.body) \in Byte /\ Len(p.body) # 1
         /\ Len(p.body) <= kMaxSlaveCount
         /\ p = [header |-> p.header, body |-> p.body]
<1>1. p \in Payload /\ Len(p.body) <= kMaxSlaveCount /\ Len(p.body) # 1
      /\ kMaxSlaveCount \in Byte
  BY ReceiveAssumption
<1>2. p.header \in [1 .. 4 -> Byte] /\ p.body \in Seq(Byte)
      /\ p = [header |-> p.header, body |-> p.body]
  BY <1>1 DEF Payload, HeaderSize
<1>3. p.header \in Seq(Byte) /\ Len(p.header) = 4
  <2>1. p.header \in Seq(Byte)
    BY <1>2, SeqDef, 4 \in Nat
  <2> QED
    BY <1>2, <2>1, LenProperties
<1>4. Len(p.body) \in Byte
  <2>1. Len(p.body) \in Nat
    BY <1>2
  <2> QED
    BY <1>1, <2>1, SmallByte
<1> QED
  BY <1>1, <1>2, <1>3, <1>4

\* The header as it is sent.
LEMMA HeaderType ==
  ASSUME NEW p \in Payloads
  PROVE  /\ Append(p.header, Len(p.body)) \in Seq(Byte)
         /\ Len(Append(p.header, Len(p.body))) = 5
         /\ \A i \in 1 .. 4 : Append(p.header, Len(p.body))[i] = p.header[i]
         /\ Append(p.header, Len(p.body))[5] = Len(p.body)
<1> DEFINE h == p.header
           l == Len(p.body)
<1>1. h \in Seq(Byte) /\ Len(h) = 4 /\ l \in Byte
  BY PayloadType
<1> HIDE DEF h, l
<1>2. /\ Append(h, l) \in Seq(Byte) /\ Len(Append(h, l)) = 5
      /\ \A i \in 1 .. 4 : Append(h, l)[i] = h[i]
      /\ Append(h, l)[5] = l
  <2> DEFINE k == Append(h, l)
  <2>1. /\ k \in Seq(Byte) /\ Len(k) = Len(h) + 1
        /\ \A i \in 1 .. Len(h) : k[i] = h[i]
        /\ k[Len(h) + 1] = l
    BY ONLY <1>1, AppendAt
  <2> HIDE DEF k
  <2>2. /\ k \in Seq(Byte) /\ Len(k) = 5 /\ k[5] = l
        /\ \A i \in 1 .. 4 : k[i] = h[i]
    BY <1>1, <2>1
  <2> QED
    BY <2>2 DEF k
<1> QED
  BY <1>2 DEF h, l

\* What the checksum is taken of.
Summed(h, b) == <<kStart>> \o h \o b

LEMMA SummedType ==
  ASSUME NEW h \in Seq(Byte), NEW b \in Seq(Byte)
  PROVE  /\ Summed(h, b) \in Seq(Byte)
         /\ Len(Summed(h, b)) = 1 + Len(h) + Len(b)
         /\ Summed(h, b)[1] = kStart
         /\ \A i \in 1 .. Len(h) : Summed(h, b)[1 + i] = h[i]
         /\ \A i \in 1 .. Len(b) : Summed(h, b)[1 + Len(h) + i] = b[i]
<1> DEFINE s == <<kStart>>
           t == s \o h
           u == t \o b
<1>1. s \in Seq(Byte) /\ Len(s) = 1 /\ s[1] = kStart /\ h \in Seq(Byte) /\ b \in Seq(Byte)
  BY ByteType
<1> HIDE DEF s
<1>2. /\ t \in Seq(Byte) /\ Len(t) = 1 + Len(h)
      /\ \A i \in 1 .. 1 : t[i] = s[i]
      /\ \A i \in 1 .. Len(h) : t[1 + i] = h[i]
  <2>1. /\ t \in Seq(Byte) /\ Len(t) = Len(s) + Len(h)
        /\ \A i \in 1 .. Len(s) : t[i] = s[i]
        /\ \A i \in 1 .. Len(h) : t[Len(s) + i] = h[i]
    BY ONLY <1>1, ConcatAt
  <2> HIDE DEF t
  <2> QED
    BY ONLY <1>1, <2>1
<1> HIDE DEF t
<1>3. /\ u \in Seq(Byte) /\ Len(u) = Len(t) + Len(b)
      /\ \A i \in 1 .. Len(t) : u[i] = t[i]
      /\ \A i \in 1 .. Len(b) : u[Len(t) + i] = b[i]
  BY ONLY <1>1, <1>2, ConcatAt
<1> HIDE DEF u
<1>4. Len(h) \in Nat
  BY <1>1
<1>5. u[1] = kStart
  BY ONLY <1>1, <1>2, <1>3, <1>4
<1>6. \A i \in 1 .. Len(h) : u[1 + i] = h[i]
  BY ONLY <1>2, <1>3, <1>4
<1> QED
  BY <1>2, <1>3, <1>5, <1>6 DEF s, t, u, Summed

LEMMA ChecksumType ==
  ASSUME NEW h \in Seq(Byte), NEW b \in Seq(Byte)
  PROVE  Checksum(h, b) \in Byte
<1>1. Summed(h, b) \in Seq(Nat)
  BY SummedType, ByteType, SeqMonotonic
<1> QED
  BY <1>1, ByteSumType DEF Checksum, Summed, Byte, Octet

\* Where the bytes of a frame are.
LEMMA FrameFacts ==
  ASSUME NEW p \in Payloads
  PROVE  /\ FrameOf(p) \in Seq(Byte) /\ Len(FrameOf(p)) = 8 + Len(p.body)
         /\ FrameOf(p)[1] = kStart
         /\ \A i \in 1 .. 4 : FrameOf(p)[1 + i] = p.header[i]
         /\ FrameOf(p)[6] = Len(p.body)
         /\ \A i \in 1 .. Len(p.body) : FrameOf(p)[6 + i] = p.body[i]
         /\ FrameOf(p)[7 + Len(p.body)] = Checksum(Append(p.header, Len(p.body)), p.body)
         /\ FrameOf(p)[8 + Len(p.body)] = kEnd
<1> DEFINE b == p.body
           L == Len(b)
           g == p.header
           h == Append(g, L)
           s == Summed(h, b)
           c == Checksum(h, b)
           tail == <<c, kEnd>>
           F == FrameOf(p)
<1>1. h \in Seq(Byte) /\ Len(h) = 5 /\ h[5] = L /\ \A i \in 1 .. 4 : h[i] = g[i]
  BY HeaderType
<1>2. b \in Seq(Byte) /\ L \in Nat
  BY PayloadType
<1>3. F = s \o tail
  BY DEF FrameOf, Summed
<1> HIDE DEF b, L, g, h
<1>4. s \in Seq(Byte) /\ Len(s) = 6 + L /\ s[1] = kStart
      /\ (\A i \in 1 .. 5 : s[1 + i] = h[i])
      /\ (\A i \in 1 .. L : s[6 + i] = b[i])
  <2>1. /\ s \in Seq(Byte) /\ Len(s) = 1 + Len(h) + Len(b) /\ s[1] = kStart
        /\ \A i \in 1 .. Len(h) : s[1 + i] = h[i]
        /\ \A i \in 1 .. Len(b) : s[1 + Len(h) + i] = b[i]
    BY ONLY ZenonT(40), <1>1, <1>2, SummedType
  <2> HIDE DEF s
  <2> QED
    BY <1>1, <1>2, <2>1 DEF L
<1>5. tail \in Seq(Byte) /\ Len(tail) = 2 /\ tail[1] = c /\ tail[2] = kEnd
  BY <1>1, <1>2, ChecksumType, ByteType
<1> HIDE DEF s, tail, F
<1>6. F \in Seq(Byte) /\ Len(F) = 8 + L
      /\ (\A i \in 1 .. 6 + L : F[i] = s[i])
      /\ F[7 + L] = c /\ F[8 + L] = kEnd
  <2>1. /\ F \in Seq(Byte) /\ Len(F) = Len(s) + Len(tail)
        /\ \A i \in 1 .. Len(s) : F[i] = s[i]
        /\ \A i \in 1 .. Len(tail) : F[Len(s) + i] = tail[i]
    BY ONLY ZenonT(40), <1>3, <1>4, <1>5, ConcatAt
  <2> HIDE DEF c
  <2> QED
    BY <1>2, <1>4, <1>5, <2>1
<1>7. F[1] = kStart
  BY <1>2, <1>4, <1>6
<1>8. F[6] = L
  BY <1>1, <1>2, <1>4, <1>6
<1>9. \A i \in 1 .. 4 : F[1 + i] = g[i]
  BY SMTT(30), <1>1, <1>2, <1>4, <1>6
<1>10. \A i \in 1 .. L : F[6 + i] = b[i]
  <2> TAKE i \in 1 .. L
  <2>1. 6 + i \in 1 .. 6 + L
    BY <1>2
  <2> QED
    BY <1>4, <1>6, <2>1
<1> QED
  BY <1>6, <1>7, <1>8, <1>9, <1>10 DEF F, h, b, g, L

-----------------------------------------------------------------------------
(* Reads.                                                                  *)

LEMMA ReadsType ==
  ASSUME buffer \in Seq(Byte), NEW n \in Nat, NEW got \in Reads(n)
  PROVE  got \in Seq(Byte) /\ Len(got) <= n /\ Len(got) <= Len(buffer)
<1>1. CASE Len(buffer) >= n
  <2>1. got = SubSeq(buffer, 0 + 1, 0 + n)
    BY <1>1 DEF Reads
  <2>2. SubSeq(buffer, 0 + 1, 0 + n) \in Seq(Byte) /\ Len(SubSeq(buffer, 0 + 1, 0 + n)) = n
    BY <1>1, SubSeqAt
  <2> QED
    BY <1>1, <2>1, <2>2
<1>2. CASE ~(Len(buffer) >= n)
  BY <1>2 DEF Reads
<1> QED
  BY <1>1, <1>2

LEMMA FilledType ==
  ASSUME NEW got \in Seq(Byte), NEW n \in Nat
  PROVE  /\ Filled(got, n) \in Seq(Byte) /\ Len(Filled(got, n)) = n
         /\ \A i \in 1 .. n : i <= Len(got) => Filled(got, n)[i] = got[i]
<1> DEFINE f == Filled(got, n)
<1>1. f = [i \in 1 .. n |-> IF i <= Len(got) THEN got[i] ELSE 0]
  BY DEF Filled
<1>2. \A i \in 1 .. n : f[i] \in Byte /\ (i <= Len(got) => f[i] = got[i])
  BY <1>1, ByteType
<1>3. f \in [1 .. n -> Byte]
  BY <1>1, <1>2
<1> HIDE DEF f
<1>4. f \in Seq(Byte)
  BY <1>3, SeqDef
<1>5. Len(f) = n
  BY <1>3, <1>4, LenProperties
<1> QED
  BY <1>2, <1>4, <1>5 DEF f

\* What a read leaves.
LEMMA ConsumedType ==
  ASSUME buffer \in Seq(Byte), NEW got \in Seq(Byte), Len(got) <= Len(buffer)
  PROVE  LET rest == SubSeq(buffer, Len(got) + 1, Len(buffer))
         IN  /\ rest \in Seq(Byte) /\ Len(rest) = Len(buffer) - Len(got)
             /\ \A i \in 1 .. Len(rest) : rest[i] = buffer[Len(got) + i]
<1> DEFINE m == Len(got)
           n == Len(buffer) - Len(got)
<1>1. m \in Nat /\ n \in Nat /\ m + n = Len(buffer)
  OBVIOUS
<1> HIDE DEF m, n
<1>2. /\ SubSeq(buffer, m + 1, m + n) \in Seq(Byte) /\ Len(SubSeq(buffer, m + 1, m + n)) = n
      /\ \A i \in 1 .. n : SubSeq(buffer, m + 1, m + n)[i] = buffer[m + i]
  BY <1>1, SubSeqAt
<1> QED
  BY <1>1, <1>2 DEF m, n

-----------------------------------------------------------------------------
(* Types.                                                                  *)

\* What is on the line is the rest of the frame sent last, and a body is read
\* only of a header with a length that fits.
LineOK == air # <<>> => sent # <<>> /\ Len(air) <= Len(FrameOf(Last(sent)))

HeaderOK ==
  pc \in {"body", "tail"} => Len(header) = HeaderSize /\ header[HeaderSize] <= kMaxSlaveCount

\* The frame sent last was sent after the line was last quiet.
CalmOK == sent # <<>> => calm < Len(sent)

TInv == TypeOK /\ Len(sent) <= MaxFrames /\ LineOK /\ HeaderOK /\ CalmOK

LEMMA InitTyped == Init => TInv
<1> SUFFICES ASSUME Init PROVE TInv
  OBVIOUS
<1>1. MaxFrames \in Nat /\ kMaxSlaveCount \in Nat
  BY ReceiveAssumption, ByteType
<1> QED
  BY <1>1 DEF Init, TInv, TypeOK, LineOK, HeaderOK, CalmOK, HeaderSize

\* What ReceivePacket makes a packet of.
LEMMA PacketType ==
  ASSUME TInv, pc = "tail"
  PROVE  [header |-> SubSeq(header, 1, HeaderSize - 1), body |-> body] \in Payload
<1>1. header \in Seq(Byte) /\ Len(header) = 5 /\ body \in Seq(Byte)
  BY DEF TInv, HeaderOK, TypeOK, HeaderSize
<1>2. SubSeq(header, 1, 4) \in Seq(Byte) /\ Len(SubSeq(header, 1, 4)) = 4
  <2>1. 0 \in Nat /\ 4 \in Nat /\ 0 + 4 <= Len(header) /\ 0 + 1 = 1 /\ 0 + 4 = 4
    BY <1>1
  <2>2. SubSeq(header, 0 + 1, 0 + 4) \in Seq(Byte) /\ Len(SubSeq(header, 0 + 1, 0 + 4)) = 4
    BY ONLY <1>1, <2>1, SubSeqAt
  <2> QED
    BY ONLY <2>1, <2>2
<1>3. SubSeq(header, 1, 4) \in [1 .. 4 -> Byte]
  <2> DEFINE h == SubSeq(header, 1, 4)
  <2>1. h \in Seq(Byte) /\ Len(h) = 4
    BY <1>2
  <2> HIDE DEF h
  <2>2. h \in [1 .. 4 -> Byte]
    BY <2>1, LenProperties
  <2> QED
    BY <2>2 DEF h
<1> QED
  BY <1>1, <1>3 DEF Payload, HeaderSize

LEMMA StepTyped == TInv /\ [Next]_vars => TInv'
<1> SUFFICES ASSUME TInv, [Next]_vars PROVE TInv'
  OBVIOUS
<1> USE DEF TInv
<1>0. MaxFrames \in Nat /\ kMaxSlaveCount \in Byte /\ kMaxSlaveCount \in Nat /\ Noise \subseteq Byte
  BY ReceiveAssumption, ByteType
<1>1. CASE BoardSends
  <2>1. PICK p \in Payloads : sent' = Append(sent, p) /\ air' = FrameOf(p)
    BY <1>1 DEF BoardSends
  <2>2. Len(sent) < MaxFrames /\ UNCHANGED <<hit, buffer, pc, header, body, accepted, running>>
    BY <1>1 DEF BoardSends, locals
  <2>3. sent' \in Seq(Payloads) /\ Len(sent') = Len(sent) + 1 /\ Last(sent') = p /\ sent' # <<>>
    BY <2>1 DEF TypeOK, Last
  <2>4. air' \in Seq(Byte)
    BY <2>1, FrameFacts
  <2>5. calm' \in 0 .. Len(sent) /\ before' \in Seq(Payload)
    <3>1. calm' \in {calm, Len(sent)} /\ before' \in {before, accepted}
      BY <1>1 DEF BoardSends, history
    <3> QED
      BY <3>1 DEF TypeOK
  <2>6. calm' \in 0 .. Len(sent') /\ CalmOK'
    <3>1. Len(sent) \in Nat
      BY DEF TypeOK
    <3> QED
      BY <2>3, <2>5, <3>1 DEF CalmOK
  <2>7. TypeOK'
    BY <2>2, <2>3, <2>4, <2>5, <2>6 DEF TypeOK
  <2>8. Len(sent)' <= MaxFrames
    BY <1>0, <2>2, <2>3 DEF TypeOK
  <2>9. LineOK'
    BY <2>1, <2>3, <2>4 DEF LineOK
  <2> QED
    BY <2>2, <2>6, <2>7, <2>8, <2>9 DEF HeaderOK
<1>2. CASE ByteArrives
  BY <1>2 DEF ByteArrives, TypeOK, LineOK, HeaderOK, CalmOK, locals, history
<1>3. ASSUME NEW kind \in {"changed", "lost"}, ByteIsHit(kind) PROVE TInv'
  <2>1. air # <<>> /\ air' = Tail(air) /\ UNCHANGED <<sent, pc, header, body, accepted, running, calm, before>>
        /\ hit' = [frame |-> Len(sent), at |-> Len(FrameOf(Last(sent))) - Len(air), kind |-> kind]
    BY <1>3 DEF ByteIsHit, locals, history
  <2>2. air' \in Seq(Byte) /\ Len(air') = Len(air) - 1 /\ Len(air) \in Nat \ {0}
    BY <2>1 DEF TypeOK
  <2>3. buffer' \in Seq(Byte)
    <3>1. buffer' = buffer \/ \E b \in Noise : buffer' = Append(buffer, b)
      BY <1>3 DEF ByteIsHit
    <3>2. buffer \in Seq(Byte)
      BY DEF TypeOK
    <3> QED
      BY <1>0, <3>1, <3>2, AppendAt
  <2>4. hit' \in [frame : 0 .. MaxFrames, at : 0 .. HeaderSize + kMaxSlaveCount + 2,
                  kind : {"none", "changed", "lost"}]
    <3>1. Last(sent) \in Payloads /\ Len(air) <= Len(FrameOf(Last(sent)))
      BY SMTT(30), <2>1 DEF LineOK, TypeOK, Last
    <3>2. Len(FrameOf(Last(sent))) \in 0 .. 8 + kMaxSlaveCount
      <4> DEFINE p == Last(sent)
      <4>1. p \in Payloads
        BY <3>1
      <4> HIDE DEF p
      <4>2. Len(FrameOf(p)) = 8 + Len(p.body) /\ Len(p.body) \in Byte
            /\ Len(p.body) <= kMaxSlaveCount
        BY <4>1, FrameFacts, PayloadType
      <4>3. Len(p.body) \in Nat
        BY <4>2, ByteType
      <4>4. Len(FrameOf(p)) \in 0 .. 8 + kMaxSlaveCount
        BY <1>0, <4>2, <4>3
      <4> QED
        BY <4>4 DEF p
    <3>3. Len(FrameOf(Last(sent))) - Len(air) \in 0 .. HeaderSize + kMaxSlaveCount + 2
      BY <1>0, <2>2, <3>1, <3>2 DEF HeaderSize
    <3>4. Len(sent) \in 0 .. MaxFrames
      BY <1>0 DEF TypeOK
    <3> QED
      BY <2>1, <3>3, <3>4
  <2>5. TypeOK'
    BY <2>1, <2>2, <2>3, <2>4 DEF TypeOK
  <2> QED
    BY <2>1, <2>2, <2>5 DEF LineOK, HeaderOK, CalmOK
<1>4. CASE Gateway
  <2>0. UNCHANGED <<sent, air, hit, calm, before>>
        /\ LineOK' /\ Len(sent)' <= MaxFrames /\ CalmOK'
    BY <1>4 DEF Gateway, Call, NothingAvailable, ReadStart, ReadHeader, ReadBody, ReadTail,
                history, LineOK, CalmOK
  <2>1. CASE Call \/ NothingAvailable
    BY <2>0, <2>1 DEF Call, NothingAvailable, Return, TypeOK, HeaderOK
  <2>2. CASE ReadStart
    BY <2>0, <2>2 DEF ReadStart, TypeOK, HeaderOK
  <2>3. CASE ReadHeader
    <3>1. PICK got \in Reads(HeaderSize) :
            LET h == Filled(got, HeaderSize)
            IN  /\ Consumed(got) /\ header' = h
                /\ pc' = CASE got = <<>>      -> "scan"
                         [] TooLong(h)        -> "away"
                         [] LengthOf(h) = 0   -> "tail"
                         [] OTHER             -> "body"
      BY <2>3 DEF ReadHeader
    <3>2. body' = <<>> /\ UNCHANGED <<accepted, running>>
      BY <2>3 DEF ReadHeader
    <3>3. got \in Seq(Byte) /\ Len(got) <= Len(buffer)
      BY ReadsType DEF TypeOK, HeaderSize
    <3>4. header' \in Seq(Byte) /\ Len(header') = HeaderSize
      BY <3>1, <3>3, FilledType DEF HeaderSize
    <3>5. buffer' \in Seq(Byte)
      BY <3>1, <3>3, ConsumedType DEF Consumed, TypeOK
    <3>6. pc' \in {"body", "tail"} => header'[HeaderSize] <= kMaxSlaveCount
      <4>1. header'[HeaderSize] \in Nat
        <5>1. 5 \in 1 .. Len(header') /\ header' \in Seq(Byte)
          BY <3>4 DEF HeaderSize
        <5> QED
          BY <5>1, ByteAt DEF HeaderSize
      <4> QED
        BY <1>0, <3>1, <4>1 DEF TooLong, LengthOf
    <3>7. pc' \in {"away", "scan", "header", "body", "tail"}
      BY <3>1
    <3>8. body' \in Seq(Byte) /\ Len(body') <= kMaxSlaveCount
      BY <1>0, <3>2
    <3> QED
      BY <2>0, <3>2, <3>4, <3>5, <3>6, <3>7, <3>8 DEF TypeOK, HeaderOK
  <2>4. CASE ReadBody
    <3>1. PICK got \in Reads(LengthOf(header)) :
            /\ Consumed(got)
            /\ body' = Filled(got, LengthOf(header))
            /\ pc' = IF got = <<>> THEN "away" ELSE "tail"
      BY <2>4 DEF ReadBody
    <3>2. pc = "body" /\ UNCHANGED <<header, accepted, running>>
      BY <2>4 DEF ReadBody
    <3>3. LengthOf(header) \in Nat /\ LengthOf(header) <= kMaxSlaveCount
      <4>1. header \in Seq(Byte) /\ Len(header) = 5 /\ header[5] <= kMaxSlaveCount
        BY <3>2 DEF HeaderOK, TypeOK, HeaderSize
      <4>2. header[5] \in Nat
        <5>1. 5 \in 1 .. Len(header)
          BY <4>1
        <5> QED
          BY <4>1, <5>1, ByteAt
      <4> QED
        BY <4>1, <4>2 DEF LengthOf, HeaderSize
    <3>4. got \in Seq(Byte) /\ Len(got) <= Len(buffer)
      BY <3>3, ReadsType DEF TypeOK
    <3>5. body' \in Seq(Byte) /\ Len(body') <= kMaxSlaveCount
      BY <3>1, <3>3, <3>4, FilledType
    <3>6. buffer' \in Seq(Byte)
      BY <3>1, <3>4, ConsumedType DEF Consumed, TypeOK
    <3> QED
      BY <2>0, <3>1, <3>2, <3>5, <3>6 DEF TypeOK, HeaderOK
  <2>5. CASE ReadTail
    <3>1. PICK got \in Reads(2) :
            /\ Consumed(got)
            /\ \/ accepted' = accepted
               \/ accepted' = Append(accepted, [header |-> SubSeq(header, 1, HeaderSize - 1),
                                                body |-> body])
            /\ running' \in {running, FALSE}
      BY <2>5 DEF ReadTail
    <3>2. pc = "tail" /\ pc' = "away" /\ UNCHANGED <<header, body>>
      BY <2>5 DEF ReadTail, Return
    <3>3. got \in Seq(Byte) /\ Len(got) <= Len(buffer)
      BY ReadsType DEF TypeOK
    <3>4. buffer' \in Seq(Byte)
      BY <3>1, <3>3, ConsumedType DEF Consumed, TypeOK
    <3>5. [header |-> SubSeq(header, 1, HeaderSize - 1), body |-> body] \in Payload
      BY <3>2, PacketType
    <3>6. accepted' \in Seq(Payload)
      <4> DEFINE packet == [header |-> SubSeq(header, 1, HeaderSize - 1), body |-> body]
      <4>1. accepted \in Seq(Payload) /\ packet \in Payload
        BY <3>5 DEF TypeOK
      <4>2. accepted' = accepted \/ accepted' = Append(accepted, packet)
        BY <3>1
      <4> HIDE DEF packet
      <4> QED
        BY <4>1, <4>2
    <3>7. running' \in BOOLEAN
      BY <3>1 DEF TypeOK
    <3> QED
      BY <2>0, <3>2, <3>4, <3>6, <3>7 DEF TypeOK, HeaderOK
  <2> QED
    BY <1>4, <2>1, <2>2, <2>3, <2>4, <2>5 DEF Gateway
<1>5. CASE UNCHANGED vars
  BY <1>5 DEF vars, locals, history, TypeOK, LineOK, HeaderOK, CalmOK
<1> QED
  BY <1>1, <1>2, <1>3, <1>4, <1>5 DEF Next

\* Every variable has its type, whatever the line does to the bytes: ReceivePacket
\* reads no body longer than kMaxSlaveCount.
THEOREM Typed == Spec => []TypeOK
<1>1. Init => TInv
  BY InitTyped
<1>2. TInv /\ [Next]_vars => TInv'
  BY StepTyped
<1>3. TInv => TypeOK
  BY DEF TInv
<1> QED
  BY <1>1, <1>2, <1>3, PTL DEF Spec

-----------------------------------------------------------------------------
(* What goes over the line and where the gateway is in it.                 *)

HitOK ==
  hit.frame # 0 => hit.frame <= Len(sent) /\ hit.at < Len(FrameOf(sent[hit.frame]))

\* The good ones among the frames since the line was last quiet, up to k.
Kept(k) == KeptOf(calm, k)

\* The frames since then lie on the line one after the other, up to a byte that
\* makes ReceivePacket lose its place.
Laid(pos, line) ==
  /\ pos[Sure + 1] <= Len(line)
  /\ ~LostPlace => pos[Sure + 1] = Len(line)
  /\ \A i \in calm + 1 .. Sure : pos[i + 1] = pos[i] + Len(FrameOf(sent[i]))
  /\ \A i, j \in calm + 1 .. Sure + 1 : i <= j => pos[i] <= pos[j]

\* Every byte of them is the one that was sent but the one that was hit.
Heard(pos, line) ==
  \A i \in calm + 1 .. Sure : \A j \in 1 .. Len(FrameOf(sent[i])) :
    line[pos[i] + j] = FrameOf(sent[i])[j] <=> ~(hit.frame = i /\ hit.at + 1 = j)

\* The gateway has read c bytes; the others are in the buffer and on the way.
Ahead(c, line) ==
  /\ c + Len(buffer) + Len(air) = Len(line)
  /\ \A j \in 1 .. Len(buffer) : buffer[j] = line[c + j]
  /\ \A j \in 1 .. Len(air) : air[j] = line[c + Len(buffer) + j]

\* The gateway is done with k frames and reads the next from its start on.
Place(k, c, pos, line) ==
  /\ calm <= k /\ k <= Sure
  /\ pc \in {"away", "scan"} => c = pos[k + 1]
  /\ pc \in {"header", "body", "tail"} => k < Sure
  /\ pc = "header" => c = pos[k + 1] + 1
  /\ pc = "body" => /\ c = pos[k + 1] + 6
                    /\ Len(sent[k + 1].body) > 0
  /\ pc \in {"body", "tail"} => \A j \in 1 .. 5 : header[j] = line[pos[k + 1] + 1 + j]
  /\ pc = "tail" => /\ Len(body) = Len(sent[k + 1].body)
                    /\ c = pos[k + 1] + 6 + Len(body)
                    /\ \A j \in 1 .. Len(body) : body[j] = line[pos[k + 1] + 6 + j]

Aligned(k, c, pos, line) ==
  /\ Laid(pos, line)
  /\ Heard(pos, line)
  /\ Ahead(c, line)
  /\ Place(k, c, pos, line)
  /\ running
  /\ accepted = before \o Kept(k)

Somewhere ==
  \E k \in Nat, c \in Nat, pos \in [1 .. Len(sent) + 1 -> Nat], line \in Seq(Byte) :
    Aligned(k, c, pos, line)

\* ReceivePacket has lost its place after the last frame it was sure to come to.
Astray == LostPlace /\ IsPrefix(Due, accepted)

InStep == Somewhere \/ Astray

LEMMA SureType ==
  ASSUME TypeOK, HitOK
  PROVE  /\ calm \in Nat /\ Sure \in Nat /\ Len(sent) \in Nat /\ sent \in Seq(Payloads)
         /\ calm <= Sure /\ Sure <= Len(sent) /\ hit.frame \in Nat
         /\ LostPlace => Sure = hit.frame - 1 /\ hit.frame \in calm + 1 .. Len(sent)
         /\ ~LostPlace => Sure = Len(sent)
<1>1. /\ calm \in Nat /\ calm <= Len(sent) /\ Len(sent) \in Nat /\ sent \in Seq(Payloads)
      /\ hit.frame \in Nat
  BY DEF TypeOK
<1>2. CASE LostPlace
  <2>1. hit.frame > calm /\ hit.frame <= Len(sent) /\ Sure = hit.frame - 1
    BY <1>1, <1>2 DEF LostPlace, HitOK, Sure
  <2> QED
    BY <1>1, <1>2, <2>1
<1>3. CASE ~LostPlace
  BY <1>1, <1>3 DEF Sure
<1> QED
  BY <1>2, <1>3

LEMMA SureFrame ==
  ASSUME TypeOK, HitOK, NEW i \in calm + 1 .. Sure
  PROVE  /\ i \in 1 .. Len(sent) /\ sent[i] \in Payloads
         /\ hit.frame = i => HitStaysInFrame
<1>1. i \in 1 .. Len(sent) /\ i <= Sure /\ i > calm
  BY SureType
<1>2. sent[i] \in Payloads
  BY <1>1, SureType
<1>3. ASSUME hit.frame = i, ~HitStaysInFrame PROVE FALSE
  <2>1. LostPlace
    BY <1>1, <1>3 DEF LostPlace
  <2>2. Sure = hit.frame - 1 /\ hit.frame \in Nat
    BY <2>1, SureType
  <2> QED
    BY <1>1, <1>3, <2>2
<1> QED
  BY <1>1, <1>2, <1>3

LEMMA FrameIndex ==
  ASSUME TypeOK, HitOK, NEW k \in Nat, calm <= k, k < Sure
  PROVE  /\ k + 1 \in 1 .. Len(sent) /\ k + 2 \in 1 .. Len(sent) + 1
         /\ k + 1 \in calm + 1 .. Sure /\ k + 2 \in calm + 1 .. Sure + 1
         /\ Sure + 1 \in calm + 1 .. Sure + 1 /\ Sure + 1 \in 1 .. Len(sent) + 1
         /\ k + 2 <= Sure + 1
<1>1. /\ calm \in Nat /\ Sure \in Nat /\ Len(sent) \in Nat
      /\ calm <= Sure /\ Sure <= Len(sent)
  BY SureType
<1>2. PICK m \in Nat : m = calm
  BY <1>1
<1>3. PICK n \in Nat : n = Sure
  BY <1>1
<1>4. PICK N \in Nat : N = Len(sent)
  BY <1>1
<1>5. m <= k /\ k < n /\ n <= N
  BY <1>1, <1>2, <1>3, <1>4
<1>6. /\ k + 1 \in 1 .. N /\ k + 2 \in 1 .. N + 1
      /\ k + 1 \in m + 1 .. n /\ k + 2 \in m + 1 .. n + 1
      /\ n + 1 \in m + 1 .. n + 1 /\ n + 1 \in 1 .. N + 1
      /\ k + 2 <= n + 1
  BY ONLY <1>5, m \in Nat, n \in Nat, N \in Nat, k \in Nat
<1> QED
  BY ONLY <1>2, <1>3, <1>4, <1>6

LEMMA InitInStep == Init => InStep /\ HitOK
<1> SUFFICES ASSUME Init PROVE Somewhere /\ HitOK
  BY DEF InStep
<1> DEFINE pos == [i \in 1 .. 1 |-> 0]
<1>1. sent = <<>> /\ Len(sent) = 0 /\ hit.frame = 0 /\ buffer = <<>> /\ air = <<>>
      /\ pc = "away" /\ accepted = <<>> /\ running /\ calm = 0 /\ before = <<>>
  BY DEF Init
<1>2. pos \in [1 .. Len(sent) + 1 -> Nat] /\ <<>> \in Seq(Byte)
  BY <1>1
<1>3. ~LostPlace /\ Sure = 0
  BY <1>1 DEF LostPlace, Sure
<1>4. Laid(pos, <<>>) /\ Heard(pos, <<>>) /\ Ahead(0, <<>>) /\ Place(0, 0, pos, <<>>)
  BY <1>1, <1>3 DEF Laid, Heard, Ahead, Place
<1>5. accepted = before \o Kept(0)
  BY <1>1 DEF Kept, KeptOf, HitCosts
<1>6. Aligned(0, 0, pos, <<>>)
  BY <1>1, <1>4, <1>5 DEF Aligned
<1> HIDE DEF pos
<1>7. Somewhere
  BY <1>2, <1>6 DEF Somewhere
<1> QED
  BY <1>1, <1>7 DEF HitOK

\* A read of no more than is still to come waits for it and gets it.
LEMMA ReadAhead ==
  ASSUME TypeOK, NEW c \in Nat, NEW line \in Seq(Byte), Ahead(c, line),
         NEW n \in Nat, c + n <= Len(line),
         NEW got \in Reads(n), Consumed(got), air' = air
  PROVE  /\ got \in Seq(Byte) /\ Len(got) = n
         /\ \A j \in 1 .. n : got[j] = line[c + j]
         /\ Ahead(c + n, line)'
<1>1. buffer \in Seq(Byte) /\ air \in Seq(Byte) /\ Len(buffer) \in Nat /\ Len(air) \in Nat
      /\ Len(line) \in Nat
  BY SMTT(30) DEF TypeOK
<1>2. Len(buffer) >= n
  <2> SUFFICES ASSUME Len(buffer) < n PROVE FALSE
    BY <1>1
  <2>1. air = <<>>
    BY <1>1 DEF Reads
  <2>2. c + Len(buffer) = Len(line)
    BY <1>1, <2>1 DEF Ahead
  <2> QED
    BY <1>1, <2>2
<1>3. got = SubSeq(buffer, 0 + 1, 0 + n)
  BY <1>2 DEF Reads
<1>4. got \in Seq(Byte) /\ Len(got) = n /\ \A j \in 1 .. n : got[j] = buffer[j]
  <2>1. /\ SubSeq(buffer, 0 + 1, 0 + n) \in Seq(Byte)
        /\ Len(SubSeq(buffer, 0 + 1, 0 + n)) = n
        /\ \A i \in 1 .. n : SubSeq(buffer, 0 + 1, 0 + n)[i] = buffer[0 + i]
    BY <1>1, <1>2, SubSeqAt
  <2> QED
    BY <1>3, <2>1
<1>5. \A j \in 1 .. n : got[j] = line[c + j]
  <2> TAKE j \in 1 .. n
  <2>1. j \in 1 .. Len(buffer)
    BY <1>1, <1>2
  <2>2. buffer[j] = line[c + j]
    BY <2>1 DEF Ahead
  <2> QED
    BY <1>4, <2>2
<1>6. /\ Len(buffer') = Len(buffer) - n
      /\ \A j \in 1 .. Len(buffer') : buffer'[j] = buffer[n + j]
  BY <1>1, <1>2, <1>4, ConsumedType DEF Consumed
<1>7. c + n + Len(buffer') + Len(air') = Len(line)
  <2>1. c + Len(buffer) + Len(air) = Len(line)
    BY DEF Ahead
  <2> DEFINE b == Len(buffer)
             a == Len(air)
             l == Len(line)
             d == Len(buffer')
  <2>2. Len(air') = a
    OBVIOUS
  <2>3. b \in Nat /\ a \in Nat /\ l \in Nat /\ b >= n /\ d = b - n /\ c + b + a = l
    BY <1>1, <1>2, <1>6, <2>1
  <2> HIDE DEF b, a, l, d
  <2>4. c + n + d + a = l
    BY <2>3
  <2> QED
    BY <2>2, <2>4 DEF d, l
<1>8. ASSUME NEW j \in 1 .. Len(buffer') PROVE buffer'[j] = line[c + n + j]
  <2>1. n + j \in 1 .. Len(buffer)
    BY <1>1, <1>2, <1>6
  <2>2. buffer[n + j] = line[c + (n + j)]
    BY <2>1 DEF Ahead
  <2> QED
    BY <1>6, <2>2
<1>9. ASSUME NEW j \in 1 .. Len(air') PROVE air'[j] = line[c + n + Len(buffer') + j]
  <2>1. c + n + Len(buffer') + j = c + Len(buffer) + j
    BY <1>1, <1>2, <1>6
  <2> QED
    BY <2>1 DEF Ahead
<1>10. Ahead(c + n, line)'
  BY <1>7, <1>8, <1>9 DEF Ahead
<1> QED
  BY <1>4, <1>5, <1>10

\* The frame the gateway reads next.
LEMMA NextFrame ==
  ASSUME TypeOK, HitOK, NEW k \in Nat, calm <= k, k < Sure,
         NEW pos \in [1 .. Len(sent) + 1 -> Nat], NEW line \in Seq(Byte), Laid(pos, line)
  PROVE  /\ sent[k + 1] \in Payloads /\ Len(sent[k + 1].body) \in Nat
         /\ pos[k + 1] \in Nat
         /\ pos[k + 2] = pos[k + 1] + 8 + Len(sent[k + 1].body)
         /\ pos[k + 1] + 8 + Len(sent[k + 1].body) <= Len(line) /\ Len(line) \in Nat
<1>1. /\ k + 1 \in 1 .. Len(sent) /\ k + 2 \in 1 .. Len(sent) + 1
      /\ k + 1 \in calm + 1 .. Sure /\ k + 2 \in calm + 1 .. Sure + 1
      /\ Sure + 1 \in calm + 1 .. Sure + 1 /\ Sure + 1 \in 1 .. Len(sent) + 1
      /\ k + 2 <= Sure + 1
  BY FrameIndex
<1>2. sent[k + 1] \in Payloads
  BY <1>1, SureFrame
<1> DEFINE p == sent[k + 1]
<1>3. Len(p.body) \in Nat /\ Len(FrameOf(p)) = 8 + Len(p.body)
  <2>1. p \in Payloads
    BY <1>2
  <2> HIDE DEF p
  <2>2. Len(p.body) \in Byte /\ Len(FrameOf(p)) = 8 + Len(p.body)
    BY <2>1, PayloadType, FrameFacts
  <2> QED
    BY <2>2, ByteType
<1>4. pos[k + 1] \in Nat
  BY <1>1
<1>5. pos[k + 2] = pos[k + 1] + Len(FrameOf(p))
  <2>1. pos[(k + 1) + 1] = pos[k + 1] + Len(FrameOf(sent[k + 1]))
    BY <1>1 DEF Laid
  <2>2. (k + 1) + 1 = k + 2
    OBVIOUS
  <2> QED
    BY <2>1, <2>2
<1>6. pos[k + 2] <= Len(line)
  <2>1. PICK n : n = Sure + 1
    OBVIOUS
  <2>2. PICK m : m = k + 2
    OBVIOUS
  <2>3. pos[m] \in Nat /\ pos[n] \in Nat
    BY <1>1, <2>1, <2>2
  <2>4. pos[m] <= pos[n]
    BY <1>1, <2>1, <2>2 DEF Laid
  <2>5. pos[n] <= Len(line)
    BY <2>1 DEF Laid
  <2>6. Len(line) \in Nat
    OBVIOUS
  <2> QED
    BY <2>2, <2>3, <2>4, <2>5, <2>6
<1>7. pos[k + 2] = pos[k + 1] + 8 + Len(p.body)
  <2> DEFINE l == Len(p.body)
             f == Len(FrameOf(p))
             a == pos[k + 1]
  <2>1. l \in Nat /\ f = 8 + l /\ a \in Nat
    BY <1>3, <1>4
  <2> HIDE DEF l, f, a
  <2>2. a + f = a + 8 + l
    BY <2>1
  <2> QED
    BY <1>5, <2>2 DEF l, f, a
<1>8. pos[k + 1] + 8 + Len(p.body) <= Len(line) /\ Len(line) \in Nat
  BY <1>6, <1>7
<1> QED
  BY <1>2, <1>3, <1>4, <1>7, <1>8

\* While bytes are left there is a frame to read.
LEMMA FrameLeft ==
  ASSUME TypeOK, HitOK, ~LostPlace,
         NEW k \in Nat, NEW c \in Nat, NEW pos \in [1 .. Len(sent) + 1 -> Nat],
         NEW line \in Seq(Byte), Aligned(k, c, pos, line), c < Len(line)
  PROVE  k < Sure
<1>1. k <= Sure /\ Sure \in Nat
  BY SureType DEF Aligned, Place
<1>2. ASSUME k = Sure PROVE FALSE
  <2>1. pc \in {"away", "scan"}
    BY <1>2, <1>1 DEF Aligned, Place, TypeOK
  <2> QED
    BY <1>2, <2>1 DEF Aligned, Place, Laid
<1> QED
  BY <1>1, <1>2

\* A byte of the frame that was not hit.
LEMMA HeardByte ==
  ASSUME TypeOK, HitOK, NEW k \in Nat, calm <= k, k < Sure,
         NEW pos \in [1 .. Len(sent) + 1 -> Nat], NEW line \in Seq(Byte), Heard(pos, line),
         NEW j \in 1 .. 8 + Len(sent[k + 1].body), ~(hit.frame = k + 1 /\ hit.at + 1 = j)
  PROVE  line[pos[k + 1] + j] = FrameOf(sent[k + 1])[j]
<1>1. k + 1 \in calm + 1 .. Sure /\ sent[k + 1] \in Payloads
  <2>1. k + 1 \in calm + 1 .. Sure
    BY FrameIndex
  <2> QED
    BY <2>1, SureFrame
<1>2. j \in 1 .. Len(FrameOf(sent[k + 1]))
  BY <1>1, FrameFacts
<1> QED
  BY <1>1, <1>2 DEF Heard

\* The start and the length of a frame were not hit.
LEMMA HeardEnds ==
  ASSUME TypeOK, HitOK, NEW k \in Nat, calm <= k, k < Sure,
         NEW pos \in [1 .. Len(sent) + 1 -> Nat], NEW line \in Seq(Byte), Heard(pos, line)
  PROVE  line[pos[k + 1] + 1] = kStart /\ line[pos[k + 1] + 6] = Len(sent[k + 1].body)
<1> DEFINE p == sent[k + 1]
<1>1. p \in Payloads /\ (hit.frame = k + 1 => HitStaysInFrame)
  <2>1. k + 1 \in calm + 1 .. Sure
    BY FrameIndex
  <2> QED
    BY <2>1, SureFrame
<1>2. Len(p.body) \in Nat /\ FrameOf(p)[1] = kStart /\ FrameOf(p)[6] = Len(p.body)
  <2> HIDE DEF p
  <2>1. Len(p.body) \in Byte
    BY <1>1, PayloadType
  <2> QED
    BY <1>1, <2>1, FrameFacts, ByteType
<1>3. 1 \in 1 .. 8 + Len(p.body) /\ 6 \in 1 .. 8 + Len(p.body)
  <2> HIDE DEF p
  <2> QED
    BY <1>2
<1>4. hit.at \in Nat
  BY DEF TypeOK
<1>5. ~(hit.frame = k + 1 /\ hit.at + 1 = 1) /\ ~(hit.frame = k + 1 /\ hit.at + 1 = 6)
  <2>1. hit.frame = k + 1 => hit.at # 0 /\ hit.at # 5
    <3>1. k + 1 # 0
      OBVIOUS
    <3> QED
      BY ONLY <1>1, <3>1 DEF HitStaysInFrame, HeaderSize
  <2> QED
    BY ONLY <1>4, <2>1
<1>6. line[pos[k + 1] + 1] = FrameOf(p)[1]
  BY <1>3, <1>5, HeardByte
<1>7. line[pos[k + 1] + 6] = FrameOf(p)[6]
  BY <1>3, <1>5, HeardByte
<1> QED
  BY <1>2, <1>6, <1>7

LEMMA SameLine ==
  ASSUME UNCHANGED <<sent, hit, calm>>
  PROVE  /\ HitOK' = HitOK /\ HitStaysInFrame' = HitStaysInFrame
         /\ LostPlace' = LostPlace /\ Sure' = Sure
         /\ \A pos, line : Laid(pos, line)' = Laid(pos, line) /\ Heard(pos, line)' = Heard(pos, line)
         /\ \A m, k : KeptOf(m, k)' = KeptOf(m, k)
         /\ \A k : Kept(k)' = Kept(k)
<1>1. HitOK' = HitOK /\ HitStaysInFrame' = HitStaysInFrame
  BY DEF HitOK, HitStaysInFrame
<1>2. LostPlace' = LostPlace /\ Sure' = Sure
  BY <1>1 DEF LostPlace, Sure
<1>3. \A pos, line : Laid(pos, line)' = Laid(pos, line) /\ Heard(pos, line)' = Heard(pos, line)
  BY <1>2 DEF Laid, Heard
<1>4. \A m, k : KeptOf(m, k)' = KeptOf(m, k)
  BY DEF KeptOf, HitCosts
<1>5. \A k : Kept(k)' = Kept(k)
  BY <1>4 DEF Kept
<1> QED
  BY <1>1, <1>2, <1>3, <1>4, <1>5

-----------------------------------------------------------------------------
(* The steps of the gateway.                                               *)

LEMMA CallInStep ==
  ASSUME TInv, NEW k \in Nat, NEW c \in Nat, NEW pos \in [1 .. Len(sent) + 1 -> Nat],
         NEW line \in Seq(Byte), Aligned(k, c, pos, line), Call \/ NothingAvailable
  PROVE  Aligned(k, c, pos, line)'
<1>1. pc \in {"away", "scan"} /\ pc' \in {"away", "scan"}
      /\ UNCHANGED <<sent, air, hit, buffer, header, body, accepted, running, calm, before>>
  BY DEF Call, NothingAvailable, Return, history
<1>2. Laid(pos, line)' /\ Heard(pos, line)' /\ (accepted = before \o Kept(k))' /\ Sure' = Sure
  BY <1>1, SameLine DEF Aligned
<1>3. Ahead(c, line)' /\ running'
  BY <1>1 DEF Aligned, Ahead
<1>4. Place(k, c, pos, line)'
  <2>1. Place(k, c, pos, line) /\ Sure' = Sure
    BY <1>2 DEF Aligned
  <2> QED
    BY ONLY <1>1, <2>1 DEF Place
<1> QED
  BY <1>2, <1>3, <1>4 DEF Aligned

LEMMA StartInStep ==
  ASSUME TInv, HitOK, NEW k \in Nat, k < Sure,
         NEW c \in Nat, NEW pos \in [1 .. Len(sent) + 1 -> Nat],
         NEW line \in Seq(Byte), Aligned(k, c, pos, line), ReadStart
  PROVE  Aligned(k, c + 1, pos, line)'
<1>1. pc = "scan" /\ buffer # <<>> /\ buffer' = Tail(buffer)
      /\ pc' = (IF Head(buffer) = kStart THEN "header" ELSE "scan")
      /\ UNCHANGED <<sent, air, hit, header, body, accepted, running, calm, before>>
  BY DEF ReadStart, history
<1>2. /\ Laid(pos, line)' /\ Heard(pos, line)' /\ (accepted = before \o Kept(k))' /\ running'
      /\ Sure' = Sure
  BY <1>1, SameLine DEF Aligned
<1>3. /\ TypeOK /\ Laid(pos, line) /\ Heard(pos, line) /\ Ahead(c, line) /\ Place(k, c, pos, line)
  BY DEF TInv, Aligned
<1>4. /\ buffer \in Seq(Byte) /\ Len(buffer) \in Nat \ {0} /\ Len(air) \in Nat /\ Len(line) \in Nat
      /\ Len(buffer') = Len(buffer) - 1
      /\ \A j \in 1 .. Len(buffer') : buffer'[j] = buffer[j + 1]
      /\ Head(buffer) = buffer[1]
  BY SMTT(30), <1>1, <1>3 DEF TypeOK
<1>5. c < Len(line) /\ Head(buffer) = line[c + 1]
  BY <1>3, <1>4 DEF Ahead
<1>6. calm <= k /\ k < Sure
  BY <1>3 DEF Place
<1>7. Head(buffer) = kStart
  <2>1. c = pos[k + 1]
    BY <1>1, <1>3 DEF Place
  <2>2. line[pos[k + 1] + 1] = kStart
    BY <1>3, <1>6, HeardEnds
  <2> QED
    BY <1>5, <2>1, <2>2
<1>8. Ahead(c + 1, line)'
  <2>1. c + 1 + Len(buffer') + Len(air) = Len(line)
    <3>1. c + Len(buffer) + Len(air) = Len(line)
      BY <1>3 DEF Ahead
    <3> QED
      BY ONLY c \in Nat, <1>4, <3>1
  <2>2. ASSUME NEW j \in 1 .. Len(buffer') PROVE buffer'[j] = line[c + 1 + j]
    <3>1. j + 1 \in 1 .. Len(buffer)
      BY <1>4
    <3>2. buffer[j + 1] = line[c + (j + 1)]
      BY <1>3, <3>1 DEF Ahead
    <3>3. c + (j + 1) = c + 1 + j
      BY <1>4
    <3> QED
      BY <1>4, <3>2, <3>3
  <2>3. ASSUME NEW j \in 1 .. Len(air) PROVE air[j] = line[c + 1 + Len(buffer') + j]
    <3>1. c + 1 + Len(buffer') + j = c + Len(buffer) + j
      BY <1>4
    <3> QED
      BY <1>3, <3>1 DEF Ahead
  <2> QED
    BY <1>1, <2>1, <2>2, <2>3 DEF Ahead
<1>9. Place(k, c + 1, pos, line)'
  BY <1>1, <1>2, <1>3, <1>6, <1>7 DEF Place
<1> QED
  BY <1>2, <1>8, <1>9 DEF Aligned

LEMMA HeaderInStep ==
  ASSUME TInv, HitOK, NEW k \in Nat, NEW c \in Nat, NEW pos \in [1 .. Len(sent) + 1 -> Nat],
         NEW line \in Seq(Byte), Aligned(k, c, pos, line), ReadHeader
  PROVE  Aligned(k, c + 5, pos, line)'
<1>1. PICK got \in Reads(5) :
        LET h == Filled(got, 5)
        IN  /\ Consumed(got) /\ header' = h
            /\ pc' = CASE got = <<>>      -> "scan"
                     [] TooLong(h)        -> "away"
                     [] LengthOf(h) = 0   -> "tail"
                     [] OTHER             -> "body"
  BY DEF ReadHeader, HeaderSize
<1>2. /\ pc = "header" /\ body' = <<>>
      /\ UNCHANGED <<sent, air, hit, accepted, running, calm, before>>
  BY DEF ReadHeader, history
<1>3. /\ Laid(pos, line)' /\ Heard(pos, line)' /\ (accepted = before \o Kept(k))' /\ running'
      /\ Sure' = Sure
  BY <1>2, SameLine DEF Aligned
<1>4. /\ TypeOK /\ Laid(pos, line) /\ Heard(pos, line) /\ Ahead(c, line) /\ Place(k, c, pos, line)
  BY DEF TInv, Aligned
<1> DEFINE l == Len(sent[k + 1].body)
<1>5. calm <= k /\ k < Sure /\ c = pos[k + 1] + 1
  BY <1>2, <1>4 DEF Place
<1>6. /\ sent[k + 1] \in Payloads /\ l \in Nat /\ pos[k + 1] \in Nat
      /\ pos[k + 1] + 8 + l <= Len(line) /\ Len(line) \in Nat
  BY <1>4, <1>5, NextFrame
<1>7. l <= kMaxSlaveCount
  <2> DEFINE p == sent[k + 1]
  <2>1. p \in Payloads
    BY <1>6
  <2> HIDE DEF p
  <2>2. Len(p.body) <= kMaxSlaveCount
    BY <2>1, PayloadType
  <2> QED
    BY <2>2 DEF p
<1> HIDE DEF l
<1>8. /\ got \in Seq(Byte) /\ Len(got) = 5
      /\ \A j \in 1 .. 5 : got[j] = line[c + j]
      /\ Ahead(c + 5, line)'
  <2>1. c + 5 <= Len(line)
    BY SMTT(30), <1>5, <1>6
  <2> QED
    BY <1>1, <1>2, <1>4, <2>1, ReadAhead
<1>9. \A j \in 1 .. 5 : header'[j] = line[pos[k + 1] + 1 + j]
  <2>1. header' = Filled(got, 5) /\ got \in Seq(Byte) /\ Len(got) = 5
    BY <1>1, <1>8
  <2>2. \A j \in 1 .. 5 : j <= Len(got) => header'[j] = got[j]
    <3> DEFINE n == 5
    <3>1. n \in Nat /\ header' = Filled(got, n)
      BY <2>1
    <3> HIDE DEF n
    <3>2. \A j \in 1 .. n : j <= Len(got) => header'[j] = got[j]
      <4>1. got \in Seq(Byte)
        BY <2>1
      <4>2. \A j \in 1 .. n : j <= Len(got) => Filled(got, n)[j] = got[j]
        BY <3>1, <4>1, FilledType
      <4> QED
        BY <3>1, <4>2
    <3> QED
      BY <3>2 DEF n
  <2> TAKE j \in 1 .. 5
  <2>3. header'[j] = line[c + j]
    BY SMTT(30), <1>8, <2>1, <2>2
  <2> QED
    BY <1>5, <2>3
<1>10. header'[5] = l
  <2>1. line[pos[k + 1] + 6] = l
    BY <1>4, <1>5, HeardEnds DEF l
  <2>2. pos[k + 1] + 1 + 5 = pos[k + 1] + 6
    BY ONLY <1>6
  <2> QED
    BY <1>9, <2>1, <2>2
<1>11. pc' = IF l = 0 THEN "tail" ELSE "body"
  <2>1. got # <<>>
    <3>1. PICK n \in Nat : n = Len(got) /\ n = 5
      BY <1>8
    <3>2. Len(<<>>) = 0
      BY EmptySeq
    <3>3. got = <<>> => n = 0
      BY ONLY Zenon, <3>1, <3>2
    <3> QED
      BY ONLY <3>1, <3>3
  <2>2. ~TooLong(header') /\ LengthOf(header') = l
    <3>1. kMaxSlaveCount \in Nat
      BY ReceiveAssumption, ByteType
    <3> QED
      BY <1>6, <1>7, <1>10, <3>1 DEF TooLong, LengthOf, HeaderSize
  <2> QED
    BY <1>1, <2>1, <2>2
<1>12. Place(k, c + 5, pos, line)'
  <2>1. CASE l = 0
    <3>1. /\ pc' = "tail" /\ sent' = sent /\ body' = <<>> /\ k < Sure' /\ c + 5 = pos[k + 1] + 6
          /\ calm' <= k /\ k <= Sure'
      BY <1>2, <1>3, <1>4, <1>5, <1>6, <1>11, <2>1 DEF Place
    <3>2. Len(body') = 0
      BY <3>1, EmptySeq
    <3> QED
      BY SMTT(30), <1>9, <2>1, <3>1, <3>2 DEF Place, l
  <2>2. CASE l # 0
    <3>1. /\ pc' = "body" /\ sent' = sent /\ k < Sure' /\ l > 0 /\ c + 5 = pos[k + 1] + 6
          /\ calm' <= k /\ k <= Sure'
      <4>1. pc' = "body" /\ l > 0 /\ c + 5 = pos[k + 1] + 6
        BY ONLY <1>5, <1>6, <1>11, <2>2, c \in Nat
      <4>2. calm <= k /\ k <= Sure
        BY ONLY <1>4 DEF Place
      <4> QED
        BY ONLY <1>2, <1>3, <1>5, <4>1, <4>2
    <3> QED
      BY <1>9, <3>1 DEF Place, l
  <2> QED
    BY <2>1, <2>2
<1> QED
  BY <1>3, <1>8, <1>12 DEF Aligned

BodyIs(k, l) == Len(sent[k + 1].body) = l

LEMMA BodyInStep ==
  ASSUME TInv, HitOK, NEW k \in Nat, NEW c \in Nat, NEW pos \in [1 .. Len(sent) + 1 -> Nat],
         NEW line \in Seq(Byte), Aligned(k, c, pos, line), ReadBody,
         NEW l \in Nat, BodyIs(k, l)
  PROVE  Aligned(k, c + l, pos, line)'
<1>1. PICK got \in Reads(LengthOf(header)) :
        /\ Consumed(got) /\ body' = Filled(got, LengthOf(header))
        /\ pc' = IF got = <<>> THEN "away" ELSE "tail"
  BY DEF ReadBody
<1>2. pc = "body" /\ UNCHANGED <<sent, air, hit, header, accepted, running, calm, before>>
  BY DEF ReadBody, history
<1>3. /\ Laid(pos, line)' /\ Heard(pos, line)' /\ (accepted = before \o Kept(k))' /\ running'
      /\ Sure' = Sure
  BY <1>2, SameLine DEF Aligned
<1>4. /\ TypeOK /\ Laid(pos, line) /\ Heard(pos, line) /\ Ahead(c, line) /\ Place(k, c, pos, line)
  BY DEF TInv, Aligned
<1>5. calm <= k /\ k < Sure /\ c = pos[k + 1] + 6 /\ l > 0
      /\ \A j \in 1 .. 5 : header[j] = line[pos[k + 1] + 1 + j]
  BY <1>2, <1>4 DEF Place, BodyIs
<1>6. /\ sent[k + 1] \in Payloads /\ pos[k + 1] \in Nat
      /\ pos[k + 1] + 8 + l <= Len(line) /\ Len(line) \in Nat
  BY <1>4, <1>5, NextFrame DEF BodyIs
<1>7. LengthOf(header) = l
  <2>1. line[pos[k + 1] + 6] = l
    BY <1>4, <1>5, HeardEnds DEF BodyIs
  <2>2. pos[k + 1] + 1 + 5 = pos[k + 1] + 6
    BY ONLY <1>6
  <2> QED
    BY SMTT(30), <1>5, <2>1, <2>2 DEF LengthOf, HeaderSize
<1>8. /\ got \in Seq(Byte) /\ Len(got) = l
      /\ \A j \in 1 .. l : got[j] = line[c + j]
      /\ Ahead(c + l, line)'
  <2>1. c + l <= Len(line)
    <3> DEFINE a == pos[k + 1]
               m == Len(line)
    <3>1. a \in Nat /\ m \in Nat /\ l \in Nat /\ a + 8 + l <= m /\ c = a + 6
      BY <1>5, <1>6
    <3> HIDE DEF a, m
    <3>2. c + l <= m
      BY <3>1
    <3> QED
      BY <3>2 DEF m
  <2>2. got \in Reads(l) /\ Consumed(got) /\ air' = air /\ l \in Nat
    BY <1>1, <1>2, <1>6, <1>7
  <2>3. TypeOK /\ Ahead(c, line)
    BY <1>4
  <2> QED
    BY <2>1, <2>2, <2>3, ReadAhead
<1>9. Len(body') = l /\ \A j \in 1 .. l : body'[j] = line[c + j]
  <2>1. body' = Filled(got, l)
    BY <1>1, <1>7
  <2>2. got \in Seq(Byte) /\ Len(got) = l /\ l \in Nat
    BY <1>6, <1>8
  <2>3. Len(body') = l /\ \A j \in 1 .. l : j <= Len(got) => body'[j] = got[j]
    BY <2>1, <2>2, FilledType
  <2> QED
    BY <1>8, <2>2, <2>3
<1>10. pc' = "tail"
  BY <1>1, <1>5, <1>6, <1>8
<1>11. Place(k, c + l, pos, line)'
  <2>1. /\ pc' = "tail" /\ sent' = sent /\ header' = header /\ k < Sure' /\ calm' <= k
        /\ k <= Sure'
    BY <1>2, <1>3, <1>4, <1>5, <1>10 DEF Place
  <2>2. c + l = pos[k + 1] + 6 + Len(body') /\ Len(body') = l
    BY <1>5, <1>6, <1>9
  <2>3. \A j \in 1 .. Len(body') : body'[j] = line[pos[k + 1] + 6 + j]
    BY <1>5, <1>9
  <2> QED
    BY <1>5, <2>1, <2>2, <2>3 DEF Place, BodyIs
<1> QED
  BY <1>3, <1>6, <1>8, <1>11 DEF Aligned

\* A header and a body of l bytes that were read after the start byte at a + 1.
HeaderAt(h, a, line) == Len(h) = 5 /\ \A j \in 1 .. 5 : h[j] = line[a + 1 + j]
BodyAt(b, l, a, line) == Len(b) = l /\ \A j \in 1 .. l : b[j] = line[a + 6 + j]

\* The m bytes of s are those of the line from a + 1 on.
SameAs(s, m, a, line) == Len(s) = m /\ \A j \in 1 .. m : s[j] = line[a + j]

\* What is summed is what lies on the line from the start byte on.
LEMMA SummedAt ==
  ASSUME NEW a \in Nat, NEW l \in Nat, NEW line \in Seq(Byte), line[a + 1] = kStart,
         NEW h \in Seq(Byte), HeaderAt(h, a, line),
         NEW b \in Seq(Byte), BodyAt(b, l, a, line)
  PROVE  Summed(h, b) \in Seq(Byte) /\ SameAs(Summed(h, b), 6 + l, a, line)
<1> DEFINE s == Summed(h, b)
<1>0. Len(h) = 5 /\ (\A j \in 1 .. 5 : h[j] = line[a + 1 + j])
      /\ Len(b) = l /\ \A j \in 1 .. l : b[j] = line[a + 6 + j]
  BY DEF HeaderAt, BodyAt
<1>1. /\ s \in Seq(Byte) /\ Len(s) = 1 + Len(h) + Len(b) /\ s[1] = kStart
      /\ \A i \in 1 .. Len(h) : s[1 + i] = h[i]
      /\ \A i \in 1 .. Len(b) : s[1 + Len(h) + i] = b[i]
  BY SummedType
<1> HIDE DEF s
<1>2. ASSUME NEW j \in 1 .. 6 + l PROVE s[j] = line[a + j]
  <2>1. CASE j = 1
    BY <1>1, <2>1
  <2>2. CASE j \in 2 .. 6
    <3>1. PICK i \in 1 .. 5 : j = 1 + i
      <4>1. j - 1 \in 1 .. 5 /\ j = 1 + (j - 1)
        BY <2>2
      <4> QED
        BY <4>1
    <3>2. s[1 + i] = h[i] /\ h[i] = line[a + 1 + i]
      BY <1>0, <1>1
    <3>3. a + 1 + i = a + j
      BY <3>1
    <3> QED
      BY <3>1, <3>2, <3>3
  <2>3. CASE j \in 7 .. 6 + l
    <3>1. PICK i \in 1 .. l : j = 6 + i
      <4>1. j - 6 \in 1 .. l /\ j = 6 + (j - 6)
        BY <2>3
      <4> QED
        BY <4>1
    <3>2. s[1 + 5 + i] = b[i] /\ b[i] = line[a + 6 + i]
      BY <1>0, <1>1
    <3>3. a + 6 + i = a + j /\ 1 + 5 + i = j
      BY <3>1
    <3> QED
      BY <3>2, <3>3
  <2>4. j = 1 \/ j \in 2 .. 6 \/ j \in 7 .. 6 + l
    OBVIOUS
  <2> QED
    BY ONLY <2>1, <2>2, <2>3, <2>4
<1>3. Len(s) = 6 + l
  BY <1>0, <1>1
<1> QED
  BY <1>1, <1>2, <1>3 DEF s, SameAs

\* Two runs of m bytes differ at q and nowhere else.
DifferAt(s, t, m, q) ==
  Len(s) = m /\ Len(t) = m /\ \A j \in 1 .. m : s[j] = t[j] <=> j # q

\* The checksum of what was heard is that of what was sent unless one of the
\* bytes was hit.
LEMMA HitShows ==
  ASSUME NEW m \in Nat, NEW q \in Nat,
         NEW s \in Seq(Byte), NEW t \in Seq(Byte), DifferAt(s, t, m, q)
  PROVE  ByteSum(s) = ByteSum(t) <=> q \notin 1 .. m
<1>0. Len(s) = m /\ Len(t) = m /\ \A j \in 1 .. m : s[j] = t[j] <=> j # q
  BY DEF DifferAt
<1>1. CASE q \in 1 .. m
  <2>1. s[q] \in Octet /\ t[q] \in Octet
    BY <1>0, <1>1, ByteAt DEF Byte, Octet
  <2>2. s \in Seq(Nat) /\ t \in Seq(Nat)
    BY ByteType, SeqMonotonic
  <2>3. q \in 1 .. Len(s) /\ Len(s) = Len(t) /\ s[q] # t[q]
        /\ \A i \in 1 .. Len(s) : i # q => s[i] = t[i]
    BY <1>0, <1>1
  <2>4. ByteSum(s) # ByteSum(t)
    BY <2>1, <2>2, <2>3, OneByteShows
  <2> QED
    BY <1>1, <2>4
<1>2. CASE q \notin 1 .. m
  <2>1. s = t
    <3>1. \A j \in 1 .. m : s[j] = t[j]
      BY <1>0, <1>2
    <3> QED
      BY <1>0, <3>1, SameSeq
  <2> QED
    BY <1>2, <2>1
<1> QED
  BY <1>1, <1>2

\* A payload p that the line has after the start byte at a + 1.
PayloadAt(p, a, line) ==
  /\ \A j \in 1 .. 4 : p.header[j] = line[a + 1 + j]
  /\ \A j \in 1 .. Len(p.body) : p.body[j] = line[a + 6 + j]

LEMMA ReadIsSent ==
  ASSUME NEW p \in Payloads, NEW a \in Nat, NEW line \in Seq(Byte), PayloadAt(p, a, line),
         NEW h \in Seq(Byte), HeaderAt(h, a, line),
         NEW b \in Seq(Byte), BodyAt(b, Len(p.body), a, line)
  PROVE  p = [header |-> SubSeq(h, 1, 4), body |-> b]
<1> DEFINE u == SubSeq(h, 1, 4)
           v == p.header
           w == p.body
<1>1. v \in Seq(Byte) /\ Len(v) = 4 /\ w \in Seq(Byte)
      /\ p = [header |-> v, body |-> w]
  BY PayloadType
<1>2. Len(h) = 5 /\ \A j \in 1 .. 4 : v[j] = h[j]
  <2>1. /\ Len(h) = 5
        /\ \A j \in 1 .. 5 : h[j] = line[a + 1 + j]
        /\ \A j \in 1 .. 4 : v[j] = line[a + 1 + j]
    BY DEF HeaderAt, PayloadAt
  <2> HIDE DEF v
  <2>2. ASSUME NEW j \in 1 .. 4 PROVE v[j] = h[j]
    <3>1. j \in 1 .. 5
      OBVIOUS
    <3> QED
      BY ONLY <2>1, <3>1, j \in 1 .. 4
  <2> QED
    BY <2>1, <2>2
<1>3. Len(b) = Len(w) /\ \A j \in 1 .. Len(b) : b[j] = w[j]
  BY DEF BodyAt, PayloadAt
<1>4. u \in Seq(Byte) /\ Len(u) = 4 /\ \A j \in 1 .. 4 : u[j] = h[j]
  <2> DEFINE n == 4
             m == 0
  <2>1. n \in Nat /\ m \in Nat /\ m + n <= Len(h)
    BY <1>2
  <2> HIDE DEF n, m
  <2>2. /\ SubSeq(h, m + 1, m + n) \in Seq(Byte) /\ Len(SubSeq(h, m + 1, m + n)) = n
        /\ \A i \in 1 .. n : SubSeq(h, m + 1, m + n)[i] = h[m + i]
    BY <2>1, SubSeqAt
  <2> QED
    BY <2>2 DEF n, m
<1> HIDE DEF u, v, w
<1>5. u = v
  <2>1. \A j \in 1 .. 4 : u[j] = v[j]
    BY <1>2, <1>4
  <2>2. u \in Seq(Byte) /\ v \in Seq(Byte) /\ Len(u) = Len(v)
        /\ \A j \in 1 .. Len(u) : u[j] = v[j]
    BY <1>1, <1>4, <2>1
  <2> QED
    BY <2>2, SameSeq
<1>6. b = w
  BY <1>1, <1>3, SameSeq
<1> QED
  BY <1>1, <1>5, <1>6 DEF u

\* A payload p of which frame F was sent, heard with the byte at q hit.
HeardWith(F, q, a, line) ==
  \A j \in 1 .. Len(F) : line[a + j] = F[j] <=> j # q

\* The frame that was read is found good unless it was hit before its end byte:
\* a hit in the checksum leaves the sum as it is, any other one changes it.
LEMMA Verdict ==
  ASSUME NEW p \in Payloads, NEW l \in Nat, Len(p.body) = l,
         NEW a \in Nat, NEW line \in Seq(Byte), line[a + 1] = kStart,
         NEW q \in Nat, HeardWith(FrameOf(p), q, a, line),
         NEW h \in Seq(Byte), HeaderAt(h, a, line),
         NEW b \in Seq(Byte), BodyAt(b, l, a, line)
  PROVE  /\ line[a + 7 + l] = Checksum(h, b) <=> q \notin 1 .. 7 + l
         /\ q \notin 1 .. 7 + l => p = [header |-> SubSeq(h, 1, 4), body |-> b]
<1>1. PICK F : F = FrameOf(p)
  OBVIOUS
<1>2. /\ F \in Seq(Byte) /\ Len(F) = 8 + l
      /\ F[1] = kStart
      /\ \A i \in 1 .. 4 : F[1 + i] = p.header[i]
      /\ F[6] = l
      /\ \A i \in 1 .. l : F[6 + i] = p.body[i]
      /\ F[7 + l] = Checksum(Append(p.header, l), p.body)
  BY <1>1, FrameFacts
<1>3. \A j \in 1 .. 8 + l : line[a + j] = F[j] <=> j # q
  BY <1>1, <1>2 DEF HeardWith
<1>4. PICK s : s = Summed(h, b)
  OBVIOUS
<1>5. s \in Seq(Byte) /\ Len(s) = 6 + l /\ \A j \in 1 .. 6 + l : s[j] = line[a + j]
  <2>1. Summed(h, b) \in Seq(Byte) /\ SameAs(Summed(h, b), 6 + l, a, line)
    BY ONLY SummedAt, Zenon, a \in Nat, l \in Nat, line \in Seq(Byte), line[a + 1] = kStart,
       h \in Seq(Byte), HeaderAt(h, a, line), b \in Seq(Byte), BodyAt(b, l, a, line)
  <2> QED
    BY ONLY <1>4, <2>1, Zenon DEF SameAs
<1>6. PICK t : t = Summed(Append(p.header, l), p.body)
  OBVIOUS
<1>7. t \in Seq(Byte) /\ Len(t) = 6 + l /\ \A j \in 1 .. 6 + l : t[j] = F[j]
  <2>1. PICK g : g = Append(p.header, l)
    OBVIOUS
  <2>2. PICK d : d = p.body
    OBVIOUS
  <2>3. g \in Seq(Byte) /\ Len(g) = 5 /\ (\A i \in 1 .. 4 : g[i] = p.header[i]) /\ g[5] = l
    BY <2>1, HeaderType
  <2>4. d \in Seq(Byte) /\ Len(d) = l
    BY <2>2, PayloadType
  <2>5. PICK o \in Nat : o = 0
    OBVIOUS
  <2>6. F[o + 1] = kStart
    BY <1>2, <2>5
  <2>7. HeaderAt(g, o, F)
    <3>1. ASSUME NEW j \in 1 .. 5 PROVE g[j] = F[o + 1 + j]
      <4>1. j \in 1 .. 4 \/ j = 5
        OBVIOUS
      <4>2. o + 1 + j = 1 + j /\ 1 + 5 = 6
        BY <2>5
      <4> QED
        BY ONLY SMTT(30), <1>2, <2>3, <4>1, <4>2
    <3> QED
      BY ONLY <2>3, <3>1 DEF HeaderAt
  <2>8. BodyAt(d, l, o, F)
    <3>1. ASSUME NEW j \in 1 .. l PROVE d[j] = F[o + 6 + j]
      <4>1. o + 6 + j = 6 + j
        BY <2>5
      <4> QED
        BY ONLY <1>2, <2>2, <3>1, <4>1
    <3> QED
      BY ONLY <2>4, <3>1 DEF BodyAt
  <2>9. Summed(g, d) \in Seq(Byte) /\ SameAs(Summed(g, d), 6 + l, o, F)
    <3>1. F \in Seq(Byte)
      BY <1>2
    <3>2. g \in Seq(Byte) /\ d \in Seq(Byte)
      BY <2>3, <2>4
    <3> QED
      BY ONLY SummedAt, Zenon, o \in Nat, l \in Nat, <2>6, <2>7, <2>8, <3>1, <3>2
  <2> QED
    <3>1. t = Summed(g, d)
      BY ONLY <1>6, <2>1, <2>2, Zenon
    <3>2. t \in Seq(Byte) /\ Len(t) = 6 + l /\ \A j \in 1 .. 6 + l : t[j] = F[o + j]
      BY ONLY <2>9, <3>1, Zenon DEF SameAs
    <3>3. \A j \in 1 .. 6 + l : o + j = j
      BY ONLY <2>5, l \in Nat
    <3> QED
      BY ONLY <3>2, <3>3, Zenon
<1>8. Checksum(h, b) = ByteSum(s) /\ F[7 + l] = ByteSum(t)
  BY <1>2, <1>4, <1>6 DEF Checksum, Summed
<1>9. line[a + 7 + l] = Checksum(h, b) <=> q \notin 1 .. 7 + l
  <2>1. PICK m \in Nat : m = 6 + l
    OBVIOUS
  <2>2. PICK x : x = line[a + 7 + l]
    OBVIOUS
  <2>3. x = ByteSum(t) <=> q # m + 1
    <3>1. 7 + l \in 1 .. 8 + l /\ a + (7 + l) = a + 7 + l
      OBVIOUS
    <3>2. line[a + (7 + l)] = F[7 + l] <=> 7 + l # q
      BY <1>3, <3>1
    <3> QED
      BY <1>8, <2>1, <2>2, <3>1, <3>2
  <2>4. DifferAt(s, t, m, q)
    <3>1. ASSUME NEW j \in 1 .. m PROVE s[j] = t[j] <=> j # q
      <4>1. j \in 1 .. 6 + l /\ j \in 1 .. 8 + l
        BY <2>1
      <4> QED
        BY <1>3, <1>5, <1>7, <4>1
    <3> QED
      BY <1>5, <1>7, <2>1, <3>1 DEF DifferAt
  <2>5. ByteSum(s) = ByteSum(t) <=> q \notin 1 .. m
    <3>1. s \in Seq(Byte) /\ t \in Seq(Byte) /\ m \in Nat /\ q \in Nat
      BY <1>5, <1>7
    <3> QED
      BY ONLY <2>4, <3>1, HitShows
  <2>6. q \notin 1 .. 7 + l <=> q \notin 1 .. m /\ q # m + 1
    BY <2>1
  <2>7. CASE q \in 1 .. m
    <3>1. q # m + 1
      BY <2>7
    <3> QED
      BY <1>8, <2>2, <2>3, <2>5, <2>6, <2>7, <3>1
  <2>8. CASE q \notin 1 .. m
    BY <1>8, <2>2, <2>3, <2>5, <2>6, <2>8
  <2> QED
    BY <2>7, <2>8
<1>10. ASSUME q \notin 1 .. 7 + l PROVE p = [header |-> SubSeq(h, 1, 4), body |-> b]
  <2>1. ASSUME NEW j \in 1 .. 4 PROVE p.header[j] = line[a + 1 + j]
    <3>1. 1 + j \in 1 .. 7 + l /\ 1 + j \in 1 .. 8 + l /\ a + (1 + j) = a + 1 + j
      OBVIOUS
    <3>2. line[a + (1 + j)] = F[1 + j]
      BY <1>3, <1>10, <3>1
    <3> QED
      BY <1>2, <3>1, <3>2
  <2>2. ASSUME NEW j \in 1 .. l PROVE p.body[j] = line[a + 6 + j]
    <3>1. 6 + j \in 1 .. 7 + l /\ 6 + j \in 1 .. 8 + l /\ a + (6 + j) = a + 6 + j
      OBVIOUS
    <3>2. line[a + (6 + j)] = F[6 + j]
      BY <1>3, <1>10, <3>1
    <3> QED
      BY <1>2, <3>1, <3>2
  <2>3. PayloadAt(p, a, line)
    BY <2>1, <2>2 DEF PayloadAt
  <2> QED
    BY <2>3, ReadIsSent
<1> QED
  BY <1>9, <1>10

\* A part of sent.
LEMMA PartType ==
  ASSUME NEW s \in Seq(Payloads), NEW m \in Nat, NEW n \in Nat, n <= Len(s)
  PROVE  SubSeq(s, m + 1, n) \in Seq(Payloads)
<1>1. m + 1 \in Int /\ n \in Int
  OBVIOUS
<1>2. ASSUME NEW i \in m + 1 .. n PROVE s[i] \in Payloads
  <2>1. i \in 1 .. Len(s)
    OBVIOUS
  <2> QED
    BY <2>1, ElementOfSeq
<1> QED
  BY ONLY <1>1, <1>2, SubSeqProperties

LEMMA PartJoin ==
  ASSUME NEW s \in Seq(Payloads), NEW m \in Nat, NEW k \in Nat, NEW n \in Nat,
         m <= k, k <= n, n <= Len(s)
  PROVE  SubSeq(s, m + 1, k) \o SubSeq(s, k + 1, n) = SubSeq(s, m + 1, n)
<1>1. PICK a : a = m + 1
  OBVIOUS
<1>2. a \in 1 .. Len(s) + 1 /\ k \in a - 1 .. Len(s) /\ n \in k .. Len(s)
  BY <1>1
<1>3. SubSeq(s, a, k) \o SubSeq(s, k + 1, n) = SubSeq(s, a, n)
  BY ONLY <1>2, s \in Seq(Payloads), ConcatAdjacentSubSeq
<1> QED
  BY ONLY <1>1, <1>3

LEMMA JoinThree ==
  ASSUME NEW a \in Seq(Payloads), NEW b \in Seq(Payloads), NEW c \in Seq(Payloads)
  PROVE  (a \o b) \o c = a \o (b \o c)
BY ConcatAssociative

\* What is kept of two runs of frames that follow one another.
LEMMA KeptJoin ==
  ASSUME TypeOK, NEW m \in Nat, NEW k \in Nat, NEW n \in Nat,
         m <= k, k <= n, n <= Len(sent)
  PROVE  /\ KeptOf(m, k) \in Seq(Payloads) /\ KeptOf(k, n) \in Seq(Payloads)
         /\ KeptOf(m, n) = KeptOf(m, k) \o KeptOf(k, n)
<1>1. PICK s \in Seq(Payloads) : s = sent
  BY DEF TypeOK
<1>2. PICK f \in Nat : f = hit.frame
  BY DEF TypeOK
<1>3. n <= Len(s) /\ k <= Len(s) /\ Len(s) \in Nat
  BY <1>1
<1> DEFINE Part(i, j) == SubSeq(s, i + 1, j)
<1>4. \A i, j \in Nat : j <= Len(s) => Part(i, j) \in Seq(Payloads)
  BY PartType
<1>5. \A i, j, l \in Nat : i <= j /\ j <= l /\ l <= Len(s) => Part(i, j) \o Part(j, l) = Part(i, l)
  BY PartJoin
<1>6. \A i, j : KeptOf(i, j) = IF HitCosts /\ f \in i + 1 .. j
                                 THEN Part(i, f - 1) \o Part(f, j) ELSE Part(i, j)
  BY <1>1, <1>2 DEF KeptOf
<1> HIDE DEF Part
<1>7. CASE HitCosts /\ f \in m + 1 .. k
  <2>1. f \in Nat /\ f - 1 \in Nat /\ f <= k /\ f - 1 <= Len(s) /\ f \in m + 1 .. n
        /\ f \notin k + 1 .. n
    BY ONLY <1>2, <1>3, <1>7, m \in Nat, k \in Nat, n \in Nat, k <= n
  <2>2. /\ KeptOf(m, k) = Part(m, f - 1) \o Part(f, k)
        /\ KeptOf(m, n) = Part(m, f - 1) \o Part(f, n)
        /\ KeptOf(k, n) = Part(k, n)
    BY ONLY <1>6, <1>7, <2>1
  <2>3. Part(m, f - 1) \in Seq(Payloads) /\ Part(f, k) \in Seq(Payloads)
        /\ Part(k, n) \in Seq(Payloads)
    BY ONLY SMTT(30), <1>3, <1>4, <2>1, m \in Nat, k \in Nat, n \in Nat
  <2>4. Part(f, k) \o Part(k, n) = Part(f, n)
    BY ONLY <1>3, <1>5, <2>1, k \in Nat, n \in Nat, k <= n
  <2>5. (Part(m, f - 1) \o Part(f, k)) \o Part(k, n) = Part(m, f - 1) \o (Part(f, k) \o Part(k, n))
    BY ONLY <2>3, JoinThree
  <2>6. Part(m, f - 1) \o Part(f, k) \in Seq(Payloads)
    BY ONLY <2>3, ConcatProperties
  <2> QED
    BY ONLY <2>2, <2>3, <2>4, <2>5, <2>6
<1>8. CASE HitCosts /\ f \in k + 1 .. n
  <2>1. f \in Nat /\ f - 1 \in Nat /\ k <= f - 1 /\ f - 1 <= Len(s) /\ f \in m + 1 .. n
        /\ f \notin m + 1 .. k
    BY ONLY <1>2, <1>3, <1>8, m \in Nat, k \in Nat, n \in Nat, m <= k
  <2>2. /\ KeptOf(m, k) = Part(m, k)
        /\ KeptOf(m, n) = Part(m, f - 1) \o Part(f, n)
        /\ KeptOf(k, n) = Part(k, f - 1) \o Part(f, n)
    BY ONLY <1>6, <1>8, <2>1
  <2>3. Part(m, k) \in Seq(Payloads) /\ Part(k, f - 1) \in Seq(Payloads)
        /\ Part(f, n) \in Seq(Payloads)
    BY ONLY <1>3, <1>4, <2>1, m \in Nat, k \in Nat, n \in Nat
  <2>4. Part(m, k) \o Part(k, f - 1) = Part(m, f - 1)
    BY ONLY <1>3, <1>5, <2>1, k \in Nat, m \in Nat, m <= k
  <2>5. (Part(m, k) \o Part(k, f - 1)) \o Part(f, n) = Part(m, k) \o (Part(k, f - 1) \o Part(f, n))
    BY ONLY <2>3, JoinThree
  <2>6. Part(k, f - 1) \o Part(f, n) \in Seq(Payloads)
    BY ONLY <2>3, ConcatProperties
  <2> QED
    BY ONLY <2>2, <2>3, <2>4, <2>5, <2>6
<1>9. CASE ~(HitCosts /\ f \in m + 1 .. n)
  <2>1. f \in m + 1 .. k \/ f \in k + 1 .. n => f \in m + 1 .. n
    BY ONLY m \in Nat, k \in Nat, n \in Nat, f \in Nat, m <= k, k <= n
  <2>2. KeptOf(m, k) = Part(m, k) /\ KeptOf(m, n) = Part(m, n) /\ KeptOf(k, n) = Part(k, n)
    BY ONLY <1>6, <1>9, <2>1
  <2>3. Part(m, k) \in Seq(Payloads) /\ Part(k, n) \in Seq(Payloads)
    BY ONLY <1>3, <1>4, m \in Nat, k \in Nat, n \in Nat
  <2>4. Part(m, k) \o Part(k, n) = Part(m, n)
    BY ONLY <1>3, <1>5, m \in Nat, k \in Nat, n \in Nat, m <= k, k <= n
  <2> QED
    BY ONLY <2>2, <2>3, <2>4
<1>10. f \in m + 1 .. n => f \in m + 1 .. k \/ f \in k + 1 .. n
  BY ONLY m \in Nat, k \in Nat, n \in Nat, f \in Nat, m <= k, k <= n
<1> QED
  BY ONLY <1>7, <1>8, <1>9, <1>10

\* The next frame is kept, or it is the one that is lost.
LEMMA KeptNext ==
  ASSUME TypeOK, NEW m \in Nat, NEW k \in Nat, m <= k, k < Len(sent)
  PROVE  /\ KeptOf(m, k) \in Seq(Payloads)
         /\ KeptOf(m, k + 1) = IF HitCosts /\ hit.frame = k + 1
                                 THEN KeptOf(m, k) ELSE Append(KeptOf(m, k), sent[k + 1])
<1>1. k \in Nat /\ k + 1 \in Nat /\ k <= k + 1 /\ k + 1 <= Len(sent) /\ k + 1 \in 1 .. Len(sent)
      /\ sent \in Seq(Payloads) /\ hit.frame \in Nat
  BY DEF TypeOK
<1>2. PICK n : n = k + 1
  OBVIOUS
<1>3. PICK K \in Seq(Payloads) : K = KeptOf(m, k) /\ KeptOf(m, n) = K \o KeptOf(k, n)
  BY <1>1, <1>2, KeptJoin
<1>4. PICK p \in Payloads : p = sent[k + 1]
  BY <1>1
<1>5. CASE HitCosts /\ hit.frame = k + 1
  <2>1. KeptOf(k, n) = SubSeq(sent, k + 1, k) \o SubSeq(sent, k + 2, k + 1)
    <3>1. hit.frame \in k + 1 .. n /\ hit.frame - 1 = k /\ hit.frame + 1 = k + 2
      BY <1>2, <1>5
    <3> QED
      BY <1>2, <1>5, <3>1 DEF KeptOf
  <2>2. SubSeq(sent, k + 1, k) = <<>> /\ SubSeq(sent, k + 2, k + 1) = <<>>
    BY SubSeqEmpty
  <2>3. KeptOf(k, n) = <<>>
    <3>1. <<>> \in Seq(Payloads)
      OBVIOUS
    <3>2. <<>> \o <<>> = <<>>
      BY ONLY <3>1, ConcatEmptySeq
    <3> QED
      BY ONLY <2>1, <2>2, <3>2
  <2>4. K \o <<>> = K
    BY ONLY K \in Seq(Payloads), ConcatEmptySeq
  <2> QED
    BY ONLY <1>2, <1>3, <1>5, <2>3, <2>4
<1>6. CASE ~(HitCosts /\ hit.frame = k + 1)
  <2>1. hit.frame \in k + 1 .. n => hit.frame = k + 1
    BY ONLY <1>1, <1>2
  <2>2. KeptOf(k, n) = SubSeq(sent, k + 1, k + 1)
    BY ONLY <1>2, <1>6, <2>1 DEF KeptOf
  <2>3. SubSeq(sent, n, n) = SubSeq(sent, n, n - 1) \o <<sent[n]>>
    <3>1. n \in 1 .. Len(sent) /\ n \in n .. Len(sent) /\ sent \in Seq(Payloads)
      BY <1>1, <1>2
    <3> QED
      BY ONLY <3>1, SubSeqRecursiveSecond
  <2>4. SubSeq(sent, n, n - 1) = <<>>
    <3>1. n \in Int /\ n - 1 \in Int /\ n - 1 < n
      BY <1>2
    <3> QED
      BY ONLY <3>1, SubSeqEmpty
  <2>5. <<p>> \in Seq(Payloads) /\ <<>> \o <<p>> = <<p>>
    <3>1. <<p>> \in Seq(Payloads)
      OBVIOUS
    <3> QED
      BY ONLY <3>1, ConcatEmptySeq
  <2>6. Append(K, p) = K \o <<p>>
    BY ONLY K \in Seq(Payloads), p \in Payloads, AppendIsConcat
  <2> QED
    BY ONLY <1>2, <1>3, <1>4, <1>6, <2>2, <2>3, <2>4, <2>5, <2>6
<1> QED
  BY <1>3, <1>5, <1>6

LEMMA PayloadsType ==
  ASSUME NEW s \in Seq(Payloads)
  PROVE  s \in Seq(Payload)
BY ReceiveAssumption, SeqMonotonic

LEMMA PrefixSelf ==
  ASSUME NEW s \in Seq(Payload)
  PROVE  IsPrefix(s, s)
BY DEF IsPrefix

LEMMA PrefixOfJoin ==
  ASSUME NEW s \in Seq(Payload), NEW t \in Seq(Payload)
  PROVE  IsPrefix(s, s \o t)
<1>1. PICK r : r = s \o t
  OBVIOUS
<1>2. r \in Seq(Payload) /\ Len(r) = Len(s) + Len(t) /\ \A i \in 1 .. Len(s) : r[i] = s[i]
  BY <1>1
<1>3. PICK m \in Nat : m = Len(s)
  OBVIOUS
<1>4. m <= Len(r)
  BY <1>2, <1>3
<1>5. SubSeq(r, 1, m) = s
  <2>1. PICK q : q = SubSeq(r, 1, m)
    OBVIOUS
  <2>2. q \in Seq(Payload) /\ Len(q) = m /\ \A i \in 1 .. m : q[i] = r[i]
    BY <1>2, <1>3, <1>4, <2>1
  <2>3. \A i \in 1 .. Len(q) : q[i] = s[i]
    BY ONLY <1>2, <1>3, <2>2
  <2>4. q = s
    BY ONLY <1>3, <2>2, <2>3, s \in Seq(Payload), SeqEqual
  <2> QED
    BY ONLY <2>1, <2>4
<1>6. SubSeq(s, 1, m) = s
  BY <1>3
<1> QED
  BY <1>1, <1>3, <1>4, <1>5, <1>6 DEF IsPrefix

LEMMA PrefixKept ==
  ASSUME NEW s \in Seq(Payload), NEW t \in Seq(Payload), NEW p \in Payload, IsPrefix(s, t)
  PROVE  IsPrefix(s, Append(t, p))
<1>1. PICK r : r = Append(t, p)
  OBVIOUS
<1>2. r \in Seq(Payload) /\ Len(r) = Len(t) + 1 /\ \A i \in 1 .. Len(t) : r[i] = t[i]
  BY <1>1
<1>3. PICK m \in Nat : m = Len(s)
  OBVIOUS
<1>4. m <= Len(t) /\ SubSeq(s, 1, m) = SubSeq(t, 1, m)
  BY <1>3 DEF IsPrefix
<1>5. SubSeq(r, 1, m) = SubSeq(t, 1, m)
  BY <1>2, <1>4
<1> QED
  BY <1>1, <1>2, <1>3, <1>4, <1>5 DEF IsPrefix

LEMMA JoinPackets ==
  ASSUME NEW a \in Seq(Payload), NEW b \in Seq(Payload), NEW c \in Seq(Payload)
  PROVE  (a \o b) \o c = a \o (b \o c)
BY ConcatAssociative

LEMMA AppendAfter ==
  ASSUME NEW s \in Seq(Payload), NEW t \in Seq(Payload), NEW p \in Payload
  PROVE  Append(s \o t, p) = s \o Append(t, p)
<1>1. <<p>> \in Seq(Payload) /\ s \o t \in Seq(Payload)
  OBVIOUS
<1>2. Append(s \o t, p) = (s \o t) \o <<p>> /\ Append(t, p) = t \o <<p>>
  BY ONLY <1>1, AppendIsConcat, s \in Seq(Payload), t \in Seq(Payload), p \in Payload
<1>3. (s \o t) \o <<p>> = s \o (t \o <<p>>)
  BY ONLY <1>1, ConcatAssociative, s \in Seq(Payload), t \in Seq(Payload)
<1> QED
  BY ONLY <1>2, <1>3

LEMMA TailInStep ==
  ASSUME TInv, HitOK,
         NEW k \in Nat, NEW c \in Nat, NEW pos \in [1 .. Len(sent) + 1 -> Nat],
         NEW line \in Seq(Byte), Aligned(k, c, pos, line), ReadTail,
         NEW l \in Nat, BodyIs(k, l), NEW a \in Nat, a = pos[k + 1]
  PROVE  Aligned(k + 1, c + 2, pos, line)'
<1> DEFINE read == [header |-> SubSeq(header, 1, 4), body |-> body]
<1>1. PICK got \in Reads(2) :
        /\ Consumed(got)
        /\ got # <<>> /\ ~HalfAddress(body) =>
             /\ accepted' = IF ValidChecksum(header, body, got)
                              THEN Append(accepted, read) ELSE accepted
             /\ running' = running
  BY SMTT(30) DEF ReadTail, HeaderSize
<1>2. pc = "tail" /\ pc' = "away" /\ UNCHANGED <<sent, air, hit, header, body, calm, before>>
  BY DEF ReadTail, Return, history
<1>3. Laid(pos, line)' /\ Heard(pos, line)' /\ Sure' = Sure
  BY <1>2, SameLine DEF Aligned
<1>4. /\ TypeOK /\ Laid(pos, line) /\ Heard(pos, line) /\ Ahead(c, line) /\ Place(k, c, pos, line)
      /\ running /\ accepted = before \o Kept(k)
  BY DEF TInv, Aligned
<1>5. calm <= k /\ k < Sure /\ c = a + 6 + l
      /\ HeaderAt(header, a, line) /\ BodyAt(body, l, a, line)
  <2>1. Len(header) = 5
    BY <1>2 DEF TInv, HeaderOK, HeaderSize
  <2> QED
    BY <1>2, <1>4, <2>1 DEF Place, BodyIs, HeaderAt, BodyAt
<1>6. /\ sent[k + 1] \in Payloads
      /\ pos[k + 2] = a + 8 + l /\ a + 8 + l <= Len(line) /\ Len(line) \in Nat
  BY <1>4, <1>5, NextFrame DEF BodyIs
<1>7. /\ got \in Seq(Byte) /\ Len(got) = 2 /\ got[1] = line[a + 7 + l]
      /\ Ahead(c + 2, line)'
  <2> DEFINE n == 2
  <2>1. got \in Reads(n) /\ Consumed(got) /\ air' = air /\ n \in Nat /\ 1 \in 1 .. n
    BY <1>1, <1>2
  <2>2. c + n <= Len(line)
    <3> DEFINE m == Len(line)
    <3>1. m \in Nat /\ a + 8 + l <= m /\ c = a + 6 + l
      BY <1>5, <1>6
    <3> HIDE DEF m
    <3>2. c + 2 <= m
      BY ONLY <3>1, a \in Nat, l \in Nat
    <3> QED
      BY <3>2 DEF m
  <2> HIDE DEF n
  <2>3. TypeOK /\ Ahead(c, line)
    BY <1>4
  <2>4. /\ got \in Seq(Byte) /\ Len(got) = n
        /\ \A j \in 1 .. n : got[j] = line[c + j]
        /\ Ahead(c + n, line)'
    BY ONLY <2>1, <2>2, <2>3, ReadAhead, c \in Nat, line \in Seq(Byte)
  <2>5. got[1] = line[c + 1] /\ c + 1 = a + 7 + l
    <3>1. c = a + 6 + l
      BY <1>5
    <3>2. c + 1 = a + 7 + l
      BY ONLY <3>1, a \in Nat, l \in Nat
    <3> QED
      BY ONLY <2>1, <2>4, <3>2
  <2> QED
    BY <2>4, <2>5 DEF n
<1>8. got # <<>> /\ ~HalfAddress(body)
  <2>1. Len(got) = 2 /\ Len(<<>>) = 0
    BY <1>7, EmptySeq
  <2>2. Len(body) = l
    BY <1>5 DEF BodyAt
  <2>3. l # 1
    <3> DEFINE p == sent[k + 1]
    <3>1. p \in Payloads /\ Len(p.body) = l
      BY <1>6 DEF BodyIs
    <3> HIDE DEF p
    <3> QED
      BY <3>1, PayloadType
  <2> QED
    BY ONLY <2>1, <2>2, <2>3 DEF HalfAddress
<1>9. /\ running'
      /\ accepted' = IF ValidChecksum(header, body, got)
                       THEN Append(before \o Kept(k), read) ELSE before \o Kept(k)
  BY <1>1, <1>4, <1>8
<1>10. PICK p \in Payloads : p = sent[k + 1]
  BY <1>6
<1>11. Len(p.body) = l /\ Len(FrameOf(p)) = 8 + l
  BY <1>10, FrameFacts DEF BodyIs
<1>12. PICK q \in Nat : q = IF hit.frame = k + 1 THEN hit.at + 1 ELSE 0
  <2>1. hit.at \in Nat
    BY <1>4 DEF TypeOK
  <2> QED
    BY <2>1
<1>13. HeardWith(FrameOf(p), q, a, line)
  <2>1. ASSUME NEW j \in 1 .. Len(FrameOf(p))
        PROVE  line[a + j] = FrameOf(p)[j] <=> j # q
    <3>1. line[a + j] = FrameOf(p)[j] <=> ~(hit.frame = k + 1 /\ hit.at + 1 = j)
      <4>1. k + 1 \in calm + 1 .. Sure
        BY <1>4, <1>5, FrameIndex
      <4> QED
        BY <1>4, <1>10, <4>1 DEF Heard
    <3>2. (hit.frame = k + 1 /\ hit.at + 1 = j) <=> j = q
      <4>1. j # 0
        BY <1>11
      <4> QED
        BY <1>12, <4>1
    <3> QED
      BY <3>1, <3>2
  <2> QED
    BY <2>1 DEF HeardWith
<1>14. line[a + 1] = kStart
  BY <1>4, <1>5, HeardEnds
<1>15. /\ line[a + 7 + l] = Checksum(header, body) <=> q \notin 1 .. 7 + l
       /\ q \notin 1 .. 7 + l => p = read
  <2>1. header \in Seq(Byte) /\ body \in Seq(Byte)
    BY <1>4 DEF TypeOK
  <2>2. HeaderAt(header, a, line) /\ BodyAt(body, l, a, line)
    BY <1>5
  <2>3. PICK h \in Seq(Byte) : h = header
    BY <2>1
  <2>4. PICK b \in Seq(Byte) : b = body
    BY <2>1
  <2>5. HeaderAt(h, a, line) /\ BodyAt(b, l, a, line)
    BY <2>2, <2>3, <2>4
  <2>6. /\ line[a + 7 + l] = Checksum(h, b) <=> q \notin 1 .. 7 + l
        /\ q \notin 1 .. 7 + l => p = [header |-> SubSeq(h, 1, 4), body |-> b]
    <3>1. Len(p.body) = l
      BY <1>11
    <3> QED
      BY ONLY <1>13, <1>14, <2>5, <3>1, Verdict, p \in Payloads, l \in Nat, a \in Nat, q \in Nat,
              line \in Seq(Byte), h \in Seq(Byte), b \in Seq(Byte)
  <2> QED
    BY <2>3, <2>4, <2>6
<1>16. q \in 1 .. 7 + l <=> HitCosts /\ hit.frame = k + 1
  <2>1. CASE hit.frame = k + 1
    <3>1. hit.at \in Nat /\ hit.at < 8 + l /\ hit.frame # 0
      BY SMTT(30), <1>4, <1>10, <1>11, <2>1 DEF HitOK, TypeOK
    <3>2. HitCosts <=> hit.at # 7 + l
      <4>1. 8 + l - 1 = 7 + l
        OBVIOUS
      <4> QED
        BY SMTT(30), <1>10, <1>11, <2>1, <3>1, <4>1 DEF HitCosts
    <3>3. q = hit.at + 1
      BY <1>12, <2>1
    <3>4. q \in 1 .. 7 + l <=> hit.at # 7 + l
      BY SMTT(30), <3>1, <3>3
    <3> QED
      BY <2>1, <3>2, <3>4
  <2>2. CASE hit.frame # k + 1
    BY <1>12, <2>2
  <2> QED
    BY <2>1, <2>2
<1>17. PICK K \in Seq(Payload) : K = Kept(k) /\ before \in Seq(Payload)
  <2>1. calm \in Nat /\ k < Len(sent)
    <3>1. calm \in Nat /\ Sure \in Nat /\ Len(sent) \in Nat /\ Sure <= Len(sent)
      BY <1>4, SureType
    <3> QED
      BY ONLY <1>5, <3>1, k \in Nat
  <2>2. KeptOf(calm, k) \in Seq(Payloads)
    BY <1>4, <1>5, <2>1, KeptNext
  <2>3. KeptOf(calm, k) \in Seq(Payload)
    BY <2>2, PayloadsType
  <2> QED
    BY <1>4, <2>3 DEF Kept, TypeOK
<1>18. accepted' = before \o Kept(k + 1)
  <2>1. Kept(k + 1) = IF HitCosts /\ hit.frame = k + 1 THEN K ELSE Append(K, p)
    <3>1. calm \in Nat /\ k < Len(sent)
      <4>1. calm \in Nat /\ Sure \in Nat /\ Len(sent) \in Nat /\ Sure <= Len(sent)
        BY <1>4, SureType
      <4> QED
        BY ONLY <1>5, <4>1, k \in Nat
    <3> QED
      BY <1>4, <1>5, <1>10, <1>17, <3>1, KeptNext DEF Kept
  <2>2. ValidChecksum(header, body, got) <=> q \notin 1 .. 7 + l
    BY <1>7, <1>15 DEF ValidChecksum
  <2>3. accepted' = IF HitCosts /\ hit.frame = k + 1 THEN before \o K ELSE Append(before \o K, p)
    <3> HIDE DEF read
    <3> QED
      BY <1>9, <1>15, <1>16, <1>17, <2>2
  <2>4. Append(before \o K, p) = before \o Append(K, p)
    <3>1. p \in Payload
      BY ReceiveAssumption
    <3> QED
      BY ONLY <1>17, <3>1, AppendAfter
  <2> QED
    BY ONLY <2>1, <2>3, <2>4
<1>19. (accepted = before \o Kept(k + 1))'
  <2>1. Kept(k + 1)' = Kept(k + 1)
    BY <1>2, SameLine
  <2> QED
    BY <1>2, <1>18, <2>1
<1>20. Place(k + 1, c + 2, pos, line)'
  <2>1. calm <= k + 1 /\ k + 1 <= Sure /\ (k + 1) + 1 = k + 2 /\ c + 2 = a + 8 + l
    <3>1. calm \in Nat /\ Sure \in Nat
      BY <1>4, SureType
    <3>2. calm <= k /\ k < Sure /\ c = a + 6 + l
      BY <1>5
    <3> QED
      BY ONLY <3>1, <3>2, k \in Nat, a \in Nat, l \in Nat
  <2>2. c + 2 = pos[(k + 1) + 1]
    BY <1>6, <2>1
  <2> QED
    BY <1>2, <1>3, <2>1, <2>2 DEF Place
<1> QED
  BY <1>3, <1>7, <1>9, <1>19, <1>20 DEF Aligned

-----------------------------------------------------------------------------
(* The steps of the board and the line.                                    *)

\* Two lines have the same first n bytes; the same bytes but the one at x.
SameUpTo(n, line, line2) == \A i \in 1 .. n : line2[i] = line[i]
SameBut(x, line, line2) == \A i \in 1 .. Len(line) : i # x => line2[i] = line[i]

\* The gateway stays where it is when only what it has not read changes.
LEMMA PlaceStays ==
  ASSUME TypeOK, NEW k \in Nat, NEW c \in Nat, NEW pos, NEW line, Place(k, c, pos, line),
         pos[k + 1] \in Nat, NEW pos2, pos2[k + 1] = pos[k + 1],
         NEW line2, SameUpTo(c, line, line2),
         UNCHANGED <<pc, header, body, calm>>,
         k <= Sure', k < Sure => k < Sure' /\ sent'[k + 1] = sent[k + 1]
  PROVE  Place(k, c, pos2, line2)'
<1>1. PICK a \in Nat : a = pos[k + 1]
  OBVIOUS
<1>2. Len(body) \in Nat
  BY DEF TypeOK
<1>3. pc \in {"body", "tail"} => a + 6 <= c
  <2>1. (pc = "body" => c = a + 6) /\ (pc = "tail" => c = a + 6 + Len(body))
    BY <1>1 DEF Place
  <2> QED
    BY ONLY <1>2, <2>1, a \in Nat, c \in Nat
<1>4. pc \in {"body", "tail"} => \A j \in 1 .. 5 : header[j] = line2[a + 1 + j]
  <2> SUFFICES ASSUME pc \in {"body", "tail"}, NEW j \in 1 .. 5
               PROVE  header[j] = line2[a + 1 + j]
    OBVIOUS
  <2>1. a + 1 + j \in 1 .. c
    BY ONLY <1>3, pc \in {"body", "tail"}, j \in 1 .. 5, a \in Nat, c \in Nat
  <2>2. header[j] = line[a + 1 + j]
    BY <1>1 DEF Place
  <2> QED
    BY <2>1, <2>2 DEF SameUpTo
<1>5. pc = "tail" => \A j \in 1 .. Len(body) : body[j] = line2[a + 6 + j]
  <2> SUFFICES ASSUME pc = "tail", NEW j \in 1 .. Len(body)
               PROVE  body[j] = line2[a + 6 + j]
    OBVIOUS
  <2>1. c = a + 6 + Len(body)
    BY <1>1 DEF Place
  <2>2. a + 6 + j \in 1 .. c
    BY ONLY <1>2, <2>1, j \in 1 .. Len(body), a \in Nat, c \in Nat
  <2>3. body[j] = line[a + 6 + j]
    BY <1>1 DEF Place
  <2> QED
    BY <2>2, <2>3 DEF SameUpTo
<1>6. calm' <= k /\ k <= Sure'
  BY DEF Place
<1>7. pc \in {"header", "body", "tail"} => k < Sure' /\ sent'[k + 1] = sent[k + 1]
  BY DEF Place
<1>8. /\ pc \in {"away", "scan"} => c = a
      /\ pc = "header" => c = a + 1
      /\ pc = "body" => c = a + 6 /\ Len(sent[k + 1].body) > 0
      /\ pc = "tail" => Len(body) = Len(sent[k + 1].body) /\ c = a + 6 + Len(body)
  BY <1>1 DEF Place
<1> QED
  BY <1>1, <1>4, <1>5, <1>6, <1>7, <1>8 DEF Place

\* A byte arrives, as it was sent or not.
LEMMA AheadArrives ==
  ASSUME TypeOK, NEW c \in Nat, NEW line \in Seq(Byte), Ahead(c, line), air # <<>>,
         NEW b \in Byte, buffer' = Append(buffer, b), air' = Tail(air),
         NEW line2 \in Seq(Byte), Len(line2) = Len(line),
         NEW x \in Nat, x = c + Len(buffer) + 1, line2[x] = b,
         SameBut(x, line, line2)
  PROVE  Ahead(c, line2)'
<1>1. /\ buffer \in Seq(Byte) /\ Len(buffer) \in Nat /\ air \in Seq(Byte)
      /\ Len(air) \in Nat \ {0} /\ Len(line) \in Nat
  BY SMTT(30) DEF TypeOK
<1>2. /\ Len(buffer') = Len(buffer) + 1 /\ buffer'[Len(buffer) + 1] = b
      /\ \A j \in 1 .. Len(buffer) : buffer'[j] = buffer[j]
  BY <1>1, AppendAt
<1>3. /\ Len(air') = Len(air) - 1
      /\ \A j \in 1 .. Len(air') : air'[j] = air[j + 1]
  BY <1>1
<1>4. /\ c + Len(buffer) + Len(air) = Len(line)
      /\ \A j \in 1 .. Len(buffer) : buffer[j] = line[c + j]
      /\ \A j \in 1 .. Len(air) : air[j] = line[c + Len(buffer) + j]
  BY DEF Ahead
<1>5. c + Len(buffer') + Len(air') = Len(line2)
  <2>1. /\ Len(buffer) \in Nat /\ Len(air) \in Nat
        /\ Len(buffer') = Len(buffer) + 1 /\ Len(air') = Len(air) - 1
        /\ c + Len(buffer) + Len(air) = Len(line2)
    BY <1>1, <1>2, <1>3, <1>4
  <2> QED
    BY ONLY <2>1, c \in Nat
<1>6. ASSUME NEW j \in 1 .. Len(buffer') PROVE buffer'[j] = line2[c + j]
  <2>1. CASE j = Len(buffer) + 1
    <3>1. c + j = x
      BY <1>1, <2>1
    <3> QED
      BY <1>2, <2>1, <3>1
  <2>2. CASE j # Len(buffer) + 1
    <3>1. j \in 1 .. Len(buffer)
      BY <1>1, <1>2, <2>2
    <3>2. c + j \in 1 .. Len(line) /\ c + j # x
      BY <1>1, <1>4, <3>1
    <3>3. line2[c + j] = line[c + j]
      BY ONLY <3>2, SameBut(x, line, line2) DEF SameBut
    <3> QED
      BY <1>2, <1>4, <3>1, <3>3
  <2> QED
    BY <2>1, <2>2
<1>7. ASSUME NEW j \in 1 .. Len(air') PROVE air'[j] = line2[c + Len(buffer') + j]
  <2>1. j + 1 \in 1 .. Len(air) /\ c + Len(buffer') + j = c + Len(buffer) + (j + 1)
    BY <1>1, <1>2, <1>3
  <2>2. air'[j] = line[c + Len(buffer') + j]
    BY <1>3, <1>4, <2>1
  <2>3. c + Len(buffer') + j \in 1 .. Len(line) /\ c + Len(buffer') + j # x
    BY <1>1, <1>2, <1>3, <1>4, <2>1
  <2> QED
    BY <2>2, <2>3 DEF SameBut
<1> QED
  BY <1>5, <1>6, <1>7 DEF Ahead

LEMMA ArriveInStep ==
  ASSUME TInv, NEW k \in Nat, NEW c \in Nat, NEW pos \in [1 .. Len(sent) + 1 -> Nat],
         NEW line \in Seq(Byte), Aligned(k, c, pos, line), ByteArrives
  PROVE  Aligned(k, c, pos, line)'
<1>1. air # <<>> /\ air' = Tail(air) /\ buffer' = Append(buffer, Head(air))
      /\ UNCHANGED <<sent, hit, pc, header, body, accepted, running, calm, before>>
  BY DEF ByteArrives, locals, history
<1>2. /\ TypeOK /\ Laid(pos, line) /\ Heard(pos, line) /\ Ahead(c, line) /\ Place(k, c, pos, line)
      /\ running /\ accepted = before \o Kept(k)
  BY DEF TInv, Aligned
<1>3. Laid(pos, line)' /\ Heard(pos, line)' /\ (accepted = before \o Kept(k))' /\ running'
      /\ Sure' = Sure
  BY <1>1, <1>2, SameLine
<1>4. Ahead(c, line)'
  <2>1. PICK x \in Nat : x = c + Len(buffer) + 1
    BY <1>2 DEF TypeOK
  <2>2. Head(air) \in Byte /\ line[x] = Head(air)
    <3>1. 1 \in 1 .. Len(air) /\ Head(air) = air[1] /\ air[1] \in Byte
      BY SMTT(30), <1>1, <1>2 DEF TypeOK
    <3> QED
      BY <1>2, <2>1, <3>1 DEF Ahead
  <2>3. PICK b \in Byte : b = Head(air)
    BY <2>2
  <2>4. buffer' = Append(buffer, b) /\ line[x] = b
    BY <1>1, <2>2, <2>3
  <2>5. SameBut(x, line, line) /\ Len(line) = Len(line)
    BY DEF SameBut
  <2> QED
    BY ONLY <1>1, <1>2, <2>1, <2>4, <2>5, AheadArrives, c \in Nat, line \in Seq(Byte),
            b \in Byte, x \in Nat
<1>5. Place(k, c, pos, line)'
  <2>1. Place(k, c, pos, line) /\ Sure' = Sure
    BY <1>2, <1>3
  <2> QED
    BY ONLY <1>1, <2>1 DEF Place
<1> QED
  BY <1>3, <1>4, <1>5 DEF Aligned

LEMMA Later ==
  ASSUME NEW pos, NEW line, Laid(pos, line),
         NEW i \in calm + 1 .. Sure + 1, NEW j \in calm + 1 .. Sure + 1, i <= j
  PROVE  pos[i] <= pos[j]
BY DEF Laid

\* A frame lies on the line between its position and the next one.
LEMMA OnLine ==
  ASSUME TypeOK, HitOK, NEW pos \in [1 .. Len(sent) + 1 -> Nat], NEW line \in Seq(Byte),
         Laid(pos, line), NEW i \in calm + 1 .. Sure, NEW j \in 1 .. Len(FrameOf(sent[i]))
  PROVE  /\ pos[i] \in Nat /\ j \in Nat /\ pos[i] + j \in 1 .. Len(line)
         /\ i < Sure => pos[i] + j <= pos[Sure]
<1>1. PICK N \in Nat : N = Sure
  BY SureType
<1>2. PICK m : m = i + 1
  OBVIOUS
<1>3. PICK n : n = N + 1
  OBVIOUS
<1>4. PICK L \in Nat : L = Len(sent)
  BY SureType
<1>5. PICK o \in Nat : o = calm
  BY SureType
<1>6. N <= L /\ i \in o + 1 .. N
  BY <1>1, <1>4, <1>5, SureType
<1>7. /\ i \in o + 1 .. N + 1 /\ m \in o + 1 .. N + 1 /\ n \in o + 1 .. N + 1 /\ m <= n
      /\ i \in 1 .. L + 1 /\ m \in 1 .. L + 1 /\ n \in 1 .. L + 1
  BY ONLY <1>2, <1>3, <1>6, N \in Nat, L \in Nat, o \in Nat
<1>8. pos[i] \in Nat /\ pos[m] \in Nat /\ pos[n] \in Nat
  BY ONLY <1>4, <1>7, pos \in [1 .. Len(sent) + 1 -> Nat]
<1>9. pos[m] <= pos[n]
  BY <1>1, <1>5, <1>7, Later
<1>10. pos[n] <= Len(line)
  BY <1>1, <1>3 DEF Laid
<1>11. PICK f \in Nat : f = Len(FrameOf(sent[i]))
  BY SureFrame, FrameFacts
<1>12. pos[m] = pos[i] + f
  BY <1>2, <1>11 DEF Laid
<1>13. j \in 1 .. f
  BY <1>11
<1>14. pos[i] + j \in 1 .. Len(line)
  <2>1. Len(line) \in Nat
    OBVIOUS
  <2> QED
    BY ONLY SMTT(30), <1>8, <1>9, <1>10, <1>12, <1>13, <2>1, f \in Nat
<1>15. ASSUME i < N PROVE pos[i] + j <= pos[N]
  <2>1. N \in o + 1 .. N + 1 /\ N \in 1 .. L + 1 /\ m <= N
    BY ONLY <1>2, <1>6, <1>15, N \in Nat, L \in Nat, o \in Nat
  <2>2. pos[N] \in Nat
    BY ONLY <1>4, <2>1, pos \in [1 .. Len(sent) + 1 -> Nat]
  <2>3. pos[m] <= pos[N]
    BY <1>1, <1>5, <1>7, <2>1, Later
  <2> QED
    BY ONLY <1>8, <1>12, <1>13, <2>2, <2>3, f \in Nat
<1> QED
  BY <1>1, <1>8, <1>13, <1>14, <1>15

\* A byte of the frame sent last changes on the line.
LEMMA HeardHit ==
  ASSUME TypeOK, HitOK, NEW pos \in [1 .. Len(sent) + 1 -> Nat], NEW line \in Seq(Byte),
         Laid(pos, line), Heard(pos, line), hit.frame = 0,
         NEW N \in Nat \ {0}, N = Len(sent), Sure = N,
         NEW t \in Nat, NEW x \in Nat, x = pos[N] + t + 1,
         NEW line2 \in Seq(Byte), line2[x] # line[x], SameBut(x, line, line2),
         UNCHANGED <<sent, calm>>, Sure' = N, hit'.frame = N, hit'.at = t
  PROVE  Heard(pos, line2)'
<1>1. ASSUME NEW i \in calm + 1 .. Sure, NEW j \in 1 .. Len(FrameOf(sent[i]))
      PROVE  line2[pos[i] + j] = FrameOf(sent[i])[j] <=> ~(N = i /\ t + 1 = j)
  <2>1. PICK y : y = pos[i] + j
    OBVIOUS
  <2>0. i \in 1 .. Len(sent)
    BY SureFrame
  <2>2. line[y] = FrameOf(sent[i])[j]
    <3>1. line[y] = FrameOf(sent[i])[j] <=> ~(hit.frame = i /\ hit.at + 1 = j)
      BY ONLY <2>1, Heard(pos, line), i \in calm + 1 .. Sure, j \in 1 .. Len(FrameOf(sent[i]))
          DEF Heard
    <3>2. hit.frame # i
      BY ONLY hit.frame = 0, <2>0
    <3> QED
      BY ONLY <3>1, <3>2
  <2>3. /\ pos[i] \in Nat /\ j \in Nat /\ y \in 1 .. Len(line)
        /\ i < N => y <= pos[N]
    BY <2>1, OnLine
  <2>4. PICK a \in Nat : a = pos[i]
    BY <2>3
  <2>5. PICK b \in Nat : b = pos[N]
    <3>1. N \in 1 .. Len(sent) + 1
      BY SMTT(30)
    <3> QED
      BY <3>1
  <2>6. i <= N /\ i \in Nat
    BY ONLY <2>0, N = Len(sent), N \in Nat \ {0}
  <2>7. y = x <=> N = i /\ t + 1 = j
    <3>1. i = N => a = b
      BY ONLY <2>4, <2>5
    <3>2. y = a + j /\ x = b + t + 1 /\ (i < N => y <= b) /\ j \in Nat /\ j # 0
      BY ONLY <2>1, <2>3, <2>4, <2>5, x = pos[N] + t + 1, j \in 1 .. Len(FrameOf(sent[i]))
    <3> QED
      BY ONLY <2>6, <3>1, <3>2, a \in Nat, b \in Nat, t \in Nat, N \in Nat \ {0}
  <2>8. y = x => line2[y] # line[y]
    BY ONLY line2[x] # line[x]
  <2>9. y # x => line2[y] = line[y]
    BY ONLY <2>3, SameBut(x, line, line2) DEF SameBut
  <2> QED
    BY ONLY <2>1, <2>2, <2>7, <2>8, <2>9
<1>2. sent' = sent /\ hit'.frame = N /\ hit'.at = t /\ calm' = calm /\ Sure' = Sure
  OBVIOUS
<1> QED
  BY ONLY <1>1, <1>2 DEF Heard

\* The byte that is hit is the next one to come, byte t of the frame sent last.
LEMMA HitFacts ==
  ASSUME TInv, HitOK, NEW k \in Nat, NEW c \in Nat, NEW pos \in [1 .. Len(sent) + 1 -> Nat],
         NEW line \in Seq(Byte), Aligned(k, c, pos, line),
         NEW kind \in {"changed", "lost"}, ByteIsHit(kind)
  PROVE  \E N \in Nat \ {0}, t \in Nat, x \in Nat :
           /\ N = Len(sent) /\ hit.frame = 0 /\ Sure = N /\ calm \in Nat /\ calm < N /\ k < N
           /\ x = c + Len(buffer) + 1 /\ x \in 1 .. Len(line) /\ line[x] = Head(air)
           /\ hit'.frame = N /\ hit'.at = t
           /\ pos[N] \in Nat /\ x = pos[N] + t + 1
           /\ HitStaysInFrame' => Sure' = N /\ ~LostPlace'
           /\ ~HitStaysInFrame' => Sure' = N - 1 /\ LostPlace'
           /\ Kept(k)' = Kept(k)
<1>27. PICK N : N = Len(sent)
  OBVIOUS
<1>28. PICK t : t = Len(FrameOf(sent[N])) - Len(air)
  OBVIOUS
<1>29. PICK x : x = c + Len(buffer) + 1
  OBVIOUS
<1>1. /\ air # <<>> /\ hit.frame = 0 /\ UNCHANGED <<sent, calm>>
      /\ hit' = [frame |-> Len(sent), at |-> Len(FrameOf(Last(sent))) - Len(air), kind |-> kind]
  BY DEF ByteIsHit, history
<1>2. /\ TypeOK /\ Laid(pos, line) /\ Ahead(c, line) /\ Place(k, c, pos, line)
      /\ LineOK /\ CalmOK
  BY DEF TInv, Aligned
<1>3. N \in Nat /\ N # 0 /\ sent # <<>>
  BY SMTT(30), <1>27, <1>1, <1>2 DEF LineOK, TypeOK
<1>4. Last(sent) = sent[N] /\ sent[N] \in Payloads
  BY SMTT(30), <1>27, <1>2, <1>3 DEF Last, TypeOK
<1>5. ~LostPlace /\ Sure = N
  <2>1. calm \in Nat
    BY <1>2 DEF TypeOK
  <2>2. ~LostPlace
    BY <1>1, <2>1 DEF LostPlace
  <2> QED
    BY <1>27, <2>2 DEF Sure
<1>6. calm \in Nat /\ calm < N
  BY <1>27, <1>2, <1>3 DEF CalmOK, TypeOK
<1>7. Len(buffer) \in Nat /\ Len(air) \in Nat \ {0} /\ Len(line) \in Nat
      /\ c + Len(buffer) + Len(air) = Len(line)
  BY SMTT(30), <1>1, <1>2 DEF TypeOK, Ahead
<1>8. PICK d \in Nat \ {0} : d = Len(air)
  BY <1>7
<1>9. PICK e \in Nat : e = Len(buffer)
  BY <1>7
<1>10. PICK n \in Nat : n = Len(line)
  BY <1>7
<1>11. c + e + d = n
  BY ONLY <1>7, <1>8, <1>9, <1>10
<1>12. c + e + 1 \in 1 .. n
  BY ONLY <1>11, c \in Nat, e \in Nat, d \in Nat \ {0}, n \in Nat
<1>13. line[c + Len(buffer) + 1] = Head(air)
  <2>1. 1 \in 1 .. Len(air) /\ Head(air) = air[1]
    BY <1>1, <1>2 DEF TypeOK
  <2> QED
    BY <1>2, <2>1 DEF Ahead
<1>14. PICK f \in Nat : f = Len(FrameOf(sent[N]))
  BY <1>4, FrameFacts
<1>15. t = f - d /\ t \in Nat
  <2>1. d <= f
    BY <1>1, <1>2, <1>4, <1>8, <1>14 DEF LineOK
  <2>2. t = f - d
    BY <1>28, <1>8, <1>14
  <2> QED
    BY ONLY <2>1, <2>2, f \in Nat, d \in Nat \ {0}
<1>16. PICK a \in Nat : a = pos[N]
  <2>1. N \in 1 .. Len(sent) + 1
    BY <1>27, <1>3
  <2> QED
    BY <2>1
<1>17. n = a + f
  <2>1. pos[N + 1] = Len(line)
    BY <1>2, <1>5 DEF Laid
  <2>2. pos[N + 1] = pos[N] + Len(FrameOf(sent[N]))
    <3>1. N \in calm + 1 .. Sure
      BY <1>3, <1>5, <1>6
    <3> QED
      BY <1>2, <3>1 DEF Laid
  <2> QED
    BY ONLY <1>10, <1>14, <1>16, <2>1, <2>2
<1>18. c + e + 1 = a + t + 1
  BY ONLY <1>11, <1>15, <1>17, c \in Nat, e \in Nat, d \in Nat \ {0}, n \in Nat, a \in Nat, f \in Nat
<1>19. k < N
  <2>1. c < Len(line)
    BY ONLY <1>10, <1>11, c \in Nat, e \in Nat, d \in Nat \ {0}, n \in Nat
  <2> QED
    BY <1>2, <1>5, <2>1, FrameLeft
<1>20. hit' = [frame |-> N, at |-> t, kind |-> kind]
  BY <1>27, <1>28, <1>1, <1>4
<1>21. LostPlace' <=> ~HitStaysInFrame'
  <2>1. hit'.frame = N /\ calm' = calm
    BY <1>1, <1>20
  <2> QED
    BY ONLY <1>6, <2>1 DEF LostPlace
<1>22. /\ HitStaysInFrame' => Sure' = N
       /\ ~HitStaysInFrame' => Sure' = N - 1
  <2>1. hit'.frame = N /\ Len(sent') = N
    BY <1>27, <1>1, <1>20
  <2> QED
    BY ONLY <1>21, <2>1 DEF Sure
<1>23. Kept(k)' = Kept(k)
  <2>1. Kept(k) = SubSeq(sent, calm + 1, k)
    BY <1>1 DEF Kept, KeptOf, HitCosts
  <2>2. Kept(k)' = SubSeq(sent, calm + 1, k)
    <3>1. hit'.frame = N /\ N \notin calm + 1 .. k
      BY ONLY <1>3, <1>6, <1>19, <1>20, k \in Nat
    <3> QED
      BY ONLY <1>1, <3>1 DEF Kept, KeptOf
  <2> QED
    BY <2>1, <2>2
<1>24. x \in 1 .. Len(line) /\ line[x] = Head(air) /\ x = pos[N] + t + 1
  BY ONLY <1>9, <1>10, <1>12, <1>13, <1>16, <1>18, <1>29
<1>25. hit'.frame = N /\ hit'.at = t
  BY <1>20
<1>26. N \in Nat \ {0} /\ t \in Nat /\ x \in Nat
  BY <1>3, <1>15, <1>24
<1> QED
  BY ONLY <1>27, <1>29, <1>1, <1>5, <1>6, <1>16, <1>19, <1>21, <1>22, <1>23, <1>24, <1>25, <1>26

\* The line with another byte at x.
LEMMA ByteReplaced ==
  ASSUME NEW line \in Seq(Byte), NEW x \in 1 .. Len(line), NEW b \in Byte
  PROVE  \E line2 \in Seq(Byte) :
           Len(line2) = Len(line) /\ line2[x] = b /\ SameBut(x, line, line2)
<1> DEFINE n == Len(line)
           s == [i \in 1 .. n |-> IF i = x THEN b ELSE line[i]]
<1>1. n \in Nat /\ \A i \in 1 .. n : line[i] \in Byte
  OBVIOUS
<1>2. PICK r : r = s
  OBVIOUS
<1>3. r \in [1 .. n -> Byte] /\ r[x] = b /\ \A i \in 1 .. n : i # x => r[i] = line[i]
  BY <1>1, <1>2
<1> HIDE DEF s
<1>4. SameBut(x, line, r)
  BY <1>3 DEF SameBut
<1> HIDE DEF n
<1>5. r \in Seq(Byte)
  BY <1>1, <1>3, SeqDef
<1>6. Len(r) = n
  BY <1>1, <1>3, <1>5, LenProperties
<1> QED
  BY <1>3, <1>4, <1>5, <1>6 DEF n

\* The line without the byte at x.
ShiftedFrom(x, line, line2) ==
  Len(line2) = Len(line) - 1 /\ \A i \in x .. Len(line) - 1 : line2[i] = line[i + 1]

LEMMA ByteRemoved ==
  ASSUME NEW line \in Seq(Byte), NEW x \in 1 .. Len(line)
  PROVE  \E line2 \in Seq(Byte) :
           SameUpTo(x - 1, line, line2) /\ ShiftedFrom(x, line, line2)
<1>1. PICK n \in Nat : n = Len(line)
  OBVIOUS
<1>2. PICK m \in Nat : m = n - 1
  BY <1>1
<1> DEFINE s == [i \in 1 .. m |-> IF i < x THEN line[i] ELSE line[i + 1]]
<1>3. \A i \in 1 .. m : line[i] \in Byte /\ line[i + 1] \in Byte
  BY <1>1, <1>2
<1>4. PICK r : r = s
  OBVIOUS
<1>5. /\ r \in [1 .. m -> Byte]
      /\ \A i \in 1 .. x - 1 : r[i] = line[i]
      /\ \A i \in x .. m : r[i] = line[i + 1]
  BY <1>1, <1>2, <1>3, <1>4
<1> HIDE DEF s
<1>6. r \in Seq(Byte)
  BY <1>5, SeqDef
<1>7. Len(r) = m
  BY <1>5, <1>6, LenProperties
<1> QED
  BY <1>1, <1>2, <1>5, <1>6, <1>7 DEF SameUpTo, ShiftedFrom

\* A byte changes and ReceivePacket keeps its place.
LEMMA HitInStep ==
  ASSUME TInv, HitOK, NEW k \in Nat, NEW c \in Nat, NEW pos \in [1 .. Len(sent) + 1 -> Nat],
         NEW line \in Seq(Byte), Aligned(k, c, pos, line), ByteIsHit("changed"), HitStaysInFrame'
  PROVE  \E line2 \in Seq(Byte) : Aligned(k, c, pos, line2)'
<1>1. /\ air # <<>> /\ air' = Tail(air)
      /\ UNCHANGED <<sent, pc, header, body, accepted, running, calm, before>>
  BY DEF ByteIsHit, locals, history
<1>2. PICK b \in Byte : b # Head(air) /\ buffer' = Append(buffer, b)
  BY ReceiveAssumption DEF ByteIsHit
<1>3. /\ TypeOK /\ Laid(pos, line) /\ Heard(pos, line) /\ Ahead(c, line) /\ Place(k, c, pos, line)
      /\ running /\ accepted = before \o Kept(k)
  BY DEF TInv, Aligned
<1>4. PICK N \in Nat \ {0}, t \in Nat, x \in Nat :
        /\ N = Len(sent) /\ hit.frame = 0 /\ Sure = N /\ calm \in Nat /\ calm < N /\ k < N
        /\ x = c + Len(buffer) + 1 /\ x \in 1 .. Len(line) /\ line[x] = Head(air)
        /\ hit'.frame = N /\ hit'.at = t
        /\ pos[N] \in Nat /\ x = pos[N] + t + 1
        /\ HitStaysInFrame' => Sure' = N /\ ~LostPlace'
        /\ ~HitStaysInFrame' => Sure' = N - 1 /\ LostPlace'
        /\ Kept(k)' = Kept(k)
  <2>1. "changed" \in {"changed", "lost"}
    OBVIOUS
  <2> QED
    BY ONLY <2>1, TInv, HitOK, Aligned(k, c, pos, line), ByteIsHit("changed"), HitFacts,
            k \in Nat, c \in Nat, pos \in [1 .. Len(sent) + 1 -> Nat], line \in Seq(Byte)
<1>6. x = c + Len(buffer) + 1
  BY <1>4
<1>7. /\ hit.frame = 0 /\ Sure = N /\ N \in Nat \ {0} /\ calm \in Nat /\ calm < N /\ k < N
      /\ x \in 1 .. Len(line) /\ line[x] = Head(air)
      /\ hit'.frame = N /\ hit'.at = t
      /\ t \in Nat /\ pos[N] \in Nat /\ x = pos[N] + t + 1
      /\ Sure' = N /\ ~LostPlace' /\ Kept(k)' = Kept(k)
  BY ONLY <1>4, HitStaysInFrame'
<1>8. PICK line2 \in Seq(Byte) :
        Len(line2) = Len(line) /\ line2[x] = b /\ SameBut(x, line, line2)
  BY ONLY <1>7, ByteReplaced, line \in Seq(Byte), b \in Byte
<1>9. Laid(pos, line2)'
  <2>1. calm' = calm /\ sent' = sent /\ Sure' = Sure /\ ~LostPlace /\ ~LostPlace'
    <3>1. ~LostPlace
      BY <1>7 DEF LostPlace
    <3> QED
      BY <1>1, <1>7, <3>1
  <2> QED
    BY ONLY <1>3, <1>8, <2>1 DEF Laid
<1>10. Heard(pos, line2)'
  <2>1. line2[x] # line[x]
    BY <1>2, <1>7, <1>8
  <2>2. hit'.frame = N /\ hit'.at = t /\ UNCHANGED <<sent, calm>>
    BY <1>1, <1>7
  <2>3. N \in Nat \ {0} /\ x \in Nat
    BY <1>7
  <2> QED
    BY ONLY <1>3, <1>4, <1>7, <1>8, <2>1, <2>2, <2>3, HitOK, HeardHit,
            pos \in [1 .. Len(sent) + 1 -> Nat], line \in Seq(Byte)
<1>11. Ahead(c, line2)'
  <2>1. x \in Nat
    BY <1>7
  <2> QED
    BY ONLY <1>1, <1>2, <1>3, <1>6, <1>8, <2>1, AheadArrives, c \in Nat, b \in Byte, line \in Seq(Byte)
<1>12. Place(k, c, pos, line2)'
  <2>1. pos[k + 1] \in Nat
    <3>1. k + 1 \in 1 .. Len(sent) + 1
      BY ONLY <1>4, <1>7, k \in Nat, N \in Nat
    <3> QED
      BY ONLY <3>1, pos \in [1 .. Len(sent) + 1 -> Nat]
  <2>2. SameUpTo(c, line, line2)
    <3>1. ASSUME NEW i \in 1 .. c PROVE line2[i] = line[i]
      <4>1. i \in 1 .. Len(line) /\ i # x
        BY ONLY <1>6, <1>7, c \in Nat, i \in 1 .. c
      <4> QED
        BY <1>8, <4>1 DEF SameBut
    <3> QED
      BY <3>1 DEF SameUpTo
  <2>3. k <= Sure' /\ (k < Sure => k < Sure' /\ sent'[k + 1] = sent[k + 1])
    BY ONLY <1>1, <1>7, N \in Nat, k \in Nat
  <2> QED
    BY ONLY <1>1, <1>3, <2>1, <2>2, <2>3, PlaceStays, k \in Nat, c \in Nat
<1>13. (accepted = before \o Kept(k))'
  BY <1>1, <1>3, <1>7
<1>14. Aligned(k, c, pos, line2)'
  BY <1>1, <1>3, <1>9, <1>10, <1>11, <1>12, <1>13 DEF Aligned
<1> QED
  BY <1>14

\* A byte that is lost does not arrive.
LEMMA AheadLost ==
  ASSUME TypeOK, NEW c \in Nat, NEW line \in Seq(Byte), Ahead(c, line), air # <<>>,
         buffer' = buffer, air' = Tail(air),
         NEW line2 \in Seq(Byte), NEW x \in Nat, x = c + Len(buffer) + 1,
         SameUpTo(x - 1, line, line2), ShiftedFrom(x, line, line2)
  PROVE  Ahead(c, line2)'
<1>1. /\ Len(buffer) \in Nat /\ air \in Seq(Byte) /\ Len(air) \in Nat \ {0} /\ Len(line) \in Nat
  BY SMTT(30) DEF TypeOK
<1>2. /\ Len(air') = Len(air) - 1
      /\ \A j \in 1 .. Len(air') : air'[j] = air[j + 1]
  BY <1>1
<1>3. /\ c + Len(buffer) + Len(air) = Len(line)
      /\ \A j \in 1 .. Len(buffer) : buffer[j] = line[c + j]
      /\ \A j \in 1 .. Len(air) : air[j] = line[c + Len(buffer) + j]
  BY DEF Ahead
<1>4. PICK e \in Nat : e = Len(buffer)
  BY <1>1
<1>5. PICK d \in Nat \ {0} : d = Len(air)
  BY <1>1
<1>6. PICK n \in Nat : n = Len(line)
  BY <1>1
<1>7. PICK f \in Nat : f = Len(air') /\ f = d - 1
  <2>1. d - 1 \in Nat /\ Len(air') = d - 1
    BY ONLY <1>2, <1>5, d \in Nat \ {0}
  <2> QED
    BY ONLY <2>1
<1>8. /\ Len(line2) = n - 1 /\ \A i \in x .. n - 1 : line2[i] = line[i + 1]
      /\ \A i \in 1 .. x - 1 : line2[i] = line[i]
  BY <1>6 DEF SameUpTo, ShiftedFrom
<1>9. c + e + d = n /\ x = c + e + 1
  BY ONLY <1>3, <1>4, <1>5, <1>6, x = c + Len(buffer) + 1
<1>10. c + e + f = Len(line2)
  BY ONLY <1>7, <1>8, <1>9, c \in Nat, e \in Nat, d \in Nat \ {0}, f \in Nat, n \in Nat
<1>11. ASSUME NEW j \in 1 .. e PROVE buffer[j] = line2[c + j]
  <2>1. c + j \in 1 .. x - 1
    BY ONLY <1>9, c \in Nat, e \in Nat, j \in 1 .. e
  <2> QED
    BY ONLY <1>3, <1>4, <1>8, <2>1, j \in 1 .. e
<1>12. ASSUME NEW j \in 1 .. f PROVE air'[j] = line2[c + e + j]
  <2>1. PICK i : i = c + e + j
    OBVIOUS
  <2>2. i \in x .. n - 1 /\ j + 1 \in 1 .. d /\ i + 1 = c + e + (j + 1)
    BY ONLY <1>7, <1>9, <2>1, c \in Nat, e \in Nat, d \in Nat \ {0}, f \in Nat, n \in Nat, j \in 1 .. f
  <2>3. air'[j] = air[j + 1]
    BY ONLY <1>2, <1>7, j \in 1 .. f
  <2>4. air[j + 1] = line[c + e + (j + 1)]
    BY ONLY <1>3, <1>4, <1>5, <2>2
  <2>5. line2[i] = line[i + 1]
    BY ONLY <1>8, <2>2
  <2> QED
    BY ONLY <2>1, <2>2, <2>3, <2>4, <2>5
<1> QED
  BY ONLY <1>4, <1>7, <1>10, <1>11, <1>12, buffer' = buffer DEF Ahead

\* ReceivePacket will lose its place: what was sent before lies on the line as it
\* did, or has been read.
LEMMA LoseInStep ==
  ASSUME TInv, HitOK, NEW k \in Nat, NEW c \in Nat, NEW pos \in [1 .. Len(sent) + 1 -> Nat],
         NEW line \in Seq(Byte), Aligned(k, c, pos, line),
         NEW kind \in {"changed", "lost"}, ByteIsHit(kind), ~HitStaysInFrame'
  PROVE  Somewhere' \/ Astray'
<1>1. /\ air # <<>> /\ air' = Tail(air)
      /\ UNCHANGED <<sent, pc, header, body, accepted, running, calm, before>>
  BY DEF ByteIsHit, locals, history
<1>2. buffer' = buffer \/ \E b \in Byte : buffer' = Append(buffer, b)
  BY ReceiveAssumption DEF ByteIsHit
<1>3. /\ TypeOK /\ Laid(pos, line) /\ Heard(pos, line) /\ Ahead(c, line) /\ Place(k, c, pos, line)
      /\ running /\ accepted = before \o Kept(k)
  BY DEF TInv, Aligned
<1>4. PICK N \in Nat \ {0}, t \in Nat, x \in Nat :
        /\ N = Len(sent) /\ hit.frame = 0 /\ Sure = N /\ calm \in Nat /\ calm < N /\ k < N
        /\ x = c + Len(buffer) + 1 /\ x \in 1 .. Len(line) /\ line[x] = Head(air)
        /\ hit'.frame = N /\ hit'.at = t
        /\ pos[N] \in Nat /\ x = pos[N] + t + 1
        /\ HitStaysInFrame' => Sure' = N /\ ~LostPlace'
        /\ ~HitStaysInFrame' => Sure' = N - 1 /\ LostPlace'
        /\ Kept(k)' = Kept(k)
  <2>1. kind \in {"changed", "lost"}
    OBVIOUS
  <2> QED
    BY ONLY <2>1, TInv, HitOK, Aligned(k, c, pos, line), ByteIsHit(kind), HitFacts,
            k \in Nat, c \in Nat, pos \in [1 .. Len(sent) + 1 -> Nat], line \in Seq(Byte)
<1>6. x = c + Len(buffer) + 1
  BY <1>4
<1>7. /\ hit.frame = 0 /\ Sure = N /\ N \in Nat \ {0} /\ calm \in Nat /\ calm < N /\ k < N
      /\ x \in 1 .. Len(line) /\ line[x] = Head(air)
      /\ hit'.frame = N /\ hit'.at = t
      /\ t \in Nat /\ pos[N] \in Nat /\ x = pos[N] + t + 1
      /\ Sure' = N - 1 /\ LostPlace' /\ Kept(k)' = Kept(k)
  BY ONLY <1>4, ~HitStaysInFrame'
<1>8. PICK line2 \in Seq(Byte) :
        SameUpTo(x - 1, line, line2) /\ Len(line2) >= Len(line) - 1 /\ Ahead(c, line2)'
  <2>1. x \in Nat
    BY <1>7
  <2>2. CASE buffer' = buffer
    <3>1. PICK l \in Seq(Byte) : SameUpTo(x - 1, line, l) /\ ShiftedFrom(x, line, l)
      BY ONLY <1>7, ByteRemoved, line \in Seq(Byte)
    <3>2. Ahead(c, l)'
      BY ONLY <1>1, <1>3, <1>6, <2>1, <2>2, <3>1, AheadLost, c \in Nat, line \in Seq(Byte)
    <3>3. Len(l) >= Len(line) - 1
      BY <3>1 DEF ShiftedFrom
    <3> QED
      BY <3>1, <3>2, <3>3
  <2>3. ASSUME NEW b \in Byte, buffer' = Append(buffer, b)
        PROVE  \E l \in Seq(Byte) : SameUpTo(x - 1, line, l) /\ Len(l) >= Len(line) - 1
                                     /\ Ahead(c, l)'
    <3>1. PICK l \in Seq(Byte) : Len(l) = Len(line) /\ l[x] = b /\ SameBut(x, line, l)
      <4>1. x \in 1 .. Len(line)
        BY <1>7
      <4> QED
        BY ONLY <4>1, ByteReplaced, line \in Seq(Byte), b \in Byte
    <3>2. Ahead(c, l)'
      BY ONLY <1>1, <1>3, <1>6, <2>1, <2>3, <3>1, AheadArrives, c \in Nat, b \in Byte, line \in Seq(Byte)
    <3>3. SameUpTo(x - 1, line, l)
      <4>1. ASSUME NEW i \in 1 .. x - 1 PROVE l[i] = line[i]
        <5>1. i \in 1 .. Len(line) /\ i # x
          BY ONLY <1>7, i \in 1 .. x - 1
        <5> QED
          BY ONLY <3>1, <5>1 DEF SameBut
      <4> QED
        BY <4>1 DEF SameUpTo
    <3>4. Len(l) >= Len(line) - 1
      BY <1>7, <3>1
    <3> QED
      BY <3>2, <3>3, <3>4
  <2> QED
    BY <1>2, <2>2, <2>3
<1>9. PICK m \in Nat : m = N - 1
  BY <1>7
<1>10. PICK o \in Nat : o = calm
  BY <1>7
<1>11. m < N /\ o <= m /\ k <= m
  BY ONLY <1>7, <1>9, <1>10, N \in Nat, k \in Nat
<1>12. CASE k < m
  <2>1. Laid(pos, line2)'
    <3>1. pos[m + 1] <= Len(line2)
      <4>1. PICK a \in Nat : a = pos[N]
        BY <1>7
      <4>2. PICK n \in Nat : n = Len(line)
        BY <1>7
      <4>3. PICK n2 \in Nat : n2 = Len(line2)
        OBVIOUS
      <4>4. a <= n2
        <5>1. x \in 1 .. n /\ x = a + t + 1 /\ n2 >= n - 1 /\ t \in Nat
          BY ONLY <1>7, <1>8, <4>1, <4>2, <4>3
        <5> QED
          BY ONLY <5>1, a \in Nat, n \in Nat, n2 \in Nat
      <4>5. m + 1 = N
        BY ONLY <1>9, N \in Nat, m \in Nat
      <4> QED
        BY ONLY <4>1, <4>3, <4>4, <4>5
    <3>2. ASSUME NEW i \in o + 1 .. m PROVE pos[i + 1] = pos[i] + Len(FrameOf(sent[i]))
      <4>1. i \in o + 1 .. N
        BY ONLY <1>11, N \in Nat, m \in Nat, o \in Nat, i \in o + 1 .. m
      <4> QED
        BY ONLY <1>3, <1>7, <1>10, <4>1 DEF Laid
    <3>3. ASSUME NEW i \in o + 1 .. m + 1, NEW j \in o + 1 .. m + 1, i <= j PROVE pos[i] <= pos[j]
      <4>1. i \in o + 1 .. N + 1 /\ j \in o + 1 .. N + 1
        BY ONLY <1>11, N \in Nat, m \in Nat, o \in Nat, i \in o + 1 .. m + 1, j \in o + 1 .. m + 1
      <4> QED
        BY ONLY <1>3, <1>7, <1>10, <3>3, <4>1 DEF Laid
    <3>4. Sure' = m /\ LostPlace' /\ calm' = o /\ sent' = sent
      BY <1>1, <1>7, <1>9, <1>10
    <3> QED
      BY ONLY <3>1, <3>2, <3>3, <3>4 DEF Laid
  <2>2. Heard(pos, line2)'
    <3>1. ASSUME NEW i \in o + 1 .. m, NEW j \in 1 .. Len(FrameOf(sent[i]))
          PROVE  line2[pos[i] + j] = FrameOf(sent[i])[j] <=> ~(hit'.frame = i /\ hit'.at + 1 = j)
      <4>1. i \in calm + 1 .. Sure /\ i < N /\ i # 0
        BY ONLY <1>7, <1>10, <1>11, N \in Nat, m \in Nat, o \in Nat, i \in o + 1 .. m
      <4>2. PICK y : y = pos[i] + j
        OBVIOUS
      <4>3. y \in 1 .. Len(line) /\ y <= pos[N]
        BY <1>3, <1>7, <4>1, <4>2, OnLine
      <4>4. y \in 1 .. x - 1
        <5>1. PICK a \in Nat : a = pos[N]
          BY <1>7
        <5>2. x = a + t + 1 /\ y <= a /\ y \in 1 .. Len(line) /\ t \in Nat
          BY ONLY <1>7, <4>3, <5>1
        <5> QED
          BY ONLY <5>2, a \in Nat
      <4>5. line2[y] = line[y]
        BY ONLY <1>8, <4>4 DEF SameUpTo
      <4>6. line[y] = FrameOf(sent[i])[j] <=> ~(hit.frame = i /\ hit.at + 1 = j)
        BY ONLY <1>3, <4>1, <4>2, j \in 1 .. Len(FrameOf(sent[i])) DEF Heard
      <4>7. hit.frame # i /\ hit'.frame # i
        BY ONLY <1>7, <4>1
      <4> QED
        BY ONLY <4>2, <4>5, <4>6, <4>7, Zenon
    <3>2. Sure' = m /\ calm' = o /\ sent' = sent
      BY <1>1, <1>7, <1>9, <1>10
    <3> QED
      BY ONLY <3>1, <3>2, ZenonT(60) DEF Heard
  <2>3. Place(k, c, pos, line2)'
    <3>1. pos[k + 1] \in Nat
      <4>1. k + 1 \in 1 .. Len(sent) + 1
        BY ONLY <1>4, <1>7, k \in Nat, N \in Nat
      <4> QED
        BY ONLY <4>1, pos \in [1 .. Len(sent) + 1 -> Nat]
    <3>2. SameUpTo(c, line, line2)
      <4>1. ASSUME NEW i \in 1 .. c PROVE i \in 1 .. x - 1
        BY ONLY <1>6, <1>7, c \in Nat, i \in 1 .. c
      <4> QED
        BY ONLY <1>8, <4>1 DEF SameUpTo
    <3>3. k <= Sure' /\ (k < Sure => k < Sure' /\ sent'[k + 1] = sent[k + 1])
      BY ONLY <1>1, <1>7, <1>9, <1>12, m \in Nat, k \in Nat
    <3> QED
      BY ONLY <1>1, <1>3, <3>1, <3>2, <3>3, PlaceStays, k \in Nat, c \in Nat
  <2>4. (accepted = before \o Kept(k))'
    BY <1>1, <1>3, <1>7
  <2>5. Aligned(k, c, pos, line2)'
    BY <1>1, <1>3, <1>8, <2>1, <2>2, <2>3, <2>4 DEF Aligned
  <2>6. pos \in [1 .. Len(sent') + 1 -> Nat]
    BY <1>1
  <2> QED
    BY ONLY <2>5, <2>6, line2 \in Seq(Byte), k \in Nat, c \in Nat DEF Somewhere
<1>13. CASE k = m
  <2>1. Due' = accepted'
    <3>1. Due' = before' \o Kept(k)'
      BY <1>1, <1>7, <1>9, <1>13 DEF Due, Kept
    <3> QED
      BY <1>1, <1>3, <1>7, <3>1
  <2>2. accepted \in Seq(Payload)
    BY <1>3 DEF TypeOK
  <2>3. IsPrefix(accepted, accepted)
    BY <2>2, PrefixSelf
  <2> QED
    BY <1>1, <1>7, <2>1, <2>3 DEF Astray
<1> QED
  BY ONLY <1>11, <1>12, <1>13, k \in Nat, m \in Nat

\* What was kept of the frames does not change when one more is sent.
LEMMA SubSeqStays ==
  ASSUME NEW s \in Seq(Payloads), NEW p \in Payloads,
         NEW m \in Nat \ {0}, NEW n \in Nat, n <= Len(s)
  PROVE  SubSeq(Append(s, p), m, n) = SubSeq(s, m, n)
<1>1. PICK r : r = Append(s, p)
  OBVIOUS
<1>2. r \in Seq(Payloads) /\ Len(r) = Len(s) + 1 /\ \A i \in 1 .. Len(s) : r[i] = s[i]
  BY <1>1, AppendProperties
<1>3. ASSUME NEW i \in 1 .. n - m + 1 PROVE r[i + m - 1] = s[i + m - 1]
  <2>1. i + m - 1 \in 1 .. Len(s)
    BY ONLY s \in Seq(Payloads), m \in Nat \ {0}, n \in Nat, n <= Len(s), i \in 1 .. n - m + 1
  <2> QED
    BY <1>2, <2>1
<1>4. SubSeq(r, m, n) = SubSeq(s, m, n)
  <2>1. PICK u : u = SubSeq(r, m, n)
    OBVIOUS
  <2>2. PICK v : v = SubSeq(s, m, n)
    OBVIOUS
  <2>3. m \in Int /\ n \in Int /\ \A i \in m .. n : r[i] \in Payloads /\ s[i] \in Payloads
    BY <1>2
  <2>4. /\ u \in Seq(Payloads) /\ Len(u) = IF m <= n THEN n - m + 1 ELSE 0
        /\ \A i \in 1 .. n - m + 1 : u[i] = r[m + i - 1]
    BY ONLY <2>1, <2>3, SubSeqProperties
  <2>5. /\ v \in Seq(Payloads) /\ Len(v) = IF m <= n THEN n - m + 1 ELSE 0
        /\ \A i \in 1 .. n - m + 1 : v[i] = s[m + i - 1]
    BY ONLY <2>2, <2>3, SubSeqProperties
  <2>6. ASSUME NEW i \in 1 .. Len(u) PROVE u[i] = v[i]
    <3>1. i \in 1 .. n - m + 1 /\ i + m - 1 = m + i - 1
      BY ONLY <2>4, i \in 1 .. Len(u), m \in Nat \ {0}, n \in Nat
    <3> QED
      BY ONLY <1>3, <2>4, <2>5, <3>1
  <2>7. u = v
    BY ONLY <2>4, <2>5, <2>6, SeqEqual
  <2> QED
    BY ONLY <2>1, <2>2, <2>7
<1> QED
  BY ONLY <1>1, <1>4

LEMMA KeptStays ==
  ASSUME TypeOK, HitOK, NEW p \in Payloads, sent' = Append(sent, p), hit' = hit,
         NEW m \in Nat, NEW k \in Nat, k <= Len(sent)
  PROVE  KeptOf(m, k)' = KeptOf(m, k)
<1>1. PICK s \in Seq(Payloads) : s = sent
  BY DEF TypeOK
<1>2. PICK s2 : s2 = Append(s, p)
  OBVIOUS
<1>3. PICK f \in Nat : f = hit.frame
  BY DEF TypeOK
<1>4. PICK t : t = hit.at
  OBVIOUS
<1>5. f # 0 => f \in 1 .. Len(s)
  BY <1>1, <1>3 DEF HitOK
<1>6. f # 0 => s2[f] = s[f]
  <2>1. \A i \in 1 .. Len(s) : s2[i] = s[i]
    BY <1>2, AppendProperties
  <2> QED
    BY <1>5, <2>1
<1>7. HitCosts' = HitCosts
  <2>1. HitCosts <=> f # 0 /\ t # Len(FrameOf(s[f])) - 1
    BY ONLY <1>1, <1>3, <1>4 DEF HitCosts
  <2>2. HitCosts' <=> f # 0 /\ t # Len(FrameOf(s2[f])) - 1
    <3>1. sent' = s2 /\ hit'.frame = f /\ hit'.at = t
      BY <1>1, <1>2, <1>3, <1>4
    <3> QED
      BY ONLY <3>1 DEF HitCosts
  <2> QED
    BY ONLY <1>6, <2>1, <2>2 DEF HitCosts
<1>8. k \in Nat /\ k <= Len(s) /\ m + 1 \in Nat \ {0} /\ f + 1 \in Nat \ {0}
  BY <1>1
<1>9. SubSeq(s2, m + 1, k) = SubSeq(s, m + 1, k) /\ SubSeq(s2, f + 1, k) = SubSeq(s, f + 1, k)
  BY <1>2, <1>8, SubSeqStays
<1>10. f # 0 => SubSeq(s2, m + 1, f - 1) = SubSeq(s, m + 1, f - 1)
  <2>1. ASSUME f # 0 PROVE f - 1 \in Nat /\ f - 1 <= Len(s)
    BY <1>5, <2>1
  <2> QED
    BY <1>2, <1>8, <2>1, SubSeqStays
<1>11. sent' = s2 /\ hit'.frame = f
  BY <1>1, <1>2, <1>3
<1>12. HitCosts => f # 0
  BY <1>3 DEF HitCosts
<1> QED
  BY ONLY <1>1, <1>3, <1>7, <1>9, <1>10, <1>11, <1>12 DEF KeptOf

\* The next frame, after one that was not read to the end.
LEMMA SendInStep ==
  ASSUME TInv, HitOK, NEW k \in Nat, NEW c \in Nat, NEW pos \in [1 .. Len(sent) + 1 -> Nat],
         NEW line \in Seq(Byte), Aligned(k, c, pos, line), BoardSends, ~(Quiet /\ running)
  PROVE  \E pos2 \in [1 .. Len(sent') + 1 -> Nat], line2 \in Seq(Byte) :
           Aligned(k, c, pos2, line2)'
<1>1. PICK p \in Payloads : sent' = Append(sent, p) /\ air' = FrameOf(p)
  BY DEF BoardSends
<1>2. air = <<>> /\ UNCHANGED <<hit, buffer, pc, header, body, accepted, running, calm, before>>
  BY DEF BoardSends, locals, history
<1>3. /\ TypeOK /\ Laid(pos, line) /\ Heard(pos, line) /\ Ahead(c, line) /\ Place(k, c, pos, line)
      /\ running /\ accepted = before \o Kept(k)
  BY DEF TInv, Aligned
<1>4. PICK N \in Nat : N = Len(sent)
  BY <1>3 DEF TypeOK
<1>5. PICK F \in Seq(Byte) : F = FrameOf(p)
  BY FrameFacts
<1>6. PICK m \in Nat : m = Len(line)
  OBVIOUS
<1>7. PICK f \in Nat : f = Len(F)
  OBVIOUS
<1>8. Len(sent') = N + 1 /\ sent'[N + 1] = p /\ (\A i \in 1 .. N : sent'[i] = sent[i])
  BY <1>1, <1>3, <1>4, AppendProperties DEF TypeOK
<1>9. PICK line2 \in Seq(Byte) :
        /\ Len(line2) = m + f /\ SameUpTo(m, line, line2)
        /\ \A j \in 1 .. f : line2[m + j] = F[j]
  <2>1. line \o F \in Seq(Byte) /\ Len(line \o F) = Len(line) + Len(F)
        /\ (\A i \in 1 .. Len(line) : (line \o F)[i] = line[i])
        /\ (\A i \in 1 .. Len(F) : (line \o F)[Len(line) + i] = F[i])
    BY ConcatAt
  <2> QED
    BY <1>6, <1>7, <2>1 DEF SameUpTo
<1>10. PICK pos2 \in [1 .. N + 2 -> Nat] :
         /\ \A i \in 1 .. N + 1 : pos2[i] = pos[i]
         /\ pos2[N + 2] = m + f
  <2> DEFINE r == [i \in 1 .. N + 2 |-> IF i <= N + 1 THEN pos[i] ELSE m + f]
  <2>1. pos \in [1 .. N + 1 -> Nat]
    BY <1>4
  <2>2. r \in [1 .. N + 2 -> Nat]
    BY <2>1
  <2>3. (\A i \in 1 .. N + 1 : r[i] = pos[i]) /\ r[N + 2] = m + f
    OBVIOUS
  <2> QED
    BY <2>2, <2>3
<1>11. PICK o \in Nat, S \in Nat : o = calm /\ S = Sure
  BY <1>3, SureType
<1>12. o <= S /\ S <= N /\ (~LostPlace => S = N)
  BY <1>3, <1>4, <1>11, SureType
<1>13. LostPlace' = LostPlace
  BY <1>2 DEF LostPlace, HitStaysInFrame
<1>14. PICK S2 \in Nat : S2 = Sure' /\ S2 = IF LostPlace THEN S ELSE N + 1
  <2>1. LostPlace => Sure' = Sure
    BY <1>2, <1>13 DEF Sure
  <2>2. ~LostPlace => Sure' = N + 1
    BY <1>8, <1>13 DEF Sure
  <2> QED
    BY <1>11, <2>1, <2>2
<1>15. S <= S2 /\ S2 <= N + 1 /\ (S2 # S => S = N /\ S2 = N + 1)
  BY ONLY <1>12, <1>14, S \in Nat, N \in Nat, S2 \in Nat
<1>16. /\ \A i \in o + 1 .. S + 1 : pos[i] \in Nat /\ pos[i] <= m
       /\ pos[S + 1] <= m /\ (S2 # S => pos[S + 1] = m)
  <2>1. pos[S + 1] <= m /\ (S2 # S => pos[S + 1] = m)
    BY <1>3, <1>6, <1>11, <1>14 DEF Laid
  <2>2. ASSUME NEW i \in o + 1 .. S + 1 PROVE pos[i] \in Nat /\ pos[i] <= m
    <3>1. PICK n : n = S + 1
      OBVIOUS
    <3>2. n \in 1 .. N + 1 /\ i \in 1 .. N + 1 /\ i <= n /\ n \in o + 1 .. S + 1
      BY ONLY <1>12, <3>1, i \in o + 1 .. S + 1, o \in Nat, S \in Nat, N \in Nat
    <3>3. pos[n] \in Nat /\ pos[i] \in Nat
      BY ONLY <1>4, <3>2, pos \in [1 .. Len(sent) + 1 -> Nat]
    <3>4. pos[i] <= pos[n]
      BY <1>3, <1>11, <3>2, Later
    <3>5. pos[n] <= m
      BY ONLY <2>1, <3>1
    <3> QED
      BY ONLY <3>3, <3>4, <3>5, m \in Nat
  <2> QED
    BY <2>1, <2>2
<1>17. Laid(pos2, line2)'
  <2>1. pos2[S2 + 1] <= Len(line2) /\ (~LostPlace => pos2[S2 + 1] = Len(line2))
    <3>1. CASE S2 = S
      <4>1. S + 1 \in 1 .. N + 1 /\ S + 1 \in o + 1 .. S + 1 /\ LostPlace
        BY ONLY <1>12, <1>14, <3>1, o \in Nat, S \in Nat, N \in Nat
      <4>2. pos2[S + 1] = pos[S + 1] /\ pos[S + 1] \in Nat /\ pos[S + 1] <= m
        BY ONLY <1>10, <1>16, <4>1
      <4> QED
        BY ONLY <1>9, <3>1, <4>1, <4>2, m \in Nat, f \in Nat
    <3>2. CASE S2 # S
      <4>1. S2 + 1 = N + 2
        BY ONLY <1>15, <3>2, N \in Nat
      <4> QED
        BY ONLY <1>9, <1>10, <4>1, m \in Nat, f \in Nat
    <3> QED
      BY <3>1, <3>2
  <2>2. ASSUME NEW i \in o + 1 .. S2
        PROVE  pos2[i + 1] = pos2[i] + Len(FrameOf(sent'[i]))
    <3>1. CASE i \in o + 1 .. S
      <4>1. i + 1 \in 1 .. N + 1 /\ i \in 1 .. N + 1 /\ i \in 1 .. N
        BY ONLY <1>12, <3>1, o \in Nat, S \in Nat, N \in Nat
      <4>2. pos[i + 1] = pos[i] + Len(FrameOf(sent[i]))
        BY ONLY <1>3, <1>11, <3>1 DEF Laid
      <4> QED
        BY ONLY <1>8, <1>10, <4>1, <4>2
    <3>2. CASE i \notin o + 1 .. S
      <4>1. S2 # S /\ i = S + 1 /\ S = N /\ i + 1 = N + 2 /\ i \in 1 .. N + 1
        BY ONLY <1>15, <3>2, i \in o + 1 .. S2, o \in Nat, S \in Nat, S2 \in Nat, N \in Nat
      <4>2. pos2[i] = m /\ sent'[i] = p
        BY ONLY <1>8, <1>10, <1>16, <4>1
      <4> QED
        BY ONLY <1>5, <1>7, <1>10, <4>1, <4>2
    <3> QED
      BY <3>1, <3>2
  <2>3. ASSUME NEW i \in o + 1 .. S2 + 1, NEW j \in o + 1 .. S2 + 1, i <= j
        PROVE  pos2[i] <= pos2[j]
    <3>1. CASE j \in o + 1 .. S + 1
      <4>1. i \in o + 1 .. S + 1 /\ i \in 1 .. N + 1 /\ j \in 1 .. N + 1
        BY ONLY <1>12, <2>3, <3>1, i \in o + 1 .. S2 + 1, o \in Nat, S \in Nat, S2 \in Nat, N \in Nat
      <4>2. pos[i] <= pos[j]
        BY <1>3, <1>11, <2>3, <3>1, <4>1, Later
      <4> QED
        BY ONLY <1>10, <4>1, <4>2
    <3>2. CASE j \notin o + 1 .. S + 1
      <4>1. S2 # S /\ j = N + 2 /\ S = N
        BY ONLY <1>15, <3>2, j \in o + 1 .. S2 + 1, o \in Nat, S \in Nat, S2 \in Nat, N \in Nat
      <4>2. pos2[j] = m + f
        BY ONLY <1>10, <4>1
      <4>3. CASE i = N + 2
        <5>1. pos2[i] = m + f
          BY ONLY <1>10, <4>3
        <5> QED
          BY ONLY <4>2, <5>1, m \in Nat, f \in Nat
      <4>4. CASE i # N + 2
        <5>1. i \in o + 1 .. S + 1 /\ i \in 1 .. N + 1
          BY ONLY <1>15, <4>1, <4>4, i \in o + 1 .. S2 + 1, o \in Nat, S \in Nat, S2 \in Nat, N \in Nat
        <5>2. pos2[i] \in Nat /\ pos2[i] <= m
          BY ONLY <1>10, <1>16, <5>1
        <5> QED
          BY ONLY <4>2, <5>2, m \in Nat, f \in Nat
      <4> QED
        BY <4>3, <4>4
    <3> QED
      BY <3>1, <3>2
  <2>4. Sure' = S2 /\ LostPlace' = LostPlace /\ calm' = o
    BY <1>2, <1>11, <1>13, <1>14
  <2> QED
    BY ONLY <2>1, <2>2, <2>3, <2>4 DEF Laid
<1>18. Heard(pos2, line2)'
  <2>1. ASSUME NEW i \in o + 1 .. S2, NEW j \in 1 .. Len(FrameOf(sent'[i]))
        PROVE  line2[pos2[i] + j] = FrameOf(sent'[i])[j] <=> ~(hit'.frame = i /\ hit'.at + 1 = j)
    <3>1. CASE i \in o + 1 .. S
      <4>0. i \in 1 .. N + 1 /\ i \in 1 .. N
        BY ONLY <1>12, <3>1, o \in Nat, S \in Nat, N \in Nat
      <4>1. i \in calm + 1 .. Sure /\ sent'[i] = sent[i] /\ pos2[i] = pos[i]
            /\ j \in 1 .. Len(FrameOf(sent[i]))
        BY ONLY <1>8, <1>10, <1>11, <3>1, <4>0, j \in 1 .. Len(FrameOf(sent'[i]))
      <4>2. PICK y : y = pos[i] + j
        OBVIOUS
      <4>3. y \in 1 .. m
        BY <1>3, <1>6, <4>1, <4>2, OnLine
      <4>4. line2[y] = line[y]
        BY ONLY <1>9, <4>3 DEF SameUpTo
      <4>5. line[y] = FrameOf(sent[i])[j] <=> ~(hit.frame = i /\ hit.at + 1 = j)
        BY ONLY <1>3, <4>1, <4>2 DEF Heard
      <4> QED
        BY ONLY <1>2, <4>1, <4>2, <4>4, <4>5
    <3>2. CASE i \notin o + 1 .. S
      <4>1. S2 # S /\ i = S + 1 /\ S = N /\ i \in 1 .. N + 1
        BY ONLY <1>15, <3>2, i \in o + 1 .. S2, o \in Nat, S \in Nat, S2 \in Nat, N \in Nat
      <4>2. pos2[i] = m /\ sent'[i] = p
        BY ONLY <1>8, <1>10, <1>16, <4>1
      <4>3. line2[m + j] = F[j]
        <5>1. j \in 1 .. f
          BY <1>5, <1>7, <4>2
        <5> QED
          BY ONLY <1>9, <5>1
      <4>4. hit'.frame # i
        <5>1. hit.frame \in Nat
          BY <1>3 DEF TypeOK
        <5>2. hit.frame # N + 1
          BY <1>4, <5>1 DEF HitOK
        <5> QED
          BY <1>2, <4>1, <5>2
      <4> QED
        BY ONLY <1>5, <4>2, <4>3, <4>4
    <3> QED
      BY <3>1, <3>2
  <2>2. Sure' = S2 /\ calm' = o
    BY <1>2, <1>11, <1>14
  <2> QED
    BY ONLY <2>1, <2>2 DEF Heard
<1>19. c + Len(buffer) = m /\ Len(buffer) \in Nat
  <2>1. Len(air) = 0 /\ Len(buffer) \in Nat
    BY <1>2, <1>3, EmptySeq DEF TypeOK
  <2>2. c + Len(buffer) + Len(air) = m
    BY ONLY <1>3, <1>6 DEF Ahead
  <2> QED
    BY ONLY <2>1, <2>2, c \in Nat
<1>20. Ahead(c, line2)'
  <2>1. buffer' = buffer /\ Len(buffer') = Len(buffer) /\ air' = F /\ Len(air') = f
    BY <1>1, <1>2, <1>5, <1>7
  <2>2. c + Len(buffer) + f = Len(line2)
    BY ONLY <1>9, <1>19
  <2>3. ASSUME NEW j \in 1 .. Len(buffer) PROVE buffer[j] = line2[c + j]
    <3>1. c + j \in 1 .. m
      BY ONLY <1>19, c \in Nat, j \in 1 .. Len(buffer)
    <3>2. line2[c + j] = line[c + j]
      BY ONLY <1>9, <3>1 DEF SameUpTo
    <3>3. buffer[j] = line[c + j]
      BY ONLY <1>3, j \in 1 .. Len(buffer) DEF Ahead
    <3> QED
      BY ONLY <3>2, <3>3
  <2>4. ASSUME NEW j \in 1 .. f PROVE F[j] = line2[c + Len(buffer) + j]
    BY ONLY <1>9, <1>19, j \in 1 .. f
  <2> QED
    BY ONLY <2>1, <2>2, <2>3, <2>4 DEF Ahead
<1>21. o <= k /\ k <= S /\ k <= N /\ k <= S2 /\ c <= m
  <2>1. o <= k /\ k <= S
    BY <1>3, <1>11 DEF Place
  <2> QED
    BY ONLY <1>12, <1>15, <1>19, <2>1, c \in Nat, m \in Nat, k \in Nat, N \in Nat, S \in Nat, S2 \in Nat
<1>22. Place(k, c, pos2, line2)'
  <2>1. k + 1 \in 1 .. N + 1 /\ k + 1 \in o + 1 .. S + 1
    BY ONLY <1>21, k \in Nat, N \in Nat, o \in Nat, S \in Nat
  <2>2. pos[k + 1] \in Nat /\ pos2[k + 1] = pos[k + 1]
    BY ONLY <1>10, <1>16, <2>1
  <2>3. SameUpTo(c, line, line2)
    <3>1. ASSUME NEW i \in 1 .. c PROVE i \in 1 .. m
      BY ONLY <1>21, c \in Nat, m \in Nat, i \in 1 .. c
    <3> QED
      BY ONLY <1>9, <3>1 DEF SameUpTo
  <2>4. k <= Sure' /\ (k < Sure => k < Sure' /\ sent'[k + 1] = sent[k + 1])
    <3>1. ASSUME k < S PROVE k < S2 /\ k + 1 \in 1 .. N
      BY ONLY <1>12, <1>15, <3>1, k \in Nat, N \in Nat, S \in Nat, S2 \in Nat
    <3> QED
      BY ONLY <1>8, <1>11, <1>14, <1>21, <3>1
  <2>5. UNCHANGED <<pc, header, body, calm>> /\ TypeOK /\ Place(k, c, pos, line)
    BY <1>2, <1>3
  <2> QED
    BY ONLY <2>2, <2>3, <2>4, <2>5, PlaceStays, k \in Nat, c \in Nat
<1>23. (accepted = before \o Kept(k))'
  <2>1. Kept(k)' = Kept(k)
    <3>1. KeptOf(o, k)' = KeptOf(o, k)
      <4>1. k <= Len(sent) /\ hit' = hit /\ sent' = Append(sent, p) /\ TypeOK
        BY <1>1, <1>2, <1>3, <1>4, <1>21
      <4> QED
        BY ONLY <4>1, HitOK, KeptStays, k \in Nat, o \in Nat, p \in Payloads
    <3> QED
      BY ONLY <1>2, <1>11, <3>1 DEF Kept
  <2> QED
    BY <1>2, <1>3, <2>1
<1>24. Aligned(k, c, pos2, line2)'
  BY <1>2, <1>3, <1>17, <1>18, <1>20, <1>22, <1>23 DEF Aligned
<1>25. pos2 \in [1 .. Len(sent') + 1 -> Nat]
  <2>1. Len(sent') + 1 = N + 2
    BY <1>8
  <2> QED
    BY <2>1
<1> QED
  BY <1>24, <1>25

\* The next frame, after a silence: wherever ReceivePacket was, it has its place.
LEMMA ResetInStep ==
  ASSUME TInv, HitOK, BoardSends, Quiet, running
  PROVE  Somewhere'
<1>1. PICK p \in Payloads : sent' = Append(sent, p) /\ air' = FrameOf(p)
  BY DEF BoardSends
<1>2. /\ UNCHANGED <<hit, buffer, pc, header, body, accepted, running>>
      /\ calm' = Len(sent) /\ before' = accepted /\ buffer = <<>> /\ pc = "away"
  BY DEF BoardSends, locals, Quiet
<1>3. TypeOK
  BY DEF TInv
<1>4. PICK N \in Nat : N = Len(sent)
  BY <1>3 DEF TypeOK
<1>5. PICK F \in Seq(Byte) : F = FrameOf(p)
  BY FrameFacts
<1>6. PICK f \in Nat : f = Len(F)
  OBVIOUS
<1>7. Len(sent') = N + 1 /\ sent'[N + 1] = p
  BY <1>1, <1>3, <1>4, AppendProperties DEF TypeOK
<1>8. PICK pos2 \in [1 .. N + 2 -> Nat] : pos2[N + 1] = 0 /\ pos2[N + 2] = f
  <2> DEFINE r == [i \in 1 .. N + 2 |-> IF i = N + 2 THEN f ELSE 0]
  <2>1. r \in [1 .. N + 2 -> Nat] /\ r[N + 1] = 0 /\ r[N + 2] = f
    OBVIOUS
  <2> QED
    BY <2>1
<1>9. hit.frame \in Nat /\ hit.frame <= N
  BY <1>3, <1>4 DEF TypeOK, HitOK
<1>10. ~LostPlace' /\ Sure' = N + 1 /\ calm' = N
  <2>1. hit'.frame = hit.frame /\ calm' = N
    BY <1>2, <1>4
  <2>2. ~LostPlace'
    BY ONLY <1>9, <2>1, N \in Nat DEF LostPlace
  <2> QED
    BY <1>7, <2>1, <2>2 DEF Sure
<1>11. Laid(pos2, F)'
  <2>1. pos2[(N + 1) + 1] = Len(F)
    BY <1>6, <1>8
  <2>2. ASSUME NEW i \in N + 1 .. N + 1
        PROVE  pos2[i + 1] = pos2[i] + Len(FrameOf(sent'[i]))
    <3>1. i = N + 1 /\ i + 1 = N + 2 /\ sent'[i] = p
      BY <1>7
    <3> QED
      BY ONLY <1>5, <1>6, <1>8, <3>1, f \in Nat
  <2>3. ASSUME NEW i \in N + 1 .. (N + 1) + 1, NEW j \in N + 1 .. (N + 1) + 1, i <= j
        PROVE  pos2[i] <= pos2[j]
    <3>1. (i = N + 1 \/ i = N + 2) /\ (j = N + 1 \/ j = N + 2) /\ ~(i = N + 2 /\ j = N + 1)
      BY <2>3
    <3> QED
      BY ONLY <1>8, <3>1, f \in Nat
  <2>4. Len(F) <= Len(F)
    BY <1>6
  <2> QED
    BY ONLY <1>10, <2>1, <2>2, <2>3, <2>4 DEF Laid
<1>12. Heard(pos2, F)'
  <2>1. ASSUME NEW i \in N + 1 .. N + 1, NEW j \in 1 .. Len(FrameOf(sent'[i]))
        PROVE  F[pos2[i] + j] = FrameOf(sent'[i])[j] <=> ~(hit'.frame = i /\ hit'.at + 1 = j)
    <3>1. i = N + 1 /\ sent'[i] = p
      BY <1>7
    <3>2. pos2[i] + j = j
      BY <1>5, <1>6, <1>8, <3>1
    <3>3. hit'.frame # i
      BY <1>2, <1>9, <3>1
    <3> QED
      BY ONLY <1>5, <3>1, <3>2, <3>3
  <2> QED
    BY ONLY <1>10, <2>1 DEF Heard
<1>13. Ahead(0, F)'
  <2>1. buffer' = <<>> /\ Len(buffer') = 0 /\ air' = F
    BY <1>1, <1>2, <1>5, EmptySeq
  <2>2. 0 + 0 + Len(F) = Len(F) /\ \A j \in 1 .. Len(F) : 0 + 0 + j = j
    BY <1>6
  <2> QED
    BY ONLY <2>1, <2>2 DEF Ahead
<1>14. Place(N, 0, pos2, F)'
  <2>1. pc' = "away" /\ N <= N + 1 /\ N <= N
    BY <1>2
  <2> QED
    BY ONLY <1>8, <1>10, <2>1 DEF Place
<1>15. (accepted = before \o Kept(N))'
  <2>1. Kept(N)' = <<>>
    <3>1. hit'.frame \notin N + 1 .. N
      OBVIOUS
    <3>2. Kept(N)' = SubSeq(sent', N + 1, N)
      BY <1>10, <3>1 DEF Kept, KeptOf
    <3>3. SubSeq(sent', N + 1, N) = <<>>
      BY SubSeqEmpty
    <3> QED
      BY <3>2, <3>3
  <2>2. accepted \o <<>> = accepted
    <3>1. accepted \in Seq(Payload)
      BY <1>3 DEF TypeOK
    <3> QED
      BY <3>1, ConcatEmptySeq
  <2> QED
    BY <1>2, <2>1, <2>2
<1>16. Aligned(N, 0, pos2, F)'
  BY <1>2, <1>11, <1>12, <1>13, <1>14, <1>15 DEF Aligned
<1>17. pos2 \in [1 .. Len(sent') + 1 -> Nat]
  <2>1. Len(sent') + 1 = N + 2
    BY <1>7
  <2> QED
    BY <2>1
<1> QED
  BY ONLY <1>16, <1>17, N \in Nat, 0 \in Nat, F \in Seq(Byte) DEF Somewhere

-----------------------------------------------------------------------------
(* Every step.                                                             *)

LEMMA HitOKStep == TInv /\ HitOK /\ [Next]_vars => HitOK'
<1> SUFFICES ASSUME TInv, HitOK, [Next]_vars PROVE HitOK'
  OBVIOUS
<1>0. TypeOK /\ LineOK /\ sent \in Seq(Payloads) /\ Len(sent) \in Nat
  BY DEF TInv, TypeOK
<1>1. CASE BoardSends
  <2>1. PICK p \in Payloads : sent' = Append(sent, p)
    BY <1>1 DEF BoardSends
  <2>2. hit' = hit
    BY <1>1 DEF BoardSends
  <2>3. Len(sent') = Len(sent) + 1 /\ \A i \in 1 .. Len(sent) : sent'[i] = sent[i]
    BY <1>0, <2>1, AppendProperties
  <2>4. hit.frame \in Nat
    BY <1>0 DEF TypeOK
  <2>5. CASE hit.frame # 0
    <3>1. hit.frame \in 1 .. Len(sent) /\ hit.at < Len(FrameOf(sent[hit.frame]))
      BY <2>4, <2>5 DEF HitOK
    <3>2. sent'[hit.frame] = sent[hit.frame] /\ hit.frame <= Len(sent')
      BY <1>0, <2>3, <3>1
    <3> QED
      BY ONLY <2>2, <3>1, <3>2 DEF HitOK
  <2> QED
    BY <2>2, <2>5 DEF HitOK
<1>2. ASSUME NEW kind \in {"changed", "lost"}, ByteIsHit(kind) PROVE HitOK'
  <2>1. /\ air # <<>> /\ sent' = sent
        /\ hit' = [frame |-> Len(sent), at |-> Len(FrameOf(Last(sent))) - Len(air), kind |-> kind]
    BY <1>2 DEF ByteIsHit
  <2>2. sent # <<>> /\ Last(sent) = sent[Len(sent)] /\ sent[Len(sent)] \in Payloads
    BY <1>0, <2>1 DEF LineOK, Last
  <2>3. PICK f \in Nat : f = Len(FrameOf(sent[Len(sent)]))
    BY <2>2, FrameFacts
  <2>4. PICK d \in Nat \ {0} : d = Len(air)
    BY <1>0, <2>1 DEF TypeOK
  <2>5. hit'.at < f
    <3>1. hit'.at = f - d
      BY <2>1, <2>2, <2>3, <2>4
    <3> QED
      BY ONLY <3>1, f \in Nat, d \in Nat \ {0}
  <2>6. hit'.frame = Len(sent) /\ Len(sent) <= Len(sent')
    BY <1>0, <2>1
  <2> QED
    BY ONLY <2>1, <2>3, <2>5, <2>6 DEF HitOK
<1>3. CASE UNCHANGED <<sent, hit>>
  BY <1>3 DEF HitOK
<1>4. ByteArrives \/ Gateway \/ UNCHANGED vars => UNCHANGED <<sent, hit>>
  BY DEF ByteArrives, Gateway, Call, NothingAvailable, ReadStart, ReadHeader, ReadBody, ReadTail, vars
<1> QED
  BY <1>1, <1>2, <1>3, <1>4 DEF Next

\* What should have been accepted, and what has been.
LEMMA DueType ==
  ASSUME TInv, HitOK
  PROVE  /\ before \in Seq(Payload) /\ KeptOf(calm, Sure) \in Seq(Payload)
         /\ Due \in Seq(Payload) /\ accepted \in Seq(Payload)
<1>1. TypeOK
  BY DEF TInv
<1>2. before \in Seq(Payload) /\ accepted \in Seq(Payload)
  BY <1>1 DEF TypeOK
<1>3. calm \in Nat /\ Sure \in Nat /\ calm <= Sure /\ Sure <= Len(sent)
  BY <1>1, SureType
<1>4. KeptOf(calm, Sure) \in Seq(Payloads)
  <2>1. calm <= calm
    BY <1>3
  <2> QED
    BY <1>1, <1>3, <2>1, KeptJoin
<1>5. KeptOf(calm, Sure) \in Seq(Payload)
  BY <1>4, PayloadsType
<1> QED
  BY <1>2, <1>5, ConcatProperties DEF Due

LEMMA AlignedPrefix ==
  ASSUME TInv, HitOK, NEW k \in Nat, NEW c \in Nat, NEW pos \in [1 .. Len(sent) + 1 -> Nat],
         NEW line \in Seq(Byte), Aligned(k, c, pos, line)
  PROVE  /\ IsPrefix(accepted, Due)
         /\ k = Sure => accepted = Due /\ IsPrefix(Due, accepted)
<1>1. accepted = before \o Kept(k) /\ calm <= k /\ k <= Sure /\ TypeOK
  BY DEF Aligned, Place, TInv
<1>2. PICK m \in Nat, n \in Nat : m = calm /\ n = Sure /\ n <= Len(sent)
  BY <1>1, SureType
<1>3. PICK b \in Seq(Payload) : b = before
  BY DueType
<1>4. PICK s \in Seq(Payloads), r \in Seq(Payloads) :
        s = KeptOf(m, k) /\ r = KeptOf(k, n) /\ KeptOf(m, n) = s \o r
  <2>1. TypeOK /\ m <= k /\ k <= n /\ n <= Len(sent)
    BY ONLY <1>1, <1>2
  <2>2. /\ KeptOf(m, k) \in Seq(Payloads) /\ KeptOf(k, n) \in Seq(Payloads)
        /\ KeptOf(m, n) = KeptOf(m, k) \o KeptOf(k, n)
    BY ONLY <2>1, KeptJoin, m \in Nat, n \in Nat, k \in Nat
  <2> QED
    BY ONLY <2>2, Zenon
<1>5. s \in Seq(Payload) /\ r \in Seq(Payload)
  BY PayloadsType
<1>6. accepted = b \o s /\ Due = b \o (s \o r)
  BY ONLY <1>1, <1>2, <1>3, <1>4 DEF Kept, Due
<1>7. b \o (s \o r) = (b \o s) \o r /\ b \o s \in Seq(Payload)
  <2>1. (b \o s) \o r = b \o (s \o r)
    BY ONLY <1>5, JoinPackets, b \in Seq(Payload), Zenon
  <2>2. b \o s \in Seq(Payload)
    BY ONLY <1>5, b \in Seq(Payload), ConcatProperties, Zenon
  <2> QED
    BY ONLY <2>1, <2>2
<1>8. IsPrefix(b \o s, (b \o s) \o r)
  BY ONLY <1>5, <1>7, PrefixOfJoin
<1>9. ASSUME k = Sure PROVE accepted = Due /\ IsPrefix(Due, accepted)
  <2>1. accepted = Due
    BY <1>1, <1>9 DEF Kept, Due
  <2>2. Due \in Seq(Payload)
    BY DueType
  <2> QED
    BY <2>1, <2>2, PrefixSelf
<1> QED
  BY <1>6, <1>7, <1>8, <1>9

\* Once ReceivePacket has lost its place it keeps what it has.
LEMMA AstrayStep ==
  ASSUME TInv, HitOK, Astray, [Next]_vars, ~(BoardSends /\ Quiet /\ running)
  PROVE  Astray'
<1>1. TypeOK /\ LostPlace /\ IsPrefix(Due, accepted)
  BY DEF TInv, Astray
<1>2. hit.frame # 0
  BY <1>1 DEF LostPlace, HitStaysInFrame
<1>3. UNCHANGED <<hit, calm, before>>
  BY <1>2 DEF Next, BoardSends, ByteArrives, ByteIsHit, Gateway, Call, NothingAvailable, ReadStart,
              ReadHeader, ReadBody, ReadTail, vars, history
<1>4. sent' = sent \/ \E p \in Payloads : sent' = Append(sent, p)
  BY DEF Next, BoardSends, ByteArrives, ByteIsHit, Gateway, Call, NothingAvailable, ReadStart,
         ReadHeader, ReadBody, ReadTail, vars
<1>5. LostPlace' /\ Sure' = Sure
  <2>1. LostPlace' <=> LostPlace
    BY ONLY <1>3 DEF LostPlace, HitStaysInFrame
  <2> QED
    BY ONLY <1>1, <1>3, <2>1 DEF Sure
<1>6. PICK m \in Nat, n \in Nat : m = calm /\ n = Sure /\ n <= Len(sent)
  BY <1>1, SureType
<1>7. KeptOf(m, n)' = KeptOf(m, n)
  <2>1. CASE sent' = sent
    BY <1>3, <2>1 DEF KeptOf, HitCosts
  <2>2. ASSUME NEW p \in Payloads, sent' = Append(sent, p) PROVE KeptOf(m, n)' = KeptOf(m, n)
    BY ONLY <1>1, <1>3, <1>6, <2>2, HitOK, KeptStays, p \in Payloads
  <2> QED
    BY <1>4, <2>1, <2>2
<1>8. Due' = Due
  BY ONLY <1>3, <1>5, <1>6, <1>7 DEF Due
<1>9. accepted' = accepted \/ \E p \in Payload : accepted' = Append(accepted, p)
  <2>1. CASE ReadTail
    <3>1. pc = "tail"
      BY <2>1 DEF ReadTail
    <3>2. PICK packet \in Payload :
            packet = [header |-> SubSeq(header, 1, HeaderSize - 1), body |-> body]
      BY <3>1, PacketType
    <3>3. accepted' = accepted \/ accepted' = Append(accepted, packet)
      BY <2>1, <3>2 DEF ReadTail
    <3> QED
      BY <3>3
  <2>2. CASE ~ReadTail
    BY <2>2 DEF Next, BoardSends, ByteArrives, ByteIsHit, Gateway, Call, NothingAvailable,
                ReadStart, ReadHeader, ReadBody, vars
  <2> QED
    BY <2>1, <2>2
<1>10. IsPrefix(Due, accepted')
  <2>1. Due \in Seq(Payload) /\ accepted \in Seq(Payload)
    BY DueType
  <2>2. PICK d \in Seq(Payload), s \in Seq(Payload) : d = Due /\ s = accepted
    BY <2>1
  <2>3. \A p \in Payload : IsPrefix(d, Append(s, p))
    BY <1>1, <2>2, PrefixKept
  <2> QED
    BY <1>1, <1>9, <2>2, <2>3
<1> QED
  BY ONLY <1>5, <1>8, <1>10 DEF Astray

\* A step of the gateway or the line while ReceivePacket has its place and a frame
\* to read that it is sure to come to.
LEMMA AlignedStep ==
  ASSUME TInv, HitOK, NEW k \in Nat, NEW c \in Nat, NEW pos \in [1 .. Len(sent) + 1 -> Nat],
         NEW line \in Seq(Byte), Aligned(k, c, pos, line),
         [Next]_vars, ~(BoardSends /\ Quiet /\ running), ~(LostPlace /\ k = Sure)
  PROVE  Somewhere' \/ Astray'
<1>1. TypeOK /\ k <= Sure /\ Sure \in Nat
  <2>1. TypeOK
    BY DEF TInv
  <2> QED
    BY <2>1, SureType DEF Aligned, Place
<1>2. CASE BoardSends
  <2>1. PICK pos2 \in [1 .. Len(sent') + 1 -> Nat], line2 \in Seq(Byte) :
          Aligned(k, c, pos2, line2)'
    BY <1>2, SendInStep
  <2> QED
    BY ONLY <2>1, k \in Nat, c \in Nat DEF Somewhere
<1>3. ASSUME sent' = sent, NEW n \in Nat, NEW m \in Nat, NEW line2 \in Seq(Byte),
             Aligned(n, m, pos, line2)'
      PROVE  Somewhere'
  <2>1. pos \in [1 .. Len(sent') + 1 -> Nat]
    BY <1>3
  <2> QED
    BY ONLY <1>3, <2>1 DEF Somewhere
<1>4. CASE ByteArrives
  <2>1. Aligned(k, c, pos, line)' /\ sent' = sent
    BY <1>4, ArriveInStep DEF ByteArrives
  <2> QED
    BY <1>3, <2>1
<1>5. ASSUME NEW kind \in {"changed", "lost"}, ByteIsHit(kind) PROVE Somewhere' \/ Astray'
  <2>1. CASE ~HitStaysInFrame'
    BY <1>5, <2>1, LoseInStep
  <2>2. CASE HitStaysInFrame'
    <3>1. hit'.frame = Len(sent) /\ hit'.kind = kind /\ air # <<>> /\ sent' = sent
      BY <1>5 DEF ByteIsHit
    <3>2. Len(sent) # 0
      BY <3>1 DEF TInv, LineOK, TypeOK
    <3>3. kind = "changed"
      BY <2>2, <3>1, <3>2 DEF HitStaysInFrame
    <3>4. PICK line2 \in Seq(Byte) : Aligned(k, c, pos, line2)'
      BY <1>5, <2>2, <3>3, HitInStep
    <3> QED
      BY <1>3, <3>1, <3>4
  <2> QED
    BY <2>1, <2>2
<1>6. CASE Call \/ NothingAvailable
  <2>1. Aligned(k, c, pos, line)' /\ sent' = sent
    BY <1>6, CallInStep DEF Call, NothingAvailable
  <2> QED
    BY <1>3, <2>1
<1>7. CASE ReadStart
  <2>1. k < Sure
    <3>1. ASSUME ~LostPlace PROVE k < Sure
      <4>1. buffer # <<>> /\ buffer \in Seq(Byte) /\ Len(air) \in Nat
            /\ c + Len(buffer) + Len(air) = Len(line)
        BY SMTT(30), <1>1, <1>7 DEF ReadStart, TypeOK, Aligned, Ahead
      <4>2. PICK b \in Nat \ {0} : b = Len(buffer)
        BY <4>1
      <4>3. PICK a \in Nat : a = Len(air)
        BY <4>1
      <4>4. c < Len(line)
        <5>1. c + b + a = Len(line)
          BY <4>1, <4>2, <4>3
        <5>2. c < c + b + a
          OBVIOUS
        <5> QED
          BY ONLY <5>1, <5>2
      <4> QED
        BY <1>1, <3>1, <4>4, FrameLeft
    <3> QED
      BY <1>1, <3>1
  <2>2. Aligned(k, c + 1, pos, line)' /\ sent' = sent /\ c + 1 \in Nat
    BY <1>7, <2>1, StartInStep DEF ReadStart
  <2> QED
    BY <1>3, <2>2
<1>8. CASE ReadHeader
  <2>1. Aligned(k, c + 5, pos, line)' /\ sent' = sent /\ c + 5 \in Nat
    BY <1>8, HeaderInStep DEF ReadHeader
  <2> QED
    BY <1>3, <2>1
<1>9. ASSUME pc \in {"body", "tail"}
      PROVE  /\ \E l \in Nat : BodyIs(k, l)
             /\ \E a \in Nat : a = pos[k + 1]
  <2>1. calm <= k /\ k < Sure /\ Laid(pos, line)
    BY <1>9 DEF Aligned, Place
  <2>2. Len(sent[k + 1].body) \in Nat /\ pos[k + 1] \in Nat
    BY <1>1, <2>1, NextFrame
  <2> QED
    BY <2>2 DEF BodyIs
<1>10. CASE ReadBody
  <2>1. PICK l \in Nat : BodyIs(k, l)
    BY <1>9, <1>10 DEF ReadBody
  <2>2. Aligned(k, c + l, pos, line)' /\ sent' = sent /\ c + l \in Nat
    BY <1>10, <2>1, BodyInStep DEF ReadBody
  <2> QED
    BY <1>3, <2>2
<1>11. CASE ReadTail
  <2>1. PICK l \in Nat : BodyIs(k, l)
    BY <1>9, <1>11 DEF ReadTail
  <2>2. PICK a \in Nat : a = pos[k + 1]
    BY <1>9, <1>11 DEF ReadTail
  <2>3. Aligned(k + 1, c + 2, pos, line)'
    BY ONLY <1>11, <2>1, <2>2, TInv, HitOK, Aligned(k, c, pos, line), TailInStep,
            k \in Nat, c \in Nat, l \in Nat, a \in Nat, line \in Seq(Byte),
            pos \in [1 .. Len(sent) + 1 -> Nat]
  <2>4. sent' = sent /\ k + 1 \in Nat /\ c + 2 \in Nat
    BY ONLY <1>11, k \in Nat, c \in Nat DEF ReadTail
  <2> QED
    BY <1>3, <2>3, <2>4
<1>12. CASE UNCHANGED vars
  <2>1. UNCHANGED <<sent, air, hit, buffer, pc, header, body, accepted, running, calm, before>>
    BY <1>12 DEF vars, locals, history
  <2>2. Laid(pos, line)' /\ Heard(pos, line)' /\ Sure' = Sure /\ (accepted = before \o Kept(k))'
    BY <2>1, SameLine DEF Aligned
  <2>3. Ahead(c, line)' /\ running'
    BY <2>1 DEF Aligned, Ahead
  <2>4. Place(k, c, pos, line)'
    <3>1. Place(k, c, pos, line)
      BY DEF Aligned
    <3> QED
      BY ONLY <2>1, <2>2, <3>1 DEF Place
  <2>5. Aligned(k, c, pos, line)'
    BY <2>2, <2>3, <2>4 DEF Aligned
  <2> QED
    BY <1>3, <2>1, <2>5
<1> QED
  BY <1>2, <1>4, <1>5, <1>6, <1>7, <1>8, <1>10, <1>11, <1>12 DEF Next, Gateway

LEMMA StepInStep == TInv /\ HitOK /\ InStep /\ [Next]_vars => InStep'
<1> SUFFICES ASSUME TInv, HitOK, InStep, [Next]_vars PROVE InStep'
  OBVIOUS
<1>1. CASE BoardSends /\ Quiet /\ running
  BY <1>1, ResetInStep DEF InStep
<1>2. ASSUME ~(BoardSends /\ Quiet /\ running), Astray PROVE InStep'
  BY <1>2, AstrayStep DEF InStep
<1>3. ASSUME ~(BoardSends /\ Quiet /\ running), Somewhere PROVE InStep'
  <2>1. PICK k \in Nat, c \in Nat, pos \in [1 .. Len(sent) + 1 -> Nat], line \in Seq(Byte) :
          Aligned(k, c, pos, line)
    BY <1>3 DEF Somewhere
  <2>2. CASE LostPlace /\ k = Sure
    <3>1. Astray
      BY <2>1, <2>2, AlignedPrefix DEF Astray
    <3> QED
      BY <1>2, <1>3, <3>1
  <2>3. CASE ~(LostPlace /\ k = Sure)
    BY <1>3, <2>1, <2>3, AlignedStep DEF InStep
  <2> QED
    BY <2>2, <2>3
<1> QED
  BY <1>1, <1>2, <1>3 DEF InStep

-----------------------------------------------------------------------------
(* What was accepted when the line is quiet.                               *)

LEMMA QuietDue ==
  ASSUME TInv, HitOK, Somewhere, Quiet
  PROVE  running /\ accepted = Due /\ IsPrefix(Due, accepted)
<1>1. PICK k \in Nat, c \in Nat, pos \in [1 .. Len(sent) + 1 -> Nat], line \in Seq(Byte) :
        Aligned(k, c, pos, line)
  BY DEF Somewhere
<1>2. /\ TypeOK /\ Laid(pos, line) /\ Ahead(c, line) /\ Place(k, c, pos, line) /\ running
  BY <1>1 DEF TInv, Aligned
<1>3. c = Len(line) /\ Len(line) \in Nat
  <2>1. Len(buffer) = 0 /\ Len(air) = 0
    BY EmptySeq DEF Quiet
  <2> QED
    BY <1>2, <2>1 DEF Ahead
<1>4. c = pos[k + 1] /\ calm <= k /\ k <= Sure
  BY <1>2 DEF Quiet, Place
<1>5. ASSUME k < Sure PROVE FALSE
  <2>1. PICK l \in Nat : l = Len(sent[k + 1].body)
    BY <1>2, <1>4, <1>5, NextFrame
  <2>2. pos[k + 1] + 8 + l <= Len(line)
    BY <1>2, <1>4, <1>5, <2>1, NextFrame
  <2> QED
    BY ONLY SMTT(30), <1>3, <1>4, <2>2, l \in Nat, c \in Nat
<1>6. k = Sure
  <2>1. Sure \in Nat
    BY <1>2, SureType
  <2> QED
    BY ONLY <1>4, <1>5, <2>1, k \in Nat
<1> QED
  BY <1>1, <1>2, <1>6, AlignedPrefix

\* Up to the last silence only the frame that was hit was lost.
Past == HitStaysInFrame => before = KeptOf(0, calm)

LEMMA InitPast == Init => Past
<1> SUFFICES ASSUME Init PROVE before = KeptOf(0, calm)
  BY DEF Past
<1>1. sent = <<>> /\ calm = 0 /\ before = <<>> /\ hit.frame = 0
  BY DEF Init
<1>2. SubSeq(sent, 0 + 1, 0) = <<>>
  BY SubSeqEmpty
<1> QED
  BY <1>1, <1>2 DEF KeptOf, HitCosts

LEMMA StaysNotLost ==
  ASSUME HitStaysInFrame
  PROVE  ~LostPlace /\ Sure = Len(sent)
BY DEF LostPlace, Sure

\* At the end of a silence.
LEMMA PastDue ==
  ASSUME TInv, HitOK, InStep, Past, HitStaysInFrame, Quiet
  PROVE  running /\ accepted = KeptOf(0, Len(sent))
<1>1. Somewhere /\ Sure = Len(sent) /\ TypeOK
  BY StaysNotLost DEF InStep, Astray, TInv
<1>2. running /\ accepted = before \o KeptOf(calm, Len(sent)) /\ before = KeptOf(0, calm)
  BY <1>1, QuietDue DEF Due, Past
<1>3. KeptOf(0, Len(sent)) = KeptOf(0, calm) \o KeptOf(calm, Len(sent))
  <2>1. calm \in Nat /\ Len(sent) \in Nat /\ calm <= Len(sent)
    BY <1>1 DEF TypeOK
  <2>2. PICK n \in Nat, m \in Nat : n = Len(sent) /\ m = calm
    BY <2>1
  <2>3. 0 \in Nat /\ 0 <= m /\ m <= n /\ n <= Len(sent)
    BY ONLY <2>1, <2>2
  <2>4. KeptOf(0, n) = KeptOf(0, m) \o KeptOf(m, n)
    BY ONLY <1>1, <2>3, KeptJoin, m \in Nat, n \in Nat
  <2> QED
    BY ONLY <2>2, <2>4, Zenon
<1> QED
  BY <1>2, <1>3

LEMMA StepPast == TInv /\ HitOK /\ InStep /\ Past /\ [Next]_vars => Past'
<1> SUFFICES ASSUME TInv, HitOK, InStep, Past, [Next]_vars, HitStaysInFrame'
             PROVE  (before = KeptOf(0, calm))'
  BY DEF Past
<1>1. TypeOK
  BY DEF TInv
<1>2. HitStaysInFrame
  <2>1. hit' = hit \/ hit.frame = 0
    BY DEF Next, BoardSends, ByteArrives, ByteIsHit, Gateway, Call, NothingAvailable, ReadStart,
           ReadHeader, ReadBody, ReadTail, vars
  <2> QED
    BY <2>1 DEF HitStaysInFrame
<1>3. before = KeptOf(0, calm)
  BY <1>2 DEF Past
<1>4. calm \in Nat /\ calm <= Len(sent) /\ Len(sent) \in Nat
  BY <1>1 DEF TypeOK
<1>5. PICK m \in Nat, n \in Nat : m = calm /\ n = Len(sent) /\ m <= n
  BY <1>4
<1>6. CASE BoardSends
  <2>1. PICK p \in Payloads : sent' = Append(sent, p)
    BY <1>6 DEF BoardSends
  <2>2. hit' = hit
    BY <1>6 DEF BoardSends
  <2>3. KeptOf(0, m)' = KeptOf(0, m) /\ KeptOf(0, n)' = KeptOf(0, n)
    <3>1. 0 \in Nat /\ m <= Len(sent) /\ n <= Len(sent)
      BY <1>5
    <3> QED
      BY ONLY <1>1, <2>1, <2>2, <3>1, HitOK, KeptStays, m \in Nat, n \in Nat, p \in Payloads
  <2>4. CASE Quiet /\ running
    <3>1. calm' = n /\ before' = accepted
      BY <1>5, <1>6, <2>4 DEF BoardSends
    <3>2. accepted = KeptOf(0, n)
      BY <1>2, <1>5, <2>4, PastDue
    <3> QED
      BY ONLY <2>3, <3>1, <3>2
  <2>5. CASE ~(Quiet /\ running)
    <3>1. calm' = m /\ before' = before
      BY <1>5, <1>6, <2>5 DEF BoardSends, history
    <3> QED
      BY ONLY <1>3, <1>5, <2>3, <3>1
  <2> QED
    BY <2>4, <2>5
<1>7. ASSUME NEW kind \in {"changed", "lost"}, ByteIsHit(kind)
      PROVE  (before = KeptOf(0, calm))'
  <2>1. /\ hit.frame = 0 /\ hit'.frame = n /\ air # <<>>
        /\ UNCHANGED <<sent, calm, before>>
    BY <1>5, <1>7 DEF ByteIsHit, history
  <2>2. m < n
    <3>1. sent # <<>>
      BY <2>1 DEF TInv, LineOK
    <3> QED
      BY <1>5, <3>1 DEF TInv, CalmOK
  <2>3. KeptOf(0, m) = SubSeq(sent, 0 + 1, m)
    BY <2>1 DEF KeptOf, HitCosts
  <2>4. KeptOf(0, m)' = SubSeq(sent, 0 + 1, m)
    <3>1. hit'.frame \notin 0 + 1 .. m
      BY <2>1, <2>2
    <3> QED
      BY ONLY <2>1, <3>1 DEF KeptOf
  <2> QED
    BY ONLY <1>3, <1>5, <2>1, <2>3, <2>4
<1>8. ASSUME ByteArrives \/ Gateway \/ UNCHANGED vars
      PROVE  (before = KeptOf(0, calm))'
  <2>1. UNCHANGED <<sent, hit, calm, before>>
    BY <1>8 DEF ByteArrives, Gateway, Call, NothingAvailable, ReadStart, ReadHeader, ReadBody,
                ReadTail, vars, history
  <2> QED
    BY ONLY <1>3, <2>1 DEF KeptOf, HitCosts
<1> QED
  BY <1>6, <1>7, <1>8 DEF Next

\* sent without the frame f.
LEMMA WithoutOne ==
  ASSUME sent \in Seq(Payloads), NEW f \in 1 .. Len(sent)
  PROVE  Without({f}) = SubSeq(sent, 1, f - 1) \o SubSeq(sent, f + 1, Len(sent))
<1>1. PICK N \in Nat : N = Len(sent)
  OBVIOUS
<1> DEFINE left == {i \in 1 .. N : i \notin {f}}
           Before(i) == {j \in left : j < i}
           at(n) == IF n < f THEN n ELSE n + 1
<1>2. f \in 1 .. N
  BY <1>1
<1>3. Cardinality(left) = N - 1
  <2>1. left = (1 .. N) \ {f}
    OBVIOUS
  <2>2. IsFiniteSet(1 .. N) /\ Cardinality(1 .. N) = N
    BY FS_Interval
  <2>3. Cardinality((1 .. N) \ {f}) = N - 1
    BY <1>2, <2>2, FS_RemoveElement
  <2> QED
    BY <2>1, <2>3
<1>4. ASSUME NEW i \in left
      PROVE  Cardinality(Before(i)) = IF i < f THEN i - 1 ELSE i - 2
  <2>0. i \in 1 .. N /\ i # f
    OBVIOUS
  <2>1. IsFiniteSet(1 .. i - 1) /\ Cardinality(1 .. i - 1) = i - 1
    <3>1. PICK n : n = i - 1
      OBVIOUS
    <3>2. n \in Nat
      BY ONLY <2>0, <3>1, N \in Nat
    <3>3. IsFiniteSet(1 .. n) /\ Cardinality(1 .. n) = n
      BY ONLY <3>2, FS_Interval
    <3> QED
      BY ONLY <3>1, <3>3
  <2>2. CASE i < f
    <3>1. Before(i) = 1 .. i - 1
      BY <1>2, <2>2
    <3> QED
      BY <2>1, <2>2, <3>1
  <2>3. CASE i > f
    <3>1. Before(i) = (1 .. i - 1) \ {f}
      BY <1>2, <2>3
    <3>2. f \in 1 .. i - 1
      BY <1>2, <2>3
    <3>3. Cardinality((1 .. i - 1) \ {f}) = (i - 1) - 1
      <4>1. PICK S : S = 1 .. i - 1
        OBVIOUS
      <4>2. IsFiniteSet(S) /\ Cardinality(S) = i - 1 /\ f \in S
        BY ONLY <2>1, <3>2, <4>1
      <4>3. Cardinality(S \ {f}) = Cardinality(S) - 1
        BY ONLY <4>2, FS_RemoveElement
      <4> QED
        BY ONLY <4>1, <4>2, <4>3
    <3> HIDE DEF Before
    <3> QED
      BY ONLY <2>0, <2>3, <3>1, <3>3, <1>2, N \in Nat
  <2> QED
    BY <1>2, <2>0, <2>2, <2>3
<1>5. ASSUME NEW n \in 1 .. N - 1
      PROVE  (CHOOSE i \in left : Cardinality(Before(i)) = n - 1) = at(n)
  <2>1. at(n) \in left
    BY <1>2
  <2>2. \A i \in left : Cardinality(Before(i)) = n - 1 <=> i = at(n)
    <3> SUFFICES ASSUME NEW i \in left
                 PROVE  Cardinality(Before(i)) = n - 1 <=> i = at(n)
      OBVIOUS
    <3>1. Cardinality(Before(i)) = IF i < f THEN i - 1 ELSE i - 2
      BY <1>4
    <3>2. i \in 1 .. N /\ i # f
      OBVIOUS
    <3> HIDE DEF Before
    <3> QED
      BY <1>2, <3>1, <3>2
  <2> HIDE DEF Before, at, left
  <2> QED
    BY <2>1, <2>2
<1> DEFINE s == SubSeq(sent, 1, f - 1)
           t == SubSeq(sent, f + 1, N)
           w == [n \in 1 .. N - 1 |-> sent[at(n)]]
<1>6. Without({f}) = w
  <2>1. Without({f}) = [n \in 1 .. Cardinality(left) |->
                          sent[CHOOSE i \in left : Cardinality(Before(i)) = n - 1]]
    BY <1>1 DEF Without
  <2> HIDE DEF left, Before, at
  <2> QED
    BY <1>3, <1>5, <2>1
<1>7. s \in Seq(Payloads) /\ Len(s) = f - 1 /\ \A i \in 1 .. f - 1 : s[i] = sent[i]
  <2>1. 1 \in Int /\ f - 1 \in Int /\ \A i \in 1 .. f - 1 : sent[i] \in Payloads
    BY <1>1, <1>2
  <2>2. /\ s \in Seq(Payloads) /\ Len(s) = IF 1 <= f - 1 THEN (f - 1) - 1 + 1 ELSE 0
        /\ \A i \in 1 .. (f - 1) - 1 + 1 : s[i] = sent[1 + i - 1]
    BY ONLY <2>1, SubSeqProperties
  <2> HIDE DEF s
  <2>3. (f - 1) - 1 + 1 = f - 1 /\ f - 1 \in Nat
    BY <1>2
  <2> QED
    BY <2>2, <2>3
<1>8. t \in Seq(Payloads) /\ Len(t) = N - f /\ \A i \in 1 .. N - f : t[i] = sent[f + i]
  <2>1. f + 1 \in Int /\ N \in Int /\ \A i \in f + 1 .. N : sent[i] \in Payloads
    BY <1>1, <1>2
  <2>2. /\ t \in Seq(Payloads) /\ Len(t) = IF f + 1 <= N THEN N - (f + 1) + 1 ELSE 0
        /\ \A i \in 1 .. N - (f + 1) + 1 : t[i] = sent[(f + 1) + i - 1]
    BY ONLY <2>1, SubSeqProperties
  <2> HIDE DEF t
  <2>3. N - (f + 1) + 1 = N - f /\ N - f \in Nat
    BY <1>2
  <2> QED
    BY <2>2, <2>3
<1> HIDE DEF s, t
<1>9. PICK u \in Seq(Payloads) :
        /\ u = s \o t /\ Len(u) = N - 1
        /\ \A i \in 1 .. f - 1 : u[i] = sent[i]
        /\ \A i \in 1 .. N - f : u[(f - 1) + i] = sent[f + i]
  <2>1. PICK u : u = s \o t
    OBVIOUS
  <2>2. /\ u \in Seq(Payloads) /\ Len(u) = Len(s) + Len(t)
        /\ \A i \in 1 .. Len(s) : u[i] = s[i]
        /\ \A i \in 1 .. Len(t) : u[Len(s) + i] = t[i]
    <3>1. s \in Seq(Payloads) /\ t \in Seq(Payloads) /\ Len(s) \in Nat /\ Len(t) \in Nat
      BY <1>7, <1>8
    <3>2. /\ u \in Seq(Payloads) /\ Len(u) = Len(s) + Len(t)
          /\ \A i \in 1 .. Len(s) + Len(t) :
               u[i] = IF i <= Len(s) THEN s[i] ELSE t[i - Len(s)]
      BY ONLY <2>1, <3>1, ConcatProperties
    <3>3. \A i \in 1 .. Len(s) : u[i] = s[i]
      BY ONLY <3>1, <3>2
    <3>4. ASSUME NEW i \in 1 .. Len(t) PROVE u[Len(s) + i] = t[i]
      <4>1. PICK m \in Nat : m = Len(s)
        BY <3>1
      <4>2. PICK j : j = m + i
        OBVIOUS
      <4>3. j \in 1 .. Len(s) + Len(t) /\ ~(j <= Len(s)) /\ j - Len(s) = i
        BY ONLY <3>1, <4>1, <4>2, m \in Nat, i \in 1 .. Len(t)
      <4> QED
        BY ONLY <3>2, <4>1, <4>2, <4>3
    <3> QED
      BY <3>2, <3>3, <3>4
  <2>3. Len(u) = N - 1
    BY ONLY <1>2, <1>7, <1>8, <2>2, N \in Nat
  <2>4. \A i \in 1 .. f - 1 : u[i] = sent[i]
    BY ONLY <1>7, <2>2
  <2>5. \A i \in 1 .. N - f : u[(f - 1) + i] = sent[f + i]
    BY ONLY <1>7, <1>8, <2>2
  <2> QED
    BY <2>1, <2>2, <2>3, <2>4, <2>5
<1>10. w \in Seq(Payloads) /\ Len(w) = N - 1
  <2>1. PICK v : v = w
    OBVIOUS
  <2>2. PICK m \in Nat : m = N - 1
    BY <1>2
  <2>3. v \in [1 .. m -> Payloads]
    <3>1. \A n \in 1 .. m : sent[at(n)] \in Payloads
      BY <1>1, <1>2, <2>2
    <3> QED
      BY <2>1, <2>2, <3>1
  <2> HIDE DEF w
  <2>4. v \in Seq(Payloads)
    BY <2>3, SeqDef
  <2>5. Len(v) = m
    BY <2>3, <2>4, LenProperties
  <2> QED
    BY <2>1, <2>2, <2>4, <2>5
<1>11. ASSUME NEW n \in 1 .. N - 1 PROVE w[n] = u[n]
  <2>1. CASE n < f
    <3>1. w[n] = sent[n] /\ n \in 1 .. f - 1
      BY <1>2, <2>1
    <3> QED
      BY ONLY <1>9, <3>1
  <2>2. CASE n >= f
    <3>1. PICK i : i = n - (f - 1)
      OBVIOUS
    <3>2. i \in 1 .. N - f /\ n = (f - 1) + i /\ n + 1 = f + i
      BY ONLY <1>2, <2>2, <3>1, n \in 1 .. N - 1, N \in Nat
    <3>3. w[n] = sent[f + i]
      BY <1>2, <2>2, <3>2
    <3> QED
      BY ONLY <1>9, <3>2, <3>3
  <2> QED
    BY ONLY <1>2, <2>1, <2>2, n \in 1 .. N - 1, N \in Nat
<1> HIDE DEF w
<1>12. w = u
  BY ONLY <1>9, <1>10, <1>11, SeqEqual
<1> QED
  BY <1>1, <1>6, <1>9, <1>12 DEF s, t

LEMMA QuietKept == TInv /\ HitOK /\ InStep /\ Past => OnlyHitFrameLost
<1> SUFFICES ASSUME TInv, HitOK, InStep, Past, HitStaysInFrame, Quiet
             PROVE  /\ running
                    /\ accepted = IF hit.frame = 0 \/ hit.at = Len(FrameOf(sent[hit.frame])) - 1
                                    THEN sent ELSE Without({hit.frame})
  BY DEF OnlyHitFrameLost
<1>1. running /\ accepted = KeptOf(0, Len(sent))
  BY PastDue
<1>2. sent \in Seq(Payloads) /\ Len(sent) \in Nat /\ hit.frame \in Nat
  BY DEF TInv, TypeOK
<1>3. SubSeq(sent, 1, Len(sent)) = sent
  BY <1>2, SubSeqFull
<1>4. KeptOf(0, Len(sent)) = IF HitCosts /\ hit.frame \in 1 .. Len(sent)
                               THEN SubSeq(sent, 1, hit.frame - 1) \o SubSeq(sent, hit.frame + 1, Len(sent))
                               ELSE SubSeq(sent, 1, Len(sent))
  BY DEF KeptOf
<1>5. CASE HitCosts
  <2>1. hit.frame \in 1 .. Len(sent)
    BY <1>2, <1>5 DEF HitCosts, HitOK
  <2>2. PICK f : f = hit.frame
    OBVIOUS
  <2>3. Without({f}) = SubSeq(sent, 1, f - 1) \o SubSeq(sent, f + 1, Len(sent))
    BY <1>2, <2>1, <2>2, WithoutOne
  <2> QED
    BY <1>1, <1>4, <1>5, <2>1, <2>2, <2>3 DEF HitCosts
<1>6. CASE ~HitCosts
  BY <1>1, <1>3, <1>4, <1>6 DEF HitCosts
<1> QED
  BY <1>5, <1>6

\* ReceivePacket and ValidChecksum: a changed byte that is neither the start of a
\* frame nor the length of its body costs that frame, if the checksum covers the
\* byte or is it, and no other.  For payloads of any bytes, also those that hold
\* start bytes or whole frames, and any number of them: ReceivePacket goes from
\* frame to frame by their lengths alone.
THEOREM HitFrameOnly == Spec => []OnlyHitFrameLost
<1>1. Init => TInv /\ HitOK /\ InStep /\ Past
  BY InitTyped, InitInStep, InitPast
<1>2. TInv /\ HitOK /\ InStep /\ Past /\ [Next]_vars => (TInv /\ HitOK /\ InStep /\ Past)'
  BY StepTyped, HitOKStep, StepInStep, StepPast
<1> QED
  BY <1>1, <1>2, QuietKept, PTL DEF Spec

LEMMA InStepAlways == Spec => [](TInv /\ HitOK /\ InStep)
<1>1. Init => TInv /\ HitOK /\ InStep
  BY InitTyped, InitInStep
<1>2. TInv /\ HitOK /\ InStep /\ [Next]_vars => (TInv /\ HitOK /\ InStep)'
  BY StepTyped, HitOKStep, StepInStep
<1> QED
  BY <1>1, <1>2, PTL DEF Spec

\* ReceivePacket: whatever the payloads and whatever byte is hit, what is accepted
\* is what was sent, in its order, until a hit makes ReceivePacket lose its place;
\* and then nothing changes in what was accepted of the frames sent before.
THEOREM SentAccepted == Spec => []OnlySentAccepted
<1>1. TInv /\ HitOK /\ InStep => OnlySentAccepted
  <2> SUFFICES ASSUME TInv, HitOK, InStep PROVE OnlySentAccepted
    OBVIOUS
  <2>1. CASE Astray
    BY <2>1 DEF Astray, OnlySentAccepted
  <2>2. CASE Somewhere
    BY <2>2, AlignedPrefix DEF Somewhere, OnlySentAccepted
  <2> QED
    BY <2>1, <2>2 DEF InStep
<1> QED
  BY <1>1, InStepAlways, PTL

\* ReceivePacket: a silence heals.  When the line is quiet and the gateway runs it
\* has every frame sent since the line was last quiet, but for what a hit since
\* then cost.
THEOREM SilenceHeals == Spec => []DamageIsContained
<1>1. TInv /\ HitOK /\ InStep => DamageIsContained
  <2> SUFFICES ASSUME TInv, HitOK, InStep, Quiet, running
               PROVE  IF LostPlace THEN IsPrefix(Due, accepted) ELSE accepted = Due
    BY DEF DamageIsContained
  <2>1. CASE Astray
    BY <2>1 DEF Astray
  <2>2. CASE Somewhere
    BY <2>2, QuietDue
  <2> QED
    BY <2>1, <2>2 DEF InStep
<1> QED
  BY <1>1, InStepAlways, PTL

\* ResponsePacket's constructor throws, and the gateway ends, only after a hit that
\* makes ReceivePacket lose its place and before the line is quiet again.
THEOREM EndsOnlyAstray == Spec => []SurvivesNoise
<1>1. TInv /\ HitOK /\ InStep => SurvivesNoise
  BY DEF InStep, Somewhere, Aligned, Astray, SurvivesNoise
<1> QED
  BY <1>1, InStepAlways, PTL

=============================================================================
