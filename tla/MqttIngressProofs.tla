-------------------------- MODULE MqttIngressProofs --------------------------
(* Theorems of MqttIngress, for every message.                             *)
EXTENDS MqttIngress, ByteSumsProofs, SequenceTheorems

\* A message as the example in ParseMqttMessage has it: numbers that are bytes,
\* and a length that announces data.
Documented(m) ==
  /\ m \in Message /\ m.shape = "object"
  /\ \A i \in 1 .. 7 : m.numbers[i] < 256
  /\ m.numbers[5] > 0
  /\ \A i \in DOMAIN m.list : m.list[i] < 256

LEMMA CutOfBytes ==
  ASSUME NEW s \in Seq(Nat), \A i \in DOMAIN s : s[i] < 256
  PROVE  Cut(s) = s
<1>1. \A i \in DOMAIN s : s[i] % 256 = s[i]
  BY SMTT(30)
<1> QED
  BY <1>1 DEF Cut

LEMMA CutOfNumbers ==
  ASSUME NEW n \in Numbers, \A i \in 1 .. 7 : n[i] < 256
  PROVE  Cut(n) = n
<1>1. \A i \in 1 .. 7 : n[i] % 256 = n[i]
  BY DEF Numbers
<1> QED
  BY <1>1 DEF Cut, Numbers

\* What goes out for a documented message.
LEMMA FrameOfDocumented ==
  ASSUME NEW m, Documented(m)
  PROVE  \E sum :
           MakePacket(m) = (SubSeq(m.numbers, 1, 5) \o (SubSeq(m.numbers, 6, 7) \o m.list))
                             \o <<sum, kEnd>>
<1>1. m.numbers \in Numbers /\ m.list \in Seq(Nat)
  BY DEF Documented, Message
<1>2. Cut(m.numbers) = m.numbers /\ Cut(m.list) = m.list
  BY <1>1, CutOfNumbers, CutOfBytes DEF Documented
<1>3. SubSeq(m.numbers, 1, 5)[5] > 0
  BY <1>1 DEF Documented, Numbers
<1> QED
  BY <1>2, <1>3 DEF Documented, MakePacket, ParseMqttMessage, Packet, Body, kSuccessParse

LEMMA ConcatAt ==
  ASSUME NEW S, NEW s \in Seq(S), NEW t \in Seq(S)
  PROVE  /\ s \o t \in Seq(S) /\ Len(s \o t) = Len(s) + Len(t)
         /\ \A i \in 1 .. Len(s) : (s \o t)[i] = s[i]
         /\ \A i \in 1 .. Len(t) : (s \o t)[i + Len(s)] = t[i]
OBVIOUS

LEMMA SameFront ==
  ASSUME NEW S, NEW s \in Seq(S), NEW t \in Seq(S), NEW v \in Seq(S), NEW w \in Seq(S),
         Len(v) = Len(w), s \o v = t \o w
  PROVE  s = t
<1>1. Len(s) = Len(t)
  <2>1. Len(s \o v) = Len(s) + Len(v) /\ Len(t \o w) = Len(t) + Len(w)
    BY ConcatAt
  <2>2. Len(s) \in Nat /\ Len(t) \in Nat /\ Len(v) \in Nat
    OBVIOUS
  <2> QED
    BY <2>1, <2>2
<1>2. \A i \in 1 .. Len(s) : s[i] = t[i]
  <2>1. \A i \in 1 .. Len(s) : (s \o v)[i] = s[i]
    BY ConcatAt
  <2>2. \A i \in 1 .. Len(t) : (t \o w)[i] = t[i]
    BY ConcatAt
  <2> QED
    BY <1>1, <2>1, <2>2
<1> QED
  BY <1>1, <1>2, SeqEqual

\* The bytes of a documented message before its tail, one by one.
LEMMA BytesOfDocumented ==
  ASSUME NEW m, Documented(m), NEW U, Nat \subseteq U
  PROVE  LET bytes == SubSeq(m.numbers, 1, 5) \o (SubSeq(m.numbers, 6, 7) \o m.list)
         IN  /\ bytes \in Seq(U)
             /\ Len(bytes) = 7 + Len(m.list)
             /\ \A i \in 1 .. 7 : bytes[i] = m.numbers[i]
             /\ \A i \in 1 .. Len(m.list) : bytes[i + 7] = m.list[i]
<1> DEFINE first == SubSeq(m.numbers, 1, 5)
           address == SubSeq(m.numbers, 6, 7)
<1>1. m.numbers \in Numbers /\ m.list \in Seq(Nat)
  BY DEF Documented, Message
<1>2. m.list \in Seq(U)
  BY <1>1, SeqMonotonic
<1>3. \A i \in 1 .. 7 : m.numbers[i] \in U
  BY <1>1 DEF Numbers
<1>4. first \in Seq(U) /\ Len(first) = 5 /\ \A i \in 1 .. 5 : first[i] = m.numbers[i]
  BY <1>3, SubSeqProperties
<1>5. address \in Seq(U) /\ Len(address) = 2 /\ \A i \in 1 .. 2 : address[i] = m.numbers[i + 5]
  <2>1. address \in Seq(U) /\ Len(address) = 7 - 6 + 1
        /\ \A i \in 1 .. 7 - 6 + 1 : address[i] = m.numbers[6 + i - 1]
    BY <1>3, SubSeqProperties
  <2> HIDE DEF address
  <2> QED
    BY <2>1
<1>6. Len(m.list) \in Nat
  BY <1>1, LenProperties
<1> HIDE DEF first, address
<1>7. /\ address \o m.list \in Seq(U)
      /\ Len(address \o m.list) = 2 + Len(m.list)
      /\ \A i \in 1 .. 2 : (address \o m.list)[i] = m.numbers[i + 5]
      /\ \A i \in 1 .. Len(m.list) : (address \o m.list)[i + 2] = m.list[i]
  <2>1. /\ address \o m.list \in Seq(U) /\ Len(address \o m.list) = Len(address) + Len(m.list)
        /\ \A i \in 1 .. Len(address) : (address \o m.list)[i] = address[i]
        /\ \A i \in 1 .. Len(m.list) : (address \o m.list)[i + Len(address)] = m.list[i]
    <3>1. address \in Seq(U) /\ m.list \in Seq(U)
      BY <1>2, <1>5
    <3> DEFINE list == m.list
    <3>2. list \in Seq(U)
      BY <3>1
    <3> HIDE DEF list
    <3>3. /\ address \o list \in Seq(U) /\ Len(address \o list) = Len(address) + Len(list)
          /\ \A i \in 1 .. Len(address) : (address \o list)[i] = address[i]
          /\ \A i \in 1 .. Len(list) : (address \o list)[i + Len(address)] = list[i]
      BY ONLY <3>1, <3>2, ConcatAt
    <3> QED
      BY <3>3 DEF list
  <2> QED
    BY <1>5, <1>6, <2>1
<1> DEFINE rest == address \o m.list
           bytes == first \o rest
<1> HIDE DEF rest
<1>8. /\ bytes \in Seq(U)
      /\ Len(bytes) = 5 + Len(rest)
      /\ \A i \in 1 .. 5 : bytes[i] = first[i]
      /\ \A i \in 1 .. Len(rest) : bytes[i + 5] = rest[i]
  <2>1. rest \in Seq(U)
    BY <1>7 DEF rest
  <2>0. first \in Seq(U)
    BY <1>4
  <2>2. /\ bytes \in Seq(U) /\ Len(bytes) = Len(first) + Len(rest)
        /\ \A i \in 1 .. Len(first) : bytes[i] = first[i]
        /\ \A i \in 1 .. Len(rest) : bytes[i + Len(first)] = rest[i]
    BY ONLY <2>0, <2>1, ConcatAt
  <2> HIDE DEF bytes
  <2> QED
    BY <1>4, <2>2
<1>0. /\ Len(rest) = 2 + Len(m.list)
      /\ \A i \in 1 .. 2 : rest[i] = m.numbers[i + 5]
      /\ \A i \in 1 .. Len(m.list) : rest[i + 2] = m.list[i]
  BY <1>7 DEF rest
<1> HIDE DEF bytes
<1>9. \A i \in 1 .. 7 : bytes[i] = m.numbers[i]
  <2> TAKE i \in 1 .. 7
  <2>1. CASE i <= 5
    BY <1>4, <1>8, <2>1
  <2>2. CASE i > 5
    <3> DEFINE j == i - 5
    <3>1. j \in 1 .. 2 /\ j \in 1 .. Len(rest) /\ j + 5 = i
      BY <1>0, <1>6, <2>2
    <3> HIDE DEF j
    <3>2. bytes[j + 5] = rest[j] /\ rest[j] = m.numbers[j + 5]
      BY <1>0, <1>8, <3>1
    <3> QED
      BY <3>1, <3>2
  <2> QED
    BY <2>1, <2>2
<1>10. \A i \in 1 .. Len(m.list) : bytes[i + 7] = m.list[i]
  <2> TAKE i \in 1 .. Len(m.list)
  <2> DEFINE j == i + 2
  <2>1. j \in 1 .. Len(rest) /\ j + 5 = i + 7
    BY <1>0, <1>6
  <2>2. rest[j] = m.list[i]
    BY <1>0
  <2> HIDE DEF j
  <2> QED
    BY <1>8, <2>1, <2>2
<1>11. Len(bytes) = 7 + Len(m.list)
  BY <1>0, <1>6, <1>8
<1> QED
  BY <1>8, <1>9, <1>10, <1>11 DEF bytes, rest, first, address

\* Nothing of a documented message is lost on the way to the board: two
\* messages that go out as the same bytes ask for the same thing.
THEOREM NothingLost ==
  ASSUME NEW m, NEW w, Documented(m), Documented(w), MakePacket(m) = MakePacket(w)
  PROVE  m.numbers = w.numbers /\ m.list = w.list
<1> DEFINE Bytes(x) == SubSeq(x.numbers, 1, 5) \o (SubSeq(x.numbers, 6, 7) \o x.list)
<1>1. PICK s, t : Bytes(m) \o <<s, kEnd>> = Bytes(w) \o <<t, kEnd>>
  BY FrameOfDocumented
<1> DEFINE U == Nat \cup {s, t, kEnd}
           b == Bytes(m)
           c == Bytes(w)
           p == <<s, kEnd>>
           q == <<t, kEnd>>
<1>2. /\ b \in Seq(U) /\ Len(b) = 7 + Len(m.list)
      /\ \A i \in 1 .. 7 : b[i] = m.numbers[i]
      /\ \A i \in 1 .. Len(m.list) : b[i + 7] = m.list[i]
  BY BytesOfDocumented
<1>3. /\ c \in Seq(U) /\ Len(c) = 7 + Len(w.list)
      /\ \A i \in 1 .. 7 : c[i] = w.numbers[i]
      /\ \A i \in 1 .. Len(w.list) : c[i + 7] = w.list[i]
  BY BytesOfDocumented
<1>4. p \in Seq(U) /\ Len(p) = 2 /\ q \in Seq(U) /\ Len(q) = 2
  OBVIOUS
<1>5. m.numbers \in Numbers /\ w.numbers \in Numbers /\ m.list \in Seq(Nat) /\ w.list \in Seq(Nat)
  BY DEF Documented, Message
<1>6. Len(m.list) \in Nat /\ Len(w.list) \in Nat
  BY <1>5, LenProperties
<1>0. b \o p = c \o q
  BY <1>1
<1> HIDE DEF U, b, c, p, q
<1>8. b = c
  BY <1>0, <1>2, <1>3, <1>4, SameFront
<1>9. m.numbers = w.numbers
  <2>1. \A i \in 1 .. 7 : m.numbers[i] = w.numbers[i]
    BY <1>2, <1>3, <1>6, <1>8
  <2>2. m.numbers \in [1 .. 7 -> Nat] /\ w.numbers \in [1 .. 7 -> Nat]
    BY <1>5 DEF Numbers
  <2>3. \A f, g \in [1 .. 7 -> Nat] : (\A i \in 1 .. 7 : f[i] = g[i]) => f = g
    OBVIOUS
  <2> QED
    BY <2>1, <2>2, <2>3, Zenon
<1>10. m.list = w.list
  <2>1. Len(m.list) = Len(w.list)
    BY SMTT(30), <1>2, <1>3, <1>6, <1>8
  <2>2. ASSUME NEW i \in 1 .. Len(m.list) PROVE m.list[i] = w.list[i]
    <3>1. i + 7 \in 1 .. Len(b)
      BY SMTT(30), <1>2, <1>6
    <3> QED
      BY <1>2, <1>3, <1>8, <2>1, <3>1
  <2> QED
    BY <1>5, <2>1, <2>2, SeqEqual
<1> QED
  BY <1>9, <1>10

-----------------------------------------------------------------------------
(* What any message becomes.                                               *)

\* The values of a wide sum in n steps.
Widens(f, s, n) ==
  /\ f \in [0 .. n -> Nat]
  /\ f[0] = 0
  /\ \A i \in 1 .. n : f[i] = s[i] + f[i - 1]

LEMMA WideExists ==
  ASSUME NEW s \in Seq(Nat)
  PROVE  \E f : Widens(f, s, Len(s))
<1> DEFINE T == {n \in Nat : n <= Len(s) => \E f : Widens(f, s, n)}
<1>1. 0 \in T
  <2>1. Widens([i \in 0 .. 0 |-> 0], s, 0)
    BY DEF Widens
  <2> QED
    BY <2>1
<1>2. ASSUME NEW n \in Nat, n \in T PROVE n + 1 \in T
  <2> SUFFICES ASSUME n + 1 <= Len(s) PROVE \E f : Widens(f, s, n + 1)
    OBVIOUS
  <2>1. PICK f : Widens(f, s, n)
    BY <1>2
  <2> DEFINE g == [i \in 0 .. n + 1 |-> IF i <= n THEN f[i] ELSE s[n + 1] + f[n]]
  <2>2. f[n] \in Nat /\ s[n + 1] \in Nat
    <3>1. n \in 0 .. n /\ n + 1 \in 1 .. Len(s)
      OBVIOUS
    <3> QED
      BY <2>1, <3>1 DEF Widens
  <2>3. g \in [0 .. n + 1 -> Nat] /\ g[0] = 0
    BY SMTT(30), <2>1, <2>2 DEF Widens
  <2>4. \A i \in 1 .. n + 1 : g[i] = s[i] + g[i - 1]
    <3> TAKE i \in 1 .. n + 1
    <3>1. CASE i <= n
      BY <2>1, <3>1 DEF Widens
    <3>2. CASE i = n + 1
      BY <3>2
    <3> QED
      BY <3>1, <3>2
  <2> QED
    BY <2>3, <2>4 DEF Widens
<1>3. \A n \in Nat : n \in T
  <2> HIDE DEF T
  <2> QED
    BY <1>1, <1>2, Induction
<1> QED
  BY <1>3

LEMMA WideRun ==
  ASSUME NEW s \in Seq(Nat)
  PROVE  \E f : Widens(f, s, Len(s)) /\ WideSum(s) = f[Len(s)]
<1> DEFINE n == Len(s)
           Step(f) == [i \in 0 .. n |-> IF i = 0 THEN 0 ELSE s[i] + f[i - 1]]
           sum == CHOOSE g : g = Step(g)
<1>1. PICK f : Widens(f, s, n)
  BY WideExists
<1>2. n \in Nat /\ \A i \in 1 .. n : s[i] \in Nat
  OBVIOUS
<1>3. f = Step(f)
  BY <1>1 DEF Widens
<1>4. WideSum(s) = sum[n]
  BY DEF WideSum
<1>5. sum = Step(sum)
  <2> HIDE DEF Step
  <2> QED
    BY <1>3
<1> HIDE DEF sum, n
<1>6. DOMAIN sum = 0 .. n /\ sum[0] = 0 /\ \A i \in 1 .. n : sum[i] = s[i] + sum[i - 1]
  BY <1>2, <1>5
<1> DEFINE T == {i \in Nat : i <= n => sum[i] \in Nat}
<1>7. 0 \in T
  BY <1>6
<1>8. ASSUME NEW i \in Nat, i \in T PROVE i + 1 \in T
  <2> SUFFICES ASSUME i + 1 <= n PROVE sum[i + 1] \in Nat
    OBVIOUS
  <2>1. sum[i] \in Nat /\ i + 1 \in 1 .. n
    BY <1>2, <1>8
  <2>2. sum[i + 1] = s[i + 1] + sum[i]
    BY <1>6, <2>1
  <2>3. s[i + 1] \in Nat
    BY <1>2, <2>1
  <2> QED
    BY <2>1, <2>2, <2>3
<1>9. \A i \in 0 .. n : sum[i] \in Nat
  <2>1. \A i \in Nat : i \in T
    <3> HIDE DEF T
    <3> QED
      BY <1>7, <1>8, Induction
  <2> QED
    BY <1>2, <2>1
<1>10. sum \in [0 .. n -> Nat]
  BY <1>5, <1>9
<1> QED
  BY <1>4, <1>6, <1>10 DEF Widens, n

LEMMA CutType ==
  ASSUME NEW s \in Seq(Nat)
  PROVE  /\ Cut(s) \in Seq(Nat) /\ Len(Cut(s)) = Len(s)
         /\ \A i \in 1 .. Len(s) : Cut(s)[i] = s[i] % 256 /\ Cut(s)[i] \in Octet
<1> DEFINE n == Len(s)
           c == Cut(s)
<1>1. n \in Nat /\ DOMAIN s = 1 .. n /\ \A i \in 1 .. n : s[i] \in Nat
  OBVIOUS
<1>2. c = [i \in 1 .. n |-> s[i] % 256]
  BY <1>1 DEF Cut
<1>3. \A i \in 1 .. n : s[i] % 256 \in Octet
  <2> TAKE i \in 1 .. n
  <2>1. \A k \in Nat : k % 256 \in Octet
    BY DEF Octet
  <2> QED
    BY <1>1, <2>1
<1> HIDE DEF c, n
<1>4. c \in [1 .. n -> Nat] /\ \A i \in 1 .. n : c[i] = s[i] % 256 /\ c[i] \in Octet
  <2>1. \A k \in Octet : k \in Nat
    BY DEF Octet
  <2>2. ASSUME NEW i \in 1 .. n
        PROVE  c[i] = s[i] % 256 /\ c[i] \in Octet /\ c[i] \in Nat
    <3>1. c[i] = s[i] % 256
      BY ONLY <1>2, i \in 1 .. n
    <3> QED
      <4>1. c[i] \in Octet
        BY ONLY <1>3, <3>1, i \in 1 .. n
      <4> QED
        BY ONLY <2>1, <3>1, <4>1
  <2>3. DOMAIN c = 1 .. n /\ c = [i \in DOMAIN c |-> c[i]]
    BY ONLY <1>2
  <2>4. c \in [1 .. n -> Nat]
    BY ONLY <2>2, <2>3
  <2> QED
    BY <2>2, <2>4
<1>5. c \in Seq(Nat)
  BY <1>1, <1>4, SeqDef
<1>6. Len(c) = n
  BY <1>1, <1>4, <1>5, LenProperties
<1> QED
  BY <1>4, <1>5, <1>6 DEF c, n

\* Adding up in a byte what fits a byte of each number gives what fits a byte of
\* their sum.
LEMMA CutSum ==
  ASSUME NEW s \in Seq(Nat)
  PROVE  ByteSum(Cut(s)) = WideSum(s) % 256
<1> DEFINE n == Len(s)
           c == Cut(s)
           f == Sums(c)
<1>1. PICK g : Widens(g, s, n) /\ WideSum(s) = g[n]
  BY WideRun
<1>2. c \in Seq(Nat) /\ Len(c) = n /\ \A i \in 1 .. n : c[i] = s[i] % 256
  BY CutType
<1>3. n \in Nat /\ \A i \in 1 .. n : s[i] \in Nat
  OBVIOUS
<1> HIDE DEF n, c, f
<1>4. Runs(f, c, n)
  BY <1>2, SumsRun DEF f
<1> DEFINE T == {i \in Nat : i <= n => f[i] = g[i] % 256}
<1>5. 0 \in T
  <2>1. f[0] = 0 /\ g[0] = 0
    BY <1>1, <1>4 DEF Runs, Widens
  <2>2. 0 % 256 = 0
    OBVIOUS
  <2> QED
    BY <2>1, <2>2
<1>6. ASSUME NEW i \in Nat, i \in T PROVE i + 1 \in T
  <2> SUFFICES ASSUME i + 1 <= n PROVE f[i + 1] = g[i + 1] % 256
    OBVIOUS
  <2>1. f[i] = g[i] % 256
    BY <1>3, <1>6
  <2> HIDE DEF T
  <2>2. i \in 0 .. n /\ i + 1 \in 1 .. n /\ (i + 1) - 1 = i
    BY <1>3
  <2>3. f[i + 1] = Add(f[i], c[i + 1]) /\ g[i + 1] = s[i + 1] + g[i] /\ g[i] \in Nat
    BY <1>1, <1>4, <2>2 DEF Runs, Widens
  <2>4. c[i + 1] = s[i + 1] % 256 /\ s[i + 1] \in Nat
    BY <1>2, <1>3, <2>2
  <2>5. PICK x \in Nat : x = g[i]
    BY <2>3
  <2>6. PICK b \in Nat : b = s[i + 1]
    BY <2>4
  <2>7. (b + x) % 256 = Add(x % 256, b % 256)
    BY ONLY AddWide, x \in Nat, b \in Nat
  <2> QED
    BY ONLY <2>1, <2>3, <2>4, <2>5, <2>6, <2>7
<1>7. n \in T
  <2> HIDE DEF T
  <2> QED
    BY <1>3, <1>5, <1>6, Induction
<1>8. f[n] = g[n] % 256
  BY <1>3, <1>7
<1> QED
  BY <1>1, <1>2, <1>8 DEF ByteSum, f, c

\* What fits a byte.
Low(k) == k % 256

LEMMA CutLow ==
  ASSUME NEW s \in Seq(Nat), NEW n \in Nat, n = Len(s)
  PROVE  /\ Cut(s) \in Seq(Nat) /\ Len(Cut(s)) = n
         /\ \A i \in 1 .. n : Cut(s)[i] = Low(s[i]) /\ Cut(s)[i] \in Octet
BY CutType DEF Low

LEMMA ConcatIs ==
  ASSUME NEW s \in Seq(Nat), NEW t \in Seq(Nat), NEW n \in Nat, NEW k \in Nat,
         n = Len(s), k = Len(t)
  PROVE  /\ s \o t \in Seq(Nat) /\ Len(s \o t) = n + k
         /\ \A i \in 1 .. n : (s \o t)[i] = s[i]
         /\ \A i \in 1 .. k : (s \o t)[i + n] = t[i]
BY ConcatAt

LEMMA CutConcat ==
  ASSUME NEW s \in Seq(Nat), NEW t \in Seq(Nat)
  PROVE  Cut(s) \o Cut(t) = Cut(s \o t)
<1>1. PICK a \in Seq(Nat) : a = Cut(s)
  BY CutLow
<1>2. PICK b \in Seq(Nat) : b = Cut(t)
  BY CutLow
<1>3. PICK w \in Seq(Nat) : w = s \o t
  BY ConcatAt
<1>4. PICK c \in Seq(Nat) : c = Cut(w)
  BY CutLow
<1>5. PICK u \in Seq(Nat) : u = a \o b
  BY ConcatAt
<1>6. PICK n \in Nat : n = Len(s)
  OBVIOUS
<1>7. PICK k \in Nat : k = Len(t)
  OBVIOUS
<1>8. Len(a) = n /\ \A i \in 1 .. n : a[i] = Low(s[i])
  BY ONLY n \in Nat, s \in Seq(Nat), <1>1, <1>6, CutLow
<1>9. Len(b) = k /\ \A i \in 1 .. k : b[i] = Low(t[i])
  BY ONLY k \in Nat, t \in Seq(Nat), <1>2, <1>7, CutLow
<1>10. Len(w) = n + k /\ (\A i \in 1 .. n : w[i] = s[i])
       /\ \A i \in 1 .. k : w[i + n] = t[i]
  BY ONLY n \in Nat, k \in Nat, s \in Seq(Nat), t \in Seq(Nat), <1>3, <1>6, <1>7, ConcatIs
<1>11. Len(c) = n + k /\ \A i \in 1 .. n + k : c[i] = Low(w[i])
  <2>1. n + k \in Nat
    BY ONLY n \in Nat, k \in Nat
  <2> QED
    BY ONLY SMTT(30), w \in Seq(Nat), <1>4, <1>10, <2>1, CutLow
<1>12. Len(u) = n + k /\ (\A i \in 1 .. n : u[i] = a[i])
       /\ \A i \in 1 .. k : u[i + n] = b[i]
  <2>1. n = Len(a) /\ k = Len(b)
    BY ONLY <1>8, <1>9
  <2> QED
    BY ONLY n \in Nat, k \in Nat, a \in Seq(Nat), b \in Seq(Nat), <1>5, <2>1, ConcatIs
<1>13. ASSUME NEW i \in 1 .. n + k PROVE u[i] = c[i]
  <2>1. CASE i <= n
    <3>1. i \in 1 .. n
      BY ONLY <2>1, i \in 1 .. n + k, n \in Nat, k \in Nat
    <3> QED
      BY ONLY <1>8, <1>10, <1>11, <1>12, <3>1, i \in 1 .. n + k
  <2>2. CASE i > n
    <3>1. PICK j \in 1 .. k : j + n = i
      <4>1. i - n \in 1 .. k /\ (i - n) + n = i
        BY ONLY <2>2, i \in 1 .. n + k, n \in Nat, k \in Nat
      <4> QED
        BY ONLY <4>1
    <3>2. u[i] = b[j] /\ w[i] = t[j] /\ b[j] = Low(t[j]) /\ c[i] = Low(w[i])
      BY ONLY <1>9, <1>10, <1>11, <1>12, <3>1, i \in 1 .. n + k
    <3> QED
      BY ONLY <3>2
  <2> QED
    BY ONLY <2>1, <2>2, i \in 1 .. n + k, n \in Nat, k \in Nat
<1>14. u = c
  BY ONLY <1>11, <1>12, <1>13, u \in Seq(Nat), c \in Seq(Nat), SeqEqual
<1> QED
  BY ONLY <1>1, <1>2, <1>3, <1>4, <1>5, <1>14

LEMMA FirstFive ==
  ASSUME NEW s \in Seq(Nat), Len(s) = 7
  PROVE  /\ SubSeq(s, 1, 5) \in Seq(Nat) /\ Len(SubSeq(s, 1, 5)) = 5
         /\ \A i \in 1 .. 5 : SubSeq(s, 1, 5)[i] = s[i]
<1>1. 1 \in Int /\ 5 \in Int /\ \A i \in 1 .. 5 : s[i] \in Nat
  <2>1. \A i \in 1 .. 5 : i \in 1 .. Len(s)
    BY ONLY Len(s) = 7
  <2>2. \A i \in 1 .. 5 : s[i] \in Nat
    BY ONLY <2>1, s \in Seq(Nat), ElementOfSeq
  <2> QED
    BY <2>2
<1>2. PICK w : w = SubSeq(s, 1, 5)
  OBVIOUS
<1>3. /\ w \in Seq(Nat) /\ Len(w) = IF 1 <= 5 THEN 5 - 1 + 1 ELSE 0
      /\ \A i \in 1 .. 5 - 1 + 1 : w[i] = s[1 + i - 1]
  BY ONLY <1>1, <1>2, SubSeqProperties
<1>4. Len(w) = 5
  BY ONLY <1>3
<1>5. ASSUME NEW i \in 1 .. 5 PROVE w[i] = s[i]
  <2>1. i \in 1 .. 5 - 1 + 1 /\ 1 + i - 1 = i
    BY ONLY i \in 1 .. 5
  <2> QED
    BY ONLY <1>3, <2>1
<1> QED
  BY ONLY <1>2, <1>3, <1>4, <1>5

LEMMA CutFront ==
  ASSUME NEW s \in Seq(Nat), Len(s) = 7
  PROVE  SubSeq(Cut(s), 1, 5) = Cut(SubSeq(s, 1, 5))
<1>1. PICK n \in Seq(Nat) : n = Cut(s)
  BY CutLow
<1>2. Len(n) = 7 /\ \A i \in 1 .. 7 : n[i] = Low(s[i])
  <2>1. PICK k \in Nat : k = 7
    OBVIOUS
  <2>2. k = Len(s)
    BY ONLY <2>1, Len(s) = 7
  <2>3. Len(n) = k /\ \A i \in 1 .. k : n[i] = Low(s[i])
    BY ONLY k \in Nat, <1>1, <2>2, s \in Seq(Nat), CutLow
  <2> QED
    BY ONLY <2>1, <2>3
<1>3. PICK h \in Seq(Nat) : h = SubSeq(n, 1, 5)
  BY ONLY <1>2, n \in Seq(Nat), FirstFive
<1>4. Len(h) = 5 /\ \A i \in 1 .. 5 : h[i] = n[i]
  BY ONLY <1>2, <1>3, n \in Seq(Nat), FirstFive
<1>5. PICK w \in Seq(Nat) : w = SubSeq(s, 1, 5)
  BY ONLY s \in Seq(Nat), Len(s) = 7, FirstFive
<1>6. Len(w) = 5 /\ \A i \in 1 .. 5 : w[i] = s[i]
  BY ONLY <1>5, s \in Seq(Nat), Len(s) = 7, FirstFive
<1>7. PICK c \in Seq(Nat) : c = Cut(w)
  BY CutLow
<1>8. Len(c) = 5 /\ \A i \in 1 .. 5 : c[i] = Low(w[i])
  <2>1. PICK k \in Nat : k = 5
    OBVIOUS
  <2>2. k = Len(w)
    BY ONLY <1>6, <2>1
  <2>3. Len(c) = k /\ \A i \in 1 .. k : c[i] = Low(w[i])
    BY ONLY <1>7, <2>2, k \in Nat, w \in Seq(Nat), CutLow
  <2> QED
    BY ONLY <2>1, <2>3
<1>9. \A i \in 1 .. 5 : i \in 1 .. 7
  OBVIOUS
<1>10. \A i \in 1 .. 5 : h[i] = c[i]
  BY ONLY ZenonT(40), <1>2, <1>4, <1>6, <1>8, <1>9
<1>11. h = c
  BY ONLY <1>4, <1>8, <1>10, h \in Seq(Nat), c \in Seq(Nat), SeqEqual
<1> QED
  BY ONLY <1>1, <1>3, <1>5, <1>7, <1>11

LEMMA Rejoined ==
  ASSUME NEW n \in Seq(Nat), Len(n) = 7, NEW d \in Seq(Nat)
  PROVE  SubSeq(n, 1, 5) \o (SubSeq(n, 6, 7) \o d) = n \o d
<1>1. PICK h \in Seq(Nat) : h = SubSeq(n, 1, 5)
  BY FirstFive
<1>2. PICK a \in Seq(Nat) : a = SubSeq(n, 6, 7)
  <2>1. 6 \in Int /\ 7 \in Int /\ \A i \in 6 .. 7 : n[i] \in Nat
    <3>1. \A i \in 6 .. 7 : i \in 1 .. Len(n)
      BY ONLY Len(n) = 7
    <3>2. \A i \in 6 .. 7 : n[i] \in Nat
      BY ONLY <3>1, n \in Seq(Nat), ElementOfSeq
    <3> QED
      BY <3>2
  <2> QED
    BY ONLY <2>1, SubSeqProperties
<1>3. h \o a = n
  <2>1. 1 \in 1 .. Len(n) + 1 /\ 5 \in 1 - 1 .. Len(n) /\ 7 \in 5 .. Len(n) /\ 5 + 1 = 6
    BY ONLY Len(n) = 7
  <2>2. SubSeq(n, 1, 5) \o SubSeq(n, 5 + 1, 7) = SubSeq(n, 1, 7)
    BY ONLY <2>1, n \in Seq(Nat), ConcatAdjacentSubSeq
  <2>3. SubSeq(n, 1, 7) = n
    BY ONLY Len(n) = 7, n \in Seq(Nat), SubSeqFull
  <2> QED
    BY ONLY <1>1, <1>2, <2>1, <2>2, <2>3
<1>4. (h \o a) \o d = h \o (a \o d)
  BY ONLY SMTT(30), h \in Seq(Nat), a \in Seq(Nat), d \in Seq(Nat)
<1> QED
  BY ONLY <1>1, <1>2, <1>3, <1>4

\* The bytes of a frame before its checksum are the numbers asked for, cut down.
LEMMA CutAsked ==
  ASSUME NEW m \in Message
  PROVE  LET n == Cut(m.numbers)
             header == SubSeq(n, 1, 5)
         IN  /\ Asked(m) \in Seq(Nat)
             /\ header \o Body(header, SubSeq(n, 6, 7), Cut(m.list)) = Cut(Asked(m))
<1>1. PICK s : s = m.numbers
  OBVIOUS
<1>2. PICK list \in Seq(Nat) : list = m.list
  BY DEF Message
<1>3. s \in [1 .. 7 -> Nat]
  BY <1>1 DEF Message, Numbers
<1>4. s \in Seq(Nat) /\ Len(s) = 7
  <2>1. s \in Seq(Nat)
    <3>1. 7 \in Nat
      OBVIOUS
    <3>2. s \in UNION {[1 .. n -> Nat] : n \in Nat}
      BY ONLY <1>3, <3>1
    <3> QED
      BY ONLY <3>2, SeqDef
  <2> QED
    BY <1>3, <2>1, LenProperties
<1>5. PICK n \in Seq(Nat) : n = Cut(s)
  BY <1>4, CutLow
<1>6. Len(n) = 7 /\ n[5] = Low(s[5]) /\ n[5] \in Octet
  <2>1. 5 \in 1 .. 7
    OBVIOUS
  <2> QED
    BY ONLY SMTT(30), 7 \in Nat, <1>4, <1>5, <2>1, CutLow
<1>7. PICK data \in Seq(Nat) : data = Cut(list)
  BY CutLow
<1>8. PICK header \in Seq(Nat) : header = SubSeq(n, 1, 5)
  BY <1>6, FirstFive
<1>9. header[5] = n[5]
  <2>1. 5 \in 1 .. 5
    OBVIOUS
  <2> QED
    BY ONLY <1>6, <1>8, <2>1, n \in Seq(Nat), FirstFive
<1>10. PICK address : address = SubSeq(n, 6, 7)
  OBVIOUS
<1>11. PICK whole : whole = Asked(m)
  OBVIOUS
<1>12. whole = IF Low(s[5]) = 0 THEN SubSeq(s, 1, 5) ELSE s \o list
  BY ONLY <1>1, <1>2, <1>11 DEF Asked, Low
<1>13. whole \in Seq(Nat) /\ header \o Body(header, address, data) = Cut(whole)
  <2>1. CASE n[5] = 0
    <3>1. Body(header, address, data) = <<>>
      <4>1. ~ (0 > 0)
        OBVIOUS
      <4> QED
        BY ONLY <1>9, <2>1, <4>1 DEF Body
    <3>2. header \o <<>> = header
      BY ONLY header \in Seq(Nat), ConcatEmptySeq
    <3>3. whole = SubSeq(s, 1, 5)
      BY ONLY <1>6, <1>12, <2>1
    <3>4. whole \in Seq(Nat)
      BY ONLY <1>4, <3>3, FirstFive
    <3>5. header = Cut(whole)
      BY ONLY <1>4, <1>5, <1>8, <3>3, CutFront
    <3> QED
      BY ONLY <3>1, <3>2, <3>4, <3>5
  <2>2. CASE n[5] # 0
    <3>1. Body(header, address, data) = address \o data
      <4>1. n[5] > 0
        <5>1. PICK k \in Octet : k = n[5]
          BY <1>6
        <5>2. k # 0 => k > 0
          BY ONLY k \in Octet DEF Octet
        <5> QED
          BY ONLY <2>2, <5>1, <5>2
      <4> QED
        BY ONLY <1>9, <4>1 DEF Body
    <3>2. header \o (address \o data) = n \o data
      BY ONLY <1>6, <1>8, <1>10, n \in Seq(Nat), data \in Seq(Nat), Rejoined
    <3>3. whole = s \o list
      BY ONLY <1>6, <1>12, <2>2
    <3>4. whole \in Seq(Nat)
      BY ONLY <1>4, <3>3, list \in Seq(Nat), ConcatIs
    <3>5. n \o data = Cut(whole)
      BY ONLY <1>4, <1>5, <1>7, <3>3, list \in Seq(Nat), CutConcat
    <3> QED
      BY ONLY <3>1, <3>2, <3>4, <3>5
  <2> QED
    BY ONLY <2>1, <2>2
<1> QED
  BY ONLY <1>1, <1>2, <1>5, <1>7, <1>8, <1>10, <1>11, <1>13

\* RequestPacket and ParseMqttMessage, for any message: numbers that do not fit a
\* byte, lists of any length, whether that is the announced one or not.  What a
\* message becomes is nothing, or the frame that it asks for.
THEOREM FramesAsAsked ==
  \A m \in Message : MakePacket(m) # <<>> => Asks(m, MakePacket(m))
<1> SUFFICES ASSUME NEW m \in Message, MakePacket(m) # <<>>
             PROVE  Asks(m, MakePacket(m))
  OBVIOUS
<1>1. m.shape = "object"
  <2>1. m.shape \in Shapes
    BY DEF Message
  <2>2. m.shape # "object" => MakePacket(m) = <<>>
    BY <2>1 DEF Shapes, MakePacket, ParseMqttMessage, kSuccessParse, kFailParsePayload,
                kFailIsNotObject
  <2> QED
    BY <2>2
<1>2. PICK bytes : bytes = LET n == Cut(m.numbers)
                               header == SubSeq(n, 1, 5)
                           IN  header \o Body(header, SubSeq(n, 6, 7), Cut(m.list))
  OBVIOUS
<1>3. PICK frame : frame = MakePacket(m)
  OBVIOUS
<1>4. frame = bytes \o <<ByteSum(bytes), kEnd>>
  BY ONLY <1>1, <1>2, <1>3 DEF MakePacket, ParseMqttMessage, Packet, CalculateChecksum,
                               kSuccessParse
<1>5. PICK whole \in Seq(Nat) : whole = Asked(m)
  BY CutAsked
<1>6. bytes = Cut(whole)
  BY ONLY <1>2, <1>5, m \in Message, CutAsked
<1>7. PICK n \in Nat : n = Len(whole)
  OBVIOUS
<1>8. bytes \in Seq(Nat) /\ Len(bytes) = n /\ \A i \in 1 .. n : bytes[i] = Low(whole[i])
  BY ONLY n \in Nat, <1>6, <1>7, whole \in Seq(Nat), CutLow
<1>9. ByteSum(bytes) = WideSum(whole) % 256
  BY ONLY <1>6, whole \in Seq(Nat), CutSum
<1>10. PICK c \in Nat : c = ByteSum(bytes)
  <2>1. ByteSum(bytes) \in Octet
    BY ONLY <1>8, ByteSumType
  <2>2. \A k \in Octet : k \in Nat
    BY DEF Octet
  <2> QED
    BY ONLY <2>1, <2>2
<1>11. PICK t : t = <<c, 13>>
  OBVIOUS
<1>12. t \in Seq(Nat) /\ Len(t) = 2 /\ t[1] = c /\ t[2] = 13
  BY ONLY <1>11, c \in Nat
<1>13. frame = bytes \o t
  BY ONLY <1>4, <1>10, <1>11 DEF kEnd
<1>14. /\ Len(frame) = n + 2
       /\ \A i \in 1 .. n : frame[i] = bytes[i]
       /\ \A i \in 1 .. 2 : frame[i + n] = t[i]
  <2>1. PICK k \in Nat : k = 2
    OBVIOUS
  <2>2. n = Len(bytes) /\ k = Len(t)
    BY ONLY <1>8, <1>12, <2>1
  <2>3. bytes \in Seq(Nat) /\ t \in Seq(Nat)
    BY ONLY <1>8, <1>12
  <2>4. Len(frame) = n + k /\ (\A i \in 1 .. n : frame[i] = bytes[i])
        /\ \A i \in 1 .. k : frame[i + n] = t[i]
    BY ONLY n \in Nat, k \in Nat, <1>13, <2>2, <2>3, ConcatIs
  <2> QED
    BY ONLY <2>1, <2>4
<1>15. 1 + n = n + 1 /\ 2 + n = n + 2 /\ 1 \in 1 .. 2 /\ 2 \in 1 .. 2
  BY ONLY n \in Nat
<1>16. frame[n + 1] = WideSum(whole) % 256 /\ frame[n + 2] = 13
  BY ONLY <1>9, <1>10, <1>12, <1>14, <1>15
<1>17. \A i \in 1 .. n : frame[i] = whole[i] % 256
  BY ONLY <1>8, <1>14 DEF Low
<1>18. DOMAIN whole = 1 .. n
  BY ONLY whole \in Seq(Nat), <1>7, LenProperties
<1> QED
  BY ONLY <1>1, <1>3, <1>5, <1>7, <1>14, <1>16, <1>17, <1>18 DEF Asks

=============================================================================
