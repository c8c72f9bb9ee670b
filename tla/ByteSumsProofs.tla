---------------------------- MODULE ByteSumsProofs ----------------------------
(* What the checksum does, for packets of any length.                      *)
EXTENDS ByteSums, WellFoundedInduction, TLAPS

\* Induction over the naturals, for a set: the least natural that is missing
\* has a predecessor that is missing.
LEMMA Induction ==
  ASSUME NEW T, 0 \in T, \A n \in Nat : n \in T => n + 1 \in T
  PROVE  \A n \in Nat : n \in T
<1> DEFINE Missing == Nat \ T
<1> SUFFICES ASSUME Missing # {} PROVE FALSE
  OBVIOUS
<1>1. PICK m \in Missing : \A k \in Missing : <<k, m>> \notin OpToRel(<, Nat)
  BY WFMin, NatLessThanWellFounded, Zenon
<1>2. m \in Nat /\ m # 0 /\ m - 1 \in Nat
  OBVIOUS
<1>3. m - 1 \in Missing
  BY <1>2
<1>4. <<m - 1, m>> \in OpToRel(<, Nat)
  BY <1>2 DEF OpToRel
<1> QED
  BY <1>1, <1>3, <1>4

-----------------------------------------------------------------------------
(* Additions of a uint8_t.                                                 *)

Octet == 0 .. 255

LEMMA AddType ==
  ASSUME NEW x \in Octet, NEW b \in Nat
  PROVE  Add(x, b) \in Octet
BY DEF Add, Octet

LEMMA AddCase ==
  ASSUME NEW x \in Octet, NEW b \in Octet
  PROVE  Add(x, b) = IF x + b > 255 THEN x + b - 256 ELSE x + b
BY DEF Add, Octet

\* What is added counts by what fits a byte.
LEMMA AddCut ==
  ASSUME NEW x \in Octet, NEW b \in Nat
  PROVE  b % 256 \in Octet /\ Add(x, b) = Add(x, b % 256)
<1>1. b % 256 \in Octet /\ (x + b) % 256 = (x + (b % 256)) % 256
  BY DEF Octet
<1> QED
  BY <1>1 DEF Add

\* A wide sum cut down to a byte is the sum of the bytes.
LEMMA AddWide ==
  ASSUME NEW x \in Nat, NEW b \in Nat
  PROVE  (b + x) % 256 = Add(x % 256, b % 256)
<1>1. (b + x) % 256 = ((x % 256) + (b % 256)) % 256
  OBVIOUS
<1> QED
  BY <1>1 DEF Add

\* Different bytes leave different sums.
LEMMA AddOther ==
  ASSUME NEW x \in Octet, NEW a \in Octet, NEW b \in Octet, a # b
  PROVE  Add(x, a) # Add(x, b)
<1>1. Add(x, a) = IF x + a > 255 THEN x + a - 256 ELSE x + a
  BY AddCase
<1>2. Add(x, b) = IF x + b > 255 THEN x + b - 256 ELSE x + b
  BY AddCase
<1> QED
  BY <1>1, <1>2 DEF Octet

\* So do different sums before the same byte.
LEMMA AddSame ==
  ASSUME NEW x \in Octet, NEW y \in Octet, NEW b \in Nat, x # y
  PROVE  Add(x, b) # Add(y, b)
<1> DEFINE c == b % 256
<1>1. c \in Octet /\ Add(x, b) = Add(x, c) /\ Add(y, b) = Add(y, c)
  <2>1. b % 256 \in Octet /\ Add(x, b) = Add(x, b % 256)
    BY ONLY AddCut, x \in Octet, b \in Nat
  <2>2. Add(y, b) = Add(y, b % 256)
    BY ONLY AddCut, y \in Octet, b \in Nat
  <2> QED
    BY <2>1, <2>2
<1> HIDE DEF c
<1>2. Add(x, c) = IF x + c > 255 THEN x + c - 256 ELSE x + c
  BY <1>1, AddCase
<1>3. Add(y, c) = IF y + c > 255 THEN y + c - 256 ELSE y + c
  BY <1>1, AddCase
<1> QED
  BY <1>1, <1>2, <1>3 DEF Octet

-----------------------------------------------------------------------------
(* The loop.                                                               *)

\* The values the uint8_t goes through in n steps.
Runs(f, bytes, n) ==
  /\ f \in [0 .. n -> Octet]
  /\ f[0] = 0
  /\ \A i \in 1 .. n : f[i] = Add(f[i - 1], bytes[i])

LEMMA RunExists ==
  ASSUME NEW bytes \in Seq(Nat)
  PROVE  \E f : Runs(f, bytes, Len(bytes))
<1> DEFINE T == {n \in Nat : n <= Len(bytes) => \E f : Runs(f, bytes, n)}
<1>1. 0 \in T
  <2>1. Runs([i \in 0 .. 0 |-> 0], bytes, 0)
    BY DEF Runs, Octet
  <2> QED
    BY <2>1
<1>2. ASSUME NEW n \in Nat, n \in T PROVE n + 1 \in T
  <2> SUFFICES ASSUME n + 1 <= Len(bytes) PROVE \E f : Runs(f, bytes, n + 1)
    OBVIOUS
  <2>1. PICK f : Runs(f, bytes, n)
    BY <1>2
  <2> DEFINE last == Add(f[n], bytes[n + 1])
             g == [i \in 0 .. n + 1 |-> IF i <= n THEN f[i] ELSE last]
  <2>2. f[n] \in Octet /\ bytes[n + 1] \in Nat
    <3>1. n \in 0 .. n /\ n + 1 \in 1 .. Len(bytes)
      OBVIOUS
    <3>2. f[n] \in Octet
      BY <2>1, <3>1 DEF Runs
    <3>3. bytes[n + 1] \in Nat
      BY <3>1
    <3> QED
      BY <3>2, <3>3
  <2>3. last \in Octet
    BY <2>2, AddType
  <2> HIDE DEF last
  <2>4. g \in [0 .. n + 1 -> Octet] /\ g[0] = 0
    BY <2>1, <2>3 DEF Runs
  <2>5. \A i \in 1 .. n + 1 : g[i] = Add(g[i - 1], bytes[i])
    <3> TAKE i \in 1 .. n + 1
    <3>1. CASE i <= n
      BY <2>1, <3>1 DEF Runs
    <3>2. CASE i = n + 1
      BY <3>2 DEF last
    <3> QED
      BY <3>1, <3>2
  <2> QED
    BY <2>4, <2>5 DEF Runs
<1>3. \A n \in Nat : n \in T
  <2> HIDE DEF T
  <2> QED
    BY <1>1, <1>2, Induction
<1> QED
  BY <1>3

\* Sums is that run.
LEMMA SumsRun ==
  ASSUME NEW bytes \in Seq(Nat)
  PROVE  Runs(Sums(bytes), bytes, Len(bytes))
<1> DEFINE n == Len(bytes)
           Step(f) == [i \in 0 .. n |-> IF i = 0 THEN 0 ELSE Add(f[i - 1], bytes[i])]
           sums == Sums(bytes)
<1>1. PICK f : Runs(f, bytes, n)
  BY RunExists
<1>2. f = Step(f)
  BY <1>1 DEF Runs
<1>3. sums = CHOOSE g : g = Step(g)
  BY DEF Sums
<1>4. sums = Step(sums)
  <2> HIDE DEF Step, sums
  <2> QED
    BY <1>2, <1>3
<1>5. n \in Nat /\ \A i \in 1 .. n : bytes[i] \in Nat
  OBVIOUS
<1> HIDE DEF n, sums
<1>6. DOMAIN sums = 0 .. n /\ sums[0] = 0
      /\ \A i \in 1 .. n : sums[i] = Add(sums[i - 1], bytes[i])
  <2>1. sums = [i \in 0 .. n |-> IF i = 0 THEN 0 ELSE Add(sums[i - 1], bytes[i])]
    BY <1>4
  <2>2. DOMAIN sums = 0 .. n /\ sums[0] = 0
    BY <1>5, <2>1
  <2>3. ASSUME NEW i \in 1 .. n PROVE sums[i] = Add(sums[i - 1], bytes[i])
    BY <1>5, <2>1
  <2> QED
    BY <2>2, <2>3
<1> DEFINE T == {i \in Nat : i <= n => sums[i] \in Octet}
<1>7. 0 \in T
  BY <1>6 DEF Octet
<1>8. ASSUME NEW i \in Nat, i \in T PROVE i + 1 \in T
  <2> SUFFICES ASSUME i + 1 <= n PROVE sums[i + 1] \in Octet
    OBVIOUS
  <2>1. sums[i] \in Octet /\ bytes[i + 1] \in Nat
    <3>1. sums[i] \in Octet /\ i + 1 \in 1 .. n
      BY <1>5, <1>8
    <3>2. bytes[i + 1] \in Nat
      BY <1>5, <3>1
    <3> QED
      BY <3>1, <3>2
  <2>2. sums[i + 1] = Add(sums[i], bytes[i + 1])
    BY <1>5, <1>6
  <2> QED
    BY <2>1, <2>2, AddType
<1>9. \A i \in 0 .. n : sums[i] \in Octet
  <2>1. \A i \in Nat : i \in T
    <3> HIDE DEF T
    <3> QED
      BY <1>7, <1>8, Induction
  <2> QED
    BY <1>5, <2>1
<1>10. sums \in [0 .. n -> Octet]
  BY <1>4, <1>9
<1> QED
  BY <1>6, <1>10 DEF Runs, sums, n

\* A checksum is a byte.
LEMMA ByteSumType ==
  ASSUME NEW bytes \in Seq(Nat)
  PROVE  ByteSum(bytes) \in Octet
<1>1. Len(bytes) \in 0 .. Len(bytes)
  <2>1. Len(bytes) \in Nat
    OBVIOUS
  <2> QED
    BY ONLY <2>1
<1> QED
  BY <1>1, SumsRun DEF Runs, ByteSum

\* One byte that changes changes the checksum, wherever it is.
THEOREM OneByteShows ==
  ASSUME NEW s \in Seq(Nat), NEW t \in Seq(Nat), Len(s) = Len(t),
         NEW k \in 1 .. Len(s), s[k] \in Octet, t[k] \in Octet, s[k] # t[k],
         \A i \in 1 .. Len(s) : i # k => s[i] = t[i]
  PROVE  ByteSum(s) # ByteSum(t)
<1> DEFINE n == Len(s)
           f == Sums(s)
           g == Sums(t)
           T == {i \in Nat : i <= n => (f[i] = g[i] <=> i < k)}
<1>1. n \in Nat /\ k \in 1 .. n
  OBVIOUS
<1>2. \A i \in 1 .. n : s[i] \in Nat /\ t[i] \in Nat
  BY SMTT(30)
<1> HIDE DEF n, f, g
<1>3. Runs(f, s, n) /\ Runs(g, t, n)
  BY SumsRun DEF f, g, n
<1>4. f[0] = 0 /\ g[0] = 0 /\ \A i \in 0 .. n : f[i] \in Octet /\ g[i] \in Octet
  BY <1>1, <1>3 DEF Runs
<1>5. \A i \in 1 .. n : f[i] = Add(f[i - 1], s[i]) /\ g[i] = Add(g[i - 1], t[i])
  BY <1>3 DEF Runs
<1>6. 0 \in T
  BY <1>1, <1>4
<1>7. ASSUME NEW i \in Nat, i \in T PROVE i + 1 \in T
  <2> SUFFICES ASSUME i + 1 <= n PROVE f[i + 1] = g[i + 1] <=> i + 1 < k
    OBVIOUS
  <2> HIDE DEF T
  <2>1. f[i] = g[i] <=> i < k
    BY <1>7, <1>1 DEF T
  <2>2. f[i + 1] = Add(f[i], s[i + 1]) /\ g[i + 1] = Add(g[i], t[i + 1])
    BY SMTT(30), <1>1, <1>5
  <2>3. f[i] \in Octet /\ g[i] \in Octet /\ s[i + 1] \in Nat /\ t[i + 1] \in Nat
    BY SMTT(30), <1>1, <1>2, <1>4
  <2>4. i + 1 # k => s[i + 1] = t[i + 1]
    BY SMTT(30), <1>1 DEF n
  <2>5. CASE i + 1 < k
    BY <2>1, <2>2, <2>4, <2>5, <1>1
  <2>6. CASE i + 1 = k
    <3>1. Add(f[i], s[k]) # Add(f[i], t[k])
      BY <2>3, AddOther, <1>1 DEF n
    <3> QED
      BY SMTT(30), <2>1, <2>2, <2>6, <3>1, <1>1
  <2>7. CASE i + 1 > k
    <3>1. f[i] # g[i]
      BY <2>1, <2>7, <1>1
    <3>2. Add(f[i], s[i + 1]) # Add(g[i], s[i + 1])
      BY <2>3, <3>1, AddSame
    <3> QED
      BY <2>2, <2>4, <2>7, <3>2, <1>1
  <2> QED
    BY <2>5, <2>6, <2>7, <1>1
<1>8. n \in T
  <2> HIDE DEF T
  <2> QED
    BY <1>1, <1>6, <1>7, Induction
<1>9. f[n] # g[n]
  BY <1>1, <1>8
<1> QED
  BY <1>9 DEF ByteSum, f, g, n

=============================================================================
