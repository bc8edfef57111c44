---------------------------- MODULE Framing_proofs ----------------------------
(* Proofs about Framing, for any sockets, messages, delimiter and lengths.    *)
EXTENDS Framing, SequenceTheorems, WellFoundedInduction, TLAPS

------------------------------------------------------------------------------
(* Induction over numbers, as the absence of a least counterexample.          *)

\* A non-empty set of numbers has a smallest one.
LEMMA LeastNumber ==
  ASSUME NEW S \in SUBSET Nat, S # {}
  PROVE  \E n \in S : \A m \in S : n <= m
<1> DEFINE below == {p \in Nat \X Nat : p[1] < p[2]}
<1>1. IsWellFoundedOn(below, Nat)
  <2>1. below = OpToRel(<, Nat)
    BY DEF OpToRel
  <2> QED
    BY <2>1, NatLessThanWellFounded
<1>2. PICK n \in S : \A m \in S : <<m, n>> \notin below
  <2> HIDE DEF below
  <2> QED
    BY <1>1, WFMin
<1>3. ASSUME NEW m \in S
      PROVE  n <= m
  <2>1. <<m, n>> \notin below /\ m \in Nat /\ n \in Nat
    BY <1>2
  <2> QED
    BY <2>1
<1> QED
  BY <1>2, <1>3

\* A set that has 0 and with a number the next one has every number.
LEMMA Induction ==
  ASSUME NEW S, 0 \in S, \A k \in Nat : k \in S => k + 1 \in S
  PROVE  Nat \subseteq S
<1> DEFINE missing == Nat \ S
<1> SUFFICES ASSUME missing # {} PROVE FALSE
  OBVIOUS
<1>1. PICK k \in missing : \A m \in missing : k <= m
  <2>1. missing \in SUBSET Nat
    OBVIOUS
  <2> HIDE DEF missing
  <2> QED
    BY <2>1, LeastNumber
<1>2. k - 1 \in Nat /\ k - 1 \notin missing
  BY <1>1
<1>3. k - 1 + 1 \in S
  BY <1>2
<1> QED
  BY <1>1, <1>3

\* The same for the numbers from 0 to n.
LEMMA InductionTo ==
  ASSUME NEW n \in Nat, NEW S, 0 \in S, \A k \in 1..n : k - 1 \in S => k \in S
  PROVE  0..n \subseteq S
<1> DEFINE T == {k \in Nat : k <= n => k \in S}
<1>1. ASSUME NEW k \in Nat, k \in T
      PROVE  k + 1 \in T
  <2>1. k + 1 <= n => k + 1 \in 1..n /\ k + 1 - 1 = k
    OBVIOUS
  <2> QED
    BY <1>1, <2>1
<1>2. 0 \in T
  OBVIOUS
<1>3. Nat \subseteq T
  <2> HIDE DEF T
  <2> QED
    BY <1>1, <1>2, Induction
<1> QED
  BY <1>3

\* f starts at a, and next tells each of its values from the one before.
Follows(f, n, V, a, next) ==
    /\ f \in [0..n -> V]
    /\ f[0] = a
    /\ \A i \in 1..n : f[i] = next[<<i, f[i - 1]>>]

LEMMA Recursion ==
  ASSUME NEW n \in Nat, NEW V, NEW a \in V, NEW next \in [(1..n) \X V -> V]
  PROVE  \E f : Follows(f, n, V, a, next)
<1> DEFINE Upto(f, k) == f[0] = a /\ \A i \in 1..k : f[i] = next[<<i, f[i - 1]>>]
<1> DEFINE S == {k \in 0..n : \E f \in [0..n -> V] : Upto(f, k)}
<1>1. 0 \in S
  <2> DEFINE f == [i \in 0..n |-> a]
  <2>1. f \in [0..n -> V] /\ Upto(f, 0)
    OBVIOUS
  <2> HIDE DEF f, Upto
  <2> QED
    BY <2>1
<1>2. ASSUME NEW k \in 1..n, k - 1 \in S
      PROVE  k \in S
  <2>1. PICK f \in [0..n -> V] : Upto(f, k - 1)
    BY <1>2
  <2> DEFINE g == [f EXCEPT ![k] = next[<<k, f[k - 1]>>]]
  <2>2. f[k - 1] \in V /\ next[<<k, f[k - 1]>>] \in V
    OBVIOUS
  <2>3. g \in [0..n -> V]
    BY <2>2
  <2>4. g[k] = next[<<k, f[k - 1]>>] /\ \A i \in 0..k - 1 : g[i] = f[i]
    OBVIOUS
  <2>5. Upto(g, k)
    <3>1. ASSUME NEW i \in 1..k
          PROVE  g[i] = next[<<i, g[i - 1]>>]
      <4>1. CASE i = k
        BY <2>4, <4>1
      <4>2. CASE i # k
        BY <2>1, <2>4, <4>2
      <4> QED
        BY <4>1, <4>2
    <3>2. g[0] = a
      BY <2>1, <2>4
    <3> QED
      BY <3>1, <3>2
  <2> HIDE DEF g, Upto
  <2> QED
    BY <2>3, <2>5
<1>3. n \in S
  <2> HIDE DEF S
  <2> QED
    BY <1>1, <1>2, InductionTo
<1>4. PICK f \in [0..n -> V] : Upto(f, n)
  BY <1>3
<1>5. Follows(f, n, V, a, next)
  BY <1>4 DEF Follows
<1> QED
  BY <1>5

------------------------------------------------------------------------------
(* Concatenations of sequences of sequences.                                  *)

\* The sequences q[1], q[1] \o q[2], ... up to the n-th.
Flattens(f, q, n) == f = [i \in 1..n |-> IF i = 1 THEN q[i] ELSE f[i - 1] \o q[i]]

LEMMA FlattensExists ==
  ASSUME NEW q, NEW n \in Nat
  PROVE  \E f : Flattens(f, q, n)
<1> DEFINE S == {k \in Nat : \E f : Flattens(f, q, k)}
<1>1. 0 \in S
  <2>1. Flattens([i \in 1..0 |-> q], q, 0)
    BY DEF Flattens
  <2> QED
    BY <2>1
<1>2. ASSUME NEW k \in Nat, k \in S
      PROVE  k + 1 \in S
  <2>1. PICK f : Flattens(f, q, k)
    BY <1>2
  <2> DEFINE g == [i \in 1..k + 1 |->
        IF i = k + 1 THEN (IF k = 0 THEN q[1] ELSE f[k] \o q[k + 1]) ELSE f[i]]
  <2>2. \A i \in 1..k : f[i] = IF i = 1 THEN q[i] ELSE f[i - 1] \o q[i]
    BY <2>1 DEF Flattens
  <2>3. ASSUME NEW i \in 1..k + 1
        PROVE  g[i] = IF i = 1 THEN q[i] ELSE g[i - 1] \o q[i]
    BY <2>2
  <2>4. Flattens(g, q, k + 1)
    BY <2>3 DEF Flattens
  <2> QED
    BY <2>4
<1>3. Nat \subseteq S
  <2> HIDE DEF S
  <2> QED
    BY <1>1, <1>2, Induction
<1> QED
  BY <1>3

LEMMA FlattenSeqDef ==
  ASSUME NEW q, Len(q) \in Nat, Len(q) # 0
  PROVE  \E f : Flattens(f, q, Len(q)) /\ FlattenSeq(q) = f[Len(q)]
<1> DEFINE flatten ==
      CHOOSE f : f = [i \in 1..Len(q) |-> IF i = 1 THEN q[i] ELSE f[i - 1] \o q[i]]
<1>1. FlattenSeq(q) = flatten[Len(q)]
  BY DEF FlattenSeq
<1>2. Flattens(flatten, q, Len(q))
  <2>1. flatten = CHOOSE f : Flattens(f, q, Len(q))
    BY DEF Flattens
  <2>2. \E f : Flattens(f, q, Len(q))
    BY FlattensExists
  <2> HIDE DEF flatten
  <2> QED
    BY <2>1, <2>2
<1> QED
  BY <1>1, <1>2

\* A sequence flattened is a sequence of the same things.
LEMMA FlattenSeqType ==
  ASSUME NEW V, NEW q \in Seq(Seq(V))
  PROVE  FlattenSeq(q) \in Seq(V)
<1>1. CASE q = <<>>
  BY <1>1 DEF FlattenSeq
<1>2. CASE q # <<>>
  <2>1. Len(q) \in Nat \ {0} /\ \A i \in 1..Len(q) : q[i] \in Seq(V)
    BY <1>2
  <2>2. PICK f : Flattens(f, q, Len(q)) /\ FlattenSeq(q) = f[Len(q)]
    BY <2>1, FlattenSeqDef
  <2>3. \A i \in 1..Len(q) : f[i] = IF i = 1 THEN q[i] ELSE f[i - 1] \o q[i]
    BY <2>2 DEF Flattens
  <2> DEFINE S == {k \in Nat : k > 0 => f[k] \in Seq(V)}
  <2>4. ASSUME NEW k \in 1..Len(q), k - 1 \in S
        PROVE  k \in S
    <3>1. CASE k = 1
      BY <2>1, <2>3, <3>1
    <3>2. CASE k # 1
      <4>1. f[k] = f[k - 1] \o q[k]
        BY <2>3, <3>2
      <4>2. f[k - 1] \in Seq(V) /\ q[k] \in Seq(V)
        BY <2>1, <2>4, <3>2
      <4>3. f[k] \in Seq(V)
        BY <4>1, <4>2, ConcatProperties
      <4> QED
        BY <4>3
    <3> QED
      BY <3>1, <3>2
  <2>5. 0..Len(q) \subseteq S
    <3>1. 0 \in S
      OBVIOUS
    <3> HIDE DEF S
    <3> QED
      BY <2>1, <2>4, <3>1, InductionTo
  <2> QED
    BY <2>1, <2>2, <2>5
<1> QED
  BY <1>1, <1>2

\* The last element comes last.
LEMMA FlattenSeqAppend ==
  ASSUME NEW V, NEW q \in Seq(Seq(V)), NEW m \in Seq(V)
  PROVE  FlattenSeq(Append(q, m)) = FlattenSeq(q) \o m
<1> DEFINE r == Append(q, m)
<1>1. /\ r \in Seq(Seq(V)) /\ Len(r) = Len(q) + 1 /\ Len(q) \in Nat
      /\ r[Len(q) + 1] = m /\ \A i \in 1..Len(q) : r[i] = q[i]
  BY AppendProperties
<1> HIDE DEF r
<1>2. PICK g : Flattens(g, r, Len(r)) /\ FlattenSeq(r) = g[Len(r)]
  BY <1>1, FlattenSeqDef
<1>3. \A i \in 1..Len(r) : g[i] = IF i = 1 THEN r[i] ELSE g[i - 1] \o r[i]
  BY <1>2 DEF Flattens
<1>4. CASE q = <<>>
  <2>1. FlattenSeq(r) = m
    BY <1>1, <1>2, <1>3, <1>4
  <2>2. FlattenSeq(q) \o m = m
    BY <1>4, ConcatEmptySeq DEF FlattenSeq
  <2> QED
    BY <2>1, <2>2 DEF r
<1>5. CASE q # <<>>
  <2>1. Len(q) \in Nat \ {0}
    BY <1>5
  <2>2. PICK f : Flattens(f, q, Len(q)) /\ FlattenSeq(q) = f[Len(q)]
    BY <2>1, FlattenSeqDef
  <2>3. \A i \in 1..Len(q) : f[i] = IF i = 1 THEN q[i] ELSE f[i - 1] \o q[i]
    BY <2>2 DEF Flattens
  <2> DEFINE S == {k \in Nat : k > 0 => f[k] = g[k]}
  <2>4. ASSUME NEW k \in 1..Len(q), k - 1 \in S
        PROVE  k \in S
    BY <1>1, <1>3, <2>3, <2>4
  <2>5. 0..Len(q) \subseteq S
    <3>1. 0 \in S
      OBVIOUS
    <3> HIDE DEF S
    <3> QED
      BY <2>1, <2>4, <3>1, InductionTo
  <2>6. f[Len(q)] = g[Len(q)]
    BY <2>1, <2>5
  <2>7. g[Len(r)] = g[Len(q)] \o m
    <3>1. Len(r) \in 1..Len(r) /\ Len(r) # 1 /\ Len(r) - 1 = Len(q)
      BY <1>1, <2>1
    <3> QED
      BY <1>1, <1>3, <3>1
  <2> QED
    BY <1>2, <2>2, <2>6, <2>7 DEF r
<1> QED
  BY <1>4, <1>5

------------------------------------------------------------------------------
(* The digits of a length.                                                    *)

LEMMA Constants ==
  /\ Base \in Nat \ {0} /\ FixedLength \in Nat \ {0}
  /\ HeaderLength \in Nat /\ MaxLength \in Nat /\ BufferSize \in Nat
  /\ Messages \subseteq Seq(Byte)
  /\ Delimiter \in Seq(Byte) /\ Len(Delimiter) \in Nat \ {0}
BY FramingAssumption

\* A last digit and what is left.
LEMMA Digits ==
  ASSUME NEW n \in Nat
  PROVE  /\ n \div Base \in Nat /\ n % Base \in Byte
         /\ n = (n % Base) + Base * (n \div Base)
BY Constants DEF Byte

LEMMA AddDigit ==
  ASSUME NEW d \in Byte, NEW v \in Nat
  PROVE  /\ d + Base * v \in Nat
         /\ (d + Base * v) \div Base = v
         /\ (d + Base * v) % Base = d
<1> DEFINE n == d + Base * v
<1>1. d \in Nat /\ d < Base /\ Base \in Nat \ {0} /\ n \in Nat
  BY Constants DEF Byte
<1>2. n \div Base \in Nat /\ n % Base \in Nat /\ n % Base < Base
  BY <1>1, Digits DEF Byte
<1>3. (n % Base) + Base * (n \div Base) = d + Base * v
  BY <1>1, Digits
<1> DEFINE q == n \div Base
<1> DEFINE r == n % Base
<1> HIDE DEF q, r
<1>4. q = v
  BY <1>1, <1>2, <1>3 DEF q, r
<1> QED
  BY <1>1, <1>2, <1>3, <1>4 DEF q

LEMMA ShiftedDef ==
  ASSUME NEW n \in Nat
  PROVE  /\ Shifted(n) \in [0..HeaderLength -> Nat]
         /\ Shifted(n)[0] = n
         /\ \A i \in 1..HeaderLength : Shifted(n)[i] = Shifted(n)[i - 1] \div Base
<1> DEFINE Is(f) == f = [i \in 0..HeaderLength |-> IF i = 0 THEN n ELSE f[i - 1] \div Base]
<1> DEFINE next == [p \in (1..HeaderLength) \X Nat |-> p[2] \div Base]
<1>1. next \in [(1..HeaderLength) \X Nat -> Nat]
  BY Digits
<1>2. PICK f : Follows(f, HeaderLength, Nat, n, next)
  <2> HIDE DEF next
  <2>1. HeaderLength \in Nat /\ n \in Nat
    BY Constants
  <2> QED
    BY <1>1, <2>1, Recursion
<1>3. /\ f \in [0..HeaderLength -> Nat]
      /\ \A i \in 1..HeaderLength : f[i] = f[i - 1] \div Base
  <2>1. \A i \in 1..HeaderLength : f[i - 1] \in Nat
    BY <1>2, Constants DEF Follows
  <2> QED
    BY <1>2, <2>1 DEF Follows
<1>4. f[0] = n /\ Is(f)
  BY <1>2, <1>3 DEF Follows
<1>5. Is(Shifted(n))
  <2>1. Shifted(n) = CHOOSE g : Is(g)
    BY DEF Shifted
  <2> HIDE DEF Is
  <2> QED
    BY <1>4, <2>1
<1>6. Shifted(n)[0] = n /\ \A i \in 1..HeaderLength : Shifted(n)[i] = Shifted(n)[i - 1] \div Base
  BY <1>5, Constants
<1>7. Shifted(n) = f
  <2> DEFINE S == {i \in 0..HeaderLength : Shifted(n)[i] = f[i]}
  <2>1. 0 \in S /\ \A i \in 1..HeaderLength : i - 1 \in S => i \in S
    BY <1>3, <1>4, <1>6, Constants
  <2>2. 0..HeaderLength \subseteq S
    <3> HIDE DEF S
    <3> QED
      BY <2>1, Constants, InductionTo
  <2> QED
    BY <1>4, <1>5, <2>2
<1> QED
  BY <1>3, <1>6, <1>7

\* The values of a header's last i bytes.
Values(header, f) ==
    /\ f \in [0..HeaderLength -> Nat]
    /\ f[0] = 0
    /\ \A i \in 1..HeaderLength : f[i] = header[HeaderLength + 1 - i] + Base * f[i - 1]

LEMMA LengthInDef ==
  ASSUME NEW h \in [1..HeaderLength -> Byte]
  PROVE  \E f : Values(h, f) /\ LengthIn(h) = f[HeaderLength]
<1> DEFINE Is(f) ==
      f = [i \in 0..HeaderLength |-> IF i = 0 THEN 0 ELSE h[HeaderLength + 1 - i] + Base * f[i - 1]]
<1> DEFINE next == [p \in (1..HeaderLength) \X Nat |-> h[HeaderLength + 1 - p[1]] + Base * p[2]]
<1>1. next \in [(1..HeaderLength) \X Nat -> Nat]
  <2>1. \A i \in 1..HeaderLength : h[HeaderLength + 1 - i] \in Byte
    BY Constants
  <2>2. \A d \in Byte, v \in Nat : d + Base * v \in Nat
    BY AddDigit
  <2> QED
    BY <2>1, <2>2
<1>2. PICK f : Follows(f, HeaderLength, Nat, 0, next)
  <2> HIDE DEF next
  <2>1. HeaderLength \in Nat /\ 0 \in Nat
    BY Constants
  <2> QED
    BY <1>1, <2>1, Recursion
<1>3. /\ f \in [0..HeaderLength -> Nat]
      /\ \A i \in 1..HeaderLength : f[i] = h[HeaderLength + 1 - i] + Base * f[i - 1]
  <2>1. \A i \in 1..HeaderLength : f[i - 1] \in Nat
    BY <1>2, Constants DEF Follows
  <2> QED
    BY <1>2, <2>1 DEF Follows
<1>4. f[0] = 0 /\ Is(f)
  BY <1>2, <1>3 DEF Follows
<1> DEFINE last == CHOOSE g : Is(g)
<1>5. Is(last)
  <2> HIDE DEF Is
  <2> QED
    BY <1>4
<1>6. LengthIn(h) = last[HeaderLength]
  BY DEF LengthIn
<1> HIDE DEF last
<1>7. /\ last[0] = 0
      /\ \A i \in 1..HeaderLength : last[i] = h[HeaderLength + 1 - i] + Base * last[i - 1]
  BY <1>5, Constants
<1>8. last = f
  <2> DEFINE S == {i \in 0..HeaderLength : last[i] = f[i]}
  <2>1. ASSUME NEW i \in 1..HeaderLength, i - 1 \in S
        PROVE  i \in S
    <3>1. last[i - 1] = f[i - 1]
      BY <2>1
    <3>2. last[i] = f[i]
      BY <1>3, <1>7, <3>1, Zenon
    <3> QED
      BY <3>2
  <2>2. 0..HeaderLength \subseteq S
    <3>1. 0 \in S
      BY <1>4, <1>7, Constants
    <3> HIDE DEF S
    <3> QED
      BY <2>1, <3>1, Constants, InductionTo
  <2> QED
    BY <1>4, <1>5, <2>2
<1> QED
  BY <1>3, <1>6, <1>7, <1>8 DEF Values

LEMMA HeaderType ==
  /\ \A n \in Nat : HeaderOf(n) \in [1..HeaderLength -> Byte]
  /\ \A h \in [1..HeaderLength -> Byte] : LengthIn(h) \in Nat
<1>1. ASSUME NEW n \in Nat
      PROVE  HeaderOf(n) \in [1..HeaderLength -> Byte]
  <2>1. \A i \in 1..HeaderLength : Shifted(n)[i - 1] \in Nat
    BY ShiftedDef, Constants
  <2> QED
    BY <2>1, Digits DEF HeaderOf
<1>2. \A h \in [1..HeaderLength -> Byte] : LengthIn(h) \in Nat
  BY LengthInDef, Constants DEF Values
<1> QED
  BY <1>1, <1>2

\* A reader finds the length that was written (BitConverter.GetBytes, then
\* ToInt32): no digit is lost when the length fits the header.
THEOREM LengthOfHeader ==
  ASSUME NEW n \in Nat, Shifted(n)[HeaderLength] = 0
  PROVE  LengthIn(HeaderOf(n)) = n
<1>1. PICK f : Values(HeaderOf(n), f) /\ LengthIn(HeaderOf(n)) = f[HeaderLength]
  BY HeaderType, LengthInDef
<1> DEFINE S == {i \in 0..HeaderLength : f[i] = Shifted(n)[HeaderLength - i]}
<1>2. 0 \in S
  BY <1>1, Constants DEF Values
<1>3. ASSUME NEW i \in 1..HeaderLength, i - 1 \in S
      PROVE  i \in S
  <2> DEFINE j == HeaderLength + 1 - i
  <2>1. j \in 1..HeaderLength /\ j - 1 \in 0..HeaderLength /\ HeaderLength - (i - 1) = j
        /\ HeaderLength - i = j - 1
    BY Constants
  <2>2. Shifted(n)[j - 1] \in Nat /\ Shifted(n)[j] = Shifted(n)[j - 1] \div Base
    BY <2>1, ShiftedDef
  <2>3. HeaderOf(n)[j] = Shifted(n)[j - 1] % Base
    BY <2>1 DEF HeaderOf
  <2>4. f[i] = HeaderOf(n)[j] + Base * f[i - 1]
    BY <1>1 DEF Values
  <2>5. f[i - 1] = Shifted(n)[j]
    BY <1>3, <2>1
  <2>6. f[i] = Shifted(n)[j - 1]
    BY <2>2, <2>3, <2>4, <2>5, Digits
  <2> QED
    BY <2>1, <2>6
<1>4. 0..HeaderLength \subseteq S
  <2> HIDE DEF S
  <2> QED
    BY <1>2, <1>3, Constants, InductionTo
<1>5. f[HeaderLength] = Shifted(n)[0]
  BY <1>4, Constants
<1> QED
  BY <1>1, <1>5, ShiftedDef

\* And a header is the one that is written for the length found in it.
LEMMA HeaderOfLength ==
  ASSUME NEW h \in [1..HeaderLength -> Byte]
  PROVE  HeaderOf(LengthIn(h)) = h
<1>1. PICK f : Values(h, f) /\ LengthIn(h) = f[HeaderLength]
  BY LengthInDef
<1> DEFINE n == LengthIn(h)
<1>2. n \in Nat
  BY HeaderType
<1> HIDE DEF n
<1> DEFINE S == {j \in 0..HeaderLength : Shifted(n)[j] = f[HeaderLength - j]}
<1>3. 0 \in S
  <2>1. Shifted(n)[0] = n
    BY <1>2, ShiftedDef
  <2>2. n = f[HeaderLength - 0]
    BY <1>1, Constants DEF n
  <2> QED
    BY <2>1, <2>2, Constants
<1>4. ASSUME NEW j \in 1..HeaderLength
      PROVE  /\ f[HeaderLength - (j - 1)] = h[j] + Base * f[HeaderLength - j]
             /\ h[j] \in Byte /\ f[HeaderLength - j] \in Nat
  <2> DEFINE i == HeaderLength + 1 - j
  <2>1. i \in 1..HeaderLength /\ HeaderLength + 1 - i = j /\ i - 1 = HeaderLength - j
        /\ HeaderLength - (j - 1) = i /\ i - 1 \in 0..HeaderLength
    BY Constants
  <2>2. f[i] = h[HeaderLength + 1 - i] + Base * f[i - 1]
    BY <1>1, <2>1 DEF Values
  <2>3. f[i - 1] \in Nat
    BY <1>1, <2>1 DEF Values
  <2> QED
    BY <2>1, <2>2, <2>3
<1>5. ASSUME NEW j \in 1..HeaderLength, j - 1 \in S
      PROVE  j \in S
  <2>1. Shifted(n)[j] = (h[j] + Base * f[HeaderLength - j]) \div Base
    BY <1>2, <1>4, <1>5, ShiftedDef
  <2>2. Shifted(n)[j] = f[HeaderLength - j]
    BY <1>4, <2>1, AddDigit
  <2> QED
    BY <2>2
<1>6. 0..HeaderLength \subseteq S
  <2> HIDE DEF S
  <2> QED
    BY <1>3, <1>5, Constants, InductionTo
<1>7. ASSUME NEW j \in 1..HeaderLength
      PROVE  HeaderOf(n)[j] = h[j]
  <2>1. Shifted(n)[j - 1] = h[j] + Base * f[HeaderLength - j]
    BY <1>4, <1>6, Constants
  <2>2. HeaderOf(n)[j] = Shifted(n)[j - 1] % Base
    BY DEF HeaderOf
  <2> QED
    BY <1>4, <2>1, <2>2, AddDigit
<1>8. HeaderOf(n) \in [1..HeaderLength -> Byte]
  BY <1>2, HeaderType
<1>9. HeaderOf(n) = h
  <2>1. HeaderOf(n) = [j \in 1..HeaderLength |-> HeaderOf(n)[j]]
    BY <1>8
  <2>2. h = [j \in 1..HeaderLength |-> h[j]]
    OBVIOUS
  <2> QED
    BY <1>7, <2>1, <2>2
<1> QED
  BY <1>9 DEF n
------------------------------------------------------------------------------
(* Frames.                                                                    *)

Bytes == Seq(Byte)

LEMMA FrameType ==
  ASSUME framer \in Framers, NEW m \in Bytes
  PROVE  /\ FirstPart(m) \in Bytes /\ SecondPart(m) \in Bytes
         /\ Frame(m) = FirstPart(m) \o SecondPart(m)
         /\ Frame(m) \in Bytes
<1>1. HeaderOf(Len(m)) \in Bytes
  <2>1. Len(m) \in Nat
    BY DEF Bytes
  <2>2. HeaderOf(Len(m)) \in [1..HeaderLength -> Byte]
    BY <2>1, HeaderType
  <2> QED
    BY <2>2, Constants DEF Bytes
<1>2. Delimiter \in Bytes /\ <<>> \in Bytes
  BY Constants DEF Bytes
<1>3. FirstPart(m) \in Bytes /\ SecondPart(m) \in Bytes
  BY <1>1, <1>2 DEF FirstPart, SecondPart
<1> QED
  BY <1>3, ConcatProperties DEF Frame, Bytes

LEMMA FramesType ==
  ASSUME framer \in Framers, NEW q \in Seq(Bytes)
  PROVE  Frames(q) \in Bytes
<1> DEFINE frames == [i \in DOMAIN q |-> Frame(q[i])]
<1>1. \A i \in 1..Len(q) : Frame(q[i]) \in Bytes
  <2>1. \A i \in 1..Len(q) : q[i] \in Bytes
    OBVIOUS
  <2> QED
    BY <2>1, FrameType
<1>2. frames \in Seq(Bytes)
  BY <1>1
<1> HIDE DEF frames
<1>3. FlattenSeq(frames) \in Bytes
  BY <1>2, FlattenSeqType DEF Bytes
<1> QED
  BY <1>3 DEF Frames, frames

LEMMA FramesEmpty == Frames(<<>>) = <<>>
BY DEF Frames, FlattenSeq

LEMMA FramesAppend ==
  ASSUME framer \in Framers, NEW q \in Seq(Bytes), NEW m \in Bytes
  PROVE  Frames(Append(q, m)) = Frames(q) \o Frame(m)
<1> DEFINE r == Append(q, m)
<1> DEFINE frames == [i \in DOMAIN q |-> Frame(q[i])]
<1> DEFINE more == [i \in DOMAIN r |-> Frame(r[i])]
<1>1. /\ r \in Seq(Bytes) /\ Len(r) = Len(q) + 1 /\ Len(q) \in Nat
      /\ r[Len(q) + 1] = m /\ \A i \in 1..Len(q) : r[i] = q[i]
  BY AppendProperties
<1>2. \A i \in 1..Len(q) : Frame(q[i]) \in Bytes
  <2>1. \A i \in 1..Len(q) : q[i] \in Bytes
    OBVIOUS
  <2> QED
    BY <2>1, FrameType
<1>3. frames \in Seq(Bytes) /\ Len(frames) = Len(q) /\ Frame(m) \in Bytes
  BY <1>2, FrameType
<1>4. more = Append(frames, Frame(m))
  <2>1. DOMAIN r = 1..Len(q) + 1 /\ DOMAIN q = 1..Len(q)
    BY <1>1, LenProperties
  <2>2. more \in Seq(Bytes) /\ Len(more) = Len(q) + 1
    <3>1. \A i \in 1..Len(q) + 1 : r[i] \in Bytes
      BY <1>1
    <3>2. \A i \in 1..Len(q) + 1 : Frame(r[i]) \in Bytes
      BY <3>1, FrameType
    <3> HIDE DEF r
    <3> QED
      BY <1>1, <2>1, <3>2
  <2> DEFINE a == Append(frames, Frame(m))
  <2>3. /\ a \in Seq(Bytes) /\ Len(a) = Len(q) + 1 /\ a[Len(q) + 1] = Frame(m)
        /\ \A i \in 1..Len(q) : a[i] = frames[i]
    <3> HIDE DEF frames
    <3> QED
      BY <1>3, AppendProperties
  <2>4. \A i \in 1..Len(q) + 1 : more[i] = a[i]
    <3> HIDE DEF r, a
    <3> QED
      BY <1>1, <2>1, <2>3
  <2> HIDE DEF a, more
  <2> QED
    BY <2>2, <2>3, <2>4, SeqEqual DEF a
<1> HIDE DEF frames, more
<1>5. FlattenSeq(more) = FlattenSeq(frames) \o Frame(m)
  BY <1>3, <1>4, FlattenSeqAppend DEF Bytes
<1> QED
  BY <1>5 DEF Frames, frames, more

\* What was written is the frames of the first k messages, that of the next,
\* and then the bytes r.
Follow(q, k, r) == Frames(q) = Frames(SubSeq(q, 1, k)) \o (Frame(q[k + 1]) \o r)

\* What is used of concatenation.
LEMMA Closed == <<>> \in Bytes /\ \A a, b \in Bytes : a \o b \in Bytes
BY ConcatProperties DEF Bytes

Regroups(a, b, c) == (a \o b) \o c = a \o (b \o c)

LEMMA Associative == \A a, b, c \in Bytes : Regroups(a, b, c)
BY ConcatAssociative DEF Bytes, Regroups

LEMMA Cancel == \A a, b, c \in Bytes : a \o b = a \o c => b = c
BY ConcatSimplifications DEF Bytes

LEMMA Neutral == \A a \in Bytes : a \o <<>> = a /\ <<>> \o a = a
BY ConcatEmptySeq DEF Bytes

LEMMA NextFrame ==
  ASSUME framer \in Framers, NEW q \in Seq(Bytes), NEW k \in 0..Len(q) - 1
  PROVE  \E r \in Bytes : Follow(q, k, r)
<1> DEFINE Has(p, i) == \E r \in Bytes : Follow(p, i, r)
<1> DEFINE S == {n \in Nat : \A p \in Seq(Bytes) : Len(p) = n => \A i \in 0..n - 1 : Has(p, i)}
<1>1. 0 \in S
  OBVIOUS
<1>2. ASSUME NEW n \in Nat, n \in S
      PROVE  n + 1 \in S
  <2> SUFFICES ASSUME NEW p \in Seq(Bytes), Len(p) = n + 1, NEW i \in 0..n
               PROVE  Has(p, i)
    OBVIOUS
  <2> DEFINE front == SubSeq(p, 1, n)
  <2> DEFINE last == p[n + 1]
  <2>1. last \in Bytes /\ front \in Seq(Bytes) /\ Len(front) = n
        /\ \A j \in 1..n : front[j] = p[j]
    BY SubSeqProperties
  <2>2. p = Append(front, last)
    OBVIOUS
  <2>3. Frames(p) = Frames(front) \o Frame(last)
    <3> HIDE DEF front, last
    <3> QED
      BY <2>1, <2>2, FramesAppend
  <2>4. Frames(front) \in Bytes /\ Frame(last) \in Bytes /\ <<>> \in Bytes
    <3> HIDE DEF front, last
    <3> QED
      BY <2>1, FramesType, FrameType, Closed
  <2>5. CASE i = n
    <3>1. Frames(p) = Frames(front) \o (Frame(last) \o <<>>)
      BY <2>3, <2>4, Neutral
    <3> QED
      BY <2>4, <2>5, <3>1 DEF Follow
  <2>6. CASE i # n
    <3>1. i \in 0..n - 1
      BY <2>6
    <3>2. PICK r \in Bytes : Follow(front, i, r)
      BY <1>2, <2>1, <3>1
    <3>3. SubSeq(front, 1, i) = SubSeq(p, 1, i) /\ front[i + 1] = p[i + 1]
      <4> HIDE DEF front
      <4>1. i \in Nat /\ i + 1 \in 1..n /\ \A j \in 1..i : front[j] = p[j] /\ p[j] \in Bytes
        BY <2>1, <3>1
      <4>2. /\ SubSeq(front, 1, i) \in Seq(Bytes) /\ Len(SubSeq(front, 1, i)) = i
            /\ \A j \in 1..i : SubSeq(front, 1, i)[j] = front[j]
        BY <4>1, SubSeqProperties
      <4>3. /\ SubSeq(p, 1, i) \in Seq(Bytes) /\ Len(SubSeq(p, 1, i)) = i
            /\ \A j \in 1..i : SubSeq(p, 1, i)[j] = p[j]
        BY <4>1, SubSeqProperties
      <4> QED
        BY <2>1, <4>1, <4>2, <4>3, SeqEqual
    <3> DEFINE early == Frames(SubSeq(p, 1, i))
    <3> DEFINE this == Frame(p[i + 1])
    <3>4. early \in Bytes /\ this \in Bytes
      <4>1. SubSeq(p, 1, i) \in Seq(Bytes) /\ p[i + 1] \in Bytes
        BY <3>1, SubSeqProperties
      <4> QED
        BY <4>1, FramesType, FrameType
    <3>5. Frames(front) = early \o (this \o r)
      BY <3>2, <3>3 DEF Follow
    <3> HIDE DEF early, this, front, last
    <3>6. this \o r \in Bytes /\ r \o Frame(last) \in Bytes
      BY <2>4, <3>4, Closed
    <3> DEFINE end == Frame(last)
    <3>0. early \in Bytes /\ this \in Bytes /\ r \in Bytes /\ end \in Bytes
      BY <2>4, <3>4
    <3> HIDE DEF end
    <3>7. Regroups(this, r, end)
      BY <3>0, Associative
    <3>8. Regroups(early, this \o r, end)
      BY <3>0, <3>6, Associative
    <3>9. Frames(p) = early \o (this \o (r \o end))
      BY <2>3, <3>5, <3>7, <3>8 DEF end, Regroups
    <3> QED
      BY <3>6, <3>9 DEF Follow, early, this, end
  <2> QED
    BY <2>5, <2>6
<1>3. Len(q) \in S
  <2>1. Len(q) \in Nat
    BY LenProperties
  <2> HIDE DEF S
  <2> QED
    BY <1>1, <1>2, <2>1, Induction
<1> QED
  BY <1>3

LEMMA CutInTwo ==
  ASSUME NEW b \in Bytes, NEW k \in 0..Len(b), NEW n \in k..Len(b)
  PROVE  SubSeq(b, 1, k) \o SubSeq(b, k + 1, n) = SubSeq(b, 1, n)
<1>1. Len(b) \in Nat /\ 1 \in 1 .. Len(b) + 1 /\ k \in 1 - 1 .. Len(b)
  BY DEF Bytes
<1> QED
  BY <1>1, ConcatAdjacentSubSeq DEF Bytes

LEMMA Part ==
  ASSUME NEW b \in Bytes, NEW i \in 1 .. Len(b) + 1, NEW n \in i - 1 .. Len(b)
  PROVE  /\ SubSeq(b, i, n) \in Bytes
         /\ Len(SubSeq(b, i, n)) = n + 1 - i
<1>1. Len(b) \in Nat /\ \A k \in i..n : b[k] \in Byte
  BY DEF Bytes
<1> QED
  BY <1>1, SubSeqProperties DEF Bytes

LEMMA SameStart ==
  ASSUME NEW a \in Bytes, NEW c \in Bytes, NEW x \in Bytes, NEW y \in Bytes,
         a \o x = c \o y, Len(a) = Len(c)
  PROVE  a = c
<1>1. \A i \in 1..Len(a) : a[i] = (a \o x)[i] /\ c[i] = (c \o y)[i]
  BY DEF Bytes
<1> QED
  BY <1>1, SeqEqual DEF Bytes

\* The bytes found at a place are the delimiter's.
LEMMA DelimiterAt ==
  ASSUME NEW b \in Bytes, NEW i \in 1 .. Len(b) + 1 - Len(Delimiter)
  PROVE  i \in DelimiterPlaces(b) <=>
            \A j \in 1..Len(Delimiter) : b[i + j - 1] = Delimiter[j]
<1> DEFINE part == SubSeq(b, i, i + Len(Delimiter) - 1)
<1>1. Len(Delimiter) \in Nat \ {0} /\ Delimiter \in Bytes /\ Len(b) \in Nat
  BY Constants DEF Bytes
<1>2. \A k \in i .. i + Len(Delimiter) - 1 : b[k] \in Byte
  BY <1>1 DEF Bytes
<1>3. /\ part \in Bytes /\ Len(part) = Len(Delimiter)
      /\ \A j \in 1..Len(Delimiter) : part[j] = b[i + j - 1]
  BY <1>1, <1>2, SubSeqProperties DEF Bytes
<1> HIDE DEF part
<1>4. part = Delimiter <=> \A j \in 1..Len(Delimiter) : part[j] = Delimiter[j]
  BY <1>1, <1>3, SeqEqual DEF Bytes
<1>5. i \in DelimiterPlaces(b) <=> part = Delimiter
  BY DEF DelimiterPlaces, IsDelimiterAt, part
<1> QED
  BY <1>3, <1>4, <1>5

LEMMA FirstPlace ==
  ASSUME NEW b \in Bytes, DelimiterPlaces(b) # {}
  PROVE  /\ Min(DelimiterPlaces(b)) \in DelimiterPlaces(b)
         /\ Min(DelimiterPlaces(b)) \in 1 .. Len(b) + 1 - Len(Delimiter)
         /\ \A i \in DelimiterPlaces(b) : Min(DelimiterPlaces(b)) <= i
<1> DEFINE S == DelimiterPlaces(b)
<1>1. S \subseteq 1 .. Len(b) + 1 - Len(Delimiter) /\ S \subseteq Nat
  BY DEF DelimiterPlaces
<1> HIDE DEF S
<1>2. \E n \in S : \A m \in S : n <= m
  BY <1>1, LeastNumber DEF S
<1>3. Min(S) \in S /\ \A m \in S : Min(S) <= m
  BY <1>2 DEF Min
<1> QED
  BY <1>1, <1>3 DEF S

\* What the reader returns, framed, and what it keeps are what it held.
LEMMA MessageAndRest ==
  ASSUME framer \in Framers, NEW b \in Bytes, Complete(b)
  PROVE  /\ Message(b) \in Bytes /\ Rest(b) \in Bytes
         /\ b = Frame(Message(b)) \o Rest(b)
<1>1. Len(b) \in Nat /\ \A k \in 1..Len(b) : b[k] \in Byte
  BY DEF Bytes
<1>2. CASE framer = "LengthPrefixed"
  <2> DEFINE h == SubSeq(b, 1, HeaderLength)
  <2> DEFINE m == SubSeq(b, HeaderLength + 1, Len(b))
  <2>1. HeaderLength \in Nat /\ HeaderLength <= Len(b) /\ Len(b) = HeaderLength + LengthIn(h)
    BY <1>2, Constants DEF Complete, HasHeader, PrefixedLength
  <2>2. /\ h \in Bytes /\ Len(h) = HeaderLength /\ h \in [1..HeaderLength -> Byte]
        /\ m \in Bytes /\ Len(m) = Len(b) - HeaderLength
    <3>1. h \in Bytes /\ Len(h) = HeaderLength /\ m \in Bytes /\ Len(m) = Len(b) - HeaderLength
      BY <1>1, <2>1, Part
    <3> HIDE DEF h, m
    <3> QED
      BY <3>1 DEF Bytes
  <2>3. Len(m) = LengthIn(h)
    <3>1. LengthIn(h) \in Nat
      BY <2>2, HeaderType
    <3> QED
      BY <1>1, <2>1, <2>2, <3>1
  <2>4. b = h \o m
    <3>1. h \o m = SubSeq(b, 1, Len(b))
      BY <1>1, <2>1, CutInTwo
    <3> QED
      BY <3>1, SubSeqFull DEF Bytes
  <2>5. Message(b) = m /\ Rest(b) = <<>>
    BY <1>2 DEF Message, Rest
  <2> HIDE DEF h, m
  <2>6. Frame(m) = h \o m
    BY <1>2, <2>2, <2>3, HeaderOfLength DEF Frame, FirstPart, SecondPart
  <2>7. b \o <<>> = b
    BY Neutral
  <2> QED
    BY <2>2, <2>4, <2>5, <2>6, <2>7, Closed
<1>3. CASE framer = "Delimiter"
  <2> DEFINE p == Min(DelimiterPlaces(b))
  <2> DEFINE m == SubSeq(b, 1, p - 1)
  <2> DEFINE d == SubSeq(b, p, p + Len(Delimiter) - 1)
  <2> DEFINE rest == SubSeq(b, p + Len(Delimiter), Len(b))
  <2>1. p \in DelimiterPlaces(b) /\ p \in 1 .. Len(b) + 1 - Len(Delimiter)
    BY <1>3, FirstPlace DEF Complete
  <2>2. d = Delimiter
    BY <2>1 DEF DelimiterPlaces, IsDelimiterAt
  <2>3. Message(b) = m /\ Rest(b) = rest
    BY <1>3 DEF Message, Rest
  <2> HIDE DEF p
  <2>4. Len(Delimiter) \in Nat \ {0} /\ Delimiter \in Bytes
    BY Constants DEF Bytes
  <2>5. m \in Bytes /\ rest \in Bytes
    BY <1>1, <2>1, <2>4, Part
  <2>6. b = (m \o d) \o rest
    <3> DEFINE k == p - 1
    <3> DEFINE n == p + Len(Delimiter) - 1
    <3>1. k \in 0..Len(b) /\ n \in k..Len(b) /\ k + 1 = p /\ n + 1 = p + Len(Delimiter)
      BY <1>1, <2>1, <2>4
    <3> HIDE DEF k, n
    <3>2. SubSeq(b, 1, k) \o SubSeq(b, k + 1, n) = SubSeq(b, 1, n)
      BY <3>1, CutInTwo
    <3>3. SubSeq(b, 1, n) \o SubSeq(b, n + 1, Len(b)) = b
      <4>1. n \in 0..Len(b) /\ Len(b) \in n..Len(b)
        BY <1>1, <3>1
      <4>2. SubSeq(b, 1, n) \o SubSeq(b, n + 1, Len(b)) = SubSeq(b, 1, Len(b))
        BY <4>1, CutInTwo
      <4> QED
        BY <4>2, SubSeqFull DEF Bytes
    <3> QED
      BY <3>1, <3>2, <3>3 DEF k, n
  <2> HIDE DEF m, rest
  <2>7. Frame(m) = m \o Delimiter
    BY <1>3 DEF Frame, FirstPart, SecondPart
  <2> QED
    BY <2>2, <2>3, <2>5, <2>6, <2>7
<1>4. CASE framer \notin {"LengthPrefixed", "Delimiter"}
  <2>1. Message(b) = b /\ Rest(b) = <<>>
    BY <1>4 DEF Message, Rest
  <2>2. Frame(b) = b \o <<>>
    BY <1>4 DEF Frame, FirstPart, SecondPart
  <2> QED
    BY <2>1, <2>2, Neutral, Closed
<1> QED
  BY <1>2, <1>3, <1>4

LEMMA CompleteIsSome ==
  ASSUME framer \in Framers, Complete(<<>>)
  PROVE  Invalid(<<>>)
<1>1. Len(<<>>) = 0
  OBVIOUS
<1>2. CASE framer = "LengthPrefixed"
  <2>1. HeaderLength = 0 /\ HasHeader(<<>>) /\ PrefixedLength(<<>>) = 0
    <3>1. HeaderLength <= 0 /\ 0 = HeaderLength + PrefixedLength(<<>>)
      BY <1>1, <1>2 DEF Complete, HasHeader
    <3>2. HeaderLength = 0
      BY <3>1, Constants
    <3>3. PrefixedLength(<<>>) \in Nat
      <4> DEFINE h == SubSeq(<<>>, 1, HeaderLength)
      <4>1. h \in Bytes /\ Len(h) = HeaderLength
        BY <1>1, <3>2, Part, Closed
      <4> HIDE DEF h
      <4>2. h \in [1..HeaderLength -> Byte]
        BY <4>1 DEF Bytes
      <4> QED
        BY <4>2, HeaderType DEF PrefixedLength, h
    <3> QED
      BY <1>1, <3>1, <3>2, <3>3 DEF HasHeader
  <2> QED
    BY <1>2, <2>1 DEF Invalid
<1>3. CASE framer = "FixedLength"
  BY <1>1, <1>3, Constants DEF Complete
<1>4. CASE framer = "Delimiter"
  BY <1>1, <1>4, Constants DEF Complete, DelimiterPlaces
<1>5. CASE framer \notin {"LengthPrefixed", "FixedLength", "Delimiter"}
  BY <1>5 DEF Complete
<1> QED
  BY <1>2, <1>3, <1>4, <1>5

\* A framer that can tell messages apart returns the first of those that the
\* bytes it holds are the start of.
LEMMA MessageIsNext ==
  ASSUME framer \in Framers, framer # "NoFraming",
         NEW m \in Messages, NEW b \in Bytes, NEW r \in Bytes, NEW t \in Bytes,
         Frame(m) \o r = b \o t, Complete(b),
         framer = "FixedLength" => Len(m) = FixedLength,
         framer = "Delimiter" => Delimitable(m)
  PROVE  Message(b) = m
<1> DEFINE M == Message(b)
<1> DEFINE u == Rest(b) \o t
<1>1. m \in Bytes /\ M \in Bytes /\ u \in Bytes /\ Len(m) \in Nat /\ Len(M) \in Nat
  <2>1. M \in Bytes /\ u \in Bytes
    BY MessageAndRest, Closed
  <2> QED
    BY <2>1, Constants DEF Bytes
<1>2. Frame(m) \o r = Frame(M) \o u
  <2>1. b = Frame(M) \o Rest(b) /\ Rest(b) \in Bytes /\ Frame(M) \in Bytes
    BY <1>1, MessageAndRest, FrameType
  <2>2. Regroups(Frame(M), Rest(b), t)
    BY <2>1, Associative
  <2> QED
    BY <2>1, <2>2 DEF Regroups
<1>3. CASE framer = "LengthPrefixed"
  <2>1. /\ Frame(m) = HeaderOf(Len(m)) \o m
        /\ Frame(M) = HeaderOf(Len(M)) \o M
    BY <1>3 DEF Frame, FirstPart, SecondPart
  <2>2. \A n \in Nat : HeaderOf(n) \in Bytes /\ Len(HeaderOf(n)) = HeaderLength
    <3>1. \A n \in Nat : HeaderOf(n) \in [1..HeaderLength -> Byte]
      BY HeaderType
    <3> QED
      BY <3>1, Constants DEF Bytes
  <2>3. /\ HeaderOf(Len(m)) \o (m \o r) = HeaderOf(Len(M)) \o (M \o u)
        /\ m \o r \in Bytes /\ M \o u \in Bytes
    <3> DEFINE hm == HeaderOf(Len(m))
    <3> DEFINE hM == HeaderOf(Len(M))
    <3>1. hm \in Bytes /\ hM \in Bytes
      BY <1>1, <2>2
    <3>2. (hm \o m) \o r = (hM \o M) \o u
      BY <1>2, <2>1
    <3> HIDE DEF hm, hM, M, u
    <3>3. Regroups(hm, m, r) /\ Regroups(hM, M, u)
      BY <1>1, <3>1, Associative
    <3> QED
      BY <1>1, <3>2, <3>3, Closed DEF hm, hM, Regroups
  <2>4. HeaderOf(Len(m)) = HeaderOf(Len(M))
    BY <1>1, <2>2, <2>3, SameStart
  <2>5. m \o r = M \o u
    BY <1>1, <2>2, <2>3, <2>4, Cancel
  <2>6. LengthIn(HeaderOf(Len(m))) = Len(m)
    BY <1>1, FramingAssumption, LengthOfHeader
  <2>7. LengthIn(HeaderOf(Len(M))) = Len(M)
    <3> DEFINE h == SubSeq(b, 1, HeaderLength)
    <3>1. HeaderLength \in Nat /\ Len(b) \in Nat /\ HeaderLength <= Len(b)
          /\ Len(b) = HeaderLength + LengthIn(h)
      BY <1>3, Constants DEF Complete, HasHeader, PrefixedLength, Bytes
    <3>2. h \in [1..HeaderLength -> Byte]
      <4>1. h \in Bytes /\ Len(h) = HeaderLength
        BY <3>1, Part
      <4> HIDE DEF h
      <4> QED
        BY <4>1 DEF Bytes
    <3>3. Len(M) = Len(b) - HeaderLength
      BY <1>3, <3>1, Part DEF Message
    <3>4. LengthIn(h) \in Nat /\ HeaderOf(LengthIn(h)) = h
      BY <3>2, HeaderType, HeaderOfLength
    <3> HIDE DEF h, M
    <3>5. Len(M) = LengthIn(h)
      BY <3>1, <3>3, <3>4
    <3> QED
      BY <3>4, <3>5
  <2> HIDE DEF M, u
  <2> QED
    BY <1>1, <2>4, <2>5, <2>6, <2>7, SameStart DEF M
<1>4. CASE framer = "FixedLength"
  <2>1. M = b /\ Len(b) = FixedLength
    BY <1>4 DEF Message, Complete
  <2>2. Frame(m) = m \o <<>> /\ Frame(M) = M \o <<>>
    BY <1>4 DEF Frame, FirstPart, SecondPart
  <2>3. Frame(m) = m /\ Frame(M) = M
    BY <1>1, <2>2, Neutral
  <2>4. Len(m) = Len(M) /\ m \o r = M \o u
    BY <1>2, <1>4, <2>1, <2>3
  <2> HIDE DEF M, u
  <2> QED
    BY <1>1, <2>4, SameStart DEF M
<1>5. CASE framer = "Delimiter"
  <2> DEFINE D == Len(Delimiter)
  <2> DEFINE w == Frame(m) \o r
  <2>1. D \in Nat \ {0} /\ Delimiter \in Bytes
    BY Constants DEF Bytes
  <2>2. Frame(m) = m \o Delimiter /\ Frame(M) = M \o Delimiter
    BY <1>5 DEF Frame, FirstPart, SecondPart
  <2>3. /\ m \o Delimiter \in Bytes /\ Len(m \o Delimiter) = Len(m) + D
        /\ \A i \in 1..Len(m) + D :
              (m \o Delimiter)[i] = IF i <= Len(m) THEN m[i] ELSE Delimiter[i - Len(m)]
    BY <1>1, <2>1, ConcatProperties DEF Bytes
  <2>4. /\ M \o Delimiter \in Bytes /\ Len(M \o Delimiter) = Len(M) + D
        /\ \A i \in 1..Len(M) + D :
              (M \o Delimiter)[i] = IF i <= Len(M) THEN M[i] ELSE Delimiter[i - Len(M)]
    BY <1>1, <2>1, ConcatProperties DEF Bytes
  <2>5. \A i \in 1..Len(m) + D : w[i] = (m \o Delimiter)[i]
    BY <1>1, <2>1, <2>2, <2>3, ConcatProperties DEF Bytes
  <2>6. \A i \in 1..Len(M) + D : w[i] = (M \o Delimiter)[i]
    BY <1>1, <1>2, <2>2, <2>4, ConcatProperties DEF Bytes
  <2>7. Len(b) \in Nat /\ \A i \in 1..Len(b) : w[i] = b[i]
    BY ConcatProperties DEF Bytes
  <2>8. /\ Len(M) + 1 \in 1 .. Len(b) + 1 - D
        /\ \A i \in DelimiterPlaces(b) : Len(M) + 1 <= i
    <3>1. /\ DelimiterPlaces(b) # {}
          /\ M = SubSeq(b, 1, Min(DelimiterPlaces(b)) - 1)
      BY <1>5 DEF Complete, Message
    <3>2. Len(M) = Min(DelimiterPlaces(b)) - 1
      BY <2>1, <2>7, <3>1, FirstPlace, Part
    <3>3. Min(DelimiterPlaces(b)) \in Nat
      BY <2>1, <2>7, <3>1, FirstPlace
    <3> HIDE DEF M
    <3>4. Min(DelimiterPlaces(b)) = Len(M) + 1
      BY <1>1, <3>2, <3>3
    <3> QED
      BY <3>1, <3>4, FirstPlace
  <2> HIDE DEF w, M, u
  <2>9. Len(M) >= Len(m)
    <3> SUFFICES ASSUME Len(M) < Len(m) PROVE FALSE
      BY <1>1
    <3>1. \A j \in 1..D : (m \o Delimiter)[Len(M) + 1 + j - 1] = Delimiter[j]
      <4> TAKE j \in 1..D
      <4> DEFINE i == Len(M) + j
      <4>1. i \in 1..Len(m) + D /\ i \in 1..Len(M) + D /\ ~(i <= Len(M)) /\ i - Len(M) = j
            /\ Len(M) + 1 + j - 1 = i
        BY <1>1, <2>1
      <4> HIDE DEF i
      <4>2. (m \o Delimiter)[i] = (M \o Delimiter)[i]
        BY <2>5, <2>6, <4>1
      <4> QED
        BY <2>4, <4>1, <4>2
    <3>2. Len(M) + 1 \in DelimiterPlaces(m \o Delimiter)
      <4>1. Len(M) + 1 \in 1 .. Len(m \o Delimiter) + 1 - Len(Delimiter)
        BY <1>1, <2>1, <2>3
      <4> QED
        BY <2>3, <3>1, <4>1, DelimiterAt
    <3> QED
      BY <1>1, <1>5, <3>2 DEF Delimitable
  <2>10. Len(m) >= Len(M)
    <3> SUFFICES ASSUME Len(m) < Len(M) PROVE FALSE
      BY <1>1
    <3>1. \A j \in 1..D : b[Len(m) + 1 + j - 1] = Delimiter[j]
      <4> TAKE j \in 1..D
      <4> DEFINE i == Len(m) + j
      <4>1. i \in 1..Len(m) + D /\ i \in 1..Len(b) /\ ~(i <= Len(m)) /\ i - Len(m) = j
            /\ Len(m) + 1 + j - 1 = i
        BY <1>1, <2>1, <2>7, <2>8
      <4> HIDE DEF i
      <4>2. b[i] = (m \o Delimiter)[i]
        BY <2>5, <2>7, <4>1
      <4> QED
        BY <2>3, <4>1, <4>2
    <3>2. Len(m) + 1 \in DelimiterPlaces(b)
      <4>1. Len(m) + 1 \in 1 .. Len(b) + 1 - Len(Delimiter)
        BY <1>1, <2>1, <2>7, <2>8
      <4> QED
        BY <3>1, <4>1, DelimiterAt
    <3> QED
      BY <1>1, <2>8, <3>2
  <2>11. Len(m) = Len(M)
    BY <1>1, <2>9, <2>10
  <2>12. m \o (Delimiter \o r) = M \o (Delimiter \o u) /\ Delimiter \o r \in Bytes
         /\ Delimiter \o u \in Bytes
    <3>1. Regroups(m, Delimiter, r) /\ Regroups(M, Delimiter, u)
      BY <1>1, <2>1, Associative
    <3> QED
      BY <1>1, <1>2, <2>1, <2>2, <3>1, Closed DEF Regroups
  <2> QED
    BY <1>1, <2>11, <2>12, SameStart DEF M
<1> QED
  BY <1>3, <1>4, <1>5, FramingAssumption

------------------------------------------------------------------------------
(* Types.                                                                     *)

\* A framer does not change.
LEMMA FramesStable ==
  ASSUME framer' = framer
  PROVE  \A q : Frames(q)' = Frames(q)
<1>1. \A m : Frame(m)' = Frame(m)
  BY DEF Frame, FirstPart, SecondPart
<1> QED
  BY <1>1 DEF Frames

LEMMA HeldType ==
  ASSUME TypeOK, NEW s \in Sockets
  PROVE  /\ Held(s) \in Bytes /\ wire[s] \in Bytes /\ unsent[s] \in Bytes
         /\ sent[s] \in Seq(Bytes) /\ received[s] \in Seq(Bytes)
<1>1. sent[s] \in Seq(Messages) /\ Messages \subseteq Bytes
  BY Constants DEF TypeOK, Bytes
<1>2. sent[s] \in Seq(Bytes)
  BY <1>1, SeqMonotonic
<1> QED
  BY <1>2 DEF TypeOK, Held, Bytes

\* Replacing what is held for s leaves the other sockets' bytes, except in a
\* framer they share.
LEMMA HoldDef ==
  ASSUME TypeOK, NEW s \in Sockets, NEW b \in Bytes, Hold(s, b), framer' = framer
  PROVE  /\ buffer' \in [Sockets -> Bytes] /\ shared' \in Bytes
         /\ shared' # <<>> => framer = "Delimiter"
         /\ Held(s)' = b
         /\ framer # "Delimiter" => \A t \in Sockets \ {s} : Held(t)' = Held(t)
BY DEF TypeOK, Hold, Held, Bytes

LEMMA AskedFor ==
  ASSUME TypeOK, NEW s \in Sockets, NEW n \in 1 .. Min({Len(wire[s]), Wanted(Held(s))})
  PROVE  n <= Len(wire[s])
<1> DEFINE w == Wanted(Held(s))
<1>1. Len(wire[s]) \in Int /\ Len(Held(s)) \in Int
  BY HeldType DEF Bytes
<1>2. w \in Int
  <2>1. HasHeader(Held(s)) => PrefixedLength(Held(s)) \in Nat
    <3> SUFFICES ASSUME HasHeader(Held(s)) PROVE PrefixedLength(Held(s)) \in Nat
      OBVIOUS
    <3> DEFINE h == SubSeq(Held(s), 1, HeaderLength)
    <3>1. h \in Bytes /\ Len(h) = HeaderLength
      BY <1>1, HeldType, Part, Constants DEF HasHeader
    <3> HIDE DEF h
    <3>2. h \in [1..HeaderLength -> Byte]
      BY <3>1 DEF Bytes
    <3> QED
      BY <3>2, HeaderType DEF PrefixedLength, h
  <2> QED
    BY <1>1, <2>1, Constants DEF Wanted
<1> HIDE DEF w
<1>3. Min({Len(wire[s]), w}) <= Len(wire[s]) /\ Min({Len(wire[s]), w}) \in Int
  <2>1. \E x \in {Len(wire[s]), w} : \A y \in {Len(wire[s]), w} : x <= y
    BY <1>1, <1>2
  <2> QED
    BY <1>1, <1>2, <2>1 DEF Min
<1> QED
  BY <1>1, <1>3 DEF w

\* What one socket's writer, reader or peer does.
Step(s) ==
    \/ \E m \in Messages : Write(s, m)
    \/ WriteRest(s)
    \/ Read(s)
    \/ Disconnect(s)

LEMMA InitType == Init => TypeOK
<1> SUFFICES ASSUME Init PROVE TypeOK
  OBVIOUS
<1>1. <<>> \in Seq(Byte) /\ <<>> \in Seq(Messages) /\ <<>> \in Seq(Seq(Byte))
  OBVIOUS
<1> QED
  BY <1>1 DEF Init, TypeOK

LEMMA StepType ==
  ASSUME TypeOK, NEW s \in Sockets, Step(s)
  PROVE  TypeOK'
<1>1. ASSUME NEW m \in Messages, Write(s, m)
      PROVE  TypeOK'
  <2>1. m \in Bytes /\ FirstPart(m) \in Bytes /\ SecondPart(m) \in Bytes
    BY Constants, FrameType DEF Bytes, TypeOK
  <2>2. Append(sent[s], m) \in Seq(Messages) /\ wire[s] \o FirstPart(m) \in Bytes
    BY <2>1, HeldType, Closed DEF TypeOK
  <2> QED
    BY <1>1, <2>1, <2>2 DEF Write, TypeOK, Bytes
<1>2. ASSUME WriteRest(s)
      PROVE  TypeOK'
  <2>1. wire[s] \o unsent[s] \in Bytes /\ <<>> \in Bytes
    BY HeldType, Closed
  <2> QED
    BY <1>2, <2>1 DEF WriteRest, TypeOK, Bytes, history
<1>3. ASSUME Return(s)
      PROVE  TypeOK'
  <2>1. Message(Held(s)) \in Bytes /\ Rest(Held(s)) \in Bytes
    BY <1>3, HeldType, MessageAndRest DEF Return, TypeOK
  <2>2. Append(received[s], Message(Held(s))) \in Seq(Bytes)
    BY <2>1, HeldType
  <2>3. /\ buffer' \in [Sockets -> Bytes] /\ shared' \in Bytes
        /\ shared' # <<>> => framer = "Delimiter"
    BY <1>3, <2>1, HoldDef DEF Return
  <2> QED
    BY <1>3, <2>2, <2>3 DEF Return, TypeOK, Bytes
<1>4. ASSUME Throw(s) \/ Ask(s)
      PROVE  TypeOK'
  BY <1>4 DEF Throw, Ask, TypeOK, history
<1>5. ASSUME Receive(s)
      PROVE  TypeOK'
  <2>1. PICK n \in 1 .. Min({Len(wire[s]), Wanted(Held(s))}) :
           /\ Hold(s, Held(s) \o SubSeq(wire[s], 1, n))
           /\ wire' = [wire EXCEPT ![s] = SubSeq(@, n + 1, Len(@))]
    BY <1>5 DEF Receive
  <2>2. SubSeq(wire[s], 1, n) \in Bytes /\ SubSeq(wire[s], n + 1, Len(wire[s])) \in Bytes
    <3> DEFINE w == wire[s]
    <3>1. w \in Bytes /\ n <= Len(w)
      BY AskedFor, HeldType
    <3> HIDE DEF w
    <3>2. Len(w) \in Nat /\ n \in Nat
      BY <3>1 DEF Bytes
    <3>3. /\ 1 \in 1 .. Len(w) + 1 /\ n \in 1 - 1 .. Len(w)
          /\ n + 1 \in 1 .. Len(w) + 1 /\ Len(w) \in n + 1 - 1 .. Len(w)
      BY <3>1, <3>2
    <3> QED
      BY <3>1, <3>3, Part DEF w
  <2>3. Held(s) \o SubSeq(wire[s], 1, n) \in Bytes
    BY <2>2, HeldType, Closed
  <2>4. /\ buffer' \in [Sockets -> Bytes] /\ shared' \in Bytes
        /\ shared' # <<>> => framer = "Delimiter"
    BY <1>5, <2>1, <2>3, HoldDef DEF Receive, history
  <2>5. wire' \in [Sockets -> Bytes]
    BY <2>1, <2>2 DEF TypeOK, Bytes
  <2>6. reader' \in [Sockets -> {"checking", "receiving", "failed"}]
    BY <1>5 DEF Receive, TypeOK
  <2> QED
    BY <1>5, <2>4, <2>5, <2>6 DEF Receive, TypeOK, Bytes, history
<1>6. ASSUME ReceiveNothing(s)
      PROVE  TypeOK'
  BY <1>6, Closed DEF ReceiveNothing, TypeOK, Bytes, history
<1>7. ASSUME Disconnect(s)
      PROVE  TypeOK'
  BY <1>7, Closed DEF Disconnect, TypeOK, Bytes, history
<1> QED
  BY <1>1, <1>2, <1>3, <1>4, <1>5, <1>6, <1>7 DEF Step, Read

LEMMA Steps == [Next]_vars => UNCHANGED vars \/ \E s \in Sockets : Step(s)
BY DEF Next, Step

\* The streams and what is held are sequences of bytes, and only a
\* DelimiterFramer holds any in the framer.
THEOREM TypeCorrect == Spec => []TypeOK
<1>1. Init => TypeOK
  BY InitType
<1>2. TypeOK /\ [Next]_vars => TypeOK'
  <2>1. TypeOK /\ UNCHANGED vars => TypeOK'
    BY DEF TypeOK, vars, history
  <2> QED
    BY <2>1, Steps, StepType
<1> QED
  BY <1>1, <1>2, PTL DEF Spec

------------------------------------------------------------------------------
(* No byte is lost.                                                           *)

\* The bytes of s can still be told: its reader has not given up, and a
\* DelimiterFramer has no other socket.
Served(s) == reader[s] # "failed" /\ (framer = "Delimiter" => Alone(s))

\* t is what is on its way to the reader of s; when the peer has gone, t is
\* what went with it.
OnTheWay(s, t) ==
    IF open[s] THEN t = wire[s] \o unsent[s] ELSE wire[s] = <<>> /\ unsent[s] = <<>>

\* The frames that were written are those that were returned, the bytes held
\* and those on their way.
Accounts(s, t) == Frames(sent[s]) = Frames(received[s]) \o (Held(s) \o t)

Conserved == \A s \in Sockets : Served(s) => \E t \in Bytes : OnTheWay(s, t) /\ Accounts(s, t)

LEMMA InitConserved == Init => Conserved
<1> SUFFICES ASSUME Init, NEW s \in Sockets
             PROVE  OnTheWay(s, <<>>) /\ Accounts(s, <<>>)
  BY Closed DEF Conserved
<1>1. <<>> \o <<>> = <<>>
  BY Closed, Neutral
<1>2. sent[s] = <<>> /\ received[s] = <<>> /\ wire[s] = <<>> /\ unsent[s] = <<>> /\ Held(s) = <<>>
  BY DEF Init, Held
<1> QED
  BY <1>1, <1>2, FramesEmpty DEF OnTheWay, Accounts

\* The other sockets keep what they have.
LEMMA OthersKeep ==
  ASSUME TypeOK, NEW s \in Sockets, Step(s), NEW u \in Sockets \ {s}
  PROVE  /\ framer' = framer
         /\ sent'[u] = sent[u] /\ received'[u] = received[u]
         /\ wire'[u] = wire[u] /\ unsent'[u] = unsent[u]
         /\ reader'[u] = reader[u] /\ open'[u] = open[u]
         /\ framer # "Delimiter" => Held(u)' = Held(u)
BY DEF TypeOK, Step, Read, Write, WriteRest, Return, Throw, Ask, Receive, ReceiveNothing,
       Disconnect, Hold, Held, history

LEMMA StepConserved ==
  ASSUME TypeOK, Conserved, NEW s \in Sockets, Step(s)
  PROVE  Conserved'
<1>0. framer' = framer /\ \A u : Alone(u)' = Alone(u)
  BY DEF Step, Read, Write, WriteRest, Return, Throw, Ask, Receive, ReceiveNothing,
         Disconnect, history, Alone
<1> SUFFICES ASSUME NEW u \in Sockets, Served(u)'
             PROVE  \E t \in Bytes : OnTheWay(u, t)' /\ Accounts(u, t)'
  BY DEF Conserved
<1>1. CASE u # s
  <2>1. framer # "Delimiter"
    BY <1>0, <1>1 DEF Served, Alone
  <2>2. Served(u)
    BY <1>0, <1>1, <2>1, OthersKeep DEF Served
  <2>3. PICK t \in Bytes : OnTheWay(u, t) /\ Accounts(u, t)
    BY <2>2 DEF Conserved
  <2>4. OnTheWay(u, t)'
    BY <1>1, <2>3, OthersKeep DEF OnTheWay
  <2>5. Accounts(u, t)'
    BY <1>0, <1>1, <2>1, <2>3, OthersKeep, FramesStable DEF Accounts
  <2> QED
    BY <2>3, <2>4, <2>5
<1>2. CASE u = s
  <2>1. Served(s)
    BY <1>0, <1>2 DEF Served, TypeOK, Step, Read, Write, WriteRest, Return, Throw, Ask,
            Receive, ReceiveNothing, Disconnect, history
  <2>2. PICK t \in Bytes : OnTheWay(s, t) /\ Accounts(s, t)
    BY <2>1 DEF Conserved
  <2> DEFINE R == Frames(received[s])
  <2> DEFINE H == Held(s)
  <2>3. R \in Bytes /\ H \in Bytes /\ wire[s] \in Bytes /\ unsent[s] \in Bytes
    BY HeldType, FramesType DEF TypeOK
  <2>4. ASSUME NEW m \in Messages, Write(s, m)
        PROVE  \E v \in Bytes : OnTheWay(s, v)' /\ Accounts(s, v)'
    <3> DEFINE F == FirstPart(m)
    <3> DEFINE S == SecondPart(m)
    <3> DEFINE W == wire[s]
    <3>1. F \in Bytes /\ S \in Bytes /\ Frame(m) = F \o S /\ m \in Bytes
      BY FrameType, Constants DEF TypeOK, Bytes
    <3>2. open[s] /\ t = W
      BY <2>2, <2>3, <2>4, Neutral DEF Write, Up, OnTheWay
    <3>3. PICK v \in Bytes : v = (W \o F) \o S
      BY <2>3, <3>1, Closed
    <3>4. Frames(sent[s])' = Frames(sent[s]) \o (F \o S)
      <4>1. sent'[s] = Append(sent[s], m)
        BY <2>4 DEF Write, TypeOK
      <4>2. Frames(Append(sent[s], m)) = Frames(sent[s]) \o Frame(m)
        BY <3>1, HeldType, FramesAppend DEF TypeOK
      <4> QED
        BY <1>0, <3>1, <4>1, <4>2, FramesStable
    <3>5. Frames(received[s])' = R /\ Held(s)' = H
      BY <1>0, <2>4, FramesStable DEF Write, Held
    <3>6. Frames(sent[s]) = R \o (H \o W)
      BY <2>2, <3>2 DEF Accounts
    <3>7. OnTheWay(s, v)'
      BY <2>4, <3>2, <3>3 DEF Write, OnTheWay, TypeOK
    <3> HIDE DEF R, H, F, S, W
    <3>8. F \o S \in Bytes /\ H \o W \in Bytes /\ W \o F \in Bytes
      BY <2>3, <3>1, Closed DEF W
    <3>9. Regroups(R, H \o W, F \o S) /\ Regroups(H, W, F \o S) /\ Regroups(W, F, S)
      BY <2>3, <3>1, <3>8, Associative DEF W
    <3>10. Accounts(s, v)'
      BY <3>3, <3>4, <3>5, <3>6, <3>9 DEF Accounts, Regroups
    <3> QED
      BY <3>3, <3>10, <3>7
  <2>5. ASSUME WriteRest(s)
        PROVE  \E v \in Bytes : OnTheWay(s, v)' /\ Accounts(s, v)'
    <3>1. OnTheWay(s, t)'
      <4>1. open[s] /\ t = wire[s] \o unsent[s]
        BY <2>2, <2>5 DEF WriteRest, OnTheWay
      <4>2. t \o <<>> = t
        BY Neutral
      <4> QED
        BY <2>5, <4>1, <4>2 DEF WriteRest, OnTheWay, TypeOK
    <3>2. Accounts(s, t)'
      BY <1>0, <2>2, <2>5, FramesStable DEF WriteRest, Accounts, Held, history
    <3> QED
      BY <2>2, <3>1, <3>2
  <2>6. ASSUME Return(s)
        PROVE  \E v \in Bytes : OnTheWay(s, v)' /\ Accounts(s, v)'
    <3> DEFINE M == Message(H)
    <3> DEFINE F == Frame(M)
    <3> DEFINE T == Rest(H)
    <3>1. M \in Bytes /\ T \in Bytes /\ H = F \o T /\ F \in Bytes
      <4>1. M \in Bytes /\ T \in Bytes /\ H = F \o T
        BY <2>3, <2>6, MessageAndRest DEF Return, TypeOK
      <4> QED
        BY <4>1, FrameType DEF TypeOK
    <3>2. Held(s)' = T
      BY <1>0, <2>6, <3>1, HoldDef DEF Return
    <3>3. Frames(received[s])' = R \o F
      <4>1. received'[s] = Append(received[s], M)
        BY <2>6 DEF Return, TypeOK
      <4>2. Frames(Append(received[s], M)) = Frames(received[s]) \o Frame(M)
        BY <3>1, HeldType, FramesAppend DEF TypeOK
      <4> QED
        BY <1>0, <4>1, <4>2, FramesStable
    <3>4. Frames(sent[s])' = Frames(sent[s])
      BY <1>0, <2>6, FramesStable DEF Return
    <3>5. Frames(sent[s]) = R \o (H \o t)
      BY <2>2 DEF Accounts
    <3>6. OnTheWay(s, t)'
      BY <2>2, <2>6 DEF Return, OnTheWay
    <3> HIDE DEF R, H, M, F, T
    <3>7. T \o t \in Bytes
      BY <3>1, Closed
    <3>8. Regroups(F, T, t) /\ Regroups(R, F, T \o t)
      BY <2>3, <3>1, <3>7, Associative
    <3>9. Accounts(s, t)'
      BY <3>1, <3>2, <3>3, <3>4, <3>5, <3>8 DEF Accounts, Regroups
    <3> QED
      BY <2>2, <3>6, <3>9
  <2>7. ASSUME Ask(s)
        PROVE  \E v \in Bytes : OnTheWay(s, v)' /\ Accounts(s, v)'
    <3>1. OnTheWay(s, t)' /\ Accounts(s, t)'
      BY <1>0, <2>2, <2>7, FramesStable DEF Ask, OnTheWay, Accounts, Held, history
    <3> QED
      BY <2>2, <3>1
  <2>8. ASSUME Receive(s)
        PROVE  \E v \in Bytes : OnTheWay(s, v)' /\ Accounts(s, v)'
    <3> DEFINE W == wire[s]
    <3>1. PICK n \in 1 .. Min({Len(wire[s]), Wanted(Held(s))}) :
             /\ Hold(s, H \o SubSeq(W, 1, n))
             /\ wire' = [wire EXCEPT ![s] = SubSeq(@, n + 1, Len(@))]
      BY <2>8 DEF Receive
    <3> DEFINE p == SubSeq(W, 1, n)
    <3> DEFINE q == SubSeq(W, n + 1, Len(W))
    <3>2. p \in Bytes /\ q \in Bytes /\ W = p \o q /\ W # <<>>
      <4>1. n <= Len(W) /\ W \in Bytes
        BY AskedFor, HeldType
      <4> HIDE DEF W
      <4>2. Len(W) \in Nat /\ n \in 1..Len(W)
        BY <4>1 DEF Bytes
      <4>3. p \in Bytes /\ q \in Bytes
        BY <4>1, <4>2, Part
      <4>4. n \in 0..Len(W) /\ Len(W) \in n..Len(W)
        BY <4>2
      <4>5. p \o q = SubSeq(W, 1, Len(W))
        BY <4>1, <4>4, CutInTwo
      <4> QED
        BY <4>1, <4>2, <4>3, <4>5, SubSeqFull DEF Bytes
    <3>3. Held(s)' = H \o p
      <4>1. H \o p \in Bytes
        BY <2>3, <3>2, Closed
      <4> QED
        BY <1>0, <3>1, <4>1, HoldDef
    <3>4. open[s] /\ t = W \o unsent[s]
      BY <2>2, <3>2 DEF OnTheWay
    <3>5. PICK v \in Bytes : v = q \o unsent[s]
      BY <2>3, <3>2, Closed
    <3>6. OnTheWay(s, v)'
      BY <2>8, <3>1, <3>4, <3>5 DEF Receive, OnTheWay, TypeOK
    <3>7. Frames(sent[s]) = R \o (H \o (W \o unsent[s]))
      BY <2>2, <3>4 DEF Accounts
    <3>8. Frames(sent[s])' = Frames(sent[s]) /\ Frames(received[s])' = R
      BY <1>0, <2>8, FramesStable DEF Receive, history
    <3> DEFINE U == unsent[s]
    <3>9. U \in Bytes
      BY <2>3
    <3> HIDE DEF R, H, W, p, q, U
    <3>10. q \o U \in Bytes
      BY <3>2, <3>9, Closed
    <3>11. Regroups(p, q, U) /\ Regroups(H, p, q \o U)
      BY <2>3, <3>2, <3>9, <3>10, Associative
    <3>12. Accounts(s, v)'
      <4>1. Held(s)' \o v = H \o (W \o U)
        BY <3>2, <3>3, <3>5, <3>11 DEF Regroups, U
      <4> QED
        BY <3>7, <3>8, <4>1 DEF Accounts, U
    <3> QED
      BY <3>5, <3>12, <3>6
  <2>9. ASSUME Disconnect(s)
        PROVE  \E v \in Bytes : OnTheWay(s, v)' /\ Accounts(s, v)'
    <3>1. OnTheWay(s, t)' /\ Accounts(s, t)'
      BY <1>0, <2>2, <2>9, FramesStable DEF Disconnect, OnTheWay, Accounts, Held, history, TypeOK
    <3> QED
      BY <2>2, <3>1
  <2>10. ~Throw(s) /\ ~ReceiveNothing(s)
    BY <1>2 DEF Throw, ReceiveNothing, Served, TypeOK
  <2> QED
    BY <1>2, <2>4, <2>5, <2>6, <2>7, <2>8, <2>9, <2>10 DEF Step, Read
<1> QED
  BY <1>1, <1>2

LEMMA ConservedAlways == Spec => [](TypeOK /\ Conserved)
<1>1. Init => TypeOK /\ Conserved
  BY InitType, InitConserved
<1>2. TypeOK /\ Conserved /\ [Next]_vars => TypeOK' /\ Conserved'
  <2>1. TypeOK /\ UNCHANGED vars => TypeOK'
    BY DEF TypeOK, vars, history
  <2>2. ASSUME Conserved, UNCHANGED vars
        PROVE  Conserved'
    <3>1. framer' = framer
      BY <2>2 DEF vars, history
    <3>2. \A s, t : OnTheWay(s, t)' = OnTheWay(s, t) /\ Accounts(s, t)' = Accounts(s, t)
      BY <2>2, <3>1, FramesStable DEF vars, history, OnTheWay, Accounts, Held
    <3>3. \A s : Served(s)' = Served(s)
      BY <2>2 DEF vars, history, Served, Alone
    <3> QED
      BY <2>2, <3>2, <3>3 DEF Conserved
  <2> QED
    BY <2>1, <2>2, Steps, StepType, StepConserved
<1> QED
  BY <1>1, <1>2, PTL DEF Spec

\* No byte of a connection is lost, repeated or moved.
THEOREM BytesConserved == Spec => []StreamConserved
<1>1. TypeOK /\ Conserved => StreamConserved
  <2> SUFFICES ASSUME TypeOK, Conserved, NEW s \in Sockets,
                      Up(s), framer = "Delimiter" => Alone(s)
               PROVE  Frames(sent[s]) = Frames(received[s]) \o Held(s) \o wire[s] \o unsent[s]
    BY DEF StreamConserved
  <2>1. PICK t \in Bytes : OnTheWay(s, t) /\ Accounts(s, t)
    BY DEF Conserved, Served, Up
  <2> DEFINE R == Frames(received[s])
  <2> DEFINE H == Held(s)
  <2> DEFINE W == wire[s]
  <2> DEFINE U == unsent[s]
  <2>2. R \in Bytes /\ H \in Bytes /\ W \in Bytes /\ U \in Bytes
    BY HeldType, FramesType DEF TypeOK
  <2>3. Frames(sent[s]) = R \o (H \o (W \o U))
    BY <2>1 DEF Up, OnTheWay, Accounts
  <2> HIDE DEF R, H, W, U
  <2>4. R \o H \in Bytes /\ W \o U \in Bytes
    BY <2>2, Closed
  <2>5. Regroups(R \o H, W, U) /\ Regroups(R, H, W \o U)
    BY <2>2, <2>4, Associative
  <2>6. Frames(sent[s]) = ((R \o H) \o W) \o U
    BY <2>3, <2>5 DEF Regroups
  <2> QED
    BY <2>6 DEF R, H, W, U
<1> QED
  BY <1>1, ConservedAlways, PTL

------------------------------------------------------------------------------
(* Messages are returned whole and in order.                                  *)

\* What was returned on s is the start of what was written.
InOrder(s) ==
    /\ Len(received[s]) <= Len(sent[s])
    /\ received[s] = SubSeq(sent[s], 1, Len(received[s]))

\* A FixedLengthFramer was given messages of its length only.
SizesFixed ==
    framer = "FixedLength" =>
        \A s \in Sockets : \A i \in 1..Len(sent[s]) : Len(sent[s][i]) = FixedLength

Ordered == SizesFixed /\ (KeepsMessages => \A s \in Sockets : InOrder(s))

\* A framer that can tell the messages apart returns the one after those it
\* has returned.
LEMMA ReturnsNext ==
  ASSUME TypeOK, Conserved, Ordered, KeepsMessages, NEW s \in Sockets, Return(s)
  PROVE  /\ Len(received[s]) < Len(sent[s])
         /\ Message(Held(s)) = sent[s][Len(received[s]) + 1]
<1> DEFINE b == Held(s)
<1> DEFINE q == sent[s]
<1> DEFINE k == Len(received[s])
<1>1. b \in Bytes /\ q \in Seq(Bytes) /\ q \in Seq(Messages) /\ k \in Nat /\ framer \in Framers
  BY HeldType DEF TypeOK
<1>2. k <= Len(q) /\ received[s] = SubSeq(q, 1, k)
  BY DEF Ordered, InOrder
<1>3. PICK t \in Bytes : Frames(q) = Frames(received[s]) \o (b \o t)
  <2>1. Served(s)
    BY DEF Return, Served, KeepsMessages
  <2> QED
    BY <2>1 DEF Conserved, Accounts
<1>4. Frames(received[s]) \in Bytes /\ b \o t \in Bytes
  BY <1>1, HeldType, FramesType, Closed
<1>5. Complete(b) /\ ~Invalid(b)
  BY DEF Return
<1>6. k < Len(q)
  <2> SUFFICES ASSUME k = Len(q) PROVE FALSE
    BY <1>1, <1>2
  <2>1. received[s] = q
    BY <1>1, <1>2, SubSeqFull
  <2> HIDE DEF b, q, k
  <2>2. Frames(received[s]) \o <<>> = Frames(received[s]) \o (b \o t)
    BY <1>3, <1>4, <2>1, Neutral
  <2>3. b \o t = <<>>
    BY <1>4, <2>2, Cancel, Closed
  <2>4. b = <<>>
    BY <1>1, <2>3, ConcatSimplifications DEF Bytes
  <2> QED
    BY <1>1, <1>5, <2>4, CompleteIsSome
<1> DEFINE m == q[k + 1]
<1>7. m \in Messages /\ k \in 0..Len(q) - 1 /\ k + 1 \in 1..Len(q)
  BY <1>1, <1>6
<1>8. framer = "FixedLength" => Len(m) = FixedLength
  BY <1>7 DEF Ordered, SizesFixed
<1>9. framer = "Delimiter" => Delimitable(m)
  <2>1. m \in Range(q)
    BY <1>1, <1>7 DEF Range
  <2> QED
    BY <2>1 DEF KeepsMessages
<1>10. framer # "NoFraming"
  BY DEF KeepsMessages
<1> HIDE DEF b, q, k
<1>11. PICK r \in Bytes : Follow(q, k, r)
  BY <1>1, <1>7, NextFrame
<1>12. Frame(m) \in Bytes
  BY <1>1, <1>7, FrameType, Constants DEF Bytes
<1>13. Frame(m) \o r = b \o t
  <2>1. Frames(received[s]) \o (Frame(m) \o r) = Frames(received[s]) \o (b \o t)
    BY <1>2, <1>3, <1>11 DEF Follow
  <2>2. Frame(m) \o r \in Bytes
    BY <1>12, Closed
  <2> HIDE DEF m
  <2> QED
    BY <1>4, <2>1, <2>2, Cancel
<1> HIDE DEF m
<1>14. Message(b) = m
  BY <1>1, <1>5, <1>7, <1>8, <1>9, <1>10, <1>13, MessageIsNext
<1> QED
  BY <1>6, <1>14 DEF b, m, q, k

LEMMA StepOrdered ==
  ASSUME TypeOK, Conserved, Ordered, NEW s \in Sockets, Step(s)
  PROVE  Ordered'
<1>0. framer' = framer /\ \A u : Alone(u)' = Alone(u)
  BY DEF Step, Read, Write, WriteRest, Return, Throw, Ask, Receive, ReceiveNothing,
         Disconnect, history, Alone
<1>1. ASSUME NEW m \in Messages, Write(s, m)
      PROVE  Ordered'
  <2> DEFINE q == sent[s]
  <2>1. q \in Seq(Messages) /\ Len(q) \in Nat
    BY DEF TypeOK
  <2>2. sent' = [sent EXCEPT ![s] = Append(q, m)] /\ received' = received
    BY <1>1 DEF Write
  <2>3. sent'[s] = Append(q, m) /\ \A u \in Sockets \ {s} : sent'[u] = sent[u]
    BY <2>2 DEF TypeOK
  <2> HIDE DEF q
  <2>4. /\ Len(Append(q, m)) = Len(q) + 1 /\ Append(q, m)[Len(q) + 1] = m
        /\ \A i \in 1..Len(q) : Append(q, m)[i] = q[i]
    BY <2>1, AppendProperties
  <2>5. SizesFixed'
    <3> SUFFICES ASSUME framer = "FixedLength", NEW u \in Sockets, NEW i \in 1..Len(sent'[u])
                 PROVE  Len(sent'[u][i]) = FixedLength
      BY <1>0 DEF SizesFixed
    <3>1. CASE u = s
      <4>1. CASE i = Len(q) + 1
        BY <1>1, <2>3, <2>4, <3>1, <4>1 DEF Write
      <4>2. CASE i # Len(q) + 1
        <5>1. i \in 1..Len(q)
          BY <2>1, <2>3, <2>4, <3>1, <4>2
        <5> QED
          BY <2>3, <2>4, <3>1, <5>1 DEF Ordered, SizesFixed, q
      <4> QED
        BY <4>1, <4>2
    <3>2. CASE u # s
      BY <2>3, <3>2 DEF Ordered, SizesFixed
    <3> QED
      BY <3>1, <3>2
  <2>6. KeepsMessages' => KeepsMessages
    <3>1. \A u \in Sockets : Range(sent[u]) \subseteq Range(sent'[u])
      <4>1. DOMAIN q = 1..Len(q) /\ DOMAIN Append(q, m) = 1..Len(q) + 1
        BY <2>1, <2>4
      <4>2. Range(q) \subseteq Range(Append(q, m))
        BY <2>1, <2>4, <4>1 DEF Range
      <4> QED
        BY <2>3, <4>2 DEF q
    <3>2. \A n : Delimitable(n)' = Delimitable(n)
      BY DEF Delimitable, DelimiterPlaces, IsDelimiterAt
    <3> QED
      BY <1>0, <3>1, <3>2 DEF KeepsMessages
  <2>7. ASSUME NEW u \in Sockets, InOrder(u)
        PROVE  InOrder(u)'
    <3>1. CASE u = s
      <4> DEFINE k == Len(received[s])
      <4>1. k \in Nat /\ k <= Len(q) /\ received[s] = SubSeq(q, 1, k)
        BY <2>7, <3>1 DEF InOrder, TypeOK, q
      <4> HIDE DEF k
      <4>2. SubSeq(Append(q, m), 1, k) = SubSeq(q, 1, k)
        BY <2>1, <2>4, <4>1
      <4>3. k <= Len(sent'[s]) /\ received[s] = SubSeq(sent'[s], 1, k)
        BY <2>1, <2>3, <2>4, <4>1, <4>2
      <4> QED
        BY <2>2, <3>1, <4>3 DEF InOrder, k
    <3>2. CASE u # s
      BY <2>2, <2>3, <2>7, <3>2 DEF InOrder
    <3> QED
      BY <3>1, <3>2
  <2> QED
    BY <2>5, <2>6, <2>7 DEF Ordered
<1>2. ASSUME sent' = sent
      PROVE  SizesFixed' /\ (KeepsMessages' => KeepsMessages)
  BY <1>0, <1>2 DEF Ordered, SizesFixed, KeepsMessages, Delimitable, DelimiterPlaces, IsDelimiterAt
<1>3. ASSUME Return(s)
      PROVE  Ordered'
  <2>1. sent' = sent /\ received' = [received EXCEPT ![s] = Append(@, Message(Held(s)))]
    BY <1>3 DEF Return
  <2>2. ASSUME KeepsMessages, NEW u \in Sockets
        PROVE  InOrder(u)'
    <3>1. InOrder(u)
      BY <2>2 DEF Ordered
    <3>2. CASE u = s
      <4> DEFINE q == sent[s]
      <4> DEFINE p == received[s]
      <4> DEFINE k == Len(p)
      <4>1. /\ q \in Seq(Messages) /\ Len(q) \in Nat /\ k \in Nat /\ k < Len(q)
            /\ p = SubSeq(q, 1, k) /\ received'[s] = Append(p, q[k + 1])
        BY <1>3, <2>1, <2>2, <3>1, <3>2, ReturnsNext DEF InOrder, TypeOK
      <4> HIDE DEF q, p, k
      <4>2. Append(SubSeq(q, 1, k), q[k + 1]) = SubSeq(q, 1, k + 1)
        <5>1. \A i \in 1..Len(q) : q[i] \in Messages
          BY <4>1
        <5>2. SubSeq(q, 1, k) \in Seq(Messages) /\ Len(SubSeq(q, 1, k)) = k
              /\ \A i \in 1..k : SubSeq(q, 1, k)[i] = q[i]
          BY <4>1, <5>1, SubSeqProperties
        <5>3. SubSeq(q, 1, k + 1) \in Seq(Messages) /\ Len(SubSeq(q, 1, k + 1)) = k + 1
              /\ \A i \in 1..k + 1 : SubSeq(q, 1, k + 1)[i] = q[i]
          BY <4>1, <5>1, SubSeqProperties
        <5> DEFINE a == Append(SubSeq(q, 1, k), q[k + 1])
        <5>4. /\ a \in Seq(Messages) /\ Len(a) = k + 1 /\ a[k + 1] = q[k + 1]
              /\ \A i \in 1..k : a[i] = q[i]
          BY <4>1, <5>1, <5>2, AppendProperties
        <5> HIDE DEF a
        <5>5. \A i \in 1..k + 1 : a[i] = SubSeq(q, 1, k + 1)[i]
          <6> SUFFICES ASSUME NEW i \in 1..k + 1
                       PROVE  a[i] = SubSeq(q, 1, k + 1)[i]
            OBVIOUS
          <6>1. i = k + 1 \/ i \in 1..k
            BY <4>1
          <6> QED
            BY <5>3, <5>4, <6>1
        <5>6. a = SubSeq(q, 1, k + 1)
          BY <5>3, <5>4, <5>5, SeqEqual
        <5> QED
          BY <5>6 DEF a
      <4>3. Len(received'[s]) = k + 1
        <5>1. p \in Seq(Seq(Byte)) /\ q[k + 1] \in Seq(Byte)
          <6>1. p \in Seq(Seq(Byte))
            BY DEF TypeOK, p
          <6>2. q[k + 1] \in Messages
            BY <4>1
          <6> QED
            BY <6>1, <6>2, Constants
        <5> QED
          BY <4>1, <5>1, AppendProperties DEF k
      <4>4. k + 1 <= Len(q) /\ received'[s] = SubSeq(q, 1, k + 1)
        BY <4>1, <4>2
      <4> QED
        BY <2>1, <3>2, <4>3, <4>4 DEF InOrder, q
    <3>3. CASE u # s
      BY <2>1, <3>1, <3>3 DEF InOrder, TypeOK
    <3> QED
      BY <3>2, <3>3
  <2> QED
    BY <1>2, <2>1, <2>2 DEF Ordered
<1>4. ASSUME UNCHANGED history
      PROVE  Ordered'
  BY <1>2, <1>4 DEF Ordered, InOrder, history
<1> QED
  BY <1>1, <1>3, <1>4 DEF Step, Read, WriteRest, Throw, Ask, Receive, ReceiveNothing, Disconnect

LEMMA InitOrdered == Init => Ordered
<1> SUFFICES ASSUME Init, NEW s \in Sockets
             PROVE  InOrder(s) /\ Len(sent[s]) = 0
  BY DEF Ordered, SizesFixed, Init
<1>1. sent[s] = <<>> /\ received[s] = <<>>
  BY DEF Init
<1> QED
  BY <1>1 DEF InOrder

\* What a framer that can tell the messages apart has returned is the start of
\* what was written.
LEMMA OrderedAlways == Spec => [](TypeOK /\ Conserved /\ Ordered)
<1>1. Init => Ordered
  BY InitOrdered
<1>2. TypeOK /\ Conserved /\ Ordered /\ [Next]_vars => Ordered'
  <2>1. Ordered /\ UNCHANGED vars => Ordered'
    BY DEF Ordered, SizesFixed, KeepsMessages, Delimitable, DelimiterPlaces, IsDelimiterAt,
           Alone, InOrder, vars, history
  <2> QED
    BY <2>1, Steps, StepOrdered
<1> QED
  BY <1>1, <1>2, ConservedAlways, PTL DEF Spec

------------------------------------------------------------------------------
(* The channel.                                                               *)

LEMMA StepUp ==
  ASSUME TypeOK, NEW s \in Sockets, Step(s)
  PROVE  \A u \in Sockets \ {s} : Up(u)' = Up(u)
BY OthersKeep DEF Up

LEMMA StepRefines ==
  ASSUME TypeOK, Conserved, Ordered, KeepsMessages, NEW s \in Sockets, Step(s)
  PROVE  [Channel!Next]_(Channel!vars)
<1> DEFINE up == [u \in Sockets |-> Up(u)]
<1>0. \A u \in Sockets : Up(u) \in BOOLEAN
  BY DEF Up, TypeOK
<1>1. ASSUME NEW m \in Messages, Write(s, m)
      PROVE  Channel!Next
  <2>1. Up(s) /\ Up(s)' /\ \A u \in Sockets \ {s} : Up(u)' = Up(u)
    BY <1>1, StepUp DEF Write, Up
  <2>2. up' = up
    BY <1>0, <2>1
  <2>3. Channel!Send(s, m)
    BY <1>1, <2>1, <2>2 DEF Write, Channel!Send
  <2> QED
    BY <2>3 DEF Channel!Next
<1>2. ASSUME Return(s)
      PROVE  Channel!Next
  <2>1. up' = up
    BY <1>2 DEF Return, Up
  <2>2. Len(received[s]) < Len(sent[s]) /\ Message(Held(s)) = sent[s][Len(received[s]) + 1]
    BY <1>2, ReturnsNext
  <2>3. Channel!Deliver(s)
    BY <1>2, <2>1, <2>2 DEF Return, Channel!Deliver
  <2> QED
    BY <2>3 DEF Channel!Next
<1>3. ASSUME UNCHANGED history, Up(s)' => Up(s)
      PROVE  [Channel!Next]_(Channel!vars)
  <2>1. \A u \in Sockets \ {s} : Up(u)' = Up(u)
    BY StepUp
  <2>2. CASE Up(s)' \/ ~Up(s)
    <3>1. Up(s)' = Up(s)
      BY <1>3, <2>2 DEF Up
    <3> QED
      BY <1>3, <2>1, <3>1 DEF Channel!vars, history
  <2>3. CASE Up(s) /\ ~Up(s)'
    <3>1. up' = [up EXCEPT ![s] = FALSE]
      <4>1. \A u \in Sockets : Up(u)' = IF u = s THEN FALSE ELSE Up(u)
        <5>1. Up(s)' = FALSE
          BY <2>3 DEF Up
        <5> QED
          BY <2>1, <5>1
      <4>2. up' = [u \in Sockets |-> IF u = s THEN FALSE ELSE Up(u)]
        BY <4>1
      <4> QED
        BY <4>2
    <3>2. Channel!Break(s)
      BY <1>3, <2>3, <3>1 DEF Channel!Break, history
    <3> QED
      BY <3>2 DEF Channel!Next
  <2> QED
    BY <1>3, <2>2, <2>3
<1>4. ASSUME WriteRest(s) \/ Ask(s) \/ Receive(s) \/ Throw(s) \/ ReceiveNothing(s) \/ Disconnect(s)
      PROVE  UNCHANGED history /\ (Up(s)' => Up(s))
  <2>1. UNCHANGED history
    BY <1>4 DEF WriteRest, Ask, Receive, Throw, ReceiveNothing, Disconnect
  <2>2. open'[s] => open[s]
    BY <1>4 DEF WriteRest, Ask, Receive, Throw, ReceiveNothing, Disconnect, TypeOK
  <2>3. reader[s] = "failed" => reader'[s] = "failed"
    BY <1>4 DEF WriteRest, Ask, Receive, Throw, ReceiveNothing, Disconnect, TypeOK
  <2> QED
    BY <2>1, <2>2, <2>3 DEF Up
<1> QED
  BY <1>1, <1>2, <1>3, <1>4 DEF Step, Read

\* Under KeepsMessages the framers implement the channel: each read returns
\* the next message that was written, whole.
THEOREM Refinement == Spec => ImplementsChannel
<1>1. Init => Channel!Init
  BY DEF Init, Channel!Init, Up
<1>2. TypeOK /\ Conserved /\ Ordered /\ [Next]_vars
        => [KeepsMessages => [Channel!Next]_(Channel!vars)]_vars
  BY Steps, StepRefines
<1> QED
  BY <1>1, <1>2, OrderedAlways, PTL DEF Spec, ImplementsChannel
===============================================================================
