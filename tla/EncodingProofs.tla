--------------------------- MODULE EncodingProofs ---------------------------
(* Proofs about the conversions of utils.go and paymaster.go, for numbers of   *)
(* any size and any base, and about what the methods of bundler.go make of any *)
(* response, with return data of any length.                                *)
EXTENDS Encoding, FiniteSetTheorems, SequenceTheorems, TLAPS

-----------------------------------------------------------------------------
(* Induction.                                                               *)

\* A set of numbers that has 0 and the successor of each of its members has them
\* all: otherwise the members up to a number that is missing would be one fewer
\* than they are.
LEMMA Induction ==
  ASSUME NEW S \in SUBSET Nat, 0 \in S, \A n \in S : n + 1 \in S
  PROVE  S = Nat
<1> SUFFICES ASSUME NEW n \in Nat, n \notin S
             PROVE  FALSE
  OBVIOUS
<1> DEFINE P == {k \in 0 .. n : 0 .. k \subseteq S}
           d == Cardinality(P)
<1>1. \A j \in P : \A i \in 0 .. j : i \in P
  OBVIOUS
<1>2. 0 \in P /\ n \notin P /\ P \in SUBSET (0 .. n)
  OBVIOUS
<1>3. \A k \in P : k + 1 \in P
  OBVIOUS
<1>4. IsFiniteSet(P) /\ d \in Nat
  <2>1. IsFiniteSet(0 .. n)
    BY FS_Interval
  <2>2. IsFiniteSet(P)
    BY ONLY <1>2, <2>1, FS_Subset
  <2> QED
    BY ONLY <2>2, FS_CardinalityType
<1> HIDE DEF P
<1>5. \A k \in Int : P \subseteq 0 .. k /\ k >= -1 => d <= k + 1
  <2> SUFFICES ASSUME NEW k \in Int, P \subseteq 0 .. k, k >= -1
               PROVE  d <= k + 1
    OBVIOUS
  <2>0. P \in SUBSET (0 .. k)
    OBVIOUS
  <2>1. /\ IsFiniteSet(0 .. k)
        /\ Cardinality(0 .. k) = IF 0 > k THEN 0 ELSE k - 0 + 1
    BY FS_Interval
  <2>2. Cardinality(P) <= Cardinality(0 .. k)
    BY ONLY <2>0, <2>1, FS_Subset
  <2> QED
    BY <2>1, <2>2
<1>6. \A k \in P : k + 1 <= d
  <2> SUFFICES ASSUME NEW k \in P
               PROVE  k + 1 <= d
    OBVIOUS
  <2>1. k \in Nat /\ 0 .. k \subseteq P
    BY <1>1, <1>2
  <2>2. Cardinality(0 .. k) = k + 1
    BY <2>1, FS_Interval
  <2>3. Cardinality(0 .. k) <= Cardinality(P)
    BY ONLY <1>4, <2>1, FS_Subset
  <2> QED
    BY <2>2, <2>3
<1> HIDE DEF d
<1>7. d \notin P
  BY <1>4, <1>6
<1>8. P \subseteq 0 .. d - 1
  BY <1>1, <1>2, <1>4, <1>6, <1>7
<1>9. d >= 1
  BY <1>2, <1>4, <1>6
<1>10. d - 1 \notin P
  BY <1>3, <1>4, <1>7, <1>9
<1>11. P \subseteq 0 .. d - 2
  BY <1>8, <1>10, <1>4, <1>9
<1>12. d <= (d - 2) + 1
  BY <1>5, <1>11, <1>4, <1>9
<1> QED
  BY <1>12, <1>4

\* The same, with all smaller numbers for the induction.
LEMMA StrongInduction ==
  ASSUME NEW S \in SUBSET Nat,
         \A n \in Nat : (\A m \in Nat : m < n => m \in S) => n \in S
  PROVE  S = Nat
<1> DEFINE T == {n \in Nat : \A m \in 0 .. n : m \in S}
<1>1. 0 \in S
  BY \A m \in Nat : ~(m < 0)
<1>2. ASSUME NEW n \in T
      PROVE  n + 1 \in T
  <2>1. \A m \in Nat : m < n + 1 => m \in S
    OBVIOUS
  <2>2. n + 1 \in S
    BY <2>1
  <2> QED
    BY <2>1, <2>2
<1>3. T \in SUBSET Nat /\ 0 \in T
  BY <1>1
<1> HIDE DEF T
<1>4. T = Nat
  BY <1>2, <1>3, Induction
<1>5. \A n \in Nat : n \in 0 .. n
  OBVIOUS
<1>6. \A n \in Nat : n \in S
  BY <1>4, <1>5 DEF T
<1> QED
  BY <1>6

\* A set of numbers has a greatest if it has one and none above some bound.
LEMMA Greatest ==
  ASSUME NEW b \in Nat, NEW S \in SUBSET (0 .. b), 0 \in S
  PROVE  \E n \in S : \A m \in S : m <= n
<1> SUFFICES ASSUME \A n \in S : \E m \in S : m > n
             PROVE  FALSE
  OBVIOUS
<1> DEFINE T == {n \in Nat : \E m \in S : m > n}
<1>1. 0 \in T /\ T \in SUBSET Nat
  OBVIOUS
<1>2. ASSUME NEW n \in T
      PROVE  n + 1 \in T
  <2>1. PICK m \in S : m > n
    OBVIOUS
  <2>2. PICK k \in S : k > m
    OBVIOUS
  <2> QED
    BY <2>1, <2>2
<1>3. b \notin T
  OBVIOUS
<1> HIDE DEF T
<1>4. T = Nat
  BY <1>1, <1>2, Induction
<1> QED
  BY <1>3, <1>4

-----------------------------------------------------------------------------
(* The number that digits write.                                            *)

\* value[i] is the number of the first i digits, for i up to n.
WritesTo(n, base, digits, value) ==
  /\ value \in [0 .. n -> Nat]
  /\ value[0] = 0
  /\ \A i \in 1 .. n : value[i] = value[i - 1] * base + digits[i]

Writes(base, digits, value) == WritesTo(Len(digits), base, digits, value)

LEMMA Closed == \A a, b, c \in Nat : a * b + c \in Nat
OBVIOUS

LEMMA WritesExists ==
  ASSUME NEW base \in Nat, NEW digits \in Seq(Nat)
  PROVE  \E value : Writes(base, digits, value)
<1> DEFINE S == {m \in Nat : m <= Len(digits) => \E value : WritesTo(m, base, digits, value)}
<1>1. Len(digits) \in Nat /\ \A i \in 1 .. Len(digits) : digits[i] \in Nat
  BY LenProperties, ElementOfSeq
<1>2. \E value : WritesTo(0, base, digits, value)
  <2> DEFINE value == [i \in 0 .. 0 |-> 0]
  <2>1. WritesTo(0, base, digits, value)
    BY DEF WritesTo
  <2> QED
    BY <2>1
<1>3. ASSUME NEW m \in Nat, NEW old, WritesTo(m, base, digits, old), m + 1 <= Len(digits)
      PROVE  \E value : WritesTo(m + 1, base, digits, value)
  <2> DEFINE value == [i \in 0 .. m + 1 |-> IF i = m + 1 THEN old[m] * base + digits[m + 1] ELSE old[i]]
  <2>1. /\ old \in [0 .. m -> Nat] /\ old[0] = 0
        /\ \A i \in 1 .. m : old[i] = old[i - 1] * base + digits[i]
    BY <1>3 DEF WritesTo
  <2>2. old[m] * base + digits[m + 1] \in Nat
    BY <1>1, <1>3, <2>1, Closed
  <2>3. value \in [0 .. m + 1 -> Nat]
    BY <1>3, <2>1, <2>2
  <2>4. /\ value[0] = 0 /\ value[m + 1] = old[m] * base + digits[m + 1]
        /\ \A i \in 0 .. m : value[i] = old[i]
    BY <1>3, <2>1
  <2> HIDE DEF value
  <2>5. \A i \in 1 .. m + 1 : value[i] = value[i - 1] * base + digits[i]
    <3> SUFFICES ASSUME NEW i \in 1 .. m + 1
                 PROVE  value[i] = value[i - 1] * base + digits[i]
      OBVIOUS
    <3>1. CASE i = m + 1
      <4>1. i - 1 = m /\ m \in 0 .. m
        BY <1>3, <3>1
      <4> QED
        BY <2>4, <3>1, <4>1
    <3>2. CASE i \in 1 .. m
      <4>1. i - 1 \in 0 .. m /\ i \in 0 .. m
        BY <1>3, <3>2
      <4>2. value[i - 1] = old[i - 1] /\ value[i] = old[i]
        BY <2>4, <4>1
      <4> QED
        BY <2>1, <3>2, <4>2
    <3> QED
      BY <1>3, <3>1, <3>2
  <2> QED
    BY <2>3, <2>4, <2>5 DEF WritesTo
<1>4. S \in SUBSET Nat /\ 0 \in S
  BY <1>2
<1>5. ASSUME NEW m \in S
      PROVE  m + 1 \in S
  <2>1. m \in Nat /\ (m <= Len(digits) => \E value : WritesTo(m, base, digits, value))
    OBVIOUS
  <2>2. m + 1 <= Len(digits) => \E value : WritesTo(m + 1, base, digits, value)
    <3> HAVE m + 1 <= Len(digits)
    <3>1. PICK old : WritesTo(m, base, digits, old)
      BY <1>1, <2>1
    <3> QED
      BY <1>3, <2>1, <3>1
  <2> QED
    BY <2>1, <2>2
<1> HIDE DEF S
<1>6. S = Nat
  BY <1>4, <1>5, Induction
<1>7. Len(digits) \in S /\ Len(digits) <= Len(digits)
  BY <1>1, <1>6
<1>8. \E value : WritesTo(Len(digits), base, digits, value)
  BY <1>7 DEF S
<1> QED
  BY <1>8 DEF Writes

LEMMA WritesOnce ==
  ASSUME NEW base \in Nat, NEW digits \in Seq(Nat), NEW v, NEW w,
         Writes(base, digits, v), Writes(base, digits, w)
  PROVE  v[Len(digits)] = w[Len(digits)]
<1> DEFINE S == {m \in Nat : m <= Len(digits) => v[m] = w[m]}
<1>1. Len(digits) \in Nat
  BY LenProperties
<1>2. 0 \in S /\ S \in SUBSET Nat
  BY DEF Writes, WritesTo
<1>3. ASSUME NEW m \in S
      PROVE  m + 1 \in S
  <2> SUFFICES ASSUME m + 1 <= Len(digits)
               PROVE  v[m + 1] = w[m + 1]
    OBVIOUS
  <2>1. m + 1 \in 1 .. Len(digits) /\ (m + 1) - 1 = m /\ v[m] = w[m]
    BY <1>1
  <2> QED
    BY <2>1 DEF Writes, WritesTo
<1> HIDE DEF S
<1>4. S = Nat
  BY <1>2, <1>3, Induction
<1> QED
  BY <1>1, <1>4 DEF S

\* NumberOf by any function that writes it.
LEMMA NumberOfIs ==
  ASSUME NEW base \in Nat, NEW digits \in Seq(Nat), NEW v, Writes(base, digits, v)
  PROVE  NumberOf(base, digits) = v[Len(digits)] /\ v[Len(digits)] \in Nat
<1> DEFINE Eq(value) == value = [i \in 0 .. Len(digits) |->
                                   IF i = 0 THEN 0 ELSE value[i - 1] * base + digits[i]]
           w == CHOOSE value : Eq(value)
<1>1. Len(digits) \in Nat /\ \A i \in 1 .. Len(digits) : digits[i] \in Nat
  BY LenProperties, ElementOfSeq
<1>2. NumberOf(base, digits) = w[Len(digits)]
  BY Zenon DEF NumberOf
<1>3. Eq(v)
  BY <1>1 DEF Writes, WritesTo
<1>4. Eq(w)
  BY <1>3, Zenon
<1> HIDE DEF w
<1>5. w[0] = 0 /\ \A i \in 1 .. Len(digits) : w[i] = w[i - 1] * base + digits[i]
  BY <1>1, <1>4
<1>6. w \in [0 .. Len(digits) -> Nat]
  <2> DEFINE S == {m \in Nat : m <= Len(digits) => w[m] \in Nat}
  <2>1. 0 \in S /\ S \in SUBSET Nat
    BY <1>5
  <2>2. ASSUME NEW m \in S
        PROVE  m + 1 \in S
    <3> SUFFICES ASSUME m + 1 <= Len(digits)
                 PROVE  w[m + 1] \in Nat
      OBVIOUS
    <3>1. m + 1 \in 1 .. Len(digits) /\ (m + 1) - 1 = m /\ w[m] \in Nat
      BY <1>1
    <3>2. w[m + 1] = w[m] * base + digits[m + 1] /\ digits[m + 1] \in Nat
      BY <1>1, <1>5, <3>1
    <3>3. w[m] * base + digits[m + 1] \in Nat
      BY <3>1, <3>2, Closed
    <3> QED
      BY ONLY <3>2, <3>3
  <2> HIDE DEF S
  <2>3. S = Nat
    BY <2>1, <2>2, Induction
  <2>4. \A i \in 0 .. Len(digits) : w[i] \in Nat
    BY <1>1, <2>3 DEF S
  <2>5. w = [i \in 0 .. Len(digits) |-> w[i]]
    BY <1>4
  <2> QED
    BY <2>4, <2>5
<1>7. Writes(base, digits, w)
  BY <1>5, <1>6 DEF Writes, WritesTo
<1>8. v[Len(digits)] = w[Len(digits)]
  BY <1>7, WritesOnce
<1>9. v[Len(digits)] \in Nat
  BY <1>1 DEF Writes, WritesTo
<1> QED
  BY <1>2, <1>8, <1>9

\* The digits one by one.
LEMMA NumberOfNone ==
  ASSUME NEW base \in Nat
  PROVE  NumberOf(base, <<>>) = 0
<1> DEFINE v == [i \in 0 .. 0 |-> 0]
<1>1. <<>> \in Seq(Nat) /\ Len(<<>>) = 0
  OBVIOUS
<1>2. Writes(base, <<>>, v)
  BY <1>1 DEF Writes, WritesTo
<1>3. NumberOf(base, <<>>) = v[Len(<<>>)]
  BY ONLY <1>1, <1>2, base \in Nat, NumberOfIs
<1> QED
  BY <1>1, <1>3

LEMMA NumberOfMore ==
  ASSUME NEW base \in Nat, NEW digits \in Seq(Nat), NEW d \in Nat
  PROVE  NumberOf(base, Append(digits, d)) = NumberOf(base, digits) * base + d
<1> DEFINE more == Append(digits, d)
           n == Len(digits)
<1>1. PICK v : Writes(base, digits, v)
  BY WritesExists
<1>3. n \in Nat /\ more \in Seq(Nat) /\ Len(more) = n + 1 /\ more[n + 1] = d
      /\ \A i \in 1 .. n : more[i] = digits[i]
  BY LenProperties
<1>2. PICK w : Writes(base, more, w)
  <2> HIDE DEF more
  <2> QED
    BY <1>3, WritesExists
<1> HIDE DEF more, n
<1> DEFINE u == [i \in 0 .. n |-> w[i]]
<1>4. u[n] = w[n] /\ Writes(base, digits, u)
  <2>0. w[0] = 0 /\ \A i \in 0 .. n : w[i] \in Nat
    <3>1. w \in [0 .. n + 1 -> Nat] /\ w[0] = 0
      BY <1>2, <1>3 DEF Writes, WritesTo
    <3> QED
      BY <3>1, <1>3
  <2>1. u \in [0 .. n -> Nat] /\ u[0] = 0 /\ \A i \in 0 .. n : u[i] = w[i]
    BY <2>0, <1>3
  <2> HIDE DEF u
  <2>2. ASSUME NEW i \in 1 .. n
        PROVE  u[i] = u[i - 1] * base + digits[i]
    <3>1. i \in 0 .. n /\ i - 1 \in 0 .. n /\ i \in 1 .. n + 1
      BY <1>3
    <3>2. w[i] = w[i - 1] * base + more[i]
      BY <1>2, <1>3, <3>1 DEF Writes, WritesTo
    <3> QED
      BY <1>3, <2>1, <3>1, <3>2
  <2>3. n \in 0 .. n
    BY <1>3
  <2> QED
    BY <2>1, <2>2, <2>3 DEF Writes, WritesTo, n
<1> HIDE DEF u
<1>5. NumberOf(base, digits) = w[n]
  BY <1>4, NumberOfIs DEF n
<1>6. NumberOf(base, more) = w[n + 1]
  BY <1>2, <1>3, NumberOfIs
<1>7. w[n + 1] = w[n] * base + d
  <2>1. n + 1 \in 1 .. n + 1 /\ (n + 1) - 1 = n
    BY <1>3
  <2> QED
    BY <1>2, <1>3, <2>1 DEF Writes, WritesTo
<1> QED
  BY <1>5, <1>6, <1>7 DEF more

\* Zeros in front do not count.
LEMMA NumberOfPadded ==
  ASSUME NEW base \in Nat, NEW digits \in Seq(Nat), NEW k \in Nat
  PROVE  NumberOf(base, [i \in 1 .. k |-> 0] \o digits) = NumberOf(base, digits)
<1> DEFINE zeros == [i \in 1 .. k |-> 0]
           all == zeros \o digits
           n == Len(digits)
<1>1. PICK v : Writes(base, digits, v)
  BY WritesExists
<1>2. zeros \in Seq(Nat) /\ Len(zeros) = k
  OBVIOUS
<1>3. /\ n \in Nat /\ all \in Seq(Nat) /\ Len(all) = k + n
      /\ \A i \in 1 .. k : all[i] = 0
      /\ \A i \in k + 1 .. k + n : all[i] = digits[i - k]
  <2>1. /\ all \in Seq(Nat) /\ Len(all) = Len(zeros) + Len(digits) /\ Len(digits) \in Nat
        /\ \A i \in 1 .. Len(zeros) + Len(digits) :
             all[i] = IF i <= Len(zeros) THEN zeros[i] ELSE digits[i - Len(zeros)]
    BY <1>2, LenProperties, ConcatProperties
  <2> QED
    BY <1>2, <2>1
<1> DEFINE w == [i \in 0 .. k + n |-> IF i <= k THEN 0 ELSE v[i - k]]
<1>4. v \in [0 .. n -> Nat] /\ v[0] = 0 /\ \A i \in 1 .. n : v[i] = v[i - 1] * base + digits[i]
  BY <1>1 DEF Writes, WritesTo
<1> HIDE DEF all, n, zeros
<1>5. w \in [0 .. k + n -> Nat] /\ \A i \in 0 .. k : w[i] = 0
  <2>1. \A i \in 0 .. k + n : i > k => i - k \in 0 .. n
    BY <1>3
  <2>2. \A i \in 0 .. k : i \in 0 .. k + n
    BY <1>3
  <2>3. \A i \in 0 .. n : v[i] \in Nat
    BY <1>4
  <2>4. \A i \in 0 .. k + n : w[i] \in Nat
    BY <1>3, <2>1, <2>3
  <2>5. w \in [0 .. k + n -> Nat]
    BY <2>4
  <2> QED
    BY <2>2, <2>5
<1>6. \A i \in k .. k + n : w[i] = v[i - k]
  BY <1>3, <1>4
<1> HIDE DEF w
<1>7. ASSUME NEW i \in 1 .. k + n
      PROVE  w[i] = w[i - 1] * base + all[i]
  <2>1. CASE i <= k
    <3>1. i \in 0 .. k /\ i - 1 \in 0 .. k /\ i \in 1 .. k
      BY <2>1, <1>3
    <3>2. w[i] = 0 /\ w[i - 1] = 0 /\ all[i] = 0
      BY <1>3, <1>5, <3>1
    <3> QED
      BY <3>2
  <2>2. CASE i > k
    <3>1. i \in k + 1 .. k + n /\ i \in k .. k + n /\ i - 1 \in k .. k + n
          /\ i - k \in 1 .. n /\ (i - 1) - k = (i - k) - 1
      BY <2>2, <1>3
    <3>2. w[i] = v[i - k] /\ w[i - 1] = v[(i - k) - 1] /\ all[i] = digits[i - k]
      BY <1>3, <1>6, <3>1
    <3> QED
      BY <1>4, <3>1, <3>2
  <2> QED
    BY <2>1, <2>2, <1>3
<1>8. 0 \in 0 .. k /\ k + n \in k .. k + n /\ (k + n) - k = n
  BY <1>3
<1>9. Writes(base, all, w)
  BY <1>3, <1>5, <1>7, <1>8 DEF Writes, WritesTo
<1>10. NumberOf(base, all) = w[k + n]
  <2>1. NumberOf(base, all) = w[Len(all)]
    BY <1>3, <1>9, NumberOfIs
  <2> QED
    BY <1>3, <2>1
<1>11. w[k + n] = v[n]
  BY <1>6, <1>8
<1>12. NumberOf(base, digits) = v[n]
  BY <1>1, NumberOfIs DEF n
<1> QED
  BY <1>10, <1>11, <1>12 DEF all, zeros

-----------------------------------------------------------------------------
(* The bytes of a number.                                                   *)

\* What is left of n without its last byte, and that byte.
Rest(n) == n \div ByteBase

Low(n) == n % ByteBase

LEMMA Divide ==
  ASSUME EncodingAssumption, NEW n \in Nat
  PROVE  /\ ByteBase \in Nat /\ Bytes \subseteq Nat /\ 0 \in Bytes
         /\ Rest(n) \in Nat /\ Low(n) \in Bytes
         /\ n = Rest(n) * ByteBase + Low(n)
         /\ n # 0 => Rest(n) < n
<1>1. ByteBase \in Nat \ {0, 1}
  BY DEF EncodingAssumption, ByteBase
<1>2. \A base \in Nat \ {0, 1} :
        /\ n \div base \in Nat /\ n % base \in 0 .. base - 1
        /\ n = (n \div base) * base + (n % base)
        /\ n # 0 => n \div base < n
  <2> TAKE base \in Nat \ {0, 1}
  <2>1. /\ n \div base \in Nat /\ n % base \in 0 .. base - 1
        /\ n = (n \div base) * base + (n % base)
    OBVIOUS
  <2> QED
    BY <2>1
<1>3. /\ Rest(n) \in Nat /\ Low(n) \in 0 .. ByteBase - 1
      /\ n = Rest(n) * ByteBase + Low(n)
      /\ n # 0 => Rest(n) < n
  BY <1>1, <1>2, Zenon DEF Rest, Low
<1>4. Bytes \subseteq Nat /\ 0 \in Bytes /\ 0 .. ByteBase - 1 = Bytes
  BY <1>1 DEF Bytes
<1> QED
  BY ONLY <1>1, <1>3, <1>4, Zenon

LEMMA BytesAreNumbers ==
  ASSUME EncodingAssumption, NEW s \in Seq(Bytes)
  PROVE  s \in Seq(Nat)
<1>1. Bytes \subseteq Nat
  BY Divide
<1>2. Len(s) \in Nat /\ s = [i \in 1 .. Len(s) |-> s[i]] /\ \A i \in 1 .. Len(s) : s[i] \in Nat
  BY <1>1, LenProperties, ElementOfSeq
<1> QED
  BY <1>2

\* g[k] are the bytes of k, for k up to n.
BytesTo(n, g) ==
  /\ g \in [0 .. n -> Seq(Bytes)]
  /\ \A k \in 0 .. n :
       g[k] = IF k = 0 THEN <<>> ELSE Append(g[Rest(k)], Low(k))

LEMMA BytesExist ==
  ASSUME EncodingAssumption, NEW n \in Nat
  PROVE  \E g : BytesTo(n, g)
<1> DEFINE S == {m \in Nat : \E g : BytesTo(m, g)}
<1>1. \E g : BytesTo(0, g)
  <2> DEFINE g == [k \in 0 .. 0 |-> <<>>]
  <2>1. BytesTo(0, g)
    BY DEF BytesTo
  <2> QED
    BY <2>1
<1>2. ASSUME NEW m \in Nat, NEW g, BytesTo(m, g)
      PROVE  \E h : BytesTo(m + 1, h)
  <2> DEFINE last == Append(g[Rest(m + 1)], Low(m + 1))
             h == [k \in 0 .. m + 1 |-> IF k = m + 1 THEN last ELSE g[k]]
  <2>1. /\ g \in [0 .. m -> Seq(Bytes)]
        /\ \A k \in 0 .. m :
             g[k] = IF k = 0 THEN <<>> ELSE Append(g[Rest(k)], Low(k))
    BY <1>2 DEF BytesTo
  <2>2. Rest(m + 1) \in 0 .. m /\ Low(m + 1) \in Bytes
    BY <1>2, Divide
  <2>3. last \in Seq(Bytes)
    BY <2>1, <2>2
  <2> HIDE DEF last
  <2>4. h \in [0 .. m + 1 -> Seq(Bytes)] /\ h[m + 1] = last /\ \A k \in 0 .. m : h[k] = g[k]
    BY <1>2, <2>1, <2>3
  <2> HIDE DEF h
  <2>5. ASSUME NEW k \in 0 .. m + 1
        PROVE  h[k] = IF k = 0 THEN <<>> ELSE Append(h[Rest(k)], Low(k))
    <3>1. CASE k = 0
      BY <1>2, <2>1, <2>4, <3>1
    <3>2. CASE k = m + 1
      <4>1. k # 0 /\ h[k] = last /\ Rest(k) = Rest(m + 1) /\ Low(k) = Low(m + 1)
        BY <1>2, <2>4, <3>2
      <4>2. last = Append(h[Rest(m + 1)], Low(m + 1))
        BY <2>2, <2>4 DEF last
      <4> QED
        BY <4>1, <4>2
    <3>3. CASE k # 0 /\ k # m + 1
      <4>1. k \in 0 .. m /\ Rest(k) \in 0 .. m
        BY <1>2, <3>3, Divide
      <4> QED
        BY <2>1, <2>4, <3>3, <4>1
    <3> QED
      BY <3>1, <3>2, <3>3
  <2>6. BytesTo(m + 1, h)
    BY <2>4, <2>5 DEF BytesTo
  <2> QED
    BY <2>6
<1>3. S \in SUBSET Nat /\ 0 \in S
  BY <1>1
<1>4. ASSUME NEW m \in S
      PROVE  m + 1 \in S
  BY <1>2
<1> HIDE DEF S
<1>5. S = Nat
  BY <1>3, <1>4, Induction
<1> QED
  BY <1>5 DEF S

LEMMA BytesOnce ==
  ASSUME EncodingAssumption, NEW m \in Nat, NEW n \in Nat, NEW g, NEW h,
         BytesTo(m, g), BytesTo(n, h), NEW k \in Nat, k <= m, k <= n
  PROVE  g[k] = h[k]
<1> DEFINE S == {i \in Nat : i <= m /\ i <= n => g[i] = h[i]}
<1>1. ASSUME NEW i \in Nat, \A j \in Nat : j < i => j \in S
      PROVE  i \in S
  <2> SUFFICES ASSUME i <= m, i <= n
               PROVE  g[i] = h[i]
    OBVIOUS
  <2>1. i \in 0 .. m /\ i \in 0 .. n
    OBVIOUS
  <2>2. CASE i = 0
    BY <2>1, <2>2 DEF BytesTo
  <2>3. CASE i # 0
    <3>1. Rest(i) \in Nat /\ Rest(i) < i
      BY <2>3, Divide
    <3>2. g[Rest(i)] = h[Rest(i)]
      BY <1>1, <3>1
    <3> QED
      BY <2>1, <2>3, <3>2 DEF BytesTo
  <2> QED
    BY <2>2, <2>3
<1>2. S \in SUBSET Nat
  OBVIOUS
<1> HIDE DEF S
<1>3. S = Nat
  BY <1>1, <1>2, StrongInduction
<1> QED
  BY <1>3 DEF S

\* BigBytes is what its definition says.
LEMMA BigBytesIs ==
  ASSUME EncodingAssumption
  PROVE  BigBytes = [n \in Nat |->
                       IF n = 0 THEN <<>> ELSE Append(BigBytes[Rest(n)], Low(n))]
<1> DEFINE G(n) == CHOOSE g : BytesTo(n, g)
           f == [n \in Nat |-> G(n)[n]]
<1>1. \A n \in Nat : BytesTo(n, G(n))
  BY BytesExist
<1> HIDE DEF G
<1>2. ASSUME NEW n \in Nat
      PROVE  f[n] = IF n = 0 THEN <<>> ELSE Append(f[Rest(n)], Low(n))
  <2>1. n \in 0 .. n /\ BytesTo(n, G(n))
    BY <1>1
  <2>2. G(n)[n] = IF n = 0 THEN <<>> ELSE Append(G(n)[Rest(n)], Low(n))
    BY <2>1 DEF BytesTo
  <2>3. n # 0 => G(n)[Rest(n)] = f[Rest(n)]
    <3> HAVE n # 0
    <3> DEFINE k == Rest(n)
    <3>1. k \in Nat /\ k <= n /\ k <= k
      <4>1. k \in Nat /\ k < n
        BY Divide
      <4> HIDE DEF k
      <4> QED
        BY <4>1
    <3> HIDE DEF k
    <3>2. G(n)[k] = G(k)[k]
      BY <1>1, <3>1, BytesOnce
    <3> QED
      BY <3>1, <3>2 DEF k
  <2> QED
    BY <2>2, <2>3
<1>3. f = [n \in Nat |-> f[n]]
  OBVIOUS
<1> HIDE DEF f
<1>4. f = [n \in Nat |-> IF n = 0 THEN <<>> ELSE Append(f[Rest(n)], Low(n))]
  BY <1>2, <1>3
<1> QED
  BY <1>4, Zenon DEF BigBytes, Rest, Low

LEMMA BigBytesType ==
  ASSUME EncodingAssumption, NEW n \in Nat
  PROVE  BigBytes[n] \in Seq(Bytes)
<1> DEFINE S == {m \in Nat : BigBytes[m] \in Seq(Bytes)}
<1>1. ASSUME NEW m \in Nat, \A k \in Nat : k < m => k \in S
      PROVE  m \in S
  <2>1. BigBytes[m] = IF m = 0 THEN <<>> ELSE Append(BigBytes[Rest(m)], Low(m))
    BY BigBytesIs
  <2>2. BigBytes[m] \in Seq(Bytes)
    <3>1. CASE m = 0
      BY <2>1, <3>1
    <3>2. CASE m # 0
      <4>1. BigBytes[Rest(m)] \in Seq(Bytes) /\ Low(m) \in Bytes
        BY <1>1, <3>2, Divide
      <4>2. Append(BigBytes[Rest(m)], Low(m)) \in Seq(Bytes)
        BY ONLY <4>1, AppendProperties
      <4> QED
        BY <2>1, <3>2, <4>2
    <3> QED
      BY <3>1, <3>2
  <2> QED
    BY <2>2
<1>2. S \in SUBSET Nat
  OBVIOUS
<1> HIDE DEF S
<1>3. S = Nat
  BY <1>1, <1>2, StrongInduction
<1> QED
  BY <1>3 DEF S

\* SetBytes undoes Bytes.
LEMMA RoundTrip ==
  ASSUME EncodingAssumption, NEW n \in Nat
  PROVE  SetBytes(BigBytes[n]) = n
<1> DEFINE S == {m \in Nat : SetBytes(BigBytes[m]) = m}
<1>1. ASSUME NEW m \in Nat, \A k \in Nat : k < m => k \in S
      PROVE  m \in S
  <2>1. BigBytes[m] = IF m = 0 THEN <<>> ELSE Append(BigBytes[Rest(m)], Low(m))
    BY BigBytesIs
  <2>2. CASE m = 0
    <3>1. SetBytes(BigBytes[m]) = NumberOf(ByteBase, <<>>)
      BY <2>1, <2>2 DEF SetBytes
    <3> QED
      BY <2>2, <3>1, Divide, NumberOfNone
  <2>3. CASE m # 0
    <3> DEFINE k == Rest(m)
               d == Low(m)
    <3>1. /\ k \in Nat /\ k < m /\ d \in Nat /\ ByteBase \in Nat /\ m = k * ByteBase + d
          /\ BigBytes[k] \in Seq(Nat)
      <4>1. k \in Nat /\ k < m /\ d \in Bytes /\ Bytes \subseteq Nat /\ ByteBase \in Nat
            /\ m = k * ByteBase + d
        BY <2>3, Divide
      <4>2. BigBytes[k] \in Seq(Bytes)
        BY <4>1, BigBytesType
      <4>3. BigBytes[k] \in Seq(Nat)
        BY <4>2, BytesAreNumbers
      <4> QED
        BY ONLY <4>1, <4>3, Zenon
    <3>2. NumberOf(ByteBase, BigBytes[k]) = k
      BY <1>1, <3>1 DEF SetBytes
    <3>3. SetBytes(BigBytes[m]) = NumberOf(ByteBase, Append(BigBytes[k], d))
      BY <2>1, <2>3 DEF SetBytes
    <3> HIDE DEF k, d
    <3>4. NumberOf(ByteBase, Append(BigBytes[k], d)) = k * ByteBase + d
      BY <3>1, <3>2, NumberOfMore
    <3> QED
      BY <3>1, <3>3, <3>4
  <2> QED
    BY <2>2, <2>3
<1>2. S \in SUBSET Nat
  OBVIOUS
<1> HIDE DEF S
<1>3. S = Nat
  BY <1>1, <1>2, StrongInduction
<1> QED
  BY <1>3 DEF S

\* A number has one remainder.
LEMMA DivideOnce ==
  ASSUME NEW b \in Nat, NEW x \in Nat, NEW y \in Nat, NEW c \in Nat, NEW d \in Nat,
         c < b, d < b, x * b + c = y * b + d
  PROVE  x = y
<1>1. \A u, v \in Nat : u < v => u * b + b <= v * b
  <2> SUFFICES ASSUME NEW u \in Nat, NEW v \in Nat, u < v
               PROVE  u * b + b <= v * b
    OBVIOUS
  <2>1. v = u + 1 + (v - (u + 1)) /\ v - (u + 1) \in Nat
    OBVIOUS
  <2>2. \A w \in Nat : (u + 1 + w) * b = u * b + b + w * b /\ w * b \in Nat
    OBVIOUS
  <2> DEFINE w == v - (u + 1)
  <2>3. v * b = u * b + b + w * b /\ w * b \in Nat
    BY <2>1, <2>2
  <2>4. u * b \in Nat
    OBVIOUS
  <2> HIDE DEF w
  <2> QED
    BY <2>3, <2>4
<1>2. x * b \in Nat /\ y * b \in Nat
  OBVIOUS
<1> DEFINE xb == x * b
           yb == y * b
<1>3. xb \in Nat /\ yb \in Nat /\ xb + c = yb + d
      /\ (x < y => xb + b <= yb) /\ (y < x => yb + b <= xb)
  BY <1>1, <1>2
<1> HIDE DEF xb, yb
<1> QED
  BY <1>3

\* Bytes that were read as a number are written with no more bytes.
LEMMA Shorter ==
  ASSUME EncodingAssumption, NEW s \in Seq(Bytes)
  PROVE  SetBytes(s) \in Nat /\ Len(BigBytes[SetBytes(s)]) <= Len(s)
<1> DEFINE Ok(t) == SetBytes(t) \in Nat /\ Len(BigBytes[SetBytes(t)]) <= Len(t)
           S == {k \in Nat : \A t \in Seq(Bytes) : Len(t) = k => Ok(t)}
<1>1. 0 \in S /\ S \in SUBSET Nat
  <2>1. ASSUME NEW t \in Seq(Bytes), Len(t) = 0
        PROVE  Ok(t)
    <3>1. t = <<>>
      BY <2>1, EmptySeq
    <3>2. SetBytes(t) = 0
      BY <3>1, Divide, NumberOfNone DEF SetBytes
    <3>3. BigBytes[0] = <<>>
      BY BigBytesIs
    <3> QED
      BY <3>1, <3>2, <3>3
  <2> HIDE DEF Ok
  <2> QED
    BY <2>1
<1>2. ASSUME NEW k \in S
      PROVE  k + 1 \in S
  <2>1. k \in Nat /\ \A t \in Seq(Bytes) : Len(t) = k => Ok(t)
    OBVIOUS
  <2> SUFFICES ASSUME NEW t \in Seq(Bytes), Len(t) = k + 1
               PROVE  Ok(t)
    <3> HIDE DEF Ok
    <3> QED
      BY <2>1
  <2> DEFINE f == [i \in 1 .. k |-> t[i]]
             d == t[k + 1]
             m == SetBytes(f)
             n == SetBytes(t)
  <2>2. \A i \in 1 .. k + 1 : t[i] \in Bytes
    BY ElementOfSeq
  <2>3. f \in Seq(Bytes) /\ Len(f) = k /\ d \in Bytes
    BY <2>1, <2>2
  <2>4. t = Append(f, d)
    BY <2>1, <2>3
  <2>5. m \in Nat /\ Len(BigBytes[m]) <= k
    BY <2>1, <2>3
  <2>6. ByteBase \in Nat /\ Bytes \subseteq Nat /\ d \in Nat /\ d < ByteBase
    <3>1. ByteBase \in Nat /\ Bytes \subseteq Nat
      BY Divide, 0 \in Nat
    <3> HIDE DEF d
    <3> QED
      BY <2>3, <3>1 DEF Bytes
  <2> HIDE DEF d
  <2>7. n = m * ByteBase + d
    <3>1. f \in Seq(Nat)
      BY <2>3, BytesAreNumbers
    <3> HIDE DEF f
    <3> QED
      BY <2>4, <2>6, <3>1, NumberOfMore DEF SetBytes
  <2> HIDE DEF f, m, n
  <2>8. n \in Nat
    BY <2>5, <2>6, <2>7, Closed
  <2>9. Len(BigBytes[n]) <= k + 1
    <3>1. BigBytes[n] = IF n = 0 THEN <<>> ELSE Append(BigBytes[Rest(n)], Low(n))
      BY <2>8, BigBytesIs
    <3>2. Rest(n) = m
      <4>1. /\ Rest(n) \in Nat /\ Low(n) \in Bytes /\ n = Rest(n) * ByteBase + Low(n)
        BY <2>8, Divide
      <4>2. Low(n) \in Nat /\ Low(n) < ByteBase
        BY <2>6, <4>1 DEF Bytes
      <4> QED
        BY ONLY <2>5, <2>6, <2>7, <4>1, <4>2, DivideOnce
    <3>3. BigBytes[m] \in Seq(Bytes)
      BY <2>5, BigBytesType
    <3>4. Len(Append(BigBytes[m], Low(n))) = Len(BigBytes[m]) + 1 /\ Len(BigBytes[m]) \in Nat
      BY <3>3, LenProperties
    <3>5. CASE n = 0
      BY <2>1, <3>1, <3>5
    <3>6. CASE n # 0
      BY <2>1, <2>5, <3>1, <3>2, <3>4, <3>6
    <3> QED
      BY <3>5, <3>6
  <2> QED
    BY <2>8, <2>9 DEF n
<1> HIDE DEF S
<1>3. S = Nat
  BY <1>1, <1>2, Induction
<1>4. Len(s) \in Nat
  BY LenProperties
<1> HIDE DEF Ok
<1>5. Ok(s)
  BY <1>3, <1>4 DEF S
<1> QED
  BY <1>5 DEF Ok

-----------------------------------------------------------------------------
(* Words and paymaster data.                                                *)

LEMMA Front ==
  ASSUME NEW s \in Seq(Nat), NEW t \in Seq(Nat)
  PROVE  SubSeq(s \o t, 1, Len(s)) = s
<1> DEFINE all == s \o t
<1>1. /\ Len(s) \in Nat /\ Len(t) \in Nat
      /\ \A i \in 1 .. Len(s) : all[i] = s[i] /\ s[i] \in Nat
  BY LenProperties, ElementOfSeq, ConcatProperties
<1> HIDE DEF all
<1>2. /\ SubSeq(all, 1, Len(s)) \in Seq(Nat)
      /\ Len(SubSeq(all, 1, Len(s))) = Len(s)
      /\ \A i \in 1 .. Len(s) : SubSeq(all, 1, Len(s))[i] = s[i]
  <2>1. 1 \in Int /\ Len(s) \in Int /\ \A i \in 1 .. Len(s) : all[i] \in Nat
    BY <1>1
  <2> QED
    BY <1>1, <2>1, SubSeqProperties
<1>3. SubSeq(all, 1, Len(s)) = s
  BY <1>2, SeqEqual
<1> QED
  BY <1>3 DEF all

LEMMA Behind ==
  ASSUME NEW s \in Seq(Nat), NEW t \in Seq(Nat)
  PROVE  SubSeq(s \o t, Len(s) + 1, Len(s) + Len(t)) = t
<1> DEFINE all == s \o t
           n == Len(s)
           m == Len(t)
           sub == SubSeq(all, n + 1, n + m)
<1>1. /\ n \in Nat /\ m \in Nat
      /\ \A i \in 1 .. m : t[i] \in Nat
      /\ \A i \in n + 1 .. n + m : all[i] = t[i - n]
  BY LenProperties, ElementOfSeq, ConcatProperties
<1> HIDE DEF all
<1>2. sub \in Seq(Nat) /\ Len(sub) = m /\ \A i \in 1 .. m : sub[i] = t[i]
  <2>1. n + 1 \in Int /\ n + m \in Int /\ \A i \in n + 1 .. n + m : all[i] \in Nat
    BY <1>1
  <2>2. /\ sub \in Seq(Nat)
        /\ Len(sub) = IF n + 1 <= n + m THEN (n + m) - (n + 1) + 1 ELSE 0
        /\ \A i \in 1 .. (n + m) - (n + 1) + 1 : sub[i] = all[(n + 1) + i - 1]
    BY ONLY <2>1, SubSeqProperties DEF sub
  <2> HIDE DEF sub, n, m
  <2>3. (n + m) - (n + 1) + 1 = m
    BY <1>1
  <2>4. Len(sub) = m
    BY <1>1, <2>2
  <2>5. ASSUME NEW i \in 1 .. m
        PROVE  sub[i] = t[i]
    <3>1. (n + 1) + i - 1 \in n + 1 .. n + m /\ ((n + 1) + i - 1) - n = i
      BY <1>1
    <3> QED
      BY <1>1, <2>2, <2>3, <3>1
  <2> QED
    BY <2>2, <2>4, <2>5
<1>3. sub = t
  <2> HIDE DEF sub
  <2> QED
    BY <1>2, SeqEqual DEF m
<1> QED
  BY <1>3 DEF all

\* One in the middle.
LEMMA Between ==
  ASSUME NEW s \in Seq(Nat), NEW t \in Seq(Nat), NEW u \in Seq(Nat)
  PROVE  SubSeq((s \o t) \o u, Len(s) + 1, Len(s) + Len(t)) = t
<1> DEFINE st == s \o t
           all == st \o u
           n == Len(s)
           m == Len(t)
<1>1. st \in Seq(Nat) /\ Len(st) = n + m /\ n \in Nat /\ m \in Nat
  BY LenProperties, ConcatProperties
<1> HIDE DEF st
<1>2. \A i \in 1 .. n + m : all[i] = st[i]
  <2>1. Len(u) \in Nat
    BY LenProperties
  <2>2. \A i \in 1 .. Len(st) + Len(u) : all[i] = IF i <= Len(st) THEN st[i] ELSE u[i - Len(st)]
    BY <1>1, ConcatProperties
  <2> QED
    BY <1>1, <2>1, <2>2
<1> HIDE DEF all
<1>3. SubSeq(all, n + 1, n + m) = SubSeq(st, n + 1, n + m)
  <2> DEFINE a == SubSeq(all, n + 1, n + m)
             b == SubSeq(st, n + 1, n + m)
  <2>1. /\ n + 1 \in Int /\ n + m \in Int
        /\ \A i \in n + 1 .. n + m : all[i] \in Nat /\ st[i] \in Nat /\ all[i] = st[i]
    <3>1. \A i \in 1 .. n + m : st[i] \in Nat
      BY <1>1, ElementOfSeq
    <3> QED
      BY <1>1, <1>2, <3>1
  <2>2. /\ a \in Seq(Nat) /\ Len(a) = (IF n + 1 <= n + m THEN (n + m) - (n + 1) + 1 ELSE 0)
        /\ \A i \in 1 .. (n + m) - (n + 1) + 1 : a[i] = all[(n + 1) + i - 1]
    BY ONLY <2>1, SubSeqProperties DEF a
  <2>3. /\ b \in Seq(Nat) /\ Len(b) = (IF n + 1 <= n + m THEN (n + m) - (n + 1) + 1 ELSE 0)
        /\ \A i \in 1 .. (n + m) - (n + 1) + 1 : b[i] = st[(n + 1) + i - 1]
    BY ONLY <2>1, SubSeqProperties DEF b
  <2> HIDE DEF a, b, n, m
  <2>4. Len(a) = m /\ Len(b) = m /\ (n + m) - (n + 1) + 1 = m
    BY <1>1, <2>2, <2>3
  <2>5. \A i \in 1 .. m : a[i] = b[i]
    <3>1. \A i \in 1 .. m : (n + 1) + i - 1 \in n + 1 .. n + m
      BY <1>1
    <3> QED
      BY <2>1, <2>2, <2>3, <2>4, <3>1
  <2>6. a = b
    BY <2>2, <2>3, <2>4, <2>5, SeqEqual
  <2> QED
    BY <2>6 DEF a, b
<1>4. SubSeq(st, n + 1, n + m) = t
  BY Behind DEF st
<1> QED
  BY <1>3, <1>4 DEF all, st

Padded(n) == LeftPadBytes(BigBytes[n], HalfWidth)

\* Half a word keeps a number that fits.
LEMMA PaddedIs ==
  ASSUME EncodingAssumption, NEW n \in Nat, Len(BigBytes[n]) <= HalfWidth
  PROVE  Padded(n) \in Seq(Nat) /\ Len(Padded(n)) = HalfWidth /\ SetBytes(Padded(n)) = n
<1> DEFINE bytes == BigBytes[n]
           k == IF Len(bytes) < HalfWidth THEN HalfWidth - Len(bytes) ELSE 0
           zeros == [i \in 1 .. k |-> 0]
<1>1. bytes \in Seq(Nat) /\ Len(bytes) \in Nat /\ SetBytes(bytes) = n /\ ByteBase \in Nat
  <2>1. bytes \in Seq(Nat)
    BY BigBytesType, BytesAreNumbers
  <2>2. SetBytes(bytes) = n
    BY RoundTrip
  <2> HIDE DEF bytes
  <2> QED
    BY <2>1, <2>2, LenProperties, Divide
<1>2. Padded(n) = zeros \o bytes
  BY DEF Padded, LeftPadBytes
<1>3. k \in Nat /\ k + Len(bytes) = HalfWidth
  <2> HIDE DEF bytes
  <2>1. Len(bytes) <= HalfWidth /\ HalfWidth \in Nat
    BY DEF EncodingAssumption, bytes
  <2> QED
    BY <1>1, <2>1
<1> HIDE DEF bytes, k
<1>4. zeros \in Seq(Nat) /\ Len(zeros) = k
  BY <1>3
<1>5. SetBytes(zeros \o bytes) = n
  BY <1>1, <1>3, NumberOfPadded DEF SetBytes
<1> HIDE DEF zeros
<1>6. zeros \o bytes \in Seq(Nat) /\ Len(zeros \o bytes) = HalfWidth
  BY <1>1, <1>3, <1>4, ConcatProperties
<1> QED
  BY <1>2, <1>5, <1>6

\* A wider number is not cut off by the padding.
LEMMA PaddedLong ==
  ASSUME EncodingAssumption, NEW n \in Nat
  PROVE  /\ HalfWidth \in Nat /\ Len(Padded(n)) \in Nat
         /\ Padded(n) \in Seq(Bytes) /\ Padded(n) \in Seq(Nat)
         /\ Len(Padded(n)) >= HalfWidth
         /\ Len(Padded(n)) = HalfWidth <=> Len(BigBytes[n]) <= HalfWidth
<1> DEFINE bytes == BigBytes[n]
           k == IF Len(bytes) < HalfWidth THEN HalfWidth - Len(bytes) ELSE 0
           zeros == [i \in 1 .. k |-> 0]
<1>1. bytes \in Seq(Bytes) /\ Len(bytes) \in Nat /\ HalfWidth \in Nat
  <2>1. bytes \in Seq(Bytes)
    BY BigBytesType
  <2> HIDE DEF bytes
  <2> QED
    BY <2>1, LenProperties DEF EncodingAssumption
<1>2. Padded(n) = zeros \o bytes
  BY DEF Padded, LeftPadBytes
<1> HIDE DEF bytes
<1>3. k \in Nat /\ k + Len(bytes) >= HalfWidth
      /\ (k + Len(bytes) = HalfWidth <=> Len(bytes) <= HalfWidth)
  BY <1>1
<1> HIDE DEF k
<1>4. zeros \in Seq(Bytes) /\ Len(zeros) = k
  <2>1. 0 \in Bytes
    BY Divide, 0 \in Nat
  <2> QED
    BY <1>3, <2>1
<1> HIDE DEF zeros
<1>5. zeros \o bytes \in Seq(Bytes) /\ Len(zeros \o bytes) = k + Len(bytes)
  BY <1>1, <1>4, ConcatProperties
<1>6. Padded(n) \in Seq(Bytes) /\ Padded(n) \in Seq(Nat)
  BY <1>2, <1>5, BytesAreNumbers
<1> QED
  BY <1>1, <1>2, <1>3, <1>5, <1>6 DEF bytes

\* Half a word cut out of bytes is half a word of bytes.
LEMMA CutIs ==
  ASSUME EncodingAssumption, NEW s \in Seq(Bytes), NEW a \in Nat, a + HalfWidth <= Len(s)
  PROVE  /\ SubSeq(s, a + 1, a + HalfWidth) \in Seq(Bytes)
         /\ Len(SubSeq(s, a + 1, a + HalfWidth)) = HalfWidth
         /\ \A i \in 1 .. HalfWidth : SubSeq(s, a + 1, a + HalfWidth)[i] = s[a + i]
<1> DEFINE cut == SubSeq(s, a + 1, a + HalfWidth)
<1>1. HalfWidth \in Nat /\ Len(s) \in Nat /\ \A i \in 1 .. Len(s) : s[i] \in Bytes
  BY LenProperties, ElementOfSeq DEF EncodingAssumption
<1>2. /\ a + 1 \in Int /\ a + HalfWidth \in Int
      /\ \A i \in a + 1 .. a + HalfWidth : s[i] \in Bytes
  BY <1>1
<1>3. /\ cut \in Seq(Bytes)
      /\ Len(cut) = IF a + 1 <= a + HalfWidth THEN (a + HalfWidth) - (a + 1) + 1 ELSE 0
      /\ \A i \in 1 .. (a + HalfWidth) - (a + 1) + 1 : cut[i] = s[(a + 1) + i - 1]
  BY ONLY <1>2, SubSeqProperties DEF cut
<1> HIDE DEF cut
<1>4. (a + HalfWidth) - (a + 1) + 1 = HalfWidth /\ Len(cut) = HalfWidth
  BY <1>1, <1>3
<1>5. \A i \in 1 .. HalfWidth : (a + 1) + i - 1 = a + i
  BY <1>1
<1> QED
  BY <1>3, <1>4, <1>5 DEF cut

\* A number that is read from half a word fits half a word.
LEMMA ReadFits ==
  ASSUME EncodingAssumption, NEW s \in Seq(Bytes), NEW a \in Nat, a + HalfWidth <= Len(s),
         NEW n \in Nat, SetBytes(SubSeq(s, a + 1, a + HalfWidth)) = n
  PROVE  Len(BigBytes[n]) <= HalfWidth
<1>1. /\ SubSeq(s, a + 1, a + HalfWidth) \in Seq(Bytes)
      /\ Len(SubSeq(s, a + 1, a + HalfWidth)) = HalfWidth
  BY CutIs
<1> QED
  BY <1>1, Shorter

\* The two halves of a word.
LEMMA HalvesAre ==
  ASSUME EncodingAssumption, NEW a \in Nat, NEW b \in Nat,
         Len(BigBytes[a]) <= HalfWidth, Len(BigBytes[b]) <= HalfWidth
  PROVE  /\ Len(Halves(a, b)) = 2 * HalfWidth
         /\ SetBytes(SubSeq(Halves(a, b), 1, HalfWidth)) = a
         /\ SetBytes(SubSeq(Halves(a, b), HalfWidth + 1, 2 * HalfWidth)) = b
<1> DEFINE word == Padded(a) \o Padded(b)
<1>1. /\ Padded(a) \in Seq(Nat) /\ Len(Padded(a)) = HalfWidth /\ SetBytes(Padded(a)) = a
      /\ Padded(b) \in Seq(Nat) /\ Len(Padded(b)) = HalfWidth /\ SetBytes(Padded(b)) = b
      /\ HalfWidth \in Nat /\ 2 * HalfWidth = HalfWidth + HalfWidth
  BY PaddedIs DEF EncodingAssumption
<1>2. word \in Seq(Nat) /\ Len(word) = 2 * HalfWidth
  <2>1. Padded(a) \in Seq(Nat) /\ Padded(b) \in Seq(Nat)
    BY <1>1
  <2>2. word \in Seq(Nat) /\ Len(word) = Len(Padded(a)) + Len(Padded(b))
    BY ONLY <2>1, ConcatProperties DEF word
  <2> HIDE DEF word
  <2> QED
    BY <1>1, <2>2
<1>3. Halves(a, b) = word
  <2>1. Halves(a, b) = SubSeq(word, 1, 2 * HalfWidth)
    BY DEF Halves, Padded
  <2> HIDE DEF word
  <2>2. SubSeq(word, 1, Len(word)) = word
    BY ONLY <1>2, SubSeqFull
  <2> QED
    BY <1>2, <2>1, <2>2
<1>4. SubSeq(word, 1, HalfWidth) = Padded(a)
  <2>1. SubSeq(word, 1, Len(Padded(a))) = Padded(a)
    BY <1>1, Front
  <2> QED
    BY <1>1, <2>1
<1>5. SubSeq(word, HalfWidth + 1, 2 * HalfWidth) = Padded(b)
  <2>1. SubSeq(word, Len(Padded(a)) + 1, Len(Padded(a)) + Len(Padded(b))) = Padded(b)
    BY <1>1, Behind
  <2> QED
    BY <1>1, <2>1
<1> HIDE DEF word
<1> QED
  BY <1>1, <1>2, <1>3, <1>4, <1>5

\* What can be read from the halves, for numbers of any size.
LEMMA HalvesRead ==
  ASSUME EncodingAssumption, NEW a \in Nat, NEW b \in Nat
  PROVE  /\ Len(Halves(a, b)) = 2 * HalfWidth
         /\ SetBytes(SubSeq(Halves(a, b), 1, HalfWidth)) = a <=> Len(BigBytes[a]) <= HalfWidth
         /\ Len(BigBytes[a]) <= HalfWidth =>
              (SetBytes(SubSeq(Halves(a, b), HalfWidth + 1, 2 * HalfWidth)) = b
                 <=> Len(BigBytes[b]) <= HalfWidth)
<1> DEFINE word == Padded(a) \o Padded(b)
           out2 == Halves(a, b)
<1>1. /\ HalfWidth \in Nat /\ Len(Padded(a)) \in Nat /\ Len(Padded(b)) \in Nat
      /\ Padded(a) \in Seq(Bytes) /\ Padded(b) \in Seq(Bytes)
      /\ Len(Padded(a)) >= HalfWidth /\ Len(Padded(b)) >= HalfWidth
      /\ Len(BigBytes[a]) <= HalfWidth => Len(Padded(a)) = HalfWidth
  BY PaddedLong
<1>2. /\ word \in Seq(Bytes) /\ Len(word) = Len(Padded(a)) + Len(Padded(b))
      /\ \A i \in 1 .. Len(Padded(a)) : word[i] = Padded(a)[i]
  <2>1. Padded(a) \in Seq(Bytes) /\ Padded(b) \in Seq(Bytes)
    BY <1>1
  <2>2. /\ word \in Seq(Bytes) /\ Len(word) = Len(Padded(a)) + Len(Padded(b))
        /\ \A i \in 1 .. Len(Padded(a)) + Len(Padded(b)) :
             word[i] = IF i <= Len(Padded(a)) THEN Padded(a)[i] ELSE Padded(b)[i - Len(Padded(a))]
    BY ONLY <2>1, ConcatProperties DEF word
  <2> HIDE DEF word
  <2> QED
    BY <1>1, <2>2
<1>3. out2 = SubSeq(word, 1, 2 * HalfWidth)
  BY DEF Halves, Padded
<1> HIDE DEF word, out2
<1>4. out2 \in Seq(Bytes) /\ Len(out2) = 2 * HalfWidth
      /\ \A i \in 1 .. 2 * HalfWidth : out2[i] = word[i]
  <2>1. Len(word) \in Nat /\ 2 * HalfWidth <= Len(word) /\ \A i \in 1 .. Len(word) : word[i] \in Bytes
    BY <1>1, <1>2, ElementOfSeq
  <2>2. 1 \in Int /\ 2 * HalfWidth \in Int /\ \A i \in 1 .. 2 * HalfWidth : word[i] \in Bytes
    BY <1>1, <2>1
  <2> DEFINE sub == SubSeq(word, 1, 2 * HalfWidth)
  <2>3. /\ sub \in Seq(Bytes)
        /\ Len(sub) = IF 1 <= 2 * HalfWidth THEN 2 * HalfWidth - 1 + 1 ELSE 0
        /\ \A i \in 1 .. 2 * HalfWidth - 1 + 1 : sub[i] = word[1 + i - 1]
    BY ONLY <2>2, SubSeqProperties DEF sub
  <2>4. out2 = sub
    BY <1>3
  <2> HIDE DEF sub
  <2> QED
    BY <1>1, <2>3, <2>4
<1>5. 0 + HalfWidth <= Len(out2) /\ HalfWidth + HalfWidth <= Len(out2)
      /\ 0 + 1 = 1 /\ 0 + HalfWidth = HalfWidth /\ HalfWidth + HalfWidth = 2 * HalfWidth
  BY <1>1, <1>4
<1>6. SetBytes(SubSeq(out2, 1, HalfWidth)) = a => Len(BigBytes[a]) <= HalfWidth
  <2>1. SetBytes(SubSeq(out2, 0 + 1, 0 + HalfWidth)) = a => Len(BigBytes[a]) <= HalfWidth
    BY <1>4, <1>5, 0 \in Nat, ReadFits
  <2> QED
    BY <1>5, <2>1
<1>7. SetBytes(SubSeq(out2, HalfWidth + 1, 2 * HalfWidth)) = b => Len(BigBytes[b]) <= HalfWidth
  <2>1. SetBytes(SubSeq(out2, HalfWidth + 1, HalfWidth + HalfWidth)) = b
          => Len(BigBytes[b]) <= HalfWidth
    BY <1>1, <1>4, <1>5, ReadFits
  <2> QED
    BY <1>5, <2>1
<1>8. ASSUME Len(BigBytes[a]) <= HalfWidth
      PROVE  SetBytes(SubSeq(out2, 1, HalfWidth)) = a
  <2> DEFINE cut == SubSeq(out2, 0 + 1, 0 + HalfWidth)
             pad == Padded(a)
  <2>1. cut \in Seq(Bytes) /\ Len(cut) = HalfWidth /\ \A i \in 1 .. HalfWidth : cut[i] = out2[0 + i]
    BY <1>4, <1>5, 0 \in Nat, CutIs
  <2>2. pad \in Seq(Bytes) /\ Len(pad) = HalfWidth /\ SetBytes(pad) = a
    BY <1>1, <1>8, PaddedIs
  <2> HIDE DEF cut
  <2>3. \A i \in 1 .. HalfWidth : out2[0 + i] = pad[i]
    BY <1>1, <1>2, <1>4, <2>2
  <2> HIDE DEF pad
  <2>4. cut = pad
    BY <2>1, <2>2, <2>3, SeqEqual
  <2> QED
    BY <1>5, <2>2, <2>4 DEF cut
<1>9. ASSUME Len(BigBytes[a]) <= HalfWidth, Len(BigBytes[b]) <= HalfWidth
      PROVE  SetBytes(SubSeq(out2, HalfWidth + 1, 2 * HalfWidth)) = b
  BY <1>9, HalvesAre DEF out2
<1> QED
  BY <1>4, <1>6, <1>7, <1>8, <1>9 DEF out2

\* The parts of packed paymaster data, for limits of any size.
Parts(all, p, ver, post, data) ==
  LET v == Len(Padded(ver))
      w == Len(Padded(post))
  IN  /\ Len(all) = Len(p) + v + w + Len(data)
      /\ SubSeq(all, 1, Len(p)) = p
      /\ SubSeq(all, Len(p) + 1, Len(p) + v) = Padded(ver)
      /\ SubSeq(all, Len(p) + v + 1, Len(p) + v + w) = Padded(post)
      /\ SubSeq(all, Len(p) + v + w + 1, Len(all)) = data

LEMMA JoinedParts ==
  ASSUME EncodingAssumption, NEW p \in Seq(Nat), NEW ver \in Nat, NEW post \in Nat,
         NEW data \in Seq(Nat)
  PROVE  Parts(Joined(p, ver, post, data), p, ver, post, data)
<1> DEFINE all == Joined(p, ver, post, data)
           v == Padded(ver)
           w == Padded(post)
           pv == p \o v
           wd == w \o data
           pvw == pv \o w
<1>1. v \in Seq(Nat) /\ w \in Seq(Nat)
  BY PaddedLong
<1>2. all = pvw \o data
  BY DEF Joined, Padded
<1> HIDE DEF all, v, w
<1>3. pv \in Seq(Nat) /\ Len(pv) = Len(p) + Len(v)
  <2>1. v \in Seq(Nat)
    BY <1>1
  <2> QED
    BY ONLY <2>1, p \in Seq(Nat), ConcatProperties DEF pv
<1>4. wd \in Seq(Nat)
  <2>1. w \in Seq(Nat)
    BY <1>1
  <2> QED
    BY ONLY <2>1, data \in Seq(Nat), ConcatProperties DEF wd
<1>5. pvw \in Seq(Nat) /\ Len(pvw) = Len(pv) + Len(w)
  <2>1. w \in Seq(Nat) /\ pv \in Seq(Nat)
    BY <1>1, <1>3
  <2> QED
    BY ONLY <2>1, ConcatProperties DEF pvw
<1>6. Len(pvw \o data) = Len(pvw) + Len(data)
  <2>1. pvw \in Seq(Nat)
    BY <1>5
  <2> HIDE DEF pvw
  <2> QED
    BY ONLY <2>1, data \in Seq(Nat), ConcatProperties
<1>7. pvw \o data = pv \o wd
  <2>1. pv \in Seq(Nat) /\ w \in Seq(Nat)
    BY <1>1, <1>3
  <2> HIDE DEF pv
  <2> QED
    BY ONLY <2>1, data \in Seq(Nat), ConcatAssociative DEF pvw, wd
<1>8. pv \o wd = p \o (v \o wd) /\ v \o wd \in Seq(Nat)
  <2>1. wd \in Seq(Nat) /\ v \in Seq(Nat)
    BY <1>1, <1>4
  <2> HIDE DEF wd
  <2>2. v \o wd \in Seq(Nat)
    BY ONLY <2>1, ConcatProperties
  <2>3. (p \o v) \o wd = p \o (v \o wd)
    <3> HIDE DEF pv, pvw
    <3>1. \A a, b, c \in Seq(Nat) : (a \o b) \o c = a \o (b \o c)
      <4> TAKE a, b, c \in Seq(Nat)
      <4> QED
        BY ONLY a \in Seq(Nat), b \in Seq(Nat), c \in Seq(Nat), ConcatAssociative
    <3> QED
      BY <2>1, <3>1
  <2> QED
    BY ONLY <2>2, <2>3, Zenon DEF pv
<1>9. SubSeq(all, 1, Len(p)) = p
  <2>1. v \o wd \in Seq(Nat) /\ all = p \o (v \o wd)
    BY ONLY <1>2, <1>7, <1>8, Zenon
  <2> HIDE DEF wd
  <2> QED
    BY ONLY <2>1, p \in Seq(Nat), Front
<1>10. SubSeq(all, Len(p) + 1, Len(p) + Len(v)) = v
  <2>1. all = (p \o v) \o wd /\ v \in Seq(Nat) /\ wd \in Seq(Nat)
    BY <1>1, <1>2, <1>4, <1>7, Zenon DEF pv
  <2> HIDE DEF wd
  <2> QED
    BY ONLY <2>1, p \in Seq(Nat), Between
<1>11. SubSeq(all, Len(pv) + 1, Len(pv) + Len(w)) = w
  <2>1. all = (pv \o w) \o data /\ pv \in Seq(Nat) /\ w \in Seq(Nat)
    BY <1>1, <1>2, <1>3, Zenon DEF pvw
  <2> HIDE DEF pv
  <2> QED
    BY ONLY <2>1, data \in Seq(Nat), Between
<1>12. SubSeq(all, Len(pvw) + 1, Len(pvw) + Len(data)) = data
  <2>1. pvw \in Seq(Nat) /\ all = pvw \o data
    BY ONLY <1>2, <1>5, Zenon
  <2> HIDE DEF pvw
  <2> QED
    BY ONLY <2>1, data \in Seq(Nat), Behind
<1>13. Len(all) = Len(pvw) + Len(data)
  BY ONLY <1>2, <1>6, Zenon
<1> HIDE DEF pv, pvw, wd
<1>14. /\ Len(pv) = Len(p) + Len(v) /\ Len(pvw) = Len(p) + Len(v) + Len(w)
  BY ONLY <1>3, <1>5, Zenon
<1>15. /\ Len(all) = Len(p) + Len(v) + Len(w) + Len(data)
       /\ SubSeq(all, 1, Len(p)) = p
       /\ SubSeq(all, Len(p) + 1, Len(p) + Len(v)) = v
       /\ SubSeq(all, Len(p) + Len(v) + 1, Len(p) + Len(v) + Len(w)) = w
       /\ SubSeq(all, Len(p) + Len(v) + Len(w) + 1, Len(all)) = data
  BY ONLY <1>9, <1>10, <1>11, <1>12, <1>13, <1>14, Zenon
<1> QED
  BY <1>15, Zenon DEF Parts, all, v, w

\* What can be read at the fixed offsets, for limits of any size.
Splits(packed, p, ver, post, data) ==
  LET verOffset == Len(p)
      postOffset == verOffset + HalfWidth
      dataOffset == postOffset + HalfWidth
  IN  /\ SubSeq(packed, 1, verOffset) = p
      /\ SetBytes(SubSeq(packed, verOffset + 1, postOffset)) = ver
           <=> Len(BigBytes[ver]) <= HalfWidth
      /\ Len(BigBytes[ver]) <= HalfWidth =>
           (SetBytes(SubSeq(packed, postOffset + 1, dataOffset)) = post
              <=> Len(BigBytes[post]) <= HalfWidth)
      /\ SubSeq(packed, dataOffset + 1, Len(packed)) = data
           <=> Len(BigBytes[ver]) <= HalfWidth /\ Len(BigBytes[post]) <= HalfWidth

LEMMA JoinedIs ==
  ASSUME EncodingAssumption, NEW p \in Seq(Bytes), NEW ver \in Nat, NEW post \in Nat,
         NEW data \in Seq(Bytes)
  PROVE  Splits(Joined(p, ver, post, data), p, ver, post, data)
<1> DEFINE all == Joined(p, ver, post, data)
           v == Len(Padded(ver))
           w == Len(Padded(post))
           FitsV == Len(BigBytes[ver]) <= HalfWidth
           FitsW == Len(BigBytes[post]) <= HalfWidth
           verOffset == Len(p)
           postOffset == verOffset + HalfWidth
           dataOffset == postOffset + HalfWidth
           last == SubSeq(all, dataOffset + 1, Len(all))
<1>1. /\ v \in Nat /\ v >= HalfWidth /\ (v = HalfWidth <=> FitsV)
      /\ w \in Nat /\ w >= HalfWidth /\ (w = HalfWidth <=> FitsW)
      /\ HalfWidth \in Nat
      /\ Padded(ver) \in Seq(Bytes) /\ Padded(post) \in Seq(Bytes)
  BY PaddedLong
<1>2. /\ p \in Seq(Nat) /\ data \in Seq(Nat) /\ Len(p) \in Nat /\ Len(data) \in Nat
  BY BytesAreNumbers, LenProperties
<1>3. /\ Len(all) = Len(p) + v + w + Len(data)
      /\ SubSeq(all, 1, Len(p)) = p
      /\ SubSeq(all, Len(p) + 1, Len(p) + v) = Padded(ver)
      /\ SubSeq(all, Len(p) + v + 1, Len(p) + v + w) = Padded(post)
      /\ SubSeq(all, Len(p) + v + w + 1, Len(all)) = data
  <2>1. Parts(all, p, ver, post, data)
    BY <1>2, JoinedParts
  <2> QED
    BY <2>1, Zenon DEF Parts
<1>4. all \in Seq(Bytes)
  <2>1. all = ((p \o Padded(ver)) \o Padded(post)) \o data
    BY DEF Joined, Padded
  <2>2. \A x, y \in Seq(Bytes) : x \o y \in Seq(Bytes)
    BY ConcatProperties
  <2> HIDE DEF all
  <2>3. p \o Padded(ver) \in Seq(Bytes)
    BY <1>1, <2>2
  <2>4. (p \o Padded(ver)) \o Padded(post) \in Seq(Bytes)
    BY <1>1, <2>2, <2>3
  <2> QED
    BY <2>1, <2>2, <2>4
<1>5. FitsV => SetBytes(Padded(ver)) = ver
  BY PaddedIs
<1>6. FitsW => SetBytes(Padded(post)) = post
  BY PaddedIs
<1> HIDE DEF all, v, w, FitsV, FitsW
<1>7. verOffset = Len(p) /\ postOffset = Len(p) + HalfWidth
      /\ dataOffset = Len(p) + HalfWidth + HalfWidth
      /\ verOffset \in Nat /\ postOffset \in Nat /\ dataOffset \in Nat
      /\ verOffset + HalfWidth = postOffset /\ postOffset + HalfWidth = dataOffset
      /\ postOffset <= Len(all) /\ dataOffset <= Len(all) /\ Len(all) \in Nat
  <2> DEFINE n == Len(p)
             d == Len(data)
             a == Len(all)
  <2>1. /\ v \in Nat /\ w \in Nat /\ HalfWidth \in Nat /\ v >= HalfWidth /\ w >= HalfWidth
        /\ n \in Nat /\ d \in Nat /\ a = n + v + w + d
    BY <1>1, <1>2, <1>3
  <2> HIDE DEF n, d, a
  <2>2. /\ n + HalfWidth \in Nat /\ n + HalfWidth + HalfWidth \in Nat /\ a \in Nat
        /\ n + HalfWidth <= a /\ n + HalfWidth + HalfWidth <= a
    BY ONLY <2>1
  <2> QED
    BY <2>1, <2>2 DEF n, a
<1> HIDE DEF verOffset, postOffset, dataOffset
<1>8. SetBytes(SubSeq(all, verOffset + 1, postOffset)) = ver <=> FitsV
  <2>1. SetBytes(SubSeq(all, verOffset + 1, verOffset + HalfWidth)) = ver => FitsV
    BY <1>4, <1>7, ReadFits DEF FitsV
  <2>2. FitsV => SubSeq(all, verOffset + 1, postOffset) = Padded(ver)
    BY <1>1, <1>3, <1>7
  <2> QED
    BY <1>5, <1>7, <2>1, <2>2
<1>9. FitsV => (SetBytes(SubSeq(all, postOffset + 1, dataOffset)) = post <=> FitsW)
  <2>1. SetBytes(SubSeq(all, postOffset + 1, postOffset + HalfWidth)) = post => FitsW
    BY <1>4, <1>7, ReadFits DEF FitsW
  <2>2. FitsV /\ FitsW => SubSeq(all, postOffset + 1, dataOffset) = Padded(post)
    BY <1>1, <1>3, <1>7
  <2> QED
    BY <1>6, <1>7, <2>1, <2>2
<1>10. last = data <=> FitsV /\ FitsW
  <2>1. FitsV /\ FitsW => last = data
    BY <1>1, <1>3, <1>7
  <2>2. Len(last) = Len(all) - dataOffset
    <3>0. \A i \in 1 .. Len(all) : all[i] \in Bytes
      BY <1>4, ElementOfSeq
    <3>1. /\ dataOffset + 1 \in Int /\ Len(all) \in Int
          /\ \A i \in dataOffset + 1 .. Len(all) : all[i] \in Bytes
      BY <1>7, <3>0
    <3>2. last \in Seq(Bytes) /\ Len(last) = IF dataOffset + 1 <= Len(all) THEN Len(all) - (dataOffset + 1) + 1 ELSE 0
      BY ONLY <3>1, SubSeqProperties DEF last
    <3> HIDE DEF last
    <3> QED
      BY <1>7, <3>2
  <2> HIDE DEF last
  <2>3. last = data => v + w = HalfWidth + HalfWidth
    BY <1>1, <1>2, <1>3, <1>7, <2>2
  <2> QED
    BY <1>1, <2>1, <2>3
<1>11. SubSeq(all, 1, verOffset) = p
  BY <1>3, <1>7
<1> QED
  BY <1>8, <1>9, <1>10, <1>11, Zenon
     DEF Splits, all, verOffset, postOffset, dataOffset, last, FitsV, FitsW

-----------------------------------------------------------------------------
(* Hex strings.                                                             *)

\* The digits of a field: hex digits, and characters that are none.
Digits == 0 .. BadDigit

\* The pairs that Hex2Bytes keeps.
GoodPairs(digits) ==
  {n \in 0 .. Len(digits) \div 2 : \A i \in 1 .. 2 * n : digits[i] # BadDigit}

Pairs(digits) == CHOOSE n \in GoodPairs(digits) : \A m \in GoodPairs(digits) : m <= n

\* They are the longest run of good pairs.
LEMMA PairsAre ==
  ASSUME EncodingAssumption, NEW digits \in Seq(Digits)
  PROVE  /\ Pairs(digits) \in 0 .. Len(digits) \div 2
         /\ \A i \in 1 .. 2 * Pairs(digits) : digits[i] # BadDigit
         /\ Pairs(digits) < Len(digits) \div 2 =>
              BadDigit \in {digits[2 * Pairs(digits) + 1], digits[2 * Pairs(digits) + 2]}
<1> DEFINE b == Len(digits) \div 2
           good == GoodPairs(digits)
           n == Pairs(digits)
<1>1. Len(digits) \in Nat /\ b \in Nat
  BY LenProperties
<1>2. good \in SUBSET (0 .. b) /\ 0 \in good
  BY <1>1 DEF GoodPairs
<1>3. n \in good /\ \A m \in good : m <= n
  <2> HIDE DEF good, b
  <2>1. \E k \in good : \A m \in good : m <= k
    BY <1>1, <1>2, Greatest
  <2> QED
    BY <2>1, Zenon DEF Pairs, good
<1> HIDE DEF n
<1>4. n \in 0 .. b /\ \A i \in 1 .. 2 * n : digits[i] # BadDigit
  BY <1>3 DEF GoodPairs
<1>5. ASSUME n < b, digits[2 * n + 1] # BadDigit, digits[2 * n + 2] # BadDigit
      PROVE  FALSE
  <2> HIDE DEF b
  <2>1. n + 1 \in 0 .. b /\ \A i \in 1 .. 2 * (n + 1) : i \in 1 .. 2 * n \/ i = 2 * n + 1 \/ i = 2 * n + 2
    BY <1>1, <1>4, <1>5
  <2>2. \A i \in 1 .. 2 * (n + 1) : digits[i] # BadDigit
    BY <1>4, <1>5, <2>1
  <2>3. n + 1 \in good
    BY <2>1, <2>2 DEF GoodPairs, b
  <2>4. n + 1 <= n
    BY <1>3, <2>3
  <2> QED
    BY <1>1, <1>4, <2>4
<1> QED
  BY <1>4, <1>5 DEF n

LEMMA Square == \A a, b, c, d \in Nat : (a * b + c) * b + d = a * (b * b) + (c * b + d)
OBVIOUS

\* Read as bytes, pairs of digits write the number that the digits write.
LEMMA PairsWrite ==
  ASSUME EncodingAssumption, NEW n \in Nat, NEW digits \in Seq(Nat), Len(digits) = 2 * n,
         NEW bytes \in Seq(Nat), Len(bytes) = n,
         \A i \in 1 .. n : bytes[i] = digits[2 * i - 1] * Base + digits[2 * i]
  PROVE  NumberOf(ByteBase, bytes) = NumberOf(Base, digits)
<1>1. Base \in Nat /\ ByteBase \in Nat /\ ByteBase = Base * Base
  BY Divide DEF EncodingAssumption, ByteBase
<1>2. PICK v : Writes(Base, digits, v)
  BY <1>1, WritesExists
<1>3. /\ v \in [0 .. 2 * n -> Nat] /\ v[0] = 0
      /\ \A i \in 1 .. 2 * n : v[i] = v[i - 1] * Base + digits[i]
  BY <1>2 DEF Writes, WritesTo
<1> DEFINE w == [i \in 0 .. n |-> v[2 * i]]
<1>4. w \in [0 .. n -> Nat] /\ \A i \in 0 .. n : w[i] = v[2 * i]
  <2>1. \A i \in 0 .. n : 2 * i \in 0 .. 2 * n
    OBVIOUS
  <2> QED
    BY <1>3, <2>1
<1>5. w[0] = 0
  BY <1>3, <1>4
<1> HIDE DEF w
<1>6. ASSUME NEW i \in 1 .. n
      PROVE  w[i] = w[i - 1] * ByteBase + bytes[i]
  <2>1. /\ i \in 0 .. n /\ i - 1 \in 0 .. n
        /\ 2 * i \in 1 .. 2 * n /\ 2 * i - 1 \in 1 .. 2 * n
        /\ (2 * i - 1) - 1 = 2 * (i - 1) /\ 2 * (i - 1) \in 0 .. 2 * n
    OBVIOUS
  <2> DEFINE a == v[2 * (i - 1)]
             c == digits[2 * i - 1]
             d == digits[2 * i]
  <2>2. a \in Nat /\ c \in Nat /\ d \in Nat
    <3>1. \A j \in 1 .. 2 * n : digits[j] \in Nat
      BY ElementOfSeq
    <3> QED
      BY <1>3, <2>1, <3>1
  <2>3. v[2 * i - 1] = a * Base + c /\ v[2 * i] = v[2 * i - 1] * Base + d
    BY <1>3, <2>1
  <2>4. bytes[i] = c * Base + d /\ w[i] = v[2 * i] /\ w[i - 1] = a
    BY <1>4, <2>1
  <2> HIDE DEF a, c, d
  <2>5. (a * Base + c) * Base + d = a * (Base * Base) + (c * Base + d)
    BY <1>1, <2>2, Square
  <2> QED
    BY ONLY <1>1, <2>3, <2>4, <2>5, Zenon
<1>7. Writes(ByteBase, bytes, w)
  BY <1>4, <1>5, <1>6 DEF Writes, WritesTo
<1>8. NumberOf(ByteBase, bytes) = w[n]
  BY <1>1, <1>7, NumberOfIs
<1>9. NumberOf(Base, digits) = v[2 * n]
  <2>1. NumberOf(Base, digits) = v[Len(digits)]
    BY <1>1, <1>2, NumberOfIs
  <2> QED
    BY <2>1
<1>10. w[n] = v[2 * n]
  BY <1>4
<1> QED
  BY <1>8, <1>9, <1>10

\* What Hex2Bytes keeps is the number of the digits it keeps.
LEMMA HexToBigIntIs ==
  ASSUME EncodingAssumption, NEW digits \in Seq(Digits)
  PROVE  HexToBigInt(digits) = HexValue(SubSeq(digits, 1, 2 * Pairs(digits)))
<1> DEFINE n == Pairs(digits)
           front == SubSeq(digits, 1, 2 * n)
           bytes == [i \in 1 .. n |-> digits[2 * i - 1] * Base + digits[2 * i]]
<1>1. Hex2Bytes(digits) = bytes
  BY Zenon DEF Hex2Bytes, Pairs, GoodPairs
<1>2. n \in Nat /\ 2 * n <= Len(digits) /\ Len(digits) \in Nat
  <2>1. n \in 0 .. Len(digits) \div 2 /\ Len(digits) \in Nat
    BY PairsAre, LenProperties
  <2> HIDE DEF n
  <2> QED
    BY <2>1
<1>3. Base \in Nat /\ \A i \in 1 .. Len(digits) : digits[i] \in Nat
  <2>1. Base \in Nat
    BY DEF EncodingAssumption
  <2>2. \A i \in 1 .. Len(digits) : digits[i] \in Digits
    BY ElementOfSeq
  <2> QED
    BY <2>1, <2>2 DEF Digits, BadDigit
<1> HIDE DEF n
<1>4. front \in Seq(Nat) /\ Len(front) = 2 * n /\ \A i \in 1 .. 2 * n : front[i] = digits[i]
  <2>1. 1 \in Int /\ 2 * n \in Int /\ \A i \in 1 .. 2 * n : digits[i] \in Nat
    BY <1>2, <1>3
  <2>2. /\ front \in Seq(Nat)
        /\ Len(front) = IF 1 <= 2 * n THEN 2 * n - 1 + 1 ELSE 0
        /\ \A i \in 1 .. 2 * n - 1 + 1 : front[i] = digits[1 + i - 1]
    BY ONLY <2>1, SubSeqProperties DEF front
  <2> HIDE DEF front
  <2> QED
    BY <1>2, <2>2
<1> HIDE DEF front
<1>5. \A i \in 1 .. n : 2 * i - 1 \in 1 .. 2 * n /\ 2 * i \in 1 .. 2 * n
  BY <1>2
<1>6. \A i \in 1 .. n : digits[2 * i - 1] \in Nat /\ digits[2 * i] \in Nat
  BY <1>2, <1>3, <1>5
<1>7. /\ bytes \in Seq(Nat) /\ Len(bytes) = n
      /\ \A i \in 1 .. n : bytes[i] = front[2 * i - 1] * Base + front[2 * i]
  <2>1. \A i \in 1 .. n : digits[2 * i - 1] * Base + digits[2 * i] \in Nat
    BY <1>3, <1>6, Closed
  <2>2. bytes \in Seq(Nat) /\ Len(bytes) = n
    BY <1>2, <2>1
  <2>3. \A i \in 1 .. n : bytes[i] = digits[2 * i - 1] * Base + digits[2 * i]
    OBVIOUS
  <2>4. \A i \in 1 .. n : front[2 * i - 1] = digits[2 * i - 1] /\ front[2 * i] = digits[2 * i]
    BY <1>4, <1>5
  <2> QED
    BY ONLY <2>2, <2>3, <2>4
<1> HIDE DEF bytes
<1>8. NumberOf(ByteBase, bytes) = NumberOf(Base, front)
  BY <1>2, <1>4, <1>7, PairsWrite
<1> QED
  BY <1>1, <1>8 DEF HexToBigInt, SetBytes, HexValue, front, n

-----------------------------------------------------------------------------
(* The conversions.                                                         *)

\* What was called last, if it was a conversion.
EstimatedAsModelled ==
  function = "EstimateField" =>
    \E field \in DigitStrings \cup {Nil} : args = <<field>> /\ out = <<EstimateField(field)>>

IntPackedAsModelled ==
  function = "PackInt" =>
    \E a, b \in Numbers \cup {Nil} : args = <<a, b>> /\ out = PackInt(a, b)

PaymasterPackedAsModelled ==
  function = "PackPaymasterAndData" =>
    \E p \in Paymasters, ver, post \in Numbers \cup {Nil}, data \in DataStrings :
      args = <<p, ver, post, data>> /\ out = PackPaymasterAndData(p, ver, post, data)

ConvertedAsModelled ==
  EstimatedAsModelled /\ IntPackedAsModelled /\ PaymasterPackedAsModelled

LEMMA Converted == Spec => []ConvertedAsModelled
<1> USE DEF ConvertedAsModelled, EstimatedAsModelled, IntPackedAsModelled,
            PaymasterPackedAsModelled
<1>1. Init => ConvertedAsModelled
  BY DEF Init
<1>2. ConvertedAsModelled /\ [Next]_vars => ConvertedAsModelled'
  <2> SUFFICES ASSUME ConvertedAsModelled, [Next]_vars
               PROVE  ConvertedAsModelled'
    OBVIOUS
  <2>1. CASE CallEstimate
    BY <2>1 DEF CallEstimate, Called
  <2>2. CASE CallPackInt
    BY <2>2 DEF CallPackInt, Called
  <2>3. CASE CallPackPaymaster
    BY <2>3 DEF CallPackPaymaster, Called
  <2>4. CASE CallBundler
    BY <2>4 DEF CallBundler, Called, RpcMethods
  <2>5. CASE UNCHANGED vars
    BY <2>5 DEF vars
  <2> QED
    BY <2>1, <2>2, <2>3, <2>4, <2>5 DEF Next
<1> QED
  BY <1>1, <1>2, PTL DEF Spec

\* Strings of digits and of bytes are sequences.
LEMMA Strings ==
  ASSUME EncodingAssumption
  PROVE  DigitStrings \subseteq Seq(Digits) /\ Paymasters \cup DataStrings \subseteq Seq(Bytes)
<1>1. DigitStrings \subseteq Seq(Digits)
  <2> SUFFICES ASSUME NEW s \in DigitStrings
               PROVE  s \in Seq(Digits)
    OBVIOUS
  <2>1. PICK n \in 0 .. MaxDigits : s \in [1 .. n -> Digits]
    BY DEF DigitStrings, Digits
  <2>2. n \in Nat
    BY <2>1 DEF EncodingAssumption
  <2> QED
    BY <2>1, <2>2
<1>2. \A s \in DataStrings : s \in Seq(Bytes)
  <2> SUFFICES ASSUME NEW s \in DataStrings
               PROVE  s \in Seq(Bytes)
    OBVIOUS
  <2>1. PICK n \in 0 .. MaxData : s \in [1 .. n -> Bytes]
    BY DEF DataStrings
  <2>2. n \in Nat
    BY <2>1 DEF EncodingAssumption
  <2> QED
    BY <2>1, <2>2
<1>3. \A s \in Paymasters : s \in Seq(Bytes)
  <2>1. \A b \in Bytes : <<b>> \in Seq(Bytes)
    OBVIOUS
  <2> QED
    BY <2>1, Zenon DEF Paymasters
<1> QED
  BY <1>1, <1>2, <1>3

-----------------------------------------------------------------------------
(* The responses.                                                           *)

\* What was called last, if it was a method of bundler.go.
AnsweredAsModelled ==
  function \in RpcMethods =>
    \E body \in ResponseBodies : args = <<body>> /\ out = Response(function, body)

LEMMA Answered == Spec => []AnsweredAsModelled
<1>1. Init => AnsweredAsModelled
  BY DEF Init, AnsweredAsModelled, RpcMethods
<1>2. AnsweredAsModelled /\ [Next]_vars => AnsweredAsModelled'
  <2> SUFFICES ASSUME AnsweredAsModelled, [Next]_vars, function' \in RpcMethods
               PROVE  \E body \in ResponseBodies : args' = <<body>> /\ out' = Response(function', body)
    BY DEF AnsweredAsModelled
  <2>1. CASE UNCHANGED vars
    BY <2>1 DEF vars, AnsweredAsModelled
  <2>2. CASE Next
    <3>1. ~CallEstimate /\ ~CallPackInt /\ ~CallPackPaymaster
      BY DEF CallEstimate, CallPackInt, CallPackPaymaster, Called, RpcMethods
    <3>2. PICK m \in RpcMethods, body \in ResponseBodies : Called(m, <<body>>, Response(m, body))
      BY <2>2, <3>1 DEF Next, CallBundler
    <3> QED
      BY <3>2 DEF Called
  <2> QED
    BY <2>1, <2>2
<1> QED
  BY <1>1, <1>2, PTL DEF Spec

-----------------------------------------------------------------------------
(* The fields of a body.                                                    *)

Objects == [kind : {"object"}, id : {"fits", "other"}, error : ErrorValues, result : ResultValues]

LEMMA Body ==
  ASSUME NEW body \in ResponseBodies
  PROVE  /\ body.kind \in {"notJson", "object"}
         /\ body.kind = "object" => body.error \in ErrorValues /\ body.result \in ResultValues
BY DEF ResponseBodies

LEMMA Absence ==
  ASSUME NEW v
  PROVE  /\ v \in Missing => v.kind \in {"absent", "null"}
         /\ v \in ErrorValues \cup ResultValues /\ v.kind \in {"absent", "null"} => v \in Missing
<1>1. v \in Missing => v.kind \in {"absent", "null"}
  BY DEF Missing
<1>2. ASSUME v \in ErrorValues, v.kind \in {"absent", "null"}
      PROVE  v \in Missing
  BY <1>2 DEF ErrorValues
<1>3. ASSUME v \in ResultValues, v.kind \in {"absent", "null"}
      PROVE  v \in Missing
  BY <1>3 DEF ResultValues
<1> QED
  BY <1>1, <1>2, <1>3

LEMMA ErrorKinds ==
  ASSUME NEW e \in ErrorValues
  PROVE  /\ e.kind \in {"absent", "null", "emptyString", "string", "number", "array", "object"}
         /\ e.kind = "object" => /\ e.code \in {"absent", "int", "other"}
                                 /\ e.message \in {"absent", "string", "other"}
BY DEF ErrorValues, Missing

LEMMA ResultKinds ==
  ASSUME NEW r \in ResultValues
  PROVE  /\ r.kind \in {"absent", "null", "mismatch", "value"}
         /\ r.kind = "value" => r = [kind |-> "value", returnData |-> r.returnData]
BY DEF ResultValues, Missing

-----------------------------------------------------------------------------
(* The methods.                                                             *)

\* A failure has no result; a success has the answer.
LEMMA Outcome ==
  ASSUME NEW method \in RpcMethods, NEW body \in ResponseBodies
  PROVE  \/ Response(method, body) = Fails({}) /\ ~Decodes(method, body)
         \/ /\ Response(method, body) = Fails(ErrorParts(body.error))
            /\ Decodes(method, body) /\ HasError(body)
         \/ /\ Response(method, body) = Answer(method, body.result)
            /\ Decodes(method, body) /\ ~HasError(body)
BY DEF Response

\* An error is never passed over (bundler.go:30-32, 194-219).
LEMMA ErrorReported ==
  ASSUME NEW method \in RpcMethods, NEW body \in ResponseBodies, body.kind = "object"
  PROVE  /\ body.error.kind \notin {"absent", "null"} => Response(method, body).status = "error"
         /\ /\ \/ body.error.kind = "string"
               \/ /\ body.error.kind = "object" /\ body.error.message = "string"
                  /\ body.error.code # "other"
            /\ body.id = "fits"
            => ("message" \in Response(method, body).parts <=> ResultDecodes(method, body.result))
<1> DEFINE e == body.error
           r == body.result
<1>1. e \in ErrorValues /\ r \in ResultValues
  BY Body
<1>2. \A parts : Fails(parts).status = "error" /\ Fails(parts).parts = parts
  BY DEF Fails
<1>3. ASSUME e.kind \notin {"absent", "null"}
      PROVE  Response(method, body).status = "error"
  <2>1. HasError(body)
    BY <1>1, <1>3, Absence DEF HasError
  <2> QED
    BY <1>2, <2>1, Outcome
<1>4. ASSUME e.kind = "string" \/ (e.kind = "object" /\ e.message = "string" /\ e.code # "other"),
             body.id = "fits"
      PROVE  "message" \in Response(method, body).parts <=> ResultDecodes(method, r)
  <2>1. HasError(body)
    BY <1>1, <1>4, Absence DEF HasError
  <2>2. ErrorDecodes(e)
    BY <1>4 DEF ErrorDecodes
  <2>3. Decodes(method, body) <=> ResultDecodes(method, r)
    BY <1>4, <2>2 DEF Decodes
  <2>4. "message" \in ErrorParts(e)
    BY <1>4 DEF ErrorParts
  <2> QED
    BY <1>2, <2>1, <2>3, <2>4, Outcome
<1> QED
  BY <1>3, <1>4

\* What is returned without an error is the bundler's result, or the zero value
\* of a missing one (bundler.go:26-33, 50-58, 87-94, 108-115).
LEMMA AnswerTheirs ==
  ASSUME NEW method \in RpcMethods, NEW body \in ResponseBodies
  PROVE  /\ Response(method, body).status # "panic"
         /\ Response(method, body).status = "ok" =>
              LET r == body.result
                  answered == Response(method, body).result
              IN  \/ /\ r.kind = "value" /\ answered.kind = "value"
                     /\ method # "GetUserOpReceipt" \/ r.returnData = Nil => answered = r
                  \/ r.kind = "absent" /\ answered = Nil /\ method # "EstimateUserOpGas"
                  \/ /\ r.kind = "null" /\ answered = Nil
                     /\ method \in {"GetUserOpReceipt", "SupportedEntryPoints"}
<1> DEFINE r == body.result
<1>1. \A parts : Fails(parts).status = "error"
  BY DEF Fails
<1>2. CASE Response(method, body).status = "error"
  BY <1>2
<1>3. CASE /\ Response(method, body) = Answer(method, r)
           /\ Decodes(method, body) /\ ~HasError(body)
  <2>1. r \in ResultValues /\ ResultDecodes(method, r)
    BY <1>3, Body DEF Decodes
  <2>2. CASE method = "EstimateUserOpGas" /\ r \in Missing
    BY <1>1, <1>3, <2>2 DEF Answer, WithoutEstimates
  <2>3. CASE method # "EstimateUserOpGas" /\ r \in Missing
    <3>1. Answer(method, r) = [status |-> "ok", parts |-> {}, result |-> Nil]
      BY <2>3 DEF Answer
    <3>2. r.kind = "absent" \/ (r.kind = "null" /\ method # "SendUserOp")
      BY <2>1, <2>3, Absence DEF ResultDecodes
    <3> QED
      BY <1>3, <2>3, <3>1, <3>2 DEF RpcMethods
  <2>4. CASE r \notin Missing
    <3>1. Answer(method, r) = [status |-> "ok", parts |-> {}, result |-> Decoded(method, r)]
      BY <2>4 DEF Answer
    <3>2. r.kind = "value" /\ r = [kind |-> "value", returnData |-> r.returnData]
      BY <2>1, <2>4, Absence, ResultKinds DEF ResultDecodes
    <3>3. /\ Decoded(method, r).kind = "value"
          /\ method # "GetUserOpReceipt" \/ r.returnData = Nil => Decoded(method, r) = r
      <4>1. CASE method = "GetUserOpReceipt" /\ r.returnData # Nil
        BY <3>2, <4>1 DEF Decoded
      <4>2. CASE ~(method = "GetUserOpReceipt" /\ r.returnData # Nil)
        BY <3>2, <4>2 DEF Decoded
      <4> QED
        BY <4>1, <4>2
    <3> QED
      BY <1>3, <3>1, <3>2, <3>3
  <2> QED
    BY <2>2, <2>3, <2>4
<1> QED
  BY <1>1, <1>2, <1>3, Outcome

-----------------------------------------------------------------------------
(* The theorems.                                                            *)

\* EstimateReadsPairs holds of a string of any length, odd ones included, in any
\* base (utils.go:78-84, bundler.go:60-78).
THEOREM EstimatesAreExact == Spec => []EstimateReadsPairs
<1>1. ASSUME EstimatedAsModelled
      PROVE  EstimateReadsPairs
  <2> SUFFICES ASSUME function = "EstimateField", args[1] # Nil
               PROVE  EstimateReadsPairs
    BY DEF EstimateReadsPairs
  <2>1. PICK field \in DigitStrings \cup {Nil} : args = <<field>> /\ out = <<EstimateField(field)>>
    BY <1>1 DEF EstimatedAsModelled
  <2>2. args[1] = field /\ field # Nil /\ field \in Seq(Digits)
    BY <2>1, Strings, EncodingAssumption
  <2>3. out[1] = HexToBigInt(field)
    BY <2>1, <2>2 DEF EstimateField
  <2> DEFINE n == Pairs(field)
  <2>4. out[1] = HexValue(SubSeq(field, 1, 2 * n))
    BY <2>2, <2>3, HexToBigIntIs, EncodingAssumption
  <2>5. /\ n \in 0 .. Len(field) \div 2
        /\ \A i \in 1 .. 2 * n : field[i] # BadDigit
        /\ n < Len(field) \div 2 => BadDigit \in {field[2 * n + 1], field[2 * n + 2]}
    BY <2>2, PairsAre, EncodingAssumption
  <2> HIDE DEF n
  <2> QED
    BY <2>2, <2>4, <2>5 DEF EstimateReadsPairs
<1> QED
  BY <1>1, Converted, PTL DEF ConvertedAsModelled

\* PackIntSplits holds of numbers of any size, those that do not fit included, and
\* of halves of any width (utils.go:108-122).
THEOREM IntsSplit == Spec => []PackIntSplits
<1>1. ASSUME IntPackedAsModelled
      PROVE  PackIntSplits
  <2> SUFFICES ASSUME function = "PackInt", args[1] # Nil, args[2] # Nil
               PROVE  PackIntSplits
    BY DEF PackIntSplits
  <2>1. PICK a \in Numbers \cup {Nil}, b \in Numbers \cup {Nil} :
          args = <<a, b>> /\ out = PackInt(a, b)
    BY <1>1 DEF IntPackedAsModelled
  <2>2. args[1] = a /\ args[2] = b
    BY <2>1
  <2>3. a \in Nat /\ b \in Nat /\ a # Nil /\ b # Nil
    BY <2>2, EncodingAssumption
  <2>4. out = Halves(a, b)
    BY <2>1, <2>3 DEF PackInt
  <2>5. /\ Len(Halves(a, b)) = 2 * HalfWidth
        /\ SetBytes(SubSeq(Halves(a, b), 1, HalfWidth)) = a <=> Fits(a)
        /\ Fits(a) =>
             (SetBytes(SubSeq(Halves(a, b), HalfWidth + 1, 2 * HalfWidth)) = b <=> Fits(b))
    BY <2>3, HalvesRead, EncodingAssumption, Zenon DEF Fits
  <2> QED
    BY <2>2, <2>4, <2>5, Zenon DEF PackIntSplits
<1> QED
  BY <1>1, Converted, PTL DEF ConvertedAsModelled

\* PaymasterFieldsSplit holds of limits of any size, those that do not fit
\* included, of data of any length and of halves of any width
\* (paymaster.go:34-55, 70-84).
THEOREM PaymastersSplit == Spec => []PaymasterFieldsSplit
<1>1. ASSUME PaymasterPackedAsModelled
      PROVE  PaymasterFieldsSplit
  <2> SUFFICES ASSUME function = "PackPaymasterAndData", args[2] # Nil, args[3] # Nil
               PROVE  PaymasterFieldsSplit
    BY DEF PaymasterFieldsSplit
  <2>1. PICK p \in Paymasters, ver \in Numbers \cup {Nil}, post \in Numbers \cup {Nil},
             data \in DataStrings :
          args = <<p, ver, post, data>> /\ out = PackPaymasterAndData(p, ver, post, data)
    BY <1>1 DEF PaymasterPackedAsModelled
  <2>2. args[1] = p /\ args[2] = ver /\ args[3] = post /\ args[4] = data
    BY <2>1
  <2>3. ver \in Nat /\ post \in Nat /\ ver # Nil /\ post # Nil
    BY <2>2, EncodingAssumption
  <2>4. p \in Seq(Bytes) /\ data \in Seq(Bytes)
    BY Strings, EncodingAssumption
  <2>5. out = Joined(p, ver, post, data)
    BY <2>1, <2>3 DEF PackPaymasterAndData
  <2>6. Splits(out, p, ver, post, data)
    BY <2>3, <2>4, <2>5, JoinedIs, EncodingAssumption
  <2>7. /\ Fits(ver) <=> Len(BigBytes[ver]) <= HalfWidth
        /\ Fits(post) <=> Len(BigBytes[post]) <= HalfWidth
    BY <2>3, Zenon DEF Fits
  <2> QED
    BY <2>2, <2>6, <2>7, Zenon DEF PaymasterFieldsSplit, Splits
<1> QED
  BY <1>1, Converted, PTL DEF ConvertedAsModelled

\* ErrorIsReported holds of any response, however long its return data
\* (bundler.go:30-32, 108-114, 194-219).
THEOREM ErrorsAreReported == Spec => []ErrorIsReported
<1>1. ASSUME AnsweredAsModelled
      PROVE  ErrorIsReported
  <2> SUFFICES ASSUME function \in RpcMethods, args[1].kind = "object"
               PROVE  ErrorIsReported
    BY DEF ErrorIsReported
  <2>1. PICK body \in ResponseBodies : args = <<body>> /\ out = Response(function, body)
    BY <1>1 DEF AnsweredAsModelled
  <2>2. args[1] = body
    BY <2>1
  <2> QED
    BY <2>1, <2>2, ErrorReported DEF ErrorIsReported
<1> QED
  BY <1>1, Answered, PTL

\* AnswerIsTheirs, with its exceptions (the zero value for a missing result, and
\* return data), holds of any response, however long its return data (bundler.go:26-33, 50-58, 87-94, 108-115).
THEOREM AnswersAreTheirs == Spec => []AnswerIsTheirs
<1>1. ASSUME AnsweredAsModelled
      PROVE  AnswerIsTheirs
  <2> SUFFICES ASSUME function \in RpcMethods
               PROVE  AnswerIsTheirs
    BY DEF AnswerIsTheirs
  <2>1. PICK body \in ResponseBodies : args = <<body>> /\ out = Response(function, body)
    BY <1>1 DEF AnsweredAsModelled
  <2>2. args[1] = body
    BY <2>1
  <2> QED
    BY <2>1, <2>2, AnswerTheirs DEF AnswerIsTheirs
<1> QED
  BY <1>1, Answered, PTL
=============================================================================
