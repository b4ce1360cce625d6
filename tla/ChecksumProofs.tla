--------------------------- MODULE ChecksumProofs ---------------------------
(***************************************************************************)
(* Proofs about Checksum, for every size of a byte and every message that  *)
(* fits an IP packet.                                                      *)
(***************************************************************************)
EXTENDS Checksum, TLAPS, WellFoundedInduction

\* The largest word, and the modulus of the one's complement.
M == W - 1

LEMMA Widths ==
  /\ Base \in Nat /\ Base >= 2
  /\ W \in Nat /\ W >= 4 /\ M \in Nat /\ M >= 3 /\ W = M + 1
<1>1. Base \in Nat /\ Base >= 2
  BY ChecksumAssumption
<1>2. Base * Base >= 2 * Base /\ Base * Base \in Nat
  BY <1>1
<1> QED
  BY <1>1, <1>2 DEF W, M

\* Numbers that differ by a multiple of M, both from 0 to M and 0 only
\* together, are equal.
LEMMA Unique ==
  ASSUME NEW a \in 0 .. M, NEW b \in 0 .. M, NEW i \in Int, NEW j \in Int,
         a + i * M = b + j * M, a = 0 <=> b = 0
  PROVE  a = b
<1>1. M \in Nat /\ M >= 3 /\ i * M \in Int /\ j * M \in Int
  BY Widths
<1>2. a - b = (j - i) * M
  BY <1>1
<1>3. CASE i = j
  BY <1>1, <1>3
<1>4. CASE i < j
  <2>1. (j - i - 1) * M >= 0 /\ (j - i - 1) * M = (j - i) * M - M
    BY <1>1, <1>4
  <2> QED
    BY <1>1, <1>2, <2>1
<1>5. CASE i > j
  <2>1. (i - j - 1) * M >= 0 /\ (i - j - 1) * M = 0 - (j - i) * M - M
    BY <1>1, <1>5
  <2> QED
    BY <1>1, <1>2, <2>1
<1> QED
  BY <1>3, <1>4, <1>5

\* Division by W.
LEMMA High ==
  ASSUME NEW s \in Nat
  PROVE  /\ s \div W \in Nat /\ s % W \in 0 .. M
         /\ s = (s \div W) * M + AddHigh(s)
         /\ AddHigh(s) \in Nat
         /\ AddHigh(s) = 0 => s = 0
<1> DEFINE h == s \div W
<1> DEFINE l == s % W
<1>1. W \in Nat /\ W >= 4 /\ M \in Nat /\ W = M + 1
  BY Widths
<1>2. s = W * h + l /\ h \in Int /\ l \in 0 .. W - 1
  BY <1>1
<1> HIDE DEF h, l
<1>3. h >= 0
  <2>1. SUFFICES ASSUME h <= -1 PROVE FALSE
    BY <1>2
  <2>2. W * (h + 1) <= 0 /\ W * (h + 1) = W * h + W /\ W * h \in Int
    BY <1>1, <1>2, <2>1
  <2> QED
    BY <1>1, <1>2, <2>2
<1>4. W * h = h * M + h
  BY <1>1, <1>2
<1>5. h * M \in Nat
  BY <1>1, <1>2, <1>3
<1>6. s = h * M + (h + l) /\ h + l \in Nat /\ (h + l = 0 => s = 0)
  <2>1. h + l = 0 => h = 0 /\ l = 0
    BY <1>1, <1>2, <1>3
  <2>2. 0 * M = 0
    BY <1>1
  <2> QED
    BY <1>1, <1>2, <1>3, <1>4, <1>5, <2>1, <2>2
<1> QED
  BY <1>1, <1>2, <1>3, <1>6 DEF AddHigh, h, l

\* What is left of a quotient by W below 2 * W.
LEMMA SmallHigh ==
  ASSUME NEW s \in Nat
  PROVE  /\ s < W => s \div W = 0 /\ s % W = s
         /\ (s >= W /\ s < 2 * W) => s \div W = 1 /\ s % W = s - W
BY Widths

\* Folding an int twice yields the sum modulo M, 0 only for 0.
LEMMA FoldOnes ==
  ASSUME NEW s \in Nat, s < W * W, NEW a \in 0 .. M, NEW c \in Int,
         s = a + c * M, a = 0 <=> s = 0
  PROVE  Fold(s) % W = a
<1> DEFINE h == s \div W
<1> DEFINE t == AddHigh(s)
<1>1. W \in Nat /\ W >= 4 /\ M \in Nat /\ M >= 3 /\ W = M + 1
  BY Widths
<1>2. h \in Nat /\ s % W \in 0 .. M /\ s = h * M + t /\ t \in Nat /\ (t = 0 => s = 0)
  BY High
<1>3. h <= M
  <2>1. SUFFICES ASSUME h >= W PROVE FALSE
    BY <1>1, <1>2
  <2>2. s = W * h + (s % W)
    BY <1>1
  <2> HIDE DEF h
  <2>3. W * (h - W) >= 0 /\ W * (h - W) = W * h - W * W /\ W * h \in Int /\ W * W \in Int
    BY <1>1, <1>2, <2>1
  <2> QED
    BY <1>1, <1>2, <2>2, <2>3
<1>4. t <= 2 * M
  BY <1>1, <1>2, <1>3 DEF AddHigh
<1>5. h * M \in Int
  BY <1>1, <1>2
<1> HIDE DEF h, t
<1>6. Fold(s) = t + (t \div W)
  BY DEF Fold, t
<1>7. CASE t < W
  <2>1. Fold(s) = t /\ t % W = t
    BY <1>2, <1>6, <1>7, SmallHigh
  <2>2. s = 0 => t = 0
    BY <1>1, <1>2, <1>5
  <2>3. t + h * M = a + c * M
    BY <1>2, <1>5
  <2>4. t \in 0 .. M
    BY <1>1, <1>2, <1>7
  <2> QED
    BY <1>2, <2>1, <2>2, <2>3, <2>4, Unique
<1>8. CASE t >= W
  <2>1. t < 2 * W /\ t + 1 < 2 * W /\ t + 1 >= W
    BY <1>1, <1>2, <1>4, <1>8
  <2> DEFINE u == t + 1
  <2>2. Fold(s) = u
    BY <1>2, <1>6, <1>8, <2>1, SmallHigh
  <2>3. Fold(s) % W = t + 1 - W
    <3>1. u \in Nat /\ u >= W /\ u < 2 * W /\ u - W = t + 1 - W
      BY <1>1, <1>2, <2>1
    <3> HIDE DEF u
    <3> QED
      BY <2>2, <3>1, SmallHigh
  <2>4. t - M \in 0 .. M /\ t - M # 0
    BY <1>1, <1>2, <1>4, <1>8
  <2>5. (t - M) + (h + 1) * M = a + c * M
    BY <1>1, <1>2, <1>5
  <2>6. s # 0
    BY <1>1, <1>2, <1>5, <1>8
  <2>7. t - M = a
    BY <1>2, <2>4, <2>5, <2>6, Unique
  <2> QED
    BY <1>1, <1>2, <2>3, <2>7
<1> QED
  BY <1>1, <1>2, <1>7, <1>8

-----------------------------------------------------------------------------
(* The inductive invariant.                                                *)

\* As many words are summed as bytes are behind wp, and the odd one.
Bounded ==
  /\ pc = "words" => 2 * sum <= (wp - 1) * M
  /\ pc # "words" => 2 * sum <= W * M

\* The sum and the one's complement sum differ by what the carries took away.
Complements ==
  /\ sum = ones + carries * M
  /\ ones = 0 <=> sum = 0

\* Once folded, the answer is the complement.
Answered == pc = "done" => answer = M - ones

IInv == TypeOK /\ Bounded /\ Complements /\ Answered

-----------------------------------------------------------------------------
\* Any two bytes make a word.
LEMMA ShortType ==
  ASSUME NEW b \in Byte, NEW c \in Byte
  PROVE  Short(b, c) \in 0 .. M
<1>1. Base \in Nat /\ Base >= 2
  BY Widths
<1>2. \A x, y \in Byte : x + Base * y \in 0 .. Base * Base - 1
  <2> TAKE x, y \in Byte
  <2>1. x \in 0 .. Base - 1 /\ y \in 0 .. Base - 1
    BY DEF Byte
  <2>2. Base * y >= 0 /\ Base * y \in Int /\ Base * Base \in Int
    BY <1>1, <2>1
  <2>3. Base * (Base - 1 - y) >= 0 /\ Base * (Base - 1 - y) = Base * Base - Base - Base * y
    BY <1>1, <2>1
  <2> QED
    BY <1>1, <2>1, <2>2, <2>3
<1>3. Base * b + c = c + Base * b
  BY <1>1 DEF Byte
<1> QED
  BY <1>2, <1>3 DEF Short, M, W

\* What taking in a word does to both sums.
LEMMA TakeWord ==
  ASSUME TypeOK, Complements, NEW w \in 0 .. M, Take(w)
  PROVE  /\ sum' = sum + w /\ sum' \in Nat
         /\ ones' \in 0 .. M /\ carries' \in Nat
         /\ Complements'
<1>1. M \in Nat /\ M >= 3 /\ W = M + 1
  BY Widths
<1>2. sum \in Nat /\ ones \in 0 .. M /\ carries \in Nat
  BY DEF TypeOK, M
<1>3. carries * M \in Nat /\ (carries + 1) * M = carries * M + M
  BY <1>1, <1>2
<1>4. CASE ones + w >= W
  <2>1. ones' = ones + w - M /\ carries' = carries + 1 /\ sum' = sum + w
    BY <1>4 DEF Take, EndAround, M
  <2>2. sum' = ones' + carries' * M
    BY <1>1, <1>2, <1>3, <2>1 DEF Complements
  <2> QED
    BY <1>1, <1>2, <1>3, <1>4, <2>1, <2>2 DEF Complements
<1>5. CASE ~(ones + w >= W)
  <2>1. ones' = ones + w /\ carries' = carries /\ sum' = sum + w
    BY <1>5 DEF Take, EndAround
  <2>2. sum' = ones' + carries' * M
    BY <1>1, <1>2, <1>3, <2>1 DEF Complements
  <2> QED
    BY <1>1, <1>2, <1>3, <1>5, <2>1, <2>2 DEF Complements
<1> QED
  BY <1>4, <1>5

\* Half a packet of words, each of them the largest, stays below half of W^2.
LEMMA LengthBound ==
  ASSUME NEW n \in Nat, n <= W
  PROVE  n * M <= W * M
<1>1. W \in Nat /\ M \in Nat
  BY Widths
<1>2. (W - n) * M >= 0 /\ (W - n) * M = W * M - n * M /\ W * M \in Int /\ n * M \in Int
  BY <1>1
<1> QED
  BY <1>2

LEMMA MessageLength ==
  ASSUME TypeOK
  PROVE  /\ addr \in Seq(Byte) /\ Len(addr) \in Nat /\ Len(addr) + 1 <= W
         /\ wp \in Nat /\ wp >= 1 /\ len \in Nat /\ wp + len = Len(addr) + 1
BY ChecksumAssumption, Widths DEF TypeOK

LEMMA InitIInv == Init => IInv
<1> SUFFICES ASSUME Init PROVE IInv
  OBVIOUS
<1>1. W \in Nat /\ W >= 4 /\ M \in Nat
  BY Widths
<1>2. Len(addr) \in Nat
  BY ChecksumAssumption DEF Init
<1>3. 0 * M = 0
  BY <1>1
<1> QED
  BY <1>1, <1>2, <1>3 DEF Init, IInv, TypeOK, Bounded, Complements, Answered

LEMMA NextIInv == IInv /\ [Next]_vars => IInv'
<1> SUFFICES ASSUME IInv, [Next]_vars PROVE IInv'
  OBVIOUS
<1> USE DEF IInv
<1>1. W \in Nat /\ W >= 4 /\ M \in Nat /\ M >= 3 /\ W = M + 1
  BY Widths
<1>2. CASE AddWord
  <2>1. addr[wp] \in Byte /\ addr[wp + 1] \in Byte
    BY <1>2, MessageLength DEF AddWord
  <2> DEFINE w == Short(addr[wp], addr[wp + 1])
  <2>2. w \in 0 .. M
    BY <2>1, ShortType
  <2>3. Take(w)
    BY <1>2 DEF AddWord
  <2> HIDE DEF w
  <2>4. sum' = sum + w /\ sum' \in Nat /\ ones' \in 0 .. M /\ carries' \in Nat /\ Complements'
    BY <2>2, <2>3, TakeWord
  <2>5. TypeOK'
    <3>1. wp' \in Nat \ {0} /\ len' \in Nat /\ wp' + len' = Len(addr) + 1
      <4>1. wp' = wp + 2 /\ len' = len - 2 /\ len > 1
        BY <1>2 DEF AddWord
      <4> QED
        BY <4>1, MessageLength
    <3>2. pc' = pc /\ little' = little /\ addr' = addr /\ answer' = answer
      BY <1>2 DEF AddWord
    <3> QED
      BY <2>4, <3>1, <3>2 DEF TypeOK, M
  <2>6. Bounded'
    <3>1. wp' = wp + 2 /\ pc = "words" /\ pc' = "words" /\ sum \in Nat /\ wp \in Nat
      BY <1>2 DEF AddWord, TypeOK
    <3>2. (wp - 1) * M \in Int /\ (wp' - 1) * M = (wp - 1) * M + 2 * M
      BY <1>1, <3>1
    <3> QED
      BY <1>1, <2>2, <2>4, <3>1, <3>2 DEF Bounded
  <2>7. Answered'
    BY <1>2 DEF AddWord, Answered
  <2> QED
    BY <2>4, <2>5, <2>6, <2>7
<1>3. CASE OddByte
  <2>1. addr[wp] \in Byte /\ 0 \in Byte
    BY <1>3, MessageLength, Widths DEF OddByte, Byte
  <2> DEFINE w == Odd(addr[wp])
  <2>2. w \in 0 .. M
    BY <2>1, ShortType DEF Odd
  <2>3. Take(w)
    BY <1>3 DEF OddByte
  <2> HIDE DEF w
  <2>4. sum' = sum + w /\ sum' \in Nat /\ ones' \in 0 .. M /\ carries' \in Nat /\ Complements'
    BY <2>2, <2>3, TakeWord
  <2>5. TypeOK'
    BY <1>3, <2>4, MessageLength DEF OddByte, TypeOK, M
  <2>6. Bounded'
    <3>1. pc = "words" /\ pc' = "fold" /\ sum \in Nat /\ wp \in Nat /\ wp >= 1 /\ len = 1
      BY <1>3 DEF OddByte, TypeOK
    <3>2. wp + 1 <= W
      BY <1>1, <3>1, MessageLength
    <3>3. (wp + 1) * M <= W * M
      BY <1>1, <3>1, <3>2, LengthBound
    <3>4. (wp - 1) * M \in Int /\ (wp + 1) * M = (wp - 1) * M + 2 * M /\ W * M \in Int
      BY <1>1, <3>1
    <3> QED
      BY <1>1, <2>2, <2>4, <3>1, <3>3, <3>4 DEF Bounded
  <2>7. Answered'
    BY <1>3 DEF OddByte, Answered
  <2> QED
    BY <2>4, <2>5, <2>6, <2>7
<1>4. CASE NoOddByte
  <2>1. TypeOK' /\ Complements' /\ Answered'
    BY <1>4 DEF NoOddByte, TypeOK, Complements, Answered
  <2>2. Bounded'
    <3>1. pc = "words" /\ pc' = "fold" /\ sum' = sum /\ sum \in Nat /\ wp \in Nat /\ wp >= 1
      BY <1>4 DEF NoOddByte, TypeOK
    <3>2. wp - 1 \in Nat /\ wp - 1 <= W
      BY <1>1, <3>1, MessageLength
    <3>3. (wp - 1) * M <= W * M
      BY <3>2, LengthBound
    <3>4. (wp - 1) * M \in Int /\ W * M \in Int
      BY <1>1, <3>1
    <3> QED
      BY <3>1, <3>3, <3>4 DEF Bounded
  <2> QED
    BY <2>1, <2>2
<1>5. CASE Answer
  <2>1. sum \in Nat /\ ones \in 0 .. M /\ carries \in Nat /\ pc = "fold" /\ pc' = "done"
    BY <1>5 DEF Answer, TypeOK, M
  <2>2. sum < W * W
    <3>1. W * M \in Int /\ W * W = W * M + W
      BY <1>1
    <3>2. W * M >= 0
      BY <1>1
    <3> QED
      BY <1>1, <2>1, <3>1, <3>2 DEF Bounded
  <2>3. Fold(sum) % W = ones
    BY <2>1, <2>2, FoldOnes DEF Complements
  <2>4. answer' = M - ones
    BY <1>5, <2>3 DEF Answer, Complement, M
  <2>5. TypeOK'
    BY <1>1, <1>5, <2>1, <2>4 DEF Answer, TypeOK, M
  <2> QED
    BY <1>5, <2>1, <2>4, <2>5 DEF Answer, Bounded, Complements, Answered
<1>6. CASE UNCHANGED vars
  BY <1>6 DEF vars, TypeOK, Bounded, Complements, Answered
<1> QED
  BY <1>2, <1>3, <1>4, <1>5, <1>6 DEF Next

LEMMA Invariance == Spec => []IInv
BY InitIInv, NextIInv, PTL DEF Spec

-----------------------------------------------------------------------------
(* The peer.  PeerSum adds up from behind what icmp_cksum adds up from the *)
(* front, so the two are compared at every word; what holds of the sums    *)
(* from every byte on has no least counterexample.                         *)

LEMMA Least ==
  ASSUME NEW T, T \subseteq Nat, NEW e \in T
  PROVE  \E n \in T : \A k \in T : n <= k
<1> DEFINE R == OpToRel(<, Nat)
<1>1. IsWellFoundedOn(R, Nat)
  BY NatLessThanWellFounded
<1>2. \A x, y \in Nat : y < x => <<y, x>> \in R
  BY DEF OpToRel
<1> HIDE DEF R
<1>3. \E x \in T : \A y \in T : ~(<<y, x>> \in R)
  BY <1>1, WFMin
<1>4. PICK n \in T : \A k \in T : ~(<<k, n>> \in R)
  BY <1>3
<1>5. \A k \in T : ~(k < n)
  BY <1>2, <1>4
<1>6. \A k \in T : n <= k
  BY <1>5
<1> QED
  BY <1>6

\* EndAround adds modulo M, and yields 0 only for 0.
LEMMA EndAroundFacts ==
  ASSUME NEW a \in 0 .. M, NEW b \in 0 .. M
  PROVE  /\ EndAround(a, b) \in 0 .. M
         /\ \E e \in {0, 1} : EndAround(a, b) = a + b - e * M
         /\ EndAround(a, b) = 0 <=> a = 0 /\ b = 0
<1>1. M \in Nat /\ M >= 3 /\ W = M + 1 /\ W - 1 = M
  BY Widths
<1>2. CASE a + b >= W
  <2>1. EndAround(a, b) = a + b - M
    BY <1>1, <1>2 DEF EndAround
  <2>2. a + b - M = a + b - 1 * M
    BY <1>1
  <2> QED
    BY <1>1, <1>2, <2>1, <2>2
<1>3. CASE ~(a + b >= W)
  <2>1. EndAround(a, b) = a + b
    BY <1>3 DEF EndAround
  <2>2. a + b = a + b - 0 * M
    BY <1>1
  <2> QED
    BY <1>1, <1>3, <2>1, <2>2
<1> QED
  BY <1>2, <1>3

\* The sums of PeerSum.
From(s) ==
  LET from[i \in 1 .. Len(s) + 2] ==
        IF i > Len(s) THEN 0 ELSE EndAround(Word(s, i), from[i + 2])
  IN  from

\* Two bytes make a word, 0 only if both are.
LEMMA PairOfBytes ==
  ASSUME NEW x \in Byte, NEW y \in Byte
  PROVE  x + Base * y \in 0 .. M /\ (x + Base * y = 0 <=> x = 0 /\ y = 0)
<1>1. Base \in Nat /\ Base >= 2 /\ W \in Nat /\ W = M + 1
  BY Widths
<1>2. x \in 0 .. Base - 1 /\ y \in 0 .. Base - 1
  BY DEF Byte
<1>3. Base * y >= y /\ Base * y \in Int /\ Base * Base \in Int
  BY <1>1, <1>2
<1>4. Base * (Base - 1 - y) >= 0 /\ Base * (Base - 1 - y) = Base * Base - Base - Base * y
  BY <1>1, <1>2
<1>5. Base * 0 = 0
  BY <1>1
<1> DEFINE by == Base * y
<1> DEFINE bb == Base * Base
<1>6. by \in Int /\ by >= y /\ bb \in Int /\ by <= bb - Base /\ M = bb - 1 /\ (y = 0 => by = 0)
  BY <1>1, <1>2, <1>3, <1>4, <1>5 DEF M, W
<1> HIDE DEF by, bb
<1>7. x + by \in 0 .. M /\ (x + by = 0 <=> x = 0 /\ y = 0)
  BY <1>1, <1>2, <1>6
<1> QED
  BY <1>7 DEF by

LEMMA WordType ==
  ASSUME NEW s \in Seq(Byte), NEW i \in 1 .. Len(s)
  PROVE  Word(s, i) \in 0 .. M
<1> DEFINE c == IF i < Len(s) THEN s[i + 1] ELSE 0
<1>1. Base \in Nat /\ Base >= 2
  BY Widths
<1>2. s[i] \in Byte /\ c \in Byte
  <2>1. 0 \in Byte
    BY <1>1 DEF Byte
  <2>2. i < Len(s) => i + 1 \in 1 .. Len(s)
    OBVIOUS
  <2> QED
    BY <2>1, <2>2
<1>3. Word(s, i) = c + Base * s[i]
  <2>1. s[i] \in Int /\ c \in Int
    BY <1>1, <1>2 DEF Byte
  <2>2. Word(s, i) = Base * s[i] + c
    BY DEF Word
  <2> HIDE DEF c
  <2> QED
    BY <1>1, <2>1, <2>2
<1> HIDE DEF c
<1> QED
  BY <1>2, <1>3, PairOfBytes

\* A sum from behind is determined by its words and the end.
Sums(f, w, m, L) == \A i \in m .. L : f[i] = EndAround(w[i], f[i + 2])

LEMMA Same ==
  ASSUME NEW L \in Nat, NEW m \in Nat \ {0}, NEW w, NEW f, NEW g,
         Sums(f, w, m, L), Sums(g, w, m, L), \A i \in {L + 1, L + 2} : f[i] = g[i]
  PROVE  \A i \in m .. L + 2 : f[i] = g[i]
<1> DEFINE T == {d \in 0 .. L + 2 : L + 2 - d >= m /\ f[L + 2 - d] # g[L + 2 - d]}
<1>1. SUFFICES ASSUME NEW i \in m .. L + 2, f[i] # g[i] PROVE FALSE
  OBVIOUS
<1>2. L + 2 - i \in T
  <2>1. L + 2 - i \in 0 .. L + 2 /\ L + 2 - (L + 2 - i) = i
    OBVIOUS
  <2> QED
    BY <1>1, <2>1
<1>3. PICK d \in T : \A e \in T : d <= e
  <2>1. T \subseteq Nat
    OBVIOUS
  <2> HIDE DEF T
  <2> QED
    BY <1>2, <2>1, Least
<1> DEFINE j == L + 2 - d
<1>4. d \in 0 .. L + 2 /\ j >= m /\ f[j] # g[j]
  BY <1>3
<1>5. j \in m .. L /\ d - 2 \in 0 .. L + 2 /\ L + 2 - (d - 2) = j + 2 /\ j + 2 >= m
  <2>1. j \notin {L + 1, L + 2}
    BY <1>4
  <2> QED
    BY <1>4, <2>1
<1>6. d - 2 \notin T
  BY <1>3, <1>4
<1>7. f[j + 2] = g[j + 2]
  BY <1>5, <1>6
<1>8. f[j] = EndAround(w[j], f[j + 2]) /\ g[j] = EndAround(w[j], g[j + 2])
  BY <1>5 DEF Sums
<1> HIDE DEF j
<1> QED
  BY <1>4, <1>7, <1>8

\* The recursion of PeerSum is well-defined.
LEMMA FromFacts ==
  ASSUME NEW s \in Seq(Byte)
  PROVE  /\ \A i \in 1 .. Len(s) : From(s)[i] = EndAround(Word(s, i), From(s)[i + 2])
         /\ \A i \in {Len(s) + 1, Len(s) + 2} : From(s)[i] = 0
         /\ \A i \in 1 .. Len(s) + 2 : From(s)[i] \in 0 .. M
<1> DEFINE L == Len(s)
           Good(f, k) == \A i \in k .. L + 2 :
                           /\ f[i] = IF i > L THEN 0 ELSE EndAround(Word(s, i), f[i + 2])
                           /\ f[i] \in 0 .. M
           T == {k \in 1 .. L + 1 : \E f : Good(f, k)}
<1>1. L \in Nat /\ M \in Nat /\ M >= 3
  BY Widths
<1>2. \A i \in 1 .. L : Word(s, i) \in 0 .. M
  BY WordType
<1> HIDE DEF L
<1>3. L + 1 \in T
  <2> DEFINE z == [i \in 1 .. L + 2 |-> 0]
  <2>1. Good(z, L + 1)
    BY <1>1
  <2> QED
    BY <1>1, <2>1
<1>4. PICK n \in T : \A k \in T : n <= k
  <2>1. T \subseteq Nat
    BY <1>1
  <2> HIDE DEF T
  <2> QED
    BY <1>3, <2>1, Least
<1>5. PICK f : Good(f, n)
  BY <1>4
<1>6. n = 1
  <2>1. SUFFICES ASSUME n > 1 PROVE FALSE
    BY <1>1, <1>4
  <2> DEFINE j == n - 1
             x == EndAround(Word(s, j), f[j + 2])
             g == [i \in 1 .. L + 2 |-> IF i = j THEN x ELSE f[i]]
  <2>2. j \in 1 .. L /\ j + 2 \in n .. L + 2 /\ n \in 1 .. L + 1
    BY <1>1, <1>4, <2>1
  <2>3. x \in 0 .. M
    <3>1. Word(s, j) \in 0 .. M /\ f[j + 2] \in 0 .. M
      BY <1>2, <1>5, <2>2
    <3> QED
      BY <3>1, EndAroundFacts
  <2>4. ASSUME NEW i \in j .. L + 2
        PROVE  /\ g[i] = IF i > L THEN 0 ELSE EndAround(Word(s, i), g[i + 2])
               /\ g[i] \in 0 .. M
    <3>1. CASE i = j
      <4>1. g[j] = x /\ g[j + 2] = f[j + 2] /\ ~(j > L)
        BY <1>1, <2>2
      <4> HIDE DEF g
      <4> QED
        BY <2>3, <3>1, <4>1
    <3>2. CASE i # j
      <4>1. i \in n .. L + 2 /\ g[i] = f[i] /\ (~(i > L) => g[i + 2] = f[i + 2])
        BY <1>1, <2>2, <3>2
      <4> HIDE DEF g
      <4> QED
        BY <1>5, <4>1
    <3> QED
      BY <3>1, <3>2
  <2>5. Good(g, j)
    BY <2>4
  <2>6. j \in T
    <3> HIDE DEF g, Good
    <3>1. j \in 1 .. L + 1
      BY <1>1, <2>2
    <3> HIDE DEF j
    <3> QED
      BY <2>5, <3>1
  <2>7. n <= j
    BY <1>4, <2>6
  <2> QED
    BY <1>1, <2>2, <2>7
<1> DEFINE h == [i \in 1 .. L + 2 |-> f[i]]
<1>7. h = [i \in 1 .. L + 2 |-> IF i > L THEN 0 ELSE EndAround(Word(s, i), h[i + 2])]
  <2>1. ASSUME NEW i \in 1 .. L + 2 PROVE h[i] = IF i > L THEN 0 ELSE EndAround(Word(s, i), h[i + 2])
    <3>1. h[i] = f[i] /\ (~(i > L) => h[i + 2] = f[i + 2])
      BY <1>1
    <3> HIDE DEF h
    <3> QED
      BY <1>5, <1>6, <3>1
  <2>2. h = [i \in 1 .. L + 2 |-> h[i]]
    OBVIOUS
  <2> HIDE DEF h
  <2> QED
    BY <2>1, <2>2, Zenon
<1>8. From(s) = [i \in 1 .. L + 2 |-> IF i > L THEN 0 ELSE EndAround(Word(s, i), From(s)[i + 2])]
  <2> HIDE DEF h
  <2> QED
    BY <1>7, Zenon DEF From, Word, L
<1> HIDE DEF h
<1> DEFINE from == From(s)
           w == [i \in 1 .. L |-> Word(s, i)]
<1>9. /\ \A i \in 1 .. L : from[i] = EndAround(Word(s, i), from[i + 2])
      /\ \A i \in {L + 1, L + 2} : from[i] = 0
  <2> HIDE DEF from
  <2>1. from = [i \in 1 .. L + 2 |-> IF i > L THEN 0 ELSE EndAround(Word(s, i), from[i + 2])]
    BY <1>8 DEF from
  <2> QED
    BY <1>1, <2>1
<1>10. /\ \A i \in 1 .. L : h[i] = EndAround(Word(s, i), h[i + 2])
       /\ \A i \in {L + 1, L + 2} : h[i] = 0
  BY <1>1, <1>7
<1>11. \A i \in 1 .. L + 2 : from[i] = h[i]
  <2> HIDE DEF from
  <2>1. Sums(from, w, 1, L) /\ Sums(h, w, 1, L)
    BY <1>9, <1>10 DEF Sums
  <2>2. \A i \in {L + 1, L + 2} : from[i] = h[i]
    BY <1>9, <1>10
  <2> HIDE DEF w
  <2>3. 1 \in Nat \ {0}
    OBVIOUS
  <2> QED
    BY <1>1, <2>1, <2>2, <2>3, Same
<1>12. \A i \in 1 .. L + 2 : h[i] \in 0 .. M
  BY <1>5, <1>6 DEF h
<1> HIDE DEF from
<1>13. \A i \in 1 .. L + 2 : from[i] \in 0 .. M
  BY <1>11, <1>12
<1> QED
  BY <1>9, <1>13 DEF from, L

\* A word of the machine, weighted, is that of the network modulo M.
Weight == IF little THEN Base ELSE 1

LEMMA PeerWord ==
  ASSUME NEW b \in Byte, NEW c \in Byte
  PROVE  /\ Short(b, c) \in 0 .. M /\ Base * b + c \in 0 .. M
         /\ \E q \in Int : Weight * Short(b, c) = Base * b + c + q * M
         /\ Short(b, c) = 0 <=> Base * b + c = 0
<1>1. Base \in Nat /\ Base >= 2 /\ M \in Nat /\ b \in Int /\ c \in Int
  BY Widths DEF Byte
<1>2. b + Base * c \in 0 .. M /\ (b + Base * c = 0 <=> b = 0 /\ c = 0)
  BY PairOfBytes
<1>3. c + Base * b \in 0 .. M /\ (c + Base * b = 0 <=> b = 0 /\ c = 0)
  BY PairOfBytes
<1>4. c + Base * b = Base * b + c
  BY <1>1
<1>5. CASE little
  <2>1. Short(b, c) = b + Base * c /\ Weight = Base
    BY <1>5 DEF Short, Weight
  <2>2. Base * (b + Base * c) = Base * b + c + c * M
    <3>1. Base * (b + Base * c) = Base * b + Base * (Base * c)
      BY <1>1
    <3>2. Base * (Base * c) = (Base * Base) * c
      BY <1>1
    <3>3. Base * Base = M + 1 /\ (M + 1) * c = c + c * M
      BY <1>1 DEF M, W
    <3>4. Base * (Base * c) = c + c * M
      BY <3>2, <3>3
    <3>5. Base * b \in Int /\ c * M \in Int
      BY <1>1
    <3> QED
      BY <1>1, <3>1, <3>4, <3>5
  <2> QED
    BY <1>1, <1>2, <1>3, <1>4, <2>1, <2>2
<1>6. CASE ~little
  <2>1. Short(b, c) = Base * b + c /\ Weight = 1
    BY <1>6 DEF Short, Weight
  <2>2. 1 * (Base * b + c) = Base * b + c + 0 * M
    BY <1>1
  <2> QED
    BY <1>3, <1>4, <2>1, <2>2
<1> QED
  BY <1>5, <1>6

\* What both sums have of the message so far is what PeerSum makes of it.
Rest == IF pc = "words" THEN From(addr)[wp] ELSE 0

Peer ==
  /\ \E q \in Int : Weight * ones + Rest = From(addr)[1] + q * M
  /\ From(addr)[1] = 0 <=> ones = 0 /\ Rest = 0

\* A word moves from the sum behind (r) to the sum before (o).
Balanced(g, o, s, n, r, o1, r1, f, q, c, d, e) ==
  /\ g \in Int /\ o \in Int /\ s \in Int /\ n \in Int /\ r \in Int /\ o1 \in Int /\ r1 \in Int
  /\ f \in Int /\ q \in Int /\ c \in Int /\ d \in Int /\ e \in Int
  /\ g * o + r = f + q * M /\ g * s = n + c * M
  /\ o1 = o + s - d * M /\ r = n + r1 - e * M

LEMMA Balance ==
  ASSUME NEW g, NEW o, NEW s, NEW n, NEW r, NEW o1, NEW r1, NEW f, NEW q, NEW c, NEW d, NEW e,
         Balanced(g, o, s, n, r, o1, r1, f, q, c, d, e)
  PROVE  \E p \in Int : g * o1 + r1 = f + p * M
<1> USE DEF Balanced
<1>1. M \in Int
  BY Widths
<1>2. g * o1 = g * o + g * s - g * (d * M)
  <2>1. d * M \in Int
    BY <1>1
  <2> QED
    BY <1>1, <2>1
<1>3. g * (d * M) = (g * d) * M
  BY <1>1
<1> DEFINE gd == g * d
           gdM == gd * M
           qM == q * M
           cM == c * M
           eM == e * M
           go == g * o
           p == q + c - gd + e
<1>4. p \in Int /\ gdM \in Int /\ qM \in Int /\ cM \in Int /\ eM \in Int /\ go \in Int /\ gd \in Int
  BY <1>1
<1>5. p * M = qM + cM - gdM + eM
  <2> HIDE DEF gd
  <2> QED
    BY <1>1, <1>4
<1>6. g * o1 = go + (n + cM) - gdM
  BY <1>2, <1>3
<1>7. go + r = f + qM /\ r = n + r1 - eM
  OBVIOUS
<1> HIDE DEF qM, cM, eM, go, gd, gdM, p
<1>8. g * o1 + r1 = f + p * M
  BY <1>4, <1>5, <1>6, <1>7
<1> QED
  BY <1>4, <1>8

LEMMA PeerTake ==
  ASSUME TypeOK, Peer, pc = "words", NEW b \in Byte, NEW c \in Byte, NEW r \in 0 .. M,
         Take(Short(b, c)), From(addr)[wp] = EndAround(Base * b + c, r),
         UNCHANGED <<little, addr>>, Rest' = r
  PROVE  Peer'
<1> DEFINE s == Short(b, c)
           n == Base * b + c
           f == From(addr)[1]
           x == EndAround(n, r)
<1>1. /\ s \in 0 .. M /\ n \in 0 .. M /\ \E q \in Int : Weight * s = n + q * M
      /\ s = 0 <=> n = 0
  BY PeerWord
<1>2. ones \in 0 .. M /\ ones' = EndAround(ones, s) /\ Weight' = Weight /\ Weight \in Int
      /\ M \in Int
  BY Widths DEF TypeOK, M, Take, Weight
<1>3. f \in 0 .. M
  BY FromFacts, ChecksumAssumption DEF TypeOK
<1>4. Rest = x /\ f' = f
  BY DEF Rest
<1>5. (\E q \in Int : Weight * ones + x = f + q * M) /\ (f = 0 <=> ones = 0 /\ x = 0)
  BY <1>4 DEF Peer
<1> HIDE DEF s, n, f
<1>6. /\ x \in 0 .. M /\ (\E e \in {0, 1} : x = n + r - e * M)
      /\ x = 0 <=> n = 0 /\ r = 0
  BY <1>1, EndAroundFacts
<1>7. /\ ones' \in 0 .. M /\ (\E e \in {0, 1} : ones' = ones + s - e * M)
      /\ ones' = 0 <=> ones = 0 /\ s = 0
  <2> DEFINE y == EndAround(ones, s)
  <2>1. /\ y \in 0 .. M /\ (\E e \in {0, 1} : y = ones + s - e * M)
        /\ y = 0 <=> ones = 0 /\ s = 0
    BY <1>1, <1>2, EndAroundFacts
  <2>2. ones' = y
    BY <1>2
  <2> HIDE DEF y
  <2> QED
    BY <2>1, <2>2
<1> HIDE DEF x
<1>8. \E p \in Int : Weight * ones' + r = f + p * M
  <2>1. PICK q \in Int : Weight * ones + x = f + q * M
    BY <1>5
  <2>2. PICK e \in {0, 1} : x = n + r - e * M
    BY <1>6
  <2>3. PICK d \in {0, 1} : ones' = ones + s - d * M
    BY <1>7
  <2>4. PICK k \in Int : Weight * s = n + k * M
    BY <1>1
  <2>5. ones \in Int /\ ones' \in Int /\ s \in Int /\ n \in Int /\ x \in Int /\ r \in Int
        /\ f \in Int /\ d \in Int /\ e \in Int /\ Weight \in Int
    BY <1>1, <1>2, <1>3, <1>6, <1>7 DEF f
  <2> DEFINE g == Weight
             o1 == ones'
  <2> HIDE DEF g, o1
  <2>6. /\ g \in Int /\ o1 \in Int /\ g * ones + x = f + q * M /\ o1 = ones + s - d * M
        /\ g * s = n + k * M /\ k \in Int /\ q \in Int
    BY <2>1, <2>3, <2>4, <2>5 DEF g, o1
  <2>7. \E p \in Int : g * o1 + r = f + p * M
    <3>1. Balanced(g, ones, s, n, x, o1, r, f, q, k, d, e)
      BY <2>2, <2>5, <2>6 DEF Balanced
    <3> QED
      BY <3>1, Balance
  <2> QED
    BY <2>7 DEF g, o1
<1>9. f = 0 <=> ones' = 0 /\ r = 0
  BY <1>1, <1>5, <1>6, <1>7
<1>10. Weight' * ones' + Rest' = Weight * ones' + r
  BY <1>2
<1>11. From(addr)[1]' = f
  BY <1>4 DEF f
<1> QED
  BY <1>8, <1>9, <1>10, <1>11 DEF Peer

LEMMA PeerInit == Init => Peer
<1> SUFFICES ASSUME Init PROVE Peer
  OBVIOUS
<1>1. pc = "words" /\ wp = 1 /\ ones = 0 /\ addr \in Seq(Byte) /\ Len(addr) >= 4
  BY ChecksumAssumption DEF Init
<1>2. Weight \in Int /\ M \in Int
  BY Widths DEF Weight
<1>3. From(addr)[1] \in 0 .. M
  BY <1>1, FromFacts
<1>4. Weight * 0 + From(addr)[1] = From(addr)[1] + 0 * M
  BY <1>2, <1>3
<1> QED
  BY <1>1, <1>4 DEF Peer, Rest

LEMMA PeerStep == TypeOK /\ Peer /\ [Next]_vars => Peer'
<1> SUFFICES ASSUME TypeOK, Peer, [Next]_vars PROVE Peer'
  OBVIOUS
<1>1. addr \in Seq(Byte) /\ Len(addr) \in Nat /\ wp \in Nat /\ wp >= 1 /\ wp + len = Len(addr) + 1
  BY MessageLength
<1>2. /\ \A i \in 1 .. Len(addr) : From(addr)[i] = EndAround(Word(addr, i), From(addr)[i + 2])
      /\ \A i \in {Len(addr) + 1, Len(addr) + 2} : From(addr)[i] = 0
      /\ \A i \in 1 .. Len(addr) + 2 : From(addr)[i] \in 0 .. M
  BY <1>1, FromFacts
<1>3. CASE AddWord
  <2>1. addr[wp] \in Byte /\ addr[wp + 1] \in Byte /\ wp \in 1 .. Len(addr) /\ wp < Len(addr)
        /\ wp + 2 \in 1 .. Len(addr) + 2
    BY <1>1, <1>3, MessageLength DEF AddWord
  <2>2. Take(Short(addr[wp], addr[wp + 1])) /\ pc = "words" /\ pc' = "words" /\ wp' = wp + 2
        /\ UNCHANGED <<little, addr>>
    BY <1>3 DEF AddWord
  <2>3. From(addr)[wp] = EndAround(Base * addr[wp] + addr[wp + 1], From(addr)[wp + 2])
    BY <1>2, <2>1 DEF Word
  <2>4. Rest' = From(addr)[wp + 2] /\ From(addr)[wp + 2] \in 0 .. M
    BY <1>2, <2>1, <2>2 DEF Rest
  <2> QED
    BY <2>1, <2>2, <2>3, <2>4, PeerTake
<1>4. CASE OddByte
  <2>1. addr[wp] \in Byte /\ 0 \in Byte /\ wp = Len(addr) /\ wp \in 1 .. Len(addr)
    BY <1>1, <1>4, Widths DEF OddByte, Byte
  <2>2. Take(Short(addr[wp], 0)) /\ pc = "words" /\ pc' = "fold" /\ UNCHANGED <<little, addr>>
    BY <1>4 DEF OddByte, Odd
  <2>3. From(addr)[wp] = EndAround(Base * addr[wp] + 0, 0)
    <3>1. Word(addr, wp) = Base * addr[wp] + 0 /\ From(addr)[wp + 2] = 0
      BY <1>1, <1>2, <2>1 DEF Word
    <3>2. From(addr)[wp] = EndAround(Word(addr, wp), From(addr)[wp + 2])
      BY <1>2, <2>1
    <3> QED
      BY <3>1, <3>2
  <2>4. Rest' = 0 /\ 0 \in 0 .. M
    BY <2>2, Widths DEF Rest
  <2> QED
    BY <2>1, <2>2, <2>3, <2>4, PeerTake
<1>5. CASE NoOddByte
  <2>1. wp = Len(addr) + 1 /\ pc = "words" /\ pc' = "fold" /\ UNCHANGED <<little, addr, ones>>
    BY <1>1, <1>5 DEF NoOddByte
  <2>2. Rest = 0 /\ Rest' = 0
    BY <1>2, <2>1 DEF Rest
  <2> QED
    BY <2>1, <2>2 DEF Peer, Weight
<1>6. CASE Answer
  BY <1>6 DEF Answer, Peer, Weight, Rest
<1>7. CASE UNCHANGED vars
  BY <1>7 DEF vars, Peer, Weight, Rest
<1> QED
  BY <1>3, <1>4, <1>5, <1>6, <1>7 DEF Next

\* The two bytes of the answer are, as a word of the network, its weighted
\* value modulo M.
LEMMA StoredWord ==
  ASSUME little \in BOOLEAN, answer \in 0 .. M
  PROVE  /\ StoredAt(answer, 1) \in Byte /\ StoredAt(answer, 2) \in Byte
         /\ \E q \in Int :
              Weight * answer = Base * StoredAt(answer, 1) + StoredAt(answer, 2) + q * M
         /\ Base * StoredAt(answer, 1) + StoredAt(answer, 2) = 0 => answer = 0
<1> DEFINE a == answer
           h == a \div Base
           l == a % Base
<1>1. Base \in Nat /\ Base >= 2 /\ M \in Nat /\ Base * Base = M + 1 /\ Base * Base \in Int
  BY Widths DEF M, W
<1>2. a = Base * h + l /\ h \in Int /\ l \in 0 .. Base - 1 /\ a \in 0 .. M
  BY <1>1
<1> HIDE DEF h, l, a
<1>3. h >= 0
  <2>1. SUFFICES ASSUME h <= -1 PROVE FALSE
    BY <1>2
  <2>2. Base * (h + 1) <= 0 /\ Base * (h + 1) = Base * h + Base /\ Base * h \in Int
    BY <1>1, <1>2, <2>1
  <2> QED
    BY <1>1, <1>2, <2>2
<1>4. h <= Base - 1
  <2>1. SUFFICES ASSUME h >= Base PROVE FALSE
    BY <1>1, <1>2
  <2>2. Base * (h - Base) >= 0 /\ Base * (h - Base) = Base * h - Base * Base /\ Base * h \in Int
    BY <1>1, <1>2, <2>1
  <2> QED
    BY <1>1, <1>2, <2>2
<1>5. h \in Byte /\ l \in Byte
  BY <1>1, <1>2, <1>3, <1>4 DEF Byte
<1>6. CASE little
  <2>1. StoredAt(answer, 1) = l /\ StoredAt(answer, 2) = h /\ Weight = Base
    <3>1. little = TRUE
      BY <1>6
    <3>2. (1 = 1) = TRUE /\ (2 = 1) = FALSE
      OBVIOUS
    <3>3. (little = (1 = 1)) /\ ~(little = (2 = 1))
      BY <3>1, <3>2
    <3> QED
      BY <1>6, <3>3 DEF StoredAt, Weight, h, l, a
  <2>2. Base * a = Base * l + h + h * M
    <3>1. Base * a = Base * (Base * h) + Base * l
      BY <1>1, <1>2
    <3>2. Base * (Base * h) = (Base * Base) * h
      BY <1>1, <1>2
    <3>3. (M + 1) * h = h + h * M
      BY <1>1, <1>2
    <3>4. Base * (Base * h) = h + h * M
      BY <1>1, <3>2, <3>3
    <3>5. Base * l \in Int /\ h * M \in Int
      BY <1>1, <1>2
    <3> QED
      BY <1>2, <3>1, <3>4, <3>5
  <2>3. Base * l + h = 0 => a = 0
    <3>1. h + Base * l \in 0 .. M /\ (h + Base * l = 0 <=> h = 0 /\ l = 0)
      BY <1>5, PairOfBytes
    <3>2. h + Base * l = Base * l + h
      BY <1>1, <1>2
    <3>3. Base * 0 + 0 = 0
      BY <1>1
    <3> QED
      BY <1>2, <3>1, <3>2, <3>3
  <2> QED
    BY <1>2, <1>5, <2>1, <2>2, <2>3 DEF a
<1>7. CASE ~little
  <2>1. StoredAt(answer, 1) = h /\ StoredAt(answer, 2) = l /\ Weight = 1
    BY <1>7 DEF StoredAt, Weight, h, l, a
  <2>2. 1 * a = Base * h + l + 0 * M
    BY <1>1, <1>2
  <2>3. Base * h + l = 0 => a = 0
    BY <1>2
  <2> QED
    BY <1>2, <1>5, <2>1, <2>2, <2>3 DEF a
<1> QED
  BY <1>6, <1>7

\* The message sent is the message with the answer as its second word.
LEMMA SentFacts ==
  ASSUME IInv
  PROVE  /\ Sent \in Seq(Byte) /\ Len(Sent) = Len(addr)
         /\ Sent[3] = StoredAt(answer, 1) /\ Sent[4] = StoredAt(answer, 2)
         /\ \A i \in 1 .. Len(addr) : i \notin {3, 4} => Sent[i] = addr[i]
<1> DEFINE L == Len(addr)
<1>a. addr \in Seq(Byte) /\ L \in Nat /\ L >= 4 /\ addr[3] = 0 /\ addr[4] = 0
  BY ChecksumAssumption DEF IInv, TypeOK
<1>b. StoredAt(answer, 1) \in Byte /\ StoredAt(answer, 2) \in Byte
  BY StoredWord DEF IInv, TypeOK, M
<1> DEFINE u == StoredAt(answer, 1)
           v == StoredAt(answer, 2)
<1>1. Sent = [i \in 1 .. L |-> IF i = 3 THEN u ELSE IF i = 4 THEN v ELSE addr[i]]
  <2>1. ASSUME NEW i \in 1 .. L
        PROVE  (IF i \in {3, 4} THEN StoredAt(answer, i - 2) ELSE addr[i])
                 = IF i = 3 THEN u ELSE IF i = 4 THEN v ELSE addr[i]
    <3>1. 3 - 2 = 1 /\ 4 - 2 = 2
      OBVIOUS
    <3> QED
      BY <3>1
  <2> QED
    BY <2>1 DEF Sent
<1>2. u \in Byte /\ v \in Byte
  BY <1>b
<1> HIDE DEF u, v
<1>3. \A i \in 1 .. L : addr[i] \in Byte
  BY <1>a
<1>4. Sent \in [1 .. L -> Byte]
  BY <1>1, <1>2, <1>3
<1>5. Sent \in Seq(Byte) /\ Len(Sent) = L
  BY <1>a, <1>4
<1> QED
  BY <1>a, <1>1, <1>5 DEF u, v

\* Changing the second word, which was 0, changes the sum by it modulo M.
LEMMA SentSum ==
  ASSUME IInv
  PROVE  LET x == Base * StoredAt(answer, 1) + StoredAt(answer, 2)
         IN  /\ PeerSum(Sent) \in 0 .. M
             /\ \E q \in Int : PeerSum(Sent) = From(addr)[1] + x + q * M
             /\ PeerSum(Sent) = 0 => From(addr)[1] = 0 /\ x = 0
<1> DEFINE x == Base * StoredAt(answer, 1) + StoredAt(answer, 2)
           L == Len(addr)
           a == From(addr)
           b == From(Sent)
           w == [i \in 1 .. L |-> Word(addr, i)]
           n == Word(addr, 1)
<1>0. little \in BOOLEAN /\ answer \in 0 .. M /\ addr \in Messages
  BY DEF IInv, TypeOK, M
<1>1. addr \in Seq(Byte) /\ L \in Nat /\ L >= 4 /\ addr[3] = 0 /\ addr[4] = 0
  BY <1>0, ChecksumAssumption
<1>3. /\ Sent \in Seq(Byte) /\ Len(Sent) = L
      /\ Sent[3] = StoredAt(answer, 1) /\ Sent[4] = StoredAt(answer, 2)
      /\ \A i \in 1 .. L : i \notin {3, 4} => Sent[i] = addr[i]
  BY SentFacts
<1>4. /\ \A i \in 1 .. L : a[i] = EndAround(Word(addr, i), a[i + 2])
      /\ \A i \in {L + 1, L + 2} : a[i] = 0
      /\ \A i \in 1 .. L + 2 : a[i] \in 0 .. M
  BY <1>1, FromFacts
<1>5. /\ \A i \in 1 .. L : b[i] = EndAround(Word(Sent, i), b[i + 2])
      /\ \A i \in {L + 1, L + 2} : b[i] = 0
      /\ \A i \in 1 .. L + 2 : b[i] \in 0 .. M
  BY <1>3, FromFacts
<1>6. /\ Word(Sent, 1) = n /\ Word(addr, 3) = 0 /\ Word(Sent, 3) = x
      /\ \A i \in 5 .. L : Word(Sent, i) = Word(addr, i)
  <2>1. \A i \in 5 .. L : i \in 1 .. L /\ i \notin {3, 4} /\ (i < L => i + 1 \in 1 .. L /\ i + 1 \notin {3, 4})
    BY <1>1
  <2>2. 1 < L /\ 3 < L /\ 1 \in 1 .. L /\ 2 \in 1 .. L /\ 1 + 1 = 2 /\ 3 + 1 = 4
    BY <1>1
  <2>3. Base * 0 + 0 = 0
    BY Widths
  <2>4. \A i \in 5 .. L : Word(Sent, i) = Word(addr, i)
    BY <1>3, <2>1 DEF Word
  <2>5. Word(Sent, 1) = n /\ Word(addr, 3) = 0 /\ Word(Sent, 3) = x
    BY <1>1, <1>3, <2>2, <2>3 DEF Word
  <2> QED
    BY <2>4, <2>5
<1>7. n \in 0 .. M /\ x \in 0 .. M
  <2>1. 1 \in 1 .. Len(addr) /\ 3 \in 1 .. Len(Sent)
    BY <1>1, <1>3
  <2>2. n \in 0 .. M
    BY <1>1, <2>1, WordType
  <2>3. Word(Sent, 3) \in 0 .. M
    BY <1>3, <2>1, WordType
  <2> QED
    BY <1>6, <2>2, <2>3
<1>8. PeerSum(Sent) = b[1]
  BY DEF PeerSum, From
<1> HIDE DEF a, b, x, n, L
<1>9. b[5] = a[5]
  <2>1. Sums(a, w, 5, L) /\ Sums(b, w, 5, L)
    <3>1. \A i \in 5 .. L : i \in 1 .. L /\ w[i] = Word(addr, i)
      OBVIOUS
    <3> HIDE DEF w
    <3> QED
      BY <1>4, <1>5, <1>6, <3>1 DEF Sums
  <2>2. \A i \in {L + 1, L + 2} : a[i] = b[i]
    BY <1>4, <1>5
  <2>3. 5 \in Nat \ {0} /\ L \in Nat
    BY <1>1
  <2> HIDE DEF w
  <2>4. \A i \in 5 .. L + 2 : a[i] = b[i]
    BY <2>1, <2>2, <2>3, Same
  <2> QED
    BY <1>1, <2>4
<1> DEFINE r == a[5]
<1>10. r \in 0 .. M /\ a[3] = EndAround(0, r) /\ b[3] = EndAround(x, r)
       /\ a[1] = EndAround(n, a[3]) /\ b[1] = EndAround(n, b[3])
  <2>1. 1 \in 1 .. L /\ 3 \in 1 .. L /\ 5 \in 1 .. L + 2 /\ 1 + 2 = 3 /\ 3 + 2 = 5
    BY <1>1
  <2>2. r \in 0 .. M
    BY <1>4, <2>1
  <2>3. a[1] = EndAround(n, a[3]) /\ a[3] = EndAround(0, r)
    <3>1. a[1] = EndAround(Word(addr, 1), a[1 + 2]) /\ a[3] = EndAround(Word(addr, 3), a[3 + 2])
      BY <1>4, <2>1
    <3> QED
      BY <1>6, <2>1, <3>1 DEF n
  <2>4. b[1] = EndAround(n, b[3]) /\ b[3] = EndAround(x, r)
    <3>1. b[1] = EndAround(Word(Sent, 1), b[1 + 2]) /\ b[3] = EndAround(Word(Sent, 3), b[3 + 2])
      BY <1>5, <2>1
    <3> QED
      BY <1>6, <1>9, <2>1, <3>1
  <2> QED
    BY <2>2, <2>3, <2>4
<1> HIDE DEF r
<1>11. a[3] = r
  BY <1>10, Widths DEF EndAround
<1>12. /\ b[3] \in 0 .. M /\ (\E e \in {0, 1} : b[3] = x + r - e * M)
       /\ b[3] = 0 <=> x = 0 /\ r = 0
  <2> DEFINE y == EndAround(x, r)
  <2>1. /\ y \in 0 .. M /\ (\E e \in {0, 1} : y = x + r - e * M)
        /\ y = 0 <=> x = 0 /\ r = 0
    BY <1>7, <1>10, EndAroundFacts
  <2> HIDE DEF y
  <2> QED
    BY <1>10, <2>1 DEF y
<1> DEFINE z == b[3]
<1>13. /\ b[1] \in 0 .. M /\ (\E e \in {0, 1} : b[1] = n + z - e * M)
       /\ b[1] = 0 <=> n = 0 /\ z = 0
  <2> DEFINE y == EndAround(n, z)
  <2>1. /\ y \in 0 .. M /\ (\E e \in {0, 1} : y = n + z - e * M)
        /\ y = 0 <=> n = 0 /\ z = 0
    BY <1>7, <1>12, EndAroundFacts
  <2> HIDE DEF y
  <2> QED
    BY <1>10, <2>1 DEF y
<1>14. /\ a[1] \in 0 .. M /\ (\E e \in {0, 1} : a[1] = n + r - e * M)
       /\ a[1] = 0 <=> n = 0 /\ r = 0
  <2> DEFINE y == EndAround(n, r)
  <2>1. /\ y \in 0 .. M /\ (\E e \in {0, 1} : y = n + r - e * M)
        /\ y = 0 <=> n = 0 /\ r = 0
    BY <1>7, <1>10, EndAroundFacts
  <2> HIDE DEF y
  <2> QED
    BY <1>10, <1>11, <2>1 DEF y
<1>15. \E q \in Int : b[1] = a[1] + x + q * M
  <2>1. PICK e \in {0, 1} : z = x + r - e * M
    BY <1>12
  <2>2. PICK d \in {0, 1} : b[1] = n + z - d * M
    BY <1>13
  <2>3. PICK c \in {0, 1} : a[1] = n + r - c * M
    BY <1>14
  <2>4. M \in Int /\ x \in Int /\ r \in Int /\ n \in Int
    BY <1>7, <1>10, Widths
  <2> DEFINE q == c - d - e
             a1 == a[1]
             b1 == b[1]
  <2>5. q * M = c * M - d * M - e * M /\ c * M \in Int /\ d * M \in Int /\ e * M \in Int /\ q \in Int
    BY <2>4
  <2>6. a1 \in Int /\ b1 \in Int /\ z \in Int
    BY <1>12, <1>13, <1>14, <2>4
  <2> HIDE DEF q, a1, b1, z
  <2>7. b1 = n + z - d * M /\ a1 = n + r - c * M
    BY <2>2, <2>3 DEF a1, b1
  <2>8. b1 = a1 + x + q * M
    BY <2>1, <2>4, <2>5, <2>6, <2>7
  <2> QED
    BY <2>5, <2>8 DEF a1, b1
<1>16. b[1] = 0 => a[1] = 0 /\ x = 0
  BY <1>12, <1>13, <1>14
<1> QED
  BY <1>8, <1>13, <1>15, <1>16 DEF a, x

\* Together with the answer, which is what is missing to M, the sum is M.
LEMMA Accepted == IInv /\ Peer => PeerAccepts
<1> SUFFICES ASSUME IInv, Peer, pc = "done" PROVE PeerSum(Sent) = M
  BY DEF PeerAccepts, M
<1> DEFINE x == Base * StoredAt(answer, 1) + StoredAt(answer, 2)
           f == From(addr)[1]
           s == PeerSum(Sent)
           g == Weight
<1>1. little \in BOOLEAN /\ ones \in 0 .. M /\ answer = M - ones /\ answer \in 0 .. M /\ addr \in Messages
  BY DEF IInv, TypeOK, Answered, M
<1>2. M \in Nat /\ M >= 3 /\ g \in Int
  BY Widths DEF Weight
<1>3. (\E q \in Int : g * ones + 0 = f + q * M) /\ (f = 0 <=> ones = 0)
  BY DEF Peer, Rest
<1>4. f \in Int
  BY <1>1, <1>2, FromFacts, ChecksumAssumption
<1>5. /\ \E q \in Int : g * answer = x + q * M
      /\ x = 0 => answer = 0
  BY <1>1, StoredWord
<1>6. s \in 0 .. M /\ (\E q \in Int : s = f + x + q * M) /\ (s = 0 => f = 0 /\ x = 0)
  BY SentSum
<1>7. x \in Int
  <2>1. StoredAt(answer, 1) \in Byte /\ StoredAt(answer, 2) \in Byte
    BY <1>1, StoredWord
  <2> QED
    BY <2>1, Widths DEF Byte
<1> HIDE DEF x, f, s, g
<1>8. s # 0
  BY <1>1, <1>2, <1>3, <1>5, <1>6
<1>9. PICK p \in Int : g * ones + 0 = f + p * M
  BY <1>3
<1>10. PICK q \in Int : g * answer = x + q * M
  BY <1>5
<1>11. PICK r \in Int : s = f + x + r * M
  BY <1>6
<1>12. g * answer = g * M - g * ones /\ g * M \in Int /\ g * ones \in Int
  BY <1>1, <1>2
<1>13. p * M \in Int /\ q * M \in Int /\ r * M \in Int
  BY <1>2
<1>14. s = g * M - p * M - q * M + r * M
  BY <1>4, <1>6, <1>7, <1>9, <1>10, <1>11, <1>12, <1>13
<1> DEFINE k == g - p - q + r
<1>15. k \in Int /\ k * M = g * M - p * M - q * M + r * M
  BY <1>2
<1>16. s = k * M
  BY <1>14, <1>15
<1> HIDE DEF k
<1>17. s + 0 * M = M + (k - 1) * M
  BY <1>2, <1>15, <1>16
<1>18. M \in 0 .. M /\ M # 0 /\ s # 0 /\ 0 \in Int /\ k - 1 \in Int
  BY <1>2, <1>8, <1>15
<1>19. s = M
  BY <1>6, <1>17, <1>18, Unique
<1> QED
  BY <1>19 DEF s

-----------------------------------------------------------------------------
(* Damage in one word, the g-th, changes the sum by what it changes the     *)
(* word, modulo M.                                                          *)

\* Sums f and g from behind, shifted by d, and the words v and w before them.
Shifted(f, g, v, w, d, q) ==
  /\ f \in 0 .. M /\ g \in 0 .. M /\ v \in 0 .. M /\ w \in 0 .. M
  /\ d \in Int /\ q \in Int
  /\ f = g + d + q * M

LEMMA DamageStep ==
  ASSUME NEW f, NEW g, NEW v, NEW w, NEW d, NEW q, Shifted(f, g, v, w, d, q)
  PROVE  \E p \in Int : EndAround(v, f) = EndAround(w, g) + (v - w + d) + p * M
<1> DEFINE x == EndAround(v, f)
           y == EndAround(w, g)
<1> USE DEF Shifted
<1>1. M \in Int /\ v \in Int /\ w \in Int /\ f \in Int /\ g \in Int
  BY Widths
<1>2. x \in Int /\ y \in Int
  <2>1. x \in 0 .. M /\ y \in 0 .. M
    BY EndAroundFacts
  <2> HIDE DEF x, y
  <2> QED
    BY <1>1, <2>1
<1>3. PICK c \in {0, 1} : x = v + f - c * M
  BY EndAroundFacts
<1>4. PICK e \in {0, 1} : y = w + g - e * M
  BY EndAroundFacts
<1> HIDE DEF x, y
<1> DEFINE p == q - c + e
<1>5. p \in Int /\ p * M = q * M - c * M + e * M
  BY <1>1
<1>6. q * M \in Int /\ c * M \in Int /\ e * M \in Int
  BY <1>1
<1> DEFINE pM == p * M
           qM == q * M
           cM == c * M
           eM == e * M
<1>7. pM = qM - cM + eM /\ qM \in Int /\ cM \in Int /\ eM \in Int
  BY <1>5, <1>6
<1>8. x = v + f - cM /\ y = w + g - eM /\ f = g + d + qM
  BY <1>3, <1>4
<1> HIDE DEF pM, qM, cM, eM, p
<1>9. x = y + (v - w + d) + pM
  BY <1>1, <1>2, <1>7, <1>8
<1> QED
  BY <1>5, <1>9 DEF x, y, pM

\* t is s but for its g-th word.
OnlyWord(s, t, g) ==
  /\ t \in Seq(Byte) /\ Len(t) = Len(s)
  /\ \A h \in Nat \ {0} : h # g /\ 2 * h - 1 <= Len(s) =>
       Word(t, 2 * h - 1) = Word(s, 2 * h - 1)

LEMMA DamageSum ==
  ASSUME NEW s \in Seq(Byte), NEW t, NEW g \in Nat \ {0}, 2 * g - 1 <= Len(s),
         OnlyWord(s, t, g)
  PROVE  \E q \in Int :
           From(t)[1] = From(s)[1] + (Word(t, 2 * g - 1) - Word(s, 2 * g - 1)) + q * M
<1> DEFINE L == Len(s)
           d == Word(t, 2 * g - 1) - Word(s, 2 * g - 1)
           D(h) == IF h <= g THEN d ELSE 0
           Good(h) == \E q \in Int : From(t)[2 * h - 1] = From(s)[2 * h - 1] + D(h) + q * M
           T == {n \in Nat : \E h \in Nat \ {0} : n = L + 3 - 2 * h /\ ~Good(h)}
<1>0. t \in Seq(Byte) /\ Len(t) = L
  BY DEF OnlyWord
<1>1. L \in Nat /\ M \in Nat
  BY Widths
<1>2. /\ \A i \in 1 .. L : From(s)[i] = EndAround(Word(s, i), From(s)[i + 2])
      /\ \A i \in {L + 1, L + 2} : From(s)[i] = 0
      /\ \A i \in 1 .. L + 2 : From(s)[i] \in 0 .. M
  BY FromFacts
<1>3. /\ \A i \in 1 .. L : From(t)[i] = EndAround(Word(t, i), From(t)[i + 2])
      /\ \A i \in {L + 1, L + 2} : From(t)[i] = 0
      /\ \A i \in 1 .. L + 2 : From(t)[i] \in 0 .. M
  BY <1>0, FromFacts
<1>4. \A i \in 1 .. L : Word(s, i) \in 0 .. M /\ Word(t, i) \in 0 .. M
  BY <1>0, WordType
<1>5. d \in Int
  <2>1. 2 * g - 1 \in 1 .. L
    BY <1>1
  <2> QED
    BY <1>1, <1>4, <2>1
<1>6. \A h \in Nat \ {0} : h # g /\ 2 * h - 1 <= L => Word(t, 2 * h - 1) = Word(s, 2 * h - 1)
  BY DEF OnlyWord
<1>7. 2 * g - 1 <= L
  OBVIOUS
<1> HIDE DEF L
<1>8. ASSUME NEW h \in Nat \ {0}, 2 * h - 1 \in {L + 1, L + 2}
      PROVE  Good(h)
  <2>1. From(t)[2 * h - 1] = 0 /\ From(s)[2 * h - 1] = 0
    BY <1>2, <1>3, <1>8
  <2>2. ~(h <= g)
    BY <1>1, <1>7, <1>8
  <2>3. 0 = 0 + 0 + 0 * M
    BY <1>1
  <2> HIDE DEF d
  <2> QED
    BY <2>1, <2>2, <2>3
<1>9. ASSUME NEW h \in Nat \ {0}, 2 * h - 1 <= L, Good(h + 1)
      PROVE  Good(h)
  <2> DEFINE i == 2 * h - 1
             v == Word(t, i)
             w == Word(s, i)
             f == From(t)[i + 2]
             k == From(s)[i + 2]
             e == D(h + 1)
  <2>1. i \in 1 .. L /\ i + 2 \in 1 .. L + 2 /\ 2 * (h + 1) - 1 = i + 2
    BY <1>1, <1>9
  <2>2. f \in 0 .. M /\ k \in 0 .. M /\ v \in 0 .. M /\ w \in 0 .. M
    BY <1>2, <1>3, <1>4, <2>1
  <2>3. e \in Int
    BY <1>5
  <2>4. PICK q \in Int : f = k + e + q * M
    BY <1>9, <2>1
  <2>5. \E p \in Int : EndAround(v, f) = EndAround(w, k) + (v - w + e) + p * M
    <3> HIDE DEF v, w, f, k, e
    <3>1. Shifted(f, k, v, w, e, q)
      BY <2>2, <2>3, <2>4 DEF Shifted
    <3> QED
      BY <3>1, DamageStep
  <2>6. From(t)[i] = EndAround(v, f) /\ From(s)[i] = EndAround(w, k)
    BY <1>2, <1>3, <2>1
  <2>7. v - w + e = D(h)
    <3>1. CASE h = g
      BY <2>2, <3>1
    <3>2. CASE h # g
      <4>1. v = w
        BY <1>6, <1>9, <3>2
      <4>2. h + 1 <= g <=> h <= g
        BY <3>2
      <4>3. e = D(h)
        BY <4>2
      <4> HIDE DEF v, w, e
      <4> QED
        BY <2>2, <2>3, <4>1, <4>3
    <3> QED
      BY <3>1, <3>2
  <2> HIDE DEF v, w, f, k, e, D
  <2> QED
    BY <2>5, <2>6, <2>7
<1>10. SUFFICES ASSUME ~Good(1) PROVE FALSE
  BY <1>10
<1>11. L + 1 \in T
  <2>1. L + 1 = L + 3 - 2 * 1 /\ 1 \in Nat \ {0} /\ L + 1 \in Nat
    BY <1>1
  <2> HIDE DEF Good
  <2> QED
    BY <1>10, <2>1
<1> HIDE DEF Good
<1>12. PICK n \in T : \A k \in T : n <= k
  <2>1. T \subseteq Nat
    OBVIOUS
  <2> HIDE DEF T
  <2> QED
    BY <1>11, <2>1, Least
<1>13. PICK h \in Nat \ {0} : n = L + 3 - 2 * h /\ ~Good(h)
  BY <1>12
<1>14. n \in Nat
  BY <1>12
<1>15. 2 * h - 1 <= L
  BY <1>1, <1>8, <1>13, <1>14
<1>16. n - 2 \notin T
  BY <1>12, <1>14
<1>17. Good(h + 1)
  <2>1. n - 2 = L + 3 - 2 * (h + 1) /\ h + 1 \in Nat \ {0} /\ n - 2 \in Nat
    BY <1>1, <1>13, <1>15
  <2> QED
    BY <1>16, <2>1
<1> QED
  BY <1>9, <1>13, <1>15, <1>17

\* Only the damaged word is another one.
LEMMA DamagedFacts ==
  ASSUME NEW s \in Seq(Byte), NEW g \in Nat \ {0}, 2 * g - 1 <= Len(s),
         NEW b \in Byte, NEW c \in Byte
  PROVE  OnlyWord(s, Damaged(s, 2 * g - 1, b, c), g)
<1> DEFINE L == Len(s)
           i == 2 * g - 1
           t == Damaged(s, i, b, c)
<1>1. L \in Nat /\ i \in 1 .. L /\ \A j \in 1 .. L : s[j] \in Byte
  OBVIOUS
<1>2. t = [j \in 1 .. L |-> IF j = i THEN b ELSE IF j = i + 1 THEN c ELSE s[j]]
  BY DEF Damaged
<1>3. t \in [1 .. L -> Byte]
  BY <1>1, <1>2
<1>4. t \in Seq(Byte) /\ Len(t) = L
  <2> HIDE DEF t, L
  <2> QED
    BY <1>1, <1>3
<1>5. ASSUME NEW h \in Nat \ {0}, h # g, 2 * h - 1 <= L
      PROVE  Word(t, 2 * h - 1) = Word(s, 2 * h - 1)
  <2> DEFINE j == 2 * h - 1
  <2>1. j \in 1 .. L /\ j # i /\ j # i + 1
    BY <1>1, <1>5
  <2>2. j < L => j + 1 \in 1 .. L /\ j + 1 # i /\ j + 1 # i + 1
    BY <1>1, <1>5
  <2>3. t[j] = s[j] /\ (j < L => t[j + 1] = s[j + 1])
    <3> HIDE DEF j, i, t
    <3> QED
      BY <1>2, <2>1, <2>2
  <2> HIDE DEF j, t
  <2>4. Word(t, j) = Word(s, j)
    BY <1>4, <2>3 DEF Word
  <2> QED
    BY <2>4 DEF j
<1> HIDE DEF L, t
<1>6. OnlyWord(s, t, g)
  BY <1>4, <1>5 DEF OnlyWord, L
<1> QED
  BY <1>6 DEF t

LEMMA Caught == IInv /\ PeerAccepts => DamageCaught
<1> SUFFICES ASSUME IInv, PeerAccepts, pc = "done",
                    NEW i \in 1 .. Len(addr), NEW b \in Byte, NEW c \in Byte, i % 2 = 1,
                    ~SameSum(Word(Damaged(Sent, i, b, c), i), Word(Sent, i)),
                    PeerSum(Damaged(Sent, i, b, c)) = M
             PROVE  FALSE
  BY DEF DamageCaught, M
<1> DEFINE t == Damaged(Sent, i, b, c)
           v == Word(t, i)
           w == Word(Sent, i)
<1>1. Sent \in Seq(Byte) /\ Len(Sent) = Len(addr) /\ Len(addr) \in Nat
  <2>1. addr \in Seq(Byte)
    BY ChecksumAssumption DEF IInv, TypeOK
  <2> QED
    BY <2>1, SentFacts
<1>2. PICK g \in Nat \ {0} : i = 2 * g - 1
  <2>1. i \in Nat /\ i = 2 * (i \div 2) + 1 /\ i \div 2 \in Nat
    BY <1>1
  <2>2. i = 2 * (i \div 2 + 1) - 1 /\ i \div 2 + 1 \in Nat \ {0}
    BY <2>1
  <2> QED
    BY <2>2
<1>3. 2 * g - 1 <= Len(Sent)
  BY <1>1, <1>2
<1>4. OnlyWord(Sent, t, g)
  <2>1. OnlyWord(Sent, Damaged(Sent, 2 * g - 1, b, c), g)
    BY <1>1, <1>3, DamagedFacts
  <2> QED
    BY <1>2, <2>1
<1>5. v \in 0 .. M /\ w \in 0 .. M
  <2> HIDE DEF t
  <2>1. t \in Seq(Byte) /\ i \in 1 .. Len(t) /\ i \in 1 .. Len(Sent)
    BY <1>1, <1>4 DEF OnlyWord
  <2> QED
    BY <1>1, <2>1, WordType
<1>6. PICK q \in Int : From(t)[1] = From(Sent)[1] + (v - w) + q * M
  <2> HIDE DEF t
  <2>1. \E q \in Int :
          From(t)[1] = From(Sent)[1] + (Word(t, 2 * g - 1) - Word(Sent, 2 * g - 1)) + q * M
    BY <1>1, <1>3, <1>4, DamageSum
  <2> QED
    BY <1>2, <2>1
<1>7. From(t)[1] = M /\ From(Sent)[1] = M
  <2>1. PeerSum(Sent) = M
    BY DEF PeerAccepts, M
  <2> QED
    BY <2>1 DEF PeerSum, From
<1>8. v # w /\ {v, w} # {0, M}
  BY DEF SameSum, M
<1> HIDE DEF t, v, w
<1>9. M \in Nat /\ q * M \in Int
  BY Widths
<1>10. v + q * M = w + 0 * M
  BY <1>5, <1>6, <1>7, <1>9
<1>11. ~(v = 0 <=> w = 0)
  BY <1>5, <1>8, <1>10, Unique
<1>12. CASE v = 0
  <2>1. M + 0 * M = w + (0 - q + 1) * M
    BY <1>5, <1>9, <1>10, <1>12
  <2>2. M \in 0 .. M /\ M # 0 /\ w # 0 /\ 0 - q + 1 \in Int
    BY <1>11, <1>12, Widths
  <2>3. M = w
    BY <1>5, <2>1, <2>2, Unique
  <2> QED
    BY <1>8, <1>12, <2>3
<1>13. CASE w = 0
  <2>1. v + 0 * M = M + (0 - q - 1) * M
    BY <1>5, <1>9, <1>10, <1>13
  <2>2. M \in 0 .. M /\ M # 0 /\ v # 0 /\ 0 - q - 1 \in Int
    BY <1>11, <1>13, Widths
  <2>3. M = v
    BY <1>5, <2>1, <2>2, Unique
  <2> QED
    BY <1>8, <1>13, <2>3
<1> QED
  BY <1>11, <1>12, <1>13

-----------------------------------------------------------------------------
\* All variables keep their types, and wp stays within the message.
THEOREM ChecksumTypeCorrect == Spec => []TypeOK
<1>1. IInv => TypeOK
  BY DEF IInv
<1> QED
  BY <1>1, Invariance, PTL

\* No message of an IP packet makes the sum overflow its int.
THEOREM SumFitsCorrect == Spec => []SumFits
<1>1. IInv => SumFits
  <2> SUFFICES ASSUME IInv PROVE sum <= IntMax
    BY DEF SumFits
  <2>1. W \in Nat /\ W >= 4 /\ M \in Nat /\ W = M + 1 /\ sum \in Nat
    BY Widths DEF IInv, TypeOK
  <2>2. 2 * sum <= W * M
    <3>1. CASE pc = "words"
      <4>1. wp - 1 \in Nat /\ wp - 1 <= W
        BY <2>1, MessageLength DEF IInv
      <4>2. (wp - 1) * M <= W * M /\ (wp - 1) * M \in Int /\ W * M \in Int
        BY <2>1, <4>1, LengthBound
      <4> QED
        BY <2>1, <3>1, <4>2 DEF IInv, Bounded
    <3> QED
      BY <3>1 DEF IInv, Bounded
  <2>3. W * W = W * M + W /\ W * M \in Int
    BY <2>1
  <2> DEFINE ww == W * W
  <2>4. ww \in Int /\ 2 * sum + 4 <= ww
    BY <2>1, <2>2, <2>3
  <2> HIDE DEF ww
  <2>5. sum <= ww \div 2 - 1
    BY <2>1, <2>4
  <2> QED
    BY <2>5 DEF IntMax, ww
<1> QED
  BY <1>1, Invariance, PTL

\* Folding twice is enough for every message.
THEOREM OnesComplementCorrect == Spec => []OnesComplement
<1>1. IInv => OnesComplement
  BY DEF IInv, Answered, OnesComplement, M
<1> QED
  BY <1>1, Invariance, PTL

\* The sum that the peer computes over the message with its checksum has all
\* bits set, whatever the byte order of the machine and the length.
THEOREM PeerAcceptsCorrect == Spec => []PeerAccepts
<1>1. Init => IInv /\ Peer
  BY InitIInv, PeerInit
<1>2. IInv /\ Peer /\ [Next]_vars => IInv' /\ Peer'
  BY NextIInv, PeerStep DEF IInv
<1>3. IInv /\ Peer => PeerAccepts
  BY Accepted
<1> QED
  BY <1>1, <1>2, <1>3, PTL DEF Spec
\* No message with one damaged word is taken for the one that was sent, but for
\* an exchange of the two zeros, for every length, word and byte order.
THEOREM DamageCaughtHolds == Spec => []DamageCaught
<1>1. IInv /\ PeerAccepts => DamageCaught
  BY Caught
<1> QED
  BY <1>1, Invariance, PeerAcceptsCorrect, PTL
=============================================================================
