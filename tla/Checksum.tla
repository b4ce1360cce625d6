------------------------------ MODULE Checksum ------------------------------
(***************************************************************************)
(* icmp_cksum (ft_ping_run_loop.c): the checksum of a message, computed    *)
(* with 16-bit words in the byte order of the machine, summed up in an int *)
(* and folded, against the one's complement sum that the peer computes     *)
(* with the words of the network.                                          *)
(***************************************************************************)
EXTENDS Integers, Sequences

CONSTANTS
  Base,     \* values of an unsigned char: 256
  MaxLen,   \* bound: bytes of a message; an IP packet has at most Base^2 - 1
  Messages  \* the messages, with a checksum of 0

\* Values of an unsigned short, and the largest int, which has twice its bits.
W == Base * Base
IntMax == (W * W) \div 2 - 1

Byte == 0 .. Base - 1

\* icmp_generic_encode and ping_recv, the callers, pass at least an ICMP header
\* whose checksum they have set to 0.
ASSUME ChecksumAssumption ==
  /\ Base \in Nat \ {0, 1}
  /\ MaxLen \in Nat /\ MaxLen < W
  /\ Messages \subseteq Seq(Byte)
  /\ \A m \in Messages : Len(m) \in 4 .. MaxLen /\ m[3] = 0 /\ m[4] = 0

VARIABLES
  pc,      \* "words", "fold" or "done"
  little,  \* whether the machine is little-endian
  addr,    \* the message
  wp,      \* the index of the byte that wp points to
  len,
  sum,
  answer,
  ones,    \* history: the sum with the carry taken in at each addition
  carries  \* history: how many carries that were

vars == <<pc, little, addr, wp, len, sum, answer, ones, carries>>

Init ==
  /\ pc = "words"
  /\ little \in BOOLEAN
  /\ addr \in Messages
  /\ wp = 1
  /\ len = Len(addr)
  /\ sum = 0
  /\ answer = 0
  /\ ones = 0
  /\ carries = 0

-----------------------------------------------------------------------------
\* The unsigned short whose bytes in memory are b and c.
Short(b, c) == IF little THEN b + Base * c ELSE Base * b + c

\* The odd byte at the end is stored in the first byte of an answer of 0.
OddMutant(b) == b
Odd(b) == Short(b, 0)

\* The addition of RFC 1071.
EndAround(a, b) == IF a + b >= W THEN a + b - (W - 1) ELSE a + b

Take(word) ==
  /\ sum' = sum + word
  /\ ones' = EndAround(ones, word)
  /\ carries' = IF ones + word >= W THEN carries + 1 ELSE carries

\* One turn of the loop.  Mutant: wp is advanced by a byte.
AddWordMutant ==
  /\ pc = "words"
  /\ len > 1
  /\ Take(Short(addr[wp], addr[wp + 1]))
  /\ wp' = wp + 1
  /\ len' = len - 1
  /\ UNCHANGED <<pc, little, addr, answer>>

AddWord ==
  /\ pc = "words"
  /\ len > 1
  /\ Take(Short(addr[wp], addr[wp + 1]))
  /\ wp' = wp + 2
  /\ len' = len - 2
  /\ UNCHANGED <<pc, little, addr, answer>>

\* The loop has ended: an odd byte is left, or none.
OddByte ==
  /\ pc = "words"
  /\ len = 1
  /\ Take(Odd(addr[wp]))
  /\ pc' = "fold"
  /\ UNCHANGED <<little, addr, wp, len, answer>>

NoOddByte ==
  /\ pc = "words"
  /\ len = 0
  /\ pc' = "fold"
  /\ UNCHANGED <<little, addr, wp, len, sum, answer, ones, carries>>

\* The high word is added to the low one, and the carry of that.
AddHigh(s) == (s \div W) + (s % W)
FoldMutant(s) == AddHigh(s)
Fold(s) == AddHigh(s) + (AddHigh(s) \div W)

\* ~sum, cut to an unsigned short.
ComplementMutant(s) == W - 1 - s
Complement(s) == W - 1 - (s % W)

Answer ==
  /\ pc = "fold"
  /\ answer' = Complement(Fold(sum))
  /\ pc' = "done"
  /\ UNCHANGED <<little, addr, wp, len, sum, ones, carries>>

Next == AddWord \/ OddByte \/ NoOddByte \/ Answer

Spec == Init /\ [][Next]_vars

-----------------------------------------------------------------------------
(* Properties.                                                             *)

\* Every variable has its type; wp stays within the message and len with it.
TypeOK ==
  /\ pc \in {"words", "fold", "done"}
  /\ little \in BOOLEAN
  /\ addr \in Messages
  /\ wp \in Nat \ {0} /\ len \in Nat /\ wp + len = Len(addr) + 1
  /\ sum \in Nat /\ answer \in 0 .. W - 1
  /\ ones \in 0 .. W - 1 /\ carries \in Nat

\* The sum of the longest IP packet still fits an int: no signed overflow.
SumFits == sum <= IntMax

\* Folding twice takes in every carry: the answer is the complement of the
\* one's complement sum, however many carries there were.
OnesComplement == pc = "done" => answer = W - 1 - ones

\* The bytes of an unsigned short in memory.
StoredAt(x, i) == IF little = (i = 1) THEN x % Base ELSE x \div Base

\* The message as it is sent: the checksum is its second word.
Sent == [i \in 1 .. Len(addr) |-> IF i \in {3, 4} THEN StoredAt(answer, i - 2) ELSE addr[i]]

\* The word of the network that begins at the i-th byte of s; an odd byte is
\* the first of its word.
Word(s, i) == Base * s[i] + (IF i < Len(s) THEN s[i + 1] ELSE 0)

\* The one's complement sum of the words of s.
PeerSum(s) ==
  LET from[i \in 1 .. Len(s) + 2] ==
        IF i > Len(s) THEN 0 ELSE EndAround(Word(s, i), from[i + 2])
  IN  from[1]

\* Whatever the byte order of both machines and the length of the message, the
\* peer finds the checksum right: all bits of its sum are set.
PeerAccepts == pc = "done" => PeerSum(Sent) = W - 1

\* s with other bytes in the word that begins at its i-th byte.
Damaged(s, i, b, c) ==
  [j \in 1 .. Len(s) |-> IF j = i THEN b ELSE IF j = i + 1 THEN c ELSE s[j]]

\* The two zeros of the one's complement are one to every checksum.
SameSum(v, w) == v = w \/ {v, w} = {0, W - 1}

\* A message that is damaged in one word, the checksum or another, is not
\* accepted, unless the damage exchanges the two zeros.
DamageCaught ==
  pc = "done" =>
    \A i \in 1 .. Len(addr), b, c \in Byte :
      LET t == Damaged(Sent, i, b, c)
      IN  i % 2 = 1 /\ ~SameSum(Word(t, i), Word(Sent, i)) => PeerSum(t) # W - 1
=============================================================================
