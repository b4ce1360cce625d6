--------------------------- MODULE TimespecProofs ---------------------------
(***************************************************************************)
(* Proofs about Timespec, for every width of time_t and every HZ.          *)
(***************************************************************************)
EXTENDS Timespec, TLAPS

\* Values between both extremes of time_t: what timespec_add and timespec_sub
\* return is always one of them, normalised.
LEMMA SaturateType ==
  ASSUME NEW first \in 2 * MinTime .. 2 * MaxTime + 1, NEW second \in {-1, 0, 1}, NEW ns \in Int,
         ns - HZ * second \in 0 .. HZ - 1
  PROVE  Saturate(first, second, ns) \in Timespecs
<1>1. MaxTime \in Nat /\ MaxTime > 0 /\ HZ \in Nat /\ HZ > 1
  BY TimespecAssumption
<1>2. Wrapped(first) \in Times
  BY <1>1 DEF Wrapped, Times, MinTime
<1>3. Wrapped(Wrapped(first) + second) \in Times
  BY <1>1, <1>2 DEF Wrapped, Times, MinTime
<1>4. MinTimespec \in Timespecs /\ MaxTimespec \in Timespecs
  BY <1>1 DEF MinTimespec, MaxTimespec, Timespecs, Times, MinTime
<1> QED
  BY <1>3, <1>4 DEF Saturate, Timespecs

\* Two overflows cancel: if the result is representable, it is exact.
LEMMA SaturateExact ==
  ASSUME NEW first \in 2 * MinTime .. 2 * MaxTime + 1, NEW second \in {-1, 0, 1}, NEW ns \in Int,
         first + second \in Times
  PROVE  Saturate(first, second, ns) = [sec |-> first + second, nsec |-> ns - HZ * second]
<1>1. MaxTime \in Nat /\ MaxTime > 0
  BY TimespecAssumption
<1>2. Wrapped(Wrapped(first) + second) = first + second
  BY <1>1 DEF Wrapped, Times, MinTime
<1>3. Overflows(first) <=> Overflows(Wrapped(first) + second)
  BY <1>1 DEF Overflows, Wrapped, Times, MinTime
<1> QED
  BY <1>2, <1>3 DEF Saturate

\* Above the range, the result is the largest value.
LEMMA SaturateHigh ==
  ASSUME NEW first \in 2 * MinTime .. 2 * MaxTime + 1, NEW second \in {-1, 0, 1}, NEW ns \in Int,
         first + second > MaxTime
  PROVE  Saturate(first, second, ns) = MaxTimespec
<1>1. MaxTime \in Nat /\ MaxTime > 0
  BY TimespecAssumption
<1>2. Wrapped(Wrapped(first) + second) <= 0
  BY <1>1 DEF Wrapped, Times, MinTime
<1>3. ~(Overflows(first) <=> Overflows(Wrapped(first) + second))
  BY <1>1 DEF Overflows, Wrapped, Times, MinTime
<1> QED
  BY <1>2, <1>3, <1>1 DEF Saturate, Middle, Wrapped, MinTime

\* Below the range, the result is the smallest value, unless the wrapped
\* result is the middle.
LEMMA SaturateLow ==
  ASSUME NEW first \in 2 * MinTime .. 2 * MaxTime + 1, NEW second \in {-1, 0, 1}, NEW ns \in Int,
         first + second < MinTime, first + second >= 2 * MinTime
  PROVE  Saturate(first, second, ns) =
           IF first + second = 2 * MinTime THEN MaxTimespec ELSE MinTimespec
<1>1. MaxTime \in Nat /\ MaxTime > 0
  BY TimespecAssumption
<1>2. ~(Overflows(first) <=> Overflows(Wrapped(first) + second))
  BY <1>1 DEF Overflows, Wrapped, Times, MinTime
<1>3. Wrapped(Wrapped(first) + second) = first + second + 2 * (MaxTime + 1)
  BY <1>1 DEF Wrapped, Times, MinTime
<1>4. first + second = 2 * MinTime <=> ~(Middle < first + second + 2 * (MaxTime + 1))
  BY <1>1 DEF Middle, MinTime
<1> QED
  BY <1>2, <1>3, <1>4 DEF Saturate

-----------------------------------------------------------------------------
(* Seconds and nanoseconds against nanoseconds alone.                      *)

\* A greater number of seconds outweighs all nanoseconds.
LEMMA NanosLess ==
  ASSUME NEW s \in Int, NEW t \in Int, s < t, NEW m \in 0 .. HZ - 1, NEW n \in 0 .. HZ - 1
  PROVE  s * HZ + m < t * HZ + n
<1>1. HZ \in Nat /\ HZ > 1
  BY TimespecAssumption
<1>2. (t - s - 1) * HZ >= 0
  BY <1>1
<1>3. t * HZ >= s * HZ + HZ
  BY <1>1, <1>2
<1> QED
  BY <1>1, <1>3

\* Normalised values are determined by their nanoseconds.
LEMMA NanosUnique ==
  ASSUME NEW s \in Int, NEW t \in Int, NEW m \in 0 .. HZ - 1, NEW n \in 0 .. HZ - 1,
         s * HZ + m = t * HZ + n
  PROVE  s = t /\ m = n
<1>1. HZ \in Nat /\ HZ > 1
  BY TimespecAssumption
<1>2. s * HZ \in Int /\ t * HZ \in Int
  BY <1>1
<1>3. ~(s < t)
  BY <1>1, <1>2, NanosLess
<1>4. ~(t < s)
  BY <1>1, <1>2, NanosLess
<1> QED
  BY <1>1, <1>3, <1>4

\* What division by HZ makes of them.
LEMMA NanosDivide ==
  ASSUME NEW s \in Int, NEW n \in 0 .. HZ - 1
  PROVE  (s * HZ + n) \div HZ = s /\ (s * HZ + n) % HZ = n
<1>1. HZ \in Nat /\ HZ > 1
  BY TimespecAssumption
<1> DEFINE x == s * HZ + n
<1>2. x \in Int
  BY <1>1
<1> HIDE DEF x
<1>3. x = HZ * (x \div HZ) + (x % HZ) /\ x \div HZ \in Int /\ x % HZ \in 0 .. HZ - 1
  BY <1>1, <1>2
<1>4. x = (x \div HZ) * HZ + (x % HZ)
  BY <1>1, <1>3
<1>5. x = s * HZ + n
  BY DEF x
<1>6. x \div HZ = s /\ x % HZ = n
  BY <1>3, <1>4, <1>5, NanosUnique
<1> QED
  BY <1>6 DEF x

-----------------------------------------------------------------------------
(* The functions against the exact results.                                *)

\* Saturate, on arguments that stand for x nanoseconds, yields the value
\* nearest to x, except in the middle.
LEMMA SaturateNearest ==
  ASSUME NEW first \in 2 * MinTime .. 2 * MaxTime + 1, NEW second \in {-1, 0, 1}, NEW ns \in Int,
         ns - HZ * second \in 0 .. HZ - 1,
         first + second >= 2 * MinTime,
         NEW x \in Int, x = (first + second) * HZ + (ns - HZ * second)
  PROVE  Saturate(first, second, ns) =
           IF first + second = 2 * MinTime THEN MaxTimespec ELSE Nearest(x)
<1> DEFINE s == first + second
<1> DEFINE n == ns - HZ * second
<1>1. MaxTime \in Nat /\ MaxTime > 0 /\ HZ \in Nat /\ HZ > 1
  BY TimespecAssumption
<1>2. s \in Int /\ n \in 0 .. HZ - 1 /\ x = s * HZ + n
  BY <1>1 DEF MinTime
<1>3. Nanos(MinTimespec) = MinTime * HZ + 0 /\ Nanos(MaxTimespec) = MaxTime * HZ + (HZ - 1)
  BY DEF Nanos, MinTimespec, MaxTimespec
<1>4. MinTime \in Int /\ MinTime < MaxTime /\ 0 \in 0 .. HZ - 1 /\ HZ - 1 \in 0 .. HZ - 1
  BY <1>1 DEF MinTime
<1>5. Nanos(MinTimespec) \in Int /\ Nanos(MaxTimespec) \in Int
  BY <1>1, <1>3, <1>4
<1>6. CASE s \in Times
  <2>1. Saturate(first, second, ns) = [sec |-> s, nsec |-> n]
    BY <1>6, SaturateExact
  <2>2. x \div HZ = s /\ x % HZ = n
    BY <1>2, NanosDivide
  <2> HIDE DEF s, n
  <2>3. ~(x < Nanos(MinTimespec))
    <3>1. CASE s = MinTime
      BY <1>1, <1>2, <1>3, <1>4, <3>1
    <3>2. CASE s > MinTime
      BY <1>2, <1>3, <1>4, <1>5, <3>2, NanosLess
    <3> QED
      BY <1>1, <1>2, <1>4, <1>6, <3>1, <3>2 DEF Times
  <2>4. ~(x > Nanos(MaxTimespec))
    <3>1. CASE s = MaxTime
      BY <1>1, <1>2, <1>3, <3>1
    <3>2. CASE s < MaxTime
      BY <1>1, <1>2, <1>3, <1>4, <1>5, <3>2, NanosLess
    <3> QED
      BY <1>1, <1>2, <1>6, <3>1, <3>2 DEF Times
  <2>5. s # 2 * MinTime
    BY <1>1, <1>6 DEF Times, MinTime
  <2> QED
    BY <2>1, <2>2, <2>3, <2>4, <2>5 DEF Nearest, s
<1>7. CASE s > MaxTime
  <2>1. Saturate(first, second, ns) = MaxTimespec
    BY <1>7, SaturateHigh
  <2> HIDE DEF s, n
  <2>2. Nanos(MaxTimespec) < x
    BY <1>1, <1>2, <1>3, <1>4, <1>7, NanosLess
  <2>3. Nanos(MinTimespec) < x
    BY <1>1, <1>2, <1>3, <1>4, <1>7, NanosLess
  <2>4. s # 2 * MinTime
    BY <1>1, <1>7 DEF MinTime
  <2> QED
    BY <1>5, <2>1, <2>2, <2>3, <2>4 DEF Nearest, s
<1>8. CASE s < MinTime
  <2>1. Saturate(first, second, ns) = IF s = 2 * MinTime THEN MaxTimespec ELSE MinTimespec
    BY <1>8, SaturateLow
  <2> HIDE DEF s, n
  <2>2. x < Nanos(MinTimespec)
    BY <1>1, <1>2, <1>3, <1>4, <1>8, NanosLess
  <2>3. Nanos(MinTimespec) < Nanos(MaxTimespec)
    BY <1>1, <1>3, <1>4, NanosLess
  <2>4. Nearest(x) = MinTimespec
    BY <1>2, <1>5, <2>2, <2>3 DEF Nearest
  <2> QED
    BY <2>1, <2>4 DEF s
<1> QED
  BY <1>1, <1>2, <1>4, <1>6, <1>7, <1>8 DEF Times

\* A carry moved from the nanoseconds to the seconds changes nothing.
LEMMA CarryMoved ==
  ASSUME NEW p \in Int, NEW q \in Int, NEW m \in Int, NEW n \in Int, NEW k \in Int, NEW h \in Int
  PROVE  /\ (p * h + m) + (q * h + n) = ((p + q) + k) * h + ((m + n) - h * k)
         /\ (p * h + m) - (q * h + n) = ((p - q) + k) * h + ((m - n) - h * k)
<1>1. ((p + q) + k) * h = (p * h + q * h) + k * h
  BY SMT
<1>2. ((p - q) + k) * h = (p * h - q * h) + k * h
  BY SMT
<1>3. p * h \in Int /\ q * h \in Int /\ k * h \in Int /\ h * k = k * h
  BY SMT
<1> QED
  BY <1>1, <1>2, <1>3

LEMMA AddNearest ==
  ASSUME NEW t \in Timespecs, NEW u \in Timespecs
  PROVE  Add(t, u) = IF AddMiddle(t, u) THEN MaxTimespec ELSE Nearest(Nanos(t) + Nanos(u))
<1> DEFINE first == t.sec + u.sec
<1> DEFINE ns == t.nsec + u.nsec
<1> DEFINE carry == Carry(t, u)
<1>1. MaxTime \in Nat /\ MaxTime > 0 /\ HZ \in Nat /\ HZ > 1
  BY TimespecAssumption
<1>2. t.sec \in MinTime .. MaxTime /\ u.sec \in MinTime .. MaxTime
      /\ t.nsec \in 0 .. HZ - 1 /\ u.nsec \in 0 .. HZ - 1
  BY DEF Timespecs, Times
<1>3. carry \in {0, 1} /\ ns \in Int /\ ns - HZ * carry \in 0 .. HZ - 1
  BY <1>1, <1>2 DEF Carry
<1>4. first \in 2 * MinTime .. 2 * MaxTime + 1
  BY <1>1, <1>2 DEF MinTime
<1>5. Nanos(t) + Nanos(u) \in Int
  BY <1>1, <1>2 DEF Nanos, MinTime
<1>6. Nanos(t) + Nanos(u) = (first + carry) * HZ + (ns - HZ * carry)
  <2>1. carry \in Int
    BY <1>3
  <2>2. t.sec \in Int /\ u.sec \in Int /\ t.nsec \in Int /\ u.nsec \in Int /\ HZ \in Int
    BY <1>1, <1>2 DEF MinTime
  <2> HIDE DEF carry
  <2> QED
    BY <2>1, <2>2, CarryMoved DEF Nanos
<1>7. AddMiddle(t, u) <=> first + carry = 2 * MinTime
  BY <1>1, <1>2, <1>3 DEF AddMiddle, MinTime
<1>8. first + carry >= 2 * MinTime
  BY <1>1, <1>3, <1>4 DEF MinTime
<1>9. Add(t, u) = Saturate(first, carry, ns)
  BY DEF Add
<1> HIDE DEF first, ns, carry
<1> QED
  BY <1>3, <1>4, <1>5, <1>6, <1>7, <1>8, <1>9, SaturateNearest

LEMMA SubNearest ==
  ASSUME NEW t \in Timespecs, NEW u \in Timespecs
  PROVE  Sub(t, u) = IF SubMiddle(t, u) THEN MaxTimespec ELSE Nearest(Nanos(t) - Nanos(u))
<1> DEFINE first == t.sec - u.sec
<1> DEFINE ns == t.nsec - u.nsec
<1> DEFINE less == Borrow(t, u)
<1>1. MaxTime \in Nat /\ MaxTime > 0 /\ HZ \in Nat /\ HZ > 1
  BY TimespecAssumption
<1>2. t.sec \in MinTime .. MaxTime /\ u.sec \in MinTime .. MaxTime
      /\ t.nsec \in 0 .. HZ - 1 /\ u.nsec \in 0 .. HZ - 1
  BY DEF Timespecs, Times
<1>3. less \in {-1, 0} /\ ns \in Int /\ ns - HZ * less \in 0 .. HZ - 1
  BY <1>1, <1>2 DEF Borrow
<1>4. first \in 2 * MinTime .. 2 * MaxTime + 1 /\ first > 2 * MinTime
  BY <1>1, <1>2 DEF MinTime
<1>5. Nanos(t) - Nanos(u) \in Int
  BY <1>1, <1>2 DEF Nanos, MinTime
<1>6. Nanos(t) - Nanos(u) = (first + less) * HZ + (ns - HZ * less)
  <2>1. less \in Int
    BY <1>3
  <2>2. t.sec \in Int /\ u.sec \in Int /\ t.nsec \in Int /\ u.nsec \in Int /\ HZ \in Int
    BY <1>1, <1>2 DEF MinTime
  <2> HIDE DEF less
  <2> QED
    BY <2>1, <2>2, CarryMoved DEF Nanos
<1>7. SubMiddle(t, u) <=> first + less = 2 * MinTime
  BY <1>1, <1>2, <1>3 DEF SubMiddle, MinTime, Borrow
<1>8. first + less >= 2 * MinTime
  BY <1>1, <1>3, <1>4 DEF MinTime
<1>9. Sub(t, u) = Saturate(first, less, ns)
  BY DEF Sub
<1> HIDE DEF first, ns, less
<1> QED
  BY <1>3, <1>4, <1>5, <1>6, <1>7, <1>8, <1>9, SaturateNearest

-----------------------------------------------------------------------------
(* The instants of the program.                                            *)

\* The order of timespecs is that of their nanoseconds.
LEMMA LeqNanos ==
  ASSUME NEW t \in Timespecs, NEW u \in Timespecs
  PROVE  Leq(t, u) <=> Nanos(t) <= Nanos(u)
<1>1. MaxTime \in Nat /\ HZ \in Nat /\ HZ > 1
  BY TimespecAssumption
<1>2. t.sec \in Int /\ u.sec \in Int /\ t.nsec \in 0 .. HZ - 1 /\ u.nsec \in 0 .. HZ - 1
  BY <1>1 DEF Timespecs, Times, MinTime
<1>3. t.sec * HZ \in Int /\ u.sec * HZ \in Int
  BY <1>1, <1>2
<1>4. CASE t.sec < u.sec
  <2>1. Nanos(t) < Nanos(u)
    BY <1>2, <1>4, NanosLess DEF Nanos
  <2> QED
    BY <1>1, <1>2, <1>3, <1>4, <2>1 DEF Leq, Nanos
<1>5. CASE t.sec = u.sec
  BY <1>1, <1>2, <1>3, <1>5 DEF Leq, Nanos
<1>6. CASE t.sec > u.sec
  <2>1. Nanos(u) < Nanos(t)
    BY <1>2, <1>6, NanosLess DEF Nanos
  <2> QED
    BY <1>1, <1>2, <1>3, <1>6, <2>1 DEF Leq, Nanos
<1> QED
  BY <1>2, <1>4, <1>5, <1>6

\* The next instant to send at is computed exactly.
LEMMA AddClock ==
  ASSUME NEW t \in Clock, NEW u \in Clock
  PROVE  /\ Add(t, u) \in Timespecs
         /\ Add(t, u).sec >= 0
         /\ Nanos(Add(t, u)) = Nanos(t) + Nanos(u)
<1>1. MaxTime \in Nat /\ MaxTime > 0 /\ HZ \in Nat /\ HZ > 1
  BY TimespecAssumption
<1>2. MaxTime = 2 * (MaxTime \div 2) + 1 /\ MaxTime \div 2 \in Nat
  BY <1>1, TimespecAssumption
<1>3. /\ t.sec \in 0 .. MaxTime \div 2 /\ u.sec \in 0 .. MaxTime \div 2
      /\ t.nsec \in 0 .. HZ - 1 /\ u.nsec \in 0 .. HZ - 1
  BY <1>1, <1>2 DEF Clock, Timespecs, Times, MinTime
<1> DEFINE first == t.sec + u.sec
<1> DEFINE ns == t.nsec + u.nsec
<1> DEFINE carry == Carry(t, u)
<1>4. carry \in {0, 1} /\ ns \in Int /\ ns - HZ * carry \in 0 .. HZ - 1
  BY <1>1, <1>3 DEF Carry
<1>5. first \in 2 * MinTime .. 2 * MaxTime + 1 /\ first + carry \in Times /\ first + carry >= 0
  BY <1>1, <1>2, <1>3, <1>4 DEF MinTime, Times
<1>6. Add(t, u) = [sec |-> first + carry, nsec |-> ns - HZ * carry]
  BY <1>4, <1>5, SaturateExact DEF Add
<1>7. (first + carry) * HZ + (ns - HZ * carry) = Nanos(t) + Nanos(u)
  <2>1. t.sec \in Int /\ u.sec \in Int /\ t.nsec \in Int /\ u.nsec \in Int /\ HZ \in Int
    BY <1>1, <1>2, <1>3
  <2>2. carry \in Int
    BY <1>4
  <2> HIDE DEF carry
  <2> QED
    BY <2>1, <2>2, CarryMoved DEF Nanos
<1> HIDE DEF first, ns, carry
<1> QED
  BY <1>4, <1>5, <1>6, <1>7 DEF Timespecs, Nanos

\* So are the wait and the time elapsed.
LEMMA SubClock ==
  ASSUME NEW t \in Timespecs, t.sec >= 0, NEW u \in Clock
  PROVE  /\ Sub(t, u) \in Timespecs
         /\ Nanos(Sub(t, u)) = Nanos(t) - Nanos(u)
<1>1. MaxTime \in Nat /\ MaxTime > 0 /\ HZ \in Nat /\ HZ > 1
  BY TimespecAssumption
<1>2. MaxTime = 2 * (MaxTime \div 2) + 1 /\ MaxTime \div 2 \in Nat
  BY <1>1, TimespecAssumption
<1>3. /\ t.sec \in 0 .. MaxTime /\ u.sec \in 0 .. MaxTime \div 2
      /\ t.nsec \in 0 .. HZ - 1 /\ u.nsec \in 0 .. HZ - 1
  BY <1>1, <1>2 DEF Clock, Timespecs, Times, MinTime
<1> DEFINE first == t.sec - u.sec
<1> DEFINE ns == t.nsec - u.nsec
<1> DEFINE less == Borrow(t, u)
<1>4. less \in {-1, 0} /\ ns \in Int /\ ns - HZ * less \in 0 .. HZ - 1
  BY <1>1, <1>3 DEF Borrow
<1>5. first \in 2 * MinTime .. 2 * MaxTime + 1 /\ first + less \in Times
  BY <1>1, <1>2, <1>3, <1>4 DEF MinTime, Times
<1>6. Sub(t, u) = [sec |-> first + less, nsec |-> ns - HZ * less]
  BY <1>4, <1>5, SaturateExact DEF Sub
<1>7. (first + less) * HZ + (ns - HZ * less) = Nanos(t) - Nanos(u)
  <2>1. t.sec \in Int /\ u.sec \in Int /\ t.nsec \in Int /\ u.nsec \in Int /\ HZ \in Int
    BY <1>1, <1>2, <1>3
  <2>2. less \in Int
    BY <1>4
  <2> HIDE DEF less
  <2> QED
    BY <2>1, <2>2, CarryMoved DEF Nanos
<1> HIDE DEF first, ns, less
<1> QED
  BY <1>4, <1>5, <1>6, <1>7 DEF Timespecs, Nanos

\* timespec_sign is the sign of the seconds of a negative value.
LEMMA SignNegative ==
  ASSUME NEW t \in Timespecs
  PROVE  /\ Sign(t) \in {-1, 0, 1}
         /\ Sign(t) = -1 <=> Nanos(t) < 0
<1>1. MaxTime \in Nat /\ HZ \in Nat /\ HZ > 1
  BY TimespecAssumption
<1>2. t.sec \in Int /\ t.nsec \in 0 .. HZ - 1 /\ 0 \in 0 .. HZ - 1 /\ t.sec * HZ \in Int
  BY <1>1 DEF Timespecs, Times, MinTime
<1>3. CASE t.sec < 0
  <2>1. Nanos(t) < 0 * HZ + 0
    BY <1>2, <1>3, NanosLess DEF Nanos
  <2>2. 0 * HZ + 0 = 0
    BY <1>1
  <2> QED
    BY <1>2, <1>3, <2>1, <2>2 DEF Sign
<1>4. CASE t.sec >= 0
  <2>1. t.sec * HZ >= 0
    BY <1>1, <1>2, <1>4
  <2>2. ~(Nanos(t) < 0)
    BY <1>1, <1>2, <2>1 DEF Nanos
  <2> QED
    BY <1>2, <1>4, <2>2 DEF Sign
<1> QED
  BY <1>2, <1>3, <1>4

LEMMA WaitNanos ==
  ASSUME NEW last \in Clock, NEW intvl \in Clock, NEW now \in Clock
  PROVE  /\ Sign(Wait(last, intvl, now)) >= 0
         /\ Leq(Add(last, intvl), now) => Nanos(Wait(last, intvl, now)) = 0
         /\ Leq(now, Add(last, intvl)) =>
              Nanos(now) + Nanos(Wait(last, intvl, now)) = Nanos(last) + Nanos(intvl)
<1> DEFINE due == Add(last, intvl)
<1> DEFINE left == Sub(due, now)
<1> DEFINE zero == [sec |-> 0, nsec |-> 0]
<1>1. HZ \in Nat /\ HZ > 1 /\ MaxTime \in Nat
  BY TimespecAssumption
<1>2. due \in Timespecs /\ due.sec >= 0 /\ Nanos(due) = Nanos(last) + Nanos(intvl)
  BY AddClock
<1>3. left \in Timespecs /\ Nanos(left) = Nanos(due) - Nanos(now)
  BY <1>2, SubClock
<1>4. now \in Timespecs /\ zero \in Timespecs
  BY <1>1 DEF Clock, Timespecs, Times, MinTime
<1>5. Nanos(zero) = 0 /\ Sign(zero) = 0
  BY <1>1 DEF Nanos, Sign
<1>6. Leq(due, now) <=> Nanos(due) <= Nanos(now)
  BY <1>2, <1>4, LeqNanos
<1>7. Leq(now, due) <=> Nanos(now) <= Nanos(due)
  BY <1>2, <1>4, LeqNanos
<1>8. \A t \in Timespecs : Nanos(t) \in Int
  BY <1>1 DEF Nanos, Timespecs, Times, MinTime
<1>9. Sign(left) \in {-1, 0, 1} /\ (Sign(left) = -1 <=> Nanos(left) < 0)
  BY <1>3, SignNegative
<1>10. Wait(last, intvl, now) = IF Sign(left) = -1 THEN zero ELSE left
  BY DEF Wait
<1>11. Nanos(last) + Nanos(intvl) = Nanos(due) /\ Nanos(due) \in Int /\ Nanos(now) \in Int
  BY <1>2, <1>4, <1>8
<1> HIDE DEF due, left, zero
<1>12. CASE Sign(left) = -1
  BY <1>3, <1>5, <1>6, <1>7, <1>9, <1>10, <1>11, <1>12 DEF due
<1>13. CASE Sign(left) # -1
  BY <1>3, <1>5, <1>6, <1>7, <1>9, <1>10, <1>11, <1>13 DEF due
<1> QED
  BY <1>12, <1>13

LEMMA TimedOutNanos ==
  ASSUME NEW start \in Clock, NEW timeout \in Int, NEW now \in Clock
  PROVE  TimedOut(start, timeout, now) <=> Nanos(now) - Nanos(start) >= timeout * HZ
<1> DEFINE d == Sub(now, start)
<1>1. HZ \in Nat /\ HZ > 1 /\ MaxTime \in Nat
  BY TimespecAssumption
<1>2. now \in Timespecs /\ now.sec >= 0
  BY DEF Clock
<1>3. d \in Timespecs /\ Nanos(d) = Nanos(now) - Nanos(start)
  BY <1>2, SubClock
<1>4. d.sec \in Int /\ d.nsec \in 0 .. HZ - 1 /\ 0 \in 0 .. HZ - 1
  BY <1>1, <1>3 DEF Timespecs, Times, MinTime
<1>5. d.sec * HZ \in Int /\ timeout * HZ \in Int
  BY <1>1, <1>4
<1>6. TimedOut(start, timeout, now) <=> d.sec >= timeout
  BY DEF TimedOut
<1> HIDE DEF d
<1>7. CASE d.sec < timeout
  <2>1. Nanos(d) < timeout * HZ + 0
    BY <1>4, <1>7, NanosLess DEF Nanos
  <2> QED
    BY <1>3, <1>4, <1>5, <1>6, <1>7, <2>1 DEF Nanos
<1>8. CASE d.sec >= timeout
  <2>1. d.sec * HZ >= timeout * HZ
    <3>1. (d.sec - timeout) * HZ >= 0
      BY <1>1, <1>4, <1>8
    <3> QED
      BY <1>1, <1>4, <1>5, <3>1
  <2> QED
    BY <1>1, <1>3, <1>4, <1>5, <1>6, <1>8, <2>1 DEF Nanos
<1> QED
  BY <1>4, <1>7, <1>8

-----------------------------------------------------------------------------
\* timespec_add and timespec_sub yield the representable value nearest to the
\* exact result, for every width of time_t, but for one pair of seconds each.
THEOREM SaturatesCorrect == Saturates
BY AddNearest, SubNearest DEF Saturates

\* The wait handed to pselect is never negative and ends exactly when the
\* next request is due.
THEOREM WaitCorrect == WaitExact
BY WaitNanos DEF WaitExact

\* -w N is over exactly when N seconds have passed.
THEOREM TimedOutCorrect == TimedOutExact
<1>1. \A t \in Clock : t.sec \in Int
  BY TimespecAssumption DEF Clock, Timespecs, Times, MinTime
<1>2. \A t \in 0 .. MaxTime : t \in Int
  BY TimespecAssumption
<1> QED
  BY <1>1, <1>2, TimedOutNanos DEF TimedOutExact
=============================================================================
