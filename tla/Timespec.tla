------------------------------ MODULE Timespec ------------------------------
(***************************************************************************)
(* The arithmetic of struct timespec (ft_timespec.c) and what loop_event   *)
(* computes with it: the wait handed to pselect and the test of -w.        *)
(*                                                                         *)
(* time_t is a two's complement integer: an addition wraps around, and     *)
(* __builtin_add_overflow says whether it did.  timespec_add and           *)
(* timespec_sub are meant to saturate.                                     *)
(***************************************************************************)
EXTENDS Integers

CONSTANTS
  MaxTime,    \* the largest time_t: 2^63 - 1
  HZ          \* TIMESPEC_HZ, nanoseconds of a second: 10^9

ASSUME TimespecAssumption ==
  /\ MaxTime \in Nat \ {0} /\ MaxTime % 2 = 1
  /\ HZ \in Nat \ {0, 1}

\* TYPE_MINIMUM (time_t).
MinTime == -MaxTime - 1

Times == MinTime .. MaxTime

\* Normalised values: current_timespec yields no others.
Timespecs == [sec : Times, nsec : 0 .. HZ - 1]

MinTimespec == [sec |-> MinTime, nsec |-> 0]
MaxTimespec == [sec |-> MaxTime, nsec |-> HZ - 1]

-----------------------------------------------------------------------------
\* The overflow flag of ckd_add and ckd_sub, and the result they store: the
\* sums and differences below leave the range by less than its size.
Overflows(x) == x \notin Times
Wrapped(x) ==
  IF x > MaxTime THEN x - 2 * (MaxTime + 1) ELSE IF x < MinTime THEN x + 2 * (MaxTime + 1) ELSE x

\* (TYPE_MINIMUM (time_t) + TYPE_MAXIMUM (time_t)) / 2: C divides -1 by 2 to 0.
Middle == 0

\* Both functions once the sum or difference `first' of the seconds is taken,
\* `second' is the carry (or what the borrow adds) and ns the sum or difference
\* of the nanoseconds.  Two overflows cancel each other; one alone saturates,
\* in the direction the wrapped result suggests.
SaturateMutant(first, second, ns) ==
  LET rs == Wrapped(Wrapped(first) + second) IN
  IF ~Overflows(first)
  THEN [sec |-> rs, nsec |-> ns - HZ * second]
  ELSE IF Middle < rs THEN MinTimespec ELSE MaxTimespec

Saturate(first, second, ns) ==
  LET rs == Wrapped(Wrapped(first) + second) IN
  IF Overflows(first) <=> Overflows(Wrapped(first) + second)
  THEN [sec |-> rs, nsec |-> ns - HZ * second]
  ELSE IF Middle < rs THEN MinTimespec ELSE MaxTimespec

Carry(a, b) == IF HZ <= a.nsec + b.nsec THEN 1 ELSE 0

\* What a borrow adds to the seconds.
Borrow(a, b) == IF a.nsec - b.nsec < 0 THEN -1 ELSE 0

Add(a, b) == Saturate(a.sec + b.sec, Carry(a, b), a.nsec + b.nsec)
Sub(a, b) == Saturate(a.sec - b.sec, Borrow(a, b), a.nsec - b.nsec)

\* timespec_sign.
Sign(a) ==
  (IF a.sec > 0 THEN 1 ELSE IF a.sec < 0 THEN -1 ELSE 0)
    + (IF a.sec = 0 /\ a.nsec # 0 THEN 1 ELSE 0)

-----------------------------------------------------------------------------
\* loop_event: how long pselect may wait, at time now, if the last request
\* was sent (or the wait last computed anew) at time last.
WaitMutant(last, intvl, now) == Sub(Add(last, intvl), now)
Wait(last, intvl, now) ==
  LET resp_time == Sub(Add(last, intvl), now) IN
  IF Sign(resp_time) = -1 THEN [sec |-> 0, nsec |-> 0] ELSE resp_time

\* ping_timeout_p, with -w.
TimedOut(start, timeout, now) == Sub(now, start).sec >= timeout

-----------------------------------------------------------------------------
(* What the functions are meant to compute.                                *)

\* a is not later than b.
Leq(a, b) == a.sec < b.sec \/ (a.sec = b.sec /\ a.nsec <= b.nsec)

\* The exact value, in nanoseconds.
Nanos(a) == a.sec * HZ + a.nsec

\* The value of Timespecs nearest to x nanoseconds.
Nearest(x) ==
  CASE x < Nanos(MinTimespec) -> MinTimespec
    [] x > Nanos(MaxTimespec) -> MaxTimespec
    [] OTHER -> [sec |-> x \div HZ, nsec |-> x % HZ]

\* The operands for which the wrapped result is the middle itself, and the
\* functions saturate to the wrong end.
AddMiddle(a, b) == a.sec = MinTime /\ b.sec = MinTime /\ Carry(a, b) = 0
SubMiddle(a, b) == a.sec = MinTime /\ b.sec = MaxTime /\ Borrow(a, b) = -1

\* timespec_add and timespec_sub yield the representable value nearest to the
\* exact result, whatever carries and overflows meet, except in the middle,
\* where they yield the wrong extreme.
Saturates ==
  \A a, b \in Timespecs :
    /\ Add(a, b) = IF AddMiddle(a, b) THEN MaxTimespec ELSE Nearest(Nanos(a) + Nanos(b))
    /\ Sub(a, b) = IF SubMiddle(a, b) THEN MaxTimespec ELSE Nearest(Nanos(a) - Nanos(b))

\* Instants and intervals of the program: neither is negative, and a clock
\* shows nothing near the end of time_t.
Clock == {t \in Timespecs : t.sec >= 0 /\ t.sec <= MaxTime \div 2}

\* pselect is never given a negative wait, and the wait loop_event computes
\* ends exactly at the instant the next request is due.
WaitExact ==
  \A last, intvl, now \in Clock :
    /\ Sign(Wait(last, intvl, now)) >= 0
    /\ Leq(Add(last, intvl), now) => Nanos(Wait(last, intvl, now)) = 0
    /\ Leq(now, Add(last, intvl)) =>
         Nanos(now) + Nanos(Wait(last, intvl, now)) = Nanos(last) + Nanos(intvl)

\* -w N is over exactly when N full seconds have passed, although
\* ping_timeout_p looks at seconds only.
TimedOutExact ==
  \A start, now \in Clock, timeout \in 0 .. MaxTime :
    TimedOut(start, timeout, now) <=> Nanos(now) - Nanos(start) >= timeout * HZ
=============================================================================
