-------------------------- MODULE PingClockProofs --------------------------
(***************************************************************************)
(* Proofs about PingClock, for every interval, latency, timeout, clock and *)
(* way to set it.                                                          *)
(***************************************************************************)
EXTENDS PingClock, TimespecProofs

\* The clock is shown exactly.
LEMMA InstantExact ==
  ASSUME NEW t \in 0 .. Horizon
  PROVE  Instant(t) \in Clock /\ Nanos(Instant(t)) = t
<1> DEFINE q == t \div HZ
<1> DEFINE r == t % HZ
<1> DEFINE half == MaxTime \div 2
<1>1. MaxTime \in Nat /\ HZ \in Nat /\ HZ > 1 /\ Horizon \in Nat /\ Horizon < HZ * half
  BY TimespecAssumption, ClockAssumption
<1>2. half \in Nat /\ half <= MaxTime
  BY <1>1
<1>3. t = HZ * q + r /\ q \in Int /\ r \in 0 .. HZ - 1
  BY <1>1
<1>4. Instant(t) = [sec |-> q, nsec |-> r]
  BY DEF Instant
<1> HIDE DEF q, r, half
<1>5. q >= 0
  <2>1. SUFFICES ASSUME q <= -1 PROVE FALSE
    BY <1>3
  <2>2. HZ * (q + 1) <= 0
    BY <1>1, <1>3, <2>1
  <2>3. HZ * (q + 1) = HZ * q + HZ /\ HZ * q \in Int
    BY <1>1, <1>3
  <2> QED
    BY <1>1, <1>3, <2>2, <2>3
<1>6. q <= half
  <2>1. SUFFICES ASSUME q > half PROVE FALSE
    BY <1>2, <1>3
  <2>2. HZ * (q - half) >= 0
    BY <1>1, <1>2, <1>3, <2>1
  <2>3. HZ * (q - half) = HZ * q - HZ * half /\ HZ * q \in Int /\ HZ * half \in Int
    BY <1>1, <1>2, <1>3
  <2> QED
    BY <1>1, <1>3, <2>2, <2>3
<1>7. q * HZ + r = t
  BY <1>1, <1>3
<1> QED
  BY <1>1, <1>2, <1>3, <1>4, <1>5, <1>6, <1>7 DEF Clock, Timespecs, Times, MinTime, Nanos, half

LEMMA NanosType ==
  ASSUME NEW t \in Timespecs
  PROVE  Nanos(t) \in Int /\ (t.sec >= 0 => Nanos(t) \in Nat)
<1>1. HZ \in Nat /\ HZ > 1 /\ MaxTime \in Nat
  BY TimespecAssumption
<1>2. t.sec \in Int /\ t.nsec \in 0 .. HZ - 1
  BY <1>1 DEF Timespecs, Times, MinTime
<1>3. t.sec * HZ \in Int /\ (t.sec >= 0 => t.sec * HZ >= 0)
  BY <1>1, <1>2
<1> QED
  BY <1>1, <1>2, <1>3 DEF Nanos

\* The wait is what is left until the next request is due, or nothing.
LEMMA WaitLeft ==
  ASSUME NEW l \in Clock, NEW i \in Clock, NEW n \in Clock
  PROVE  /\ Wait(l, i, n) \in Timespecs
         /\ Wait(l, i, n).sec >= 0
         /\ Nanos(Wait(l, i, n)) = Later(0, Nanos(l) + Nanos(i) - Nanos(n))
<1> DEFINE due == Add(l, i)
<1> DEFINE left == Sub(due, n)
<1>1. HZ \in Nat /\ HZ > 1 /\ MaxTime \in Nat /\ NoWait \in Timespecs
  BY TimespecAssumption DEF NoWait, Timespecs, Times, MinTime
<1>2. due \in Timespecs /\ due.sec >= 0 /\ Nanos(due) = Nanos(l) + Nanos(i)
  BY AddClock
<1>3. left \in Timespecs /\ Nanos(left) = Nanos(due) - Nanos(n)
  BY <1>2, SubClock
<1>4. Sign(left) = -1 <=> Nanos(left) < 0
  BY <1>3, SignNegative
<1>5. Nanos(NoWait) = 0 /\ NoWait.sec = 0
  BY <1>1 DEF Nanos, NoWait
<1>6. Wait(l, i, n) = IF Sign(left) = -1 THEN NoWait ELSE left
  BY DEF Wait, NoWait
<1>7. Nanos(left) \in Int
  BY <1>3, NanosType
<1>8. Nanos(left) = Nanos(l) + Nanos(i) - Nanos(n)
  <2>1. Nanos(l) \in Int /\ Nanos(i) \in Int /\ Nanos(n) \in Int
    BY NanosType DEF Clock
  <2> HIDE DEF due, left
  <2> QED
    BY <1>2, <1>3, <2>1
<1>9. Sign(left) # -1 => left.sec >= 0
  <2>1. left.sec \in Int
    BY <1>1, <1>3 DEF Timespecs, Times, MinTime
  <2> QED
    BY <2>1 DEF Sign
<1> HIDE DEF due, left
<1> QED
  BY <1>1, <1>3, <1>4, <1>5, <1>6, <1>7, <1>8, <1>9 DEF Later

\* Before the deadline of the wall clock, it is before that of real time.
LEMMA NotOver ==
  ASSUME TypeOK, wall - now + back >= Nanos(start), timeout # -1, ~TimeIsOver
  PROVE  now <= timeout * HZ + back
<1>1. wall \in 0 .. Horizon /\ now \in Nat /\ back \in Nat /\ timeout \in Int /\ start \in Clock
  BY ClockAssumption DEF TypeOK
<1>2. Instant(wall) \in Clock /\ Nanos(Instant(wall)) = wall
  BY <1>1, InstantExact
<1>3. ~(wall - Nanos(start) >= timeout * HZ)
  BY <1>1, <1>2, TimedOutNanos DEF TimeIsOver
<1>4. Nanos(start) \in Int
  BY <1>1, NanosType DEF Clock
<1>5. timeout * HZ \in Int
  BY <1>1, TimespecAssumption
<1>6. Horizon \in Nat
  BY ClockAssumption
<1> QED
  BY <1>1, <1>3, <1>4, <1>5, <1>6

-----------------------------------------------------------------------------
(* The inductive invariant.                                                *)

\* What the clock shows, against real time.
Clocks ==
  /\ wall - now + back >= Nanos(start)
  /\ Nanos(last) = stamped + lead
  /\ stamped <= now /\ sent <= now

\* How long the process has been where it is.
Stay ==
  /\ pc \notin {"start", "pselect", "done"} => since <= Latency
  /\ pc = "pselect" => since <= Nanos(resp_time) + Latency

\* When the next request is due, from the place where last is set on.
Spaced ==
  /\ pc = "presend" => now <= stamped + since
  /\ pc \in {"while", "arm", "pselect", "recv", "send"} => sent <= stamped + Latency
  /\ pc = "arm" => now + Nanos(resp_time) >= stamped + Nanos(intvl) - drift
  /\ pc = "pselect" => (now - since) + Nanos(resp_time) >= stamped + Nanos(intvl) - drift
  /\ pc = "send" => now >= stamped + Nanos(intvl) - drift

\* How late each place is reached at most.
Longest == Later(Nanos(intvl), Latency)
InTime ==
  timeout # -1 =>
    /\ pc # "start" => Nanos(last) + now - wall <= Deadline + Latency
    /\ pc \in {"presend", "stamp"} => now <= Deadline + since
    /\ pc = "while" => now <= Deadline + Latency + since
    /\ pc = "arm" => (now - since) + Nanos(resp_time) <= Deadline + Latency + Longest
    /\ pc = "pselect" => (now - since) + Nanos(resp_time) <= Deadline + 2 * Latency + Longest
    /\ pc \in {"recv", "send"} => now <= Deadline + 3 * Latency + Longest + since
    /\ pc = "check" => now <= Deadline + 4 * Latency + Longest + since

IInv == TypeOK /\ Clocks /\ Stay /\ Spaced /\ InTime

-----------------------------------------------------------------------------
\* What every step below needs.
LEMMA Numbers ==
  ASSUME TypeOK
  PROVE  /\ Nanos(last) \in Int /\ Nanos(start) \in Int
         /\ Nanos(intvl) \in Nat /\ intvl \in Clock
         /\ Nanos(resp_time) \in Nat
         /\ Deadline \in Int /\ begun + back <= Deadline /\ timeout * HZ + back <= Deadline
         /\ timeout * HZ \in Int
         /\ Longest \in Nat /\ Nanos(intvl) <= Longest /\ Latency <= Longest
         /\ Latency \in Nat /\ Horizon \in Nat /\ MaxJumps \in Nat
         /\ now \in Nat /\ wall \in 0 .. Horizon /\ since \in Nat
         /\ begun \in Nat /\ stamped \in Nat /\ sent \in Nat /\ back \in Nat
         /\ lead \in Int /\ drift \in Int
<1>1. /\ last \in Clock /\ start \in Clock /\ intvl \in Clock /\ timeout \in Int
      /\ resp_time \in Timespecs /\ resp_time.sec >= 0
      /\ begun \in Nat /\ back \in Nat
  BY ClockAssumption DEF TypeOK
<1>2. Nanos(last) \in Int /\ Nanos(start) \in Int /\ Nanos(intvl) \in Nat /\ Nanos(resp_time) \in Nat
  BY <1>1, NanosType DEF Clock
<1>3. timeout * HZ \in Int
  BY <1>1, TimespecAssumption
<1>4. Latency \in Nat /\ Horizon \in Nat /\ MaxJumps \in Nat
  BY ClockAssumption
<1> QED
  BY <1>1, <1>2, <1>3, <1>4 DEF TypeOK, Deadline, Longest, Later

LEMMA InitIInv == Init => IInv
<1> SUFFICES ASSUME Init PROVE IInv
  OBVIOUS
<1>1. /\ wall \in 0 .. Horizon /\ Horizon \in Nat /\ Latency \in Nat /\ MaxJumps \in Nat
      /\ intvl \in Clock /\ HZ \in Nat /\ HZ > 1 /\ MaxTime \in Nat
  BY ClockAssumption, TimespecAssumption DEF Init
<1>2. start \in Clock /\ Nanos(start) = wall
  BY <1>1, InstantExact DEF Init
<1>3. resp_time \in Timespecs /\ resp_time.sec >= 0
  BY <1>1 DEF Init, NoWait, Timespecs, Times, MinTime
<1>4. TypeOK
  BY <1>1, <1>2, <1>3 DEF Init, TypeOK, Places
<1>5. Clocks
  BY <1>1, <1>2 DEF Init, Clocks
<1> QED
  BY <1>4, <1>5 DEF Init, IInv, Stay, Spaced, InTime

\* loop_event_pre sets last, and the loop has begun.
LEMMA PreStampStep == IInv /\ PreStamp => IInv'
<1> SUFFICES ASSUME IInv, PreStamp PROVE IInv'
  OBVIOUS
<1>1. TypeOK /\ wall \in 0 .. Horizon /\ now \in Nat /\ Horizon \in Nat
  BY Numbers DEF IInv
<1>2. last' \in Clock /\ Nanos(last') = wall
  BY <1>1, InstantExact DEF PreStamp, SetLast
<1>3. lead' = wall - now /\ stamped' = now /\ begun' = now /\ pc' = "presend" /\ since' = 0
  BY DEF PreStamp, SetLast, Goto
<1>4. TypeOK'
  BY <1>1, <1>2, <1>3 DEF TypeOK, PreStamp, Places, argVars, timeVars
<1>5. Clocks'
  BY <1>1, <1>2, <1>3, Numbers DEF IInv, Clocks, PreStamp, argVars, timeVars
<1>6. Stay' /\ Spaced'
  BY <1>1, <1>3, Numbers DEF Stay, Spaced, PreStamp, argVars, timeVars
<1>7. InTime'
  <2>1. Deadline' = Later(now, timeout * HZ) + back
    BY <1>3 DEF Deadline, PreStamp, argVars, timeVars
  <2>2. Later(now, timeout * HZ) \in Int /\ now <= Later(now, timeout * HZ)
    BY <1>1, Numbers DEF Later
  <2>3. back \in Nat /\ Latency \in Nat
    BY <1>1, Numbers
  <2>4. wall' = wall /\ now' = now
    BY DEF PreStamp, timeVars
  <2>5. Nanos(last') + now' - wall' <= Deadline' + Latency
    BY <1>1, <1>2, <2>1, <2>2, <2>3, <2>4
  <2>6. now' <= Deadline' + since'
    BY <1>1, <1>3, <2>1, <2>2, <2>3, <2>4
  <2> QED
    BY <1>3, <2>5, <2>6 DEF InTime
<1> QED
  BY <1>4, <1>5, <1>6, <1>7 DEF IInv

\* The end of loop_event, likewise.
LEMMA StampStep == IInv /\ Stamp => IInv'
<1> SUFFICES ASSUME IInv, Stamp PROVE IInv'
  OBVIOUS
<1>1. TypeOK /\ wall \in 0 .. Horizon /\ now \in Nat /\ Horizon \in Nat
  BY Numbers DEF IInv
<1>2. last' \in Clock /\ Nanos(last') = wall
  BY <1>1, InstantExact DEF Stamp, SetLast
<1>3. lead' = wall - now /\ stamped' = now /\ pc = "stamp" /\ pc' = "while" /\ since' = 0
  BY DEF Stamp, SetLast, Goto
<1>4. TypeOK'
  BY <1>1, <1>2, <1>3 DEF TypeOK, Stamp, Places, argVars, timeVars
<1>5. Clocks'
  BY <1>1, <1>2, <1>3, Numbers DEF IInv, Clocks, Stamp, argVars, timeVars
<1>6. Stay' /\ Spaced'
  BY <1>1, <1>3, Numbers DEF IInv, Clocks, Stay, Spaced, Stamp, argVars, timeVars
<1>7. InTime'
  <2>1. Deadline' = Deadline
    BY DEF Deadline, Stamp, argVars, timeVars
  <2>2. timeout # -1 => now <= Deadline + Latency
    BY <1>1, <1>3, Numbers DEF IInv, InTime, Stay
  <2> QED
    BY <1>1, <1>2, <1>3, <2>1, <2>2, Numbers DEF InTime, Stamp, argVars, timeVars
<1> QED
  BY <1>4, <1>5, <1>6, <1>7 DEF IInv

\* The wait ends no earlier than an interval after last, as far as the clock
\* was not set forward.
LEMMA ComputeWaitStep == IInv /\ ComputeWait => IInv'
<1> SUFFICES ASSUME IInv, ComputeWait PROVE IInv'
  OBVIOUS
<1>1. TypeOK /\ last \in Clock /\ intvl \in Clock /\ wall \in 0 .. Horizon
  BY Numbers DEF IInv, TypeOK
<1>2. Instant(wall) \in Clock /\ Nanos(Instant(wall)) = wall
  BY <1>1, InstantExact
<1>3. /\ resp_time' \in Timespecs /\ resp_time'.sec >= 0
      /\ Nanos(resp_time') = Later(0, Nanos(last) + Nanos(intvl) - wall)
  BY <1>1, <1>2, WaitLeft DEF ComputeWait
<1>4. drift' = (wall - now) - lead /\ pc = "while" /\ pc' = "arm" /\ since' = 0
  BY DEF ComputeWait, Goto
<1>5. TypeOK'
  BY <1>1, <1>3, <1>4, Numbers DEF TypeOK, ComputeWait, Places, argVars, timeVars
<1>6. Clocks'
  BY DEF IInv, Clocks, ComputeWait, argVars, timeVars
<1>7. Stay'
  BY <1>1, <1>4, Numbers DEF Stay
<1>8. Spaced'
  BY <1>1, <1>3, <1>4, Numbers DEF IInv, Clocks, Spaced, Later, ComputeWait, argVars, timeVars
<1>9. InTime'
  <2>1. Deadline' = Deadline /\ Longest' = Longest
    BY DEF Deadline, Longest, ComputeWait, argVars, timeVars
  <2>2. ASSUME timeout # -1
        PROVE  now + Nanos(resp_time') <= Deadline + Latency + Longest
    <3>1. now <= Deadline + Latency + since /\ Nanos(last) + now - wall <= Deadline + Latency
      BY <1>4, <2>2 DEF IInv, InTime
    <3>2. since <= Latency
      BY <1>4 DEF IInv, Stay
    <3> QED
      BY <1>1, <1>3, <3>1, <3>2, Numbers DEF Later
  <2> QED
    BY <1>1, <1>4, <2>1, <2>2, Numbers DEF IInv, InTime, ComputeWait, argVars, timeVars
<1> QED
  BY <1>5, <1>6, <1>7, <1>8, <1>9 DEF IInv

\* The steps that only go on to another place, or that send.
Moves == PreSend \/ Block \/ TimerExpires \/ Readable \/ Stopped \/ SendRequest \/ AfterRecv \/ AfterSend

LEMMA MovesStep == IInv /\ Moves => IInv'
<1> SUFFICES ASSUME IInv, Moves PROVE IInv'
  OBVIOUS
<1>1. TypeOK
  BY DEF IInv
<1>2. /\ timeout' = timeout /\ start' = start /\ last' = last /\ intvl' = intvl
      /\ resp_time' = resp_time /\ now' = now /\ wall' = wall /\ back' = back /\ jumps' = jumps
      /\ begun' = begun /\ stamped' = stamped /\ lead' = lead /\ drift' = drift
      /\ sent' \in {sent, now} /\ pc' \in Places /\ since' = 0
  BY DEF Moves, PreSend, Block, TimerExpires, Readable, Stopped, SendRequest, AfterRecv, AfterSend,
         argVars, timeVars, histVars, Goto, Places
<1>3. TypeOK'
  BY <1>1, <1>2 DEF TypeOK
<1>4. Clocks'
  BY <1>1, <1>2, Numbers DEF IInv, Clocks
<1>5. Deadline' = Deadline /\ Longest' = Longest
  BY <1>2 DEF Deadline, Longest
<1>6. timeout # -1 /\ ~TimeIsOver => now <= Deadline
  BY <1>1, NotOver, Numbers DEF IInv, Clocks
<1>7. CASE PreSend
  <2>1. pc = "presend" /\ pc' = "while" /\ sent' = now
    BY <1>7 DEF PreSend, Goto
  <2> QED
    BY <1>1, <1>2, <1>3, <1>4, <1>5, <2>1, Numbers DEF IInv, Stay, Spaced, InTime
<1>8. CASE Block
  <2>1. pc = "arm" /\ pc' = "pselect" /\ sent' = sent
    BY <1>8 DEF Block, Goto, histVars
  <2> QED
    BY <1>1, <1>2, <1>3, <1>4, <1>5, <2>1, Numbers DEF IInv, Stay, Spaced, InTime
<1>9. CASE TimerExpires
  <2>1. pc = "pselect" /\ pc' = "send" /\ sent' = sent /\ since >= Nanos(resp_time)
    BY <1>9 DEF TimerExpires, Goto, histVars
  <2> QED
    BY <1>1, <1>2, <1>3, <1>4, <1>5, <2>1, Numbers DEF IInv, Stay, Spaced, InTime
<1>10. CASE Readable
  <2>1. pc = "pselect" /\ pc' = "recv" /\ sent' = sent
    BY <1>10 DEF Readable, Goto, histVars
  <2> QED
    BY <1>1, <1>2, <1>3, <1>4, <1>5, <2>1, Numbers DEF IInv, Stay, Spaced, InTime
<1>11. CASE Stopped
  <2>1. pc \in {"pselect", "send", "recv"} /\ pc' = "done" /\ sent' = sent
    BY <1>11 DEF Stopped, Goto, histVars
  <2> QED
    BY <1>1, <1>2, <1>3, <1>4, <1>5, <2>1, Numbers DEF IInv, Stay, Spaced, InTime
<1>12. CASE SendRequest
  <2>1. pc = "send" /\ pc' = "check" /\ sent' = now
    BY <1>12 DEF SendRequest, Goto
  <2> QED
    BY <1>1, <1>2, <1>3, <1>4, <1>5, <2>1, Numbers DEF IInv, Stay, Spaced, InTime
<1>13. CASE AfterRecv
  <2>1. pc = "recv" /\ sent' = sent /\ (pc' = "done" \/ (pc' = "while" /\ (timeout = -1 \/ ~TimeIsOver)))
    BY <1>13 DEF AfterRecv, Goto, histVars
  <2> QED
    BY <1>1, <1>2, <1>3, <1>4, <1>5, <1>6, <2>1, Numbers DEF IInv, Stay, Spaced, InTime
<1>14. CASE AfterSend
  <2>1. pc = "check" /\ sent' = sent /\ (pc' = "done" \/ (pc' = "stamp" /\ (timeout = -1 \/ ~TimeIsOver)))
    BY <1>14 DEF AfterSend, Goto, histVars
  <2> QED
    BY <1>1, <1>2, <1>3, <1>4, <1>5, <1>6, <2>1, Numbers DEF IInv, Stay, Spaced, InTime
<1> QED
  BY <1>7, <1>8, <1>9, <1>10, <1>11, <1>12, <1>13, <1>14 DEF Moves

\* Time passes at both clocks.
LEMMA TickStep == IInv /\ Tick => IInv'
<1> SUFFICES ASSUME IInv, Tick PROVE IInv'
  OBVIOUS
<1>1. TypeOK
  BY DEF IInv
<1>2. /\ now' = now + 1 /\ wall' = wall + 1 /\ since' = since + 1 /\ wall < Horizon
      /\ pc' = pc /\ timeout' = timeout /\ start' = start /\ last' = last /\ intvl' = intvl
      /\ resp_time' = resp_time /\ back' = back /\ jumps' = jumps
      /\ begun' = begun /\ stamped' = stamped /\ sent' = sent /\ lead' = lead /\ drift' = drift
  BY DEF Tick, argVars, histVars
<1>3. /\ pc = "pselect" => since < Nanos(resp_time) + Latency
      /\ pc \notin {"start", "pselect", "done"} => since < Latency
  BY DEF Tick, MayStay
<1>4. TypeOK'
  BY <1>1, <1>2, Numbers DEF TypeOK
<1>5. Deadline' = Deadline /\ Longest' = Longest
  BY <1>2 DEF Deadline, Longest
<1>6. Clocks'
  BY <1>1, <1>2, Numbers DEF IInv, Clocks
<1>7. Stay'
  BY <1>1, <1>2, <1>3, Numbers DEF IInv, Stay
<1>8. Spaced'
  BY <1>1, <1>2, Numbers DEF IInv, Spaced
<1>9. InTime'
  BY <1>1, <1>2, <1>5, Numbers DEF IInv, InTime
<1> QED
  BY <1>4, <1>6, <1>7, <1>8, <1>9 DEF IInv

\* The clock set back puts the deadline off by as much as the next request.
LEMMA SetClockStep == IInv /\ SetClock => IInv'
<1> SUFFICES ASSUME IInv, SetClock PROVE IInv'
  OBVIOUS
<1>1. TypeOK
  BY DEF IInv
<1>2. PICK d \in Jumps : /\ wall + d \in 0 .. Horizon /\ wall' = wall + d
                         /\ back' = IF d < 0 THEN back - d ELSE back
  BY DEF SetClock
<1>3. d \in Int
  BY ClockAssumption
<1>4. /\ now' = now /\ since' = since /\ pc' = pc /\ timeout' = timeout /\ start' = start
      /\ last' = last /\ intvl' = intvl /\ resp_time' = resp_time
      /\ begun' = begun /\ stamped' = stamped /\ sent' = sent /\ lead' = lead /\ drift' = drift
      /\ jumps' = jumps + 1 /\ jumps < MaxJumps
  BY DEF SetClock, argVars, histVars
<1>5. back' - back >= 0 /\ back' - back >= wall - wall' /\ back' \in Nat
  BY <1>1, <1>2, <1>3, Numbers
<1>6. TypeOK'
  BY <1>1, <1>2, <1>4, <1>5, Numbers DEF TypeOK
<1>7. Deadline' = Deadline + (back' - back) /\ Longest' = Longest
  <2>1. Later(begun, timeout * HZ) \in Int
    BY <1>1, Numbers DEF Later
  <2> QED
    BY <1>1, <1>4, <1>5, <2>1, Numbers DEF Deadline, Longest
<1>8. Clocks'
  BY <1>1, <1>2, <1>3, <1>4, <1>5, Numbers DEF IInv, Clocks
<1>9. Stay' /\ Spaced'
  BY <1>4 DEF IInv, Stay, Spaced
<1>10. InTime'
  <2>1. wall' \in Int
    BY <1>1, <1>2, Numbers
  <2> QED
    BY <1>1, <1>4, <1>5, <1>7, <2>1, Numbers DEF IInv, InTime
<1> QED
  BY <1>6, <1>8, <1>9, <1>10 DEF IInv

LEMMA NextStep == IInv /\ [Next]_vars => IInv'
<1> SUFFICES ASSUME IInv, [Next]_vars PROVE IInv'
  OBVIOUS
<1>1. CASE Process
  BY <1>1, PreStampStep, StampStep, ComputeWaitStep, MovesStep DEF Process, Moves
<1>2. CASE UNCHANGED vars
  BY <1>2 DEF vars, argVars, timeVars, histVars, IInv, TypeOK, Clocks, Stay, Spaced, InTime, Deadline, Longest
<1> QED
  BY <1>1, <1>2, TickStep, SetClockStep DEF Next

LEMMA Invariance == Spec => []IInv
BY InitIInv, NextStep, PTL DEF Spec

-----------------------------------------------------------------------------
\* Every variable keeps its type, and pselect is never given a negative wait.
THEOREM ClockTypeCorrect == Spec => []TypeOK
<1>1. IInv => TypeOK
  BY DEF IInv
<1> QED
  BY <1>1, Invariance, PTL

\* What the loop computes is exact, whatever overflows on the way.
THEOREM ArithmeticCorrect == Spec => []Arithmetic
<1>1. Arithmetic
  BY SaturatesCorrect, WaitCorrect, TimedOutCorrect DEF Arithmetic
<1> QED
  BY <1>1, PTL

\* Two requests of the loop are an interval apart, less what the clock was set
\* forward.
THEOREM SpacingCorrect == Spec => []Spacing
<1>1. IInv => Spacing
  BY Numbers DEF IInv, Spaced, Clocks, Spacing
<1> QED
  BY <1>1, Invariance, PTL

\* A run ends at most the longer of an interval and a step, and five more
\* steps, after its deadline.
THEOREM TimeoutLagCorrect == Spec => []TimeoutLag
<1>1. IInv => TimeoutLag
  <2> SUFFICES ASSUME IInv, timeout # -1, pc \notin {"start", "done"} PROVE now <= Deadline + Lag
    BY DEF TimeoutLag
  <2>1. TypeOK /\ pc \in Places
    BY DEF IInv, TypeOK
  <2>2. Lag = Longest + 5 * Latency
    BY DEF Lag, Longest
  <2> QED
    BY <2>1, <2>2, Numbers DEF IInv, Stay, InTime, Places
<1> QED
  BY <1>1, Invariance, PTL
=============================================================================
