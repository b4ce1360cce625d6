------------------------------ MODULE PingClock ------------------------------
(***************************************************************************)
(* The instants of a run: when loop_event sends, how long it waits, and    *)
(* how long after the -w seconds a run ends.  PingRun says what a run does *)
(* and in which order; here every step takes time, and the wall clock      *)
(* that current_timespec reads may be set forward or back at any moment,   *)
(* while pselect waits for time that really passes.                        *)
(*                                                                         *)
(* Time is counted in nanoseconds.  `now' is real time, 0 in ping_init.    *)
(* The program never sets a count, so the loop has no lingering.           *)
(*                                                                         *)
(* pc:  "start"    before loop_event_pre sets last                         *)
(*      "presend"  loop_event_pre, the last request still to send          *)
(*      "while"    loop_event is entered                                   *)
(*      "arm"      the wait is computed, pselect is not entered            *)
(*      "pselect"  waiting                                                 *)
(*      "recv"     pselect returned 1: ping_recv                           *)
(*      "send"     pselect returned 0: send_echo                           *)
(*      "check"    the request is sent, ping_timeout_p not yet called      *)
(*      "stamp"    last not yet set                                        *)
(*      "done"     loop_event has returned 1 or 4, or was interrupted      *)
(***************************************************************************)
EXTENDS Timespec

CONSTANTS
  Intervals,  \* 10 ms with OPT_FLOOD, PING_DEFAULT_INTERVAL without
  Timeouts,   \* args->timeout: -1, or the seconds of -w
  Latency,    \* the longest time a step of the process takes
  Walls,      \* what the wall clock shows in ping_init
  Jumps,      \* by what the wall clock is set
  MaxJumps,   \* bound: how often it is set
  Horizon,    \* bound: the last instant the wall clock shows
  MaxNow      \* bound: the real time considered

ASSUME ClockAssumption ==
  /\ Intervals \subseteq Clock
  /\ Timeouts \subseteq Nat \cup {-1}
  /\ Latency \in Nat
  /\ Walls \subseteq 0 .. Horizon
  /\ Jumps \subseteq Int
  /\ MaxJumps \in Nat
  /\ Horizon \in Nat /\ Horizon < HZ * (MaxTime \div 2)
  /\ MaxNow \in Nat

VARIABLES
  pc,
  timeout,    \* args->timeout
  start,      \* ping_start_time
  last,
  intvl,
  resp_time,  \* the wait of loop_event
  now,        \* real time
  wall,       \* what the wall clock shows
  since,      \* real time spent at this place of the code
  begun,      \* history: when loop_event_pre set last
  stamped,    \* history: when last was set, in real time
  sent,       \* history: when the last request was sent
  lead,       \* history: wall - now when last was set
  drift,      \* history: how far the clock was set forward between that and the wait
  back,       \* history: how far the clock was ever set back
  jumps       \* how often it was set

argVars   == <<timeout, start>>
timeVars  == <<now, wall, back, jumps>>
histVars  == <<begun, stamped, sent, lead, drift>>
vars == <<pc, argVars, last, intvl, resp_time, timeVars, since, histVars>>

Places == {"start", "presend", "while", "arm", "pselect", "recv", "send", "check", "stamp", "done"}

\* current_timespec.
Instant(t) == [sec |-> t \div HZ, nsec |-> t % HZ]

NoWait == [sec |-> 0, nsec |-> 0]

\* ping_init has just read the clock; last and intvl are indeterminate, and
\* set before they are read.
Init ==
  /\ pc = "start"
  /\ timeout \in Timeouts
  /\ wall \in Walls
  /\ start = Instant(wall)
  /\ last = start
  /\ intvl \in Intervals
  /\ resp_time = NoWait
  /\ now = 0
  /\ since = 0
  /\ begun = 0
  /\ stamped = 0
  /\ sent = 0
  /\ lead = wall
  /\ drift = 0
  /\ back = 0
  /\ jumps = 0

-----------------------------------------------------------------------------
\* The process goes on to the next place.
Goto(place) == pc' = place /\ since' = 0

\* *last = current_timespec ().
SetLast ==
  /\ last' = Instant(wall)
  /\ stamped' = now
  /\ lead' = wall - now

\* loop_event_pre sets last before the last request it sends ...
PreStamp ==
  /\ pc = "start"
  /\ SetLast
  /\ begun' = now
  /\ Goto("presend")
  /\ UNCHANGED <<argVars, intvl, resp_time, timeVars, sent, drift>>

\* ... and does not look at what becomes of it.
PreSend ==
  /\ pc = "presend"
  /\ sent' = now
  /\ Goto("while")
  /\ UNCHANGED <<argVars, last, intvl, resp_time, timeVars, begun, stamped, lead, drift>>

\* loop_event computes its wait.
ComputeWaitMutant ==
  /\ pc = "while"
  /\ resp_time' = Sub(Add(Instant(wall), intvl), last)
  /\ drift' = (wall - now) - lead
  /\ Goto("arm")
  /\ UNCHANGED <<argVars, last, intvl, timeVars, begun, stamped, sent, lead>>

ComputeWait ==
  /\ pc = "while"
  /\ resp_time' = Wait(last, intvl, Instant(wall))
  /\ drift' = (wall - now) - lead
  /\ Goto("arm")
  /\ UNCHANGED <<argVars, last, intvl, timeVars, begun, stamped, sent, lead>>

Block ==
  /\ pc = "arm"
  /\ Goto("pselect")
  /\ UNCHANGED <<argVars, last, intvl, resp_time, timeVars, histVars>>

\* pselect returns 0: it has waited in real time.
TimerExpires ==
  /\ pc = "pselect"
  /\ since >= Nanos(resp_time)
  /\ Goto("send")
  /\ UNCHANGED <<argVars, last, intvl, resp_time, timeVars, histVars>>

\* pselect returns 1, at any moment.
Readable ==
  /\ pc = "pselect"
  /\ Goto("recv")
  /\ UNCHANGED <<argVars, last, intvl, resp_time, timeVars, histVars>>

\* pselect, send_echo or ping_recv fails, or SIGINT ends the loop.
Stopped ==
  /\ pc \in {"pselect", "send", "recv"}
  /\ Goto("done")
  /\ UNCHANGED <<argVars, last, intvl, resp_time, timeVars, histVars>>

\* send_echo.
SendRequest ==
  /\ pc = "send"
  /\ sent' = now
  /\ Goto("check")
  /\ UNCHANGED <<argVars, last, intvl, resp_time, timeVars, begun, stamped, lead, drift>>

\* ping_timeout_p.
TimeIsOver == timeout # -1 /\ TimedOut(start, timeout, Instant(wall))

\* After a packet was received; last stays as it is.
AfterRecvMutant ==
  /\ pc = "recv"
  /\ Goto("while")
  /\ UNCHANGED <<argVars, last, intvl, resp_time, timeVars, histVars>>

AfterRecv ==
  /\ pc = "recv"
  /\ Goto(IF TimeIsOver THEN "done" ELSE "while")
  /\ UNCHANGED <<argVars, last, intvl, resp_time, timeVars, histVars>>

\* After a request was sent.
AfterSend ==
  /\ pc = "check"
  /\ Goto(IF TimeIsOver THEN "done" ELSE "stamp")
  /\ UNCHANGED <<argVars, last, intvl, resp_time, timeVars, histVars>>

\* The end of loop_event, which returns 0.
Stamp ==
  /\ pc = "stamp"
  /\ SetLast
  /\ Goto("while")
  /\ UNCHANGED <<argVars, intvl, resp_time, timeVars, begun, sent, drift>>

-----------------------------------------------------------------------------
(* Time.                                                                   *)

\* How long the process may stay where it is: host names take any time to be
\* resolved and earlier hosts any time to be pinged.
MayStay ==
  CASE pc = "start"   -> TRUE
    [] pc = "pselect" -> since < Nanos(resp_time) + Latency
    [] pc = "done"    -> FALSE
    [] OTHER          -> since < Latency

\* A nanosecond passes.
Tick ==
  /\ MayStay
  /\ now < MaxNow
  /\ wall < Horizon
  /\ now' = now + 1
  /\ wall' = wall + 1
  /\ since' = since + 1
  /\ UNCHANGED <<pc, argVars, last, intvl, resp_time, back, jumps, histVars>>

\* Somebody sets the wall clock.
SetClock ==
  /\ pc # "done"
  /\ jumps < MaxJumps
  /\ jumps' = jumps + 1
  /\ \E d \in Jumps :
       /\ wall + d \in 0 .. Horizon
       /\ wall' = wall + d
       /\ back' = IF d < 0 THEN back - d ELSE back
  /\ UNCHANGED <<pc, argVars, last, intvl, resp_time, now, since, histVars>>

-----------------------------------------------------------------------------
Process ==
  \/ PreStamp \/ PreSend
  \/ ComputeWait \/ Block
  \/ TimerExpires \/ Readable \/ Stopped
  \/ SendRequest \/ AfterSend \/ Stamp
  \/ AfterRecv

Next == Process \/ Tick \/ SetClock

Spec == Init /\ [][Next]_vars

-----------------------------------------------------------------------------
(* Properties.                                                             *)

\* Every variable has its type; the wait is not negative, which pselect refuses.
TypeOK ==
  /\ pc \in Places
  /\ timeout \in Timeouts
  /\ start \in Clock /\ last \in Clock /\ intvl \in Intervals
  /\ resp_time \in Timespecs /\ resp_time.sec >= 0
  /\ now \in Nat /\ wall \in 0 .. Horizon /\ since \in Nat
  /\ begun \in Nat /\ stamped \in Nat /\ sent \in Nat
  /\ lead \in Int /\ drift \in Int
  /\ back \in Nat /\ jumps \in 0 .. MaxJumps

\* Overflows, carries and borrows never show in what the loop computes from any
\* operands.  They are not taken from the state: it is enough to look once.
Arithmetic == (pc = "start" /\ now = 0) => (Saturates /\ WaitExact /\ TimedOutExact)

\* Requests of the loop are an interval apart, less what the clock was set
\* forward since the earlier one: neither received packets, which make the
\* wait be computed anew, nor slow steps bring two requests closer.  Only the
\* first interval is measured from before its request, and may be shorter by
\* the time that request took.
Spacing ==
  pc = "send" =>
    now - sent >= Nanos(intvl) - drift - (IF sent > stamped THEN Latency ELSE 0)

Later(t, u) == IF t < u THEN u ELSE t

\* From when on a run may end: when the -w seconds have passed, which a clock
\* set back prolongs, and when the loop has begun.
Deadline == Later(begun, timeout * HZ) + back

\* The longest a run may last after that: an interval and five steps.
Lag == Later(Nanos(intvl), Latency) + 5 * Latency

\* A run is over soon after the -w seconds, however many packets keep
\* loop_event from sending: -w is looked at only after a packet was received
\* or sent.
TimeoutLag == (timeout # -1 /\ pc \notin {"start", "done"}) => now <= Deadline + Lag
=============================================================================
