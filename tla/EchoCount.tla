------------------------------ MODULE EchoCount ------------------------------
(***************************************************************************)
(* What the counters of a ping run promise, without saying how.            *)
(*                                                                         *)
(* The statistics line of ping_finish (ft_ping_echo.c) reports packets     *)
(* transmitted, packets received and duplicates.  The meaning it suggests  *)
(* is the one below: every request has a number of its own, the first      *)
(* reply to a request is a packet received, any further reply to the same  *)
(* request is a duplicate.  This module remembers exactly which requests   *)
(* were answered; the program remembers 1024 bits (see PingRun).           *)
(***************************************************************************)
EXTENDS Integers, FiniteSets

VARIABLES
  xmit,      \* number of requests transmitted; they are numbered 0 .. xmit - 1
  answered,  \* the requests that have had a first reply
  recv,      \* packets received
  rept       \* duplicates

countVars == <<xmit, answered, recv, rept>>

Init ==
  /\ xmit = 0
  /\ answered = {}
  /\ recv = 0
  /\ rept = 0

\* A request goes out.
Transmit ==
  /\ xmit' = xmit + 1
  /\ UNCHANGED <<answered, recv, rept>>

\* The first reply to request q.
FirstReply(q) ==
  /\ q \notin answered
  /\ answered' = answered \cup {q}
  /\ recv' = recv + 1
  /\ UNCHANGED <<xmit, rept>>

\* One more reply to request q.
Duplicate(q) ==
  /\ q \in answered
  /\ rept' = rept + 1
  /\ UNCHANGED <<xmit, answered, recv>>

\* The run of the next host starts from nothing.
NewRun ==
  /\ xmit' = 0
  /\ answered' = {}
  /\ recv' = 0
  /\ rept' = 0

Next ==
  \/ Transmit
  \/ \E q \in 0 .. xmit - 1 : FirstReply(q) \/ Duplicate(q)
  \/ NewRun

Spec == Init /\ [][Next]_countVars

=============================================================================
