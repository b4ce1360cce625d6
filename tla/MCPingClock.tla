---------------------------- MODULE MCPingClock ----------------------------
(***************************************************************************)
(* Values for the constants of PingClock.                                  *)
(***************************************************************************)
EXTENDS PingClock

TwoIntervals == {[sec |-> 0, nsec |-> 1], [sec |-> 1, nsec |-> 0]}  \* flood and default
SomeTimeouts == {-1, 1}
BackAndForth == {-2, 3}
=============================================================================
