------------------------------ MODULE MCPingRun ------------------------------
(***************************************************************************)
(* Values for the constants of PingRun.                                    *)
(***************************************************************************)
EXTENDS PingRun

NoFaults  == {}
AllFaults == FaultKinds
Nobody    == {}   \* nobody forges replies
Forger    == {1}  \* somebody forges replies with sequence number 1
=============================================================================
