---------------------------- MODULE MCPingPacket ----------------------------
(***************************************************************************)
(* PingPacket with two requests: without payload, with a pattern only,     *)
(* with the time only and with both; with the time only on a datagram      *)
(* socket; and with each kind of IP timestamps.                            *)
(***************************************************************************)
EXTENDS PingPacket

MCSettings ==
       [datalen : {0, 1, 2, 3}, stamps : {"none"}, raw : {TRUE}]
  \cup [datalen : {2}, stamps : {"none"}, raw : {FALSE}]
  \cup [datalen : {0}, stamps : {"tsonly", "tsaddr"}, raw : {TRUE}]
MCJunkTrips == {-1, 4}
=============================================================================
