----------------------------- MODULE PingPacket -----------------------------
(***************************************************************************)
(* The packets of a run: what send_echo builds in ping_buffer, what        *)
(* ping_recv finds there once the network has written over it, what it     *)
(* concludes and what print_echo makes of a reply.  When requests are sent *)
(* and how replies are counted is PingRun's.                               *)
(*                                                                         *)
(* A buffer or packet is a sequence of cells of 32 bits, a cell a record   *)
(* of its fields:                                                          *)
(*   [hl, dst, p]        an IP header, without its options                 *)
(*   [flag, len, ptr]    the head of an IP timestamp option                *)
(*   [slot]              a word of that option, 0 if nothing is recorded   *)
(*   [type, sum]         the first cell of an ICMP header                  *)
(*   [id, seq]           the second                                        *)
(*   [time], [usec]      a timeval in the payload                          *)
(*   [pat]               the pattern behind it                             *)
(*   [junk]              what malloc found                                 *)
(* A checksum is all the cells it was computed from: no two messages share *)
(* one.  Checksum.tla has its arithmetic.                                  *)
(***************************************************************************)
EXTENDS Integers, Sequences, FiniteSets

CONSTANTS
  Settings,   \* payloads, in cells, with the IP options and sockets tried with them
  OutOfMemory,\* whether xmalloc may fail
  JunkTrips,  \* round trips an indeterminate timeval may stand for
  ForgedLens, \* payloads, in cells, of the replies that answer no request
  MaxSent,    \* bound: requests sent
  MaxTotal,   \* bound: replies counted
  MaxNow      \* bound: the instants of the wall clock

IpLen   == 1   \* sizeof (struct ip)
HdrLen  == 2   \* ICMP_MINLEN and PING_HEADER_LEN
TimeLen == 2   \* sizeof (struct timeval)
MaxOpt  == 4   \* MAX_IPOPTLEN: the head and three words
TsLen   == 5   \* ICMP_TSLEN
Never   == MaxNow + 100  \* the initial tmin, 999999999 ms

ASSUME PacketAssumption ==
  /\ Settings \subseteq [datalen : Nat, stamps : {"none", "tsonly", "tsaddr"}, raw : BOOLEAN]
  /\ OutOfMemory \in BOOLEAN
  /\ JunkTrips \subseteq Int /\ ForgedLens \subseteq Nat
  /\ MaxSent \in Nat /\ MaxTotal \in Nat /\ MaxNow \in Nat \ {0}

VARIABLES
  pc,       \* "time", "pattern", "xmit": in send_echo; "loop": in pselect; "done"
  looping,  \* loop_event_pre is over
  datalen,  \* ping_datalen and args->data_length
  stamps,   \* the IP option set by ping_echo
  raw,      \* the socket is: ping_useless_ident is 0
  mem,      \* "none", "buffer" or "both": ping_buffer and ping_cktab allocated
  buffer,   \* ping_buffer
  wire,     \* history: the requests sent
  stamp,    \* history: when the timeval of the request being built was read
  spoiled,  \* history: a part of its payload could not be written
  now,      \* the wall clock
  total,    \* ping_num_recv + ping_num_rept
  tmin, tmax, tsum,  \* ping_stat
  short,    \* history: received forged replies without room for a time
  verdict   \* history: the packet just received, and what came of it

argVars   == <<looping, datalen, stamps, raw>>
reqVars   == <<wire, stamp, spoiled>>
statVars  == <<total, tmin, tmax, tsum>>
vars == <<pc, argVars, mem, buffer, reqVars, now, statVars, short, verdict>>

Dest  == "dest"
Ident == 1

\* _PING_BUFLEN.
BufLen == IpLen + MaxOpt + datalen + TsLen

\* What a packet was in truth (a copy of or an error about request k, its
\* option with rec words recorded), and what ping_recv and print_echo made of it.
Verdict(truth, k, rec, rc, event, trip, shown) ==
  [truth |-> truth, sent |-> k, recorded |-> rec,
   rc |-> rc, event |-> event, trip |-> trip, shown |-> shown]

Nothing == Verdict("none", 0, 0, 0, "ignored", {}, <<>>)

Init ==
  /\ pc = "time"
  /\ looping = FALSE
  /\ \E s \in Settings : datalen = s.datalen /\ stamps = s.stamps /\ raw = s.raw
  /\ mem = "none"
  /\ buffer = [i \in 1 .. BufLen |-> [junk |-> 0]]
  /\ wire = <<>>
  /\ stamp = 0
  /\ spoiled = FALSE
  /\ now = 1
  /\ total = 0
  /\ tmin = Never /\ tmax = 0 /\ tsum = 0
  /\ short = 0
  /\ verdict = Nothing

-----------------------------------------------------------------------------
(* send_echo.                                                              *)

\* PING_TIMING.
Timing(len) == len >= TimeLen

\* ping_setbuf.  Mutant: the table is allocated first.
SetbufOK == mem' = "both"
SetbufFailsMutant ==
  /\ OutOfMemory /\ mem # "both"
  /\ mem' \in {mem, "table"}
SetbufFails ==
  /\ OutOfMemory /\ mem # "both"
  /\ mem' \in {mem, "buffer"}

\* The cells of buf from offset off on overwritten by s.
Write(buf, off, s) ==
  [i \in DOMAIN buf |-> IF i - off \in DOMAIN s THEN s[i - off] ELSE buf[i]]

\* ping_set_data: nothing is written past the payload.
SetData(data, off) ==
  \/ /\ SetbufOK
     /\ buffer' = IF datalen < off + Len(data) THEN buffer ELSE Write(buffer, HdrLen + off, data)
     /\ UNCHANGED spoiled
  \/ /\ SetbufFails
     /\ spoiled' = TRUE
     /\ UNCHANGED buffer

Timeval(t) == <<[time |-> t], [usec |-> 0]>>

\* The present time, if the payload has room for it.
SetTime ==
  /\ pc = "time"
  /\ pc' = "pattern"
  /\ stamp' = now
  /\ IF Timing(datalen)
     THEN SetData(Timeval(now), 0)
     ELSE UNCHANGED <<mem, buffer, spoiled>>
  /\ UNCHANGED <<argVars, wire, now, statVars, short>>
  /\ verdict' = Nothing

\* args->data_buffer: the pattern, as long as the payload; NULL without one.
DataBuffer == [i \in 1 .. datalen |-> [pat |-> i]]

\* Behind the time, the pattern from its beginning.
SetPattern ==
  /\ pc = "pattern"
  /\ pc' = "xmit"
  /\ LET off == IF Timing(datalen) THEN TimeLen ELSE 0
         len == IF datalen > off THEN datalen - off ELSE datalen
     IN IF datalen > 0
        THEN SetData(SubSeq(DataBuffer, 1, len), off)
        ELSE UNCHANGED <<mem, buffer, spoiled>>
  /\ UNCHANGED <<argVars, wire, stamp, now, statVars, short>>
  /\ verdict' = Nothing

\* icmp_cksum of a message, whose checksum is 0.
Blank(msg) == [msg EXCEPT ![1].sum = <<>>]
Cksum(msg) == Blank(msg)

\* icmp_generic_encode, on the first cells of buf.  Mutant: the checksum field
\* still holds what the last packet left there.
EncodeMutant(buf, size, type, seq) ==
  LET old == IF "sum" \in DOMAIN buf[1] THEN buf[1].sum ELSE <<>>
      msg == Write(SubSeq(buf, 1, size), 0, <<[type |-> type, sum |-> old], [id |-> Ident, seq |-> seq]>>)
  IN  Write(buf, 0, [msg EXCEPT ![1].sum = msg])
Encode(buf, size, type, seq) ==
  LET msg == Write(SubSeq(buf, 1, size), 0, <<[type |-> type, sum |-> <<>>], [id |-> Ident, seq |-> seq]>>)
  IN  Write(buf, 0, [msg EXCEPT ![1].sum = Cksum(msg)])

\* What becomes of a run whose request was sent or not: loop_event_pre goes on
\* to its next request or is over, loop_event ends on an error.
GoOn(sent) ==
  IF looping
  THEN pc' = (IF sent THEN "loop" ELSE "done") /\ UNCHANGED looping
  ELSE pc' \in {"time", "loop"} /\ looping' = (pc' = "loop")

\* ping_xmit.
PingXmit ==
  /\ pc = "xmit"
  /\ Len(wire) < MaxSent
  /\ SetbufOK
  /\ buffer' = Encode(buffer, HdrLen + datalen, 8, Len(wire))
  /\ wire' = Append(wire, [msg |-> SubSeq(buffer', 1, HdrLen + datalen), at |-> stamp,
                           spoiled |-> spoiled])
  /\ GoOn(TRUE)
  /\ spoiled' = FALSE
  /\ UNCHANGED <<datalen, stamps, raw, stamp, now, statVars, short>>
  /\ verdict' = Nothing

\* sendto fails after the encoding.
SendtoFails ==
  /\ pc = "xmit"
  /\ SetbufOK
  /\ buffer' = Encode(buffer, HdrLen + datalen, 8, Len(wire))
  /\ GoOn(FALSE)
  /\ spoiled' = FALSE
  /\ UNCHANGED <<datalen, stamps, raw, wire, stamp, now, statVars, short>>
  /\ verdict' = Nothing

XmitFails ==
  /\ pc = "xmit"
  /\ SetbufFails
  /\ GoOn(FALSE)
  /\ spoiled' = FALSE
  /\ UNCHANGED <<datalen, stamps, raw, buffer, wire, stamp, now, statVars, short>>
  /\ verdict' = Nothing

\* pselect returned 0.
TimerExpires ==
  /\ pc = "loop"
  /\ Len(wire) < MaxSent
  /\ pc' = "time"
  /\ UNCHANGED <<argVars, mem, buffer, reqVars, now, statVars, short>>
  /\ verdict' = Nothing

-----------------------------------------------------------------------------
(* The network.                                                            *)

\* The words of the IP timestamp option ping_echo sets (rspace): in pairs of
\* address and timestamp, one word less fits.
Slots == IF stamps = "tsaddr" THEN 2 ELSE 3

\* The option after rec of its words have been recorded, on the way here.
Option(rec) ==
  IF stamps = "none" THEN <<>>
  ELSE <<[flag |-> IF stamps = "tsaddr" THEN 1 ELSE 0, len |-> 4 + 4 * Slots, ptr |-> 5 + 4 * rec]>>
       \o [k \in 1 .. Slots |-> [slot |-> IF k <= rec THEN k ELSE 0]]

Records ==
  CASE stamps = "none" -> {0}
    [] stamps = "tsonly" -> 0 .. Slots
    [] stamps = "tsaddr" -> {0, 2}

IpHeader(opt, dst, p) == <<[hl |-> IpLen + Len(opt), dst |-> dst, p |-> p]>> \o opt

\* What a socket receives of a message that arrives with the option opt.
Received(opt, msg) == IF raw THEN IpHeader(opt, "here", "icmp") \o msg ELSE msg

Summed(msg) == [msg EXCEPT ![1].sum = Cksum(msg)]

\* The answer of a host to a request, which went out with the identity of the
\* kernel if the socket is not raw.
Reply(msg) == Summed([msg EXCEPT ![1].type = 0, ![2].id = IF raw THEN @ ELSE Ident + 1])

\* A cell changed on the way.
Damaged(cell) ==
  CASE "seq" \in DOMAIN cell -> [cell EXCEPT !.seq = @ + 1]
    [] "pat" \in DOMAIN cell -> [cell EXCEPT !.pat = 0]
    [] "time" \in DOMAIN cell -> [cell EXCEPT !.time = @ - 1]
    [] OTHER -> [junk |-> 1]

\* An ICMP error that quotes an IP header and the 64 bits behind it.
Error(opt, dst, p, msg) ==
  Summed(<<[type |-> 3, sum |-> <<>>], [id |-> 0, seq |-> 0]>> \o IpHeader(opt, dst, p)
         \o SubSeq(msg, 1, HdrLen))

\* An echo reply that answers no request, with the identifier of this socket.
Forged(len) ==
  Summed(<<[type |-> 0, sum |-> <<>>], [id |-> IF raw THEN Ident ELSE Ident + 1, seq |-> 0]>>
         \o [i \in 1 .. len |-> [junk |-> 1]])

\* Messages about somebody else's packets.
Alien(id) == <<[type |-> 8, sum |-> <<>>], [id |-> id, seq |-> 0]>>
Foreign ==
  {Summed([Alien(Ident + 1) EXCEPT ![1].type = 0]),     \* a reply to another process
   Summed(Alien(Ident)),                                \* an echo request
   Error(<<>>, Dest, "icmp", Alien(Ident + 1)),         \* errors: of another process,
   Error(<<>>, "elsewhere", "icmp", Alien(Ident)),      \* about another host,
   Error(<<>>, Dest, "udp", Alien(Ident))}              \* or another protocol

-----------------------------------------------------------------------------
(* print_ip_opt.                                                           *)

\* What is printed for the slot at octet j of an option: an address or a time.
Kind(flag, j) == IF flag # 0 /\ (j \div 4) % 2 = 1 THEN "addr" ELSE "time"

\* Where the walk over the slots stops.  Mutant: at the end of the option.
WalkEndMutant(opt) == opt.len
WalkEnd(opt) == IF opt.ptr > opt.len THEN opt.len ELSE opt.ptr

\* The slots printed of an IP header, whose first cell is at index 1, without -f.
Shown(header) ==
  IF Len(header) = IpLen THEN <<>>
  ELSE LET opt == header[IpLen + 1]
           from[j \in {5 + 4 * k : k \in 0 .. MaxOpt + 1}] ==
             <<<<Kind(opt.flag, j), header[IpLen + 1 + (j - 1) \div 4].slot>>>>
               \o (IF j + 4 >= WalkEnd(opt) THEN <<>> ELSE from[j + 4])
       IN  IF opt.len <= 8 THEN <<>> ELSE from[5]

-----------------------------------------------------------------------------
(* ping_recv and the callback.                                             *)

\* What recvfrom puts into the buffer.  Mutant: no room for IP options.
RecvLimitMutant == IpLen + datalen + TsLen
RecvLimit == BufLen

\* ip->ip_hl.  Without an IP header this is the low half of the ICMP type.
Hl(cell) == IF "hl" \in DOMAIN cell THEN cell.hl ELSE cell.type % 16

\* The type of an ICMP header, or the octet in its place.
TypeOf(cell) == IF "type" \in DOMAIN cell THEN cell.type ELSE 68

\* my_echo_reply.  Mutant: the protocol is not looked at.
MyEchoReplyMutant(icmp) ==
  /\ icmp[3].dst = Dest
  /\ TypeOf(icmp[3 + IpLen]) = 8
  /\ icmp[4 + IpLen].id = Ident \/ ~raw
MyEchoReply(icmp) ==
  /\ icmp[3].dst = Dest
  /\ icmp[3].p = "icmp"
  /\ TypeOf(icmp[3 + IpLen]) = 8
  /\ icmp[4 + IpLen].id = Ident \/ ~raw

\* The payload of a reply of n cells behind an IP header of hlen.  Mutant: the
\* ICMP header is taken for a part of it.
PayloadMutant(n, hlen) == n - hlen
Payload(n, hlen) == n - hlen - HdrLen

\* The round trip measured from the first cell of a payload.
TripsOf(cell) == IF "time" \in DOMAIN cell THEN {now - cell.time} ELSE JunkTrips

\* print_echo takes a measured trip into the statistics.  Mutant: a trip that is
\* the shortest is not compared with the longest.
TimedMutant(trip) ==
  /\ tsum' = tsum + trip
  /\ IF trip < tmin THEN tmin' = trip /\ UNCHANGED tmax
     ELSE tmax' = (IF trip > tmax THEN trip ELSE tmax) /\ UNCHANGED tmin
Timed(trip) ==
  /\ tsum' = tsum + trip
  /\ tmin' = IF trip < tmin THEN trip ELSE tmin
  /\ tmax' = IF trip > tmax THEN trip ELSE tmax

\* ICMP_ECHOREPLY.
EchoReply(n, hlen, rc, buf, truth, k, rec) ==
  LET icmp == SubSeq(buf, hlen + 1, n)
      shown == IF raw THEN Shown(SubSeq(buf, 1, hlen)) ELSE <<>>
  IN IF icmp[2].id # Ident /\ raw
     THEN verdict' = Verdict(truth, k, rec, rc, "ignored", {}, <<>>) /\ UNCHANGED statVars
     ELSE /\ total' = total + 1
          /\ IF Timing(Payload(n, hlen))
             THEN \E trip \in TripsOf(buf[hlen + HdrLen + 1]) :
                    Timed(trip) /\ verdict' = Verdict(truth, k, rec, rc, "counted", {trip}, shown)
             ELSE /\ verdict' = Verdict(truth, k, rec, rc, "counted", {}, shown)
                  /\ UNCHANGED <<tmin, tmax, tsum>>

\* ping_recv on packet pkt.
PingRecv(pkt, truth, k, rec) ==
  LET n    == IF Len(pkt) < RecvLimit THEN Len(pkt) ELSE RecvLimit
      buf  == Write(buffer, 0, SubSeq(pkt, 1, n))
      hlen == Hl(buf[1])
      icmp == SubSeq(buf, hlen + 1, n)
      rc   == IF icmp[1].sum = Cksum(icmp) THEN 0 ELSE 1
  IN IF n < hlen + HdrLen
     THEN /\ buffer' = buf
          /\ verdict' = Verdict(truth, k, rec, 0, "ignored", {}, <<>>)
          /\ UNCHANGED statVars
     ELSE /\ buffer' = Write(buf, hlen, <<[icmp[1] EXCEPT !.sum = Cksum(icmp)]>>)
          /\ IF icmp[1].type = 0
             THEN EchoReply(n, hlen, rc, buf, truth, k, rec)
             ELSE /\ verdict' = Verdict(truth, k, rec, rc,
                       IF icmp[1].type # 8 /\ MyEchoReply(icmp) THEN "error" ELSE "ignored",
                       {}, <<>>)
                  /\ UNCHANGED statVars

\* pselect returned 1.  Buffer and table are there (PingRun has the rest).
Receiving == pc = "loop" /\ mem = "both" /\ total < MaxTotal
Unchanged == UNCHANGED <<pc, argVars, mem, reqVars, now>>
Genuine == Unchanged /\ UNCHANGED short

ReceiveReply ==
  /\ Receiving
  /\ \E k \in DOMAIN wire, rec \in Records :
       PingRecv(Received(Option(rec), Reply(wire[k].msg)), "reply", k, rec)
  /\ Genuine

ReceiveDamaged ==
  /\ Receiving
  /\ \E k \in DOMAIN wire : \E i \in 2 .. HdrLen + datalen :
       PingRecv(Received(Option(0), [Reply(wire[k].msg) EXCEPT ![i] = Damaged(@)]), "damaged", k, 0)
  /\ Genuine

\* Whoever sends a reply with the identifier chooses its length: one without
\* room for the time is counted all the same, and not timed.
ReceiveForged ==
  /\ Receiving
  /\ \E len \in ForgedLens :
       /\ PingRecv(Received(<<>>, Forged(len)), "forged", 0, 0)
       /\ short' = IF Timing(len) THEN short ELSE short + 1
  /\ Unchanged

\* Only a raw socket receives anything but replies with its own identifier.
ReceiveError ==
  /\ Receiving
  /\ raw
  /\ \E k \in DOMAIN wire, rec \in Records :
       PingRecv(Received(<<>>, Error(Option(rec), Dest, "icmp", wire[k].msg)), "error", k, rec)
  /\ Genuine

ReceiveForeign ==
  /\ Receiving
  /\ raw
  /\ \E msg \in Foreign : PingRecv(Received(<<>>, msg), "foreign", 0, 0)
  /\ Genuine

\* Time passes, or the wall clock is set back, before it is read again.
Clock ==
  /\ pc \in {"time", "loop"}
  /\ now' \in {now - 1, now + 1} /\ now' \in 1 .. MaxNow
  /\ UNCHANGED <<pc, argVars, mem, buffer, reqVars, statVars, short>>
  /\ verdict' = Nothing

-----------------------------------------------------------------------------
Send == SetTime \/ SetPattern \/ PingXmit \/ SendtoFails \/ XmitFails \/ TimerExpires

Receive == ReceiveReply \/ ReceiveDamaged \/ ReceiveForged \/ ReceiveError \/ ReceiveForeign

Next == Send \/ Receive \/ Clock

Spec == Init /\ [][Next]_vars
-----------------------------------------------------------------------------
(* Properties.                                                             *)

\* The buffer has room for what is read into it, and the table never exists
\* without the buffer: ping_recv, which writes without ping_setbuf, needs both.
TypeOK ==
  /\ pc \in {"time", "pattern", "xmit", "loop", "done"}
  /\ looping \in BOOLEAN /\ spoiled \in BOOLEAN
  /\ [datalen |-> datalen, stamps |-> stamps, raw |-> raw] \in Settings
  /\ mem \in {"none", "buffer", "both"}
  /\ DOMAIN buffer = 1 .. BufLen
  /\ Len(wire) <= MaxSent /\ total \in 0 .. MaxTotal /\ short \in Nat
  /\ now \in 1 .. MaxNow /\ stamp \in 0 .. MaxNow
  /\ verdict.event \in {"counted", "error", "ignored"}

\* What a request should be.
Request(k) ==
  LET time == IF Timing(datalen) THEN Timeval(wire[k].at) ELSE <<>>
  IN  Summed(<<[type |-> 8, sum |-> <<>>], [id |-> Ident, seq |-> k - 1]>> \o time
             \o [i \in 1 .. datalen - Len(time) |-> [pat |-> i]])

\* Whatever was received into ping_buffer, every request has the checksum of
\* its own cells, the time it was built at and the pattern from its start,
\* unless there was no memory for them (run_loop.c:154).
RequestIntact == \A k \in DOMAIN wire : ~wire[k].spoiled => wire[k].msg = Request(k)

\* A reply to a request is counted without a checksum warning, with any number
\* of options: none is cut off by the limit of recvfrom.  One that was changed
\* on the way is counted with a warning (run_loop.c:159).
ReplyJudged ==
  /\ verdict.truth = "reply" => verdict.event = "counted" /\ verdict.rc = 0
  /\ verdict.truth = "damaged" => verdict.event = "counted" /\ verdict.rc = 1

\* The trip of a reply is the time since its own request was built, whatever
\* was sent and received in between, and there is none if the payload has no
\* room for the time (echo_display.c:354).
TripTrue ==
  verdict.truth = "reply" /\ ~wire[verdict.sent].spoiled
    => verdict.trip = IF Timing(datalen) THEN {now - wire[verdict.sent].at} ELSE {}

\* Only echo replies with the identifier of this process are counted, all that
\* is looked at (run_loop.c:182); only an error about one of its requests is
\* reported, and it is reported if the request had no option (run_loop.c:122).
OthersIgnored ==
  /\ verdict.event = "counted" => verdict.truth \in {"reply", "damaged", "forged"}
  /\ verdict.event = "error" => verdict.truth = "error"
  /\ verdict.truth = "error" /\ stamps = "none" => verdict.event = "error"

\* An error about a request is reported, behind whatever options the quoted
\* header has ("options and then 64 bits of data", ft_ping_data.h:143).
ErrorsReported == verdict.truth = "error" => verdict.event = "error"

\* The average of echo_finish, the sum of the trips timed by all replies counted
\* (echo.c:102), never exceeds the maximum. Forged replies too short for a time
\* can pull it below the minimum, and nothing else: any other reply counted was
\* timed, though counting and timing are decided apart, by the identifier and
\* by the length received, and printing by data_length (echo.c:99).
AverageBounded ==
  Timing(datalen) => tmin * (total - short) <= tsum /\ tsum <= tmax * total

\* Of an IP timestamp option exactly the recorded words are shown, in their
\* order and each as what it is; if there is none, one empty word
\* (echo_display.c:258).
StampsShown ==
  (verdict.truth = "reply" /\ raw /\ stamps # "none") =>
     LET word(k) == IF stamps = "tsaddr" /\ k % 2 = 1 THEN "addr" ELSE "time"
     IN  verdict.shown = IF verdict.recorded = 0 THEN <<<<word(1), 0>>>>
                         ELSE [k \in 1 .. verdict.recorded |-> <<word(k), k>>]
=============================================================================
