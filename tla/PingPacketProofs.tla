-------------------------- MODULE PingPacketProofs --------------------------
(***************************************************************************)
(* Proofs about PingPacket, for payloads of any length, any number of      *)
(* requests and replies, and any setting of the clock.                     *)
(***************************************************************************)
EXTENDS PingPacket, TLAPS

Size == HdrLen + datalen

-----------------------------------------------------------------------------
(* Messages and their checksums.                                           *)

WithSum(m, c) == [m EXCEPT ![1].sum = c]
WithCells(m, t, c) ==
  [i \in DOMAIN m |-> IF i = 1 THEN [type |-> t, sum |-> c] ELSE m[i]]

\* Setting the checksum field changes nothing else.
LEMMA SumField ==
  ASSUME NEW m, 1 \in DOMAIN m, NEW t, NEW s, m[1] = [type |-> t, sum |-> s], NEW c
  PROVE  WithSum(m, c) = WithCells(m, t, c)
<1>1. [m[1] EXCEPT !.sum = c] = [type |-> t, sum |-> c]
  OBVIOUS
<1> QED
  BY <1>1 DEF WithSum, WithCells

\* Summed changes the checksum only, and it is the checksum of the result.
LEMMA SummedFacts ==
  ASSUME NEW n \in Nat, n >= 2, NEW m, DOMAIN m = 1 .. n, NEW t, NEW s,
         m[1] = [type |-> t, sum |-> s]
  PROVE  /\ Summed(m) = [i \in 1 .. n |-> IF i = 1 THEN [type |-> t, sum |-> Cksum(m)] ELSE m[i]]
         /\ Cksum(m) = [i \in 1 .. n |-> IF i = 1 THEN [type |-> t, sum |-> <<>>] ELSE m[i]]
         /\ Cksum(Summed(m)) = Cksum(m)
<1> DEFINE r == Summed(m)
<1>0. 1 \in 1 .. n
  OBVIOUS
<1>1. r = WithCells(m, t, Cksum(m))
  <2>1. r = WithSum(m, Cksum(m))
    BY DEF Summed, WithSum
  <2> QED
    BY <1>0, <2>1, SumField, Zenon
<1>2. Cksum(m) = WithCells(m, t, <<>>)
  <2>1. Cksum(m) = WithSum(m, <<>>)
    BY DEF Cksum, Blank, WithSum
  <2> QED
    BY <1>0, <2>1, SumField, Zenon
<1>3. Cksum(r) = Cksum(m)
  <2>1. DOMAIN r = 1 .. n /\ r[1] = [type |-> t, sum |-> Cksum(m)] /\ \A i \in 2 .. n : r[i] = m[i]
    BY <1>1 DEF WithCells
  <2> HIDE DEF r
  <2>2. Cksum(r) = WithSum(r, <<>>)
    BY DEF Cksum, Blank, WithSum
  <2>3. Cksum(r) = WithCells(r, t, <<>>)
    BY <1>0, <2>1, <2>2, SumField, Zenon
  <2>4. WithCells(r, t, <<>>) = WithCells(m, t, <<>>)
    BY <2>1 DEF WithCells
  <2> QED
    BY <1>2, <2>3, <2>4
<1> QED
  BY <1>1, <1>2, <1>3 DEF WithCells

\* Two messages that differ behind their first cell have different checksums.
LEMMA CksumTells ==
  ASSUME NEW n \in Nat, n >= 2, NEW m, DOMAIN m = 1 .. n, NEW r, DOMAIN r = 1 .. n,
         NEW t, NEW s, m[1] = [type |-> t, sum |-> s], r[1] = m[1],
         NEW i \in 2 .. n, m[i] # r[i]
  PROVE  Cksum(m) # Cksum(r)
<1>1. Cksum(m)[i] = m[i]
  BY SummedFacts
<1>2. Cksum(r)[i] = r[i]
  BY SummedFacts
<1> QED
  BY <1>1, <1>2

LEMMA SubSeqFrom ==
  ASSUME NEW s, NEW m \in Nat, NEW n \in Nat
  PROVE  SubSeq(s, m, n) = [i \in 1 .. n - m + 1 |-> s[i + m - 1]]
OBVIOUS

LEMMA Beginning ==
  ASSUME NEW s, NEW n \in Nat
  PROVE  SubSeq(s, 1, n) = [i \in 1 .. n |-> s[i]]
<1>1. SubSeq(s, 1, n) = [i \in 1 .. n - 1 + 1 |-> s[i + 1 - 1]]
  <2>1. 1 \in Nat
    OBVIOUS
  <2> QED
    BY <2>1, SubSeqFrom
<1>2. n - 1 + 1 = n /\ \A i \in 1 .. n : i + 1 - 1 = i
  OBVIOUS
<1> QED
  BY <1>1, <1>2

LEMMA LenOf ==
  ASSUME NEW n \in Nat, NEW s, DOMAIN s = 1 .. n
  PROVE  Len(s) = n
OBVIOUS

\* The first cells of buf behind a header.
Headed(buf, size, type, seq) ==
  [i \in 1 .. size |->
     CASE i = 1 -> [type |-> type, sum |-> <<>>]
       [] i = 2 -> [id |-> Ident, seq |-> seq]
       [] OTHER -> buf[i]]

\* What Encode leaves in the buffer: the header with its checksum, and what was
\* there.
LEMMA EncodeFacts ==
  ASSUME NEW buf, NEW n \in Nat, NEW size \in Nat, 2 <= size, size <= n, DOMAIN buf = 1 .. n,
         NEW type, NEW seq
  PROVE  SubSeq(Encode(buf, size, type, seq), 1, size) = Summed(Headed(buf, size, type, seq))
<1> DEFINE head == <<[type |-> type, sum |-> <<>>], [id |-> Ident, seq |-> seq]>>
           old == Write(SubSeq(buf, 1, size), 0, head)
           msg == Headed(buf, size, type, seq)
<1>1. old = msg
  <2>1. SubSeq(buf, 1, size) = [i \in 1 .. size |-> buf[i]]
    OBVIOUS
  <2>2. DOMAIN head = 1 .. 2 /\ head[1] = [type |-> type, sum |-> <<>>] /\ head[2] = [id |-> Ident, seq |-> seq]
    OBVIOUS
  <2> HIDE DEF head
  <2>3. old = [i \in 1 .. size |-> IF i - 0 \in 1 .. 2 THEN head[i - 0] ELSE buf[i]]
    BY <2>1, <2>2 DEF Write
  <2>4. \A i \in 1 .. size : old[i] = msg[i]
    BY <2>2, <2>3 DEF Headed
  <2> QED
    BY <2>3, <2>4 DEF Headed
<1>2. Encode(buf, size, type, seq) = Write(buf, 0, Summed(old))
  BY DEF Encode, Summed
<1>3. DOMAIN msg = 1 .. size /\ msg[1] = [type |-> type, sum |-> <<>>]
  BY DEF Headed
<1> HIDE DEF old, msg
<1>4. Encode(buf, size, type, seq) = Write(buf, 0, Summed(msg))
  BY <1>1, <1>2
<1>5. DOMAIN Summed(msg) = 1 .. size /\ Summed(msg) = [i \in 1 .. size |-> Summed(msg)[i]]
  BY <1>3, SummedFacts
<1>6. Encode(buf, size, type, seq) =
        [i \in 1 .. n |-> IF i - 0 \in 1 .. size THEN Summed(msg)[i - 0] ELSE buf[i]]
  BY <1>4, <1>5 DEF Write
<1>7. SubSeq(Encode(buf, size, type, seq), 1, size) = Summed(msg)
  BY <1>5, <1>6
<1> QED
  BY <1>7 DEF msg

LEMMA EncodeDomain ==
  ASSUME NEW buf, NEW size, NEW type, NEW seq
  PROVE  DOMAIN Encode(buf, size, type, seq) = DOMAIN buf
BY DEF Encode, Write

-----------------------------------------------------------------------------
(* What ping_recv does with any packet.                                    *)

LEMMA Lengths ==
  ASSUME TypeOK
  PROVE  /\ datalen \in Nat /\ raw \in BOOLEAN /\ stamps \in {"none", "tsonly", "tsaddr"}
         /\ Size \in Nat /\ BufLen \in Nat /\ Size = 2 + datalen /\ BufLen = 10 + datalen
BY PacketAssumption DEF TypeOK, Size, BufLen, IpLen, MaxOpt, TsLen, HdrLen

\* A verdict says what the packet was, and nothing that is not an echo reply to
\* this process is counted.
LEMMA EchoReplyFrame ==
  ASSUME NEW n, NEW hlen, NEW rc, NEW buf, NEW truth, NEW k, NEW rec,
         total \in 0 .. MaxTotal, total < MaxTotal,
         EchoReply(n, hlen, rc, buf, truth, k, rec)
  PROVE  /\ verdict'.truth = truth /\ verdict'.sent = k /\ verdict'.rc = rc
         /\ verdict'.event \in {"counted", "ignored"}
         /\ total' \in 0 .. MaxTotal
<1>1. \/ \E event \in {"counted", "ignored"} : \E trip, shown :
           /\ verdict' = Verdict(truth, k, rec, rc, event, trip, shown)
           /\ total' \in {total, total + 1}
  BY DEF EchoReply, statVars
<1>2. MaxTotal \in Nat
  BY PacketAssumption
<1> QED
  BY <1>1, <1>2 DEF Verdict

LEMMA PingRecvFrame ==
  ASSUME NEW pkt, NEW truth, NEW k, NEW rec, total \in 0 .. MaxTotal, total < MaxTotal,
         PingRecv(pkt, truth, k, rec)
  PROVE  /\ DOMAIN buffer' = DOMAIN buffer
         /\ verdict'.truth = truth /\ verdict'.sent = k
         /\ verdict'.event \in {"counted", "error", "ignored"}
         /\ total' \in 0 .. MaxTotal
<1> DEFINE n == IF Len(pkt) < RecvLimit THEN Len(pkt) ELSE RecvLimit
           buf == Write(buffer, 0, SubSeq(pkt, 1, n))
           hlen == Hl(buf[1])
           icmp == SubSeq(buf, hlen + 1, n)
           rc == IF icmp[1].sum = Cksum(icmp) THEN 0 ELSE 1
           left == Write(buf, hlen, <<[icmp[1] EXCEPT !.sum = Cksum(icmp)]>>)
<1>1. DOMAIN buf = DOMAIN buffer
  BY DEF Write
<1>2. DOMAIN left = DOMAIN buffer
  BY <1>1 DEF Write
<1>3. IF n < hlen + HdrLen
      THEN /\ buffer' = buf
           /\ verdict' = Verdict(truth, k, rec, 0, "ignored", {}, <<>>)
           /\ UNCHANGED statVars
      ELSE /\ buffer' = left
           /\ IF icmp[1].type = 0
              THEN EchoReply(n, hlen, rc, buf, truth, k, rec)
              ELSE /\ verdict' = Verdict(truth, k, rec, rc,
                        IF icmp[1].type # 8 /\ MyEchoReply(icmp) THEN "error" ELSE "ignored",
                        {}, <<>>)
                   /\ UNCHANGED statVars
  BY DEF PingRecv
<1> HIDE DEF n, buf, hlen, icmp, rc, left
<1>4. \/ EchoReply(n, hlen, rc, buf, truth, k, rec)
      \/ \E r : \E event \in {"error", "ignored"} :
           verdict' = Verdict(truth, k, rec, r, event, {}, <<>>) /\ UNCHANGED statVars
  <2> DEFINE ev == IF icmp[1].type # 8 /\ MyEchoReply(icmp) THEN "error" ELSE "ignored"
  <2>1. ev \in {"error", "ignored"}
    OBVIOUS
  <2>2. \/ EchoReply(n, hlen, rc, buf, truth, k, rec)
        \/ verdict' = Verdict(truth, k, rec, 0, "ignored", {}, <<>>) /\ UNCHANGED statVars
        \/ verdict' = Verdict(truth, k, rec, rc, ev, {}, <<>>) /\ UNCHANGED statVars
    BY <1>3, Zenon
  <2> HIDE DEF ev
  <2> QED
    BY <2>1, <2>2
<1>5. CASE EchoReply(n, hlen, rc, buf, truth, k, rec)
  <2>1. buffer' = buf \/ buffer' = left
    BY <1>3
  <2> QED
    BY <1>1, <1>2, <2>1, <1>5, EchoReplyFrame
<1>6. CASE \E r : \E event \in {"error", "ignored"} :
             verdict' = Verdict(truth, k, rec, r, event, {}, <<>>) /\ UNCHANGED statVars
  <2>1. buffer' = buf \/ buffer' = left
    BY <1>3
  <2> QED
    BY <1>1, <1>2, <2>1, <1>6 DEF Verdict, statVars
<1> QED
  BY <1>4, <1>5, <1>6

-----------------------------------------------------------------------------
(* Types.                                                                  *)

\* The requests are numbered, which TypeOK leaves open.
WireType == Len(wire) \in Nat

\* ping_set_data.
LEMMA SetDataFrame ==
  ASSUME NEW data, NEW off, SetData(data, off), TypeOK
  PROVE  /\ DOMAIN buffer' = 1 .. BufLen
         /\ mem' \in {"none", "buffer", "both"}
         /\ spoiled' \in BOOLEAN
BY DEF SetData, SetbufOK, SetbufFails, Write, TypeOK

\* What a step has to keep besides the settings.
LEMMA TypeFrame ==
  ASSUME TypeOK, UNCHANGED <<datalen, stamps, raw>>,
         pc' \in {"time", "pattern", "xmit", "loop", "done"}, looping' \in BOOLEAN,
         spoiled' \in BOOLEAN, mem' \in {"none", "buffer", "both"}, DOMAIN buffer' = 1 .. BufLen,
         Len(wire') \in Nat, Len(wire') <= MaxSent, total' \in 0 .. MaxTotal,
         now' \in 1 .. MaxNow, stamp' \in 0 .. MaxNow, short' \in Nat,
         verdict'.event \in {"counted", "error", "ignored"}
  PROVE  TypeOK' /\ WireType'
BY DEF TypeOK, WireType, BufLen

LEMMA Ignored == Nothing.event = "ignored" /\ Nothing.truth = "none"
BY DEF Nothing, Verdict

\* Every variable keeps its type, and the buffer its size.
LEMMA TypeStep ==
  ASSUME TypeOK, WireType, [Next]_vars
  PROVE  TypeOK' /\ WireType'
<1> USE DEF argVars, reqVars, statVars
<1>0. /\ pc \in {"time", "pattern", "xmit", "loop", "done"} /\ looping \in BOOLEAN
      /\ spoiled \in BOOLEAN /\ mem \in {"none", "buffer", "both"} /\ DOMAIN buffer = 1 .. BufLen
      /\ Len(wire) \in Nat /\ Len(wire) <= MaxSent /\ total \in 0 .. MaxTotal
      /\ now \in 1 .. MaxNow /\ stamp \in 0 .. MaxNow /\ short \in Nat
      /\ verdict.event \in {"counted", "error", "ignored"}
      /\ 1 .. MaxNow \subseteq 0 .. MaxNow
  BY PacketAssumption DEF TypeOK, WireType
<1>1. CASE SetTime
  <2>1. DOMAIN buffer' = 1 .. BufLen /\ mem' \in {"none", "buffer", "both"} /\ spoiled' \in BOOLEAN
    BY <1>0, <1>1, SetDataFrame DEF SetTime
  <2>2. /\ UNCHANGED <<datalen, stamps, raw, looping, wire, now, total, short>> /\ pc' = "pattern"
        /\ stamp' = now /\ verdict' = Nothing
    BY <1>1 DEF SetTime
  <2> QED
    BY <1>0, <2>1, <2>2, Ignored, TypeFrame
<1>2. CASE SetPattern
  <2>1. DOMAIN buffer' = 1 .. BufLen /\ mem' \in {"none", "buffer", "both"} /\ spoiled' \in BOOLEAN
    BY <1>0, <1>2, SetDataFrame DEF SetPattern
  <2>2. /\ UNCHANGED <<datalen, stamps, raw, looping, wire, now, total, stamp, short>> /\ pc' = "xmit"
        /\ verdict' = Nothing
    BY <1>2 DEF SetPattern
  <2> QED
    BY <1>0, <2>1, <2>2, Ignored, TypeFrame
<1>3. CASE PingXmit \/ SendtoFails
  <2> DEFINE new == Encode(buffer, HdrLen + datalen, 8, Len(wire))
  <2>1. DOMAIN new = 1 .. BufLen
    BY <1>0, EncodeDomain
  <2> HIDE DEF new
  <2>2. buffer' = new
    BY <1>3 DEF PingXmit, SendtoFails, new
  <2>3. Len(wire') \in Nat /\ Len(wire') <= MaxSent
    <3>1. CASE SendtoFails
      BY <1>0, <3>1 DEF SendtoFails
    <3>2. CASE PingXmit
      <4>1. Len(wire') = Len(wire) + 1 /\ Len(wire) < MaxSent
        BY <1>0, <3>2 DEF PingXmit
      <4> QED
        BY <1>0, <4>1, PacketAssumption
    <3> QED
      BY <1>3, <3>1, <3>2
  <2>4. /\ pc' \in {"time", "pattern", "xmit", "loop", "done"} /\ looping' \in BOOLEAN
        /\ spoiled' \in BOOLEAN /\ mem' = "both"
        /\ UNCHANGED <<datalen, stamps, raw, stamp, now, total, short>> /\ verdict' = Nothing
    BY <1>0, <1>3 DEF PingXmit, SendtoFails, GoOn, SetbufOK
  <2> QED
    BY <1>0, <2>1, <2>2, <2>3, <2>4, Ignored, TypeFrame
<1>4. CASE XmitFails \/ TimerExpires
  <2>1. /\ pc' \in {"time", "pattern", "xmit", "loop", "done"} /\ looping' \in BOOLEAN
        /\ spoiled' \in BOOLEAN /\ mem' \in {"none", "buffer", "both"}
        /\ UNCHANGED <<datalen, stamps, raw, buffer, wire, stamp, now, total, short>>
        /\ verdict' = Nothing
    BY <1>0, <1>4 DEF XmitFails, TimerExpires, GoOn, SetbufFails
  <2> QED
    BY <1>0, <2>1, Ignored, TypeFrame
<1>5. CASE Receive
  <2>1. PICK pkt, truth, k, rec : PingRecv(pkt, truth, k, rec)
    BY <1>5 DEF Receive, ReceiveReply, ReceiveDamaged, ReceiveForged, ReceiveError, ReceiveForeign
  <2>2. total < MaxTotal /\ Unchanged
    BY <1>5 DEF Receive, ReceiveReply, ReceiveDamaged, ReceiveForged, ReceiveError, ReceiveForeign,
                Receiving, Genuine
  <2>4. short' \in Nat
    <3>1. short' = short \/ \E len : short' = IF Timing(len) THEN short ELSE short + 1
      BY <1>5 DEF Receive, ReceiveReply, ReceiveDamaged, ReceiveForged, ReceiveError, ReceiveForeign,
                  Genuine
    <3> QED
      BY <1>0, <3>1
  <2>3. /\ DOMAIN buffer' = DOMAIN buffer /\ total' \in 0 .. MaxTotal
        /\ verdict'.event \in {"counted", "error", "ignored"}
    BY <1>0, <2>1, <2>2, PingRecvFrame
  <2> QED
    BY <1>0, <2>2, <2>3, <2>4, TypeFrame DEF Unchanged
<1>6. CASE Clock
  BY <1>0, <1>6, Ignored, TypeFrame DEF Clock
<1>7. CASE UNCHANGED vars
  BY <1>0, <1>7, TypeFrame DEF vars
<1> QED
  BY <1>1, <1>2, <1>3, <1>4, <1>5, <1>6, <1>7 DEF Next, Send

LEMMA TypeInit == Init => TypeOK /\ WireType
<1> SUFFICES ASSUME Init PROVE TypeOK /\ WireType
  OBVIOUS
<1>1. PICK s \in Settings : datalen = s.datalen /\ stamps = s.stamps /\ raw = s.raw
  BY DEF Init
<1>2. [datalen |-> datalen, stamps |-> stamps, raw |-> raw] = s
  BY <1>1, PacketAssumption
<1>3. BufLen \in Nat /\ s \in [datalen : Nat, stamps : {"none", "tsonly", "tsaddr"}, raw : BOOLEAN]
  BY <1>1, PacketAssumption DEF BufLen, IpLen, MaxOpt, TsLen
<1>4. DOMAIN buffer = 1 .. BufLen /\ Len(wire) = 0
  BY DEF Init
<1>5. /\ pc = "time" /\ looping = FALSE /\ spoiled = FALSE /\ mem = "none" /\ stamp = 0
      /\ now = 1 /\ total = 0 /\ short = 0 /\ verdict = Nothing
  BY DEF Init
<1>6. [datalen |-> datalen, stamps |-> stamps, raw |-> raw] \in Settings
  BY <1>2
<1>7. MaxNow \in Nat /\ MaxNow # 0 /\ MaxSent \in Nat /\ MaxTotal \in Nat
  BY PacketAssumption
<1>8. now \in 1 .. MaxNow /\ stamp \in 0 .. MaxNow /\ total \in 0 .. MaxTotal /\ Len(wire) <= MaxSent
      /\ short \in Nat
  BY <1>4, <1>5, <1>7
<1>9. verdict.event = "ignored"
  BY <1>5, Ignored
<1>10. /\ pc \in {"time", "pattern", "xmit", "loop", "done"} /\ looping \in BOOLEAN
       /\ spoiled \in BOOLEAN /\ mem \in {"none", "buffer", "both"}
       /\ verdict.event \in {"counted", "error", "ignored"}
  BY <1>5, <1>9
<1>11. WireType
  BY <1>4 DEF WireType
<1>12. TypeOK
  BY <1>4, <1>6, <1>8, <1>10, Zenon DEF TypeOK
<1> QED
  BY <1>11, <1>12

\* The buffer keeps the size that ping_recv reads into it, for any length of
\* the payload, and the table is never there without it.
THEOREM PacketTypeCorrect == Spec => []TypeOK
<1>1. TypeOK /\ WireType /\ [Next]_vars => TypeOK' /\ WireType'
  BY TypeStep
<1> QED
  BY TypeInit, <1>1, PTL DEF Spec

-----------------------------------------------------------------------------
(* Requests.                                                               *)

\* Where the pattern begins in a payload of length len, and the cells of a
\* request built at instant at.
Off(len) == IF Timing(len) THEN TimeLen ELSE 0
Fill(len, i, at) ==
  IF i <= HdrLen + Off(len) THEN Timeval(at)[i - HdrLen] ELSE [pat |-> i - HdrLen - Off(len)]
Body(len, seq, at) ==
  [i \in 1 .. HdrLen + len |->
     CASE i = 1 -> [type |-> 8, sum |-> <<>>]
       [] i = 2 -> [id |-> Ident, seq |-> seq]
       [] OTHER -> Fill(len, i, at)]

LEMMA ConcatSeq ==
  ASSUME NEW X, NEW s \in Seq(X), NEW t \in Seq(X)
  PROVE  /\ s \o t \in Seq(X)
         /\ Len(s \o t) = Len(s) + Len(t)
         /\ \A i \in 1 .. Len(s) + Len(t) : (s \o t)[i] = IF i <= Len(s) THEN s[i] ELSE t[i - Len(s)]
OBVIOUS

\* A request as the property states it has the cells of Body.
LEMMA RequestBody ==
  ASSUME TypeOK, NEW k
  PROVE  Request(k) = Summed(Body(datalen, k - 1, wire[k].at))
<1> DEFINE at == wire[k].at
           head == <<[type |-> 8, sum |-> <<>>], [id |-> Ident, seq |-> k - 1]>>
           time == IF Timing(datalen) THEN Timeval(at) ELSE <<>>
           pats == [i \in 1 .. datalen - Len(time) |-> [pat |-> i]]
           X == {[type |-> 8, sum |-> <<>>], [id |-> Ident, seq |-> k - 1], [time |-> at], [usec |-> 0]}
                  \cup {[pat |-> i] : i \in Nat}
           body == Body(datalen, k - 1, at)
<1>1. head \in Seq(X) /\ Len(head) = 2 /\ head[1] = [type |-> 8, sum |-> <<>>]
      /\ head[2] = [id |-> Ident, seq |-> k - 1]
  OBVIOUS
<1>2. time \in Seq(X) /\ Len(time) = Off(datalen) /\ Off(datalen) \in 0 .. 2 /\ Off(datalen) <= datalen
      /\ \A i \in 1 .. Off(datalen) : time[i] = Timeval(at)[i]
  <2>1. CASE Timing(datalen)
    BY <2>1, Lengths DEF Off, Timing, TimeLen, Timeval
  <2>2. CASE ~Timing(datalen)
    BY <2>2, Lengths DEF Off
  <2> QED
    BY <2>1, <2>2
<1>3. pats \in Seq(X) /\ Len(pats) = datalen - Off(datalen) /\ \A i \in 1 .. datalen - Off(datalen) : pats[i] = [pat |-> i]
  <2>1. datalen - Off(datalen) \in Nat /\ Len(time) = Off(datalen)
    BY <1>2, Lengths
  <2>2. \A i \in Nat : [pat |-> i] \in X
    OBVIOUS
  <2> HIDE DEF X, time
  <2> QED
    BY <2>1, <2>2
<1>4. Request(k) = Summed(head \o time \o pats)
  BY DEF Request
<1>5. body = [i \in 1 .. Size |-> body[i]]
      /\ \A i \in 1 .. Size :
           body[i] = CASE i = 1 -> [type |-> 8, sum |-> <<>>]
                       [] i = 2 -> [id |-> Ident, seq |-> k - 1]
                       [] OTHER -> Fill(datalen, i, at)
  BY DEF Body, Size
<1> HIDE DEF head, time, pats, X, body, at
<1>6. /\ head \o time \in Seq(X) /\ Len(head \o time) = 2 + Off(datalen)
      /\ \A i \in 1 .. 2 + Off(datalen) : (head \o time)[i] = IF i <= 2 THEN head[i] ELSE time[i - 2]
  <2>1. /\ head \o time \in Seq(X) /\ Len(head \o time) = Len(head) + Len(time)
        /\ \A i \in 1 .. Len(head) + Len(time) :
             (head \o time)[i] = IF i <= Len(head) THEN head[i] ELSE time[i - Len(head)]
    <3>1. head \in Seq(X) /\ time \in Seq(X)
      BY <1>1, <1>2
    <3> QED
      BY <3>1, ConcatSeq
  <2> QED
    BY <1>1, <1>2, <2>1
<1>7. /\ head \o time \o pats \in Seq(X) /\ Len(head \o time \o pats) = 2 + Off(datalen) + (datalen - Off(datalen))
      /\ \A i \in 1 .. 2 + Off(datalen) + (datalen - Off(datalen)) :
           (head \o time \o pats)[i] = IF i <= 2 + Off(datalen) THEN (head \o time)[i] ELSE pats[i - (2 + Off(datalen))]
  <2> DEFINE front == head \o time
  <2> HIDE DEF front
  <2>1. front \in Seq(X) /\ Len(front) = 2 + Off(datalen)
    BY <1>6 DEF front
  <2>2. /\ front \o pats \in Seq(X) /\ Len(front \o pats) = Len(front) + Len(pats)
        /\ \A i \in 1 .. Len(front) + Len(pats) :
             (front \o pats)[i] = IF i <= Len(front) THEN front[i] ELSE pats[i - Len(front)]
    BY <1>3, <2>1, ConcatSeq
  <2>3. /\ front \o pats \in Seq(X) /\ Len(front \o pats) = 2 + Off(datalen) + (datalen - Off(datalen))
        /\ \A i \in 1 .. 2 + Off(datalen) + (datalen - Off(datalen)) :
             (front \o pats)[i] = IF i <= 2 + Off(datalen) THEN front[i] ELSE pats[i - (2 + Off(datalen))]
    BY <1>3, <2>1, <2>2
  <2> QED
    BY <2>3 DEF front
<1>8. 2 + Off(datalen) + (datalen - Off(datalen)) = Size /\ Size \in Nat /\ datalen \in Nat
  BY <1>2, Lengths
<1>9. ASSUME NEW i \in 1 .. Size PROVE (head \o time \o pats)[i] = body[i]
  <2>0. ASSUME i <= 2 + Off(datalen)
        PROVE  (head \o time \o pats)[i] = IF i <= 2 THEN head[i] ELSE time[i - 2]
    <3>1. i \in 1 .. 2 + Off(datalen) + (datalen - Off(datalen))
      BY <1>8
    <3>2. i \in 1 .. 2 + Off(datalen)
      BY <1>2, <1>8, <2>0
    <3>3. (head \o time \o pats)[i] = (head \o time)[i]
      BY <1>7, <2>0, <3>1
    <3>4. (head \o time)[i] = IF i <= 2 THEN head[i] ELSE time[i - 2]
      BY <1>6, <3>2
    <3> QED
      BY <3>3, <3>4
  <2>1. CASE i <= 2
    <3>0. i \in {1, 2} /\ i <= 2 + Off(datalen)
      BY <1>2, <1>8, <2>1
    <3>1. (head \o time \o pats)[i] = head[i] /\ i \in {1, 2}
      BY <2>0, <2>1, <3>0
    <3> QED
      BY <1>1, <1>5, <3>1
  <2>2. CASE 2 < i /\ i <= 2 + Off(datalen)
    <3>1. (head \o time \o pats)[i] = Timeval(at)[i - 2]
      <4>0. ~(i <= 2)
        BY <1>8, <2>2
      <4>1. (head \o time \o pats)[i] = time[i - 2]
        BY <2>0, <2>2, <4>0
      <4>2. i - 2 \in 1 .. Off(datalen)
        BY <1>2, <1>8, <2>2
      <4> QED
        BY <1>2, <4>1, <4>2
    <3>2. body[i] = Timeval(at)[i - 2]
      BY <1>2, <1>5, <2>2 DEF Fill, HdrLen
    <3> QED
      BY <3>1, <3>2
  <2>3. CASE 2 + Off(datalen) < i
    <3> DEFINE j == i - (2 + Off(datalen))
    <3>0. j \in 1 .. datalen - Off(datalen) /\ j = i - 2 - Off(datalen)
          /\ i \in 1 .. 2 + Off(datalen) + (datalen - Off(datalen)) /\ ~(i <= 2 + Off(datalen))
      BY <1>2, <1>8, <2>3
    <3>1. (head \o time \o pats)[i] = [pat |-> i - 2 - Off(datalen)]
      <4>1. (head \o time \o pats)[i] = pats[j]
        BY <1>7, <3>0
      <4> HIDE DEF j
      <4>2. pats[j] = [pat |-> j]
        BY <1>3, <3>0
      <4> QED
        BY <3>0, <4>1, <4>2
    <3>2. body[i] = [pat |-> i - 2 - Off(datalen)]
      BY <1>2, <1>5, <2>3 DEF Fill, HdrLen
    <3> QED
      BY <3>1, <3>2
  <2>4. i <= 2 \/ (2 < i /\ i <= 2 + Off(datalen)) \/ 2 + Off(datalen) < i
    BY <1>2, <1>8
  <2> QED
    BY <2>1, <2>2, <2>3, <2>4, Zenon
<1>10. head \o time \o pats = body
  <2> DEFINE all == head \o time \o pats
  <2>1. all \in Seq(X) /\ Len(all) = Size /\ \A i \in 1 .. Size : all[i] = body[i]
    BY <1>7, <1>8, <1>9
  <2> HIDE DEF all
  <2>2. all = [i \in 1 .. Len(all) |-> all[i]]
    BY <2>1
  <2>3. all = body
    BY <1>5, <2>1, <2>2
  <2> QED
    BY <2>3 DEF all
<1> QED
  BY <1>4, <1>10 DEF body, at

\* What a payload is made of: what malloc left there, the time, the pattern.
GoodCells == [junk : {0}] \cup [time : Int] \cup [usec : {0}] \cup [pat : Nat \ {0}]

\* The payload, as far as send_echo has come with it and memory allowed.
Written ==
  ~spoiled =>
    /\ (pc \in {"pattern", "xmit"} /\ Timing(datalen)) =>
         buffer[3] = [time |-> stamp] /\ buffer[4] = [usec |-> 0]
    /\ pc = "xmit" => \A i \in 1 .. datalen - Off(datalen) : buffer[2 + Off(datalen) + i] = [pat |-> i]

\* Until both blocks are allocated nothing was received into the buffer.
Clean ==
  /\ spoiled => pc \in {"pattern", "xmit"}
  /\ (mem # "both" \/ spoiled) => \A i \in 3 .. BufLen : buffer[i] \in GoodCells

\* Request k: as Body has it, or with a payload of any good cells.
Sound(len, k, req) ==
  /\ DOMAIN req.msg = 1 .. HdrLen + len
  /\ \E s : req.msg[1] = [type |-> 8, sum |-> s]
  /\ req.msg[2] = [id |-> Ident, seq |-> k - 1]
  /\ \A i \in 3 .. HdrLen + len : req.msg[i] \in GoodCells
  /\ ~req.spoiled => req.msg = Summed(Body(len, k - 1, req.at))
AllSound == \A k \in 1 .. Len(wire) : Sound(datalen, k, wire[k])

LEMMA OffFacts ==
  ASSUME TypeOK
  PROVE  /\ Off(datalen) \in 0 .. 2 /\ Off(datalen) <= datalen
         /\ Timing(datalen) => Off(datalen) = 2 /\ datalen >= 2
         /\ ~Timing(datalen) => Off(datalen) = 0 /\ datalen < 2
BY Lengths DEF Off, Timing, TimeLen

\* send_echo fills the payload, or the request is marked.
LEMMA WrittenStep ==
  ASSUME TypeOK, Written, Clean, Next
  PROVE  Written'
<1> USE DEF argVars, reqVars, statVars, HdrLen
<1>0. datalen' = datalen => Off(datalen)' = Off(datalen)
  BY DEF Off
<1>1. CASE SetTime
  <2>1. pc' = "pattern" /\ stamp' = now /\ UNCHANGED datalen
    BY <1>1 DEF SetTime
  <2>2. ASSUME ~spoiled', Timing(datalen)
        PROVE  buffer'[3] = [time |-> stamp'] /\ buffer'[4] = [usec |-> 0]
    <3>1. buffer' = IF datalen < 0 + Len(Timeval(now)) THEN buffer
                    ELSE Write(buffer, 2 + 0, Timeval(now))
      BY <1>1, <2>2 DEF SetTime, SetData
    <3>2. Len(Timeval(now)) = 2 /\ datalen >= 2 /\ datalen \in Nat
      BY <2>2, OffFacts, Lengths DEF Timeval
    <3>3. buffer' = Write(buffer, 2, Timeval(now))
      BY <3>1, <3>2
    <3> QED
      BY <2>1, <2>2, <3>3, Lengths DEF Write, Timeval, TypeOK
  <2> QED
    BY <2>1, <2>2 DEF Written, Timing
<1>2. CASE SetPattern
  <2> DEFINE len == IF datalen > Off(datalen) THEN datalen - Off(datalen) ELSE datalen
             data == SubSeq(DataBuffer, 1, len)
  <2>1. /\ pc' = "xmit" /\ UNCHANGED <<stamp, datalen>> /\ pc = "pattern"
        /\ IF datalen > 0 THEN SetData(data, Off(datalen)) ELSE UNCHANGED <<mem, buffer, spoiled>>
    BY <1>2 DEF SetPattern, Off
  <2>2. SUFFICES ASSUME ~spoiled'
                 PROVE  /\ Timing(datalen) => buffer'[3] = [time |-> stamp] /\ buffer'[4] = [usec |-> 0]
                        /\ \A i \in 1 .. datalen - Off(datalen) : buffer'[2 + Off(datalen) + i] = [pat |-> i]
    BY <1>0, <2>1 DEF Written, Timing
  <2>3. ~spoiled
    BY <2>1, <2>2 DEF SetData
  <2>4. Timing(datalen) => buffer[3] = [time |-> stamp] /\ buffer[4] = [usec |-> 0]
    BY <2>1, <2>3 DEF Written
  <2>5. CASE datalen > Off(datalen)
    <3>1. DOMAIN data = 1 .. datalen - Off(datalen) /\ Len(data) = datalen - Off(datalen)
          /\ \A i \in 1 .. datalen - Off(datalen) : data[i] = [pat |-> i]
      BY <2>5, OffFacts, Lengths DEF DataBuffer
    <3> HIDE DEF data
    <3>2. buffer' = Write(buffer, 2 + Off(datalen), data)
      BY <2>1, <2>2, <2>5, <3>1, OffFacts, Lengths DEF SetData
    <3>3. \A i \in 1 .. 10 + datalen :
            buffer'[i] = IF i - (2 + Off(datalen)) \in 1 .. datalen - Off(datalen) THEN data[i - (2 + Off(datalen))] ELSE buffer[i]
      BY <3>1, <3>2, Lengths DEF Write, TypeOK
    <3>4. ASSUME NEW i \in 1 .. datalen - Off(datalen) PROVE buffer'[2 + Off(datalen) + i] = [pat |-> i]
      <4>1. 2 + Off(datalen) + i \in 1 .. 10 + datalen /\ (2 + Off(datalen) + i) - (2 + Off(datalen)) = i
        BY OffFacts, Lengths
      <4> QED
        BY <3>1, <3>3, <4>1
    <3>5. Timing(datalen) => buffer'[3] = buffer[3] /\ buffer'[4] = buffer[4]
      BY <3>3, OffFacts, Lengths
    <3> QED
      BY <2>4, <3>4, <3>5
  <2>6. CASE ~(datalen > Off(datalen))
    <3>1. datalen = Off(datalen)
      BY <2>6, OffFacts, Lengths
    <3>2. buffer' = buffer
      <4>1. CASE datalen = 0
        BY <2>1, <4>1
      <4>2. CASE datalen = 2 /\ datalen > 0
        <5>1. Len(data) = 2 /\ datalen < Off(datalen) + Len(data)
          BY <3>1, <4>2 DEF DataBuffer
        <5> QED
          BY <2>1, <4>2, <5>1 DEF SetData
      <4> QED
        BY <3>1, <4>1, <4>2, OffFacts
    <3> QED
      BY <2>4, <3>1, <3>2, OffFacts
  <2> QED
    BY <2>5, <2>6
<1>3. CASE PingXmit \/ SendtoFails \/ XmitFails
  BY <1>3 DEF PingXmit, SendtoFails, XmitFails, GoOn, Written
<1>4. CASE TimerExpires \/ Receive \/ Clock
  BY <1>4 DEF TimerExpires, Receive, ReceiveReply, ReceiveDamaged, ReceiveForged, ReceiveError, ReceiveForeign,
              Receiving, Unchanged, Genuine, Clock, Written
<1> QED
  BY <1>1, <1>2, <1>3, <1>4 DEF Next, Send

\* Nothing received gets into the payload of a request that misses a part.
LEMMA CleanStep ==
  ASSUME TypeOK, Clean, Next
  PROVE  Clean'
<1> USE DEF argVars, reqVars, statVars, HdrLen
<1>0. datalen' = datalen => BufLen' = BufLen
  BY DEF BufLen
<1>1. CASE SetTime
  <2>1. /\ UNCHANGED datalen /\ ~spoiled /\ pc' = "pattern"
        /\ \/ mem' = "both" /\ ~spoiled'
           \/ mem # "both" /\ buffer' = buffer
           \/ UNCHANGED <<mem, buffer, spoiled>>
    BY <1>1 DEF SetTime, SetData, SetbufOK, SetbufFails, Clean
  <2> QED
    BY <1>0, <2>1 DEF Clean
<1>2. CASE SetPattern
  <2> DEFINE len == IF datalen > Off(datalen) THEN datalen - Off(datalen) ELSE datalen
             data == SubSeq(DataBuffer, 1, len)
  <2>1. /\ pc' = "xmit" /\ UNCHANGED datalen
        /\ IF datalen > 0 THEN SetData(data, Off(datalen)) ELSE UNCHANGED <<mem, buffer, spoiled>>
    BY <1>2 DEF SetPattern, Off
  <2>2. DOMAIN data = 1 .. len /\ len \in Nat /\ \A i \in 1 .. len : data[i] = [pat |-> i]
    BY OffFacts, Lengths DEF DataBuffer
  <2> HIDE DEF data, len
  <2>3. \A i \in 1 .. len : data[i] \in GoodCells
    BY <2>2 DEF GoodCells
  <2>4. \/ UNCHANGED <<mem, buffer, spoiled>>
        \/ mem' = "both" /\ UNCHANGED spoiled /\ buffer' = buffer
        \/ mem' = "both" /\ UNCHANGED spoiled /\ buffer' = Write(buffer, 2 + Off(datalen), data)
        \/ mem # "both" /\ buffer' = buffer
    BY <2>1 DEF SetData, SetbufOK, SetbufFails
  <2>5. CASE buffer' = buffer
    BY <1>0, <2>1, <2>4, <2>5 DEF Clean
  <2>6. CASE mem' = "both" /\ UNCHANGED spoiled /\ buffer' = Write(buffer, 2 + Off(datalen), data)
    <3>1. \A i \in 1 .. BufLen : buffer'[i] \in {buffer[i]} \cup GoodCells
      BY <2>2, <2>3, <2>6 DEF Write, TypeOK
    <3>2. 3 .. BufLen \subseteq 1 .. BufLen
      BY Lengths
    <3> QED
      BY <1>0, <2>1, <2>6, <3>1, <3>2 DEF Clean
  <2> QED
    BY <2>4, <2>5, <2>6
<1>3. CASE PingXmit \/ SendtoFails \/ XmitFails
  <2>1. datalen' = datalen /\ spoiled' = FALSE /\ (mem' = "both" \/ (mem # "both" /\ buffer' = buffer))
    <3>1. CASE PingXmit
      <4>1. datalen' = datalen /\ mem' = "both" /\ spoiled' = FALSE
        BY <3>1 DEF PingXmit, SetbufOK
      <4> QED
        BY <4>1
    <3>2. CASE SendtoFails
      <4>1. datalen' = datalen /\ mem' = "both" /\ spoiled' = FALSE
        BY <3>2 DEF SendtoFails, SetbufOK
      <4> QED
        BY <4>1
    <3>3. CASE XmitFails
      BY <3>3 DEF XmitFails, SetbufFails
    <3> QED
      BY <1>3, <3>1, <3>2, <3>3
  <2> QED
    BY <1>0, <2>1 DEF Clean
<1>4. CASE TimerExpires \/ Clock
  <2>1. UNCHANGED <<datalen, spoiled, mem, buffer>> /\ ~spoiled
    BY <1>4 DEF TimerExpires, Clock, Clean
  <2> QED
    BY <1>0, <2>1 DEF Clean
<1>5. CASE Receive
  <2>1. UNCHANGED <<datalen, spoiled, mem>> /\ ~spoiled /\ mem = "both"
    BY <1>5 DEF Receive, ReceiveReply, ReceiveDamaged, ReceiveForged, ReceiveError, ReceiveForeign,
                Receiving, Unchanged, Genuine, Clean
  <2> QED
    BY <2>1 DEF Clean
<1> QED
  BY <1>1, <1>2, <1>3, <1>4, <1>5 DEF Next, Send

\* The cells of a request as it should be are good.
LEMMA FillGood ==
  ASSUME TypeOK, NEW at \in Int, NEW i \in 3 .. Size
  PROVE  Fill(datalen, i, at) \in GoodCells
<1>1. CASE i <= 2 + Off(datalen)
  <2>1. i \in {3, 4}
    BY <1>1, OffFacts, Lengths
  <2> QED
    BY <1>1, <2>1 DEF Fill, HdrLen, Timeval, GoodCells
<1>2. CASE ~(i <= 2 + Off(datalen))
  <2>1. i - 2 - Off(datalen) \in Nat \ {0}
    BY <1>2, OffFacts, Lengths
  <2> QED
    BY <1>2, <2>1 DEF Fill, HdrLen, GoodCells
<1> QED
  BY <1>1, <1>2

\* The request that ping_xmit sends.
LEMMA XmitSound ==
  ASSUME TypeOK, WireType, Written, Clean, pc = "xmit"
  PROVE  Sound(datalen, Len(wire) + 1,
               [msg |-> SubSeq(Encode(buffer, HdrLen + datalen, 8, Len(wire)), 1, HdrLen + datalen),
                at |-> stamp, spoiled |-> spoiled])
<1> DEFINE k == Len(wire) + 1
           msg == Headed(buffer, Size, 8, Len(wire))
           req == [msg |-> SubSeq(Encode(buffer, Size, 8, Len(wire)), 1, Size),
                   at |-> stamp, spoiled |-> spoiled]
<1>1. k \in Nat /\ k - 1 = Len(wire) /\ HdrLen + datalen = Size
  BY DEF Size, WireType
<1>2. req.msg = Summed(msg) /\ req.at = stamp /\ req.spoiled = spoiled
  <2>1. /\ Size \in Nat /\ 2 <= Size /\ Size <= BufLen /\ BufLen \in Nat /\ DOMAIN buffer = 1 .. BufLen
    BY Lengths DEF TypeOK
  <2> QED
    BY <2>1, EncodeFacts
<1>3. DOMAIN msg = 1 .. Size /\ msg[1] = [type |-> 8, sum |-> <<>>] /\ Size \in Nat /\ 2 <= Size
      /\ msg[2] = [id |-> Ident, seq |-> Len(wire)] /\ \A i \in 3 .. Size : msg[i] = buffer[i]
  BY Lengths DEF Headed
<1>4. ASSUME ~spoiled, NEW i \in 3 .. Size PROVE buffer[i] = Fill(datalen, i, stamp)
  <2>1. CASE i <= 2 + Off(datalen)
    <3>1. i \in {3, 4} /\ Timing(datalen)
      BY <2>1, OffFacts, Lengths
    <3> QED
      BY <1>4, <2>1, <3>1 DEF Written, Fill, HdrLen, Timeval
  <2>2. CASE ~(i <= 2 + Off(datalen))
    <3>1. i - 2 - Off(datalen) \in 1 .. datalen - Off(datalen)
          /\ 2 + Off(datalen) + (i - 2 - Off(datalen)) = i
      BY <2>2, OffFacts, Lengths
    <3>2. buffer[2 + Off(datalen) + (i - 2 - Off(datalen))] = [pat |-> i - 2 - Off(datalen)]
      BY <1>4, <3>1 DEF Written
    <3> QED
      BY <2>2, <3>1, <3>2 DEF Fill, HdrLen
  <2> QED
    BY <2>1, <2>2
<1>5. ~spoiled => msg = Body(datalen, k - 1, stamp)
  <2>1. SUFFICES ASSUME ~spoiled PROVE msg = Body(datalen, k - 1, stamp)
    OBVIOUS
  <2>2. \A i \in 3 .. Size : buffer[i] = Fill(datalen, i, stamp)
    BY <1>4, <2>1
  <2> QED
    BY <1>1, <2>2, Lengths DEF Body, Headed
<1>6. \A i \in 3 .. Size : msg[i] \in GoodCells
  <2>1. CASE spoiled
    <3>1. 3 .. Size \subseteq 3 .. BufLen
      BY Lengths
    <3> QED
      BY <1>3, <2>1, <3>1 DEF Clean
  <2>2. CASE ~spoiled
    <3>1. stamp \in Int
      BY DEF TypeOK
    <3>2. \A i \in 3 .. Size : msg[i] = Fill(datalen, i, stamp)
      BY <1>3, <1>4, <2>2
    <3> HIDE DEF msg
    <3> QED
      BY <3>1, <3>2, FillGood
  <2> QED
    BY <2>1, <2>2
<1> HIDE DEF msg
<1>7. /\ DOMAIN Summed(msg) = 1 .. Size
      /\ \E s : Summed(msg)[1] = [type |-> 8, sum |-> s]
      /\ \A i \in 2 .. Size : Summed(msg)[i] = msg[i]
  <2>1. Summed(msg) = [i \in 1 .. Size |->
                         IF i = 1 THEN [type |-> 8, sum |-> Cksum(msg)] ELSE msg[i]]
    BY <1>3, SummedFacts
  <2>2. DOMAIN Summed(msg) = 1 .. Size
    BY <2>1
  <2>3. Summed(msg)[1] = [type |-> 8, sum |-> Cksum(msg)]
    BY <1>3, <2>1
  <2>4. \A i \in 2 .. Size : Summed(msg)[i] = msg[i]
    BY <1>3, <2>1
  <2> QED
    BY <2>2, <2>3, <2>4
<1> HIDE DEF req, k
<1>8. Sound(datalen, k, req)
  <2>1. Summed(msg)[2] = [id |-> Ident, seq |-> k - 1]
    BY <1>1, <1>3, <1>7
  <2>2. \A i \in 3 .. Size : Summed(msg)[i] \in GoodCells
    BY <1>3, <1>6, <1>7
  <2>3. ~req.spoiled => req.msg = Summed(Body(datalen, k - 1, req.at))
    BY <1>2, <1>5
  <2> QED
    BY <1>1, <1>2, <1>7, <2>1, <2>2, <2>3, Zenon DEF Sound
<1> QED
  BY <1>1, <1>8 DEF req, k

\* Every request that was sent is sound.
LEMMA SoundStep ==
  ASSUME TypeOK, WireType, Written, Clean, AllSound, Next
  PROVE  AllSound'
<1> USE DEF argVars, reqVars, statVars
<1>1. CASE PingXmit
  <2> DEFINE req == [msg |-> SubSeq(Encode(buffer, HdrLen + datalen, 8, Len(wire)), 1, HdrLen + datalen),
                     at |-> stamp, spoiled |-> spoiled]
  <2>1. pc = "xmit" /\ wire' = Append(wire, req) /\ datalen' = datalen
    BY <1>1 DEF PingXmit
  <2>2. Sound(datalen, Len(wire) + 1, req)
    BY <2>1, XmitSound
  <2> HIDE DEF req
  <2>3. Len(wire') = Len(wire) + 1 /\ wire'[Len(wire) + 1] = req
        /\ \A k \in 1 .. Len(wire) : wire'[k] = wire[k]
    BY <2>1 DEF WireType
  <2> QED
    BY <2>1, <2>2, <2>3 DEF AllSound, WireType
<1>2. CASE ~PingXmit
  <2>1. UNCHANGED <<wire, datalen>>
    BY <1>2 DEF Next, Send, SetTime, SetPattern, SendtoFails, XmitFails, TimerExpires, Clock,
       Receive, ReceiveReply, ReceiveDamaged, ReceiveForged, ReceiveError, ReceiveForeign, Unchanged, Genuine
  <2> QED
    BY <2>1 DEF AllSound
<1> QED
  BY <1>1, <1>2

PacketInv == TypeOK /\ WireType /\ Written /\ Clean /\ AllSound

LEMMA PacketStep ==
  ASSUME PacketInv, [Next]_vars
  PROVE  PacketInv'
<1>1. CASE Next
  BY <1>1, TypeStep, WrittenStep, CleanStep, SoundStep DEF PacketInv
<1>2. CASE UNCHANGED vars
  BY <1>2 DEF vars, argVars, reqVars, statVars, PacketInv, TypeOK, WireType, Written, Clean, AllSound,
     BufLen
<1> QED
  BY <1>1, <1>2

LEMMA PacketInit == Init => PacketInv
<1> SUFFICES ASSUME Init PROVE PacketInv
  OBVIOUS
<1>1. TypeOK /\ WireType
  BY TypeInit
<1>2. pc = "time" /\ ~spoiled /\ Len(wire) = 0
      /\ \A i \in 1 .. BufLen : buffer[i] = [junk |-> 0]
  BY DEF Init
<1>3. 3 .. BufLen \subseteq 1 .. BufLen
  BY <1>1, Lengths
<1>4. Clean
  BY <1>2, <1>3 DEF Clean, GoodCells
<1> QED
  BY <1>1, <1>2, <1>4 DEF PacketInv, Written, AllSound

\* Whatever packets were received into ping_buffer, and for payloads of any
\* length, every request has the checksum of its own cells, the time it was
\* built at and the pattern, unless there was no memory for them.
THEOREM RequestIntactHolds == Spec => []RequestIntact
<1>1. PacketInv => RequestIntact
  <2> SUFFICES ASSUME PacketInv, NEW k \in DOMAIN wire, ~wire[k].spoiled
               PROVE  wire[k].msg = Request(k)
    BY DEF RequestIntact
  <2>1. k \in 1 .. Len(wire)
    BY DEF PacketInv, WireType
  <2> QED
    BY <2>1, RequestBody DEF PacketInv, AllSound, Sound
<1>2. PacketInv /\ [Next]_vars => PacketInv'
  BY PacketStep
<1> QED
  BY PacketInit, <1>1, <1>2, PTL DEF Spec

-----------------------------------------------------------------------------
(* Packets.                                                                *)

LEMMA SeqOf ==
  ASSUME NEW X, NEW n \in Nat, NEW s \in [1 .. n -> X]
  PROVE  s \in Seq(X) /\ Len(s) = n
OBVIOUS

LEMMA ConcatAny ==
  ASSUME NEW s, NEW t, NEW a \in Nat, NEW b \in Nat,
         s = [i \in 1 .. a |-> s[i]], t = [i \in 1 .. b |-> t[i]]
  PROVE  /\ s \o t = [i \in 1 .. a + b |-> (s \o t)[i]] /\ Len(s \o t) = a + b
         /\ \A i \in 1 .. a : (s \o t)[i] = s[i]
         /\ \A i \in 1 .. b : (s \o t)[a + i] = t[i]
<1> DEFINE X == {s[i] : i \in 1 .. a} \cup {t[i] : i \in 1 .. b}
<1>1. s \in Seq(X) /\ t \in Seq(X) /\ Len(s) = a /\ Len(t) = b
  <2>1. (\A i \in 1 .. a : s[i] \in X) /\ (\A i \in 1 .. b : t[i] \in X)
    OBVIOUS
  <2> HIDE DEF X
  <2>2. s \in [1 .. a -> X]
    BY <2>1
  <2>3. t \in [1 .. b -> X]
    BY <2>1
  <2> QED
    BY <2>2, <2>3, SeqOf
<1> HIDE DEF X
<1>2. /\ s \o t \in Seq(X) /\ Len(s \o t) = a + b
      /\ \A i \in 1 .. a + b : (s \o t)[i] = IF i <= a THEN s[i] ELSE t[i - a]
  <2>1. /\ s \o t \in Seq(X) /\ Len(s \o t) = Len(s) + Len(t)
        /\ \A i \in 1 .. Len(s) + Len(t) :
             (s \o t)[i] = IF i <= Len(s) THEN s[i] ELSE t[i - Len(s)]
    <3>1. s \in Seq(X) /\ t \in Seq(X)
      BY <1>1
    <3> QED
      BY <3>1, ConcatSeq
  <2>2. Len(s) = a /\ Len(t) = b
    BY <1>1
  <2> QED
    BY <2>1, <2>2
<1> DEFINE st == s \o t
<1> HIDE DEF st
<1>3. st \in Seq(X) /\ Len(st) = a + b /\ \A i \in 1 .. a + b : st[i] = IF i <= a THEN s[i] ELSE t[i - a]
  BY <1>2 DEF st
<1>4. st = [i \in 1 .. a + b |-> st[i]]
  BY <1>3
<1>5. ASSUME NEW i \in 1 .. a PROVE st[i] = s[i]
  <2>1. i \in 1 .. a + b /\ i <= a
    OBVIOUS
  <2> QED
    BY <1>3, <2>1
<1>6. ASSUME NEW i \in 1 .. b PROVE st[a + i] = t[i]
  <2>1. a + i \in 1 .. a + b /\ ~(a + i <= a) /\ (a + i) - a = i
    OBVIOUS
  <2>2. st[a + i] = t[(a + i) - a]
    BY <1>3, <2>1
  <2> QED
    BY <2>1, <2>2
<1> QED
  BY <1>3, <1>4, <1>5, <1>6 DEF st

\* A message of m cells behind the header of its packet.
Behind(opt) == IF raw THEN 1 + Len(opt) ELSE 0
Message(m, msg) == m \in Nat /\ 2 <= m /\ msg = [i \in 1 .. m |-> msg[i]]
Options(opt) == Len(opt) \in 0 .. 4 /\ opt = [i \in 1 .. Len(opt) |-> opt[i]]

LEMMA ReceivedFacts ==
  ASSUME TypeOK, NEW opt, Options(opt), NEW m, NEW msg, Message(m, msg)
  PROVE  /\ Behind(opt) \in 0 .. 5 /\ Len(Received(opt, msg)) = Behind(opt) + m
         /\ \A i \in 1 .. m : Received(opt, msg)[Behind(opt) + i] = msg[i]
         /\ raw => Received(opt, msg)[1] = [hl |-> Behind(opt), dst |-> "here", p |-> "icmp"]
<1>1. CASE ~raw
  <2>1. Received(opt, msg) = msg /\ Behind(opt) = 0
    BY <1>1 DEF Received, Behind
  <2>2. \A i \in 1 .. m : 0 + i = i
    BY DEF Message
  <2> QED
    BY <1>1, <2>1, <2>2 DEF Message
<1>2. CASE raw
  <2> DEFINE h == <<[hl |-> IpLen + Len(opt), dst |-> "here", p |-> "icmp"]>>
             front == h \o opt
  <2>1. h = [i \in 1 .. 1 |-> h[i]] /\ h[1] = [hl |-> 1 + Len(opt), dst |-> "here", p |-> "icmp"]
    BY DEF IpLen
  <2>2. Received(opt, msg) = front \o msg /\ Behind(opt) = 1 + Len(opt)
    BY <1>2 DEF Received, IpHeader, Behind
  <2> HIDE DEF h
  <2>3. front = [i \in 1 .. 1 + Len(opt) |-> front[i]] /\ \A i \in 1 .. 1 : front[i] = h[i]
    BY <2>1, ConcatAny DEF Options
  <2> HIDE DEF front
  <2>4. /\ Len(front \o msg) = 1 + Len(opt) + m
        /\ \A i \in 1 .. 1 + Len(opt) : (front \o msg)[i] = front[i]
        /\ \A i \in 1 .. m : (front \o msg)[1 + Len(opt) + i] = msg[i]
    <3>1. 1 + Len(opt) \in Nat /\ m \in Nat
      BY DEF Options, Message
    <3> QED
      BY <2>3, <3>1, ConcatAny DEF Message
  <2>5. (front \o msg)[1] = h[1]
    BY <2>3, <2>4 DEF Options
  <2>6. Behind(opt) \in 0 .. 5
    <3> DEFINE n == Len(opt)
    <3>1. n \in 0 .. 4
      BY DEF Options
    <3>2. Behind(opt) = 1 + n
      BY <2>2
    <3> HIDE DEF n
    <3> QED
      BY <3>1, <3>2
  <2>7. Received(opt, msg)[1] = [hl |-> Behind(opt), dst |-> "here", p |-> "icmp"]
    BY <2>1, <2>2, <2>5
  <2> QED
    BY <2>2, <2>4, <2>6, <2>7
<1> QED
  BY <1>1, <1>2

\* The option of a packet fits behind the header.
LEMMA OptionFacts ==
  ASSUME TypeOK, NEW rec
  PROVE  Options(Option(rec))
<1>1. CASE stamps = "none"
  BY <1>1 DEF Option, Options
<1>2. CASE stamps # "none"
  <2> DEFINE head == <<[flag |-> IF stamps = "tsaddr" THEN 1 ELSE 0, len |-> 4 + 4 * Slots, ptr |-> 5 + 4 * rec]>>
             words == [k \in 1 .. Slots |-> [slot |-> IF k <= rec THEN k ELSE 0]]
             all == head \o words
  <2>1. Option(rec) = all
    BY <1>2 DEF Option
  <2>2. head = [i \in 1 .. 1 |-> head[i]]
    OBVIOUS
  <2>3. words = [i \in 1 .. Slots |-> words[i]] /\ Slots \in 2 .. 3
    BY DEF Slots
  <2> HIDE DEF head, words
  <2>4. all = [i \in 1 .. 1 + Slots |-> all[i]] /\ Len(all) = 1 + Slots
    BY <2>2, <2>3, ConcatAny
  <2> HIDE DEF all
  <2> QED
    BY <2>1, <2>3, <2>4 DEF Options
<1> QED
  BY <1>1, <1>2

-----------------------------------------------------------------------------
(* What print_ip_opt shows.                                                *)

\* What StampsShown says is shown of an option with rec words recorded.
Word(k) == IF stamps = "tsaddr" /\ k % 2 = 1 THEN "addr" ELSE "time"
Stamps(rec) ==
  IF rec = 0 THEN <<<<Word(1), 0>>>> ELSE [k \in 1 .. rec |-> <<Word(k), k>>]

\* Short sequences.
LEMMA Single ==
  ASSUME NEW a
  PROVE  <<a>> = [i \in 1 .. 1 |-> <<a>>[i]] /\ <<a>>[1] = a
OBVIOUS

LEMMA Pair ==
  ASSUME NEW a, NEW b
  PROVE  <<a, b>> = [i \in 1 .. 2 |-> <<a, b>>[i]] /\ <<a, b>>[1] = a /\ <<a, b>>[2] = b
OBVIOUS

LEMMA Make1 ==
  ASSUME NEW f, f = [i \in 1 .. 1 |-> f[i]]
  PROVE  f = <<f[1]>>
OBVIOUS

LEMMA Make2 ==
  ASSUME NEW f, f = [i \in 1 .. 2 |-> f[i]]
  PROVE  f = <<f[1], f[2]>>
OBVIOUS

LEMMA Make3 ==
  ASSUME NEW f, f = [i \in 1 .. 3 |-> f[i]]
  PROVE  f = <<f[1], f[2], f[3]>>
OBVIOUS

LEMMA Concat0 ==
  ASSUME NEW a
  PROVE  <<a>> \o <<>> = <<a>>
<1> DEFINE s == <<a>>
           t == <<>>
           st == s \o t
<1>1. s = [i \in 1 .. 1 |-> s[i]] /\ s[1] = a
  BY Single
<1>2. t = [i \in 1 .. 0 |-> t[i]]
  OBVIOUS
<1> HIDE DEF s, t
<1>3. st = [i \in 1 .. 1 + 0 |-> st[i]] /\ \A i \in 1 .. 1 : st[i] = s[i]
  BY <1>1, <1>2, ConcatAny
<1> HIDE DEF st
<1>4. st = <<st[1]>> /\ st[1] = a
  BY <1>1, <1>3, Make1
<1> QED
  BY <1>4 DEF s, t, st

LEMMA Concat1 ==
  ASSUME NEW a, NEW b
  PROVE  <<a>> \o <<b>> = <<a, b>>
<1> DEFINE s == <<a>>
           t == <<b>>
           st == s \o t
<1>1. s = [i \in 1 .. 1 |-> s[i]] /\ s[1] = a /\ t = [i \in 1 .. 1 |-> t[i]] /\ t[1] = b
  BY Single
<1> HIDE DEF s, t
<1>3. st = [i \in 1 .. 1 + 1 |-> st[i]] /\ (\A i \in 1 .. 1 : st[i] = s[i])
      /\ \A i \in 1 .. 1 : st[1 + i] = t[i]
  BY <1>1, ConcatAny
<1> HIDE DEF st
<1>4. st = <<st[1], st[2]>> /\ st[1] = a /\ st[2] = b
  BY <1>1, <1>3, Make2
<1> QED
  BY <1>4 DEF s, t, st

LEMMA Concat2 ==
  ASSUME NEW a, NEW b, NEW c
  PROVE  <<a>> \o <<b, c>> = <<a, b, c>>
<1> DEFINE s == <<a>>
           t == <<b, c>>
           st == s \o t
<1>1. s = [i \in 1 .. 1 |-> s[i]] /\ s[1] = a
  BY Single
<1>2. t = [i \in 1 .. 2 |-> t[i]] /\ t[1] = b /\ t[2] = c
  BY Pair
<1> HIDE DEF s, t
<1>3. st = [i \in 1 .. 1 + 2 |-> st[i]] /\ (\A i \in 1 .. 1 : st[i] = s[i])
      /\ \A i \in 1 .. 2 : st[1 + i] = t[i]
  BY <1>1, <1>2, ConcatAny
<1> HIDE DEF st
<1>4. st = <<st[1], st[2], st[3]>> /\ st[1] = a /\ st[2] = b /\ st[3] = c
  BY <1>1, <1>2, <1>3, Make3
<1> QED
  BY <1>4 DEF s, t, st

\* The IP header of a packet with a timestamp option, cell by cell.
LEMMA HeaderFacts ==
  ASSUME TypeOK, stamps # "none", NEW rec, NEW dst, NEW p,
         NEW hd, hd = IpHeader(Option(rec), dst, p)
  PROVE  /\ Len(hd) = 2 + Slots
         /\ hd = [i \in 1 .. 2 + Slots |-> hd[i]]
         /\ hd[2] = [flag |-> IF stamps = "tsaddr" THEN 1 ELSE 0, len |-> 4 + 4 * Slots, ptr |-> 5 + 4 * rec]
         /\ \A k \in 1 .. Slots : hd[2 + k] = [slot |-> IF k <= rec THEN k ELSE 0]
<1> DEFINE head == <<[flag |-> IF stamps = "tsaddr" THEN 1 ELSE 0, len |-> 4 + 4 * Slots, ptr |-> 5 + 4 * rec]>>
           words == [k \in 1 .. Slots |-> [slot |-> IF k <= rec THEN k ELSE 0]]
           opt == head \o words
           ip == <<[hl |-> IpLen + Len(opt), dst |-> dst, p |-> p]>>
           header == ip \o opt
<1>1. Option(rec) = opt
  BY DEF Option
<1>2. head = [i \in 1 .. 1 |-> head[i]] /\ ip = [i \in 1 .. 1 |-> ip[i]]
  <2>1. head = [i \in 1 .. 1 |-> head[i]]
    BY Single
  <2>2. ip = [i \in 1 .. 1 |-> ip[i]]
    BY Single
  <2> QED
    BY <2>1, <2>2
<1>3. words = [i \in 1 .. Slots |-> words[i]] /\ Slots \in 2 .. 3
  BY DEF Slots
<1>4. hd = header
  BY <1>1 DEF IpHeader
<1>5. head[1] = [flag |-> IF stamps = "tsaddr" THEN 1 ELSE 0, len |-> 4 + 4 * Slots, ptr |-> 5 + 4 * rec]
      /\ \A k \in 1 .. Slots : words[k] = [slot |-> IF k <= rec THEN k ELSE 0]
  OBVIOUS
<1> HIDE DEF head, words
<1>6. opt = [i \in 1 .. 1 + Slots |-> opt[i]] /\ Len(opt) = 1 + Slots
      /\ (\A i \in 1 .. 1 : opt[i] = head[i]) /\ \A i \in 1 .. Slots : opt[1 + i] = words[i]
  BY <1>2, <1>3, ConcatAny
<1> HIDE DEF opt, ip
<1>7. header = [i \in 1 .. 1 + (1 + Slots) |-> header[i]] /\ Len(header) = 1 + (1 + Slots)
      /\ \A i \in 1 .. 1 + Slots : header[1 + i] = opt[i]
  <2>1. 1 + Slots \in Nat
    BY <1>3
  <2> QED
    BY <1>2, <1>6, <2>1, ConcatAny
<1> HIDE DEF header
<1>8. 1 + (1 + Slots) = 2 + Slots /\ 1 \in 1 .. 1 + Slots /\ \A k \in 1 .. Slots : 1 + k \in 1 .. 1 + Slots /\ 1 + (1 + k) = 2 + k
  BY <1>3
<1>9. header[1 + 1] = head[1]
  <2>1. header[1 + 1] = opt[1]
    BY <1>7, <1>8
  <2>2. opt[1] = head[1]
    BY <1>6
  <2> QED
    BY <2>1, <2>2
<1>10. \A k \in 1 .. Slots : header[2 + k] = words[k]
  BY <1>6, <1>7, <1>8
<1>11. Len(header) = 2 + Slots /\ header = [i \in 1 .. 2 + Slots |-> header[i]]
  BY <1>7, <1>8
<1>12. header[2] = [flag |-> IF stamps = "tsaddr" THEN 1 ELSE 0, len |-> 4 + 4 * Slots, ptr |-> 5 + 4 * rec]
  BY <1>5, <1>9
<1>13. \A k \in 1 .. Slots : header[2 + k] = [slot |-> IF k <= rec THEN k ELSE 0]
  BY <1>5, <1>10
<1> QED
  BY <1>4, <1>11, <1>12, <1>13, Zenon

\* The walk over the option stops behind the last recorded word, or the last
\* there is room for.
LEMMA ShownFacts ==
  ASSUME TypeOK, stamps # "none", NEW rec \in Records, NEW dst, NEW p
  PROVE  Shown(IpHeader(Option(rec), dst, p)) = Stamps(rec)
<1> DEFINE header == IpHeader(Option(rec), dst, p)
           opt == [flag |-> IF stamps = "tsaddr" THEN 1 ELSE 0, len |-> 4 + 4 * Slots, ptr |-> 5 + 4 * rec]
           D == {5 + 4 * k : k \in 0 .. MaxOpt + 1}
           from[j \in D] ==
             <<<<Kind(opt.flag, j), header[IpLen + 1 + (j - 1) \div 4].slot>>>>
               \o (IF j + 4 >= WalkEnd(opt) THEN <<>> ELSE from[j + 4])
<1>1. /\ Len(header) = 2 + Slots /\ header[2] = opt
      /\ \A k \in 1 .. Slots : header[2 + k] = [slot |-> IF k <= rec THEN k ELSE 0]
  <2> HIDE DEF header
  <2>1. header = header
    OBVIOUS
  <2> QED
    BY HeaderFacts DEF header
<1>2. /\ rec \in 0 .. Slots /\ Slots \in 2 .. 3
      /\ stamps = "tsaddr" => Slots = 2 /\ rec \in {0, 2}
      /\ stamps # "tsaddr" => Slots = 3
  <2>1. stamps \in {"tsonly", "tsaddr"}
    BY PacketAssumption DEF TypeOK
  <2>2. CASE stamps = "tsonly"
    BY <2>2 DEF Records, Slots
  <2>3. CASE stamps = "tsaddr"
    BY <2>3 DEF Records, Slots
  <2> QED
    BY <2>1, <2>2, <2>3
<1> DEFINE e(j) == <<Kind(opt.flag, j), header[IpLen + 1 + (j - 1) \div 4].slot>>
           stop(j) == j + 4 >= WalkEnd(opt)
           g == [j \in D |-> IF j >= 13 \/ stop(j) THEN <<e(j)>>
                             ELSE IF j = 9 THEN <<e(9), e(13)>>
                             ELSE IF stop(9) THEN <<e(5), e(9)>> ELSE <<e(5), e(9), e(13)>>]
<1>3. Shown(header) = from[5]
  <2>1. Len(header) # IpLen /\ header[IpLen + 1] = opt /\ ~(opt.len <= 8)
    BY <1>1, <1>2 DEF IpLen
  <2> HIDE DEF header, opt
  <2> QED
    BY <2>1, Zenon DEF Shown
<1>4. WalkEnd(opt) \in Int /\ WalkEnd(opt) <= 16
  BY <1>2 DEF WalkEnd
<1>5. D = {5, 9, 13, 17, 21, 25}
  <2>1. 0 .. MaxOpt + 1 = {0, 1, 2, 3, 4, 5}
    BY DEF MaxOpt
  <2> QED
    BY <2>1
<1> HIDE DEF e, D
<1>6. \A j \in D : j >= 13 => stop(j)
  BY <1>4, <1>5
<1> HIDE DEF stop
<1>7. /\ \A j \in D : j >= 13 => g[j] = <<e(j)>>
      /\ g[9] = IF stop(9) THEN <<e(9)>> ELSE <<e(9), e(13)>>
      /\ g[5] = IF stop(5) THEN <<e(5)>>
                ELSE IF stop(9) THEN <<e(5), e(9)>> ELSE <<e(5), e(9), e(13)>>
  BY <1>5
<1> HIDE DEF g
<1>8. ASSUME NEW j \in D
      PROVE  g[j] = <<e(j)>> \o (IF stop(j) THEN <<>> ELSE g[j + 4])
  <2>1. CASE j >= 13
    <3>1. stop(j) /\ g[j] = <<e(j)>>
      BY <1>6, <1>7, <2>1
    <3> QED
      BY <3>1, Concat0
  <2>2. CASE j = 9
    <3>1. CASE stop(9)
      BY <1>7, <2>2, <3>1, Concat0
    <3>2. CASE ~stop(9)
      <4>1. g[9 + 4] = <<e(13)>> /\ g[9] = <<e(9), e(13)>>
        BY <1>5, <1>7, <3>2
      <4> QED
        BY <2>2, <3>2, <4>1, Concat1
    <3> QED
      BY <3>1, <3>2
  <2>3. CASE j = 5
    <3>1. CASE stop(5)
      BY <1>7, <2>3, <3>1, Concat0
    <3>2. CASE ~stop(5) /\ stop(9)
      <4>1. g[5 + 4] = <<e(9)>> /\ g[5] = <<e(5), e(9)>>
        BY <1>7, <3>2
      <4> QED
        BY <2>3, <3>2, <4>1, Concat1
    <3>3. CASE ~stop(5) /\ ~stop(9)
      <4>1. g[5 + 4] = <<e(9), e(13)>> /\ g[5] = <<e(5), e(9), e(13)>>
        BY <1>7, <3>3
      <4> QED
        BY <2>3, <3>3, <4>1, Concat2
    <3> QED
      BY <3>1, <3>2, <3>3
  <2> QED
    BY <1>5, <2>1, <2>2, <2>3
<1>9. g = [j \in D |-> <<e(j)>> \o (IF stop(j) THEN <<>> ELSE g[j + 4])]
  <2>1. g = [j \in D |-> g[j]]
    BY DEF g
  <2> QED
    BY <1>8, <2>1, Zenon
<1>10. from = [j \in D |-> <<e(j)>> \o (IF stop(j) THEN <<>> ELSE from[j + 4])]
  BY <1>9, Zenon DEF e, stop
<1> HIDE DEF from
<1>11. \A j \in D : from[j] = <<e(j)>> \o (IF stop(j) THEN <<>> ELSE from[j + 4])
  BY <1>10
<1>12. from[5] = g[5]
  <2>1. from[13] = g[13]
    <3>1. 13 \in D /\ stop(13)
      BY <1>5, <1>6
    <3> QED
      BY <1>8, <1>11, <3>1
  <2>2. from[9] = g[9]
    <3>1. 9 \in D /\ from[9 + 4] = g[9 + 4]
      BY <1>5, <2>1
    <3>2. from[9] = <<e(9)>> \o (IF stop(9) THEN <<>> ELSE from[9 + 4])
      BY <1>11, <3>1
    <3>3. g[9] = <<e(9)>> \o (IF stop(9) THEN <<>> ELSE g[9 + 4])
      BY <1>8, <3>1
    <3>4. CASE stop(9)
      BY <3>2, <3>3, <3>4
    <3>5. CASE ~stop(9)
      BY <3>1, <3>2, <3>3, <3>5
    <3> QED
      BY <3>4, <3>5
  <2>3. 5 \in D /\ from[5 + 4] = g[5 + 4]
    BY <1>5, <2>2
  <2>4. from[5] = <<e(5)>> \o (IF stop(5) THEN <<>> ELSE from[5 + 4])
    BY <1>11, <2>3
  <2>5. g[5] = <<e(5)>> \o (IF stop(5) THEN <<>> ELSE g[5 + 4])
    BY <1>8, <2>3
  <2>6. CASE stop(5)
    BY <2>4, <2>5, <2>6
  <2>7. CASE ~stop(5)
    BY <2>3, <2>4, <2>5, <2>7
  <2> QED
    BY <2>6, <2>7
<1>13. Shown(header) = IF stop(5) THEN <<e(5)>>
                       ELSE IF stop(9) THEN <<e(5), e(9)>> ELSE <<e(5), e(9), e(13)>>
  BY <1>3, <1>7, <1>12
<1>14. /\ stop(5) <=> rec \in {0, 1}
       /\ stop(9) <=> rec \in {0, 1, 2}
  <2>1. opt.len = 4 + 4 * Slots /\ opt.ptr = 5 + 4 * rec
    OBVIOUS
  <2> HIDE DEF opt
  <2>2. CASE stamps = "tsaddr"
    BY <1>2, <2>1, <2>2 DEF stop, WalkEnd
  <2>3. CASE stamps # "tsaddr"
    BY <1>2, <2>1, <2>3 DEF stop, WalkEnd
  <2> QED
    BY <2>2, <2>3
<1>15. /\ e(5) = <<Word(1), IF 1 <= rec THEN 1 ELSE 0>>
       /\ e(9) = <<Word(2), IF 2 <= rec THEN 2 ELSE 0>>
       /\ Slots = 3 => e(13) = <<Word(3), IF 3 <= rec THEN 3 ELSE 0>>
  <2>1. opt.flag = IF stamps = "tsaddr" THEN 1 ELSE 0
    OBVIOUS
  <2> HIDE DEF opt, header
  <2>2. /\ Kind(opt.flag, 5) = Word(1) /\ Kind(opt.flag, 9) = Word(2)
        /\ Kind(opt.flag, 13) = Word(3)
    <3>1. /\ (5 \div 4) % 2 = 1 /\ (9 \div 4) % 2 = 0 /\ (13 \div 4) % 2 = 1
          /\ 1 % 2 = 1 /\ 2 % 2 = 0 /\ 3 % 2 = 1
      OBVIOUS
    <3> QED
      BY <2>1, <3>1 DEF Kind, Word
  <2>3. /\ IpLen + 1 + (5 - 1) \div 4 = 2 + 1 /\ IpLen + 1 + (9 - 1) \div 4 = 2 + 2
        /\ IpLen + 1 + (13 - 1) \div 4 = 2 + 3
    BY DEF IpLen
  <2>4. /\ header[2 + 1].slot = IF 1 <= rec THEN 1 ELSE 0
        /\ header[2 + 2].slot = IF 2 <= rec THEN 2 ELSE 0
        /\ Slots = 3 => header[2 + 3].slot = IF 3 <= rec THEN 3 ELSE 0
    <3>1. 1 \in 1 .. Slots /\ 2 \in 1 .. Slots /\ (Slots = 3 => 3 \in 1 .. Slots)
      BY <1>2
    <3>2. ASSUME NEW k \in 1 .. Slots PROVE header[2 + k].slot = IF k <= rec THEN k ELSE 0
      <4>1. header[2 + k] = [slot |-> IF k <= rec THEN k ELSE 0]
        BY <1>1
      <4> QED
        BY <4>1
    <3> QED
      BY <3>1, <3>2
  <2> QED
    BY <2>2, <2>3, <2>4 DEF e
<1> HIDE DEF header
<1>16. ASSUME rec = 0 PROVE Shown(header) = Stamps(rec)
  <2>1. Shown(header) = <<e(5)>> /\ e(5) = <<Word(1), 0>>
    BY <1>13, <1>14, <1>15, <1>16
  <2>2. Stamps(rec) = <<<<Word(1), 0>>>>
    BY <1>16 DEF Stamps
  <2> QED
    BY <2>1, <2>2
<1>17. ASSUME rec = 1 PROVE Shown(header) = Stamps(rec)
  <2>1. Shown(header) = <<<<Word(1), 1>>>>
    BY <1>13, <1>14, <1>15, <1>17
  <2>2. Stamps(rec) = <<<<Word(1), 1>>>>
    <3> DEFINE f == [k \in 1 .. 1 |-> <<Word(k), k>>]
    <3>1. f = [i \in 1 .. 1 |-> f[i]] /\ f[1] = <<Word(1), 1>>
      OBVIOUS
    <3>2. Stamps(rec) = f
      BY <1>17 DEF Stamps
    <3> HIDE DEF f
    <3> QED
      BY <3>1, <3>2, Make1
  <2> QED
    BY <2>1, <2>2
<1>18. ASSUME rec = 2 PROVE Shown(header) = Stamps(rec)
  <2>1. Shown(header) = <<<<Word(1), 1>>, <<Word(2), 2>>>>
    BY <1>13, <1>14, <1>15, <1>18
  <2>2. Stamps(rec) = <<<<Word(1), 1>>, <<Word(2), 2>>>>
    <3> DEFINE f == [k \in 1 .. 2 |-> <<Word(k), k>>]
    <3>1. f = [i \in 1 .. 2 |-> f[i]] /\ f[1] = <<Word(1), 1>> /\ f[2] = <<Word(2), 2>>
      OBVIOUS
    <3>2. Stamps(rec) = f
      BY <1>18 DEF Stamps
    <3> HIDE DEF f
    <3> QED
      BY <3>1, <3>2, Make2
  <2> QED
    BY <2>1, <2>2
<1>19. ASSUME rec = 3 PROVE Shown(header) = Stamps(rec)
  <2>1. Shown(header) = <<<<Word(1), 1>>, <<Word(2), 2>>, <<Word(3), 3>>>>
    <3>1. Slots = 3
      BY <1>2, <1>19
    <3> QED
      BY <1>13, <1>14, <1>15, <1>19, <3>1
  <2>2. Stamps(rec) = <<<<Word(1), 1>>, <<Word(2), 2>>, <<Word(3), 3>>>>
    <3> DEFINE f == [k \in 1 .. 3 |-> <<Word(k), k>>]
    <3>1. /\ f = [i \in 1 .. 3 |-> f[i]] /\ f[1] = <<Word(1), 1>> /\ f[2] = <<Word(2), 2>>
          /\ f[3] = <<Word(3), 3>>
      OBVIOUS
    <3>2. Stamps(rec) = f
      BY <1>19 DEF Stamps
    <3> HIDE DEF f
    <3> QED
      BY <3>1, <3>2, Make3
  <2> QED
    BY <2>1, <2>2
<1>20. rec \in {0, 1, 2, 3}
  BY <1>2
<1> QED
  BY <1>16, <1>17, <1>18, <1>19, <1>20 DEF header

-----------------------------------------------------------------------------
(* What ping_recv makes of a packet.                                       *)

\* The header in front of a message is the one it arrived with.
LEMMA HeaderReceived ==
  ASSUME TypeOK, raw, NEW opt, Options(opt), NEW m, NEW msg, Message(m, msg),
         NEW hd, hd = IpHeader(opt, "here", "icmp")
  PROVE  /\ hd = [i \in 1 .. Behind(opt) |-> hd[i]]
         /\ \A i \in 1 .. Behind(opt) : Received(opt, msg)[i] = hd[i]
<1> DEFINE ip == <<[hl |-> IpLen + Len(opt), dst |-> "here", p |-> "icmp"]>>
           l == Len(opt)
<1>1. ip = [i \in 1 .. 1 |-> ip[i]]
  BY Single
<1>2. hd = ip \o opt /\ Received(opt, msg) = hd \o msg /\ Behind(opt) = 1 + l
  BY DEF IpHeader, Received, Behind
<1>3. l \in Nat /\ opt = [i \in 1 .. l |-> opt[i]] /\ m \in Nat /\ msg = [i \in 1 .. m |-> msg[i]]
  BY DEF Options, Message
<1> HIDE DEF ip, l
<1>4. hd = [i \in 1 .. 1 + l |-> hd[i]]
  <2>1. (ip \o opt) = [i \in 1 .. 1 + l |-> (ip \o opt)[i]]
    <3>1. 1 \in Nat
      OBVIOUS
    <3> QED
      BY <1>1, <1>3, <3>1, ConcatAny
  <2> QED
    BY <1>2, <2>1
<1>5. \A i \in 1 .. 1 + l : (hd \o msg)[i] = hd[i]
  <2>1. 1 + l \in Nat
    BY <1>3
  <2> QED
    BY <1>3, <1>4, <2>1, ConcatAny
<1> QED
  BY <1>2, <1>4, <1>5

\* What ping_recv does with message msg of m cells behind a header with opt.
Judged(opt, m, msg, t, rc, truth, k, rec) ==
  \E buf :
    /\ \A i \in 1 .. m : buf[Behind(opt) + i] = msg[i]
    /\ SubSeq(buf, Behind(opt) + 1, Behind(opt) + m) = msg
    /\ raw => SubSeq(buf, 1, Behind(opt)) = IpHeader(opt, "here", "icmp")
    /\ IF t = 0
       THEN EchoReply(Behind(opt) + m, Behind(opt), rc, buf, truth, k, rec)
       ELSE /\ verdict' = Verdict(truth, k, rec, rc,
                 IF t # 8 /\ MyEchoReply(msg) THEN "error" ELSE "ignored", {}, <<>>)
            /\ UNCHANGED statVars

\* ping_recv finds the ICMP message of a packet that fits the buffer.
LEMMA RecvFacts ==
  ASSUME TypeOK, NEW opt, Options(opt), NEW m, NEW msg, Message(m, msg), Behind(opt) + m <= BufLen,
         NEW t \in {0, 3, 8}, NEW s, msg[1] = [type |-> t, sum |-> s], raw \/ t = 0,
         NEW truth, NEW k, NEW rec, PingRecv(Received(opt, msg), truth, k, rec)
  PROVE  Judged(opt, m, msg, t, IF s = Cksum(msg) THEN 0 ELSE 1, truth, k, rec)
<1>0. /\ Behind(opt) \in 0 .. 5 /\ Len(Received(opt, msg)) = Behind(opt) + m
      /\ \A i \in 1 .. m : Received(opt, msg)[Behind(opt) + i] = msg[i]
      /\ raw => Received(opt, msg)[1] = [hl |-> Behind(opt), dst |-> "here", p |-> "icmp"]
  BY ReceivedFacts
<1> DEFINE h == Behind(opt)
           pkt == Received(opt, msg)
           n == IF Len(pkt) < RecvLimit THEN Len(pkt) ELSE RecvLimit
           part == SubSeq(pkt, 1, n)
           buf == Write(buffer, 0, part)
           hlen == Hl(buf[1])
           icmp == SubSeq(buf, hlen + 1, n)
           rc == IF icmp[1].sum = Cksum(icmp) THEN 0 ELSE 1
<1>1. /\ h \in 0 .. 5 /\ Len(pkt) = h + m /\ \A i \in 1 .. m : pkt[h + i] = msg[i]
      /\ raw => pkt[1] = [hl |-> h, dst |-> "here", p |-> "icmp"]
  BY <1>0, Zenon
<1>2. m \in Nat /\ 2 <= m /\ BufLen \in Nat /\ h + m <= BufLen /\ (~raw => h = 0)
  BY Lengths DEF Message, Behind
<1> DEFINE hd == IpHeader(opt, "here", "icmp")
<1>14. raw => hd = [i \in 1 .. h |-> hd[i]] /\ \A i \in 1 .. h : pkt[i] = hd[i]
  <2>1. SUFFICES ASSUME raw PROVE hd = [i \in 1 .. h |-> hd[i]] /\ \A i \in 1 .. h : pkt[i] = hd[i]
    OBVIOUS
  <2> QED
    BY <2>1, HeaderReceived
<1> HIDE DEF pkt, h, hd
<1>3. n = h + m /\ n \in Nat
  BY <1>1, <1>2 DEF RecvLimit
<1>4. part = [i \in 1 .. h + m |-> pkt[i]]
  <2>1. part = SubSeq(pkt, 1, h + m)
    BY <1>3
  <2>2. h + m \in Nat
    BY <1>1, <1>2
  <2> HIDE DEF part
  <2> QED
    BY <2>1, <2>2, SubSeqFrom
<1>5. \A i \in 1 .. h + m : buf[i] = pkt[i]
  <2>1. DOMAIN part = 1 .. h + m /\ \A i \in 1 .. h + m : part[i] = pkt[i]
    BY <1>4
  <2> HIDE DEF part
  <2>2. buf = [i \in 1 .. BufLen |-> IF i - 0 \in DOMAIN part THEN part[i - 0] ELSE buffer[i]]
    BY DEF Write, TypeOK
  <2> QED
    BY <1>1, <1>2, <2>1, <2>2
<1> HIDE DEF buf, part
<1>6. \A i \in 1 .. m : buf[h + i] = msg[i]
  BY <1>1, <1>2, <1>5
<1>7. hlen = h
  <2>1. buf[1] = pkt[1]
    BY <1>1, <1>2, <1>5
  <2>2. CASE raw
    <3>1. buf[1] = [hl |-> h, dst |-> "here", p |-> "icmp"]
      BY <1>1, <2>1, <2>2, Zenon
    <3>2. "hl" \in DOMAIN buf[1] /\ buf[1].hl = h
      BY <3>1
    <3> QED
      BY <3>2 DEF Hl
  <2>3. CASE ~raw
    <3>1. buf[1] = [type |-> 0, sum |-> s]
      BY <1>2, <1>6, <2>3
    <3> QED
      BY <1>2, <2>3, <3>1 DEF Hl
  <2> QED
    BY <2>2, <2>3
<1> HIDE DEF hlen, n
<1>8. SubSeq(buf, h + 1, h + m) = msg
  <2>1. SubSeq(buf, h + 1, h + m) = [i \in 1 .. (h + m) - (h + 1) + 1 |-> buf[i + (h + 1) - 1]]
    <3>1. h + 1 \in Nat /\ h + m \in Nat
      BY <1>1, <1>2
    <3> QED
      BY <3>1, SubSeqFrom
  <2>2. (h + m) - (h + 1) + 1 = m /\ \A i \in 1 .. m : i + (h + 1) - 1 = h + i
    BY <1>1, <1>2
  <2> QED
    BY <1>6, <2>1, <2>2 DEF Message
<1>15. raw => SubSeq(buf, 1, h) = hd
  <2>1. SUFFICES ASSUME raw PROVE SubSeq(buf, 1, h) = hd
    OBVIOUS
  <2>2. SubSeq(buf, 1, h) = [i \in 1 .. h - 1 + 1 |-> buf[i + 1 - 1]]
    <3>1. 1 \in Nat /\ h \in Nat
      BY <1>1
    <3> QED
      BY <3>1, SubSeqFrom
  <2>3. h - 1 + 1 = h /\ \A i \in 1 .. h : i + 1 - 1 = i /\ i \in 1 .. h + m
    BY <1>1, <1>2
  <2>4. \A i \in 1 .. h : buf[i] = hd[i]
    BY <1>5, <1>14, <2>1, <2>3
  <2> QED
    BY <1>14, <2>1, <2>2, <2>3, <2>4
<1>9. icmp = msg
  BY <1>3, <1>7, <1>8
<1>10. IF n < hlen + HdrLen
       THEN TRUE
       ELSE IF icmp[1].type = 0
            THEN EchoReply(n, hlen, rc, buf, truth, k, rec)
            ELSE /\ verdict' = Verdict(truth, k, rec, rc,
                      IF icmp[1].type # 8 /\ MyEchoReply(icmp) THEN "error" ELSE "ignored",
                      {}, <<>>)
                 /\ UNCHANGED statVars
  BY DEF PingRecv, pkt, n, part, buf, hlen
<1>11. ~(n < hlen + HdrLen)
  BY <1>1, <1>2, <1>3, <1>7 DEF HdrLen
<1> HIDE DEF icmp
<1>12. icmp[1].type = t /\ rc = IF s = Cksum(msg) THEN 0 ELSE 1
  BY <1>9
<1> HIDE DEF rc
<1>13. IF t = 0
       THEN EchoReply(h + m, h, rc, buf, truth, k, rec)
       ELSE /\ verdict' = Verdict(truth, k, rec, rc,
                 IF t # 8 /\ MyEchoReply(msg) THEN "error" ELSE "ignored", {}, <<>>)
            /\ UNCHANGED statVars
  BY <1>3, <1>7, <1>9, <1>10, <1>11, <1>12, Zenon
<1> QED
  BY <1>6, <1>8, <1>12, <1>13, <1>15, Zenon DEF h, hd, Judged

\* A reply of m cells is counted, and timed if its payload has room for the time.
Counted(opt, m, msg, rc, truth, k, rec) ==
  /\ verdict'.event = "counted" /\ verdict'.truth = truth /\ verdict'.sent = k
  /\ verdict'.recorded = rec
  /\ verdict'.shown = IF raw THEN Shown(IpHeader(opt, "here", "icmp")) ELSE <<>>
  /\ verdict'.rc = rc /\ total' = total + 1
  /\ IF Timing(m - HdrLen)
     THEN \E trip \in TripsOf(msg[3]) : Timed(trip) /\ verdict'.trip = {trip}
     ELSE verdict'.trip = {} /\ UNCHANGED <<tmin, tmax, tsum>>

LEMMA CountedFacts ==
  ASSUME TypeOK, NEW opt, Options(opt), NEW m, NEW msg, Message(m, msg), msg[2].id = Ident \/ ~raw,
         NEW rc, NEW truth, NEW k, NEW rec, Judged(opt, m, msg, 0, rc, truth, k, rec)
  PROVE  Counted(opt, m, msg, rc, truth, k, rec)
<1>0. PICK buf :
        /\ \A i \in 1 .. m : buf[Behind(opt) + i] = msg[i]
        /\ SubSeq(buf, Behind(opt) + 1, Behind(opt) + m) = msg
        /\ raw => SubSeq(buf, 1, Behind(opt)) = IpHeader(opt, "here", "icmp")
        /\ EchoReply(Behind(opt) + m, Behind(opt), rc, buf, truth, k, rec)
  BY Zenon DEF Judged
<1> DEFINE h == Behind(opt)
           n == Behind(opt) + m
           len == m - HdrLen
           shown == IF raw THEN Shown(SubSeq(buf, 1, h)) ELSE <<>>
<1>1. h \in 0 .. 5
  BY ReceivedFacts
<1>2. /\ total' = total + 1
      /\ IF Timing(Payload(n, h))
         THEN \E trip \in TripsOf(buf[h + HdrLen + 1]) :
                Timed(trip) /\ verdict' = Verdict(truth, k, rec, rc, "counted", {trip}, shown)
         ELSE /\ verdict' = Verdict(truth, k, rec, rc, "counted", {}, shown)
              /\ UNCHANGED <<tmin, tmax, tsum>>
  <2>1. ~(msg[2].id # Ident /\ raw)
    OBVIOUS
  <2> QED
    BY <1>0, <2>1 DEF EchoReply
<1>7. shown = IF raw THEN Shown(IpHeader(opt, "here", "icmp")) ELSE <<>>
  BY <1>0, Zenon
<1> HIDE DEF shown, h
<1>3. Payload(n, h) = len
  BY <1>1 DEF Payload, HdrLen, h, Message
<1> HIDE DEF n
<1>4. Timing(len) => buf[h + HdrLen + 1] = msg[3]
  <2>1. SUFFICES ASSUME Timing(len) PROVE buf[h + HdrLen + 1] = msg[3]
    OBVIOUS
  <2>2. 3 \in 1 .. m /\ h + HdrLen + 1 = h + 3
    BY <1>1, <2>1 DEF HdrLen, Message, Timing, TimeLen
  <2>3. buf[h + 3] = msg[3]
    BY <1>0, <2>2 DEF h
  <2> QED
    BY <2>2, <2>3
<1>5. CASE Timing(len)
  <2>1. PICK trip \in TripsOf(msg[3]) :
          Timed(trip) /\ verdict' = Verdict(truth, k, rec, rc, "counted", {trip}, shown)
    BY <1>2, <1>3, <1>4, <1>5
  <2>2. /\ verdict'.event = "counted" /\ verdict'.truth = truth /\ verdict'.sent = k
        /\ verdict'.rc = rc /\ verdict'.trip = {trip} /\ verdict'.recorded = rec
        /\ verdict'.shown = shown
    BY <2>1 DEF Verdict
  <2> QED
    BY <1>2, <1>5, <1>7, <2>1, <2>2 DEF Counted
<1>6. CASE ~Timing(len)
  <2>1. /\ verdict' = Verdict(truth, k, rec, rc, "counted", {}, shown)
        /\ UNCHANGED <<tmin, tmax, tsum>>
    BY <1>2, <1>3, <1>6
  <2>2. /\ verdict'.event = "counted" /\ verdict'.truth = truth /\ verdict'.sent = k
        /\ verdict'.rc = rc /\ verdict'.trip = {} /\ verdict'.recorded = rec
        /\ verdict'.shown = shown
    BY <2>1 DEF Verdict
  <2> QED
    BY <1>2, <1>6, <1>7, <2>1, <2>2 DEF Counted
<1> QED
  BY <1>5, <1>6

\* The reply to a sound request: its payload, and the right checksum.
LEMMA ReplyFacts ==
  ASSUME TypeOK, NEW k, NEW req, Sound(datalen, k, req)
  PROVE  LET r == Reply(req.msg)
         IN  /\ Message(Size, r) /\ r[1] = [type |-> 0, sum |-> Cksum(r)]
             /\ r[2] = [id |-> IF raw THEN Ident ELSE Ident + 1, seq |-> k - 1]
             /\ \A i \in 3 .. Size : r[i] = req.msg[i]
<1> DEFINE msg == req.msg
           id == IF raw THEN Ident ELSE Ident + 1
           m == [i \in 1 .. Size |->
                   IF i = 1 THEN [type |-> 0, sum |-> msg[1].sum]
                   ELSE IF i = 2 THEN [id |-> id, seq |-> k - 1] ELSE msg[i]]
           asked == [msg EXCEPT ![1].type = 0, ![2].id = IF raw THEN @ ELSE Ident + 1]
<1>0. Size \in Nat /\ 2 <= Size
  BY Lengths
<1>1. DOMAIN msg = 1 .. Size /\ msg[2] = [id |-> Ident, seq |-> k - 1]
  BY DEF Sound, Size
<1>2. PICK s : msg[1] = [type |-> 8, sum |-> s]
  BY DEF Sound
<1>3. asked = m
  <2> DEFINE one == [msg[1] EXCEPT !.type = 0]
             two == [msg[2] EXCEPT !.id = IF raw THEN @ ELSE Ident + 1]
             mm == [i \in 1 .. Size |-> IF i = 1 THEN one ELSE IF i = 2 THEN two ELSE msg[i]]
  <2>1. one = [type |-> 0, sum |-> msg[1].sum]
    BY <1>2
  <2>2. two = [id |-> id, seq |-> k - 1]
    BY <1>1
  <2> HIDE DEF id
  <2>3. asked = mm
    <3>1. asked = [[msg EXCEPT ![1] = one] EXCEPT ![2] = two]
      BY <1>0, <1>1
    <3> HIDE DEF one, two
    <3> QED
      BY <1>0, <1>1, <3>1
  <2> HIDE DEF one, two
  <2> QED
    BY <2>1, <2>2, <2>3
<1>4. Reply(msg) = Summed(m)
  <2>1. Reply(msg) = Summed(asked)
    BY DEF Reply
  <2> HIDE DEF asked, m
  <2> QED
    BY <1>3, <2>1
<1>5. DOMAIN m = 1 .. Size /\ m[1] = [type |-> 0, sum |-> msg[1].sum]
      /\ m[2] = [id |-> id, seq |-> k - 1] /\ \A i \in 3 .. Size : m[i] = msg[i]
  BY <1>0
<1> HIDE DEF m
<1>6. /\ Summed(m) = [i \in 1 .. Size |-> IF i = 1 THEN [type |-> 0, sum |-> Cksum(m)] ELSE m[i]]
      /\ Cksum(Summed(m)) = Cksum(m)
  BY <1>0, <1>5, SummedFacts
<1> DEFINE r == Summed(m)
<1> HIDE DEF r
<1>7. /\ r = [i \in 1 .. Size |-> IF i = 1 THEN [type |-> 0, sum |-> Cksum(r)] ELSE m[i]]
      /\ r = [i \in 1 .. Size |-> r[i]] /\ r[1] = [type |-> 0, sum |-> Cksum(r)]
  <2>1. r = [i \in 1 .. Size |-> IF i = 1 THEN [type |-> 0, sum |-> Cksum(r)] ELSE m[i]]
    BY <1>6 DEF r
  <2> DEFINE c == Cksum(r)
  <2> HIDE DEF c
  <2>2. r = [i \in 1 .. Size |-> IF i = 1 THEN [type |-> 0, sum |-> c] ELSE m[i]]
    BY <2>1 DEF c
  <2>3. r = [i \in 1 .. Size |-> r[i]]
    BY <2>2
  <2>4. r[1] = [type |-> 0, sum |-> c]
    BY <1>0, <2>2
  <2> QED
    BY <2>1, <2>3, <2>4 DEF c
<1> HIDE DEF id, msg, asked
<1>8. r[2] = [id |-> id, seq |-> k - 1] /\ \A i \in 3 .. Size : r[i] = msg[i]
  <2>1. \A i \in 2 .. Size : r[i] = m[i]
    <3> DEFINE c == [type |-> 0, sum |-> Cksum(r)]
    <3> HIDE DEF c
    <3>1. r = [i \in 1 .. Size |-> IF i = 1 THEN c ELSE m[i]]
      BY <1>7 DEF c
    <3> QED
      BY <3>1
  <2> QED
    BY <1>0, <1>5, <2>1
<1>10. Reply(msg) = r
  BY <1>4 DEF r
<1> QED
  BY <1>0, <1>7, <1>8, <1>10 DEF msg, id, Message

\* A cell damaged on the way differs, and is no longer of another kind.
LEMMA DamagedCell ==
  ASSUME NEW cell \in GoodCells
  PROVE  Damaged(cell) # cell /\ Damaged(cell) \in GoodCells \cup {[junk |-> 1], [pat |-> 0]}
<1>1. CASE cell \in [junk : {0}]
  <2>1. cell = [junk |-> 0]
    BY <1>1
  <2>2. Damaged(cell) = [junk |-> 1]
    BY <2>1 DEF Damaged
  <2> QED
    BY <2>1, <2>2
<1>2. CASE cell \in [time : Int]
  <2>1. PICK t \in Int : cell = [time |-> t]
    BY <1>2
  <2>2. Damaged(cell) = [time |-> t - 1]
    BY <2>1 DEF Damaged
  <2> QED
    BY <2>1, <2>2 DEF GoodCells
<1>3. CASE cell \in [usec : {0}]
  <2>1. cell = [usec |-> 0]
    BY <1>3
  <2>2. Damaged(cell) = [junk |-> 1]
    BY <2>1 DEF Damaged
  <2> QED
    BY <2>1, <2>2
<1>4. CASE cell \in [pat : Nat \ {0}]
  <2>1. PICK n \in Nat \ {0} : cell = [pat |-> n]
    BY <1>4
  <2>2. Damaged(cell) = [pat |-> 0]
    BY <2>1 DEF Damaged
  <2> QED
    BY <2>1, <2>2
<1> QED
  BY <1>1, <1>2, <1>3, <1>4 DEF GoodCells

LEMMA TripsFacts ==
  ASSUME TypeOK, NEW cell \in GoodCells \cup {[junk |-> 1], [pat |-> 0]}
  PROVE  TripsOf(cell) \subseteq Int
<1>1. now \in Int /\ JunkTrips \subseteq Int
  BY PacketAssumption DEF TypeOK
<1>2. CASE "time" \in DOMAIN cell
  <2>1. PICK t \in Int : cell = [time |-> t]
    BY <1>2 DEF GoodCells
  <2> QED
    BY <1>1, <2>1 DEF TripsOf
<1>3. CASE "time" \notin DOMAIN cell
  BY <1>1, <1>3 DEF TripsOf
<1> QED
  BY <1>2, <1>3

\* A reply to this process with a wrong checksum and a payload of known cells.
Broken(msg) ==
  /\ Message(Size, msg)
  /\ msg[1] = [type |-> 0, sum |-> msg[1].sum] /\ msg[1].sum # Cksum(msg)
  /\ msg[2].id = Ident \/ ~raw
  /\ Timing(datalen) => msg[3] \in GoodCells \cup {[junk |-> 1], [pat |-> 0]}

\* That is what a change anywhere behind the first cell makes of a reply.
LEMMA DamagedFacts ==
  ASSUME TypeOK, NEW k \in Int, NEW req, Sound(datalen, k, req), NEW i \in 2 .. Size
  PROVE  Broken([Reply(req.msg) EXCEPT ![i] = Damaged(@)])
<1> DEFINE id == IF raw THEN Ident ELSE Ident + 1
           r == Reply(req.msg)
           new == Damaged(r[i])
           d == [r EXCEPT ![i] = Damaged(@)]
<1>0. Size \in Nat /\ 2 <= Size
  BY Lengths
<1>1. /\ Message(Size, r) /\ r[1] = [type |-> 0, sum |-> Cksum(r)]
      /\ r[2] = [id |-> id, seq |-> k - 1] /\ \A j \in 3 .. Size : r[j] = req.msg[j]
  BY ReplyFacts
<1>2. id = Ident \/ ~raw
  OBVIOUS
<1>3. \A j \in 3 .. Size : req.msg[j] \in GoodCells
  BY DEF Sound, Size
<1> HIDE DEF r, id
<1>4. d = [j \in 1 .. Size |-> IF j = i THEN new ELSE r[j]]
  BY <1>1 DEF Message
<1>5. new # r[i] /\ (i = 2 => new.id = id)
      /\ (i # 2 => new \in GoodCells \cup {[junk |-> 1], [pat |-> 0]})
  <2>1. CASE i = 2
    <3>1. new = [id |-> id, seq |-> (k - 1) + 1]
      BY <1>1, <2>1 DEF Damaged
    <3> QED
      BY <1>1, <2>1, <3>1
  <2>2. CASE i # 2
    <3>1. i \in 3 .. Size
      BY <1>0, <2>2
    <3>2. r[i] \in GoodCells
      BY <1>1, <1>3, <3>1
    <3> QED
      BY <2>2, <3>2, DamagedCell
  <2> QED
    BY <2>1, <2>2
<1> HIDE DEF new, d
<1>6. /\ DOMAIN d = 1 .. Size /\ d = [j \in 1 .. Size |-> d[j]] /\ d[1] = r[1] /\ d[i] = new
      /\ \A j \in 2 .. Size : j # i => d[j] = r[j]
  BY <1>0, <1>4
<1>7. Cksum(d) # Cksum(r)
  <2>1. DOMAIN r = 1 .. Size
    BY <1>1 DEF Message
  <2>2. d[i] # r[i] /\ d[1] = [type |-> 0, sum |-> Cksum(r)] /\ r[1] = d[1] /\ DOMAIN d = 1 .. Size
    BY <1>1, <1>5, <1>6
  <2> HIDE DEF Cksum
  <2> QED
    BY <1>0, <2>1, <2>2, CksumTells
<1>8. d[2].id = Ident \/ ~raw
  <2>1. CASE i = 2
    BY <1>2, <1>5, <1>6, <2>1
  <2>2. CASE i # 2
    <3>1. 2 \in 2 .. Size /\ 2 # i
      BY <1>0, <2>2
    <3>2. d[2] = r[2]
      BY <1>6, <3>1
    <3> QED
      BY <1>1, <1>2, <3>2
  <2> QED
    BY <2>1, <2>2
<1>9. Timing(datalen) => d[3] \in GoodCells \cup {[junk |-> 1], [pat |-> 0]}
  <2>1. SUFFICES ASSUME Timing(datalen) PROVE d[3] \in GoodCells \cup {[junk |-> 1], [pat |-> 0]}
    OBVIOUS
  <2>2. 3 \in 3 .. Size /\ 3 \in 2 .. Size
    BY <2>1, OffFacts, Lengths
  <2>3. CASE i = 3
    BY <1>5, <1>6, <2>3
  <2>4. CASE i # 3
    <3>1. d[3] = r[3] /\ r[3] = req.msg[3] /\ req.msg[3] \in GoodCells
      BY <1>1, <1>3, <1>6, <2>2, <2>4
    <3> QED
      BY <3>1
  <2> QED
    BY <2>3, <2>4
<1>10. Message(Size, d) /\ d[1] = [type |-> 0, sum |-> Cksum(r)]
  BY <1>0, <1>1, <1>6 DEF Message
<1>12. Broken(d)
  BY <1>7, <1>8, <1>9, <1>10 DEF Broken
<1> QED
  BY <1>12 DEF d, r

\* An error: its head and the quoted IP header, and behind it the message.
LEMMA ErrorFacts ==
  ASSUME NEW opt, Options(opt), NEW dst, NEW p, NEW msg
  PROVE  LET e == Error(opt, dst, p, msg)
         IN  /\ Message(5 + Len(opt), e) /\ e[1] = [type |-> 3, sum |-> Cksum(e)]
             /\ e[3].dst = dst /\ e[3].p = p
             /\ opt = <<>> => e[4] = msg[1] /\ e[5] = msg[2]
<1> DEFINE l == Len(opt)
           head == <<[type |-> 3, sum |-> <<>>], [id |-> 0, seq |-> 0]>>
           ip == <<[hl |-> IpLen + l, dst |-> dst, p |-> p]>>
           data == SubSeq(msg, 1, HdrLen)
           quoted == ip \o opt
           front == head \o quoted
           all == front \o data
<1>1. Error(opt, dst, p, msg) = Summed(all)
  BY DEF Error, IpHeader
<1>2. l \in 0 .. 4 /\ opt = [i \in 1 .. l |-> opt[i]]
  BY DEF Options
<1>3. head = [i \in 1 .. 2 |-> head[i]] /\ head[1] = [type |-> 3, sum |-> <<>>]
  OBVIOUS
<1>4. ip = [i \in 1 .. 1 |-> ip[i]] /\ ip[1].dst = dst /\ ip[1].p = p
  OBVIOUS
<1>5. data = [i \in 1 .. 2 |-> data[i]] /\ data[1] = msg[1] /\ data[2] = msg[2]
  <2>1. data = [i \in 1 .. HdrLen - 1 + 1 |-> msg[i + 1 - 1]]
    BY SubSeqFrom DEF HdrLen
  <2>2. data = [i \in 1 .. 2 |-> msg[i]]
    BY <2>1 DEF HdrLen
  <2> HIDE DEF data
  <2> QED
    BY <2>2
<1>6. opt = <<>> => l = 0
  OBVIOUS
<1> HIDE DEF l, head, ip, data
<1>7. quoted = [i \in 1 .. 1 + l |-> quoted[i]] /\ quoted[1] = ip[1]
  <2>1. 1 \in Nat /\ l \in Nat /\ 1 \in 1 .. 1
    BY <1>2
  <2> QED
    BY <1>2, <1>4, <2>1, ConcatAny
<1> HIDE DEF quoted
<1>8. /\ front = [i \in 1 .. 2 + (1 + l) |-> front[i]]
      /\ \A i \in 1 .. 2 : front[i] = head[i]
      /\ \A i \in 1 .. 1 + l : front[2 + i] = quoted[i]
  <2>1. 2 \in Nat /\ 1 + l \in Nat
    BY <1>2
  <2> QED
    BY <1>3, <1>7, <2>1, ConcatAny
<1> HIDE DEF front
<1> DEFINE a == 2 + (1 + l)
<1>9. /\ all = [i \in 1 .. a + 2 |-> all[i]]
      /\ \A i \in 1 .. a : all[i] = front[i]
      /\ \A i \in 1 .. 2 : all[a + i] = data[i]
  <2>1. 2 \in Nat /\ a \in Nat
    BY <1>2
  <2>2. front = [i \in 1 .. a |-> front[i]]
    BY <1>8
  <2> HIDE DEF a
  <2> QED
    BY <1>5, <2>1, <2>2, ConcatAny
<1> HIDE DEF all
<1>10. /\ DOMAIN all = 1 .. 5 + l /\ all[1] = [type |-> 3, sum |-> <<>>] /\ all[3] = ip[1]
       /\ l = 0 => all[4] = msg[1] /\ all[5] = msg[2]
  <2>1. (2 + (1 + l)) + 2 = 5 + l
    BY <1>2
  <2>2. DOMAIN all = 1 .. 5 + l
    BY <1>9, <2>1
  <2>3. all[1] = front[1] /\ all[3] = front[3] /\ front[1] = head[1]
    <3>1. 1 \in 1 .. a /\ 3 \in 1 .. a /\ 1 \in 1 .. 2
      BY <1>2
    <3> QED
      BY <1>8, <1>9, <3>1
  <2>4. front[2 + 1] = quoted[1]
    <3>1. 1 \in 1 .. 1 + l
      BY <1>2
    <3> QED
      BY <1>8, <3>1
  <2>5. l = 0 => all[4] = data[1] /\ all[5] = data[2]
    <3>1. SUFFICES ASSUME l = 0 PROVE all[4] = data[1] /\ all[5] = data[2]
      OBVIOUS
    <3>2. \A i \in 1 .. 2 : all[3 + i] = data[i]
      BY <1>9, <3>1
    <3> QED
      BY <3>2
  <2> QED
    BY <1>3, <1>5, <1>7, <2>2, <2>3, <2>4, <2>5
<1> DEFINE e == Summed(all)
           c == [type |-> 3, sum |-> Cksum(e)]
<1>11. e = [i \in 1 .. 5 + l |-> IF i = 1 THEN c ELSE all[i]]
  <2>1. 5 + l \in Nat /\ 5 + l >= 2
    BY <1>2
  <2> QED
    BY <1>10, <2>1, SummedFacts
<1> HIDE DEF e, c
<1>12. /\ e = [i \in 1 .. 5 + l |-> e[i]] /\ e[1] = c
       /\ e[3] = all[3] /\ e[4] = all[4] /\ e[5] = all[5]
  BY <1>2, <1>11
<1>13. Message(5 + l, e)
  BY <1>2, <1>12 DEF Message
<1> QED
  BY <1>1, <1>4, <1>6, <1>10, <1>12, <1>13 DEF e, c, l

-----------------------------------------------------------------------------
(* What is concluded from a packet.                                        *)

\* A reply with len cells of payload enters the statistics with a trip, or has
\* none to enter.
Entered(len) ==
  /\ total' = total + 1
  /\ IF Timing(len) THEN (\E trip \in Int : Timed(trip)) ELSE UNCHANGED <<tmin, tmax, tsum>>

\* One that is not forged has the length of the requests.
AsSent == Entered(datalen) /\ UNCHANGED short

LEMMA ReplyStep ==
  ASSUME PacketInv, ReceiveReply
  PROVE  /\ verdict'.event = "counted" /\ verdict'.truth = "reply" /\ verdict'.rc = 0
         /\ ~wire[verdict'.sent].spoiled
              => verdict'.trip = IF Timing(datalen) THEN {now - wire[verdict'.sent].at} ELSE {}
         /\ raw /\ stamps # "none" => verdict'.shown = Stamps(verdict'.recorded)
         /\ AsSent
<1>1. PICK k \in DOMAIN wire, rec \in Records :
        PingRecv(Received(Option(rec), Reply(wire[k].msg)), "reply", k, rec)
  BY DEF ReceiveReply
<1>2. TypeOK /\ k \in 1 .. Len(wire) /\ Sound(datalen, k, wire[k])
  BY <1>1 DEF PacketInv, WireType, AllSound
<1> DEFINE opt == Option(rec)
           msg == Reply(wire[k].msg)
<1>3. /\ Message(Size, msg) /\ msg[1] = [type |-> 0, sum |-> Cksum(msg)]
      /\ msg[2] = [id |-> IF raw THEN Ident ELSE Ident + 1, seq |-> k - 1]
      /\ \A i \in 3 .. Size : msg[i] = wire[k].msg[i]
  BY <1>2, ReplyFacts
<1>4. Options(opt)
  BY <1>2, OptionFacts
<1> HIDE DEF opt, msg
<1>5. Behind(opt) + Size <= BufLen
  <2>1. Behind(opt) \in 0 .. 5
    BY <1>2, <1>3, <1>4, ReceivedFacts
  <2> QED
    BY <1>2, <2>1, Lengths
<1>6. Judged(opt, Size, msg, 0, 0, "reply", k, rec)
  <2>1. PingRecv(Received(opt, msg), "reply", k, rec)
    BY <1>1 DEF opt, msg
  <2>2. 0 \in {0, 3, 8} /\ (raw \/ 0 = 0)
    OBVIOUS
  <2> QED
    BY <1>2, <1>3, <1>4, <1>5, <2>1, <2>2, RecvFacts
<1>7. msg[2].id = Ident \/ ~raw
  BY <1>3
<1>11. Counted(opt, Size, msg, 0, "reply", k, rec)
  BY <1>2, <1>3, <1>4, <1>6, <1>7, CountedFacts
<1>13. Size - HdrLen = datalen /\ UNCHANGED short
  BY <1>2, Lengths DEF HdrLen, ReceiveReply, Genuine
<1>8. /\ verdict'.event = "counted" /\ verdict'.truth = "reply" /\ verdict'.sent = k
      /\ verdict'.rc = 0 /\ total' = total + 1
      /\ IF Timing(datalen)
         THEN \E trip \in TripsOf(msg[3]) : Timed(trip) /\ verdict'.trip = {trip}
         ELSE verdict'.trip = {} /\ UNCHANGED <<tmin, tmax, tsum>>
  BY <1>11, <1>13 DEF Counted
<1>12. raw /\ stamps # "none" => verdict'.shown = Stamps(verdict'.recorded)
  <2>1. SUFFICES ASSUME raw, stamps # "none" PROVE verdict'.shown = Stamps(verdict'.recorded)
    OBVIOUS
  <2>2. verdict'.shown = Shown(IpHeader(opt, "here", "icmp")) /\ verdict'.recorded = rec
    BY <1>11, <2>1 DEF Counted
  <2>3. Shown(IpHeader(Option(rec), "here", "icmp")) = Stamps(rec)
    BY <1>1, <1>2, <2>1, ShownFacts
  <2> QED
    BY <2>2, <2>3 DEF opt
<1>9. CASE Timing(datalen)
  <2>1. 3 \in 3 .. Size /\ msg[3] = wire[k].msg[3] /\ msg[3] \in GoodCells
    BY <1>2, <1>3, <1>9, OffFacts, Lengths DEF Sound, Size
  <2>2. PICK trip \in TripsOf(msg[3]) : Timed(trip) /\ verdict'.trip = {trip}
    BY <1>8, <1>9
  <2>3. trip \in Int
    BY <1>2, <2>1, <2>2, TripsFacts
  <2>4. ~wire[k].spoiled => trip = now - wire[k].at
    <3>1. SUFFICES ASSUME ~wire[k].spoiled PROVE trip = now - wire[k].at
      OBVIOUS
    <3> DEFINE at == wire[k].at
               body == Body(datalen, k - 1, at)
    <3>2. wire[k].msg = Summed(body)
      BY <1>2, <3>1 DEF Sound
    <3>3. DOMAIN body = 1 .. Size /\ body[1] = [type |-> 8, sum |-> <<>>] /\ body[3] = [time |-> at]
      <4>1. Size \in Nat /\ 3 \in 1 .. Size /\ 3 <= 2 + Off(datalen)
        BY <1>2, <1>9, OffFacts, Lengths
      <4>2. Fill(datalen, 3, at) = [time |-> at]
        BY <4>1 DEF Fill, HdrLen, Timeval
      <4> QED
        BY <4>1, <4>2 DEF Body, Size
    <3> HIDE DEF body, at
    <3>4. Summed(body)[3] = body[3]
      <4>1. Size \in Nat /\ Size >= 2 /\ 3 \in 1 .. Size
        BY <1>2, <2>1, Lengths
      <4>2. Summed(body) = [i \in 1 .. Size |-> IF i = 1 THEN [type |-> 8, sum |-> Cksum(body)] ELSE body[i]]
        BY <3>3, <4>1, SummedFacts
      <4> QED
        BY <4>1, <4>2
    <3>5. msg[3] = [time |-> at]
      BY <2>1, <3>2, <3>3, <3>4
    <3>6. TripsOf(msg[3]) = {now - at}
      BY <3>5 DEF TripsOf
    <3> QED
      BY <2>2, <3>6 DEF at
  <2> QED
    BY <1>8, <1>9, <1>12, <1>13, <2>2, <2>3, <2>4 DEF Entered, AsSent
<1>10. CASE ~Timing(datalen)
  BY <1>8, <1>10, <1>12, <1>13 DEF Entered, AsSent
<1> QED
  BY <1>9, <1>10

LEMMA DamagedStep ==
  ASSUME PacketInv, ReceiveDamaged
  PROVE  verdict'.event = "counted" /\ verdict'.truth = "damaged" /\ verdict'.rc = 1 /\ AsSent
<1>1. PICK k \in DOMAIN wire : \E i \in 2 .. HdrLen + datalen :
        PingRecv(Received(Option(0), [Reply(wire[k].msg) EXCEPT ![i] = Damaged(@)]), "damaged", k, 0)
  BY DEF ReceiveDamaged
<1>2. PICK i \in 2 .. Size :
        PingRecv(Received(Option(0), [Reply(wire[k].msg) EXCEPT ![i] = Damaged(@)]), "damaged", k, 0)
  BY <1>1 DEF Size
<1>3. TypeOK /\ k \in 1 .. Len(wire) /\ Sound(datalen, k, wire[k])
  BY <1>1 DEF PacketInv, WireType, AllSound
<1> DEFINE opt == Option(0)
           msg == [Reply(wire[k].msg) EXCEPT ![i] = Damaged(@)]
<1>10. Broken(msg)
  BY <1>3, DamagedFacts
<1>5. Options(opt)
  BY <1>3, OptionFacts
<1> HIDE DEF opt, msg
<1>4. /\ Message(Size, msg) /\ msg[1] = [type |-> 0, sum |-> msg[1].sum] /\ msg[1].sum # Cksum(msg)
      /\ msg[2].id = Ident \/ ~raw
      /\ Timing(datalen) => msg[3] \in GoodCells \cup {[junk |-> 1], [pat |-> 0]}
  BY <1>10 DEF Broken
<1>6. Behind(opt) + Size <= BufLen
  <2>1. Behind(opt) \in 0 .. 5
    BY <1>3, <1>4, <1>5, ReceivedFacts
  <2> QED
    BY <1>3, <2>1, Lengths
<1>7. Judged(opt, Size, msg, 0, 1, "damaged", k, 0)
  <2>1. PingRecv(Received(opt, msg), "damaged", k, 0)
    BY <1>2 DEF opt, msg
  <2>2. 0 \in {0, 3, 8} /\ (raw \/ 0 = 0)
    OBVIOUS
  <2>3. (IF msg[1].sum = Cksum(msg) THEN 0 ELSE 1) = 1
    BY <1>4
  <2> QED
    BY <1>3, <1>4, <1>5, <1>6, <2>1, <2>2, <2>3, RecvFacts
<1>11. Counted(opt, Size, msg, 1, "damaged", k, 0)
  BY <1>3, <1>4, <1>5, <1>7, CountedFacts
<1>13. Size - HdrLen = datalen /\ UNCHANGED short
  BY <1>3, Lengths DEF HdrLen, ReceiveDamaged, Genuine
<1>8. /\ verdict'.event = "counted" /\ verdict'.truth = "damaged" /\ verdict'.rc = 1
      /\ total' = total + 1
      /\ IF Timing(datalen) THEN \E trip \in TripsOf(msg[3]) : Timed(trip)
                            ELSE UNCHANGED <<tmin, tmax, tsum>>
  BY <1>11, <1>13 DEF Counted
<1>9. Timing(datalen) => TripsOf(msg[3]) \subseteq Int
  BY <1>3, <1>4, TripsFacts
<1> QED
  BY <1>8, <1>9, <1>13 DEF Entered, AsSent

\* A message of another type than an echo reply, or for another process.
LEMMA OtherFacts ==
  ASSUME TypeOK, raw, NEW m, NEW msg, Message(m, msg), m <= 9,
         NEW t \in {0, 3, 8},
         NEW s, msg[1] = [type |-> t, sum |-> s], t = 0 => msg[2].id # Ident,
         NEW truth, NEW k, NEW rec, PingRecv(Received(<<>>, msg), truth, k, rec)
  PROVE  /\ verdict'.truth = truth /\ UNCHANGED statVars
         /\ verdict'.event = IF t = 3 /\ MyEchoReply(msg) THEN "error" ELSE "ignored"
<1>1. Options(<<>>) /\ Behind(<<>>) = 1 /\ Behind(<<>>) + m <= BufLen
  <2>1. Options(<<>>) /\ Behind(<<>>) = 1
    BY DEF Options, Behind
  <2> QED
    BY <2>1, Lengths DEF Message
<1> DEFINE rc == IF s = Cksum(msg) THEN 0 ELSE 1
<1>2. Judged(<<>>, m, msg, t, rc, truth, k, rec)
  BY <1>1, RecvFacts
<1>3. PICK buf :
        /\ SubSeq(buf, Behind(<<>>) + 1, Behind(<<>>) + m) = msg
        /\ IF t = 0
           THEN EchoReply(Behind(<<>>) + m, Behind(<<>>), rc, buf, truth, k, rec)
           ELSE /\ verdict' = Verdict(truth, k, rec, rc,
                     IF t # 8 /\ MyEchoReply(msg) THEN "error" ELSE "ignored", {}, <<>>)
                /\ UNCHANGED statVars
  BY <1>2, Zenon DEF Judged
<1> HIDE DEF rc
<1>4. CASE t = 0
  <2>1. verdict' = Verdict(truth, k, rec, rc, "ignored", {}, <<>>) /\ UNCHANGED statVars
    BY <1>3, <1>4 DEF EchoReply
  <2> QED
    BY <1>4, <2>1 DEF Verdict
<1>5. CASE t # 0
  <2>1. /\ verdict' = Verdict(truth, k, rec, rc,
             IF t # 8 /\ MyEchoReply(msg) THEN "error" ELSE "ignored", {}, <<>>)
        /\ UNCHANGED statVars
    BY <1>3, <1>5
  <2>2. (t # 8 /\ MyEchoReply(msg)) <=> (t = 3 /\ MyEchoReply(msg))
    BY <1>5
  <2> QED
    BY <2>1, <2>2 DEF Verdict
<1> QED
  BY <1>4, <1>5

\* An error about a request is not counted, and reported if the quoted header
\* has no option.
LEMMA ErrorStep ==
  ASSUME PacketInv, ReceiveError
  PROVE  /\ verdict'.truth = "error" /\ verdict'.event \in {"error", "ignored"}
         /\ stamps = "none" => verdict'.event = "error"
         /\ UNCHANGED statVars
<1>1. raw
  BY DEF ReceiveError
<1>2. PICK k \in DOMAIN wire, rec \in Records :
        PingRecv(Received(<<>>, Error(Option(rec), Dest, "icmp", wire[k].msg)), "error", k, rec)
  BY DEF ReceiveError
<1>3. TypeOK /\ k \in 1 .. Len(wire) /\ Sound(datalen, k, wire[k])
  BY <1>2 DEF PacketInv, WireType, AllSound
<1> DEFINE opt == Option(rec)
           msg == wire[k].msg
           e == Error(opt, Dest, "icmp", msg)
           l == Len(opt)
<1>4. Options(opt) /\ l \in 0 .. 4
  BY <1>3, OptionFacts DEF Options
<1>5. PICK s : msg[1] = [type |-> 8, sum |-> s]
  BY <1>3 DEF Sound
<1>6. msg[2] = [id |-> Ident, seq |-> k - 1]
  BY <1>3 DEF Sound
<1>7. stamps = "none" => opt = <<>>
  BY DEF Option
<1>8. PingRecv(Received(<<>>, e), "error", k, rec)
  BY <1>2
<1> HIDE DEF opt, msg
<1>9. /\ Message(5 + l, e) /\ e[1] = [type |-> 3, sum |-> Cksum(e)]
      /\ e[3].dst = Dest /\ e[3].p = "icmp"
      /\ opt = <<>> => e[4] = msg[1] /\ e[5] = msg[2]
  BY <1>4, ErrorFacts
<1> HIDE DEF e, l
<1>10. /\ verdict'.truth = "error" /\ UNCHANGED statVars
       /\ verdict'.event = IF 3 = 3 /\ MyEchoReply(e) THEN "error" ELSE "ignored"
  <2>1. 5 + l <= 9 /\ 3 \in {0, 3, 8} /\ (3 = 0 => e[2].id # Ident)
    BY <1>4
  <2> QED
    BY <1>1, <1>3, <1>8, <1>9, <2>1, OtherFacts
<1>11. opt = <<>> => MyEchoReply(e)
  BY <1>5, <1>6, <1>9 DEF MyEchoReply, TypeOf, IpLen
<1> QED
  BY <1>7, <1>10, <1>11

LEMMA SummedPair ==
  ASSUME NEW m, DOMAIN m = 1 .. 2, NEW t, NEW s, m[1] = [type |-> t, sum |-> s]
  PROVE  Summed(m) = [i \in 1 .. 2 |-> IF i = 1 THEN [type |-> t, sum |-> Cksum(m)] ELSE m[i]]
<1>1. Summed(m) = WithSum(m, Cksum(m))
  BY DEF Summed, WithSum
<1>2. 1 \in DOMAIN m
  OBVIOUS
<1> QED
  BY <1>1, <1>2, SumField DEF WithCells

\* Somebody else's packet is ignored.
LEMMA ForeignStep ==
  ASSUME PacketInv, ReceiveForeign
  PROVE  verdict'.truth = "foreign" /\ verdict'.event = "ignored" /\ UNCHANGED statVars
<1>1. raw /\ TypeOK
  BY DEF ReceiveForeign, PacketInv
<1>2. PICK msg \in Foreign : PingRecv(Received(<<>>, msg), "foreign", 0, 0)
  BY DEF ReceiveForeign
<1>3. ASSUME NEW t \in {0, 8}, NEW id, NEW m, DOMAIN m = 1 .. 2, t = 0 => id # Ident,
             m[1] = [type |-> t, sum |-> <<>>], m[2] = [id |-> id, seq |-> 0], msg = Summed(m)
      PROVE  verdict'.truth = "foreign" /\ verdict'.event = "ignored" /\ UNCHANGED statVars
  <2> DEFINE c == [type |-> t, sum |-> Cksum(m)]
  <2>1. msg = [i \in 1 .. 2 |-> IF i = 1 THEN c ELSE m[i]]
    <3>2. DOMAIN m = 1 .. 2 /\ m[1] = [type |-> t, sum |-> <<>>]
      BY <1>3
    <3>3. Summed(m) = [i \in 1 .. 2 |-> IF i = 1 THEN [type |-> t, sum |-> Cksum(m)] ELSE m[i]]
      BY <3>2, SummedPair
    <3> QED
      BY <1>3, <3>3
  <2> HIDE DEF c
  <2>2. msg = [i \in 1 .. 2 |-> msg[i]] /\ msg[1] = c /\ msg[2] = m[2]
    BY <2>1
  <2>3. Message(2, msg) /\ msg[1] = [type |-> t, sum |-> Cksum(m)] /\ (t = 0 => msg[2].id # Ident)
    BY <1>3, <2>2 DEF Message, c
  <2>4. t \in {0, 3, 8} /\ 2 <= 9 /\ t # 3
    OBVIOUS
  <2> QED
    BY <1>1, <1>2, <2>3, <2>4, OtherFacts
<1>4. ASSUME NEW dst, NEW p, NEW id, msg = Error(<<>>, dst, p, Alien(id)),
             dst # Dest \/ p # "icmp" \/ id # Ident
      PROVE  verdict'.truth = "foreign" /\ verdict'.event = "ignored" /\ UNCHANGED statVars
  <2>1. Options(<<>>) /\ Len(<<>>) = 0
    BY DEF Options
  <2>2. /\ Message(5 + 0, msg) /\ msg[1] = [type |-> 3, sum |-> Cksum(msg)]
        /\ msg[3].dst = dst /\ msg[3].p = p /\ msg[5] = Alien(id)[2]
    BY <1>4, <2>1, ErrorFacts
  <2>3. ~MyEchoReply(msg)
    BY <1>1, <1>4, <2>2 DEF MyEchoReply, IpLen, Alien
  <2>4. 3 \in {0, 3, 8} /\ 5 + 0 <= 9 /\ (3 = 0 => msg[2].id # Ident)
    OBVIOUS
  <2> QED
    BY <1>1, <1>2, <2>2, <2>3, <2>4, OtherFacts
<1>5. CASE msg = Summed([Alien(Ident + 1) EXCEPT ![1].type = 0])
  <2> DEFINE m == [Alien(Ident + 1) EXCEPT ![1].type = 0]
  <2>1. DOMAIN m = 1 .. 2 /\ m[1] = [type |-> 0, sum |-> <<>>] /\ m[2] = [id |-> Ident + 1, seq |-> 0]
    BY DEF Alien
  <2>2. msg = Summed(m) /\ Ident + 1 # Ident /\ 0 \in {0, 8}
    BY <1>5 DEF Ident
  <2> HIDE DEF m
  <2> QED
    BY <1>3, <2>1, <2>2
<1>6. CASE msg = Summed(Alien(Ident))
  <2> DEFINE m == Alien(Ident)
  <2>1. DOMAIN m = 1 .. 2 /\ m[1] = [type |-> 8, sum |-> <<>>] /\ m[2] = [id |-> Ident, seq |-> 0]
    BY DEF Alien
  <2>2. msg = Summed(m) /\ 8 \in {0, 8} /\ 8 # 0
    BY <1>6
  <2> HIDE DEF m
  <2> QED
    BY <1>3, <2>1, <2>2
<1>7. CASE msg = Error(<<>>, Dest, "icmp", Alien(Ident + 1))
  <2>1. Ident + 1 # Ident
    BY DEF Ident
  <2> QED
    BY <1>4, <1>7, <2>1
<1>8. CASE msg = Error(<<>>, "elsewhere", "icmp", Alien(Ident))
  <2>1. "elsewhere" # Dest
    BY DEF Dest
  <2> QED
    BY <1>4, <1>8, <2>1
<1>9. CASE msg = Error(<<>>, Dest, "udp", Alien(Ident))
  <2>1. "udp" # "icmp"
    OBVIOUS
  <2> QED
    BY <1>4, <1>9, <2>1
<1> QED
  BY <1>5, <1>6, <1>7, <1>8, <1>9, Zenon DEF Foreign

\* The message of a forged reply, whole or cut off by the end of the buffer.
Ours(m, msg) ==
  /\ Message(m, msg)
  /\ msg[1] = [type |-> 0, sum |-> msg[1].sum]
  /\ msg[2].id = Ident \/ ~raw
  /\ m > 2 => msg[3] = [junk |-> 1]

LEMMA ForgedFacts ==
  ASSUME NEW len \in Nat
  PROVE  Ours(len + 2, Forged(len))
<1> DEFINE id == IF raw THEN Ident ELSE Ident + 1
           head == <<[type |-> 0, sum |-> <<>>], [id |-> id, seq |-> 0]>>
           data == [i \in 1 .. len |-> [junk |-> 1]]
           all == head \o data
           f == Forged(len)
<1>1. head = [i \in 1 .. 2 |-> head[i]] /\ head[1] = [type |-> 0, sum |-> <<>>] /\ head[2].id = id
  OBVIOUS
<1>2. data = [i \in 1 .. len |-> data[i]] /\ \A i \in 1 .. len : data[i] = [junk |-> 1]
  OBVIOUS
<1>3. f = Summed(all)
  BY DEF Forged
<1>4. id = Ident \/ ~raw
  OBVIOUS
<1> HIDE DEF head, data, id, f
<1>5. /\ all = [i \in 1 .. 2 + len |-> all[i]]
      /\ \A i \in 1 .. 2 : all[i] = head[i]
      /\ \A i \in 1 .. len : all[2 + i] = data[i]
  <2>1. 2 \in Nat
    OBVIOUS
  <2> QED
    BY <1>1, <1>2, <2>1, ConcatAny
<1> HIDE DEF all
<1> DEFINE n == len + 2
           c == [type |-> 0, sum |-> Cksum(all)]
<1>6. DOMAIN all = 1 .. n /\ all[1] = [type |-> 0, sum |-> <<>>] /\ all[2].id = id
  <2>1. 2 + len = n
    OBVIOUS
  <2> QED
    BY <1>1, <1>5, <2>1
<1>7. len > 0 => all[3] = [junk |-> 1]
  <2>1. SUFFICES ASSUME len > 0 PROVE all[3] = [junk |-> 1]
    OBVIOUS
  <2>2. 1 \in 1 .. len /\ 2 + 1 = 3
    BY <2>1
  <2> QED
    BY <1>2, <1>5, <2>2
<1>8. n \in Nat /\ n >= 2 /\ (n > 2 => len > 0)
  OBVIOUS
<1> HIDE DEF n
<1>9. f = [i \in 1 .. n |-> IF i = 1 THEN c ELSE all[i]]
  BY <1>3, <1>6, <1>8, SummedFacts
<1> HIDE DEF c
<1>10. f = [i \in 1 .. n |-> f[i]] /\ f[1] = c /\ f[2] = all[2] /\ (n > 2 => f[3] = all[3])
  BY <1>8, <1>9
<1>11. f[1] = [type |-> 0, sum |-> f[1].sum]
  <2>1. c = [type |-> 0, sum |-> c.sum]
    BY Zenon DEF c
  <2> QED
    BY <1>10, <2>1
<1>12. Message(n, f)
  BY <1>8, <1>10 DEF Message
<1>13. Ours(n, f)
  BY <1>4, <1>6, <1>7, <1>8, <1>10, <1>11, <1>12 DEF Ours
<1> QED
  BY <1>13 DEF n, f

\* recvfrom leaves the beginning of a packet that is longer than the buffer.
LEMMA CutOff ==
  ASSUME NEW pkt, NEW part, Len(pkt) >= RecvLimit, Len(part) = RecvLimit,
         Len(pkt) \in Nat, RecvLimit \in Nat,
         SubSeq(pkt, 1, RecvLimit) = SubSeq(part, 1, RecvLimit),
         NEW truth, NEW k, NEW rec, PingRecv(pkt, truth, k, rec)
  PROVE  PingRecv(part, truth, k, rec)
<1>1. /\ (IF Len(pkt) < RecvLimit THEN Len(pkt) ELSE RecvLimit) = RecvLimit
      /\ (IF Len(part) < RecvLimit THEN Len(part) ELSE RecvLimit) = RecvLimit
  OBVIOUS
<1> QED
  BY <1>1, Zenon DEF PingRecv

LEMMA OursStep ==
  ASSUME TypeOK, NEW m, NEW msg, Ours(m, msg), Behind(<<>>) + m <= BufLen,
         PingRecv(Received(<<>>, msg), "forged", 0, 0)
  PROVE  verdict'.event = "counted" /\ verdict'.truth = "forged" /\ Entered(m - HdrLen)
<1>1. Options(<<>>)
  BY DEF Options
<1> DEFINE rc == IF msg[1].sum = Cksum(msg) THEN 0 ELSE 1
<1>2. /\ Message(m, msg) /\ msg[1] = [type |-> 0, sum |-> msg[1].sum]
      /\ (msg[2].id = Ident \/ ~raw) /\ (m > 2 => msg[3] = [junk |-> 1])
  BY DEF Ours
<1>3. Judged(<<>>, m, msg, 0, rc, "forged", 0, 0)
  <2>1. 0 \in {0, 3, 8} /\ (raw \/ 0 = 0)
    OBVIOUS
  <2> QED
    BY <1>1, <1>2, <2>1, RecvFacts
<1> HIDE DEF rc
<1>4. Counted(<<>>, m, msg, rc, "forged", 0, 0)
  BY <1>1, <1>2, <1>3, CountedFacts
<1>5. Timing(m - HdrLen) => TripsOf(msg[3]) \subseteq Int
  <2>1. Timing(m - HdrLen) => m > 2
    BY <1>2 DEF Timing, TimeLen, HdrLen, Message
  <2> QED
    BY <1>2, <2>1, TripsFacts
<1> QED
  BY <1>4, <1>5 DEF Counted, Entered

\* A forged reply of any length is counted. It is short if it was not timed.
LEMMA ForgedStep ==
  ASSUME PacketInv, ReceiveForged
  PROVE  /\ verdict'.event = "counted" /\ verdict'.truth = "forged"
         /\ \E len \in Nat : Entered(len) /\ short' = IF Timing(len) THEN short ELSE short + 1
<1>1. PICK len \in ForgedLens :
        /\ PingRecv(Received(<<>>, Forged(len)), "forged", 0, 0)
        /\ short' = IF Timing(len) THEN short ELSE short + 1
  BY DEF ReceiveForged
<1>2. TypeOK /\ len \in Nat /\ BufLen \in Nat /\ BufLen >= 10
  BY Lengths, PacketAssumption DEF PacketInv
<1> DEFINE h == Behind(<<>>)
           msg == Forged(len)
           m == len + 2
<1>3. Options(<<>>) /\ h \in 0 .. 1
  BY DEF Options, Behind
<1>4. Ours(m, msg)
  BY <1>2, ForgedFacts
<1> HIDE DEF msg
<1>5. CASE h + m <= BufLen
  <2>1. m - HdrLen = len
    BY <1>2 DEF HdrLen
  <2> QED
    BY <1>1, <1>2, <1>4, <1>5, <2>1, OursStep DEF msg
<1>6. CASE ~(h + m <= BufLen)
  <2> DEFINE j == BufLen - h
             cut == SubSeq(msg, 1, j)
             pkt == Received(<<>>, msg)
             part == Received(<<>>, cut)
  <2>1. /\ j \in Nat /\ j >= 9 /\ j < m /\ m \in Nat /\ h + j = BufLen
        /\ h + m \in Nat /\ h + m >= BufLen
    BY <1>2, <1>3, <1>6
  <2>2. h = 1 => raw
    BY DEF Behind
  <2>3. j - HdrLen \in Nat /\ Timing(j - HdrLen) /\ Timing(len)
    BY <1>2, <2>1 DEF HdrLen, Timing, TimeLen
  <2> HIDE DEF j, m, h
  <2>4. cut = [i \in 1 .. j |-> msg[i]]
    BY <2>1, Beginning
  <2> HIDE DEF cut
  <2>5. cut = [i \in 1 .. j |-> cut[i]] /\ cut[1] = msg[1] /\ cut[2] = msg[2] /\ cut[3] = msg[3]
    BY <2>1, <2>4
  <2>6. Ours(j, cut)
    BY <1>4, <2>1, <2>5 DEF Ours, Message
  <2>7. Len(pkt) = h + m /\ (\A i \in 1 .. m : pkt[h + i] = msg[i])
        /\ (raw => pkt[1] = [hl |-> h, dst |-> "here", p |-> "icmp"])
    BY <1>2, <1>3, <1>4, ReceivedFacts DEF Ours, h
  <2>8. Len(part) = h + j /\ (\A i \in 1 .. j : part[h + i] = cut[i])
        /\ (raw => part[1] = [hl |-> h, dst |-> "here", p |-> "icmp"])
    BY <1>2, <1>3, <2>6, ReceivedFacts DEF Ours, h
  <2>9. PingRecv(pkt, "forged", 0, 0)
    BY <1>1 DEF msg
  <2> HIDE DEF pkt, part
  <2>10. ASSUME NEW i \in 1 .. BufLen PROVE pkt[i] = part[i]
    <3>1. CASE i <= h
      <4>1. i = 1 /\ raw
        BY <1>3, <2>2, <3>1
      <4> QED
        BY <2>7, <2>8, <4>1
    <3>2. CASE i > h
      <4> DEFINE q == i - h
      <4>1. q \in 1 .. j /\ q \in 1 .. m /\ i = h + q
        BY <1>2, <1>3, <2>1, <3>2
      <4> HIDE DEF q
      <4>2. pkt[h + q] = msg[q] /\ part[h + q] = cut[q] /\ cut[q] = msg[q]
        BY <2>4, <2>7, <2>8, <4>1
      <4> QED
        BY <4>1, <4>2
    <3> QED
      BY <1>3, <3>1, <3>2
  <2>11. SubSeq(pkt, 1, BufLen) = SubSeq(part, 1, BufLen)
    <3>1. SubSeq(pkt, 1, BufLen) = [i \in 1 .. BufLen |-> pkt[i]]
      BY <1>2, Beginning
    <3>2. SubSeq(part, 1, BufLen) = [i \in 1 .. BufLen |-> part[i]]
      BY <1>2, Beginning
    <3> QED
      BY <2>10, <3>1, <3>2
  <2>12. PingRecv(part, "forged", 0, 0)
    <3>1. /\ Len(pkt) >= RecvLimit /\ Len(part) = RecvLimit /\ Len(pkt) \in Nat /\ RecvLimit \in Nat
          /\ SubSeq(pkt, 1, RecvLimit) = SubSeq(part, 1, RecvLimit)
      BY <1>2, <2>1, <2>7, <2>8, <2>11 DEF RecvLimit
    <3> QED
      BY <2>9, <3>1, CutOff
  <2>13. Behind(<<>>) + j <= BufLen
    BY <1>2, <2>1 DEF h
  <2>14. verdict'.event = "counted" /\ verdict'.truth = "forged" /\ Entered(j - HdrLen)
    BY <1>2, <2>6, <2>12, <2>13, OursStep DEF part
  <2> QED
    BY <1>1, <2>3, <2>14
<1> QED
  BY <1>5, <1>6

\* The sum lies between what the trips timed can at least and at most be; what
\* was counted and not timed only lowers the average.
Averaged ==
  /\ short \in 0 .. total
  /\ Timing(datalen) =>
       /\ tmin \in Int /\ tmax \in Nat /\ tsum \in Int
       /\ tmin * (total - short) <= tsum /\ tsum <= tmax * total

LEMMA Averages ==
  ASSUME NEW n \in Nat, NEW q \in Nat, NEW a \in Int, NEW b \in Int, NEW s \in Int, NEW t \in Int,
         NEW c \in Int, NEW d \in Int,
         a * q <= s, s <= b * n, c <= a, c <= t, b <= d, t <= d
  PROVE  c * (q + 1) <= s + t /\ s + t <= d * (n + 1)
<1>1. c * q <= a * q /\ b * n <= d * n
  OBVIOUS
<1>2. c * (q + 1) = c * q + c /\ d * (n + 1) = d * n + d
  OBVIOUS
<1>3. c * q \in Int /\ a * q \in Int /\ b * n \in Int /\ d * n \in Int
  OBVIOUS
<1> QED
  BY <1>1, <1>2, <1>3

\* A reply of any length keeps that, if each one not timed is known to be short.
LEMMA AveragedStep ==
  ASSUME TypeOK, Averaged, UNCHANGED datalen, NEW len, Entered(len),
         short' \in {short, short + 1}, Timing(len) => short' = short,
         Timing(datalen) /\ ~Timing(len) => short' = short + 1
  PROVE  Averaged'
<1>1. total \in Nat /\ total' = total + 1 /\ short \in 0 .. total
  BY PacketAssumption DEF TypeOK, Averaged, Entered
<1>2. short' \in 0 .. total'
  BY <1>1
<1>3. ASSUME Timing(datalen)
      PROVE  /\ tmin' \in Int /\ tmax' \in Nat /\ tsum' \in Int
             /\ tmin' * (total' - short') <= tsum' /\ tsum' <= tmax' * total'
  <2> DEFINE timed == total - short
  <2>1. /\ tmin \in Int /\ tmax \in Nat /\ tsum \in Int
        /\ tmin * timed <= tsum /\ tsum <= tmax * total
    BY <1>3 DEF Averaged
  <2>2. timed \in Nat
    BY <1>1
  <2>3. CASE Timing(len)
    <3>1. total' - short' = timed + 1
      BY <1>1, <2>3
    <3> HIDE DEF timed
    <3>2. PICK trip \in Int : Timed(trip)
      BY <2>3 DEF Entered
    <3>3. /\ tsum' = tsum + trip
          /\ tmin' \in Int /\ tmin' <= tmin /\ tmin' <= trip
          /\ tmax' \in Nat /\ tmax <= tmax' /\ trip <= tmax'
      BY <2>1, <3>2 DEF Timed
    <3>4. tmin' * (timed + 1) <= tsum + trip /\ tsum + trip <= tmax' * (total + 1)
      <4>1. tmax \in Int /\ tmax' \in Int
        BY <2>1, <3>3
      <4> QED
        BY <1>1, <2>1, <2>2, <3>3, <4>1, Averages
    <3>5. tsum' \in Int
      BY <2>1, <3>3
    <3> QED
      BY <1>1, <3>1, <3>3, <3>4, <3>5, Zenon
  <2>4. CASE ~Timing(len)
    <3>1. UNCHANGED <<tmin, tmax, tsum>>
      BY <2>4 DEF Entered
    <3>2. total' - short' = timed
      BY <1>1, <1>3, <2>4
    <3> HIDE DEF timed
    <3>3. tmax * (total + 1) = tmax * total + tmax /\ tmax * total \in Int
      BY <1>1, <2>1
    <3>4. tsum <= tmax * (total + 1)
      BY <2>1, <3>3
    <3> QED
      BY <1>1, <2>1, <3>1, <3>2, <3>4, Zenon
  <2> QED
    BY <2>3, <2>4
<1> QED
  BY <1>2, <1>3 DEF Averaged, Timing

\* Whatever is not received leaves no verdict, and the statistics alone.
LEMMA QuietStep ==
  ASSUME Send \/ Clock
  PROVE  verdict' = Nothing /\ UNCHANGED <<statVars, short>>
BY DEF Send, SetTime, SetPattern, PingXmit, SendtoFails, XmitFails, TimerExpires, Clock

Judgement == OthersIgnored /\ ReplyJudged /\ TripTrue /\ StampsShown /\ Averaged

LEMMA JudgementStep ==
  ASSUME PacketInv, Judgement, [Next]_vars
  PROVE  Judgement'
<1>0. TypeOK /\ OthersIgnored /\ ReplyJudged /\ TripTrue /\ StampsShown /\ Averaged
  BY DEF PacketInv, Judgement
<1>1. CASE Send \/ Clock
  <2>1. verdict' = Nothing /\ UNCHANGED <<statVars, short>> /\ UNCHANGED datalen
    BY <1>1, QuietStep DEF Send, SetTime, SetPattern, PingXmit, SendtoFails, XmitFails,
       TimerExpires, Clock, argVars
  <2>2. verdict'.truth = "none" /\ verdict'.event = "ignored"
    BY <2>1, Ignored
  <2>3. Averaged'
    BY <1>0, <2>1 DEF Averaged, Timing, statVars
  <2> QED
    BY <2>2, <2>3 DEF Judgement, OthersIgnored, ReplyJudged, TripTrue, StampsShown
<1>2. CASE Receive
  <2>0. UNCHANGED <<wire, now, datalen, stamps, raw>>
    BY <1>2 DEF Receive, ReceiveReply, ReceiveDamaged, ReceiveForged, ReceiveError, ReceiveForeign,
       Unchanged, Genuine, argVars, reqVars
  <2>1. CASE ReceiveReply
    <3>1. /\ verdict'.event = "counted" /\ verdict'.truth = "reply" /\ verdict'.rc = 0
          /\ ~wire[verdict'.sent].spoiled
               => verdict'.trip = IF Timing(datalen) THEN {now - wire[verdict'.sent].at} ELSE {}
          /\ raw /\ stamps # "none" => verdict'.shown = Stamps(verdict'.recorded)
          /\ AsSent
      BY <2>1, ReplyStep
    <3>2. TripTrue'
      BY <2>0, <3>1 DEF TripTrue, Timing
    <3>3. Averaged'
      BY <1>0, <2>0, <3>1, AveragedStep DEF AsSent
    <3>4. StampsShown'
      BY <2>0, <3>1 DEF StampsShown, Stamps, Word
    <3> QED
      BY <3>1, <3>2, <3>3, <3>4 DEF Judgement, OthersIgnored, ReplyJudged
  <2>2. CASE ReceiveDamaged
    <3>1. verdict'.event = "counted" /\ verdict'.truth = "damaged" /\ verdict'.rc = 1 /\ AsSent
      BY <2>2, DamagedStep
    <3>2. Averaged'
      BY <1>0, <2>0, <3>1, AveragedStep DEF AsSent
    <3> QED
      BY <3>1, <3>2 DEF Judgement, OthersIgnored, ReplyJudged, TripTrue, StampsShown
  <2>3. CASE ReceiveError
    <3>1. /\ verdict'.truth = "error" /\ verdict'.event \in {"error", "ignored"}
          /\ stamps = "none" => verdict'.event = "error"
          /\ UNCHANGED statVars
      BY <2>3, ErrorStep
    <3>2. UNCHANGED short
      BY <2>3 DEF ReceiveError, Genuine
    <3>3. Averaged'
      BY <1>0, <2>0, <3>1, <3>2 DEF Averaged, Timing, statVars
    <3> QED
      BY <2>0, <3>1, <3>3 DEF Judgement, OthersIgnored, ReplyJudged, TripTrue, StampsShown
  <2>4. CASE ReceiveForeign
    <3>1. verdict'.truth = "foreign" /\ verdict'.event = "ignored" /\ UNCHANGED statVars
      BY <2>4, ForeignStep
    <3>2. UNCHANGED short
      BY <2>4 DEF ReceiveForeign, Genuine
    <3>3. Averaged'
      BY <1>0, <2>0, <3>1, <3>2 DEF Averaged, Timing, statVars
    <3> QED
      BY <3>1, <3>3 DEF Judgement, OthersIgnored, ReplyJudged, TripTrue, StampsShown
  <2>5. CASE ReceiveForged
    <3>1. verdict'.event = "counted" /\ verdict'.truth = "forged"
      BY <2>5, ForgedStep
    <3>2. PICK len \in Nat : Entered(len) /\ short' = IF Timing(len) THEN short ELSE short + 1
      BY <2>5, ForgedStep
    <3>3. Averaged'
      BY <1>0, <2>0, <3>2, AveragedStep
    <3> QED
      BY <3>1, <3>3 DEF Judgement, OthersIgnored, ReplyJudged, TripTrue, StampsShown
  <2> QED
    BY <1>2, <2>1, <2>2, <2>3, <2>4, <2>5 DEF Receive
<1>3. CASE UNCHANGED vars
  <2>1. UNCHANGED <<wire, now, datalen, stamps, raw, verdict, total, tmin, tmax, tsum, short>>
    BY <1>3 DEF vars, argVars, reqVars, statVars
  <2>2. OthersIgnored' /\ ReplyJudged' /\ TripTrue'
    BY <1>0, <2>1 DEF OthersIgnored, ReplyJudged, TripTrue, Timing
  <2>3. StampsShown'
    BY <1>0, <2>1 DEF StampsShown
  <2>4. Averaged'
    BY <1>0, <2>1 DEF Averaged, Timing
  <2> QED
    BY <2>2, <2>3, <2>4 DEF Judgement
<1> QED
  BY <1>1, <1>2, <1>3 DEF Next

LEMMA JudgementInit == Init => Judgement
<1> SUFFICES ASSUME Init PROVE Judgement
  OBVIOUS
<1>1. verdict.truth = "none" /\ verdict.event = "ignored"
  BY Ignored DEF Init
<1>2. tmin = MaxNow + 100 /\ tmax = 0 /\ tsum = 0 /\ total = 0 /\ short = 0 /\ MaxNow \in Nat
  BY PacketAssumption DEF Init, Never
<1>3. tmin * (0 - 0) = 0 /\ 0 * 0 = 0
  BY <1>2
<1>4. Averaged
  BY <1>2, <1>3 DEF Averaged
<1> QED
  BY <1>1, <1>4 DEF Judgement, OthersIgnored, ReplyJudged, TripTrue, StampsShown

LEMMA JudgementHolds == Spec => [](PacketInv /\ Judgement)
<1>1. Init => PacketInv /\ Judgement
  BY PacketInit, JudgementInit
<1>2. PacketInv /\ Judgement /\ [Next]_vars => PacketInv' /\ Judgement'
  BY PacketStep, JudgementStep
<1> QED
  BY <1>1, <1>2, PTL DEF Spec

\* For payloads of any length and any options, a reply to a request is counted
\* with a good checksum, and one that was changed anywhere is counted with a
\* warning.
THEOREM ReplyJudgedHolds == Spec => []ReplyJudged
<1>1. PacketInv /\ Judgement => ReplyJudged
  BY DEF Judgement
<1> QED
  BY JudgementHolds, <1>1, PTL

\* The trip shown for a reply is the time since its own request was built.
THEOREM TripTrueHolds == Spec => []TripTrue
<1>1. PacketInv /\ Judgement => TripTrue
  BY DEF Judgement
<1> QED
  BY JudgementHolds, <1>1, PTL

\* Of the IP timestamp option of a reply exactly the recorded words are shown, in
\* their order and each as what it is, wherever the option stops being full.
THEOREM StampsShownHolds == Spec => []StampsShown
<1>1. PacketInv /\ Judgement => StampsShown
  BY DEF Judgement
<1> QED
  BY JudgementHolds, <1>1, PTL

\* Nothing but replies with the identifier of this process is counted, nothing but
\* errors about its requests is reported.
THEOREM OthersIgnoredHolds == Spec => []OthersIgnored
<1>1. PacketInv /\ Judgement => OthersIgnored
  BY DEF Judgement
<1> QED
  BY JudgementHolds, <1>1, PTL

\* Whatever replies are received, of any length and number and with any measured
\* trips, the average does not exceed the maximum, and only forged replies too
\* short for the time pull it below the minimum.
THEOREM AverageBoundedHolds == Spec => []AverageBounded
<1>1. PacketInv /\ Judgement => AverageBounded
  BY DEF Judgement, Averaged, AverageBounded
<1> QED
  BY JudgementHolds, <1>1, PTL
=============================================================================
