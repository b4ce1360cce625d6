--------------------------- MODULE EchoCountProofs ---------------------------
(***************************************************************************)
(* PingRun implements EchoCount: the bits of the duplicate table count as  *)
(* if every request were remembered for ever, for every size of the table  *)
(* and of the sequence numbers, if no reply is overtaken by more requests  *)
(* than the table has bits and only replies to the host's own requests     *)
(* arrive.                                                                 *)
(***************************************************************************)
EXTENDS PingRunProofs

\* The circumstances: a reply is at most NBits requests late; the 1024 bits
\* divide the 65536 sequence numbers; nobody forges, no host is left early.
Punctual ==
  /\ Lifetime <= NBits
  /\ SeqMod % NBits = 0
  /\ Forged = {}
  /\ ~CrossTalk

-----------------------------------------------------------------------------
(* The arithmetic of bits and sequence numbers.                            *)

\* Quotient and remainder.
LEMMA DivMod ==
  ASSUME NEW a \in Nat, NEW n \in Nat, n # 0
  PROVE  a \div n \in Nat /\ a % n \in 0 .. n - 1 /\ a = n * (a \div n) + (a % n)
<1>1. n > 0
  OBVIOUS
<1>2. a = n * (a \div n) + (a % n) /\ a \div n \in Int /\ a % n \in 0 .. n - 1
  BY <1>1
<1>3. a \div n >= 0
  <2> DEFINE k == a \div n
             r == a % n
  <2>1. a = n * k + r /\ k \in Int /\ r \in 0 .. n - 1
    BY <1>2
  <2> HIDE DEF k, r
  <2> SUFFICES ASSUME k < 0 PROVE FALSE
    BY <2>1 DEF k
  <2>2. PICK d \in Nat : k = -1 - d
    BY <2>1
  <2>3. n * k = -n - n * d /\ n * d \in Nat
    BY <2>1, <2>2
  <2> QED
    BY <1>1, <2>1, <2>3
<1>4. a \div n \in Nat
  <2> DEFINE k == a \div n
  <2>1. k \in Int /\ k >= 0
    BY <1>2, <1>3
  <2> HIDE DEF k
  <2>2. k \in Nat
    BY <2>1
  <2> QED
    BY <2>2 DEF k
<1> QED
  BY <1>2, <1>4

\* A remainder is what is left of a multiple.
LEMMA RemainderUnique ==
  ASSUME NEW n \in Nat, n # 0, NEW k \in Nat, NEW r \in 0 .. n - 1, NEW l \in Nat, NEW s \in 0 .. n - 1,
         n * k + r = n * l + s
  PROVE  r = s
<1>1. n * k - n * l = s - r
  OBVIOUS
<1>2. CASE k = l
  BY <1>1, <1>2
<1>3. CASE k >= l + 1
  <2>1. PICK d \in Nat : k = l + 1 + d
    BY <1>3
  <2>2. n * k = n * l + n + n * d
    BY <2>1
  <2>3. n * d \in Nat /\ n * l \in Nat
    OBVIOUS
  <2> QED
    BY <1>1, <2>2, <2>3
<1>4. CASE l >= k + 1
  <2>1. PICK d \in Nat : l = k + 1 + d
    BY <1>4
  <2>2. n * l = n * k + n + n * d
    BY <2>1
  <2>3. n * d \in Nat /\ n * k \in Nat
    OBVIOUS
  <2> QED
    BY <1>1, <2>2, <2>3
<1> QED
  BY <1>2, <1>3, <1>4

\* Two requests fewer than NBits apart have bits of their own.
LEMMA SlotApart ==
  ASSUME NEW a \in Nat, NEW b \in Nat, a < b, b - a < NBits
  PROVE  Slot(a) # Slot(b)
<1> SUFFICES ASSUME Slot(a) = Slot(b) PROVE FALSE
  OBVIOUS
<1> DEFINE n == NBits
           k == a \div n
           l == b \div n
           r == a % n
<1>1. n \in Nat /\ n # 0
  BY RunAssumption
<1>2. k \in Nat /\ r \in 0 .. n - 1 /\ a = n * k + r
  BY <1>1, DivMod
<1>3. l \in Nat /\ b = n * l + r
  BY <1>1, DivMod DEF Slot
<1> HIDE DEF n, k, l, r
<1>4. b - a = n * l - n * k
  BY <1>1, <1>2, <1>3
<1>5. 0 < b - a /\ b - a < n
  BY DEF n
<1>6. CASE l <= k
  <2>1. PICK d \in Nat : k = l + d
    BY <1>2, <1>3, <1>6
  <2>2. n * k = n * l + n * d /\ n * d \in Nat /\ n * l \in Nat
    BY <1>1, <1>3, <2>1
  <2> QED
    BY <1>4, <1>5, <2>2
<1>7. CASE l >= k + 1
  <2>1. PICK d \in Nat : l = k + 1 + d
    BY <1>2, <1>3, <1>7
  <2>2. n * l = n * k + n + n * d /\ n * d \in Nat /\ n * k \in Nat
    BY <1>1, <1>2, <2>1
  <2> QED
    BY <1>1, <1>4, <1>5, <2>2
<1> QED
  BY <1>2, <1>3, <1>6, <1>7

\* The sequence number on the wire stands for the same bit as the request.
LEMMA WireSlot ==
  ASSUME SeqMod % NBits = 0, NEW q \in Nat
  PROVE  Slot(Wire(q)) = Slot(q)
<1> DEFINE n == NBits
           m == SeqMod \div n
           d == q \div SeqMod
           w == q % SeqMod
           k == w \div n
           r == w % n
           l == q \div n
           s == q % n
<1>1. n \in Nat /\ n # 0 /\ SeqMod \in Nat /\ SeqMod # 0
  BY RunAssumption
<1>2. m \in Nat /\ SeqMod = n * m
  <2>1. m \in Nat /\ SeqMod = n * m + (SeqMod % n)
    BY <1>1, DivMod
  <2> QED
    BY <1>1, <2>1
<1>3. d \in Nat /\ w \in Nat /\ q = SeqMod * d + w
  BY <1>1, DivMod
<1>4. k \in Nat /\ r \in 0 .. n - 1 /\ w = n * k + r
  BY <1>1, <1>3, DivMod
<1>5. l \in Nat /\ s \in 0 .. n - 1 /\ q = n * l + s
  BY <1>1, DivMod
<1> HIDE DEF n, m, d, w, k, r, l, s
<1>6. SeqMod * d = n * (m * d) /\ m * d \in Nat
  BY <1>1, <1>2, <1>3
<1>7. q = n * (m * d + k) + r /\ m * d + k \in Nat
  BY <1>1, <1>3, <1>4, <1>6
<1>8. r = s
  BY <1>1, <1>4, <1>5, <1>7, RemainderUnique
<1> QED
  BY <1>8 DEF Slot, Wire, n, w, r, s
-----------------------------------------------------------------------------
(* What the table remembers.                                               *)

\* The requests whose replies still have a bit of their own.
Recent == {q \in 0 .. num_xmit - 1 : num_xmit - q <= NBits}

\* The bit of a recent request is set exactly if the request was answered.  A
\* refused sendto clears the bit of an older request, but it ends the loop.
CountInv ==
  /\ answered \subseteq 0 .. num_xmit - 1
  /\ pc \in Before => answered = {} /\ marked = {}
  /\ pc \in Loop \ {"restore"} /\ ret_val # 4 =>
       \A q \in Recent : Slot(q) \in marked <=> q \in answered

LEMMA CountInit == Init => CountInv
BY DEF Init, CountInv, Before, Loop

\* A request that goes out takes the bit of the one NBits before it.
LEMMA CountSend ==
  ASSUME TypeOK, CountInv, NEW ok, SendEcho(ok), UNCHANGED answered,
         ~table => marked = {},
         \A q \in Recent : Slot(q) \in marked <=> q \in answered,
         ok \/ marked = {}
  PROVE  \A q \in Recent' : Slot(q) \in marked' <=> q \in answered'
<1>1. num_xmit \in Nat /\ NBits \in Nat
  BY RunAssumption DEF TypeOK
<1>2. CASE ~ok
  <2>1. num_xmit' = num_xmit /\ marked' = {}
    BY <1>2, SendEchoEffect DEF TableContent
  <2> QED
    BY <1>2, <2>1 DEF Recent
<1>3. CASE ok
  <2>1. num_xmit' = num_xmit + 1 /\ marked' = marked \ {Slot(num_xmit)}
    BY <1>3, SendEchoEffect DEF TableContent
  <2> SUFFICES ASSUME NEW q \in 0 .. num_xmit, num_xmit + 1 - q <= NBits
               PROVE  Slot(q) \in marked' <=> q \in answered
    BY <1>1, <2>1 DEF Recent
  <2>2. CASE q = num_xmit
    BY <1>1, <2>1, <2>2 DEF CountInv
  <2>3. CASE q < num_xmit
    <3>1. q \in Recent /\ num_xmit - q < NBits
      BY <1>1, <2>3 DEF Recent
    <3>2. Slot(q) # Slot(num_xmit)
      BY <1>1, <2>3, <3>1, SlotApart
    <3> QED
      BY <2>1, <3>1, <3>2
  <2> QED
    BY <1>1, <2>2, <2>3
<1> QED
  BY <1>2, <1>3

\* A reply sets the bit of its own request and of no other recent one.
LEMMA CountOwnReply ==
  ASSUME Punctual, TypeOK, CountInv, NEW q \in 0 .. num_xmit - 1, OwnReply(q),
         \A p \in Recent : Slot(p) \in marked <=> p \in answered
  PROVE  /\ q \in Recent /\ Slot(Wire(q)) = Slot(q)
         /\ \A p \in Recent' : Slot(p) \in marked' <=> p \in answered'
<1>1. num_xmit \in Nat /\ NBits \in Nat /\ Lifetime \in Nat /\ q \in Nat
  BY RunAssumption DEF TypeOK
<1>2. q \in Recent
  BY <1>1 DEF OwnReply, Punctual, Recent
<1>3. Slot(Wire(q)) = Slot(q)
  BY <1>1, WireSlot DEF Punctual
<1>4. marked' = marked \cup {Slot(q)} /\ answered' = answered \cup {q} /\ num_xmit' = num_xmit
  BY <1>3 DEF OwnReply, CountReply
<1>5. ASSUME NEW p \in Recent PROVE Slot(p) \in marked' <=> p \in answered'
  <2>1. p \in Nat /\ p < num_xmit /\ num_xmit - p <= NBits /\ q < num_xmit /\ num_xmit - q <= NBits
    BY <1>1, <1>2 DEF Recent
  <2>2. p # q => Slot(p) # Slot(q)
    <3>1. CASE p < q
      <4>1. q - p < NBits
        BY <1>1, <2>1
      <4> QED
        BY <1>1, <2>1, <3>1, <4>1, SlotApart
    <3>2. CASE q < p
      <4>1. p - q < NBits
        BY <1>1, <2>1
      <4> QED
        BY <1>1, <2>1, <3>2, <4>1, SlotApart
    <3> QED
      BY <1>1, <2>1, <3>1, <3>2
  <2> QED
    BY <1>4, <1>5, <2>2
<1>6. Recent' = Recent
  BY <1>4 DEF Recent
<1> QED
  BY <1>2, <1>3, <1>5, <1>6

\* With nobody forging and no earlier host's replies, no reply is stray.
LEMMA NothingStray == ASSUME Punctual PROVE StraySeqs = {}
BY DEF Punctual, StraySeqs

LEMMA CountStep ==
  ASSUME Punctual
  PROVE  TypeInv /\ RunInv /\ CountInv /\ [Next]_vars => CountInv'
<1> SUFFICES ASSUME TypeOK, Control, RunInv, CountInv, [Next]_vars
             PROVE  CountInv'
  BY DEF TypeInv
<1> DEFINE Remembers == \A q \in Recent : Slot(q) \in marked <=> q \in answered
<1> USE DEF CountInv, Before, Loop, Final
<1> USE DEF procVars, sigVars, loopVars, memVars, cntVars, netVars, histVars
<1>1. ASSUME UNCHANGED <<marked, num_xmit, answered>>,
             pc' \in Before => pc \in Before,
             pc' \in Loop \ {"restore"} /\ ret_val' # 4 =>
               pc \in Before \cup (Loop \ {"restore"}) /\ (pc \in Loop => ret_val # 4)
      PROVE  CountInv'
  <2>1. Recent' = Recent
    BY <1>1 DEF Recent
  <2>2. pc \in Before => Remembers
    OBVIOUS
  <2> QED
    BY <1>1, <2>1, <2>2
<1>2. CASE EchoStart \/ EchoFails \/ ProcessEnd
  BY <1>1, <1>2 DEF EchoStart, EchoFails, ProcessEnd
<1>3. CASE PreSend
  <2> PICK ok \in BOOLEAN : SendEcho(ok)
    BY <1>3 DEF PreSend
  <2>1. marked = {} /\ answered = {}
    BY <1>3 DEF PreSend
  <2>2. num_xmit' \in Nat /\ marked' = {} /\ answered' = {} /\ pc' \in {"pre", "sigreset"}
    BY <1>3, <2>1, SendEchoEffect DEF PreSend, TableContent, TypeOK
  <2> QED
    BY <2>2
<1>4. CASE SigReset \/ SigInstall \/ WhileTest \/ Block \/ TimerExpires \/ Readable
  BY <1>1, <1>4 DEF SigReset, SigInstall, WhileTest, LoopGoesOn, Block, TimerExpires, Readable
<1>5. CASE SelectFails \/ Linger
  BY <1>1, <1>5 DEF SelectFails, Linger, RunInv
<1>6. CASE SendRequest
  <2> PICK ok \in BOOLEAN : SendEcho(ok) /\ ret_val' = (IF ~ok THEN 4 ELSE IF expired THEN 1 ELSE 0)
    BY <1>6 DEF SendRequest
  <2>1. pc = "send" /\ ret_val = 0 /\ (~table => marked = {}) /\ pc' = "while" /\ UNCHANGED answered
    BY <1>6 DEF SendRequest, RunInv
  <2>2. answered' \subseteq 0 .. num_xmit' - 1
    BY <2>1, SendEchoEffect DEF TypeOK
  <2>3. ret_val' # 4 => Remembers'
    BY <2>1, CountSend
  <2> QED
    BY <2>1, <2>2, <2>3
<1>7. ASSUME NEW q \in 0 .. num_xmit - 1, OwnReply(q) PROVE CountInv'
  <2>1. pc = "recv" /\ ret_val = 0 /\ pc' = "while" /\ num_xmit' = num_xmit /\ answered' = answered \cup {q}
    BY <1>7 DEF OwnReply, Receiving, CountReply, RunInv
  <2>2. Remembers'
    BY <1>7, <2>1, CountOwnReply
  <2> QED
    BY <2>1, <2>2
<1>8. CASE \E seq \in StraySeqs : StrayReply(seq) \/ NullTable(seq)
  BY <1>8, NothingStray
<1>9. CASE NoEcho \/ DisplayCrashes \/ NotOurs
  <2>1. pc = "recv" /\ ret_val = 0 /\ pc' \in {"while", "killed"}
    BY <1>9 DEF NoEcho, DisplayCrashes, NotOurs, Receiving, RunInv
  <2> QED
    BY <1>1, <1>9, <2>1 DEF NoEcho, DisplayCrashes, NotOurs
<1>10. CASE Restore
  BY <1>10 DEF Restore
<1>11. CASE Finish
  BY <1>11 DEF Finish, ResetCounters, RunInv
<1>12. CASE Interrupt
  BY <1>1, <1>12 DEF Interrupt, RunInv
<1>13. CASE Kill \/ TimeoutPasses
  BY <1>1, <1>13 DEF Kill, TimeoutPasses
<1>14. CASE UNCHANGED vars
  BY <1>1, <1>14 DEF vars
<1> QED
  BY <1>2, <1>3, <1>4, <1>5, <1>6, <1>7, <1>8, <1>9, <1>10, <1>11, <1>12, <1>13, <1>14
  DEF Next, Process, Environment, Ended, Receive

-----------------------------------------------------------------------------
(* The refinement.                                                         *)

LEMMA CountsInit == Init => Requests!Init
BY DEF Init, Requests!Init

\* Every step of the program is a step of EchoCount or changes none of its
\* variables.
LEMMA CountsStep ==
  ASSUME Punctual
  PROVE  TypeInv /\ RunInv /\ CountInv /\ [Next]_vars => [Requests!Next]_(Requests!countVars)
<1> SUFFICES ASSUME TypeOK, Control, RunInv, CountInv, [Next]_vars
             PROVE  [Requests!Next]_(Requests!countVars)
  BY DEF TypeInv
<1> USE DEF procVars, sigVars, loopVars, memVars, cntVars, netVars, histVars
<1>1. ASSUME UNCHANGED <<num_xmit, answered, num_recv, num_rept>>
      PROVE  UNCHANGED Requests!countVars
  BY <1>1 DEF Requests!countVars
<1>2. ASSUME NEW ok \in BOOLEAN, SendEcho(ok), UNCHANGED <<answered, num_recv, num_rept>>
      PROVE  [Requests!Next]_(Requests!countVars)
  <2>1. num_xmit' = (IF ok THEN num_xmit + 1 ELSE num_xmit)
    BY <1>2, SendEchoEffect
  <2> QED
    BY <1>2, <2>1 DEF Requests!Next, Requests!Transmit, Requests!countVars
<1>3. CASE PreSend \/ SendRequest
  BY <1>2, <1>3 DEF PreSend, SendRequest
<1>4. ASSUME NEW q \in 0 .. num_xmit - 1, OwnReply(q)
      PROVE  Requests!FirstReply(q) \/ Requests!Duplicate(q)
  <2>1. pc = "recv" /\ ret_val = 0
    BY <1>4 DEF OwnReply, Receiving, RunInv
  <2>2. Slot(Wire(q)) = Slot(q) /\ (Slot(q) \in marked <=> q \in answered)
    BY <1>4, <2>1, CountOwnReply DEF CountInv, Loop
  <2>3. answered' = answered \cup {q} /\ num_xmit' = num_xmit
    BY <1>4 DEF OwnReply, CountReply
  <2>4. CASE q \in answered
    BY <1>4, <2>2, <2>3, <2>4 DEF OwnReply, CountReply, Requests!Duplicate
  <2>5. CASE q \notin answered
    BY <1>4, <2>2, <2>3, <2>5 DEF OwnReply, CountReply, Requests!FirstReply
  <2> QED
    BY <2>4, <2>5
<1>5. CASE \E q \in 0 .. num_xmit - 1 : OwnReply(q)
  BY <1>4, <1>5 DEF Requests!Next
<1>6. CASE \E seq \in StraySeqs : StrayReply(seq) \/ NullTable(seq)
  BY <1>6, NothingStray
<1>7. CASE Finish
  BY <1>7 DEF Finish, ResetCounters, Requests!Next, Requests!NewRun
<1>8. CASE EchoStart \/ EchoFails \/ ProcessEnd \/ SigReset \/ SigInstall \/ WhileTest \/ Block
  BY <1>1, <1>8 DEF EchoStart, EchoFails, ProcessEnd, SigReset, SigInstall, WhileTest, Block
<1>9. CASE TimerExpires \/ Readable \/ SelectFails \/ Linger \/ Restore \/ Interrupt
  BY <1>1, <1>9 DEF TimerExpires, Readable, SelectFails, Linger, Restore, Interrupt
<1>10. CASE NoEcho \/ DisplayCrashes \/ NotOurs \/ Kill \/ TimeoutPasses \/ UNCHANGED vars
  BY <1>1, <1>10 DEF NoEcho, DisplayCrashes, NotOurs, Kill, TimeoutPasses, vars
<1> QED
  BY <1>3, <1>5, <1>6, <1>7, <1>8, <1>9, <1>10
  DEF Next, Process, Environment, Ended, Receive

\* PingRun implements EchoCount: with 1024 bits the statistics are those of a
\* program that remembers every request, as long as no reply is overtaken by
\* more than 1024 requests.
THEOREM CountsRequestsHolds ==
  ASSUME Punctual
  PROVE  Spec => CountsRequests
<1>1. TypeInv /\ RunInv /\ CountInv /\ [Next]_vars => CountInv'
  BY CountStep
<1>2. TypeInv /\ RunInv /\ [Next]_vars /\ CountInv => [Requests!Next]_(Requests!countVars)
  BY CountsStep
<1> QED
  BY <1>1, <1>2, CountInit, CountsInit, TypeInvariant, RunInvariant, PTL
  DEF Spec, CountsRequests, Requests!Spec
=============================================================================
