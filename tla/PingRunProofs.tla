---------------------------- MODULE PingRunProofs ----------------------------
(***************************************************************************)
(* Proofs about PingRun, for all values of its constants.                  *)
(***************************************************************************)
EXTENDS PingRun, FiniteSetTheorems, TLAPS

\* What the program's remainders of non-negative numbers are.
LEMMA ModBounds ==
  ASSUME NEW a \in Nat, NEW n \in Nat, n # 0
  PROVE  /\ a % n \in 0 .. n - 1
         /\ a % n <= a
         /\ a < n => a % n = a
<1>1. a % n \in 0 .. n - 1
  OBVIOUS
<1>2. a % n <= a
  BY SMTT(20)
<1>3. a < n => a % n = a
  OBVIOUS
<1> QED
  BY <1>1, <1>2, <1>3

\* _C_IND yields an index of the duplicate table, and never one beyond the
\* sequence number.
LEMMA SlotBounds ==
  ASSUME NEW seq \in Nat
  PROVE  Slot(seq) \in Slots /\ Slot(seq) <= seq /\ (seq < NBits => Slot(seq) = seq)
BY ModBounds, RunAssumption DEF Slot, Slots

\* The sequence number on the wire is a natural number not above the request's.
LEMMA WireBounds ==
  ASSUME NEW q \in Nat
  PROVE  Wire(q) \in Nat /\ Wire(q) <= q
BY ModBounds, RunAssumption DEF Wire

\* Stray replies carry natural sequence numbers.
LEMMA StrayNat ==
  ASSUME TypeOK, NEW seq \in StraySeqs
  PROVE  seq \in Nat
<1>1. CASE seq \in Forged
  BY <1>1, RunAssumption
<1>2. CASE seq \notin Forged
  <2>1. PICK h \in 1 .. host - 1 : seq \in {Wire(q) : q \in 0 .. past[h] - 1}
    BY <1>2 DEF StraySeqs
  <2>2. PICK q \in 0 .. past[h] - 1 : seq = Wire(q)
    BY <2>1
  <2>3. past[h] \in Nat
    BY <2>1, RunAssumption DEF TypeOK, HostIds
  <2> QED
    BY <2>2, <2>3, WireBounds
<1> QED
  BY <1>1, <1>2

-----------------------------------------------------------------------------
(* Type correctness.                                                       *)

\* What the types rest on: there is a host to be pinged outside "process",
\* a request is left to be sent in "pre", and the handler is installed only
\* within the loop (or where the process stopped).
Control ==
  /\ pc \notin {"process"} \cup Final => host <= Hosts
  /\ pc = "pre" => todo >= 1
  /\ disp = "handler" => pc \in Loop \cup Final

TypeInv == TypeOK /\ Control

\* What send_echo does to buffer, table and counter, whether it succeeds or not.
LEMMA SendEchoEffect ==
  ASSUME TypeOK, NEW ok, SendEcho(ok)
  PROVE  /\ buffer' \in BOOLEAN /\ table' \in BOOLEAN
         /\ table => table'
         /\ num_xmit' = (IF ok THEN num_xmit + 1 ELSE num_xmit)
         /\ \/ table' /\ marked' = TableContent \ {Slot(num_xmit)}
            \/ ~ok /\ UNCHANGED <<table, marked>>
<1>1. CASE PingXmit(TRUE) /\ ok
  BY <1>1 DEF PingXmit, SetbufOK, ClearBit
<1>2. CASE PingXmit(FALSE) /\ ~ok
  BY <1>2 DEF PingXmit, SetbufOK, ClearBit
<1>3. CASE ~ok /\ SetbufFails /\ UNCHANGED <<marked, num_xmit>>
  BY <1>3 DEF SetbufFails, TypeOK
<1> QED
  BY <1>1, <1>2, <1>3 DEF SendEcho

LEMMA SendEchoType ==
  ASSUME TypeOK, NEW ok, SendEcho(ok)
  PROVE  marked' \in SUBSET Slots /\ num_xmit' \in Nat
BY SendEchoEffect DEF TypeOK, TableContent

LEMMA TypeInit == Init => TypeInv
<1> SUFFICES ASSUME Init
             PROVE  TypeInv
  OBVIOUS
<1>1. past \in [HostIds -> Nat]
  BY DEF Init
<1>2. status \subseteq {1, 2} /\ marked \in SUBSET Slots /\ answered \in SUBSET Nat
  BY DEF Init
<1>3. stop \in BOOLEAN /\ finishing \in BOOLEAN /\ buffer \in BOOLEAN /\ table \in BOOLEAN
      /\ expired \in BOOLEAN /\ caught \in BOOLEAN
  BY DEF Init
<1>4. TypeOK
  BY <1>1, <1>2, <1>3, RunAssumption DEF Init, TypeOK
<1>5. Control
  BY DEF Init, Control, Final, Loop
<1> QED
  BY <1>4, <1>5 DEF TypeInv

LEMMA TypeStep == TypeInv /\ [Next]_vars => TypeInv'
<1> SUFFICES ASSUME TypeOK, Control, [Next]_vars
             PROVE  TypeInv'
  BY DEF TypeInv
<1> USE RunAssumption DEF TypeInv, TypeOK, Control, Final, Loop, HostIds
<1> USE DEF procVars, sigVars, loopVars, memVars, cntVars, netVars, histVars
<1>1. CASE EchoStart
  <2>1. todo' \in Nat /\ todo' >= 1
    BY <1>1 DEF EchoStart
  <2>2. TypeOK'
    BY <1>1, <2>1 DEF EchoStart
  <2>3. Control'
    BY <1>1, <2>1 DEF EchoStart
  <2> QED
    BY <2>2, <2>3
<1>2. CASE EchoFails
  BY <1>2 DEF EchoFails
<1>3. CASE ProcessEnd
  BY <1>3 DEF ProcessEnd
<1>4. CASE PreSend
  <2> PICK ok \in BOOLEAN : SendEcho(ok)
    BY <1>4 DEF PreSend
  <2>1. buffer' \in BOOLEAN /\ table' \in BOOLEAN /\ marked' \in SUBSET Slots /\ num_xmit' \in Nat
    BY SendEchoEffect, SendEchoType
  <2> QED
    BY <1>4, <2>1 DEF PreSend, PreloadEnds
<1>5. CASE SigReset
  <2>1. /\ old_action' = disp /\ stop' \in BOOLEAN /\ disp' = disp /\ pc = "sigreset"
        /\ pc' \in {"while", "siginstall"}
    BY <1>5 DEF SigReset
  <2>2. TypeOK'
    BY <1>5, <2>1 DEF SigReset
  <2>3. Control'
    BY <1>5, <2>1 DEF SigReset
  <2> QED
    BY <2>2, <2>3
<1>6. CASE SigInstall
  BY <1>6 DEF SigInstall
<1>7. CASE WhileTest
  BY <1>7 DEF WhileTest
<1>8. CASE Block
  BY <1>8 DEF Block
<1>9. CASE TimerExpires
  BY <1>9 DEF TimerExpires
<1>10. CASE Readable
  BY <1>10 DEF Readable
<1>11. CASE SelectFails
  BY <1>11 DEF SelectFails
<1>12. CASE SendRequest
  <2> PICK ok \in BOOLEAN : SendEcho(ok) /\ ret_val' = (IF ~ok THEN 4 ELSE IF expired THEN 1 ELSE 0)
    BY <1>12 DEF SendRequest
  <2>1. buffer' \in BOOLEAN /\ table' \in BOOLEAN /\ marked' \in SUBSET Slots /\ num_xmit' \in Nat
    BY SendEchoEffect, SendEchoType
  <2> QED
    BY <1>12, <2>1 DEF SendRequest
<1>13. CASE Linger
  BY <1>13 DEF Linger
<1>14. CASE \E q \in 0 .. num_xmit - 1 : OwnReply(q)
  <2> PICK q \in 0 .. num_xmit - 1 : OwnReply(q)
    BY <1>14
  <2>1. q \in Nat /\ Slot(Wire(q)) \in Slots
    BY WireBounds, SlotBounds
  <2> QED
    BY <2>1 DEF OwnReply, Receiving, CountReply, Displayed, AfterRecv
<1>15. CASE \E seq \in StraySeqs : StrayReply(seq)
  <2> PICK seq \in StraySeqs : StrayReply(seq)
    BY <1>15
  <2>1. Slot(seq) \in Slots
    BY StrayNat, SlotBounds
  <2> QED
    BY <2>1 DEF StrayReply, Receiving, CountReply, Displayed, AfterRecv
<1>16. CASE \E seq \in StraySeqs : NullTable(seq)
  BY <1>16 DEF NullTable, Receiving
<1>17. CASE NoEcho
  BY <1>17 DEF NoEcho, Receiving, Displayed, AfterRecv
<1>18. CASE NotOurs
  BY <1>18 DEF NotOurs, AfterRecv
<1>19. CASE DisplayCrashes
  BY <1>19 DEF DisplayCrashes, Receiving
<1>20. CASE Restore
  BY <1>20 DEF Restore, UnsetData
<1>21. CASE Finish
  <2>1. past' \in [HostIds -> Nat]
    BY <1>21 DEF Finish
  <2>2. status' \subseteq {1, 2}
    BY <1>21 DEF Finish, EchoResult
  <2> QED
    <3>1. host' \in 1 .. Hosts + 1
      BY <1>21 DEF Finish
    <3>2. TypeOK'
      BY <1>21, <2>1, <2>2, <3>1 DEF Finish, ResetCounters
    <3>3. Control'
      BY <1>21 DEF Finish
    <3> QED
      BY <3>2, <3>3
<1>22. CASE Interrupt
  BY <1>22 DEF Interrupt
<1>23. CASE Kill
  BY <1>23 DEF Kill
<1>24. CASE TimeoutPasses
  BY <1>24 DEF TimeoutPasses
<1>25. CASE UNCHANGED vars
  BY <1>25 DEF vars
<1> QED
  BY <1>1, <1>2, <1>3, <1>4, <1>5, <1>6, <1>7, <1>8, <1>9, <1>10, <1>11, <1>12, <1>13, <1>14,
     <1>15, <1>16, <1>17, <1>18, <1>19, <1>20, <1>21, <1>22, <1>23, <1>24, <1>25
  DEF Next, Process, Environment, Ended, Receive

LEMMA TypeInvariant == Spec => []TypeInv
BY TypeInit, TypeStep, PTL DEF Spec

\* Every variable keeps its type; in particular ping_process never runs past
\* its operands and the disposition ping_run restores is never its own handler.
THEOREM TypeCorrect == Spec => []TypeOK
<1>1. TypeInv => TypeOK
  BY DEF TypeInv
<1> QED
  BY <1>1, TypeInvariant, PTL

-----------------------------------------------------------------------------
(* The interruption flag.                                                  *)

\* A run has not begun, or its loop not been entered.
Before == {"process", "pre", "sigreset", "siginstall"}

\* Why the flag speaks of this run only: it is reset while no handler is
\* installed, and never set when SIGINT is ignored, where it is not reset.
\* Why one request is the limit: a request that should not have been sent
\* leaves behind the flag or a result that ends the loop at its next test.
SignalInv ==
  /\ disp = "ignore" => ~stop
  /\ old_action = "ignore" => disp = "ignore"
  /\ pc = "siginstall" => old_action = "default" /\ ~stop
  /\ pc \in Before => ~caught /\ extra = 0
  /\ StopIsThisRuns
  /\ OneAfterStop
  /\ pc \in {"arm", "pselect", "recv", "send"} => extra = 0
  /\ pc = "while" /\ extra > 0 => stop \/ ret_val # 0

LEMMA SignalInit == Init => SignalInv
BY DEF Init, SignalInv, StopIsThisRuns, OneAfterStop, Before, Loop

LEMMA SignalStep == TypeInv /\ SignalInv /\ [Next]_vars => SignalInv'
<1> SUFFICES ASSUME TypeOK, Control, SignalInv, [Next]_vars
             PROVE  SignalInv'
  BY DEF TypeInv
<1> USE DEF TypeOK, Control, SignalInv, StopIsThisRuns, OneAfterStop, Before, Loop, Final
<1> USE DEF procVars, sigVars, loopVars, memVars, cntVars, netVars, histVars
<1>1. CASE EchoStart \/ EchoFails \/ ProcessEnd
  BY <1>1 DEF EchoStart, EchoFails, ProcessEnd
<1>2. CASE PreSend
  BY <1>2 DEF PreSend
<1>3. CASE SigReset
  BY <1>3 DEF SigReset
<1>4. CASE SigInstall
  BY <1>4 DEF SigInstall
<1>5. CASE WhileTest
  BY <1>5 DEF WhileTest, LoopGoesOn
<1>6. CASE Block \/ TimerExpires \/ Readable
  BY <1>6 DEF Block, TimerExpires, Readable
<1>7. CASE SelectFails
  BY <1>7 DEF SelectFails
<1>8. CASE SendRequest
  BY <1>8 DEF SendRequest
<1>9. CASE Linger
  BY <1>9 DEF Linger
<1>10. CASE Receive
  <2>1. ASSUME NEW q \in 0 .. num_xmit - 1, OwnReply(q) PROVE SignalInv'
    BY <2>1 DEF OwnReply, Receiving
  <2>2. ASSUME NEW seq \in StraySeqs, StrayReply(seq) PROVE SignalInv'
    BY <2>2 DEF StrayReply, Receiving
  <2>3. ASSUME NEW seq \in StraySeqs, NullTable(seq) PROVE SignalInv'
    BY <2>3 DEF NullTable, Receiving
  <2>4. CASE NoEcho \/ DisplayCrashes \/ NotOurs
    BY <2>4 DEF NoEcho, DisplayCrashes, NotOurs, Receiving
  <2> QED
    BY <1>10, <2>1, <2>2, <2>3, <2>4 DEF Receive
<1>11. CASE Restore
  BY <1>11 DEF Restore
<1>12. CASE Finish
  BY <1>12 DEF Finish
<1>13. CASE Interrupt
  BY <1>13 DEF Interrupt
<1>14. CASE Kill \/ TimeoutPasses
  BY <1>14 DEF Kill, TimeoutPasses
<1>15. CASE UNCHANGED vars
  BY <1>15 DEF vars
<1> QED
  BY <1>1, <1>2, <1>3, <1>4, <1>5, <1>6, <1>7, <1>8, <1>9, <1>10, <1>11, <1>12, <1>13, <1>14, <1>15
  DEF Next, Process, Environment, Ended

LEMMA SignalInvariant == Spec => []SignalInv
BY SignalInit, SignalStep, TypeInvariant, PTL DEF Spec

\* The loop of every run obeys exactly the interruptions of that run: stop is
\* never stale there, and no caught SIGINT is forgotten.
THEOREM StopCorrect == Spec => []StopIsThisRuns
<1>1. SignalInv => StopIsThisRuns
  BY DEF SignalInv
<1> QED
  BY <1>1, SignalInvariant, PTL

\* After SIGINT was caught or the -w seconds passed, the loop of a run sends
\* at most one more request.
THEOREM OneAfterStopHolds == Spec => []OneAfterStop
<1>1. SignalInv => OneAfterStop
  BY DEF SignalInv
<1> QED
  BY <1>1, SignalInvariant, PTL

-----------------------------------------------------------------------------
(* Buffer, duplicate table and the reset between hosts.                    *)

\* Places where a run may send or receive.
Active == {"pre", "sigreset", "siginstall"} \cup Loop

\* A run begins from nothing because loop_event_post frees the table on every
\* way out of the loop and ping_reset clears the counters; whoever numbered a
\* request allocated the table first; a set bit means a packet received.
RunInv ==
  /\ pc = "process" => num_xmit = 0 /\ num_recv = 0 /\ num_rept = 0 /\ ~buffer /\ ~table
  /\ pc = "pre" => num_recv = 0 /\ num_rept = 0 /\ todo <= Preload + 1
  /\ pc = "pre" /\ todo = Preload + 1 => num_xmit = 0 /\ ~buffer /\ ~table
  /\ pc \in (Before \ {"process"}) \cup {"arm", "pselect", "recv", "send"} => ret_val = 0
  /\ pc = "finish" => ~buffer /\ ~table
  /\ ~table => marked = {}
  /\ pc \in Active /\ num_xmit > 0 => table
  /\ pc = "crashed" => num_xmit = 0
  /\ marked # {} => num_recv > 0
  /\ AnswerCounts

LEMMA RunInit == Init => RunInv
BY DEF Init, RunInv, AnswerCounts, Active, Before, Loop

LEMMA RunStep == TypeInv /\ RunInv /\ [Next]_vars => RunInv'
<1> SUFFICES ASSUME TypeOK, Control, RunInv, [Next]_vars
             PROVE  RunInv'
  BY DEF TypeInv
<1> USE RunAssumption DEF TypeOK, Control, RunInv, AnswerCounts, Active, Before, Loop, Final
<1> USE DEF procVars, sigVars, loopVars, memVars, cntVars, netVars, histVars
<1>1. CASE EchoStart \/ EchoFails \/ ProcessEnd
  BY <1>1 DEF EchoStart, EchoFails, ProcessEnd
<1>2. CASE PreSend
  <2> PICK ok \in BOOLEAN : SendEcho(ok)
    BY <1>2 DEF PreSend
  <2>1. marked' = {}
    BY <1>2, SendEchoEffect DEF PreSend, TableContent
  <2>2. num_xmit' > 0 => table'
    BY <1>2, SendEchoEffect DEF PreSend
  <2> QED
    BY <1>2, <2>1, <2>2 DEF PreSend, PreloadEnds
<1>3. CASE SigReset \/ SigInstall \/ WhileTest \/ Block \/ TimerExpires \/ Readable
  BY <1>3 DEF SigReset, SigInstall, WhileTest, LoopGoesOn, Block, TimerExpires, Readable
<1>4. CASE SelectFails \/ Linger
  BY <1>4 DEF SelectFails, Linger
<1>5. CASE SendRequest
  <2> PICK ok \in BOOLEAN : SendEcho(ok)
    BY <1>5 DEF SendRequest
  <2>1. marked' \subseteq marked /\ (~table' => marked' = {})
    BY SendEchoEffect DEF TableContent
  <2>2. num_xmit' > 0 => table'
    BY <1>5, SendEchoEffect DEF SendRequest
  <2> QED
    BY <1>5, <2>1, <2>2 DEF SendRequest
<1>6. CASE Receive
  <2>1. ASSUME NEW seq, CountReply(seq) PROVE num_recv' > 0 /\ UNCHANGED num_xmit
    BY <2>1 DEF CountReply
  <2>2. ASSUME NEW q \in 0 .. num_xmit - 1, OwnReply(q) PROVE RunInv'
    <3>1. num_recv' > 0 /\ UNCHANGED num_xmit
      BY <2>1, <2>2 DEF OwnReply
    <3> QED
      BY <2>2, <3>1 DEF OwnReply, Receiving
  <2>3. ASSUME NEW seq \in StraySeqs, StrayReply(seq) PROVE RunInv'
    <3>1. num_recv' > 0 /\ UNCHANGED num_xmit
      BY <2>1, <2>3 DEF StrayReply
    <3> QED
      BY <2>3, <3>1 DEF StrayReply, Receiving
  <2>4. ASSUME NEW seq \in StraySeqs, NullTable(seq) PROVE RunInv'
    BY <2>4 DEF NullTable, Receiving
  <2>5. CASE NoEcho \/ DisplayCrashes \/ NotOurs
    BY <2>5 DEF NoEcho, DisplayCrashes, NotOurs, Receiving
  <2> QED
    BY <1>6, <2>2, <2>3, <2>4, <2>5 DEF Receive
<1>7. CASE Restore
  BY <1>7 DEF Restore, UnsetData
<1>8. CASE Finish
  BY <1>8 DEF Finish, ResetCounters
<1>9. CASE Interrupt
  BY <1>9 DEF Interrupt
<1>10. CASE Kill \/ TimeoutPasses
  BY <1>10 DEF Kill, TimeoutPasses
<1>11. CASE UNCHANGED vars
  BY <1>11 DEF vars
<1> QED
  BY <1>1, <1>2, <1>3, <1>4, <1>5, <1>6, <1>7, <1>8, <1>9, <1>10, <1>11
  DEF Next, Process, Environment, Ended

LEMMA RunInvariant == Spec => []RunInv
BY RunInit, RunStep, TypeInvariant, PTL DEF Spec

\* The duplicate table exists as soon as a request is numbered; only a run
\* that sent nothing can dereference it before it exists.
THEOREM TableCorrect == Spec => []TableWhenSending
<1>1. RunInv /\ TypeInv => TableWhenSending
  BY DEF RunInv, TypeInv, TypeOK, TableWhenSending, Active
<1> QED
  BY <1>1, RunInvariant, TypeInvariant, PTL

\* Nothing of an earlier host's run is left when a run begins.
THEOREM FreshRunHolds == Spec => []FreshRun
<1>1. RunInv /\ TypeInv => FreshRun
  BY DEF RunInv, TypeInv, Control, FreshRun, Loop, Final
<1> QED
  BY <1>1, RunInvariant, TypeInvariant, PTL

\* A host that answered is never reported as unreachable.
THEOREM AnswerCountsHolds == Spec => []AnswerCounts
<1>1. RunInv => AnswerCounts
  BY DEF RunInv
<1> QED
  BY <1>1, RunInvariant, PTL

-----------------------------------------------------------------------------
(* The bound on the packets received.                                      *)

\* The bits of the table that a reply to some request of this run may set.
Owed == {i \in Slots : i < num_xmit} \ marked

\* A packet is counted as received when its bit becomes set.  A request adds
\* at most one bit to the owed ones, a reply to a request takes one away, and
\* a stray packet is counted as such: hence the sum below.  A refused sendto
\* clears a bit without numbering a request, but it also ends the loop.
Credit ==
  /\ RecvBounded
  /\ ret_val # 4 /\ pc \in {"process"} \cup Active =>
       num_recv + Cardinality(Owed) <= num_xmit + stray

LEMMA SlotsFinite ==
  ASSUME NEW S \in SUBSET Slots
  PROVE  IsFiniteSet(S) /\ Cardinality(S) \in Nat
<1>1. IsFiniteSet(Slots)
  BY FS_Interval, RunAssumption DEF Slots
<1> QED
  BY <1>1, FS_Subset, FS_CardinalityType

LEMMA OwedNat ==
  /\ IsFiniteSet(Owed) /\ Cardinality(Owed) \in Nat
  /\ IsFiniteSet(Owed') /\ Cardinality(Owed') \in Nat
<1>1. Owed \in SUBSET Slots /\ Owed' \in SUBSET Slots
  BY DEF Owed, Slots
<1> QED
  BY <1>1, SlotsFinite

\* One more element adds one at most.
LEMMA OwedAdd ==
  ASSUME NEW S, IsFiniteSet(S), NEW i, NEW T \in SUBSET (S \cup {i})
  PROVE  Cardinality(T) <= Cardinality(S) + 1
<1>1. Cardinality(S) \in Nat
  BY FS_CardinalityType
<1>2. IsFiniteSet(S \cup {i})
  BY FS_AddElement
<1>3. Cardinality(S \cup {i}) = Cardinality(S) \/ Cardinality(S \cup {i}) = Cardinality(S) + 1
  BY FS_AddElement
<1>4. Cardinality(T) <= Cardinality(S \cup {i}) /\ Cardinality(T) \in Nat
  BY <1>2, FS_Subset, FS_CardinalityType
<1> QED
  BY <1>1, <1>3, <1>4

LEMMA OwedSend ==
  ASSUME TypeOK, num_xmit' = num_xmit + 1, marked' \in {marked, marked \ {Slot(num_xmit)}}
  PROVE  Owed' \subseteq Owed \cup {Slot(num_xmit)}
<1>1. num_xmit \in Nat /\ NBits \in Nat
  BY RunAssumption DEF TypeOK
<1>2. num_xmit < NBits => Slot(num_xmit) = num_xmit
  BY <1>1, SlotBounds
<1> SUFFICES ASSUME NEW i \in Slots, i < num_xmit + 1, i \notin marked'
             PROVE  i \in Owed \cup {Slot(num_xmit)}
  BY DEF Owed, Slots
<1>3. CASE i = num_xmit
  BY <1>1, <1>2, <1>3 DEF Slots
<1>4. CASE i # num_xmit
  <2>1. i < num_xmit
    BY <1>1, <1>4 DEF Slots
  <2> QED
    BY <2>1 DEF Owed
<1> QED
  BY <1>3, <1>4

\* Setting a bit leaves no more owed than before, and one less if the bit was
\* owed.
LEMMA OwedReply ==
  ASSUME TypeOK, NEW seq, CountReply(seq)
  PROVE  /\ Cardinality(Owed') <= Cardinality(Owed)
         /\ Slot(seq) \in Owed => Cardinality(Owed') = Cardinality(Owed) - 1
<1>1. Owed' = Owed \ {Slot(seq)}
  BY DEF CountReply, Owed, Slots
<1>2. IsFiniteSet(Owed) /\ Cardinality(Owed) \in Nat
  BY OwedNat
<1>3. Cardinality(Owed') <= Cardinality(Owed)
  BY <1>1, <1>2, FS_Subset
<1>4. Slot(seq) \in Owed => Cardinality(Owed') = Cardinality(Owed) - 1
  BY <1>1, <1>2, FS_RemoveElement
<1> QED
  BY <1>3, <1>4

LEMMA CreditInit == Init => Credit
<1> SUFFICES ASSUME Init PROVE Credit
  OBVIOUS
<1>1. Owed = {}
  BY RunAssumption DEF Init, Owed, Slots
<1>2. Cardinality(Owed) = 0
  BY <1>1, FS_EmptySet
<1> QED
  BY <1>2 DEF Init, Credit, RecvBounded

LEMMA CreditSend ==
  ASSUME TypeOK, RunInv, NEW ok, SendEcho(ok), UNCHANGED <<num_recv, stray>>,
         num_recv + Cardinality(Owed) <= num_xmit + stray,
         ok \/ marked = {}
  PROVE  num_recv' + Cardinality(Owed') <= num_xmit' + stray'
<1>1. marked' \in {marked, marked \ {Slot(num_xmit)}}
  BY SendEchoEffect DEF TableContent, RunInv
<1>2. IsFiniteSet(Owed) /\ Cardinality(Owed) \in Nat /\ Cardinality(Owed') \in Nat
  BY OwedNat
<1>3. CASE ok
  <2>1. num_xmit' = num_xmit + 1
    BY <1>3, SendEchoEffect
  <2>2. Owed' \in SUBSET (Owed \cup {Slot(num_xmit)})
    BY <1>1, <2>1, OwedSend
  <2>3. Cardinality(Owed') <= Cardinality(Owed) + 1
    BY <1>2, <2>2, OwedAdd
  <2> QED
    BY <1>2, <2>1, <2>3 DEF TypeOK
<1>4. CASE ~ok
  <2>1. num_xmit' = num_xmit /\ marked' = marked
    BY <1>1, <1>4, SendEchoEffect
  <2>2. Owed' = Owed
    BY <2>1 DEF Owed, Slots
  <2> QED
    BY <2>1, <2>2
<1> QED
  BY <1>3, <1>4

LEMMA CreditStep == TypeInv /\ RunInv /\ Credit /\ [Next]_vars => Credit'
<1> SUFFICES ASSUME TypeOK, Control, RunInv, Credit, [Next]_vars
             PROVE  Credit'
  BY DEF TypeInv
<1> DEFINE Sum == num_recv + Cardinality(Owed) <= num_xmit + stray
<1> USE DEF Credit, RecvBounded, Active, Before, Loop, Final
<1> USE DEF procVars, sigVars, loopVars, memVars, cntVars, netVars, histVars
<1>1. ASSUME UNCHANGED <<marked, num_xmit, num_recv, stray>>,
             ret_val' # 4 /\ pc' \in {"process"} \cup Active =>
               ret_val # 4 /\ pc \in {"process"} \cup Active
      PROVE  Credit'
  <2>1. Owed' = Owed
    BY <1>1 DEF Owed, Slots
  <2> QED
    BY <1>1, <2>1
<1>2. CASE EchoStart
  <2>1. Owed' = {}
    BY <1>2, RunAssumption DEF EchoStart, RunInv, Owed, Slots
  <2>2. Cardinality(Owed') = 0
    BY <2>1, FS_EmptySet
  <2> QED
    BY <1>2, <2>2 DEF EchoStart, RunInv, TypeOK
<1>3. CASE EchoFails \/ ProcessEnd
  BY <1>1, <1>3 DEF EchoFails, ProcessEnd
<1>4. CASE PreSend
  <2> PICK ok \in BOOLEAN : SendEcho(ok)
    BY <1>4 DEF PreSend
  <2>1. marked = {}
    BY <1>4 DEF PreSend, RunInv, TypeOK
  <2>2. Sum
    BY <1>4 DEF PreSend, RunInv
  <2>3. Sum'
    BY <1>4, <2>1, <2>2, CreditSend DEF PreSend
  <2>4. RecvBounded'
    BY <1>4, SendEchoEffect DEF PreSend, TypeOK
  <2> QED
    BY <2>3, <2>4
<1>5. CASE SigReset \/ SigInstall \/ WhileTest \/ Block \/ TimerExpires \/ Readable
  BY <1>1, <1>5 DEF SigReset, SigInstall, WhileTest, Block, TimerExpires, Readable
<1>6. CASE SelectFails
  BY <1>1, <1>6 DEF SelectFails
<1>7. CASE SendRequest
  <2> PICK ok \in BOOLEAN : SendEcho(ok) /\ ret_val' = (IF ~ok THEN 4 ELSE IF expired THEN 1 ELSE 0)
    BY <1>7 DEF SendRequest
  <2>1. RecvBounded'
    BY <1>7, SendEchoEffect DEF SendRequest, TypeOK
  <2>2. CASE ok
    <3>1. Sum
      BY <1>7 DEF SendRequest, RunInv
    <3>2. Sum'
      BY <1>7, <2>2, <3>1, CreditSend DEF SendRequest
    <3> QED
      BY <2>1, <3>2
  <2>3. CASE ~ok
    BY <2>1, <2>3
  <2> QED
    BY <2>2, <2>3
<1>8. CASE Linger
  BY <1>1, <1>8 DEF Linger, RunInv
<1>9. ASSUME NEW seq, CountReply(seq), Sum,
             \/ /\ stray' = stray
                /\ Slot(seq) \notin marked => Slot(seq) \in Owed
             \/ stray' = (IF Slot(seq) \in marked THEN stray ELSE stray + 1)
      PROVE  Credit'
  <2>1. Cardinality(Owed) \in Nat /\ Cardinality(Owed') \in Nat
    BY OwedNat
  <2>2. /\ Cardinality(Owed') <= Cardinality(Owed)
        /\ Slot(seq) \in Owed => Cardinality(Owed') = Cardinality(Owed) - 1
    BY <1>9, OwedReply
  <2>3. num_recv \in Nat /\ num_xmit \in Nat /\ stray \in Nat /\ num_xmit' = num_xmit
    BY <1>9 DEF TypeOK, CountReply
  <2>4. CASE Slot(seq) \in marked
    BY <1>9, <2>1, <2>2, <2>3, <2>4 DEF CountReply
  <2>5. CASE Slot(seq) \notin marked
    <3>1. num_recv' = num_recv + 1
      BY <1>9, <2>5 DEF CountReply
    <3>2. CASE stray' = stray /\ Slot(seq) \in Owed
      BY <1>9, <2>1, <2>2, <2>3, <3>1, <3>2
    <3>3. CASE stray' = stray + 1
      BY <1>9, <2>1, <2>2, <2>3, <3>1, <3>3
    <3> QED
      BY <1>9, <2>5, <3>2, <3>3
  <2> QED
    BY <2>4, <2>5
<1>10. ASSUME NEW q \in 0 .. num_xmit - 1, OwnReply(q)
       PROVE  Credit'
  <2>1. Sum
    BY <1>10 DEF OwnReply, Receiving, RunInv
  <2>2. CountReply(Wire(q)) /\ stray' = stray
    BY <1>10 DEF OwnReply
  <2>3. q \in Nat /\ q < num_xmit
    BY DEF TypeOK
  <2>4. Slot(Wire(q)) \in Slots /\ Slot(Wire(q)) < num_xmit
    BY <2>3, WireBounds, SlotBounds DEF TypeOK, Slots
  <2>5. Slot(Wire(q)) \notin marked => Slot(Wire(q)) \in Owed
    BY <2>4 DEF Owed
  <2> QED
    BY <1>9, <2>1, <2>2, <2>5
<1>11. ASSUME NEW seq \in StraySeqs, StrayReply(seq)
       PROVE  Credit'
  <2>1. Sum
    BY <1>11 DEF StrayReply, Receiving, RunInv
  <2> QED
    BY <1>9, <1>11, <2>1 DEF StrayReply
<1>12. ASSUME NEW seq \in StraySeqs, NullTable(seq)
       PROVE  Credit'
  BY <1>1, <1>12 DEF NullTable
<1>13. CASE NoEcho \/ DisplayCrashes \/ NotOurs
  BY <1>1, <1>13 DEF NoEcho, DisplayCrashes, NotOurs, Receiving, RunInv
<1>14. CASE Restore
  BY <1>14 DEF Restore
<1>15. CASE Finish
  <2>1. Owed' = {}
    BY <1>15, RunAssumption DEF Finish, ResetCounters, Owed, Slots
  <2>2. Cardinality(Owed') = 0
    BY <2>1, FS_EmptySet
  <2> QED
    BY <1>15, <2>2 DEF Finish, ResetCounters
<1>16. CASE Interrupt
  BY <1>1, <1>16 DEF Interrupt, RunInv
<1>17. CASE Kill \/ TimeoutPasses
  BY <1>1, <1>17 DEF Kill, TimeoutPasses
<1>18. CASE UNCHANGED vars
  BY <1>1, <1>18 DEF vars
<1> QED
  BY <1>2, <1>3, <1>4, <1>5, <1>6, <1>7, <1>8, <1>10, <1>11, <1>12, <1>13, <1>14, <1>15, <1>16,
     <1>17, <1>18
  DEF Next, Process, Environment, Ended, Receive

LEMMA CreditInvariant == Spec => []Credit
BY CreditInit, CreditStep, TypeInvariant, RunInvariant, PTL DEF Spec

\* No run counts more packets received than it transmitted, stray packets
\* aside, whatever the size of the table and of the sequence numbers.
THEOREM RecvBoundedHolds == Spec => []RecvBounded
<1>1. Credit => RecvBounded
  BY DEF Credit
<1> QED
  BY <1>1, CreditInvariant, PTL

-----------------------------------------------------------------------------
(* What the liveness of a run that is to stop, or that counts, rests on.   *)

\* The rank at each place, as far as a step needs it.
LEMMA LeftAt ==
  ASSUME TypeOK
  PROVE  /\ pc \in Final            => Left = 0
         /\ pc = "finish"           => Left = 1
         /\ pc = "restore"          => Left = 2
         /\ pc = "while"            => Left = IF LoopGoesOn THEN 7 + Grace ELSE 3
         /\ pc \in {"recv", "send"} => Left = 4 + Grace
         /\ pc = "pselect"          => Left = 5 + Grace
         /\ pc = "arm"              => Left = 6 + Grace
         /\ pc = "siginstall"       => Left = 8 + Grace
         /\ pc = "sigreset"         => Left = 9 + Grace
         /\ pc = "pre"              => Left = 9 + Grace + todo
         /\ pc = "process"          => Left = IF host > Hosts THEN 1 ELSE Preload + 15
         /\ Grace \in {0, 4}
<1>1. Grace \in {0, 4}
  BY DEF Grace
<1>2. CASE pc \in Final
  BY <1>1, <1>2 DEF Left, Final
<1>3. CASE pc \in {"finish", "restore", "while"}
  BY <1>1, <1>3 DEF Left, Final
<1>4. CASE pc \in {"recv", "send", "pselect", "arm"}
  BY <1>1, <1>4 DEF Left, Final
<1>5. CASE pc \in {"siginstall", "sigreset", "pre", "process"}
  BY <1>1, <1>5 DEF Left, Final
<1> QED
  BY <1>1, <1>2, <1>3, <1>4, <1>5 DEF TypeOK, Loop, Final

\* The same in the next state.
LEMMA LeftAtNext ==
  ASSUME TypeOK'
  PROVE  /\ pc' \in Final            => Left' = 0
         /\ pc' = "finish"           => Left' = 1
         /\ pc' = "restore"          => Left' = 2
         /\ pc' = "while"            => Left' = IF LoopGoesOn' THEN 7 + Grace' ELSE 3
         /\ pc' \in {"recv", "send"} => Left' = 4 + Grace'
         /\ pc' = "pselect"          => Left' = 5 + Grace'
         /\ pc' = "arm"              => Left' = 6 + Grace'
         /\ pc' = "siginstall"       => Left' = 8 + Grace'
         /\ pc' = "sigreset"         => Left' = 9 + Grace'
         /\ pc' = "pre"              => Left' = 9 + Grace' + todo'
         /\ pc' = "process"          => Left' = IF host' > Hosts THEN 1 ELSE Preload + 15
         /\ Grace' \in {0, 4}
<1>1. Grace' \in {0, 4}
  BY DEF Grace
<1>2. CASE pc' \in Final
  BY <1>1, <1>2 DEF Left, Final
<1>3. CASE pc' \in {"finish", "restore", "while"}
  BY <1>1, <1>3 DEF Left, Final
<1>4. CASE pc' \in {"recv", "send", "pselect", "arm"}
  BY <1>1, <1>4 DEF Left, Final
<1>5. CASE pc' \in {"siginstall", "sigreset", "pre", "process"}
  BY <1>1, <1>5 DEF Left, Final
<1> QED
  BY <1>1, <1>2, <1>3, <1>4, <1>5 DEF TypeOK, Loop, Final

\* What the loop does after a response to a run that is to stop: it ends.
LEMMA StoppedAfterRecv ==
  ASSUME StopIsThisRuns, expired \/ caught, pc = "recv",
         \/ Displayed
         \/ AfterRecv(nresp),
         UNCHANGED stop
  PROVE  ~LoopGoesOn'
<1>1. expired \/ stop
  BY DEF StopIsThisRuns, Loop
<1>2. expired => ret_val' # 0
  BY DEF Displayed, AfterRecv
<1> QED
  BY <1>1, <1>2 DEF LoopGoesOn

LEMMA NearsEndStep ==
  ASSUME TypeInv, TypeInv', SignalInv, Next, vars' # vars, expired \/ caught
  PROVE  \/ host' > host
         \/ host' = host /\ Left' < Left
         \/ host' = host /\ Left' <= Left /\ Environment
<1> DEFINE Nearer == host' = host /\ Left' < Left
<1> USE RunAssumption
<1> USE DEF procVars, sigVars, loopVars, memVars, cntVars, netVars, histVars
<1>t. TypeOK /\ TypeOK' /\ Control
  BY DEF TypeInv
<1>n. todo \in Nat /\ todo' \in Nat /\ host \in Nat /\ Preload \in Nat
  BY <1>t DEF TypeOK
<1>g. Grace \in {0, 4} /\ Grace' \in {0, 4}
  BY <1>t, LeftAt, LeftAtNext
<1>e. ASSUME pc \notin Final, pc' \in Final, host' = host
      PROVE  Nearer
  <2>1. Left' = 0
    BY <1>t, <1>e, LeftAtNext
  <2>2. CASE pc \in {"finish", "restore", "while", "recv", "send", "pselect", "arm"}
    <3>1. Left \in {1, 2, 3, 7 + Grace, 4 + Grace, 5 + Grace, 6 + Grace}
      BY <1>t, <2>2, LeftAt
    <3> QED
      BY <1>e, <1>g, <2>1, <3>1
  <2>3. CASE pc \in {"siginstall", "sigreset", "pre", "process"}
    <3>1. Left \in {8 + Grace, 9 + Grace, 9 + Grace + todo, 1, Preload + 15}
      BY <1>t, <2>3, LeftAt
    <3> QED
      BY <1>e, <1>n, <1>g, <2>1, <3>1
  <2> QED
    BY <1>t, <1>e, <2>2, <2>3 DEF TypeOK, Loop, Final
<1>w. ASSUME pc \in {"pselect", "recv", "send"}, pc' = "while", ~LoopGoesOn', host' = host
      PROVE  Nearer
  <2>1. Left' = 3
    BY <1>t, <1>w, LeftAtNext
  <2>2. Left \in {4 + Grace, 5 + Grace}
    BY <1>t, <1>w, LeftAt
  <2> QED
    BY <1>g, <1>w, <2>1, <2>2
<1>1. CASE EchoStart
  <2>1. Left = Preload + 15
    BY <1>1, <1>t, <1>n, LeftAt DEF EchoStart
  <2>2. Left' = 9 + Grace' + (Preload + 1)
    BY <1>1, <1>t, LeftAtNext DEF EchoStart
  <2>3. host' = host
    BY <1>1 DEF EchoStart
  <2>4. Left' <= Preload + 14
    <3>1. CASE Grace' = 0
      BY <1>n, <2>2, <3>1
    <3>2. CASE Grace' = 4
      BY <1>n, <2>2, <3>2
    <3> QED
      BY <1>g, <3>1, <3>2
  <2>5. Left' \in Int
    BY <1>n, <1>g, <2>2
  <2> QED
    BY <1>n, <2>1, <2>3, <2>4, <2>5
<1>2. CASE EchoFails \/ ProcessEnd
  BY <1>2, <1>e DEF EchoFails, ProcessEnd, Final
<1>3. CASE PreSend
  <2>1. Left = 9 + Grace + todo /\ Grace' = Grace
    BY <1>3, <1>t, LeftAt DEF PreSend, Grace
  <2>2. CASE PreloadEnds
    <3>1. Left' = 9 + Grace' /\ todo = 1
      BY <1>3, <1>t, <2>2, LeftAtNext DEF PreSend, PreloadEnds
    <3> QED
      BY <1>3, <1>g, <2>1, <3>1 DEF PreSend
  <2>3. CASE ~PreloadEnds
    <3>1. Left' = 9 + Grace' + todo' /\ todo' = todo - 1
      BY <1>3, <1>t, <2>3, LeftAtNext DEF PreSend
    <3> QED
      BY <1>3, <1>n, <1>g, <2>1, <3>1 DEF PreSend
  <2> QED
    BY <2>2, <2>3
<1>4. CASE SigReset
  <2>1. Left = 9 + Grace /\ Grace' = Grace /\ host' = host
    BY <1>4, <1>t, LeftAt DEF SigReset, Grace
  <2>2. pc' = "while" \/ pc' = "siginstall"
    BY <1>4 DEF SigReset
  <2>3. Left' \in {3, 7 + Grace', 8 + Grace'}
    BY <1>t, <2>2, LeftAtNext
  <2> QED
    BY <1>g, <2>1, <2>3
<1>5. CASE SigInstall
  <2>1. Left = 8 + Grace /\ Grace' = Grace /\ host' = host
    BY <1>5, <1>t, LeftAt DEF SigInstall, Grace
  <2>2. Left' \in {3, 7 + Grace'}
    BY <1>5, <1>t, LeftAtNext DEF SigInstall
  <2> QED
    BY <1>g, <2>1, <2>2
<1>6. CASE WhileTest
  <2>1. Grace' = Grace /\ host' = host
    BY <1>6 DEF WhileTest, Grace
  <2>2. CASE LoopGoesOn
    <3>1. Left = 7 + Grace /\ Left' = 6 + Grace'
      BY <1>6, <1>t, <2>2, LeftAt, LeftAtNext DEF WhileTest
    <3> QED
      BY <1>g, <2>1, <3>1
  <2>3. CASE ~LoopGoesOn
    <3>1. Left = 3 /\ Left' = 2
      BY <1>6, <1>t, <2>3, LeftAt, LeftAtNext DEF WhileTest
    <3> QED
      BY <2>1, <3>1
  <2> QED
    BY <2>2, <2>3
<1>7. CASE Block
  <2>1. Grace' = Grace /\ host' = host /\ Left = 6 + Grace /\ Left' = 5 + Grace'
    BY <1>7, <1>t, LeftAt, LeftAtNext DEF Block, Grace
  <2> QED
    BY <1>g, <2>1
<1>8. CASE TimerExpires \/ Readable
  <2>1. Grace' = Grace /\ host' = host /\ Left = 5 + Grace /\ Left' = 4 + Grace'
    BY <1>8, <1>t, LeftAt, LeftAtNext DEF TimerExpires, Readable, Grace
  <2> QED
    BY <1>g, <2>1
<1>9. CASE SelectFails
  BY <1>9, <1>w DEF SelectFails, LoopGoesOn
<1>10. CASE SendRequest
  <2>1. PICK ok \in BOOLEAN : ret_val' = (IF ~ok THEN 4 ELSE IF expired THEN 1 ELSE 0)
    BY <1>10 DEF SendRequest
  <2>2. expired \/ stop
    BY <1>10 DEF SendRequest, SignalInv, StopIsThisRuns, Loop
  <2>3. ~LoopGoesOn'
    BY <1>10, <2>1, <2>2 DEF SendRequest, LoopGoesOn
  <2> QED
    BY <1>10, <1>w, <2>3 DEF SendRequest
<1>11. CASE Linger
  <2>1. CASE finishing
    <3>1. ~LoopGoesOn'
      BY <1>11, <2>1 DEF Linger, LoopGoesOn
    <3> QED
      BY <1>11, <1>w, <3>1 DEF Linger
  <2>2. CASE ~finishing
    <3>1. Left = 8 /\ Grace' = 0 /\ host' = host
      BY <1>11, <1>t, <2>2, LeftAt DEF Linger, Grace, CountReached
    <3>2. Left' \in {3, 7}
      BY <1>11, <1>t, <3>1, LeftAtNext DEF Linger
    <3> QED
      BY <3>1, <3>2
  <2> QED
    BY <2>1, <2>2
<1>12. CASE Receive
  <2> DEFINE Stopped == ~LoopGoesOn' /\ pc = "recv" /\ pc' = "while" /\ host' = host
  <2>s. StopIsThisRuns
    BY DEF SignalInv
  <2>1. ASSUME NEW q \in 0 .. num_xmit - 1, OwnReply(q) PROVE Stopped
    BY <2>1, <2>s, StoppedAfterRecv DEF OwnReply, Receiving
  <2>2. ASSUME NEW seq \in StraySeqs, StrayReply(seq) PROVE Stopped
    BY <2>2, <2>s, StoppedAfterRecv DEF StrayReply, Receiving
  <2>3. ASSUME NEW seq \in StraySeqs, NullTable(seq) PROVE Nearer
    BY <2>3, <1>e DEF NullTable, Receiving, Final
  <2>4. CASE NoEcho
    BY <2>4, <2>s, <1>w, StoppedAfterRecv DEF NoEcho, Receiving
  <2>5. CASE NotOurs
    BY <2>5, <2>s, <1>w, StoppedAfterRecv DEF NotOurs
  <2>6. CASE DisplayCrashes
    BY <2>6, <1>e DEF DisplayCrashes, Receiving, Final
  <2>7. Stopped => Nearer
    BY <1>w
  <2> QED
    BY <1>12, <2>1, <2>2, <2>3, <2>4, <2>5, <2>6, <2>7 DEF Receive
<1>13. CASE Restore
  <2>1. host' = host /\ Left = 2 /\ Left' = 1
    BY <1>13, <1>t, LeftAt, LeftAtNext DEF Restore
  <2> QED
    BY <2>1
<1>14. CASE Finish
  BY <1>14, <1>n DEF Finish
<1>15. CASE Interrupt
  <2>1. host' = host /\ Grace' = Grace /\ Environment /\ pc \in Loop
    BY <1>15, <1>t DEF Interrupt, Grace, Control, Environment
  <2>2. CASE pc \in {"pselect", "while"}
    <3>1. Left' = 3
      BY <1>15, <1>t, <2>2, LeftAtNext DEF Interrupt, LoopGoesOn
    <3>2. Left >= 3
      BY <1>t, <1>g, <2>2, LeftAt
    <3> QED
      BY <2>1, <3>1, <3>2
  <2>3. CASE pc \notin {"pselect", "while"}
    <3>1. pc' = pc /\ pc \in {"arm", "recv", "send", "restore"}
      BY <1>15, <2>1, <2>3 DEF Interrupt, Loop
    <3>2. Left' = Left /\ Left \in {2, 4 + Grace, 6 + Grace}
      BY <1>t, <2>1, <3>1, LeftAt, LeftAtNext
    <3> QED
      BY <1>g, <2>1, <3>2
  <2> QED
    BY <2>2, <2>3
<1>16. CASE Kill
  BY <1>16, <1>e DEF Kill, Final
<1>17. CASE TimeoutPasses
  <2>1. host' = host /\ Environment
    BY <1>17 DEF TimeoutPasses, Environment
  <2>2. Left' = Left
    BY <1>17 DEF TimeoutPasses, Left, Grace, LoopGoesOn
  <2>3. Left \in Nat
    BY <1>t, <1>n, <1>g, LeftAt DEF TypeOK, Loop
  <2> QED
    BY <2>1, <2>2, <2>3
<1>18. ~Ended
  BY DEF Ended
<1> QED
  BY <1>1, <1>2, <1>3, <1>4, <1>5, <1>6, <1>7, <1>8, <1>9, <1>10, <1>11, <1>12, <1>13, <1>14,
     <1>15, <1>16, <1>17, <1>18
  DEF Next, Process, Environment

\* Once SIGINT was caught or the -w seconds are over, every step of ping_run
\* and loop_event brings the host nearer to its end, and nothing the network or
\* the user does takes it back: from the loop condition it is 7 steps at most,
\* and 4 more if the run has a count and has not lingered.
THEOREM NearsEndHolds == Spec => NearsEnd
<1>1. TypeInv /\ TypeInv' /\ SignalInv /\ [Next]_vars =>
        [expired \/ caught =>
           \/ host' > host
           \/ host' = host /\ Left' < Left
           \/ host' = host /\ Left' <= Left /\ Environment]_vars
  BY NearsEndStep
<1> QED
  BY <1>1, TypeInvariant, SignalInvariant, PTL DEF Spec, NearsEnd

\* Only ping_reset, after the last request of a host, takes a request back, and
\* only the end of the run clears the flag that it has lingered.
LEMMA CountsDownStep ==
  ASSUME TypeInv, TypeInv', RunInv, Next, vars' # vars, Count # 0, host' = host
  PROVE  /\ Unsent' <= Unsent
         /\ pc = "send" /\ pc' = "while" /\ ret_val' = 0 => Unsent' < Unsent
<1> USE RunAssumption
<1> USE DEF procVars, sigVars, loopVars, memVars, cntVars, netVars, histVars
<1>t. num_xmit \in Nat /\ num_xmit' \in Nat /\ finishing \in BOOLEAN /\ finishing' \in BOOLEAN
      /\ host \in Nat /\ Count \in Nat /\ Count > 0
  BY DEF TypeInv, TypeOK
<1>s. ASSUME UNCHANGED <<num_xmit, finishing>>, pc # "send"
      PROVE  Unsent' <= Unsent
  BY <1>t, <1>s DEF Unsent
<1>1. CASE EchoStart
  <2>1. num_xmit = 0 /\ num_xmit' = 0
    BY <1>1 DEF EchoStart, RunInv
  <2> QED
    BY <1>1, <1>t, <2>1 DEF EchoStart, Unsent
<1>2. CASE EchoFails \/ ProcessEnd \/ SigReset \/ SigInstall \/ WhileTest \/ Block
           \/ TimerExpires \/ Readable \/ SelectFails \/ Restore
  <2>1. pc # "send" /\ UNCHANGED <<num_xmit, finishing>>
    BY <1>2 DEF EchoFails, ProcessEnd, SigReset, SigInstall, WhileTest, Block, TimerExpires,
                Readable, SelectFails, Restore
  <2> QED
    BY <1>s, <2>1
<1>3. CASE PreSend
  <2>1. PICK ok \in BOOLEAN : SendEcho(ok)
    BY <1>3 DEF PreSend
  <2>2. num_xmit' \in {num_xmit, num_xmit + 1}
    BY <1>t, <2>1, SendEchoEffect DEF TypeInv
  <2>3. pc # "send" /\ finishing' = finishing
    BY <1>3 DEF PreSend
  <2>4. CASE num_xmit' = num_xmit
    BY <1>s, <2>3, <2>4
  <2>5. CASE num_xmit' = num_xmit + 1
    BY <1>t, <2>3, <2>5 DEF Unsent
  <2> QED
    BY <2>2, <2>4, <2>5
<1>4. CASE SendRequest
  <2>1. PICK ok \in BOOLEAN : SendEcho(ok) /\ ret_val' = (IF ~ok THEN 4 ELSE IF expired THEN 1 ELSE 0)
    BY <1>4 DEF SendRequest
  <2>2. num_xmit' = (IF ok THEN num_xmit + 1 ELSE num_xmit)
    BY <2>1, SendEchoEffect DEF TypeInv
  <2>3. num_xmit < Count /\ finishing' = finishing
    BY <1>4, <1>t DEF SendRequest, CountReached
  <2>4. CASE ok
    BY <1>t, <2>2, <2>3, <2>4 DEF Unsent
  <2>5. CASE ~ok
    BY <1>t, <2>1, <2>2, <2>3, <2>5 DEF Unsent
  <2> QED
    BY <2>4, <2>5
<1>5. CASE Linger
  <2>1. num_xmit >= Count /\ num_xmit' = num_xmit /\ finishing' = TRUE
        /\ ret_val' = IF finishing THEN 1 ELSE 0
    BY <1>5 DEF Linger, CountReached
  <2> QED
    BY <1>t, <2>1 DEF Unsent
<1>6. CASE Receive
  <2>1. ASSUME NEW q \in 0 .. num_xmit - 1, OwnReply(q)
        PROVE  pc # "send" /\ UNCHANGED <<num_xmit, finishing>>
    BY <2>1 DEF OwnReply, Receiving, CountReply
  <2>2. ASSUME NEW seq \in StraySeqs, StrayReply(seq)
        PROVE  pc # "send" /\ UNCHANGED <<num_xmit, finishing>>
    BY <2>2 DEF StrayReply, Receiving, CountReply
  <2>3. ASSUME NEW seq \in StraySeqs, NullTable(seq)
        PROVE  pc # "send" /\ UNCHANGED <<num_xmit, finishing>>
    BY <2>3 DEF NullTable, Receiving
  <2>4. CASE NoEcho \/ DisplayCrashes \/ NotOurs
    BY <1>s, <2>4 DEF NoEcho, DisplayCrashes, NotOurs, Receiving
  <2> QED
    BY <1>6, <1>s, <2>1, <2>2, <2>3, <2>4 DEF Receive
<1>7. CASE Finish
  BY <1>7, <1>t DEF Finish
<1>8. CASE Environment
  <2>1. UNCHANGED <<num_xmit, finishing>>
    BY <1>8 DEF Environment, Interrupt, Kill, TimeoutPasses
  <2>2. pc = "send" => pc' # "while"
    BY <1>8 DEF Environment, Interrupt, Kill, TimeoutPasses
  <2> QED
    BY <1>t, <2>1, <2>2 DEF Unsent
<1>9. ~Ended
  BY DEF Ended
<1> QED
  BY <1>1, <1>2, <1>3, <1>4, <1>5, <1>6, <1>7, <1>8, <1>9 DEF Next, Process

\* A counted run cannot be kept from its end by what it receives: what is left
\* to send never grows, and every wait that expires makes it smaller.
THEOREM CountsDownHolds == Spec => CountsDown
<1>1. TypeInv /\ TypeInv' /\ RunInv /\ [Next]_vars =>
        [Count # 0 /\ host' = host =>
           /\ Unsent' <= Unsent
           /\ pc = "send" /\ pc' = "while" /\ ret_val' = 0 => Unsent' < Unsent]_vars
  BY CountsDownStep
<1> QED
  BY <1>1, TypeInvariant, RunInvariant, PTL DEF Spec, CountsDown

-----------------------------------------------------------------------------
(* When the messages of ping_finish and the exit status can be trusted.    *)

\* Nobody forges replies, and no reply is late for the host it was sent to: it
\* does not come, or there is no host after it.
Unmixed == Forged = {} /\ (~CrossTalk \/ Hosts <= 1)

LEMMA NothingMixed ==
  ASSUME Unmixed, TypeInv, pc = "recv"
  PROVE  StraySeqs = {}
<1>1. CASE ~CrossTalk
  BY <1>1 DEF Unmixed, StraySeqs
<1>2. CASE Hosts <= 1
  <2>1. host \in Nat /\ host <= 1
    BY <1>2, RunAssumption DEF TypeInv, TypeOK, Control, Final
  <2>2. 1 .. host - 1 = {}
    BY <2>1
  <2> QED
    BY <2>2 DEF Unmixed, StraySeqs
<1> QED
  BY <1>1, <1>2 DEF Unmixed

\* All that was received answers requests of this run.
OwnOnly ==
  /\ stray = 0
  /\ num_recv > 0 => answered # {}

LEMMA OwnOnlyStep ==
  ASSUME Unmixed, TypeInv, OwnOnly, [Next]_vars
  PROVE  OwnOnly'
<1> USE DEF OwnOnly
<1> USE DEF procVars, sigVars, loopVars, memVars, cntVars, netVars, histVars
<1>1. CASE PreSend \/ SendRequest
  BY <1>1 DEF PreSend, SendRequest
<1>2. CASE Receive
  <2>1. ASSUME NEW q \in 0 .. num_xmit - 1, OwnReply(q) PROVE OwnOnly'
    BY <2>1 DEF OwnReply
  <2>2. ASSUME NEW seq \in StraySeqs, StrayReply(seq) \/ NullTable(seq) PROVE OwnOnly'
    BY <2>2, NothingMixed DEF StrayReply, NullTable, Receiving
  <2>3. CASE NoEcho \/ DisplayCrashes \/ NotOurs
    BY <2>3 DEF NoEcho, DisplayCrashes, NotOurs
  <2> QED
    BY <1>2, <2>1, <2>2, <2>3 DEF Receive
<1>3. CASE Finish
  BY <1>3 DEF Finish, ResetCounters
<1>4. CASE EchoStart \/ EchoFails \/ ProcessEnd \/ SigReset \/ SigInstall \/ WhileTest \/ Block
  BY <1>4 DEF EchoStart, EchoFails, ProcessEnd, SigReset, SigInstall, WhileTest, Block
<1>5. CASE TimerExpires \/ Readable \/ SelectFails \/ Linger \/ Restore
  BY <1>5 DEF TimerExpires, Readable, SelectFails, Linger, Restore
<1>6. CASE Interrupt \/ Kill \/ TimeoutPasses \/ UNCHANGED vars
  BY <1>6 DEF Interrupt, Kill, TimeoutPasses, vars
<1> QED
  BY <1>1, <1>2, <1>3, <1>4, <1>5, <1>6 DEF Next, Process, Environment, Ended

LEMMA OwnOnlyInvariant ==
  ASSUME Unmixed
  PROVE  Spec => []OwnOnly
<1>1. Init => OwnOnly
  BY DEF Init, OwnOnly
<1>2. TypeInv /\ OwnOnly /\ [Next]_vars => OwnOnly'
  BY OwnOnlyStep
<1> QED
  BY <1>1, <1>2, TypeInvariant, PTL DEF Spec

\* "-- somebody is printing forged packets!" is never said of an innocent
\* network: for one host, or without replies to an earlier one.
THEOREM ForgersOnly ==
  ASSUME Unmixed
  PROVE  Spec => [](num_recv <= num_xmit)
<1>1. TypeInv /\ RecvBounded /\ OwnOnly => num_recv <= num_xmit
  BY DEF TypeInv, TypeOK, RecvBounded, OwnOnly
<1> QED
  BY <1>1, OwnOnlyInvariant, RecvBoundedHolds, TypeInvariant, PTL

\* Exit status 1 tells of every host that answered nothing, for one host or
\* without replies to an earlier one: what the comment on the exit status says
\* (ft_ping_process.c:33) fails for that reason only.
THEOREM SilenceReported ==
  ASSUME Unmixed
  PROVE  Spec => UnreachableReported
<1>1. TypeInv /\ OwnOnly /\ [Next]_vars =>
        [(pc = "finish" /\ pc' = "process" /\ answered = {}) => 1 \in status']_vars
  <2> SUFFICES ASSUME TypeInv, OwnOnly, Next, pc = "finish", pc' = "process", answered = {}
               PROVE  1 \in status' \/ UNCHANGED vars
    OBVIOUS
  <2>1. num_recv = 0
    BY DEF TypeInv, TypeOK, OwnOnly
  <2>2. Finish \/ UNCHANGED vars
    BY DEF Next, Process, Environment, Ended, Receive, EchoStart, EchoFails, ProcessEnd, PreSend,
           SigReset, SigInstall, WhileTest, Block, TimerExpires, Readable, SelectFails, SendRequest,
           Linger, OwnReply, StrayReply, NullTable, NoEcho, DisplayCrashes, NotOurs, Receiving,
           Restore, Interrupt, Kill, TimeoutPasses
  <2> QED
    BY <2>1, <2>2 DEF Finish, EchoResult
<1> QED
  BY <1>1, OwnOnlyInvariant, TypeInvariant, PTL DEF Spec, UnreachableReported
=============================================================================
