------------------------------- MODULE PingRun -------------------------------
(***************************************************************************)
(* ft_ping from ping_process down to loop_event: for each host operand in  *)
(* turn, one run that sends echo requests, waits in pselect, counts the    *)
(* replies and ends with an exit status.                                   *)
(*                                                                         *)
(* The process is sequential; what makes it hard is what happens around    *)
(* it: SIGINT between any two of its steps, replies that are late,         *)
(* duplicated or meant for the previous host (all hosts share one socket   *)
(* and one identifier), and calls that fail half-way.  The environment     *)
(* actions below do all of that.                                           *)
(*                                                                         *)
(* pc names the place in the code where the process stands:                *)
(*   "process"    the while condition of ping_process                      *)
(*   "pre"        loop_event_pre, `todo' requests still to send            *)
(*   "sigreset",                                                           *)
(*   "siginstall" the two halves of interruption_signal_handler_setup      *)
(*   "while"      the loop condition of ping_run                           *)
(*   "arm"        in loop_event, the wait computed, pselect not entered    *)
(*   "pselect"    blocked                                                  *)
(*   "recv"       pselect returned 1                                       *)
(*   "send"       pselect returned 0                                       *)
(*   "restore"    after the loop, before the signal handler is restored    *)
(*   "finish"     echo_finish and the rest of ping_echo                    *)
(*   "done"       ping_process has returned                                *)
(*   "killed"     SIGINT met its default action, or SIGSEGV                *)
(*   "crashed"    the duplicate table was dereferenced while NULL          *)
(***************************************************************************)
EXTENDS Integers, FiniteSets

CONSTANTS
  Hosts,       \* number of host operands
  NBits,       \* bits of ping_cktab: 8 * PING_CKTABSIZE, 1024 in the program
  SeqMod,      \* values of the 16-bit icmp_seq field: 65536
  Preload,     \* args->preload
  Count,       \* p->ping_count; 0 in the program, which never calls ping_set_count
  TimeoutSet,  \* whether -w was given
  Faults,      \* the calls that may fail
  Forged,      \* sequence numbers of replies forged by somebody else
  CrossTalk,   \* whether replies to an earlier host's requests may still arrive
  Lifetime,    \* a reply arrives before more than Lifetime requests follow its own
  MaxXmit,     \* bound: requests of a run before something stops it
  MaxResp      \* bound: responses counted by a run

FaultKinds == {"resolve", "alloc", "sendto", "pselect", "handler"}

ASSUME RunAssumption ==
  /\ Hosts \in Nat
  /\ NBits \in Nat \ {0}
  /\ SeqMod \in Nat \ {0}
  /\ Preload \in Nat
  /\ Count \in Nat
  /\ TimeoutSet \in BOOLEAN
  /\ Faults \subseteq FaultKinds
  /\ Forged \subseteq 0 .. SeqMod - 1
  /\ CrossTalk \in BOOLEAN
  /\ Lifetime \in Nat
  /\ MaxXmit \in Nat
  /\ MaxResp \in Nat

VARIABLES
  pc,
  host,        \* ping_process's i, from 1
  status,      \* *status, as the set of its bits (1, 2, 4)
  disp,        \* the disposition of SIGINT: "default", "ignore" or "handler"
  old_action,  \* the disposition ping_run found and restores
  stop,        \* the flag the signal handler sets
  ret_val,     \* loop_event's last result: 0 continue, 1 stop, 4 error
  finishing,
  nresp,
  todo,        \* requests loop_event_pre still sends
  buffer,      \* ping_buffer # NULL
  table,       \* ping_cktab # NULL
  marked,      \* the bits set in ping_cktab
  num_xmit,
  num_recv,
  num_rept,
  expired,     \* ping_timeout_p: -w seconds have passed since ping_init
  past,        \* history: requests sent to each earlier host
  answered,    \* history: requests of this run that had a reply
  stray,       \* history: packets received in this run that answer none of its requests
  caught,      \* history: the handler ran during this run
  extra        \* history: requests loop_event sent although the run was to stop

procVars == <<host, status>>
sigVars  == <<disp, old_action, stop>>
loopVars == <<finishing, nresp, todo>>
memVars  == <<buffer, table, marked>>
cntVars  == <<num_xmit, num_recv, num_rept>>
netVars  == <<expired, past>>
histVars == <<answered, stray, caught, extra>>
vars == <<pc, ret_val, procVars, sigVars, loopVars, memVars, cntVars, netVars, histVars>>

HostIds == 1 .. Hosts
Slots   == 0 .. NBits - 1
Loop    == {"while", "arm", "pselect", "recv", "send", "restore"}
Final   == {"done", "killed", "crashed"}

Init ==
  /\ pc = "process"
  /\ host = 1
  /\ status = {}
  /\ disp \in {"default", "ignore"}
  /\ old_action = disp
  /\ stop = FALSE
  /\ ret_val = 0
  /\ finishing = FALSE
  /\ nresp = 0
  /\ todo = 0
  /\ buffer = FALSE
  /\ table = FALSE
  /\ marked = {}
  /\ num_xmit = 0
  /\ num_recv = 0
  /\ num_rept = 0
  /\ expired = FALSE
  /\ past = [h \in HostIds |-> 0]
  /\ answered = {}
  /\ stray = 0
  /\ caught = FALSE
  /\ extra = 0

-----------------------------------------------------------------------------
(* ping_process and ping_echo, up to the run.                              *)

\* ping_echo resolves the host and enters ping_run.
EchoStart ==
  /\ pc = "process"
  /\ host <= Hosts
  /\ pc' = "pre"
  /\ todo' = Preload + 1
  /\ ret_val' = 0
  /\ finishing' = FALSE
  /\ nresp' = 0
  /\ UNCHANGED <<procVars, sigVars, memVars, cntVars, netVars, histVars>>

\* The host is unknown (or its IP options are refused): ping_echo returns 2
\* and ping_process takes no further operand.
EchoFails ==
  /\ pc = "process"
  /\ host <= Hosts
  /\ "resolve" \in Faults
  /\ status' = status \cup {2}
  /\ pc' = "done"
  /\ UNCHANGED <<host, ret_val, sigVars, loopVars, memVars, cntVars, netVars, histVars>>

\* No operand is left.
ProcessEnd ==
  /\ pc = "process"
  /\ host > Hosts
  /\ pc' = "done"
  /\ UNCHANGED <<procVars, ret_val, sigVars, loopVars, memVars, cntVars, netVars, histVars>>

-----------------------------------------------------------------------------
(* send_echo.                                                              *)

\* _C_IND: the bit of the duplicate table that stands for a sequence number.
Slot(seq) == seq % NBits

\* htons (seqno): request q carries the low bits of its number.
Wire(q) == q % SeqMod

\* ping_setbuf: both pointers are non-NULL afterwards ...
SetbufOK ==
  /\ buffer' = TRUE
  /\ table' = TRUE

\* ... or the buffer, or after it the table, could not be allocated.
SetbufFails ==
  /\ "alloc" \in Faults
  /\ ~table
  /\ buffer' \in {buffer, TRUE}
  /\ UNCHANGED table

\* The table as ping_setbuf leaves it: a new one is zeroed.
TableContent == IF table THEN marked ELSE {}

\* _PING_CLR.
ClearBitMutant(bits, seq) == bits
ClearBit(bits, seq) == bits \ {Slot(seq)}

\* ping_xmit: the request's bit is cleared before sendto, the request is
\* numbered only if sendto succeeds.
PingXmit(sent) ==
  /\ SetbufOK
  /\ marked' = ClearBit(TableContent, num_xmit)
  /\ num_xmit' = IF sent THEN num_xmit + 1 ELSE num_xmit

\* send_echo, with its result: whether a request went out.
SendEcho(ok) ==
  \/ ok /\ PingXmit(TRUE)
  \/ ~ok /\ "sendto" \in Faults /\ PingXmit(FALSE)
  \/ ~ok /\ SetbufFails /\ UNCHANGED <<marked, num_xmit>>

\* The last of the preload + 1 requests is the next one.
PreloadEndsMutant == todo = 0
PreloadEnds == todo = 1

\* loop_event_pre: preload + 1 requests, whatever becomes of each.
PreSend ==
  /\ pc = "pre"
  /\ \E ok \in BOOLEAN : SendEcho(ok)
  /\ todo' = todo - 1
  /\ pc' = IF PreloadEnds THEN "sigreset" ELSE "pre"
  /\ UNCHANGED <<ret_val, procVars, sigVars, finishing, nresp, num_recv, num_rept,
                 netVars, histVars>>

-----------------------------------------------------------------------------
(* ping_run.                                                               *)

\* Mutant: a flag left by an earlier host is not reset.
SigResetMutant ==
  /\ pc = "sigreset"
  /\ old_action' = disp
  /\ pc' = IF disp = "ignore" THEN "while" ELSE "siginstall"
  /\ UNCHANGED <<stop, disp, ret_val, procVars, loopVars, memVars, cntVars, netVars, histVars>>

\* interruption_signal_handler_setup: unless SIGINT is ignored, forget an
\* earlier interruption, ...
SigReset ==
  /\ pc = "sigreset"
  /\ old_action' = disp
  /\ IF disp = "ignore"
     THEN pc' = "while" /\ UNCHANGED stop
     ELSE pc' = "siginstall" /\ stop' = FALSE
  /\ UNCHANGED <<disp, ret_val, procVars, loopVars, memVars, cntVars, netVars, histVars>>

\* ... then install the handler.
SigInstall ==
  /\ pc = "siginstall"
  /\ disp' = "handler"
  /\ pc' = "while"
  /\ UNCHANGED <<old_action, stop, ret_val, procVars, loopVars, memVars, cntVars, netVars,
                 histVars>>

\* The loop condition of ping_run.
LoopGoesOnMutant == ret_val = 0
LoopGoesOn == ~stop /\ ret_val = 0

\* while (!(stop || ret_val)): enter loop_event, which computes its wait, or
\* leave the loop.
WhileTest ==
  /\ pc = "while"
  /\ pc' = IF LoopGoesOn THEN "arm" ELSE "restore"
  /\ UNCHANGED <<ret_val, procVars, sigVars, loopVars, memVars, cntVars, netVars, histVars>>

\* pselect is entered; it does not look at the flag.
Block ==
  /\ pc = "arm"
  /\ pc' = "pselect"
  /\ UNCHANGED <<ret_val, procVars, sigVars, loopVars, memVars, cntVars, netVars, histVars>>

\* Every counted packet has been sent.
CountReached == Count # 0 /\ num_xmit >= Count

\* pselect returns 0.  Bound: a run nothing stops sends MaxXmit requests.
TimerExpires ==
  /\ pc = "pselect"
  /\ stop \/ expired \/ CountReached \/ num_xmit < MaxXmit
  /\ pc' = "send"
  /\ UNCHANGED <<ret_val, procVars, sigVars, loopVars, memVars, cntVars, netVars, histVars>>

\* pselect returns 1.
Readable ==
  /\ pc = "pselect"
  /\ pc' = "recv"
  /\ UNCHANGED <<ret_val, procVars, sigVars, loopVars, memVars, cntVars, netVars, histVars>>

\* pselect fails for another reason than EINTR.
SelectFails ==
  /\ pc = "pselect"
  /\ "pselect" \in Faults
  /\ ret_val' = 4
  /\ pc' = "while"
  /\ UNCHANGED <<procVars, sigVars, loopVars, memVars, cntVars, netVars, histVars>>

\* loop_event's timer branch while requests remain: one more request.
SendRequest ==
  /\ pc = "send"
  /\ ~CountReached
  /\ \E ok \in BOOLEAN :
       /\ SendEcho(ok)
       /\ ret_val' = IF ~ok THEN 4 ELSE IF expired THEN 1 ELSE 0
  /\ pc' = "while"
  /\ extra' = IF caught \/ expired THEN extra + 1 ELSE extra
  /\ UNCHANGED <<procVars, sigVars, loopVars, num_recv, num_rept, netVars, answered, stray,
                 caught>>

\* Mutant: the lingering is not remembered.
LingerMutant ==
  /\ pc = "send"
  /\ CountReached
  /\ ret_val' = IF finishing THEN 1 ELSE 0
  /\ pc' = "while"
  /\ UNCHANGED <<procVars, sigVars, loopVars, memVars, cntVars, netVars, histVars>>

\* ... and when they are all sent: linger once, then stop.
Linger ==
  /\ pc = "send"
  /\ CountReached
  /\ ret_val' = IF finishing THEN 1 ELSE 0
  /\ finishing' = TRUE
  /\ pc' = "while"
  /\ UNCHANGED <<procVars, sigVars, nresp, todo, memVars, cntVars, netVars, histVars>>

-----------------------------------------------------------------------------
(* ping_recv and the rest of loop_event's receive branch.                  *)

\* Mutant: only the send branch looks at the timeout.
AfterRecvMutant(n) ==
  /\ nresp' = n
  /\ ret_val' = IF Count # 0 /\ n >= Count THEN 1 ELSE 0

\* loop_event after ping_recv: n responses so far.
AfterRecv(n) ==
  /\ nresp' = n
  /\ ret_val' = IF expired \/ (Count # 0 /\ n >= Count) THEN 1 ELSE 0

\* The callback of ping_recv: the response is displayed and counted, or
\* memory is exhausted and ping_recv returns 4.
Displayed ==
  \/ AfterRecv(nresp + 1)
  \/ "handler" \in Faults /\ ret_val' = 4 /\ UNCHANGED nresp

\* Mutants: a duplicate stays counted as received; a duplicate is taken off
\* the received packets without having been added to them.
CountReplyMutantKeep(seq) ==
  /\ marked' = marked \cup {Slot(seq)}
  /\ num_recv' = num_recv + 1
  /\ num_rept' = IF Slot(seq) \in marked THEN num_rept + 1 ELSE num_rept
  /\ UNCHANGED num_xmit

CountReplyMutantTake(seq) ==
  /\ marked' = marked \cup {Slot(seq)}
  /\ IF Slot(seq) \in marked
     THEN num_rept' = num_rept + 1 /\ num_recv' = num_recv - 1
     ELSE num_recv' = num_recv + 1 /\ UNCHANGED num_rept
  /\ UNCHANGED num_xmit

\* ICMP_ECHOREPLY with our identifier: received, or a duplicate if the bit of
\* its sequence number is set (_PING_TST, _PING_SET).
CountReply(seq) ==
  /\ marked' = marked \cup {Slot(seq)}
  /\ IF Slot(seq) \in marked
     THEN num_rept' = num_rept + 1 /\ UNCHANGED num_recv
     ELSE num_recv' = num_recv + 1 /\ UNCHANGED num_rept
  /\ UNCHANGED num_xmit

\* Bound: a run counts at most MaxResp responses.
Receiving == pc = "recv" /\ buffer /\ nresp < MaxResp

\* The reply to request q of this run.
OwnReply(q) ==
  /\ Receiving
  /\ table
  /\ num_xmit - q <= Lifetime
  /\ CountReply(Wire(q))
  /\ Displayed
  /\ answered' = answered \cup {q}
  /\ pc' = "while"
  /\ UNCHANGED <<procVars, sigVars, finishing, todo, buffer, table, netVars, stray, caught,
                 extra>>

\* The sequence numbers of the echo replies with our identifier that may
\* arrive although this run did not ask for them: replies to an earlier
\* host, forgeries.
StraySeqs ==
  Forged \cup (IF CrossTalk
               THEN UNION {{Wire(q) : q \in 0 .. past[h] - 1} : h \in 1 .. host - 1}
               ELSE {})

\* Such a reply: ping_recv does not look at the sender's address.
StrayReply(seq) ==
  /\ Receiving
  /\ table
  /\ CountReply(seq)
  /\ Displayed
  /\ stray' = IF Slot(seq) \in marked THEN stray ELSE stray + 1
  /\ pc' = "while"
  /\ UNCHANGED <<procVars, sigVars, finishing, todo, buffer, table, netVars, answered, caught,
                 extra>>

\* The bit is tested in a table that was never allocated.
NullTable(seq) ==
  /\ Receiving
  /\ ~table
  /\ pc' = "crashed"
  /\ UNCHANGED <<ret_val, procVars, sigVars, loopVars, memVars, cntVars, netVars, histVars>>

\* An ICMP error about a request of this run (my_echo_reply compares the
\* destination, so errors about an earlier host are not counted).
NoEcho ==
  /\ Receiving
  /\ num_xmit > 0
  /\ Displayed
  /\ pc' = "while"
  /\ UNCHANGED <<procVars, sigVars, finishing, todo, memVars, cntVars, netVars, histVars>>

\* Out of memory, an address is not refused but copied to NULL: xstrdup does not
\* look at what xmalloc returns.  The reply may be counted by then.
DisplayCrashes ==
  /\ Receiving
  /\ num_xmit > 0
  /\ "handler" \in Faults
  /\ pc' = "killed"
  /\ UNCHANGED <<ret_val, procVars, sigVars, loopVars, memVars, cntVars, netVars, histVars>>

\* Anything else makes ping_recv return -1: recvfrom failed, a packet that is
\* too short, an echo request, another identifier, an error about another
\* packet.
NotOurs ==
  /\ pc = "recv"
  /\ AfterRecv(nresp)
  /\ pc' = "while"
  /\ UNCHANGED <<procVars, sigVars, finishing, todo, memVars, cntVars, netVars, histVars>>

-----------------------------------------------------------------------------
(* The end of a run.                                                       *)

\* ping_unset_data.
UnsetDataMutant ==
  /\ buffer' = FALSE
  /\ UNCHANGED <<table, marked>>

UnsetData ==
  /\ buffer' = FALSE
  /\ table' = FALSE
  /\ marked' = {}

\* interruption_signal_handler_teardown and loop_event_post.
Restore ==
  /\ pc = "restore"
  /\ disp' = old_action
  /\ UnsetData
  /\ pc' = "finish"
  /\ UNCHANGED <<old_action, stop, ret_val, procVars, loopVars, cntVars, netVars, histVars>>

\* ping_run returns what echo_finish returns; ping_echo passes it on.
EchoResult == IF num_recv = 0 THEN {1} ELSE {}

\* ping_reset.
ResetCountersMutant ==
  /\ num_recv' = 0
  /\ num_rept' = 0
  /\ UNCHANGED num_xmit

ResetCounters ==
  /\ num_xmit' = 0
  /\ num_recv' = 0
  /\ num_rept' = 0

\* echo_finish, the return to ping_process and its loop body (*status stays
\* below 2, whatever ret_val says).  past is what the network remembers; the
\* history variables start afresh.
Finish ==
  /\ pc = "finish"
  /\ status' = status \cup EchoResult
  /\ ResetCounters
  /\ host' = host + 1
  /\ pc' = "process"
  /\ past' = [past EXCEPT ![host] = num_xmit]
  /\ answered' = {}
  /\ stray' = 0
  /\ caught' = FALSE
  /\ extra' = 0
  /\ UNCHANGED <<ret_val, sigVars, loopVars, memVars, expired>>

-----------------------------------------------------------------------------
(* The environment.                                                        *)

\* SIGINT while the handler is installed: the flag is set, and pselect, if it
\* is being waited in, returns EINTR and loop_event 0.
Interrupt ==
  /\ disp = "handler"
  /\ pc \notin Final
  /\ ~stop \/ pc = "pselect"
  /\ stop' = TRUE
  /\ caught' = TRUE
  /\ IF pc = "pselect"
     THEN pc' = "while" /\ ret_val' = 0
     ELSE UNCHANGED <<pc, ret_val>>
  /\ UNCHANGED <<disp, old_action, procVars, loopVars, memVars, cntVars, netVars, answered,
                 stray, extra>>

\* SIGINT outside ping_run's loop.
Kill ==
  /\ disp = "default"
  /\ pc \notin Final
  /\ pc' = "killed"
  /\ UNCHANGED <<ret_val, procVars, sigVars, loopVars, memVars, cntVars, netVars, histVars>>

\* The -w seconds since ping_init are over; they stay over for every later host.
TimeoutPasses ==
  /\ TimeoutSet
  /\ ~expired
  /\ expired' = TRUE
  /\ UNCHANGED <<pc, ret_val, procVars, sigVars, loopVars, memVars, cntVars, past, histVars>>

-----------------------------------------------------------------------------
Receive ==
  \/ \E q \in 0 .. num_xmit - 1 : OwnReply(q)
  \/ \E seq \in StraySeqs : StrayReply(seq) \/ NullTable(seq)
  \/ NoEcho
  \/ DisplayCrashes
  \/ NotOurs

Process ==
  \/ EchoStart \/ EchoFails \/ ProcessEnd
  \/ PreSend \/ SigReset \/ SigInstall
  \/ WhileTest \/ Block \/ TimerExpires \/ Readable \/ SelectFails
  \/ SendRequest \/ Linger
  \/ Receive
  \/ Restore \/ Finish

Environment == Interrupt \/ Kill \/ TimeoutPasses

\* The process has ended.
Ended == pc \in Final /\ UNCHANGED vars

Next == Process \/ Environment \/ Ended

Spec == Init /\ [][Next]_vars

\* The process is never suspended for ever.  pselect always has a finite wait,
\* so this makes it return.
Fairness == WF_vars(Process)

\* loop_event prefers a readable socket to an expired wait; that the wait is
\* ever noticed supposes a network that falls silent again and again.
QuietNetwork == SF_vars(TimerExpires)

FairSpec == Spec /\ Fairness
QuietSpec == FairSpec /\ QuietNetwork

-----------------------------------------------------------------------------
(* Properties.                                                             *)

\* Every variable has its type.
TypeOK ==
  /\ pc \in {"process", "pre", "sigreset", "siginstall", "finish"} \cup Loop \cup Final
  /\ host \in 1 .. Hosts + 1
  /\ status \subseteq {1, 2}
  /\ disp \in {"default", "ignore", "handler"}
  /\ old_action \in {"default", "ignore"}
  /\ stop \in BOOLEAN
  /\ ret_val \in {0, 1, 4}
  /\ finishing \in BOOLEAN
  /\ nresp \in Nat
  /\ todo \in Nat
  /\ buffer \in BOOLEAN
  /\ table \in BOOLEAN
  /\ marked \in SUBSET Slots
  /\ num_xmit \in Nat
  /\ num_recv \in Nat
  /\ num_rept \in Nat
  /\ expired \in BOOLEAN
  /\ past \in [HostIds -> Nat]
  /\ answered \in SUBSET Nat
  /\ stray \in Nat
  /\ caught \in BOOLEAN
  /\ extra \in Nat

\* A run never counts more packets received than it transmitted, except for
\* the packets that answer none of its requests: however the table of 1024
\* bits wraps, whatever is duplicated, late or refused by sendto, the line
\* "-- somebody is printing forged packets!" needs a stray packet.
RecvBounded == num_recv <= num_xmit + stray

\* A host that answered a request is never reported as unreachable: the first
\* answer of a run is counted as received, not as a duplicate, whatever the
\* run of the host before left behind.
AnswerCounts == answered # {} => num_recv > 0

\* Once SIGINT has been caught or the -w seconds are over, loop_event sends at
\* most one more request: the flag may be set between its test and pselect,
\* and pselect does not look at it.
OneAfterStop == extra <= 1

\* The loop of a run obeys an interruption exactly if it came during that run:
\* an earlier host's does not end it, and none is lost between the reset of
\* the flag and the installation of the handler.
StopIsThisRuns == pc \in Loop => (stop <=> caught)

\* The duplicate table is used before it is allocated only by a run that could
\* send nothing at all, although loop_event_pre ignores what send_echo returns.
TableWhenSending == (pc = "crashed" => num_xmit = 0) /\ (pc \in Loop /\ num_xmit > 0 => table)

\* Every host's run starts from nothing: no counter, bit, buffer or handler of
\* the previous run is left.
FreshRun ==
  (pc = "pre" /\ todo = Preload + 1) =>
    /\ num_xmit = 0 /\ num_recv = 0 /\ num_rept = 0
    /\ ~buffer /\ ~table /\ marked = {}
    /\ disp # "handler"

\* If no reply is more than NBits requests late, every packet received or
\* duplicate is what it should be: the 1024 bits count as if all requests were
\* remembered for ever.
Requests == INSTANCE EchoCount WITH xmit <- num_xmit, recv <- num_recv, rept <- num_rept
CountsRequests == Requests!Spec

\* A caught SIGINT ends the run of its host.
CaughtEndsRun == caught ~> pc \in {"finish"} \cup Final

\* Once the -w seconds are over, ft_ping ends, however many hosts remain and
\* however busy the socket is.
TimeoutEndsAll == expired ~> pc \in Final

\* The steps that are at most left until the host of a run that is to stop is
\* done with: a run that has sent all its packets lingers once before it looks.
Grace == IF Count # 0 /\ ~finishing THEN 4 ELSE 0
Left ==
  CASE pc \in Final            -> 0
    [] pc = "finish"           -> 1
    [] pc = "restore"          -> 2
    [] pc = "while"            -> IF LoopGoesOn THEN 7 + Grace ELSE 3
    [] pc \in {"recv", "send"} -> 4 + Grace
    [] pc = "pselect"          -> 5 + Grace
    [] pc = "arm"              -> 6 + Grace
    [] pc = "siginstall"       -> 8 + Grace
    [] pc = "sigreset"         -> 9 + Grace
    [] pc = "pre"              -> 9 + Grace + todo
    [] pc = "process"          -> IF host > Hosts THEN 1 ELSE Preload + 15

\* Once SIGINT was caught or the -w seconds are over, every step of the process
\* brings it nearer to its end, host by host, and nothing the environment does
\* takes it back: why the two properties above hold, and how soon.
NearsEnd ==
  [][expired \/ caught =>
       \/ host' > host
       \/ host' = host /\ Left' < Left
       \/ host' = host /\ Left' <= Left /\ Environment]_vars

\* What a counted run has still to send, and to linger.
Unsent == IF num_xmit < Count THEN Count - num_xmit + 1 ELSE IF finishing THEN 0 ELSE 1

\* Every wait that expires brings a counted run nearer to its end, whatever it
\* receives: it lingers once and no more.
CountsDown ==
  [][Count # 0 /\ host' = host =>
       /\ Unsent' <= Unsent
       /\ pc = "send" /\ pc' = "while" /\ ret_val' = 0 => Unsent' < Unsent]_vars

\* A counted run ends even if no reply comes.
CountedRunEnds == Count # 0 => <>(pc \in Final)

-----------------------------------------------------------------------------
(* What the messages and comments of the program say, and is not so.       *)

\* Exit status 1: "at least one of target hosts was unreachable".
UnreachableReported ==
  [][(pc = "finish" /\ pc' = "process" /\ answered = {}) => 1 \in status']_vars

\* Exit status 2 or 4: "error", "memory exhausted".
ErrorReported ==
  [][(pc = "finish" /\ pc' = "process" /\ ret_val = 4) => status' \cap {2, 4} # {}]_vars
=============================================================================
