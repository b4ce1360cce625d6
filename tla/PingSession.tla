----------------------------- MODULE PingSession -----------------------------
(***************************************************************************)
(* What ft_ping acquires and releases between the end of option parsing    *)
(* and the return of main: the payload, the socket, and for each host its  *)
(* printable name, the packet buffer and the duplicate table.  Every       *)
(* acquisition may fail, and every failure has its own way out.            *)
(*                                                                         *)
(* ptr[r] is what the program's pointer (or descriptor) to r holds, live[r]*)
(* how many blocks (or descriptors) acquired for r are not yet released.   *)
(* The two differ when something is lost, released twice, or released      *)
(* without having been acquired; nothing below forbids that.               *)
(*                                                                         *)
(* A run is here only a sequence of ping_setbuf calls; PingRun says what   *)
(* it does.                                                                *)
(*                                                                         *)
(* pc: "setup" ping_args_setup, "init" ping_init, "options" the socket     *)
(* options, "hosts" the loop of ping_process, "named" ping_echo after      *)
(* ping_set_dest, "run" ping_run, "finish" echo_finish and the rest of     *)
(* ping_echo, "close" ping_data_teardown, "free" ping_args_teardown,       *)
(* "exit" main has returned.                                               *)
(***************************************************************************)
EXTENDS Integers

CONSTANT Hosts  \* number of host operands

ASSUME SessionAssumption == Hosts \in Nat \ {0}

VARIABLES
  pc,
  args,     \* data: 0 < data_length; stamp: OPT_IPTIMESTAMP
  ptr,
  live,
  host,     \* ping_process's i, from 1
  status,   \* *status and main's has_error, as the set of its bits
  outcome   \* history: what became of each operand

vars == <<pc, args, ptr, live, host, status, outcome>>

HostIds   == 1 .. Hosts
RunData   == {"ping_buffer", "ping_cktab"}
Session   == RunData \cup {"ping_fd", "ping_hostname"}
Resources == Session \cup {"data_buffer"}

\* "junk" is a value the program did not acquire: an uninitialised field, or
\* the descriptor 0 that memset leaves.
Pointers == {"null", "junk", "block"}

Init ==
  /\ pc = "setup"
  /\ args \in [data : BOOLEAN, stamp : BOOLEAN]
  /\ ptr = [r \in Resources |-> IF r = "data_buffer" THEN "null" ELSE "junk"]
  /\ live = [r \in Resources |-> 0]
  /\ host = 1
  /\ status = {}
  /\ outcome = [h \in HostIds |-> "none"]

-----------------------------------------------------------------------------
(* What happens to pointers and blocks.                                    *)

Point(R, v)  == [r \in Resources |-> IF r \in R THEN v ELSE ptr[r]]
Acquired(R)  == [r \in Resources |-> live[r] + (IF r \in R THEN 1 ELSE 0)]

\* free, or close: whatever a non-null pointer holds is released.
Released(R) ==
  [r \in Resources |-> live[r] - (IF r \in R /\ ptr[r] # "null" THEN 1 ELSE 0)]

Acquire(R) ==
  /\ ptr' = Point(R, "block")
  /\ live' = Acquired(R)

\* The idiom of the program: test, release, set to NULL (-1).
Clear(R) ==
  /\ live' = Released(R)
  /\ ptr' = Point(R, "null")

-----------------------------------------------------------------------------
(* main, ping_process: setup.                                              *)

\* ping_args_setup: no payload to build, or a payload, or no memory for it.
ArgsSetup ==
  /\ pc = "setup"
  /\ \/ /\ ~args.data
        /\ pc' = "init"
        /\ UNCHANGED <<ptr, live, status>>
     \/ /\ args.data
        /\ pc' = "init"
        /\ Acquire({"data_buffer"})
        /\ UNCHANGED status
     \/ /\ args.data
        /\ pc' = "free"
        /\ status' = {4}
        /\ UNCHANGED <<ptr, live>>
  /\ UNCHANGED <<args, host, outcome>>

\* memset, then whatever ping_set_socket_fd leaves in ping_fd.
SessionCleared(fd) ==
  [Point(Session, "null") EXCEPT !["ping_fd"] = fd]

\* A raw socket, or without the privilege a datagram socket, was opened; or
\* the protocol is unknown or no socket was to be had.
PingInitMutant(opened) ==
  /\ ptr' = SessionCleared(IF opened THEN "block" ELSE "junk")
  /\ live' = Acquired(IF opened THEN {"ping_fd"} ELSE {})
PingInit(opened) ==
  /\ ptr' = SessionCleared(IF opened THEN "block" ELSE "null")
  /\ live' = Acquired(IF opened THEN {"ping_fd"} ELSE {})

\* ping_init in ping_data_setup.
OpenSession ==
  /\ pc = "init"
  /\ \/ /\ PingInit(TRUE)
        /\ pc' = "options"
        /\ UNCHANGED status
     \/ /\ PingInit(FALSE)
        /\ pc' = "close"
        /\ status' = {4}
  /\ UNCHANGED <<args, host, outcome>>

\* SO_BROADCAST, and the socket options the arguments ask for: the first one
\* refused ends the setup.
SetOptions ==
  /\ pc = "options"
  /\ \/ pc' = "hosts" /\ UNCHANGED status
     \/ pc' = "close" /\ status' = {4}
  /\ UNCHANGED <<args, ptr, live, host, outcome>>

-----------------------------------------------------------------------------
(* ping_process's loop and ping_echo.                                      *)

\* *status |= ping_echo (...): what ping_echo returned joins the status.
JoinMutant(result) == result
Join(result) == status \cup result

\* ping_echo returns 2: ping_process takes no further operand.
EchoFailed ==
  /\ status' = Join({2})
  /\ outcome' = [outcome EXCEPT ![host] = "failed"]
  /\ pc' = "close"
  /\ UNCHANGED host

\* The loop condition's i < argc.
OperandLeftMutant == host <= Hosts + 1
OperandLeft == host <= Hosts

\* ping_set_dest: the name is known and copied to ping_hostname ...
Resolve ==
  /\ pc = "hosts"
  /\ OperandLeft
  /\ Acquire({"ping_hostname"})
  /\ pc' = "named"
  /\ UNCHANGED <<args, host, status, outcome>>

\* ... or unknown, and ping_hostname is what it was; ping_echo clears it ...
UnknownHost ==
  /\ pc = "hosts"
  /\ OperandLeft
  /\ Clear({"ping_hostname"})
  /\ EchoFailed
  /\ UNCHANGED args

\* ... or known, but strdup returned NULL.
NoName ==
  /\ pc = "hosts"
  /\ OperandLeft
  /\ ptr' = Point({"ping_hostname"}, "null")
  /\ EchoFailed
  /\ UNCHANGED <<args, live>>

\* The IP options are refused.
OptionsRefused ==
  /\ pc = "named"
  /\ args.stamp
  /\ Clear({"ping_hostname"})
  /\ EchoFailed
  /\ UNCHANGED args

\* The header is printed and ping_run called.
EnterRun ==
  /\ pc = "named"
  /\ pc' = "run"
  /\ UNCHANGED <<args, ptr, live, host, status, outcome>>

\* What ping_setbuf still has to allocate.
MissingMutant == RunData
Missing == {r \in RunData : ptr[r] = "null"}

\* ping_setbuf, by any send_echo of the run: it allocates what is missing,
\* the buffer first, until an allocation fails.
Setbuf ==
  /\ pc = "run"
  /\ \E got \in (SUBSET Missing) \ {{}} :
       /\ "ping_cktab" \in got => "ping_buffer" \notin Missing \ got
       /\ Acquire(got)
  /\ UNCHANGED <<pc, args, host, status, outcome>>

\* What ping_unset_data clears.
UnsetMutant == {"ping_buffer"}
Unset == RunData

\* The run ends, for whatever reason: loop_event_post.
RunEnds ==
  /\ pc = "run"
  /\ Clear(Unset)
  /\ pc' = "finish"
  /\ UNCHANGED <<args, host, status, outcome>>

\* echo_finish, whose result is 0 or 1; the name is released; the next
\* operand's turn.
Finish ==
  /\ pc = "finish"
  /\ \E answered \in BOOLEAN :
       /\ status' = Join(IF answered THEN {} ELSE {1})
       /\ outcome' = [outcome EXCEPT ![host] = IF answered THEN "answered" ELSE "silent"]
  /\ Clear({"ping_hostname"})
  /\ host' = host + 1
  /\ pc' = "hosts"
  /\ UNCHANGED args

NoOperandLeft ==
  /\ pc = "hosts"
  /\ ~OperandLeft
  /\ pc' = "close"
  /\ UNCHANGED <<args, ptr, live, host, status, outcome>>

-----------------------------------------------------------------------------
(* Teardown.                                                               *)

\* ping_data_teardown.
DataTeardown ==
  /\ pc = "close"
  /\ Clear(Unset \cup {"ping_fd", "ping_hostname"})
  /\ pc' = "free"
  /\ UNCHANGED <<args, host, status, outcome>>

\* ping_args_teardown does not reset its pointer.
ArgsTeardown ==
  /\ pc = "free"
  /\ live' = Released({"data_buffer"})
  /\ pc' = "exit"
  /\ UNCHANGED <<args, ptr, host, status, outcome>>

Exited == pc = "exit" /\ UNCHANGED vars

Echo ==
  Resolve \/ UnknownHost \/ NoName \/ OptionsRefused \/ EnterRun \/ Setbuf
    \/ RunEnds \/ Finish \/ NoOperandLeft

Next ==
  ArgsSetup \/ OpenSession \/ SetOptions \/ Echo \/ DataTeardown \/ ArgsTeardown
    \/ Exited

Spec == Init /\ [][Next]_vars

-----------------------------------------------------------------------------
(* Properties.                                                             *)

\* Types, and where the loop over the operands stands.
TypeOK ==
  /\ pc \in {"setup", "init", "options", "hosts", "named", "run", "finish",
             "close", "free", "exit"}
  /\ args \in [data : BOOLEAN, stamp : BOOLEAN]
  /\ ptr \in [Resources -> Pointers]
  /\ live \in [Resources -> Int]
  /\ host \in 1 .. Hosts + 1
  /\ pc \in {"named", "run", "finish"} => host <= Hosts
  /\ status \subseteq {1, 2, 4}
  /\ outcome \in [HostIds -> {"none", "answered", "silent", "failed"}]

\* Until main returns, a pointer the program would release owns exactly one
\* block, and no block is without its pointer: nothing is released twice,
\* nothing is lost when the next host's name or buffer is allocated, and the
\* teardown after a failed ping_init closes no descriptor it did not open.
OwnedOnce ==
  pc # "exit" =>
    \A r \in Resources : live[r] = IF ptr[r] = "block" THEN 1 ELSE 0

\* On every way out, whichever step failed, everything acquired was released
\* exactly once when main returns.
AllReleased ==
  pc = "exit" => \A r \in Resources : live[r] = 0

\* While a host is pinged and its statistics are printed, its name and the
\* socket are there; when the next host's turn comes nothing of the previous
\* one is left (its duplicate table would mark replies as duplicates).
HeldByHost ==
  /\ pc \in {"hosts", "named", "run", "finish"} => ptr["ping_fd"] = "block"
  /\ pc \in {"named", "run", "finish"} => ptr["ping_hostname"] = "block"
  /\ pc = "hosts" => \A r \in Session \ {"ping_fd"} : ptr[r] = "null"

\* The exit status is 0 exactly if every operand was pinged and answered, a
\* later host's success does not hide an earlier host's failure, and only the
\* last operand tried can have failed.
ExitTells ==
  pc = "exit" =>
    /\ status = {} <=> \A h \in HostIds : outcome[h] = "answered"
    /\ \A h \in HostIds :
         outcome[h] \in {"failed", "none"} =>
           \A k \in h + 1 .. Hosts : outcome[k] = "none"

=============================================================================
