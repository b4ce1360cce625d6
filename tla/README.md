# A TLA+ verification project for ft_ping

`ft_ping` (directory `src/ft_ping`) is a small reimplementation of inetutils'
`ping`: it sends ICMP echo requests to one host after the other and counts the
replies. The rest of the repository (`snow-crash`, the READMEs) is notes. This
directory holds TLA+ models of the program, the TLC configurations that check
them, and TLAPS proofs about them.

## 1. Inventory

| component | code | state | operations |
|---|---|---|---|
| main, options | `ft_ping.c`, `ft_ping_args.c`, `ft_ping_options.c` | `t_args`, `has_error` | one `case` per option, then setup, process, teardown |
| arguments and session, setup and teardown | `ft_ping_args_setup_teardown.c`, `ft_ping_data_setup_teardown.c` | payload buffer, socket, host name, packet buffer, duplicate table | acquire, release |
| session data | `ft_ping_data.c` | `struct ping_data`: counters, `ping_buffer`, `ping_cktab`, socket, destination, start time | `ping_init`, `ping_setbuf`, `ping_unset_data`, `ping_set_data`, `ping_reset`, setters |
| sequence of hosts | `ft_ping_process.c`, `ft_ping_echo.c` | operand index, `*status` | `ping_process`, `ping_echo`, `echo_finish`, callback `handler` |
| run of a host | `ft_ping_run.c`, `ft_ping_run_loop.c` | the flag `stop`, SIGINT's disposition, `ret_val`, `finishing`, `nresp`, `last`, `intvl` | signal handler setup and teardown, `loop_event_pre`, `loop_event`, `loop_event_post`, `send_echo`, `ping_xmit`, `ping_recv` |
| time arithmetic | `ft_timespec.c`, `ckd_*` in `ft_misc.h` | none | `timespec_add`, `timespec_sub`, `timespec_sign` |
| checksum and codec | `ft_ping_run_loop.c:48-117`, `255-280` | the bytes of a packet | `icmp_cksum`, `icmp_generic_encode`, `icmp_generic_decode` |
| display | `ft_ping_echo_display.c`, `ft_ping_address.c` | round-trip statistics | `print_echo`, `print_icmp_header` |
| helpers | `ft_log.c`, `ft_memory.c`, `ft_misc.c` | none | logging, checked malloc, square root |

How they interact: `main` fills `t_args` and calls `ping_process`, which opens
one socket for all operands and calls `ping_echo` for each. `ping_echo`
resolves the name, installs the callback `handler` and calls `ping_run`, which
sends the preloaded requests, installs the SIGINT handler and calls
`loop_event` until it is interrupted or told to stop. Every `loop_event` is one
`pselect`: on input it calls `ping_recv` (which calls `handler`), on expiry it
calls `send_echo`. At the end `ping_run` frees buffer and table and calls back
`echo_finish`, whose result becomes part of the exit status; `ping_process`
then resets the counters.

The program is sequential. What is hard about it comes from outside:

- SIGINT may come between any two steps: before the handler is there, between
  the test of the flag and `pselect`, in `pselect`, after the loop.
- All hosts share the socket and the identifier (the pid), so a reply to the
  first host's requests can arrive in the second host's run.
- The duplicate table has 1024 bits, the wire 65536 sequence numbers, and a run
  any number of requests.
- `sendto`, `malloc`, `pselect`, the display and the name lookup fail half-way.
- `-w` is measured once for all hosts, and looked at only after a packet was
  received or sent.
- Three functions share the reset of the state between hosts.

What makes the components correct, and where it hurts, is the list `hazards` of
`PROJECT.json`, each entry at its line with the properties that watch it.

## 2. Modules

| module | what it is |
|---|---|
| `PingRun` | `ping_process` down to `loop_event`, one action per step, and its environment |
| `EchoCount` | what "packets received" and "duplicates" mean, with unlimited memory |
| `PingRunProofs`, `EchoCountProofs` | TLAPS proofs: the safety of a run; `PingRun` implements `EchoCount` |
| `Timespec` | the arithmetic of `struct timespec`, the wait of `loop_event`, the test of `-w` |
| `PingClock` | the instants of a run, with slow steps and a wall clock that may be set |
| `TimespecProofs`, `PingClockProofs` | TLAPS proofs about both |
| `PingPacket` | the packets of a run: what is built, received, concluded and shown |
| `PingPacketProofs` | TLAPS proofs about `PingPacket` |
| `Checksum`, `ChecksumProofs` | `icmp_cksum` word by word, and TLAPS proofs about it |
| `PingArgs`, `PingArgsProofs` | `main`'s loop over the options, the `parse_optarg` functions, the payload |
| `PingSession`, `PingSessionProofs` | what `main`, `ping_process` and `ping_echo` acquire and release, and the exit status |
| `MCPingRun`, `MCPingClock`, `MCPingPacket`, `MCChecksum`, `MCPingArgs` | values for the constants |

`PingArgs`, `PingSession` and `PingRun` follow one another: where `PingArgs` ends
in "ping", `PingSession` begins (its `args.data` is `data_length > 0`,
`args.stamp` the option `--ip-timestamp`), and its place "run" is what `PingRun`
details. They are checked apart: the session depends on nothing else of the
arguments, and the run on nothing of the session but that socket and name are
there, which is `HeldByHost`. `PingRun` is the control of a run; `PingClock` and
`PingPacket` are the same loop with the data that `PingRun` leaves out, instants
in the one, packets in the other. `PingRun` relies on nothing of theirs: there the
wait expires and packets of every kind arrive at any moment.

### PingRun

`pc` is the place in the code (the header of the module lists the places). One
variable stands for each variable of the program that decides anything:
`ping_num_xmit`, `ping_num_recv`, `ping_num_rept` (without the prefix),
`ping_buffer` and `ping_cktab` as "allocated or not" (`buffer`, `table`), the
bits set in the table (`marked`), `stop`, the disposition of SIGINT (`disp`)
and the one `ping_run` saves (`old_action`), `ret_val`, `finishing`, `nresp`,
the counter of `loop_event_pre` (`todo`), `*status` as the set of its bits and
the operand index (`host`). `expired` says whether the `-w` seconds are over,
`past` how many requests earlier hosts were sent, that is what late replies may
carry. `answered`, `stray`, `caught` and `extra` are history: properties read
them, no action does, except that `extra` counts requests by `caught`.

| action | code |
|---|---|
| `EchoStart`, `EchoFails`, `ProcessEnd` | the loop of `ping_process`, `ping_echo` up to `ping_run` |
| `PreSend` | one `send_echo` of `loop_event_pre`, its result ignored |
| `SigReset`, `SigInstall` | the two effects of `interruption_signal_handler_setup` |
| `WhileTest`, `Block` | the loop condition; `loop_event` up to `pselect` |
| `TimerExpires`, `Readable`, `SelectFails` | what `pselect` returns (EINTR is part of `Interrupt`) |
| `SendRequest`, `Linger` | the branch of `loop_event` that sends |
| `OwnReply`, `StrayReply`, `NullTable`, `NoEcho`, `NotOurs` | `ping_recv` by what was received, and the rest of that branch |
| `Restore`, `Finish` | teardown and `loop_event_post`; `echo_finish`, the return to `ping_process` and `ping_reset` |
| `Interrupt`, `Kill`, `TimeoutPasses` | SIGINT with and without the handler; time |

Failures are enabled by the constant `Faults`: the name lookup (or the IP
options) is refused, `ping_setbuf` runs out of memory for the buffer or for the
table after it, `sendto` or `pselect` fails, the display runs out of memory. Out
of memory an address is not refused but copied to a null pointer, because
`xstrdup` does not look at what `xmalloc` returned (`DisplayCrashes`,
`ft_memory.c:56`). A failure of `ping_setbuf` in `ping_set_data` followed by a
success in `ping_xmit` sends uninitialised payload; here it is part of the
success, `PingPacket` has it.

`Count` stands for `ping_count`. `ping_init` sets it to 0 and the program never
calls `ping_set_count`: `Count = 0` is the program, and a positive count
(run `counted`) is the interface `ft_ping_data.h` exports, with the
branch of `loop_event` that serves it.

### Timespec and PingClock

A `time_t` is a number between `-MaxTime - 1` and `MaxTime`. `Overflows` and
`Wrapped` are flag and result of `__builtin_add_overflow`; `Saturate` is what
`timespec_add` and `timespec_sub` share.

`PingClock` has two clocks: `now`, the real time, which `pselect` waits for, and
`wall`, what `current_timespec` reads. `Tick` lets a nanosecond pass, at most
`Latency` of them at each place of the code and, in `pselect`, after the wait is
over (`MayStay`); `SetClock` sets `wall` forward or back. `start`, `last`,
`intvl` and `resp_time` are the program's variables, and each reading of the
clock is an action of its own: `PreStamp` (`last`, before the last preloaded
request), `ComputeWait`, `AfterRecv` and `AfterSend` (`ping_timeout_p`), `Stamp`
(`last`, after the request). `Block` enters `pselect`, later than its wait was
computed; `TimerExpires`, `Readable` and `Stopped` are what it returns. `begun`,
`stamped`, `sent`, `lead`, `drift` and `back` are history. Instants are
whole nanoseconds, as `clock_gettime` has them. `HAVE_CLOCK_GETTIME`, which selects it
(`ft_timespec.c:120`), is not defined by the Makefile; the program as built reads
`gettimeofday`, so what `clock` says of it holds up to a microsecond.

### PingPacket and Checksum

`PingPacket` cuts buffer and packets into cells of 32 bits, each a record of its
fields; `ping_buffer` (`buffer`) is shared by sending and receiving as in the
program, so what a packet leaves there is there when the next request is built.
`SetTime`, `SetPattern` and `PingXmit` are the three writers of `send_echo`,
each of which may be the one to allocate buffer and table (`mem`), or fail to
(`SetbufFails`, `XmitFails`). `ReceiveReply`, `ReceiveDamaged`, `ReceiveForged`,
`ReceiveError` and `ReceiveForeign` differ in what arrives and share `PingRecv`: the limit of
`recvfrom`, the header length taken from the packet, the checksum recomputed
into the buffer, the dispatch on the type, `my_echo_reply`, and the parts of
`print_echo` that decide something (trip time, statistics, the walk over the
IP timestamp option). A raw socket shows the IP header and everything ICMP, a
datagram socket only replies with its own identifier, without header. What a host
answers is the message with type and checksum changed, hence of its length. A
forged reply answers no request but has the identifier, and a payload of any
length of `ForgedLens`: `ping_recv` counts it by the identifier
(`ft_ping_run_loop.c:182-188`), `print_echo` times it only if it is long enough
(`ft_ping_echo_display.c:354`), and one that is longer than the buffer is cut
off. The errors quote the header with its option and 64 bits of data. A timeval that was never written
(no memory for it) stands for any trip of `JunkTrips`, and so does what a forged
reply has in its place. `wire`, `stamp`, `spoiled`, `short` and `verdict` are
history: what was sent, how many forged replies had no room for a time, and what
the last packet was in truth and what came of it.

A checksum in `PingPacket` is the cells it was computed from, which no other
message shares; what its 16 bits are is `Checksum`, where `icmp_cksum` runs over
bytes of `Base` values in the byte order of the machine, one action per word,
and next to it, as history, the one's complement sum of RFC 1071.

### PingSession

`ptr[r]` is what the program's pointer or descriptor holds, `live[r]` how many
blocks were acquired for it and not yet released. `free` and `close` release
whatever a non-null pointer holds, an allocation overwrites the pointer; nothing
in the actions keeps the two in step, so a lost block, a second `free` or a
`close` of a foreign descriptor is a state of the model. `struct ping_data` is a
local variable of `ping_process`: its fields are "junk" until `ping_init`, and
`memset` leaves a descriptor 0 that is somebody else's. `setsockopt` changes
nothing the model has, so the up to four options are one step that succeeds or
fails. A run is any number of `ping_setbuf` calls, each getting as far as the
memory lasts. `outcome` is history.

### PingArgs

`args` has the fields of `t_args` (`dontroute` for `socket_type`, sets for the
flag words). A number is a value and whether `strtoul` left text over; a value
too large for an `int` is cut (`ToInt`). A pattern is a sequence of bytes, `Bad`
where no hexadecimal digits stand; what `parse_optarg_pattern` stores there is
indeterminate. `given` is history, `left` bounds the options. A process with an
error or `-h` ends in "usage", one without a host in "missing" (both of them
with the status `has_error`, hence 0 for a missing host).

## 3. What the runs check

| run | question | constants |
|---|---|---|
| `safety` | two hosts, every fault, a forger, late replies, SIGINT and `-w` at any moment | 2 bits in the table, 4 sequence numbers, 5 requests, 4 responses a run |
| `counted` | do the counters mean what `EchoCount` says; does a counted run end | 2 hosts, 2 bits, 4 sequence numbers, count 6, preload 1 |
| `stops` | do SIGINT and `-w` end what they should | 2 hosts, 3 requests |
| `clock` | when are requests sent, when does `-w` end a run | 4-bit seconds of 3 nanoseconds, 12 nanoseconds, a latency of 1, two settings of the clock |
| `checksum` | is the checksum what the peer computes | 3 values of a byte, up to 8 bytes |
| `packet` | what is sent, concluded and counted while everything shares a buffer | 2 requests, 2 counted replies, 7 settings of payload, socket and IP option, forged payloads of 1 and 14 cells |
| `session` | is everything released once, does the exit status tell | 3 operands |
| `options` | what may any options lead to | 4 options, 4 numbers, 6 patterns, at most 3 bytes kept |
| `silent_host`, `lost_error`, `pattern_cut`, `quoted` | what the repository says of the program (below) | small |

Invariants of `safety`: `TypeOK`; `RecvBounded` (packets received never exceed
packets transmitted but for stray packets); `AnswerCounts` (a host that answered
is not reported unreachable); `OneAfterStop` (at most one request after SIGINT
or the timeout); `StopIsThisRuns` (the flag is set in the loop exactly if SIGINT
came in this run); `TableWhenSending` (the table is dereferenced before it is
allocated only when nothing could be sent); `FreshRun` (a host starts from
nothing).

`counted`: `CountsRequests` is a refinement: `PingRun` implements `EchoCount`
with the counters as refinement mapping and the history `answered`, if a reply
is at most `NBits` requests late (`Lifetime <= NBits`) and no stray packet comes.
The program therefore counts right with 1024 bits as long as a reply is not
overtaken by more than 1024 requests; with -l or a flood it can be, and then a
duplicate is counted as received. `CountedRunEnds` is the liveness of a run with
a count, `CountsDown` the reason for it that needs no fairness: what is left to
send never grows, and every expired wait after which the run goes on makes it
smaller.

`stops`: `CaughtEndsRun` and `TimeoutEndsAll` are the liveness of a run that was
interrupted and of a process whose `-w` seconds are over; `NearsEnd` is the reason
for both: from then on every step of the process lowers the rank `Left` of its
host or takes the next host, and neither signals nor time raise it. So an
interruption is obeyed within 7 steps of the loop (11 with a count), however many
packets arrive.

`clock`: `Spacing` (two requests of the loop are an interval apart, less what
the wall clock was set forward since; packets received between them, for which
the wait is computed anew, bring them no closer), `TimeoutLag` (a run with `-w`
is over an interval and five steps after its seconds, whatever arrives,
prolonged only by what the clock was set back), `Arithmetic` (no overflow, carry
or borrow of `Timespec` shows in what the loop computes, over all operands) and
in `TypeOK` that no wait is negative, which `pselect` would refuse.

`checksum`: `SumFits` (the sum fits an `int`), `OnesComplement` (folding twice
takes in every carry), `PeerAccepts` (the peer finds the sum right, for either
byte order of both machines and odd lengths), `DamageCaught` (and does not with
one word damaged, unless one of the two zeros of the one's complement became the
other). `ping_recv` accepts exactly the packets that carry the checksum
`icmp_cksum` computes of them, so by `PeerAccepts` it is a peer like any other,
and `DamageCaught` is how far `PingPacket` may take a checksum for the cells it was
computed from: damage in several words can cancel out, which 16 bits cannot
exclude.

`packet`: `RequestIntact` (whatever was received into `ping_buffer` before, a
request has the checksum of its own cells, its own time and the pattern, unless
there was no memory for them), `ReplyJudged` (replies pass with any number of
options, changed ones are counted with a warning), `TripTrue` (the trip is the
time since that very request), `OthersIgnored` (only replies with the identifier
of this process are counted, only errors about its requests reported),
`AverageBounded` (the average that `echo_finish` prints does not exceed the
maximum, and falls below the minimum only by the forged replies that were counted
though they were too short to be timed; with none of those it lies between the
two), `StampsShown` (exactly the recorded words of a timestamp option are
shown, in order and by their kind).

`session`: `OwnedOnce` (a pointer owns exactly one block, no block is without
its pointer), `AllReleased` (nothing is left when `main` returns), `HeldByHost`
(name and socket are there during a run, nothing of one host is left for the
next), `ExitTells` (status 0 exactly if every operand answered, and only the
last operand tried can have failed). `ExitTells` is about what `ping_echo`
returns; that this itself may hide an error or a silent host is what
`lost_error` and `silent_host` show.

`options`: `Privileges` (without root neither flood nor a preload above 3,
although `is_root` trusts earlier options), `InRange` (refused values are stored
but never used), `PayloadIsPrefix` (the payload repeats a prefix of the last
pattern).

**Bounds.** `MaxXmit` bounds the requests of a run nothing stops (so it is in
the guard of `TimerExpires`, not of the code), `MaxResp` the responses it
counts. Two bits and four sequence numbers make 5 requests wrap the table twice
and the sequence numbers once, which is every way two requests can share a bit
or a number; two hosts are the least that have a "late reply of an earlier
host"; the third would meet nothing the second does not, except a larger `past`.
The time arithmetic with 4-bit seconds and `HZ = 3` has every combination of
carry, overflow and cancellation; in `clock` one interval is as long as a step
and one longer, `MaxNow` lasts for several requests and the `-w` second, and
`Horizon` keeps the wall clock within what `Timespec` can add. Up to four words
give up to three carries, even and odd lengths both occur. Two requests are the
least that can take the buffer from each other, two replies the least whose
average means something. A forged payload of 1 cell has no room for the time, one
of 14 exceeds every buffer. The payloads of 0 to 3 cells are those with neither
time nor pattern, one, the other, and both; the proofs have any length.
Three operands let a success follow a failure
and a failure follow a success. Four options are two more than any dependence
between options needs (`is_root` and `pattern_len` carry one value from one
option to the next); the numbers lie on both sides of every limit.

**Deadlock** is checked in `safety`, `counted`, `stops` and `session`, where the
only final states are `pc \in Final`, in which `Ended` stutters, and "exit" of
`PingSession`. The other modules stop where the code they model goes on
elsewhere (`PingArgs` at `ping_process`, `Checksum` at its result, a run that is
"done") or where time, requests or replies reach their bound.

**Fairness.** `FairSpec` assumes that the process keeps taking steps
(`WF_vars(Process)`): it is scheduled, and `pselect` returns because its wait is
always finite (`WaitExact`; a clock set back prolongs it by a finite time). It
does not assume that packets arrive, that the wait ever expires, or that time
passes: `TimeoutEndsAll` starts from the moment the `-w` seconds are over.
`QuietSpec` adds `SF_vars(TimerExpires)`: `loop_event` prefers a readable socket
to an expired wait, so a counted run without answers ends only if the network
falls silent again and again.

### Findings

- `silent_host`: `ping_recv` accepts any echo reply with the right identifier
  (`ft_ping_run_loop.c:182`), also a late one of an earlier host. A host that
  never answers then contributes 0 to the exit status, though status 1 is
  documented as "at least one of target hosts was unreachable"
  (`ft_ping_process.c:33`). It needs `-w`, SIGINT or a failure to get from host 1
  to host 2 while a reply is under way. For the same reason `ping_finish` can
  print "-- somebody is printing forged packets!" (`ft_ping_echo.c:75`) when
  nobody forges.
- `lost_error`: `ping_run` returns its callback's result (`ft_ping_run.c:82`),
  so the 4 of `loop_event` never becomes part of the status, documented as
  "2: error", "4: memory exhausted" (`ft_ping_process.c:34-35`).
- `pattern_cut`: `args->pattern_len` is both the limit of `-p` and its result
  (`ft_ping_args.c:156`), so `-p 41 -p 4243` fills the packet with 42, and after
  `-p ''` every pattern is ignored, though the usage text promises to "fill ICMP
  packet with given pattern" (`ft_ping.c:17`).
- `quoted`: `my_echo_reply` looks for the quoted ICMP header right behind 20 bytes
  of IP header (`ft_ping_run_loop.c:126`), though an error quotes "options and
  then 64 bits of data" (`ft_ping_data.h:143`) and `print_ip_data` skips the quoted
  header by its length. With `--ip-timestamp` every request has an option, so no
  error about one is ever reported.

Not findings, because nothing in the repository says otherwise, but shown by the
models: `timespec_add` of two values of `MIN` seconds, and `timespec_sub` of
`MIN` and `MAX` with a borrow, saturate to the wrong end (`AddMiddle`,
`SubMiddle`; no caller gets near); after the `-w` seconds each further host is
still sent its preloaded requests and two more; an interruption ends one run and
the next host is pinged; a reply with the right identifier and fewer than 16
bytes of data is counted but not timed, and as `echo_finish` divides the sum of the
trips by all replies counted (`ft_ping_echo.c:101-102`), the average it prints can
be below the minimum (`AverageBounded` says by how much).

## 4. What is proved

`PingRunProofs` proves, for all values of the constants (any number of hosts, any
size of the table and of the sequence field, any set of faults), each of the
safety invariants of `safety`: `TypeCorrect`, `StopCorrect`, `OneAfterStopHolds`,
`TableCorrect`, `FreshRunHolds`, `AnswerCountsHolds`, `RecvBoundedHolds`, and the
two action properties that the liveness of `stops` and `counted` rests on,
`NearsEndHolds` and `CountsDownHolds`. The only assumption is `RunAssumption`, the
types of the constants. The invariants are not inductive; they follow from four
that are:

- `TypeInv` adds to `TypeOK` where a host is being pinged, where a request is
  left to send and where the handler may be installed (`Control`).
- `SignalInv`: the flag is reset only while no handler is installed, it is never
  set when SIGINT is ignored (where it is not reset), and a request sent too late
  leaves behind something that ends the loop.
- `RunInv`: what each place knows about buffer, table and counters. A set bit
  means a packet received; a numbered request means a table.
- `Credit`: packets received plus the bits that requests of this run may still
  have set (`Owed`) never exceed requests plus stray packets. A request adds one
  bit at most, an answer takes one away. A refused `sendto` breaks the sum (it
  clears a bit and numbers nothing), which is harmless because it ends the loop:
  hence the condition `ret_val # 4`.

Two more theorems say when the messages about a host can be trusted: if nobody
forges and no late reply meets a later host (`Unmixed`: there is one host, or
such replies do not come), a run never counts more packets than it sent
(`ForgersOnly`), and status 1 tells of every host that answered nothing
(`SilenceReported`). So late replies are the only reason for what `silent_host`
finds.

`NearsEndHolds` follows from `TypeInv` and `SignalInv`, action by action: what is
left at each place (`LeftAt`), and that a run to be stopped leaves the loop after
whatever it received (`StoppedAfterRecv`), because a caught SIGINT has left its
flag. `CountsDownHolds` follows from `TypeInv` and `RunInv`, whose counters are 0
before a run.

`EchoCountProofs` proves the refinement, `CountsRequestsHolds`, from `Punctual`:
`Lifetime <= NBits`, `SeqMod % NBits = 0` (1024 divides 65536), nobody forges and
no host is left with replies under way. The invariant behind it, `CountInv`, says
what a bit means: in the loop, the bit of each of the last `NBits` requests is
set exactly if that request was answered. A request takes the bit of the one
`NBits` before it, whose replies are then too late to come.

`TimespecProofs` proves, for every `MaxTime` and `HZ`, that addition and
subtraction yield the representable value nearest to the exact result but for
the two cases above (`SaturatesCorrect`), and that the wait and the test of `-w`
are exact for the instants a clock shows (`WaitCorrect`, `TimedOutCorrect`).
`MaxTime` is odd, as every 2^k - 1 is.

`PingClockProofs` proves all invariants of `clock` for every interval, latency,
setting of the clock and width of the time (`SpacingCorrect`,
`TimeoutLagCorrect`, `ArithmeticCorrect`, `ClockTypeCorrect`), from
`ClockAssumption`: the wall clock shows nothing beyond `Horizon`, half of what a
`time_t` holds. The inductive invariant relates `last`, `start` and the wall
clock to real time (`Clocks`), bounds the stay at each place (`Stay`), and says
what each place guarantees of the distance to the last request (`Spaced`) and of
the end (`InTime`).

`ChecksumProofs` proves `TypeOK`, `SumFits`, `OnesComplement` and `PeerAccepts`
for every base and every message no longer than an IP packet: `sum` is the
end-around sum `ones` plus `carries` times `W - 1`, folding subtracts multiples of
the same, and one is 0 only if the other is. For `PeerAccepts`, `Peer` says at
every word that the sum so far and the peer's sum of the rest make the peer's sum
of the message, modulo `W - 1`; on a little-endian machine the sum is multiplied
by `Base` first (`Weight`), because modulo `W - 1` that swaps the bytes of a word,
an odd one too. Storing the checksum then adds what the sum lacks to `W - 1`
(`SentSum`). `DamageCaughtHolds` follows from there: damage of one word changes
the peer's sum by what it changes the word (`DamageSum`). `ChecksumAssumption`
says of the messages what the callers of `icmp_cksum` see to: at least an ICMP
header, its checksum field zero. The peer's sum is a recursive function of the
words; where an induction would be needed, the proof takes the least
counterexample (`Least`, from the well-foundedness of the order on the naturals).

`PingPacketProofs` proves, for payloads of any length, any settings and any
number of packets, `PacketTypeCorrect`, `RequestIntactHolds`, `ReplyJudgedHolds`,
`TripTrueHolds`, `OthersIgnoredHolds`, `AverageBoundedHolds` and
`StampsShownHolds`. `PacketInv` adds
to `TypeOK` what the buffer holds at each place of `send_echo` (`Written`), that
nothing is received into it before both blocks are allocated (`Clean`, so a
request that misses a part still contains nothing of a packet), and that every
request sent has its header, good cells and, if nothing was missing, the cells
of `Body` (`AllSound`). From there a packet is followed through `ping_recv`
(`ReceivedFacts`, `RecvFacts`, `CountedFacts`); one that is longer than the buffer
is first replaced by its beginning (`CutOff`). The average needs that a counted
reply that was not timed is a forged one, as long as `datalen` has room for the
time (`Averaged`).
`StampsShownHolds` follows the words of the option into the received header
(`HeaderReceived`) and the walk over them (`ShownFacts`).

`PingSessionProofs` proves all invariants of `session` for any number of
operands. Ownership is not inductive alone: that a release is right needs that
the pointer is no longer junk, and that an allocation loses nothing needs that
the pointer before it is null; `Held` says which pointers are junk, null or
blocks at each place. `ExitTellsHolds` rests on `Told`, what status and outcomes
have to do with each other before, in and after the loop.

`PingArgsProofs` proves all invariants of `options` for every width of `int`,
every limit, every set of texts and patterns and any number of options:
`PrivilegesHold` because what is refused is not stored (`Unprivileged` holds all
along), `InRangeHolds` because a value out of range always comes with
`has_error`, `PayloadIsPrefixHolds` because `pattern_len` bytes of the last
pattern were read (`PrefixRead`). `PatternGivenOfOneLength` is the positive form of
the finding `pattern_cut`: the payload is the pattern that was given if all
patterns of the command line have one length (`LengthInv`: no limit that one
leaves cuts the next).

Only model-checked: `CaughtEndsRun`, `TimeoutEndsAll` and `CountedRunEnds`, which
are liveness (that the process and the network go on is fairness, and what a
fair step is needs ENABLED, both out of TLAPS' reach; the ranks are proved), and
the counterexamples.

## 5. Not modelled

- The text that is printed, the dumps of headers and data, the names of error
  types; `timespectod`, `ping_cvt_time`, the variance and the square root
  (floating point). They decide nothing.
- What `print_ip_opt` shows of other options than timestamps, and of timestamp
  options the program does not set (malformed ones, and the words left empty that
  a longer option would have); that `-f` suppresses the display.
- What `getopt_long`, `strtoul` and the name lookup do with a text.
- Replies to another process whose pid has the same 16 bits; packets of others
  that are shorter than what `my_echo_reply` reads.
- `recvfrom` blocking after `pselect` said it would not.
- SIGINT outside `ping_process` (its default action ends the process).

## 6. Plan

The planned modules, refinement and proofs are in place. What could still be
added is a composition of `PingSession` and `PingRun` into one state machine (now
joined by `HeldByHost` and the place "run"), and a theorem that `PingClock` and
`PingPacket`, with their data hidden, implement `PingRun`.
