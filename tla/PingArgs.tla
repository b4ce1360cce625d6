------------------------------ MODULE PingArgs ------------------------------
(***************************************************************************)
(* main's loop over getopt_long, the parse_optarg functions, and what the  *)
(* arguments lead to: the usage text, the complaint about a missing host,  *)
(* or the payload of ping_args_setup and ping_process.  Options come in    *)
(* any order and number; a later one overwrites what an earlier one left   *)
(* in args, and some read it first.                                        *)
(*                                                                         *)
(* A number is what strtoul makes of a text: a value (up to ULONG_MAX, the *)
(* result also of a negative number) and whether something was left over.  *)
(* A pattern is the sequence of its bytes, a place where no hexadecimal    *)
(* digits are being Bad.  Memory exhaustion is in PingSession.             *)
(***************************************************************************)
EXTENDS Integers, Sequences

CONSTANTS
  IntMax,      \* INT_MAX
  MaxData,     \* PING_MAX_DATALEN
  DataLen,     \* PING_DATALEN
  MaxWait,     \* MAXWAIT
  MaxOctet,    \* 255, the maximum of --tos and --ttl and of a byte
  MaxPattern,  \* MAXPATTERN
  Numbers,     \* the values strtoul returns
  Patterns,    \* the arguments of -p
  MaxOptions   \* bound: options on the command line

Bad   == -1
Bytes == 0 .. MaxOctet

ASSUME ArgsAssumption ==
  /\ IntMax \in Nat \ {0} /\ MaxOctet \in Nat \ {0} /\ MaxOctet <= IntMax
  /\ MaxData \in Nat \ {0} /\ MaxData <= IntMax
  /\ DataLen \in 0 .. MaxData
  /\ MaxWait \in 1 .. IntMax
  /\ MaxPattern \in Nat \ {0}
  /\ Numbers \subseteq Nat
  /\ Patterns \subseteq Seq(Bytes \cup {Bad})
  /\ MaxOptions \in Nat

VARIABLES
  pc,         \* "options", "usage", "missing" (host operand) or "ping"
  root,       \* getuid () = 0
  args,
  usage,
  has_error,
  payload,    \* data_buffer, as ping_args_setup fills it
  given,      \* history: the pattern of the last -p
  left        \* bound: options still to come

vars == <<pc, root, args, usage, has_error, payload, given, left>>

Flags    == {"flood", "numeric", "verbose", "ip_timestamp"}
SubFlags == {"tsonly", "tsaddr"}

Init ==
  /\ pc = "options"
  /\ root \in BOOLEAN
  /\ args = [preload     |-> 0,
             timeout     |-> -1,
             linger      |-> MaxWait,
             pattern     |-> [i \in 0 .. MaxPattern - 1 |-> 0],
             patptr      |-> FALSE,
             pattern_len |-> MaxPattern,
             data_length |-> DataLen,
             tos         |-> -1,
             ttl         |-> 0,
             dontroute   |-> FALSE,
             options     |-> {},
             suboptions  |-> {}]
  /\ usage = FALSE
  /\ has_error = FALSE
  /\ payload = <<>>
  /\ given = <<>>
  /\ left = MaxOptions

-----------------------------------------------------------------------------
(* The parse_optarg functions.                                             *)

\* The text of a number.
Texts == [n : Numbers, rest : BOOLEAN]

\* A size_t in an int.
ToInt(n) == IF n <= IntMax THEN n
            ELSE ((n + IntMax + 1) % (2 * (IntMax + 1))) - (IntMax + 1)

\* parse_optarg_number sets *has_error (and returns the value all the same).
RefusedMutant(text, maxval, allow_zero) ==
  text.rest \/ (text.n = 0 /\ ~allow_zero) \/ maxval + 1 < text.n
Refused(text, maxval, allow_zero) ==
  text.rest \/ (text.n = 0 /\ ~allow_zero) \/ maxval < text.n

\* is_root: options that only root could have given stand for root.
IsRootMutant == "flood" \in args.options \/ 3 <= args.preload \/ root
IsRoot == "flood" \in args.options \/ 3 < args.preload \/ root

\* Another option, while there was no error.
Option ==
  /\ pc = "options"
  /\ ~has_error
  /\ left > 0
  /\ left' = left - 1
  /\ UNCHANGED <<pc, root, payload>>

Help ==
  /\ Option
  /\ usage' = TRUE
  /\ UNCHANGED <<args, has_error, given>>

\* --verbose, --numeric.
Plain ==
  /\ Option
  /\ \E flag \in {"numeric", "verbose"} :
       args' = [args EXCEPT !.options = @ \cup {flag}]
  /\ UNCHANGED <<usage, has_error, given>>

\* parse_optarg_flood.
Flood ==
  /\ Option
  /\ args' = [args EXCEPT !.options = IF IsRoot THEN @ \cup {"flood"} ELSE @]
  /\ has_error' = ~IsRoot
  /\ UNCHANGED <<usage, given>>

\* parse_optarg_preload.
PreloadRefusedMutant(text) ==
  text.rest \/ IntMax + 1 < text.n \/ (3 < text.n /\ ~IsRoot)
PreloadRefused(text) == text.rest \/ IntMax < text.n \/ (3 < text.n /\ ~IsRoot)
Preload ==
  /\ Option
  /\ \E text \in Texts :
       /\ args' = [args EXCEPT !.preload = IF PreloadRefused(text) THEN 0 ELSE text.n]
       /\ has_error' = PreloadRefused(text)
  /\ UNCHANGED <<usage, given>>

Timeout ==
  /\ Option
  /\ \E text \in Texts :
       /\ args' = [args EXCEPT !.timeout = ToInt(text.n)]
       /\ has_error' = Refused(text, IntMax, FALSE)
  /\ UNCHANGED <<usage, given>>

Linger ==
  /\ Option
  /\ \E text \in Texts :
       /\ args' = [args EXCEPT !.linger = ToInt(text.n)]
       /\ has_error' = Refused(text, IntMax, FALSE)
  /\ UNCHANGED <<usage, given>>

Size ==
  /\ Option
  /\ \E text \in Texts :
       /\ args' = [args EXCEPT !.data_length = text.n]
       /\ has_error' = Refused(text, MaxData, TRUE)
  /\ UNCHANGED <<usage, given>>

Tos ==
  /\ Option
  /\ \E text \in Texts :
       /\ args' = [args EXCEPT !.tos = ToInt(text.n)]
       /\ has_error' = Refused(text, MaxOctet, TRUE)
  /\ UNCHANGED <<usage, given>>

Ttl ==
  /\ Option
  /\ \E text \in Texts :
       /\ args' = [args EXCEPT !.ttl = ToInt(text.n)]
       /\ has_error' = Refused(text, MaxOctet, FALSE)
  /\ UNCHANGED <<usage, given>>

IgnoreRouting ==
  /\ Option
  /\ args' = [args EXCEPT !.dontroute = TRUE]
  /\ UNCHANGED <<usage, has_error, given>>

\* parse_optarg_ip_timestamp: a known type, or an error.
IpTimestamp ==
  /\ Option
  /\ \/ /\ \E type \in SubFlags :
             args' = [args EXCEPT !.options = @ \cup {"ip_timestamp"},
                                  !.suboptions = @ \cup {type}]
        /\ UNCHANGED has_error
     \/ /\ args' = [args EXCEPT !.options = @ \cup {"ip_timestamp"}]
        /\ has_error' = TRUE
  /\ UNCHANGED <<usage, given>>

\* An option getopt_long does not know, or one without its argument.
Unknown ==
  /\ Option
  /\ has_error' = TRUE
  /\ UNCHANGED <<args, usage, given>>

-----------------------------------------------------------------------------
(* -p.                                                                     *)

\* How many bytes of p the loop of parse_optarg_pattern comes to read.
ReadLen(p) == IF Len(p) < args.pattern_len THEN Len(p) ELSE args.pattern_len

\* args->pattern with the first n bytes of p in it.
Written(p, n) ==
  [i \in 0 .. MaxPattern - 1 |-> IF i < n THEN p[i + 1] ELSE args.pattern[i]]

\* pattern_len is the limit of this pattern and its length, the next one's limit.
NewLenMutant(n) == args.pattern_len
NewLen(n) == n

PatternRead ==
  /\ Option
  /\ \E p \in Patterns :
       /\ \A i \in 1 .. ReadLen(p) : p[i] # Bad
       /\ args' = [args EXCEPT !.pattern = Written(p, ReadLen(p)),
                               !.patptr = TRUE,
                               !.pattern_len = NewLen(ReadLen(p))]
       /\ given' = p
  /\ UNCHANGED <<usage, has_error>>

\* The first place that is not hexadecimal ends it; c, which is stored there,
\* may never have been assigned.
PatternRefused ==
  /\ Option
  /\ \E p \in Patterns, c \in Bytes :
       \E k \in 1 .. ReadLen(p) :
         /\ p[k] = Bad
         /\ \A i \in 1 .. k - 1 : p[i] # Bad
         /\ args' = [args EXCEPT !.pattern = [Written(p, k - 1) EXCEPT ![k - 1] = c],
                                 !.pattern_len = 0]
  /\ has_error' = TRUE
  /\ UNCHANGED <<usage, given>>

-----------------------------------------------------------------------------
(* After the options.                                                      *)

\* init_data_buffer, as a function from 1: octet i is at i + 1.
DataBuffer ==
  [j \in 1 .. args.data_length |->
     IF ~args.patptr THEN (j - 1) % (MaxOctet + 1)
     ELSE IF args.pattern_len = 0 THEN 0
     ELSE args.pattern[(j - 1) % args.pattern_len]]

UsageGiven ==
  /\ pc = "options"
  /\ usage \/ has_error
  /\ pc' = "usage"
  /\ UNCHANGED <<root, args, usage, has_error, payload, given, left>>

MissingOperand ==
  /\ pc = "options"
  /\ ~usage /\ ~has_error
  /\ pc' = "missing"
  /\ UNCHANGED <<root, args, usage, has_error, payload, given, left>>

Ping ==
  /\ pc = "options"
  /\ ~usage /\ ~has_error
  /\ payload' = DataBuffer
  /\ pc' = "ping"
  /\ UNCHANGED <<root, args, usage, has_error, given, left>>

Next ==
  \/ Help \/ Plain \/ Flood \/ Preload \/ Timeout \/ Linger \/ Size \/ Tos \/ Ttl
  \/ IgnoreRouting \/ IpTimestamp \/ Unknown \/ PatternRead \/ PatternRefused
  \/ UsageGiven \/ MissingOperand \/ Ping

Spec == Init /\ [][Next]_vars

-----------------------------------------------------------------------------
(* Properties.                                                             *)

Ints == -IntMax - 1 .. IntMax

TypeOK ==
  /\ pc \in {"options", "usage", "missing", "ping"}
  /\ root \in BOOLEAN
  /\ args \in [preload : 0 .. IntMax, timeout : Ints, linger : Ints,
               pattern : [0 .. MaxPattern - 1 -> Bytes], patptr : BOOLEAN,
               pattern_len : 0 .. MaxPattern, data_length : Nat, tos : Ints,
               ttl : Ints, dontroute : BOOLEAN, options : SUBSET Flags,
               suboptions : SUBSET SubFlags]
  /\ usage \in BOOLEAN
  /\ has_error \in BOOLEAN
  /\ payload \in Seq(Bytes)
  /\ given \in Patterns \cup {<<>>}
  /\ left \in 0 .. MaxOptions

\* Whatever options precede which, a user who is not root neither floods nor
\* preloads more than 3 requests, though is_root takes earlier options as a
\* proof of being root.
Privileges ==
  pc = "ping" /\ ~root => "flood" \notin args.options /\ args.preload <= 3

\* What ping_process is given is in the ranges t_args documents, though
\* parse_optarg_number returns what it refuses and main stores it.
InRange ==
  pc = "ping" =>
    /\ args.preload \in 0 .. IntMax
    /\ args.timeout = -1 \/ args.timeout \in 1 .. IntMax
    /\ args.linger \in 1 .. IntMax
    /\ args.data_length \in 0 .. MaxData
    /\ args.tos \in -1 .. MaxOctet
    /\ args.ttl \in 0 .. MaxOctet

Repeats(bytes, n) ==
  \A j \in DOMAIN payload : payload[j] = IF n = 0 THEN 0 ELSE bytes[((j - 1) % n) + 1]

\* With -p, the payload has the asked length and repeats a prefix of the last
\* pattern, nothing of an earlier or longer one, nothing that was not read.
PayloadIsPrefix ==
  pc = "ping" =>
    /\ Len(payload) = args.data_length
    /\ args.patptr => \E n \in 0 .. Len(given) : Repeats(given, n)

\* "-p: fill ICMP packet with given pattern (hex)", of which 16 bytes are kept.
PatternGiven ==
  pc = "ping" /\ args.patptr =>
    Repeats(given, IF Len(given) < MaxPattern THEN Len(given) ELSE MaxPattern)

=============================================================================
