--------------------------- MODULE PingArgsProofs ---------------------------
(***************************************************************************)
(* Proofs about PingArgs, for every limit, every text and pattern, and any *)
(* number of options.                                                      *)
(***************************************************************************)
EXTENDS PingArgs, TLAPS

\* What a size_t becomes in an int is an int.
LEMMA ToIntType == ASSUME NEW n \in Nat PROVE ToInt(n) \in Ints
<1>1. CASE n <= IntMax
  BY <1>1, ArgsAssumption DEF ToInt, Ints
<1>2. CASE ~(n <= IntMax)
  <2> DEFINE m == 2 * (IntMax + 1)
  <2> DEFINE r == (n + IntMax + 1) % m
  <2>1. m \in Nat \ {0} /\ n + IntMax + 1 \in Nat
    BY ArgsAssumption
  <2>2. r \in 0 .. m - 1
    <3> HIDE DEF m
    <3> QED
      BY <2>1
  <2>3. ToInt(n) = r - (IntMax + 1)
    BY <1>2 DEF ToInt
  <2> HIDE DEF r
  <2> QED
    BY <2>1, <2>2, <2>3, ArgsAssumption DEF Ints
<1> QED
  BY <1>1, <1>2

\* The payload is a sequence of octets of the asked length.
LEMMA DataBufferType ==
  ASSUME TypeOK
  PROVE  DataBuffer \in Seq(Bytes) /\ Len(DataBuffer) = args.data_length
<1>1. args.data_length \in Nat /\ args.pattern_len \in 0 .. MaxPattern
      /\ args.pattern \in [0 .. MaxPattern - 1 -> Bytes]
  BY DEF TypeOK
<1>2. ASSUME NEW j \in 1 .. args.data_length
      PROVE  DataBuffer[j] \in Bytes
  <2>1. j - 1 \in Nat /\ MaxOctet + 1 \in Nat \ {0} /\ 0 \in Bytes
    BY <1>1, ArgsAssumption DEF Bytes
  <2>2. (j - 1) % (MaxOctet + 1) \in Bytes
    <3> DEFINE m == MaxOctet + 1
    <3>1. m \in Nat \ {0} /\ Bytes = 0 .. m - 1
      BY <2>1, ArgsAssumption DEF Bytes
    <3> HIDE DEF m
    <3>2. (j - 1) % m \in 0 .. m - 1
      BY <2>1, <3>1
    <3> QED
      BY <3>1, <3>2 DEF m
  <2>3. args.pattern_len # 0 => (j - 1) % args.pattern_len \in 0 .. MaxPattern - 1
    <3> DEFINE k == args.pattern_len
    <3> HIDE DEF k
    <3>1. k \in 0 .. MaxPattern
      BY <1>1 DEF k
    <3>2. k # 0 => (j - 1) % k \in 0 .. k - 1
      BY <2>1, <3>1, ArgsAssumption
    <3> QED
      BY <3>1, <3>2, ArgsAssumption DEF k
  <2> QED
    BY <1>1, <2>1, <2>2, <2>3 DEF DataBuffer
<1>3. DataBuffer = [j \in 1 .. args.data_length |-> DataBuffer[j]]
  BY DEF DataBuffer
<1>4. DataBuffer \in [1 .. args.data_length -> Bytes]
  BY <1>2, <1>3
<1> HIDE DEF DataBuffer
<1> QED
  BY <1>1, <1>4

-----------------------------------------------------------------------------
(* Types.                                                                  *)

LEMMA ArgsInit == Init => TypeOK
BY ArgsAssumption DEF Init, TypeOK, Ints, Bytes

\* The arguments, and the types of everything else.
ArgSet ==
  [preload : 0 .. IntMax, timeout : Ints, linger : Ints,
   pattern : [0 .. MaxPattern - 1 -> Bytes], patptr : BOOLEAN,
   pattern_len : 0 .. MaxPattern, data_length : Nat, tos : Ints,
   ttl : Ints, dontroute : BOOLEAN, options : SUBSET Flags,
   suboptions : SUBSET SubFlags]

OthersOK ==
  /\ pc \in {"options", "usage", "missing", "ping"}
  /\ root \in BOOLEAN /\ usage \in BOOLEAN /\ has_error \in BOOLEAN
  /\ payload \in Seq(Bytes)
  /\ given \in Patterns \cup {<<>>}
  /\ left \in 0 .. MaxOptions

LEMMA TypeParts == TypeOK <=> args \in ArgSet /\ OthersOK
BY DEF TypeOK, ArgSet, OthersOK

\* Whatever its type allows may be stored in a field.
LEMMA StoreInt ==
  ASSUME NEW a \in ArgSet, NEW v \in Ints
  PROVE  /\ [a EXCEPT !.timeout = v] \in ArgSet /\ [a EXCEPT !.linger = v] \in ArgSet
         /\ [a EXCEPT !.tos = v] \in ArgSet /\ [a EXCEPT !.ttl = v] \in ArgSet
<1>1. [a EXCEPT !.timeout = v] \in ArgSet
  BY DEF ArgSet
<1>2. [a EXCEPT !.linger = v] \in ArgSet
  BY DEF ArgSet
<1>3. [a EXCEPT !.tos = v] \in ArgSet
  BY DEF ArgSet
<1>4. [a EXCEPT !.ttl = v] \in ArgSet
  BY DEF ArgSet
<1> QED
  BY <1>1, <1>2, <1>3, <1>4

LEMMA StoreNat ==
  ASSUME NEW a \in ArgSet, NEW n \in Nat
  PROVE  /\ [a EXCEPT !.data_length = n] \in ArgSet
         /\ n <= IntMax => [a EXCEPT !.preload = n] \in ArgSet
<1>1. [a EXCEPT !.data_length = n] \in ArgSet
  BY DEF ArgSet
<1>2. ASSUME n <= IntMax PROVE [a EXCEPT !.preload = n] \in ArgSet
  <2>1. n \in 0 .. IntMax
    BY <1>2, ArgsAssumption
  <2> QED
    BY <2>1 DEF ArgSet
<1> QED
  BY <1>1, <1>2

LEMMA StoreFlags ==
  ASSUME NEW a \in ArgSet, NEW f \in SUBSET Flags, NEW g \in SUBSET SubFlags
  PROVE  /\ [a EXCEPT !.options = f] \in ArgSet
         /\ [a EXCEPT !.options = f, !.suboptions = g] \in ArgSet
         /\ [a EXCEPT !.dontroute = TRUE] \in ArgSet
<1>1. [a EXCEPT !.options = f] \in ArgSet
  BY DEF ArgSet
<1>2. [a EXCEPT !.options = f, !.suboptions = g] \in ArgSet
  BY DEF ArgSet
<1>3. [a EXCEPT !.dontroute = TRUE] \in ArgSet
  BY DEF ArgSet
<1> QED
  BY <1>1, <1>2, <1>3

LEMMA StorePattern ==
  ASSUME NEW a \in ArgSet, NEW w \in [0 .. MaxPattern - 1 -> Bytes], NEW n \in 0 .. MaxPattern
  PROVE  /\ [a EXCEPT !.pattern = w, !.patptr = TRUE, !.pattern_len = n] \in ArgSet
         /\ [a EXCEPT !.pattern = w, !.pattern_len = n] \in ArgSet
<1>1. [a EXCEPT !.pattern = w, !.patptr = TRUE, !.pattern_len = n] \in ArgSet
  BY DEF ArgSet
<1>2. [a EXCEPT !.pattern = w, !.pattern_len = n] \in ArgSet
  BY DEF ArgSet
<1> QED
  BY <1>1, <1>2

\* Any n bytes of a pattern may be written that the loop may read.
LEMMA WrittenType ==
  ASSUME args \in ArgSet, NEW p \in Patterns, NEW n \in Nat, n <= ReadLen(p),
         \A i \in 1 .. n : p[i] # Bad
  PROVE  Written(p, n) \in [0 .. MaxPattern - 1 -> Bytes]
<1>1. p \in Seq(Bytes \cup {Bad}) /\ Len(p) \in Nat /\ args.pattern_len \in 0 .. MaxPattern
  BY ArgsAssumption DEF ArgSet
<1>2. n <= Len(p)
  BY <1>1, ArgsAssumption DEF ReadLen
<1>3. args.pattern \in [0 .. MaxPattern - 1 -> Bytes]
  BY DEF ArgSet
<1> SUFFICES ASSUME NEW i \in 0 .. MaxPattern - 1
             PROVE  (IF i < n THEN p[i + 1] ELSE args.pattern[i]) \in Bytes
  BY DEF Written
<1>4. CASE i < n
  <2>1. i + 1 \in 1 .. n /\ i + 1 \in 1 .. Len(p)
    BY <1>1, <1>2, <1>4, ArgsAssumption
  <2>2. p[i + 1] \in Bytes \cup {Bad} /\ p[i + 1] # Bad
    BY <1>1, <2>1
  <2> QED
    BY <1>4, <2>2
<1>5. CASE ~(i < n)
  BY <1>3, <1>5
<1> QED
  BY <1>4, <1>5

\* What the loop over a pattern reads.
LEMMA ReadLenType ==
  ASSUME args \in ArgSet, NEW p \in Patterns
  PROVE  ReadLen(p) \in 0 .. MaxPattern
<1>1. Len(p) \in Nat /\ args.pattern_len \in 0 .. MaxPattern /\ MaxPattern \in Nat
  BY ArgsAssumption DEF ArgSet
<1> QED
  BY <1>1 DEF ReadLen

LEMMA ArgsStep == TypeOK /\ [Next]_vars => TypeOK'
<1> SUFFICES ASSUME args \in ArgSet, OthersOK, [Next]_vars
             PROVE  args' \in ArgSet /\ OthersOK'
  BY TypeParts DEF TypeOK, ArgSet, OthersOK
<1>o. Option => left' \in 0 .. MaxOptions /\ UNCHANGED <<pc, root, payload>>
  BY ArgsAssumption DEF Option, OthersOK
<1>n. \A text \in Texts : text.n \in Nat /\ ToInt(text.n) \in Ints /\ text.rest \in BOOLEAN
  BY ArgsAssumption, ToIntType DEF Texts
<1>s. args.options \in SUBSET Flags /\ args.suboptions \in SUBSET SubFlags
      /\ args.preload \in 0 .. IntMax
  BY DEF ArgSet
<1>1. CASE Help \/ Unknown
  BY <1>1, <1>o DEF Help, Unknown, OthersOK
<1>2. CASE IgnoreRouting
  <2>1. args' \in ArgSet
    BY <1>2, <1>s, StoreFlags DEF IgnoreRouting
  <2> QED
    BY <1>2, <1>o, <2>1 DEF IgnoreRouting, OthersOK
<1>3. CASE Plain
  <2> PICK flag \in {"numeric", "verbose"} : args' = [args EXCEPT !.options = @ \cup {flag}]
    BY <1>3 DEF Plain
  <2>1. args.options \cup {flag} \in SUBSET Flags
    BY <1>s DEF Flags
  <2>2. args' \in ArgSet
    BY <1>s, <2>1, StoreFlags
  <2> QED
    BY <1>3, <1>o, <2>2 DEF Plain, OthersOK
<1>4. CASE IpTimestamp
  <2>1. args.options \cup {"ip_timestamp"} \in SUBSET Flags
    BY <1>s DEF Flags
  <2>2. ASSUME NEW type \in SubFlags PROVE args.suboptions \cup {type} \in SUBSET SubFlags
    BY <1>s
  <2>3. args' \in ArgSet
    <3>1. CASE \E type \in SubFlags :
                 args' = [args EXCEPT !.options = @ \cup {"ip_timestamp"},
                                      !.suboptions = @ \cup {type}]
      <4> PICK type \in SubFlags :
            args' = [args EXCEPT !.options = args.options \cup {"ip_timestamp"},
                                 !.suboptions = args.suboptions \cup {type}]
        BY <3>1
      <4> DEFINE f == args.options \cup {"ip_timestamp"}
                 g == args.suboptions \cup {type}
      <4>1. f \in SUBSET Flags /\ g \in SUBSET SubFlags
        BY <2>1, <2>2
      <4> HIDE DEF f, g
      <4>2. [args EXCEPT !.options = f, !.suboptions = g] \in ArgSet
        BY <4>1, StoreFlags
      <4> QED
        BY <4>2 DEF f, g
    <3>2. CASE args' = [args EXCEPT !.options = @ \cup {"ip_timestamp"}]
      BY <1>s, <2>1, <3>2, StoreFlags
    <3> QED
      BY <1>4, <3>1, <3>2 DEF IpTimestamp
  <2> QED
    BY <1>4, <1>o, <2>3 DEF IpTimestamp, OthersOK
<1>5. CASE Flood
  <2>1. IsRoot \in BOOLEAN
    BY DEF IsRoot
  <2>2. (IF IsRoot THEN args.options \cup {"flood"} ELSE args.options) \in SUBSET Flags
    BY <1>s DEF Flags
  <2>3. args' \in ArgSet
    BY <1>5, <1>s, <2>2, StoreFlags DEF Flood
  <2> QED
    BY <1>5, <1>o, <2>1, <2>3 DEF Flood, OthersOK
<1>6. CASE Preload
  <2> PICK text \in Texts :
        /\ args' = [args EXCEPT !.preload = IF PreloadRefused(text) THEN 0 ELSE text.n]
        /\ has_error' = PreloadRefused(text)
    BY <1>6 DEF Preload
  <2> DEFINE n == IF PreloadRefused(text) THEN 0 ELSE text.n
  <2>1. n \in Nat /\ n <= IntMax /\ PreloadRefused(text) \in BOOLEAN
    BY <1>n, ArgsAssumption DEF PreloadRefused
  <2> HIDE DEF n
  <2>2. args' \in ArgSet
    BY <2>1, StoreNat DEF n
  <2> QED
    BY <1>6, <1>o, <2>1, <2>2 DEF Preload, OthersOK
<1>7. CASE Timeout \/ Linger \/ Size \/ Tos \/ Ttl
  <2>1. Option /\ UNCHANGED <<usage, given>> /\ has_error' \in BOOLEAN
    BY <1>7 DEF Timeout, Linger, Size, Tos, Ttl, Refused
  <2>2. PICK text \in Texts :
          \/ args' = [args EXCEPT !.timeout = ToInt(text.n)]
          \/ args' = [args EXCEPT !.linger = ToInt(text.n)]
          \/ args' = [args EXCEPT !.data_length = text.n]
          \/ args' = [args EXCEPT !.tos = ToInt(text.n)]
          \/ args' = [args EXCEPT !.ttl = ToInt(text.n)]
    BY <1>7 DEF Timeout, Linger, Size, Tos, Ttl
  <2>3. args' \in ArgSet
    BY <1>n, <2>2, StoreInt, StoreNat
  <2> QED
    BY <1>o, <2>1, <2>3 DEF OthersOK
<1>8. CASE PatternRead
  <2> PICK p \in Patterns :
        /\ \A i \in 1 .. ReadLen(p) : p[i] # Bad
        /\ args' = [args EXCEPT !.pattern = Written(p, ReadLen(p)),
                                !.patptr = TRUE,
                                !.pattern_len = NewLen(ReadLen(p))]
        /\ given' = p
    BY <1>8 DEF PatternRead
  <2>1. ReadLen(p) \in 0 .. MaxPattern /\ ReadLen(p) \in Nat /\ ReadLen(p) <= ReadLen(p)
    BY ReadLenType, ArgsAssumption
  <2>2. Written(p, ReadLen(p)) \in [0 .. MaxPattern - 1 -> Bytes]
    BY <2>1, WrittenType
  <2>3. args' \in ArgSet
    BY <2>1, <2>2, StorePattern DEF NewLen
  <2> QED
    BY <1>8, <1>o, <2>3 DEF PatternRead, OthersOK
<1>9. CASE PatternRefused
  <2> PICK p \in Patterns, c \in Bytes : \E k \in 1 .. ReadLen(p) :
        /\ \A i \in 1 .. k - 1 : p[i] # Bad
        /\ args' = [args EXCEPT !.pattern = [Written(p, k - 1) EXCEPT ![k - 1] = c],
                                !.pattern_len = 0]
    BY <1>9 DEF PatternRefused
  <2> PICK k \in 1 .. ReadLen(p) :
        /\ \A i \in 1 .. k - 1 : p[i] # Bad
        /\ args' = [args EXCEPT !.pattern = [Written(p, k - 1) EXCEPT ![k - 1] = c],
                                !.pattern_len = 0]
    OBVIOUS
  <2>1. k - 1 \in Nat /\ k - 1 <= ReadLen(p) /\ 0 \in 0 .. MaxPattern
    BY ReadLenType, ArgsAssumption
  <2>2. Written(p, k - 1) \in [0 .. MaxPattern - 1 -> Bytes]
    BY <2>1, WrittenType
  <2>3. [Written(p, k - 1) EXCEPT ![k - 1] = c] \in [0 .. MaxPattern - 1 -> Bytes]
    BY <2>2
  <2>4. args' \in ArgSet
    BY <2>1, <2>3, StorePattern
  <2> QED
    BY <1>9, <1>o, <2>4 DEF PatternRefused, OthersOK
<1>10. CASE UsageGiven \/ MissingOperand
  BY <1>10 DEF UsageGiven, MissingOperand, OthersOK
<1>11. CASE Ping
  <2>1. payload' \in Seq(Bytes)
    BY <1>11, DataBufferType, TypeParts DEF Ping
  <2> QED
    BY <1>11, <2>1 DEF Ping, OthersOK
<1>12. CASE UNCHANGED vars
  BY <1>12 DEF vars, OthersOK
<1> QED
  BY <1>1, <1>2, <1>3, <1>4, <1>5, <1>6, <1>7, <1>8, <1>9, <1>10, <1>11, <1>12 DEF Next

\* All arguments keep their types, whatever the texts.
THEOREM ArgsTypeCorrect == Spec => []TypeOK
BY ArgsInit, ArgsStep, PTL DEF Spec

-----------------------------------------------------------------------------
(* Privileges: true all along, as what is refused is not stored.           *)

Unprivileged == ~root => "flood" \notin args.options /\ args.preload <= 3

LEMMA RootStays == [Next]_vars => root' = root
<1>1. Help \/ Plain \/ Flood \/ Preload \/ Timeout \/ Linger \/ Size \/ Tos \/ Ttl
      \/ IgnoreRouting \/ IpTimestamp \/ Unknown \/ PatternRead \/ PatternRefused
      => Option
  BY DEF Help, Plain, Flood, Preload, Timeout, Linger, Size, Tos, Ttl, IgnoreRouting,
         IpTimestamp, Unknown, PatternRead, PatternRefused
<1>2. Option \/ UsageGiven \/ MissingOperand \/ Ping \/ UNCHANGED vars => root' = root
  BY DEF Option, UsageGiven, MissingOperand, Ping, vars
<1> QED
  BY <1>1, <1>2 DEF Next

LEMMA UnprivilegedStep == TypeOK /\ Unprivileged /\ [Next]_vars => Unprivileged'
<1> SUFFICES ASSUME TypeOK, Unprivileged, ~root, [Next]_vars
             PROVE  "flood" \notin args'.options /\ args'.preload <= 3
  BY RootStays DEF Unprivileged
<1>1. args.preload \in Nat /\ "flood" \notin args.options /\ args.preload <= 3 /\ ~IsRoot
  BY DEF TypeOK, Unprivileged, IsRoot
<1>2. CASE Flood
  BY <1>1, <1>2 DEF Flood, TypeOK
<1>3. CASE Preload
  <2> PICK text \in Texts :
        args' = [args EXCEPT !.preload = IF PreloadRefused(text) THEN 0 ELSE text.n]
    BY <1>3 DEF Preload
  <2>1. ~PreloadRefused(text) => ~(3 < text.n)
    BY <1>1 DEF PreloadRefused
  <2>2. text.n \in Nat
    BY ArgsAssumption DEF Texts
  <2> QED
    BY <1>1, <2>1, <2>2 DEF TypeOK
<1>4. CASE Plain
  <2> PICK flag \in {"numeric", "verbose"} : args' = [args EXCEPT !.options = @ \cup {flag}]
    BY <1>4 DEF Plain
  <2> QED
    BY <1>1 DEF TypeOK
<1>5. CASE IpTimestamp
  <2>1. args'.preload = args.preload /\ args'.options = args.options \cup {"ip_timestamp"}
    <3>1. CASE \E type \in SubFlags :
                 args' = [args EXCEPT !.options = @ \cup {"ip_timestamp"},
                                      !.suboptions = @ \cup {type}]
      BY <3>1 DEF TypeOK
    <3>2. CASE args' = [args EXCEPT !.options = @ \cup {"ip_timestamp"}]
      BY <3>2 DEF TypeOK
    <3> QED
      BY <1>5, <3>1, <3>2 DEF IpTimestamp
  <2> QED
    BY <1>1, <2>1
<1>6. CASE Timeout \/ Linger \/ Size \/ Tos \/ Ttl \/ IgnoreRouting \/ PatternRead
           \/ PatternRefused
  BY <1>1, <1>6
     DEF Timeout, Linger, Size, Tos, Ttl, IgnoreRouting, PatternRead, PatternRefused, TypeOK
<1>7. CASE Help \/ Unknown \/ UsageGiven \/ MissingOperand \/ Ping \/ UNCHANGED vars
  BY <1>1, <1>7 DEF Help, Unknown, UsageGiven, MissingOperand, Ping, vars
<1> QED
  BY <1>2, <1>3, <1>4, <1>5, <1>6, <1>7 DEF Next

\* Without root's privileges no order of options leads to a flood or to a
\* preload above 3.
THEOREM PrivilegesHold == Spec => []Privileges
<1>1. Init => Unprivileged
  BY DEF Init, Unprivileged
<1>2. Unprivileged => Privileges
  BY DEF Unprivileged, Privileges
<1> QED
  BY <1>1, <1>2, UnprivilegedStep, ArgsTypeCorrect, PTL DEF Spec

-----------------------------------------------------------------------------
(* Ranges: a value out of range comes with has_error, which ends the loop. *)

Ranges ==
  /\ args.timeout = -1 \/ args.timeout \in 1 .. IntMax
  /\ args.linger \in 1 .. IntMax
  /\ args.data_length \in 0 .. MaxData
  /\ args.tos \in -1 .. MaxOctet
  /\ args.ttl \in 0 .. MaxOctet

RangeInv == (~has_error => Ranges) /\ (pc = "ping" => ~has_error)

\* A number that is not refused is stored as it is, within its limits.
LEMMA NotRefused ==
  ASSUME NEW text \in Texts, NEW maxval \in Nat, NEW zero \in BOOLEAN,
         maxval <= IntMax, ~Refused(text, maxval, zero)
  PROVE  /\ text.n \in 0 .. maxval
         /\ ~zero => text.n \in 1 .. maxval
         /\ ToInt(text.n) = text.n
<1>1. text.n \in Nat
  BY ArgsAssumption DEF Texts
<1>2. text.n <= maxval /\ (text.n = 0 => zero)
  BY <1>1 DEF Refused
<1> QED
  BY <1>1, <1>2, ArgsAssumption DEF ToInt

LEMMA RangeStep == TypeOK /\ RangeInv /\ [Next]_vars => RangeInv'
<1> SUFFICES ASSUME TypeOK, RangeInv, [Next]_vars PROVE RangeInv'
  OBVIOUS
<1> USE ArgsAssumption
<1>o. Option => /\ pc = "options" /\ pc' = "options"
                /\ ~has_error /\ Ranges
  BY DEF Option, RangeInv
<1>a. FALSE \in BOOLEAN /\ IntMax \in Nat /\ IntMax <= IntMax
  OBVIOUS
<1>1. CASE Timeout
  <2> PICK text \in Texts : /\ args' = [args EXCEPT !.timeout = ToInt(text.n)]
                            /\ has_error' = Refused(text, IntMax, FALSE)
    BY <1>1 DEF Timeout
  <2>1. ~has_error' => text.n \in 1 .. IntMax /\ ToInt(text.n) = text.n
    BY <1>a, NotRefused
  <2> QED
    BY <1>1, <1>o, <2>1 DEF Timeout, RangeInv, Ranges, TypeOK
<1>2. CASE Linger
  <2> PICK text \in Texts : /\ args' = [args EXCEPT !.linger = ToInt(text.n)]
                            /\ has_error' = Refused(text, IntMax, FALSE)
    BY <1>2 DEF Linger
  <2>1. ~has_error' => text.n \in 1 .. IntMax /\ ToInt(text.n) = text.n
    BY <1>a, NotRefused
  <2> QED
    BY <1>2, <1>o, <2>1 DEF Linger, RangeInv, Ranges, TypeOK
<1>3. CASE Size
  <2> PICK text \in Texts : /\ args' = [args EXCEPT !.data_length = text.n]
                            /\ has_error' = Refused(text, MaxData, TRUE)
    BY <1>3 DEF Size
  <2>1. ~has_error' => text.n \in 0 .. MaxData
    BY NotRefused
  <2> QED
    BY <1>3, <1>o, <2>1 DEF Size, RangeInv, Ranges, TypeOK
<1>4. CASE Tos
  <2> PICK text \in Texts : /\ args' = [args EXCEPT !.tos = ToInt(text.n)]
                            /\ has_error' = Refused(text, MaxOctet, TRUE)
    BY <1>4 DEF Tos
  <2>1. ~has_error' => ToInt(text.n) \in 0 .. MaxOctet
    BY NotRefused
  <2>2. args'.tos = ToInt(text.n) /\ args'.timeout = args.timeout /\ args'.ttl = args.ttl
        /\ args'.linger = args.linger /\ args'.data_length = args.data_length
    BY DEF TypeOK
  <2>3. ~has_error' => Ranges'
    BY <1>o, <1>4, <2>1, <2>2 DEF Tos, Ranges
  <2> QED
    BY <1>4, <1>o, <2>3 DEF Tos, RangeInv
<1>5. CASE Ttl
  <2> PICK text \in Texts : /\ args' = [args EXCEPT !.ttl = ToInt(text.n)]
                            /\ has_error' = Refused(text, MaxOctet, FALSE)
    BY <1>5 DEF Ttl
  <2>1. ~has_error' => ToInt(text.n) \in 0 .. MaxOctet
    BY NotRefused
  <2> QED
    BY <1>5, <1>o, <2>1 DEF Ttl, RangeInv, Ranges, TypeOK
<1>6. CASE Help \/ Unknown
  BY <1>o, <1>6 DEF Help, Unknown, RangeInv, Ranges
<1>7. CASE Plain \/ Flood
  <2>1. Option /\ \E set : args' = [args EXCEPT !.options = set]
    BY <1>7 DEF Plain, Flood
  <2> QED
    BY <1>o, <2>1 DEF RangeInv, Ranges, TypeOK
<1>8. CASE IpTimestamp
  <2>1. Option /\ \/ \E set, sub : args' = [args EXCEPT !.options = set, !.suboptions = sub]
                  \/ \E set : args' = [args EXCEPT !.options = set]
    BY <1>8 DEF IpTimestamp
  <2> QED
    BY <1>o, <2>1 DEF RangeInv, Ranges, TypeOK
<1>9. CASE Preload \/ IgnoreRouting
  <2>1. Option /\ \/ \E n : args' = [args EXCEPT !.preload = n]
                  \/ args' = [args EXCEPT !.dontroute = TRUE]
    BY <1>9 DEF Preload, IgnoreRouting
  <2> QED
    BY <1>o, <2>1 DEF RangeInv, Ranges, TypeOK
<1>10. CASE PatternRead
  <2>1. Option /\ \E f, n : args' = [args EXCEPT !.pattern = f, !.patptr = TRUE,
                                                 !.pattern_len = n]
    BY <1>10 DEF PatternRead
  <2> QED
    BY <1>o, <2>1 DEF RangeInv, Ranges, TypeOK
<1>11. CASE PatternRefused
  BY <1>o, <1>11 DEF PatternRefused, RangeInv
<1>12. CASE UsageGiven \/ MissingOperand \/ Ping \/ UNCHANGED vars
  BY <1>12 DEF UsageGiven, MissingOperand, Ping, vars, RangeInv, Ranges
<1> QED
  BY <1>1, <1>2, <1>3, <1>4, <1>5, <1>6, <1>7, <1>8, <1>9, <1>10, <1>11, <1>12 DEF Next

\* ping_process gets arguments in the ranges t_args documents.
THEOREM InRangeHolds == Spec => []InRange
<1>1. Init => RangeInv
  BY ArgsAssumption DEF Init, RangeInv, Ranges
<1>2. TypeOK /\ RangeInv => InRange
  BY DEF TypeOK, RangeInv, Ranges, InRange
<1> QED
  BY <1>1, <1>2, RangeStep, ArgsTypeCorrect, PTL DEF Spec

-----------------------------------------------------------------------------
(* The pattern: pattern_len bytes of the last one have been read.          *)

PrefixRead ==
  /\ args.pattern_len <= Len(given)
  /\ \A i \in 0 .. args.pattern_len - 1 : args.pattern[i] = given[i + 1]

PatternInv ==
  /\ ~has_error /\ args.patptr => PrefixRead
  /\ pc = "ping" => ~has_error /\ payload = DataBuffer

LEMMA PatternStep == TypeOK /\ PatternInv /\ [Next]_vars => PatternInv'
<1> SUFFICES ASSUME TypeOK, PatternInv, [Next]_vars PROVE PatternInv'
  OBVIOUS
<1> USE ArgsAssumption
<1>1. CASE PatternRead
  <2> PICK p \in Patterns :
        /\ args' = [args EXCEPT !.pattern = Written(p, ReadLen(p)),
                                !.patptr = TRUE,
                                !.pattern_len = NewLen(ReadLen(p))]
        /\ given' = p
    BY <1>1 DEF PatternRead
  <2> DEFINE n == ReadLen(p)
  <2>0. Len(p) \in Nat /\ args.pattern_len \in 0 .. MaxPattern
    BY TypeParts DEF ArgSet
  <2>1. n \in 0 .. MaxPattern /\ n <= Len(p)
    BY <2>0 DEF ReadLen
  <2>2. args'.pattern_len = n /\ args'.pattern = Written(p, n)
    BY DEF NewLen, TypeOK
  <2> HIDE DEF n
  <2>3. \A i \in 0 .. n - 1 : Written(p, n)[i] = p[i + 1]
    BY <2>1 DEF Written
  <2>4. PrefixRead'
    <3> SUFFICES args'.pattern_len <= Len(given')
                 /\ \A i \in 0 .. args'.pattern_len - 1 : args'.pattern[i] = given'[i + 1]
      BY DEF PrefixRead
    <3>1. given' = p
      OBVIOUS
    <3>2. args'.pattern_len <= Len(given')
      BY <2>1, <2>2, <3>1
    <3>3. \A i \in 0 .. args'.pattern_len - 1 : args'.pattern[i] = given'[i + 1]
      BY <2>2, <2>3, <3>1
    <3> QED
      BY <3>2, <3>3
  <2> QED
    BY <1>1, <2>4 DEF PatternRead, Option, PatternInv
<1>2. ASSUME Option, given' = given,
             /\ args'.pattern = args.pattern
             /\ args'.patptr = args.patptr
             /\ args'.pattern_len = args.pattern_len
      PROVE  PatternInv'
  BY <1>2 DEF Option, PatternInv, PrefixRead
<1>3. CASE Plain \/ Flood
  <2>1. Option /\ given' = given /\ \E set : args' = [args EXCEPT !.options = set]
    BY <1>3 DEF Plain, Flood
  <2> QED
    BY <1>2, <2>1 DEF TypeOK
<1>4. CASE IpTimestamp
  <2>1. /\ Option /\ given' = given
        /\ \/ \E set, sub : args' = [args EXCEPT !.options = set, !.suboptions = sub]
           \/ \E set : args' = [args EXCEPT !.options = set]
    BY <1>4 DEF IpTimestamp
  <2> QED
    BY <1>2, <2>1 DEF TypeOK
<1>5. CASE Preload \/ Timeout \/ Linger
  <2>1. /\ Option /\ given' = given
        /\ \E n : \/ args' = [args EXCEPT !.preload = n]
                  \/ args' = [args EXCEPT !.timeout = n]
                  \/ args' = [args EXCEPT !.linger = n]
    BY <1>5 DEF Preload, Timeout, Linger
  <2> QED
    BY <1>2, <2>1 DEF TypeOK
<1>6. CASE Size \/ Tos \/ Ttl \/ IgnoreRouting
  <2>1. /\ Option /\ given' = given
        /\ \E n : \/ args' = [args EXCEPT !.data_length = n]
                  \/ args' = [args EXCEPT !.tos = n]
                  \/ args' = [args EXCEPT !.ttl = n]
                  \/ args' = [args EXCEPT !.dontroute = n]
    BY <1>6 DEF Size, Tos, Ttl, IgnoreRouting
  <2> QED
    BY <1>2, <2>1 DEF TypeOK
<1>7. CASE Help
  BY <1>2, <1>7 DEF Help
<1>8. CASE Unknown \/ PatternRefused
  BY <1>8 DEF Unknown, PatternRefused, Option, PatternInv
<1>9. CASE UsageGiven \/ MissingOperand
  BY <1>9 DEF UsageGiven, MissingOperand, PatternInv, PrefixRead
<1>10. CASE Ping
  BY <1>10 DEF Ping, PatternInv, PrefixRead, DataBuffer
<1>11. CASE UNCHANGED vars
  BY <1>11 DEF vars, PatternInv, PrefixRead, DataBuffer
<1> QED
  BY <1>1, <1>3, <1>4, <1>5, <1>6, <1>7, <1>8, <1>9, <1>10, <1>11 DEF Next

LEMMA RepeatsRead ==
  ASSUME TypeOK, PatternInv, pc = "ping", args.patptr
  PROVE  Repeats(given, args.pattern_len)
<1> SUFFICES ASSUME NEW j \in DOMAIN payload
             PROVE  payload[j] = IF args.pattern_len = 0 THEN 0
                                 ELSE given[((j - 1) % args.pattern_len) + 1]
  BY DEF Repeats
<1>1. j \in 1 .. args.data_length
  BY DEF PatternInv, DataBuffer
<1>2. payload[j] = IF args.pattern_len = 0 THEN 0
                   ELSE args.pattern[(j - 1) % args.pattern_len]
  BY <1>1 DEF PatternInv, DataBuffer
<1>3. CASE args.pattern_len # 0
  <2> DEFINE k == args.pattern_len
  <2>1. k \in Nat \ {0} /\ j - 1 \in Nat
    BY <1>1, <1>3, ArgsAssumption DEF TypeOK
  <2>2. (j - 1) % k \in 0 .. k - 1
    <3> HIDE DEF k
    <3> QED
      BY <2>1
  <2> QED
    BY <1>2, <1>3, <2>2 DEF PatternInv, PrefixRead
<1> QED
  BY <1>2, <1>3

LEMMA PatternPayload == TypeOK /\ PatternInv => PayloadIsPrefix
<1> SUFFICES ASSUME TypeOK, PatternInv, pc = "ping"
             PROVE  /\ Len(payload) = args.data_length
                    /\ args.patptr => \E n \in 0 .. Len(given) : Repeats(given, n)
  BY DEF PayloadIsPrefix
<1>1. Len(payload) = args.data_length
  BY DataBufferType DEF PatternInv
<1>2. args.patptr => args.pattern_len \in 0 .. Len(given)
  BY ArgsAssumption DEF PatternInv, PrefixRead, TypeOK
<1> QED
  BY <1>1, <1>2, RepeatsRead

\* With -p the payload repeats a prefix of the last pattern, and nothing else.
THEOREM PayloadIsPrefixHolds == Spec => []PayloadIsPrefix
<1>1. Init => PatternInv
  BY DEF Init, PatternInv
<1> QED
  BY <1>1, PatternStep, PatternPayload, ArgsTypeCorrect, PTL DEF Spec

-----------------------------------------------------------------------------
(* When -p does what the usage text says.                                  *)

\* How many bytes of a pattern there is room for.
Kept(p) == IF Len(p) < MaxPattern THEN Len(p) ELSE MaxPattern

\* All patterns given are of one length, or too long.
OneLength == \A p, q \in Patterns : Kept(p) = Kept(q)

\* The limit that a pattern leaves to the next one cuts nothing off it.
LengthInv ==
  ~has_error =>
    IF args.patptr
    THEN given \in Patterns /\ args.pattern_len = Kept(given)
    ELSE args.pattern_len = MaxPattern

LEMMA LengthStep ==
  ASSUME OneLength, TypeOK, LengthInv, [Next]_vars
  PROVE  LengthInv'
<1> USE ArgsAssumption
<1>1. CASE PatternRead
  <2> PICK p \in Patterns :
        /\ args' = [args EXCEPT !.pattern = Written(p, ReadLen(p)),
                                !.patptr = TRUE,
                                !.pattern_len = NewLen(ReadLen(p))]
        /\ given' = p
    BY <1>1 DEF PatternRead
  <2>1. args'.patptr = TRUE /\ args'.pattern_len = ReadLen(p)
    BY DEF NewLen, TypeOK
  <2>2. Len(p) \in Nat /\ MaxPattern \in Nat
    BY TypeParts
  <2>3. args.pattern_len \in {Kept(p), MaxPattern}
    BY <1>1 DEF PatternRead, Option, LengthInv, OneLength
  <2>4. ReadLen(p) = Kept(p)
    BY <2>2, <2>3 DEF ReadLen, Kept
  <2> QED
    BY <2>1, <2>4 DEF LengthInv
<1>2. ASSUME Option, given' = given,
             args'.patptr = args.patptr, args'.pattern_len = args.pattern_len
      PROVE  LengthInv'
  BY <1>2 DEF Option, LengthInv, Kept
<1>3. CASE Plain \/ Flood
  <2>1. Option /\ given' = given /\ \E set : args' = [args EXCEPT !.options = set]
    BY <1>3 DEF Plain, Flood
  <2> QED
    BY <1>2, <2>1 DEF TypeOK
<1>4. CASE IpTimestamp
  <2>1. /\ Option /\ given' = given
        /\ \/ \E set, sub : args' = [args EXCEPT !.options = set, !.suboptions = sub]
           \/ \E set : args' = [args EXCEPT !.options = set]
    BY <1>4 DEF IpTimestamp
  <2> QED
    BY <1>2, <2>1 DEF TypeOK
<1>5. CASE Preload \/ Timeout \/ Linger
  <2>1. /\ Option /\ given' = given
        /\ \E n : \/ args' = [args EXCEPT !.preload = n]
                  \/ args' = [args EXCEPT !.timeout = n]
                  \/ args' = [args EXCEPT !.linger = n]
    BY <1>5 DEF Preload, Timeout, Linger
  <2> QED
    BY <1>2, <2>1 DEF TypeOK
<1>6. CASE Size \/ Tos \/ Ttl \/ IgnoreRouting
  <2>1. /\ Option /\ given' = given
        /\ \E n : \/ args' = [args EXCEPT !.data_length = n]
                  \/ args' = [args EXCEPT !.tos = n]
                  \/ args' = [args EXCEPT !.ttl = n]
                  \/ args' = [args EXCEPT !.dontroute = n]
    BY <1>6 DEF Size, Tos, Ttl, IgnoreRouting
  <2> QED
    BY <1>2, <2>1 DEF TypeOK
<1>7. CASE Help
  BY <1>2, <1>7 DEF Help
<1>8. CASE Unknown \/ PatternRefused
  BY <1>8 DEF Unknown, PatternRefused, LengthInv
<1>9. CASE UsageGiven \/ MissingOperand \/ Ping \/ UNCHANGED vars
  BY <1>9 DEF UsageGiven, MissingOperand, Ping, vars, LengthInv, Kept
<1> QED
  BY <1>1, <1>3, <1>4, <1>5, <1>6, <1>7, <1>8, <1>9 DEF Next

\* If all patterns of a command line are of one length (one -p, say), -p fills
\* the packet with the last of them, as the usage text says (ft_ping.c:17): only
\* a longer pattern after a shorter one is cut.
THEOREM PatternGivenOfOneLength ==
  ASSUME OneLength
  PROVE  Spec => []PatternGiven
<1>1. Init => PatternInv /\ LengthInv
  BY DEF Init, PatternInv, LengthInv
<1>2. TypeOK /\ LengthInv /\ [Next]_vars => LengthInv'
  BY LengthStep
<1>3. TypeOK /\ PatternInv /\ LengthInv => PatternGiven
  <2> SUFFICES ASSUME TypeOK, PatternInv, LengthInv, pc = "ping", args.patptr
               PROVE  Repeats(given, Kept(given))
    BY DEF PatternGiven, Kept
  <2>1. args.pattern_len = Kept(given)
    BY DEF PatternInv, LengthInv
  <2> QED
    BY <2>1, RepeatsRead
<1> QED
  BY <1>1, <1>2, <1>3, PatternStep, ArgsTypeCorrect, PTL DEF Spec
=============================================================================
