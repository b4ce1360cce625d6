------------------------- MODULE PingSessionProofs --------------------------
(***************************************************************************)
(* Proofs about PingSession, for any number of host operands.              *)
(*                                                                         *)
(* Ownership alone is not inductive: to know that releasing a pointer is   *)
(* right, one must know that it is no longer junk, and to know that taking *)
(* a name or a buffer loses nothing, that the old one is gone.  SessionInv *)
(* adds what is held at each place.                                        *)
(***************************************************************************)
EXTENDS PingSession, TLAPS

\* Which pointers are junk, null or blocks at each place of the code.
Held ==
  /\ pc \in {"setup", "init"} => \A r \in Session : ptr[r] = "junk"
  /\ pc \notin {"setup", "init", "free", "exit"} =>
       \A r \in Resources : ptr[r] # "junk"
  /\ pc = "setup" => ptr["data_buffer"] = "null"
  /\ ptr["data_buffer"] # "junk"
  /\ pc \in {"options", "hosts", "named", "run", "finish"} => ptr["ping_fd"] = "block"
  /\ pc \in {"named", "run", "finish"} => ptr["ping_hostname"] = "block"
  /\ pc = "hosts" => ptr["ping_hostname"] = "null"
  /\ pc \in {"options", "hosts", "named", "finish", "close"} =>
       ptr["ping_buffer"] = "null" /\ ptr["ping_cktab"] = "null"
  /\ pc = "options" => ptr["ping_hostname"] = "null"
  /\ pc = "free" => \A r \in Session : ptr[r] # "block"

SessionInv == TypeOK /\ Held /\ OwnedOnce /\ AllReleased

\* Releasing pointers that own what they point to leaves nothing of it.
LEMMA ClearKeepsOwners ==
  ASSUME NEW R \in SUBSET Resources, TypeOK, Clear(R),
         \A r \in Resources : ptr[r] # "junk",
         \A r \in Resources : live[r] = IF ptr[r] = "block" THEN 1 ELSE 0
  PROVE  /\ ptr' \in [Resources -> Pointers]
         /\ live' \in [Resources -> Int]
         /\ \A r \in Resources : live'[r] = IF ptr'[r] = "block" THEN 1 ELSE 0
         /\ \A r \in Resources : ptr'[r] = IF r \in R THEN "null" ELSE ptr[r]
BY DEF TypeOK, Clear, Released, Point, Pointers

\* Acquiring what was not held loses nothing.
LEMMA AcquireKeepsOwners ==
  ASSUME NEW R \in SUBSET Resources, TypeOK, Acquire(R),
         \A r \in R : ptr[r] = "null",
         \A r \in Resources : live[r] = IF ptr[r] = "block" THEN 1 ELSE 0
  PROVE  /\ ptr' \in [Resources -> Pointers]
         /\ live' \in [Resources -> Int]
         /\ \A r \in Resources : live'[r] = IF ptr'[r] = "block" THEN 1 ELSE 0
         /\ \A r \in Resources : ptr'[r] = IF r \in R THEN "block" ELSE ptr[r]
BY DEF TypeOK, Acquire, Acquired, Point, Pointers

LEMMA SessionInit == Init => SessionInv
BY SessionAssumption
   DEF Init, SessionInv, TypeOK, Held, OwnedOnce, AllReleased, Pointers,
       Resources, Session, RunData, HostIds

LEMMA SessionStep == SessionInv /\ [Next]_vars => SessionInv'
<1> SUFFICES ASSUME SessionInv, [Next]_vars PROVE SessionInv'
  OBVIOUS
<1> USE SessionAssumption
<1>0. /\ TypeOK
      /\ pc # "exit" => \A r \in Resources : live[r] = IF ptr[r] = "block" THEN 1 ELSE 0
      /\ pc \notin {"setup", "init", "free", "exit"} =>
           \A r \in Resources : ptr[r] # "junk"
  BY DEF SessionInv, OwnedOnce, Held
<1>r. /\ RunData \subseteq Session
      /\ Session \subseteq Resources
      /\ "data_buffer" \in Resources
      /\ "ping_fd" \in Session
      /\ "ping_hostname" \in Session
      /\ "ping_buffer" \in RunData
      /\ "ping_cktab" \in RunData
      /\ "data_buffer" \notin Session
      /\ "ping_fd" \notin RunData
      /\ "ping_hostname" \notin RunData
      /\ \A r \in Session : r \in {"ping_buffer", "ping_cktab", "ping_fd", "ping_hostname"}
      /\ \A r \in Resources : r \in Session \/ r = "data_buffer"
  BY DEF Resources, Session, RunData
<1>f. ASSUME EchoFailed, pc \in {"hosts", "named"}, host <= Hosts
      PROVE  /\ status' \subseteq {1, 2, 4}
             /\ outcome' \in [HostIds -> {"none", "answered", "silent", "failed"}]
             /\ pc' = "close" /\ host' = host
  BY <1>0, <1>f DEF EchoFailed, Join, TypeOK, HostIds
<1>1. CASE ArgsSetup
  <2>1. CASE pc' = "init" /\ UNCHANGED <<ptr, live, status>>
    BY <1>1, <2>1, <1>r DEF ArgsSetup, SessionInv, TypeOK, Held, OwnedOnce, AllReleased
  <2>2. CASE pc' = "init" /\ Acquire({"data_buffer"}) /\ UNCHANGED status
    <3>1. ptr["data_buffer"] = "null" /\ pc = "setup"
      BY <1>1 DEF ArgsSetup, SessionInv, Held
    <3>2. /\ ptr' \in [Resources -> Pointers] /\ live' \in [Resources -> Int]
          /\ \A r \in Resources : live'[r] = IF ptr'[r] = "block" THEN 1 ELSE 0
          /\ \A r \in Resources : ptr'[r] = IF r \in {"data_buffer"} THEN "block" ELSE ptr[r]
      BY <1>0, <1>r, <2>2, <3>1, AcquireKeepsOwners
    <3> QED
      BY <1>1, <2>2, <3>1, <3>2, <1>r DEF ArgsSetup, SessionInv, TypeOK, Held, OwnedOnce, AllReleased
  <2>3. CASE pc' = "free" /\ status' = {4} /\ UNCHANGED <<ptr, live>>
    BY <1>1, <2>3, <1>r DEF ArgsSetup, SessionInv, TypeOK, Held, OwnedOnce, AllReleased
  <2> QED
    BY <1>1, <2>1, <2>2, <2>3 DEF ArgsSetup
<1>2. CASE OpenSession
  <2>1. /\ \A r \in Session : ptr[r] = "junk" /\ live[r] = 0
        /\ ptr["data_buffer"] # "junk"
    BY <1>0, <1>2, <1>r DEF OpenSession, SessionInv, Held
  <2>2. ASSUME NEW opened \in BOOLEAN, PingInit(opened)
        PROVE  /\ ptr' \in [Resources -> Pointers] /\ live' \in [Resources -> Int]
               /\ \A r \in Resources : ptr'[r] # "junk"
               /\ \A r \in Resources : live'[r] = IF ptr'[r] = "block" THEN 1 ELSE 0
               /\ \A r \in RunData \cup {"ping_hostname"} : ptr'[r] = "null"
               /\ opened => ptr'["ping_fd"] = "block"
    <3>1. ptr' = [r \in Resources |-> IF r = "ping_fd" THEN IF opened THEN "block" ELSE "null"
                                      ELSE IF r \in Session THEN "null" ELSE ptr[r]]
      BY <2>2, <1>r DEF PingInit, SessionCleared, Point
    <3>2. live' = [r \in Resources |-> live[r] + IF opened /\ r = "ping_fd" THEN 1 ELSE 0]
      BY <2>2 DEF PingInit, Acquired
    <3> QED
      BY <1>0, <1>2, <1>r, <2>1, <3>1, <3>2 DEF TypeOK, Pointers, OpenSession
  <2>3. CASE PingInit(TRUE) /\ pc' = "options" /\ UNCHANGED status
    BY <1>0, <1>2, <1>r, <2>2, <2>3
       DEF OpenSession, SessionInv, TypeOK, Held, OwnedOnce, AllReleased
  <2>4. CASE PingInit(FALSE) /\ pc' = "close" /\ status' = {4}
    BY <1>0, <1>2, <1>r, <2>2, <2>4
       DEF OpenSession, SessionInv, TypeOK, Held, OwnedOnce, AllReleased
  <2> QED
    BY <1>2, <2>3, <2>4 DEF OpenSession
<1>3. CASE SetOptions
  BY <1>3 DEF SetOptions, SessionInv, TypeOK, Held, OwnedOnce, AllReleased
<1>4. CASE Resolve
  <2>1. ptr["ping_hostname"] = "null" /\ host <= Hosts
    BY <1>4 DEF Resolve, OperandLeft, SessionInv, Held
  <2>2. /\ ptr' \in [Resources -> Pointers] /\ live' \in [Resources -> Int]
        /\ \A r \in Resources : live'[r] = IF ptr'[r] = "block" THEN 1 ELSE 0
        /\ \A r \in Resources : ptr'[r] = IF r \in {"ping_hostname"} THEN "block" ELSE ptr[r]
    BY <1>0, <1>4, <1>r, <2>1, AcquireKeepsOwners DEF Resolve
  <2> QED
    BY <1>0, <1>4, <1>r, <2>1, <2>2 DEF Resolve, SessionInv, TypeOK, Held, OwnedOnce, AllReleased
<1>5. CASE UnknownHost
  <2>1. /\ ptr' \in [Resources -> Pointers] /\ live' \in [Resources -> Int]
        /\ \A r \in Resources : live'[r] = IF ptr'[r] = "block" THEN 1 ELSE 0
        /\ \A r \in Resources : ptr'[r] = IF r \in {"ping_hostname"} THEN "null" ELSE ptr[r]
    BY <1>0, <1>5, <1>r, ClearKeepsOwners DEF UnknownHost
  <2> QED
    BY <1>0, <1>5, <1>f, <1>r, <2>1
       DEF UnknownHost, OperandLeft, SessionInv, TypeOK, Held, OwnedOnce, AllReleased
<1>6. CASE NoName
  <2>1. ptr' = ptr
    BY <1>6, <1>0 DEF NoName, Point, SessionInv, Held, TypeOK
  <2> QED
    BY <1>0, <1>6, <1>f, <1>r, <2>1
       DEF NoName, OperandLeft, SessionInv, TypeOK, Held, OwnedOnce, AllReleased
<1>7. CASE OptionsRefused
  <2>1. /\ ptr' \in [Resources -> Pointers] /\ live' \in [Resources -> Int]
        /\ \A r \in Resources : live'[r] = IF ptr'[r] = "block" THEN 1 ELSE 0
        /\ \A r \in Resources : ptr'[r] = IF r \in {"ping_hostname"} THEN "null" ELSE ptr[r]
    BY <1>0, <1>7, <1>r, ClearKeepsOwners DEF OptionsRefused
  <2> QED
    BY <1>0, <1>7, <1>f, <1>r, <2>1
       DEF OptionsRefused, SessionInv, TypeOK, Held, OwnedOnce, AllReleased
<1>8. CASE EnterRun
  BY <1>8 DEF EnterRun, SessionInv, TypeOK, Held, OwnedOnce, AllReleased
<1>9. CASE Setbuf
  <2> PICK got \in SUBSET Missing : Acquire(got)
    BY <1>9 DEF Setbuf
  <2>1. got \subseteq Resources /\ \A r \in got : r \in RunData /\ ptr[r] = "null"
    BY <1>r DEF Missing
  <2>2. /\ ptr' \in [Resources -> Pointers] /\ live' \in [Resources -> Int]
        /\ \A r \in Resources : live'[r] = IF ptr'[r] = "block" THEN 1 ELSE 0
        /\ \A r \in Resources : ptr'[r] = IF r \in got THEN "block" ELSE ptr[r]
    BY <1>0, <1>9, <2>1, AcquireKeepsOwners DEF Setbuf
  <2> QED
    BY <1>0, <1>9, <1>r, <2>1, <2>2 DEF Setbuf, SessionInv, TypeOK, Held, OwnedOnce, AllReleased
<1>10. CASE RunEnds
  <2>1. /\ ptr' \in [Resources -> Pointers] /\ live' \in [Resources -> Int]
        /\ \A r \in Resources : live'[r] = IF ptr'[r] = "block" THEN 1 ELSE 0
        /\ \A r \in Resources : ptr'[r] = IF r \in RunData THEN "null" ELSE ptr[r]
    BY <1>0, <1>10, <1>r, ClearKeepsOwners DEF RunEnds, Unset
  <2> QED
    BY <1>0, <1>10, <1>r, <2>1 DEF RunEnds, SessionInv, TypeOK, Held, OwnedOnce, AllReleased
<1>11. CASE Finish
  <2>1. /\ ptr' \in [Resources -> Pointers] /\ live' \in [Resources -> Int]
        /\ \A r \in Resources : live'[r] = IF ptr'[r] = "block" THEN 1 ELSE 0
        /\ \A r \in Resources : ptr'[r] = IF r \in {"ping_hostname"} THEN "null" ELSE ptr[r]
    BY <1>0, <1>11, <1>r, ClearKeepsOwners DEF Finish
  <2>2. status' \subseteq {1, 2, 4} /\ host' \in 1 .. Hosts + 1
        /\ outcome' \in [HostIds -> {"none", "answered", "silent", "failed"}]
    BY <1>0, <1>11 DEF Finish, Join, TypeOK, HostIds
  <2> QED
    BY <1>0, <1>11, <1>r, <2>1, <2>2 DEF Finish, SessionInv, TypeOK, Held, OwnedOnce, AllReleased
<1>12. CASE NoOperandLeft
  BY <1>12 DEF NoOperandLeft, SessionInv, TypeOK, Held, OwnedOnce, AllReleased
<1>13. CASE DataTeardown
  <2> DEFINE R == Unset \cup {"ping_fd", "ping_hostname"}
  <2>1. R \subseteq Resources /\ Session \subseteq R
    BY <1>r DEF Unset
  <2>2. /\ ptr' \in [Resources -> Pointers] /\ live' \in [Resources -> Int]
        /\ \A r \in Resources : live'[r] = IF ptr'[r] = "block" THEN 1 ELSE 0
        /\ \A r \in Resources : ptr'[r] = IF r \in R THEN "null" ELSE ptr[r]
    <3> HIDE DEF R
    <3> QED
      BY <1>0, <1>13, <2>1, ClearKeepsOwners DEF DataTeardown, R
  <2> QED
    BY <1>0, <1>13, <1>r, <2>1, <2>2 DEF DataTeardown, SessionInv, TypeOK, Held, OwnedOnce, AllReleased
<1>14. CASE ArgsTeardown
  <2>1. \A r \in Session : live[r] = 0
    BY <1>0, <1>14, <1>r DEF ArgsTeardown, SessionInv, Held
  <2>2. live' = [r \in Resources |-> live[r] - IF r = "data_buffer" /\ ptr[r] # "null" THEN 1 ELSE 0]
    BY <1>14 DEF ArgsTeardown, Released
  <2>3. ptr["data_buffer"] \in {"null", "block"}
    BY <1>0, <1>r DEF SessionInv, Held, TypeOK, Pointers
  <2>4. \A r \in Resources : live'[r] = 0
    BY <1>0, <1>14, <1>r, <2>1, <2>2, <2>3 DEF ArgsTeardown
  <2>5. live' \in [Resources -> Int]
    BY <1>0, <2>2 DEF TypeOK
  <2> QED
    BY <1>0, <1>14, <1>r, <2>4, <2>5 DEF ArgsTeardown, SessionInv, TypeOK, Held, OwnedOnce, AllReleased
<1>15. CASE UNCHANGED vars
  BY <1>15 DEF vars, SessionInv, TypeOK, Held, OwnedOnce, AllReleased
<1> QED
  BY <1>1, <1>2, <1>3, <1>4, <1>5, <1>6, <1>7, <1>8, <1>9, <1>10, <1>11, <1>12,
     <1>13, <1>14, <1>15 DEF Next, Echo, Exited

\* Types and the loop over the operands.
THEOREM SessionTypeCorrect == Spec => []TypeOK
<1>1. SessionInv => TypeOK
  BY DEF SessionInv
<1> QED
  BY <1>1, SessionInit, SessionStep, PTL DEF Spec

\* ft_ping releases nothing twice and loses nothing, on any path.
THEOREM OwnedOnceHolds == Spec => []OwnedOnce
<1>1. SessionInv => OwnedOnce
  BY DEF SessionInv
<1> QED
  BY <1>1, SessionInit, SessionStep, PTL DEF Spec

\* When main returns, all that was acquired has been released.
THEOREM AllReleasedHolds == Spec => []AllReleased
<1>1. SessionInv => AllReleased
  BY DEF SessionInv
<1> QED
  BY <1>1, SessionInit, SessionStep, PTL DEF Spec

\* A host that is pinged has its name and the socket; the next host starts
\* with no buffer, table or name.
THEOREM HeldByHostHolds == Spec => []HeldByHost
<1>1. SessionInv => HeldByHost
  BY DEF SessionInv, Held, HeldByHost, Session, RunData
<1> QED
  BY <1>1, SessionInit, SessionStep, PTL DEF Spec

-----------------------------------------------------------------------------
(* The exit status.                                                        *)

\* What ExitTells says of the end, from the moment the loop was left.
Verdict ==
  /\ status = {} <=> \A h \in HostIds : outcome[h] = "answered"
  /\ \A h \in HostIds :
       outcome[h] \in {"failed", "none"} =>
         \A k \in h + 1 .. Hosts : outcome[k] = "none"

\* The status and the operands tried agree before, in and after the loop.
Told ==
  /\ pc \in {"setup", "init", "options"} =>
       status = {} /\ host = 1 /\ \A h \in HostIds : outcome[h] = "none"
  /\ pc \in {"hosts", "named", "run", "finish"} =>
       /\ \A h \in HostIds : IF h < host THEN outcome[h] \in {"answered", "silent"}
                                         ELSE outcome[h] = "none"
       /\ status = {} <=> \A h \in HostIds : h < host => outcome[h] = "answered"
  /\ pc \in {"close", "free", "exit"} => Verdict

LEMMA ToldStep == TypeOK /\ Told /\ [Next]_vars => Told'
<1> SUFFICES ASSUME TypeOK, Told, [Next]_vars PROVE Told'
  OBVIOUS
<1> USE SessionAssumption
<1>1. ASSUME status' = {4}, UNCHANGED <<host, outcome>>,
             pc \in {"setup", "init", "options"}, pc' \in {"close", "free"}
      PROVE  Told'
  BY <1>1 DEF Told, Verdict, HostIds, TypeOK
<1>2. CASE ArgsSetup \/ OpenSession \/ SetOptions
  <2>1. CASE status' = {4} /\ pc' \in {"close", "free"}
    BY <1>1, <1>2, <2>1 DEF ArgsSetup, OpenSession, SetOptions
  <2>2. CASE status' = status /\ pc' \in {"init", "options", "hosts"}
    <3>1. /\ UNCHANGED <<status, host, outcome>> /\ status = {} /\ host = 1
          /\ \A h \in HostIds : outcome[h] = "none" /\ ~(h < host)
      <4>1. UNCHANGED <<host, outcome>> /\ pc \in {"setup", "init", "options"}
        BY <1>2 DEF ArgsSetup, OpenSession, SetOptions
      <4> QED
        BY <2>2, <4>1 DEF Told, HostIds
    <3>2. /\ status' = {} /\ host' = 1
          /\ \A h \in HostIds : outcome'[h] = "none" /\ ~(h < host')
      BY <3>1
    <3>3. \A h \in HostIds : IF h < host' THEN outcome'[h] \in {"answered", "silent"}
                                          ELSE outcome'[h] = "none"
      BY <3>2
    <3>4. status' = {} <=> \A h \in HostIds : h < host' => outcome'[h] = "answered"
      BY <3>2
    <3> QED
      BY <2>2, <3>2, <3>3, <3>4 DEF Told
  <2> QED
    BY <1>2, <2>1, <2>2 DEF ArgsSetup, OpenSession, SetOptions
<1>3. CASE UnknownHost \/ NoName \/ OptionsRefused
  <2>1. EchoFailed /\ pc \in {"hosts", "named"} /\ host <= Hosts
    BY <1>3 DEF UnknownHost, NoName, OptionsRefused, OperandLeft, TypeOK
  <2>2. 2 \in status' /\ pc' = "close"
    BY <2>1 DEF EchoFailed, Join
  <2>3. host \in HostIds /\ outcome'[host] = "failed"
    BY <2>1 DEF EchoFailed, TypeOK, HostIds
  <2>4. \A h \in HostIds \ {host} : outcome'[h] = outcome[h]
    BY <2>1 DEF EchoFailed, TypeOK, HostIds
  <2> QED
    BY <2>1, <2>2, <2>3, <2>4 DEF Told, Verdict, HostIds, TypeOK
<1>4. CASE Finish
  <2> PICK answered \in BOOLEAN :
        /\ status' = Join(IF answered THEN {} ELSE {1})
        /\ outcome' = [outcome EXCEPT ![host] = IF answered THEN "answered" ELSE "silent"]
    BY <1>4 DEF Finish
  <2>1. /\ host \in HostIds /\ host' = host + 1 /\ pc' = "hosts" /\ pc = "finish"
        /\ outcome'[host] = IF answered THEN "answered" ELSE "silent"
        /\ \A h \in HostIds \ {host} : outcome'[h] = outcome[h]
    BY <1>4 DEF Finish, TypeOK, HostIds
  <2>2. status' = {} <=> status = {} /\ answered
    BY DEF Join
  <2> QED
    <3>1. /\ \A h \in HostIds : h < host => outcome[h] \in {"answered", "silent"}
          /\ \A h \in HostIds : h > host => outcome[h] = "none"
          /\ status = {} <=> \A h \in HostIds : h < host => outcome[h] = "answered"
      BY <2>1 DEF Told, HostIds, TypeOK
    <3>2. \A h \in HostIds : h < host' <=> h < host \/ h = host
      BY <2>1 DEF HostIds, TypeOK
    <3>3. \A h \in HostIds : IF h < host' THEN outcome'[h] \in {"answered", "silent"}
                                          ELSE outcome'[h] = "none"
      BY <2>1, <3>1, <3>2 DEF HostIds, TypeOK
    <3>4. status' = {} <=> \A h \in HostIds : h < host' => outcome'[h] = "answered"
      BY <2>1, <2>2, <3>1, <3>2 DEF HostIds
    <3> QED
      BY <2>1, <3>3, <3>4 DEF Told
<1>5. CASE NoOperandLeft
  BY <1>5 DEF NoOperandLeft, OperandLeft, Told, Verdict, HostIds, TypeOK
<1>6. CASE Resolve \/ EnterRun \/ Setbuf \/ RunEnds
  BY <1>6 DEF Resolve, EnterRun, Setbuf, RunEnds, Told
<1>7. CASE DataTeardown \/ ArgsTeardown \/ UNCHANGED vars
  BY <1>7 DEF DataTeardown, ArgsTeardown, vars, Told, Verdict
<1> QED
  BY <1>2, <1>3, <1>4, <1>5, <1>6, <1>7 DEF Next, Echo, Exited

\* The exit status is 0 exactly if every operand was pinged and answered.
THEOREM ExitTellsHolds == Spec => []ExitTells
<1>1. Init => Told
  BY SessionAssumption DEF Init, Told, HostIds
<1>2. Told => ExitTells
  BY DEF Told, Verdict, ExitTells
<1> QED
  BY <1>1, <1>2, ToldStep, SessionTypeCorrect, PTL DEF Spec

=============================================================================
