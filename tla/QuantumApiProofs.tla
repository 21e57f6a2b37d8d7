--------------------------- MODULE QuantumApiProofs ---------------------------
(***************************************************************************)
(* Theorems about QuantumApi, for every set of clients and every cap.      *)
(***************************************************************************)
EXTENDS QuantumApi, Induction, FiniteSetTheorems, SequenceTheorems, TLAPS

\* How far main has come is what it may rely on.
MainKnows ==
  /\ exitCode # "none" <=> main = "exited"
  /\ main = "draining" => stopping
  /\ main = "waiting" => stopping /\ InFlight = {}
  /\ exitCode = "0" => stopping /\ InFlight = {} /\ server = "done"

IInv == TypeOK /\ SlotsMatch /\ MainKnows

LEMMA DeviceFinite == IsFiniteSet(AtDevice) /\ Cardinality(AtDevice) \in Nat
<1>1. IsFiniteSet(Clients) /\ AtDevice \subseteq Clients
  BY ApiAssumption DEF ApiAssumption, AtDevice
<1>2. IsFiniteSet(AtDevice)
  BY <1>1, FS_Subset
<1> QED BY <1>2, FS_CardinalityType

LEMMA InitApi == Init => IInv
<1> SUFFICES ASSUME Init PROVE IInv
  OBVIOUS
<1>1. TypeOK
  <2>1. maxConcurrentLfd \in Nat \ {0}
    BY ApiAssumption DEF ApiAssumption
  <2>2. /\ client \in [Clients -> Ended \cup {"queued", "fetching", "mixing"}]
        /\ quantum \in [Clients -> Lengths \cup {0}]
    BY DEF Init, Ended
  <2>3. slots \in 0..maxConcurrentLfd /\ waiters \in Seq(Clients)
    BY <2>1 DEF Init
  <2>4. /\ main \in {"selecting", "draining", "waiting", "exited"}
        /\ server \in {"starting", "binding", "serving", "failed", "done"}
        /\ quit \in 0..1 /\ srvErr \in 0..1
        /\ exitCode \in {"none", "0", "1"}
    BY DEF Init
  <2>5. stopping \in BOOLEAN
    BY DEF Init
  <2> QED BY <2>2, <2>3, <2>4, <2>5 DEF TypeOK
<1>2. AtDevice = {} /\ InFlight = {}
  BY DEF Init, AtDevice, InFlight, Ended
<1>3. Cardinality(AtDevice) = 0
  BY <1>2, FS_EmptySet
<1>4. SlotsMatch
  BY <1>3, ApiAssumption DEF Init, SlotsMatch, IsInjective, ApiAssumption
<1>5. MainKnows
  BY DEF Init, MainKnows
<1> QED BY <1>1, <1>4, <1>5 DEF IInv

\* What the semaphore promises depends on the requests alone.
LEMMA SameRequests ==
  ASSUME SlotsMatch, client' = client, slots' = slots, waiters' = waiters
  PROVE  SlotsMatch' /\ InFlight' = InFlight
<1>1. AtDevice' = AtDevice /\ InFlight' = InFlight
  BY DEF AtDevice, InFlight
<1> QED BY <1>1 DEF SlotsMatch

\* A request that moves neither to nor from the semaphore.
LEMMA AwayFromDevice ==
  ASSUME TypeOK, SlotsMatch, NEW c \in Clients, NEW next \in Ended,
         client[c] \in Ended \cup {"mixing"},
         client' = [client EXCEPT ![c] = next], UNCHANGED <<slots, waiters>>
  PROVE  SlotsMatch'
<1>1. \A d \in Clients : /\ client'[d] = "fetching" <=> client[d] = "fetching"
                         /\ client'[d] = "queued" <=> client[d] = "queued"
  BY DEF TypeOK, Ended
<1>2. AtDevice' = AtDevice
  BY <1>1 DEF AtDevice
<1> QED BY <1>1, <1>2 DEF SlotsMatch

LEMMA RequestKeepsSlots ==
  ASSUME TypeOK, SlotsMatch, NEW c \in Clients, Request(c)
  PROVE  SlotsMatch' /\ slots' \in 0..maxConcurrentLfd /\ waiters' \in Seq(Clients)
<1>0. maxConcurrentLfd \in Nat \ {0} /\ client[c] \in Ended
  BY ApiAssumption DEF ApiAssumption, Request
<1>1. CASE slots < maxConcurrentLfd
  <2>1. /\ slots' = slots + 1 /\ waiters' = waiters
        /\ client' = [client EXCEPT ![c] = "fetching"]
    BY <1>1 DEF Request
  <2>2. c \notin AtDevice /\ AtDevice' = AtDevice \cup {c}
    BY <1>0, <2>1 DEF AtDevice, TypeOK, Ended
  <2>3. Cardinality(AtDevice') = Cardinality(AtDevice) + 1
    BY <2>2, DeviceFinite, FS_AddElement
  <2>4. waiters = <<>>
    BY <1>0, <1>1 DEF SlotsMatch, TypeOK
  <2>5. \A d \in Clients : client'[d] = "queued" <=> client[d] = "queued"
    BY <1>0, <2>1 DEF TypeOK, Ended
  <2>6. slots' \in 0..maxConcurrentLfd
    BY <1>0, <1>1, <2>1 DEF TypeOK
  <2>7. SlotsMatch'
    BY <2>1, <2>3, <2>4, <2>5, <2>6 DEF SlotsMatch, TypeOK
  <2> QED BY <2>1, <2>6, <2>7 DEF TypeOK
<1>2. CASE ~(slots < maxConcurrentLfd)
  <2>1. /\ slots' = slots /\ waiters' = Append(waiters, c)
        /\ client' = [client EXCEPT ![c] = "queued"]
    BY <1>2 DEF Request
  <2>2. AtDevice' = AtDevice
    BY <1>0, <2>1 DEF AtDevice, TypeOK, Ended
  <2>3. slots = maxConcurrentLfd
    BY <1>0, <1>2 DEF TypeOK
  <2>4. waiters \in Seq(Clients) /\ ~\E i \in DOMAIN waiters : waiters[i] = c
    BY <1>0 DEF TypeOK, SlotsMatch, Ended
  <2>5. /\ DOMAIN waiters' = DOMAIN waiters \cup {Len(waiters) + 1}
        /\ \A i \in DOMAIN waiters : waiters'[i] = waiters[i]
        /\ waiters'[Len(waiters) + 1] = c
        /\ waiters' \in Seq(Clients)
    BY <2>1, <2>4
  <2>6. \A d \in Clients : client'[d] = "queued" <=> client[d] = "queued" \/ d = c
    BY <2>1 DEF TypeOK
  <2>7. \A d \in Clients : client'[d] = "queued" <=> \E i \in DOMAIN waiters' : waiters'[i] = d
    BY <2>5, <2>6 DEF SlotsMatch
  <2>8. IsInjective(waiters')
    BY <2>4, <2>5 DEF SlotsMatch, IsInjective
  <2>9. SlotsMatch'
    BY <2>1, <2>2, <2>3, <2>7, <2>8 DEF SlotsMatch
  <2> QED BY <2>1, <2>5, <2>9 DEF TypeOK
<1> QED BY <1>1, <1>2

\* A place that is given up is free, or goes to the first who waits.
LEMMA LeaveKeepsSlots ==
  ASSUME TypeOK, SlotsMatch, NEW c \in Clients, NEW next \in Ended \cup {"mixing"},
         client[c] = "fetching", LeaveDevice(c, next)
  PROVE  /\ SlotsMatch' /\ slots' \in 0..maxConcurrentLfd /\ waiters' \in Seq(Clients)
         /\ client' \in [Clients -> Ended \cup {"queued", "fetching", "mixing"}]
<1>0. maxConcurrentLfd \in Nat \ {0} /\ c \in AtDevice
  BY ApiAssumption DEF ApiAssumption, AtDevice
<1>1. CASE waiters = <<>>
  <2>1. slots' = slots - 1 /\ waiters' = waiters /\ client' = [client EXCEPT ![c] = next]
    BY <1>1 DEF LeaveDevice
  <2>2. AtDevice' = AtDevice \ {c}
    BY <2>1 DEF AtDevice, TypeOK, Ended
  <2>3. Cardinality(AtDevice') = Cardinality(AtDevice) - 1
    BY <1>0, <2>2, DeviceFinite, FS_RemoveElement
  <2>4. Cardinality(AtDevice') \in Nat
    <3>1. IsFiniteSet(AtDevice')
      BY <2>2, DeviceFinite, FS_RemoveElement
    <3> QED BY <3>1, FS_CardinalityType
  <2>5. \A d \in Clients : client'[d] = "queued" <=> client[d] = "queued"
    BY <2>1 DEF TypeOK, Ended
  <2>6. slots' = Cardinality(AtDevice') /\ slots' \in 0..maxConcurrentLfd
    BY <1>0, <2>1, <2>3, <2>4 DEF TypeOK, SlotsMatch
  <2>7. SlotsMatch'
    BY <1>0, <1>1, <2>1, <2>5, <2>6 DEF SlotsMatch
  <2>8. client' \in [Clients -> Ended \cup {"queued", "fetching", "mixing"}]
    BY <2>1 DEF TypeOK
  <2> QED BY <2>1, <2>6, <2>7, <2>8 DEF TypeOK
<1>2. CASE waiters # <<>>
  <2> DEFINE first == Head(waiters)
  <2>1. /\ slots' = slots /\ waiters' = Tail(waiters)
        /\ client' = [client EXCEPT ![c] = next, ![first] = "fetching"]
    BY <1>2 DEF LeaveDevice
  <2>2. /\ waiters \in Seq(Clients) /\ Len(waiters) > 0 /\ 1 \in DOMAIN waiters
        /\ first = waiters[1] /\ first \in Clients
    BY <1>2 DEF TypeOK
  <2>3. client[first] = "queued" /\ first # c
    BY <2>2 DEF SlotsMatch
  <2>4. AtDevice' = (AtDevice \ {c}) \cup {first}
    BY <2>1, <2>2, <2>3 DEF AtDevice, TypeOK, Ended
  <2>5. first \notin AtDevice \ {c}
    BY <2>3 DEF AtDevice
  <2>6. Cardinality(AtDevice') = Cardinality(AtDevice)
    <3>1. /\ IsFiniteSet(AtDevice \ {c})
          /\ Cardinality(AtDevice \ {c}) = Cardinality(AtDevice) - 1
      BY <1>0, DeviceFinite, FS_RemoveElement
    <3>2. Cardinality(AtDevice') = Cardinality(AtDevice \ {c}) + 1
      BY <2>4, <2>5, <3>1, FS_AddElement
    <3> QED BY <3>1, <3>2, DeviceFinite
  <2>7. /\ waiters' \in Seq(Clients)
        /\ DOMAIN waiters' = 1..(Len(waiters) - 1)
        /\ \A i \in 1..(Len(waiters) - 1) : waiters'[i] = waiters[i + 1]
    BY <2>1, <2>2
  <2>8. IsInjective(waiters')
    BY <2>2, <2>7 DEF SlotsMatch, IsInjective
  <2>9. \A d \in Clients : client'[d] = "queued" <=> client[d] = "queued" /\ d # first
    BY <2>1, <2>2 DEF TypeOK, Ended
  <2>10. \A d \in Clients : client'[d] = "queued" <=> \E i \in DOMAIN waiters' : waiters'[i] = d
    <3>1. ASSUME NEW d \in Clients, client'[d] = "queued"
          PROVE  \E i \in DOMAIN waiters' : waiters'[i] = d
      <4>1. client[d] = "queued" /\ d # first
        BY <2>9, <3>1
      <4>2. PICK i \in DOMAIN waiters : waiters[i] = d
        BY <4>1 DEF SlotsMatch
      <4>3. i - 1 \in 1..(Len(waiters) - 1)
        BY <2>2, <4>1, <4>2
      <4> QED BY <2>7, <4>2, <4>3
    <3>2. ASSUME NEW d \in Clients, NEW i \in DOMAIN waiters', waiters'[i] = d
          PROVE  client'[d] = "queued"
      <4>1. i + 1 \in DOMAIN waiters /\ waiters[i + 1] = d /\ i + 1 # 1
        BY <2>2, <2>7, <3>2
      <4>2. d # first
        BY <2>2, <4>1 DEF SlotsMatch, IsInjective
      <4>3. client[d] = "queued"
        BY <4>1 DEF SlotsMatch
      <4> QED BY <2>9, <4>2, <4>3
    <3> QED BY <3>1, <3>2
  <2>11. SlotsMatch'
    BY <1>2, <2>1, <2>6, <2>8, <2>10 DEF SlotsMatch
  <2>12. client' \in [Clients -> Ended \cup {"queued", "fetching", "mixing"}]
    BY <2>1, <2>2 DEF TypeOK
  <2> QED BY <2>1, <2>7, <2>11, <2>12 DEF TypeOK
<1> QED BY <1>1, <1>2

LEMMA FetchKeeps ==
  ASSUME IInv, NEW c \in Clients,
         FetchFails(c) \/ FetchPure(c) \/ \E length \in Lengths : FetchToMix(c, length)
  PROVE  IInv'
<1>1. PICK next \in Ended \cup {"mixing"} : LeaveDevice(c, next)
  BY DEF FetchFails, FetchPure, FetchToMix, Ended
<1>2. /\ client[c] = "fetching" /\ main # "exited" /\ UNCHANGED processVars
      /\ quantum' \in [Clients -> Lengths \cup {0}]
  BY DEF FetchFails, FetchPure, FetchToMix, Running, IInv, TypeOK
<1>3. /\ SlotsMatch' /\ slots' \in 0..maxConcurrentLfd /\ waiters' \in Seq(Clients)
      /\ client' \in [Clients -> Ended \cup {"queued", "fetching", "mixing"}]
  BY <1>1, <1>2, LeaveKeepsSlots DEF IInv
<1>4. TypeOK'
  BY <1>2, <1>3 DEF IInv, TypeOK, processVars
<1>5. c \in InFlight
  BY <1>2 DEF InFlight, Ended
<1>6. MainKnows'
  BY <1>2, <1>5 DEF IInv, MainKnows, processVars
<1> QED BY <1>3, <1>4, <1>6 DEF IInv

LEMMA ArrivalKeeps ==
  ASSUME IInv, NEW c \in Clients, BadCount(c) \/ Request(c)
  PROVE  IInv'
<1>1. /\ client[c] \in Ended /\ main # "exited" /\ ~stopping
      /\ UNCHANGED <<quantum, processVars>>
  BY DEF BadCount, Request, Running, Accepting
<1>2. /\ SlotsMatch' /\ slots' \in 0..maxConcurrentLfd /\ waiters' \in Seq(Clients)
  <2>1. CASE Request(c)
    BY <2>1, RequestKeepsSlots DEF IInv
  <2>2. CASE BadCount(c)
    <3>1. client' = [client EXCEPT ![c] = "400"] /\ UNCHANGED <<slots, waiters>>
      BY <2>2 DEF BadCount
    <3>2. SlotsMatch'
      BY <1>1, <3>1, AwayFromDevice DEF IInv, Ended
    <3> QED BY <3>1, <3>2 DEF IInv, TypeOK
  <2> QED BY <2>1, <2>2
<1>3. client' \in [Clients -> Ended \cup {"queued", "fetching", "mixing"}]
  BY DEF BadCount, Request, IInv, TypeOK, Ended
<1>4. TypeOK'
  BY <1>1, <1>2, <1>3 DEF IInv, TypeOK, processVars
<1>5. MainKnows'
  BY <1>1 DEF IInv, MainKnows, processVars
<1> QED BY <1>2, <1>4, <1>5 DEF IInv

LEMMA MixKeeps ==
  ASSUME IInv, NEW c \in Clients, Mix(c)
  PROVE  IInv'
<1>1. PICK status \in {"200", "500"} : client' = [client EXCEPT ![c] = status]
  BY DEF Mix
<1>2. /\ client[c] = "mixing" /\ main # "exited" /\ UNCHANGED <<slots, waiters, processVars>>
      /\ quantum' = [quantum EXCEPT ![c] = 0]
  BY DEF Mix, Running
<1>3. SlotsMatch'
  BY <1>1, <1>2, AwayFromDevice DEF IInv, Ended
<1>4. TypeOK'
  <2>1. client' \in [Clients -> Ended \cup {"queued", "fetching", "mixing"}]
    BY <1>1 DEF IInv, TypeOK, Ended
  <2>2. quantum' \in [Clients -> Lengths \cup {0}]
    BY <1>2 DEF IInv, TypeOK
  <2> QED BY <1>2, <2>1, <2>2 DEF IInv, TypeOK, processVars
<1>5. c \in InFlight
  BY <1>2 DEF InFlight, Ended
<1>6. MainKnows'
  BY <1>2, <1>5 DEF IInv, MainKnows, processVars
<1> QED BY <1>3, <1>4, <1>6 DEF IInv

LEMMA ProcessKeeps ==
  ASSUME IInv, Signal \/ ServerStep \/ MainStep
  PROVE  IInv'
<1>1. UNCHANGED requestVars
  BY DEF Signal, ServerStep, MainStep, Listen, Serve, ServerFails, ReportFailure,
         ServerCloses, ExitOnFailure, Shutdown, Drained, Deadline, WaitForServer
<1>2. SlotsMatch' /\ InFlight' = InFlight
  BY <1>1, SameRequests DEF IInv, requestVars
<1>3. CASE Signal
  BY <1>1, <1>2, <1>3 DEF Signal, IInv, TypeOK, MainKnows, requestVars
<1>4. CASE ServerStep
  <2>1. /\ UNCHANGED <<main, stopping, quit, exitCode>> /\ main # "exited"
        /\ srvErr' \in 0..1
        /\ server' \in {"starting", "binding", "serving", "failed", "done"}
    BY <1>4 DEF ServerStep, Listen, Serve, ServerFails, ReportFailure, ServerCloses,
                Running, IInv, TypeOK
  <2> QED BY <1>1, <1>2, <2>1 DEF IInv, TypeOK, MainKnows, requestVars
<1>5. CASE MainStep
  <2>1. TypeOK'
    <3>1. /\ main' \in {"selecting", "draining", "waiting", "exited"}
          /\ exitCode' \in {"none", "0", "1"}
          /\ server' = server
      BY <1>5 DEF MainStep, ExitOnFailure, Shutdown, Drained, Deadline, WaitForServer,
                  Exit, IInv, TypeOK
    <3>2. quit' \in 0..1 /\ srvErr' \in 0..1
      BY <1>5 DEF MainStep, ExitOnFailure, Shutdown, Drained, Deadline, WaitForServer,
                  IInv, TypeOK
    <3>3. stopping' \in BOOLEAN
      BY <1>5, Zenon DEF MainStep, ExitOnFailure, Shutdown, Drained, Deadline,
                         WaitForServer, IInv, TypeOK
    <3> QED BY <1>1, <3>1, <3>2, <3>3 DEF IInv, TypeOK, requestVars
  <2>2. MainKnows'
    BY <1>2, <1>5 DEF MainStep, ExitOnFailure, Shutdown, Drained, Deadline, WaitForServer,
                      Exit, IInv, TypeOK, MainKnows
  <2> QED BY <1>2, <2>1, <2>2 DEF IInv
<1> QED BY <1>3, <1>4, <1>5

LEMMA ApiStep == IInv /\ [Next]_vars => IInv'
<1> SUFFICES ASSUME IInv, [Next]_vars PROVE IInv'
  OBVIOUS
<1>1. ASSUME NEW c \in Clients, BadCount(c) \/ Request(c) PROVE IInv'
  BY <1>1, ArrivalKeeps
<1>2. ASSUME NEW c \in Clients, RequestStep(c) PROVE IInv'
  BY <1>2, FetchKeeps, MixKeeps DEF RequestStep
<1>3. CASE Signal \/ ServerStep \/ MainStep
  BY <1>3, ProcessKeeps
<1>4. CASE UNCHANGED vars
  <2>1. SlotsMatch' /\ InFlight' = InFlight
    BY <1>4, SameRequests DEF IInv, vars, requestVars
  <2> QED BY <1>4, <2>1 DEF IInv, TypeOK, MainKnows, vars, requestVars, processVars
<1> QED BY <1>1, <1>2, <1>3, <1>4 DEF Next

\* The inductive invariant of the process holds always.
THEOREM Invariance == Spec => []IInv
<1> QED BY InitApi, ApiStep, PTL DEF Spec

\* The variables keep their types, whatever arrives, fails or stops.
THEOREM TypeCorrect == Spec => []TypeOK
<1>1. IInv => TypeOK
  BY DEF IInv
<1> QED BY <1>1, Invariance, PTL

\* The semaphore of FetchRandomBytes never lets more than its cap to the device, never
\* loses a place on any return, and lets nobody wait while there is one.
THEOREM SemaphoreCounts == Spec => []SlotsMatch
<1>1. IInv => SlotsMatch
  BY DEF IInv
<1> QED BY <1>1, Invariance, PTL

\* Exit code 0 means that no request was cut off and the server goroutine is done.
THEOREM ExitsClean == Spec => []CleanExit
<1>1. IInv => CleanExit
  <2> SUFFICES ASSUME IInv, exitCode = "0" PROVE CleanExit
    BY DEF CleanExit
  <2>1. InFlight = {} /\ server = "done"
    BY DEF IInv, MainKnows
  <2>2. \A c \in Clients : client[c] # "queued" /\ client[c] # "fetching"
    BY <2>1 DEF InFlight, Ended
  <2>3. AtDevice = {}
    BY <2>2 DEF AtDevice
  <2>4. slots = 0
    BY <2>3, FS_EmptySet DEF IInv, SlotsMatch
  <2>5. waiters = <<>>
    <3>1. waiters \in Seq(Clients) /\ \A i \in DOMAIN waiters : waiters[i] \in Clients
      BY DEF IInv, TypeOK
    <3>2. DOMAIN waiters = {}
      BY <2>2, <3>1 DEF IInv, SlotsMatch
    <3> QED BY <3>1, <3>2
  <2> QED BY <2>1, <2>4, <2>5 DEF CleanExit
<1> QED BY <1>1, Invariance, PTL

-----------------------------------------------------------------------------
(* The keystream, for answers of every length: an induction over the turns *)
(* of the loop that appends its blocks.                                    *)

Pads == Nat \X (1..BlockBytes)

\* What a turn of the loop appends.
Piece(length, turns, stream) ==
  IF length - Len(stream) < BlockBytes
  THEN SubSeq(Block(turns - 1), 1, length - Len(stream))
  ELSE Block(turns - 1)

\* A turn appends pads of its own counter, no more than are asked for.
LEMMA PieceIsPads ==
  ASSUME NEW length \in Nat, NEW turns \in 1..length, NEW stream \in Seq(Pads),
         Len(stream) <= length
  PROVE  LET piece == Piece(length, turns, stream)
         IN  /\ piece \in Seq(Pads)
             /\ Len(stream) + Len(piece) <= length
             /\ Len(stream) < length => Len(piece) > 0
             /\ \A i \in 1..Len(piece) : piece[i] = <<turns - 1, i>>
<1> DEFINE B == BlockBytes
           block == Block(turns - 1)
           r == length - Len(stream)
<1>1. B \in Nat \ {0}
  BY ApiAssumption DEF ApiAssumption
<1>2. /\ block = [i \in 1..B |-> <<turns - 1, i>>]
      /\ turns - 1 \in Nat
  BY DEF Block
<1>3. block \in Seq(Pads) /\ Len(block) = B
  BY <1>1, <1>2 DEF Pads
<1>4. r \in Nat
  OBVIOUS
<1>5. CASE r < B
  <2>1. Piece(length, turns, stream) = SubSeq(block, 1, r)
    BY <1>5 DEF Piece
  <2>2. \A i \in 1..r : block[i] = <<turns - 1, i>> /\ block[i] \in Pads
    BY <1>1, <1>2, <1>4, <1>5 DEF Pads
  <2> HIDE DEF block, r, Pads
  <2>3. /\ SubSeq(block, 1, r) \in Seq(Pads)
        /\ Len(SubSeq(block, 1, r)) = r
        /\ \A i \in 1..r : SubSeq(block, 1, r)[i] = block[i]
    BY <1>4, <2>2
  <2> QED BY <1>4, <2>1, <2>2, <2>3 DEF r
<1>6. CASE ~ (r < B)
  <2>1. Piece(length, turns, stream) = block
    BY <1>6 DEF Piece
  <2> QED BY <1>1, <1>2, <1>3, <1>4, <1>6, <2>1
<1> QED BY <1>5, <1>6

\* The streams that turns of the loop leave: of the counters so far, no pad twice, and
\* at least one byte per turn until there are enough.
Stream(length, turns) ==
  {s \in Seq(Pads) : /\ Len(s) <= length
                     /\ Len(s) >= turns \/ Len(s) = length
                     /\ \A i \in 1..Len(s) : s[i][1] < turns
                     /\ \A i, j \in 1..Len(s) : s[i] = s[j] => i = j}

\* A turn extends a stream without repeating a pad.
LEMMA TurnExtends ==
  ASSUME NEW length \in Nat, NEW turns \in 1..length, NEW s \in Stream(length, turns - 1)
  PROVE  s \o Piece(length, turns, s) \in Stream(length, turns)
<1> DEFINE p == Piece(length, turns, s)
           t == s \o p
<1>1. s \in Seq(Pads) /\ Len(s) <= length /\ Len(s) \in Nat
  BY DEF Stream
<1>2. /\ p \in Seq(Pads)
      /\ Len(s) + Len(p) <= length
      /\ Len(s) < length => Len(p) > 0
      /\ \A i \in 1..Len(p) : p[i] = <<turns - 1, i>>
  BY <1>1, PieceIsPads
<1> HIDE DEF p
<1>3. /\ t \in Seq(Pads) /\ Len(t) = Len(s) + Len(p) /\ Len(p) \in Nat
      /\ \A i \in 1..Len(s) : t[i] = s[i]
      /\ \A i \in 1..Len(t) : i > Len(s) => i - Len(s) \in 1..Len(p) /\ t[i] = p[i - Len(s)]
  BY <1>1, <1>2
<1>4. \A i \in 1..Len(s) : s[i][1] < turns - 1
  BY DEF Stream
<1>5. \A i \in 1..Len(t) : IF i <= Len(s) THEN t[i][1] < turns - 1
                                          ELSE t[i] = <<turns - 1, i - Len(s)>>
  BY <1>1, <1>2, <1>3, <1>4
<1> HIDE DEF t
<1>6. \A i \in 1..Len(t) : t[i][1] < turns
  <2> SUFFICES ASSUME NEW i \in 1..Len(t) PROVE t[i][1] < turns
    OBVIOUS
  <2>1. CASE i <= Len(s)
    <3>1. t[i] \in Nat \X (1..BlockBytes)
      BY <1>3 DEF Pads
    <3>2. t[i][1] \in Nat
      BY <3>1
    <3> QED BY <1>5, <2>1, <3>2
  <2>2. CASE ~ (i <= Len(s))
    BY <1>5, <2>2
  <2> QED BY <2>1, <2>2
<1>7. \A i, j \in 1..Len(t) : t[i] = t[j] => i = j
  <2> SUFFICES ASSUME NEW i \in 1..Len(t), NEW j \in 1..Len(t), t[i] = t[j] PROVE i = j
    OBVIOUS
  <2>1. CASE i <= Len(s) /\ j <= Len(s)
    <3>1. i \in 1..Len(s) /\ j \in 1..Len(s)
      BY <1>1, <2>1
    <3>2. s[i] = s[j]
      BY <1>3, <3>1
    <3> QED BY <3>1, <3>2 DEF Stream
  <2>2. CASE i > Len(s) /\ j > Len(s)
    <3>1. <<turns - 1, i - Len(s)>> = <<turns - 1, j - Len(s)>>
      BY <1>1, <1>5, <2>2
    <3> QED BY <1>1, <3>1
  <2>3. CASE i <= Len(s) /\ j > Len(s)
    <3>1. t[i][1] < turns - 1 /\ t[j] = <<turns - 1, j - Len(s)>>
      BY <1>1, <1>5, <2>3
    <3> QED BY <3>1
  <2>4. CASE i > Len(s) /\ j <= Len(s)
    <3>1. t[j][1] < turns - 1 /\ t[i] = <<turns - 1, i - Len(s)>>
      BY <1>1, <1>5, <2>4
    <3> QED BY <3>1
  <2> QED BY <1>1, <2>1, <2>2, <2>3, <2>4
<1>8. Len(s) >= turns - 1 \/ Len(s) = length
  BY DEF Stream
<1>9. Len(t) <= length /\ (Len(t) >= turns \/ Len(t) = length)
  BY <1>1, <1>2, <1>3, <1>8
<1>10. t \in Stream(length, turns)
  BY <1>3, <1>6, <1>7, <1>9 DEF Stream
<1> QED BY <1>10 DEF t, p

\* The loop ends with such a stream, as long as the answer.
LEMMA KeystreamIsStream ==
  ASSUME NEW length \in Nat
  PROVE  Keystream(length) \in Stream(length, length)
<1> DEFINE T == [turns \in 0..length |-> Stream(length, turns)]
           step == [turns \in 1..length |->
                      [s \in T[turns - 1] |-> s \o Piece(length, turns, s)]]
           Loop(f) == [turns \in 0..length |->
                         IF turns = 0 THEN <<>>
                         ELSE f[turns - 1] \o Piece(length, turns, f[turns - 1])]
           after == CHOOSE f : f = Loop(f)
<1>1. Keystream(length) = after[length]
  BY DEF Keystream, Piece
<1>2. \A turns \in 0..length : turns > 0 =>
        /\ turns \in 1..length /\ turns - 1 \in 0..length
        /\ T[turns - 1] = Stream(length, turns - 1) /\ T[turns] = Stream(length, turns)
  OBVIOUS
<1>3. <<>> \in T[0] /\ 0 \in Int /\ length \in Int
  BY DEF Stream
<1>4. Steps(step, T, 0, length)
  BY <1>2, TurnExtends DEF Steps
<1>5. \E f : f = Loop(f)
  <2> HIDE DEF T, step
  <2>1. PICK f : Follows(f, <<>>, step, T, 0, length)
    BY <1>3, <1>4, Recursion
  <2> DEFINE g == [n \in 0..length |-> f[n]]
  <2>2. \A n \in 0..length : n > 0 => f[n] = f[n - 1] \o Piece(length, n, f[n - 1])
    BY <1>2, <2>1 DEF step, Follows
  <2>3. \A n \in 0..length : n > 0 => g[n - 1] = f[n - 1]
    OBVIOUS
  <2>4. ASSUME NEW n \in 0..length PROVE Loop(g)[n] = f[n]
    <3>1. CASE n = 0
      BY <2>1, <3>1 DEF Follows
    <3>2. CASE n # 0
      <4>1. n > 0 /\ g[n - 1] = f[n - 1]
        BY <2>3, <3>2
      <4>2. Loop(g)[n] = g[n - 1] \o Piece(length, n, g[n - 1])
        BY <3>2
      <4> QED BY <2>2, <4>1, <4>2
    <3> QED BY <3>1, <3>2
  <2>5. g = Loop(g)
    BY <2>4
  <2> QED BY <2>5
<1>6. after = Loop(after)
  <2> HIDE DEF Loop
  <2> QED BY <1>5
<1> HIDE DEF after
<1>7. after[0] = <<>>
  BY <1>6
<1>8. \A turns \in 0..length :
        turns > 0 => after[turns] = after[turns - 1] \o Piece(length, turns, after[turns - 1])
  BY <1>6, SMTT(30)
<1>9. \A turns \in 0..length :
        turns > 0 /\ after[turns - 1] \in T[turns - 1] => after[turns] \in T[turns]
  BY <1>2, <1>8, TurnExtends
<1>10. \A turns \in 0..length : after[turns] \in T[turns]
  <2> HIDE DEF T
  <2> QED BY <1>3, <1>7, <1>9, TypeInduction, Zenon
<1> QED BY <1>1, <1>10

\* Every byte of a mixed answer is masked by a pad of its own.
THEOREM EveryByteMasked == Spec => []MaskedOnce
<1>1. IInv => MaskedOnce
  <2> SUFFICES ASSUME IInv, NEW c \in Clients
               PROVE  /\ Len(Keystream(quantum[c])) = quantum[c]
                      /\ IsInjective(Keystream(quantum[c]))
    BY DEF MaskedOnce
  <2>1. quantum[c] \in Nat
    <3>1. quantum \in [Clients -> Lengths \cup {0}]
      BY DEF IInv, TypeOK
    <3>2. Lengths \cup {0} \subseteq Nat
      BY ApiAssumption DEF ApiAssumption
    <3>3. quantum[c] \in Lengths \cup {0}
      BY <3>1
    <3> QED BY <3>2, <3>3
  <2>2. Keystream(quantum[c]) \in Stream(quantum[c], quantum[c])
    BY <2>1, KeystreamIsStream
  <2> QED BY <2>1, <2>2 DEF Stream, IsInjective
<1> QED BY <1>1, Invariance, PTL

=============================================================================
