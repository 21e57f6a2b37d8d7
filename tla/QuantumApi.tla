----------------------------- MODULE QuantumApi -----------------------------
(***************************************************************************)
(* The quantum-api process: GET /quantum-random (quantum/handler.go), the  *)
(* LfD client whose semaphore caps the requests at the device              *)
(* (client_lfd.go), the mixing of the answer with system entropy           *)
(* (service.go, mixing.go), and the start and graceful shutdown of the     *)
(* server (cmd/quantum-api/main.go).                                       *)
(***************************************************************************)
EXTENDS Integers, Sequences, SequencesExt, FiniteSets

CONSTANTS
  Clients,            \* whoever sends requests, one at a time each
  maxConcurrentLfd,
  BlockBytes,         \* bytes of a SHA-256 block
  Lengths             \* how many bytes an answer of the device holds

ASSUME ApiAssumption ==
  /\ IsFiniteSet(Clients)
  /\ maxConcurrentLfd \in Nat \ {0}
  /\ BlockBytes \in Nat \ {0}
  /\ Lengths \subseteq Nat \ {0}

VARIABLES
  client,     \* for each client: where its request is, or how the last one ended
  quantum,    \* for each request that mixes: how many quantum bytes it holds
  slots,      \* elements in the buffered channel sem
  waiters,    \* goroutines blocked in the send to sem, first come first served
  main,       \* the main goroutine
  server,     \* the server goroutine
  stopping,   \* srv.Shutdown has been called: no listener accepts any more
  quit,       \* signals in the one-slot channel of signal.Notify
  srvErr,     \* errors in the one-slot channel srvErr
  exitCode

requestVars == <<client, quantum, slots, waiters>>
processVars == <<main, server, stopping, quit, srvErr, exitCode>>
vars == <<requestVars, processVars>>

Ended == {"none", "200", "400", "500"}

AtDevice == {c \in Clients : client[c] = "fetching"}

InFlight == {c \in Clients : client[c] \notin Ended}

Init ==
  /\ client = [c \in Clients |-> "none"]
  /\ quantum = [c \in Clients |-> 0]
  /\ slots = 0 /\ waiters = <<>>
  /\ main = "selecting" /\ server = "starting"
  /\ stopping = FALSE
  /\ quit = 0 /\ srvErr = 0
  /\ exitCode = "none"

Running == main # "exited"

-----------------------------------------------------------------------------
(* A request.                                                              *)

MutantBlock(counter) == [i \in 1..BlockBytes |-> <<0, i>>]

\* SHA-256 of the mixing key and the counter: no two pads of a key are the same.
Block(counter) == [i \in 1..BlockBytes |-> <<counter, i>>]

\* generateKeystream: after any number of turns of its loop; the last block is cut, and
\* once the keystream is long enough nothing is added.
Keystream(length) ==
  LET after[turns \in 0..length] ==
        IF turns = 0 THEN <<>>
        ELSE LET stream == after[turns - 1]
                 remaining == length - Len(stream)
             IN  stream \o (IF remaining < BlockBytes
                            THEN SubSeq(Block(turns - 1), 1, remaining)
                            ELSE Block(turns - 1))
  IN  after[length]

Accepting == server = "serving" /\ ~stopping

\* count is no number between 1 and MaxCount: answered before the semaphore.
BadCount(c) ==
  /\ Running /\ Accepting
  /\ client[c] \in Ended
  /\ client' = [client EXCEPT ![c] = "400"]
  /\ UNCHANGED <<quantum, slots, waiters, processVars>>

\* c.sem <- struct{}{}: a full channel blocks the sender.
Request(c) ==
  /\ Running /\ Accepting
  /\ client[c] \in Ended
  /\ IF slots < maxConcurrentLfd
     THEN /\ slots' = slots + 1
          /\ client' = [client EXCEPT ![c] = "fetching"]
          /\ UNCHANGED waiters
     ELSE /\ waiters' = Append(waiters, c)
          /\ client' = [client EXCEPT ![c] = "queued"]
          /\ UNCHANGED slots
  /\ UNCHANGED <<quantum, processVars>>

MutantErrorKeepsSlot(c, next) ==
  /\ IF waiters = <<>>
     THEN /\ slots' = IF next = "500" THEN slots ELSE slots - 1
          /\ client' = [client EXCEPT ![c] = next]
          /\ UNCHANGED waiters
     ELSE /\ client' = [client EXCEPT ![c] = next, ![Head(waiters)] = "fetching"]
          /\ waiters' = Tail(waiters)
          /\ UNCHANGED slots

MutantNewestFirst(c, next) ==
  /\ IF waiters = <<>>
     THEN /\ slots' = slots - 1
          /\ client' = [client EXCEPT ![c] = next]
          /\ UNCHANGED waiters
     ELSE /\ client' = [client EXCEPT ![c] = next, ![Last(waiters)] = "fetching"]
          /\ waiters' = Front(waiters)
          /\ UNCHANGED slots

\* The deferred <-c.sem, on every return: the first blocked sender takes the place.
LeaveDevice(c, next) ==
  /\ IF waiters = <<>>
     THEN /\ slots' = slots - 1
          /\ client' = [client EXCEPT ![c] = next]
          /\ UNCHANGED waiters
     ELSE /\ client' = [client EXCEPT ![c] = next, ![Head(waiters)] = "fetching"]
          /\ waiters' = Tail(waiters)
          /\ UNCHANGED slots

\* The request fails or times out, or the answer has another status, is no JSON, is
\* empty or is no hex.
FetchFails(c) ==
  /\ Running /\ client[c] = "fetching"
  /\ LeaveDevice(c, "500")
  /\ UNCHANGED <<quantum, processVars>>

\* The length of the answer is not compared with count.
FetchPure(c) ==
  /\ Running /\ client[c] = "fetching"
  /\ LeaveDevice(c, "200")
  /\ UNCHANGED <<quantum, processVars>>

FetchToMix(c, length) ==
  /\ Running /\ client[c] = "fetching"
  /\ LeaveDevice(c, "mixing")
  /\ quantum' = [quantum EXCEPT ![c] = length]
  /\ UNCHANGED processVars

\* MixWithSystemEntropy; it fails when the system has no entropy to give.
Mix(c) ==
  /\ Running /\ client[c] = "mixing"
  /\ \E status \in {"200", "500"} : client' = [client EXCEPT ![c] = status]
  /\ quantum' = [quantum EXCEPT ![c] = 0]
  /\ UNCHANGED <<slots, waiters, processVars>>

-----------------------------------------------------------------------------
(* The process.                                                            *)

MutantSignal ==
  /\ Running
  /\ quit' = quit + 1
  /\ UNCHANGED <<requestVars, main, server, stopping, srvErr, exitCode>>

\* signal.Notify does not block: a signal that finds the channel full is dropped.
Signal ==
  /\ Running
  /\ quit' = 1
  /\ UNCHANGED <<requestVars, main, server, stopping, srvErr, exitCode>>

\* ListenAndServe returns ErrServerClosed at once when Shutdown came first.
Listen ==
  /\ Running /\ server = "starting"
  /\ server' = IF stopping THEN "done" ELSE "binding"
  /\ UNCHANGED <<requestVars, main, stopping, quit, srvErr, exitCode>>

Serve ==
  /\ Running /\ server = "binding"
  /\ server' = IF stopping THEN "done" ELSE "serving"
  /\ UNCHANGED <<requestVars, main, stopping, quit, srvErr, exitCode>>

\* The port cannot be bound, or the listener fails.
ServerFails ==
  /\ Running /\ (server = "binding" \/ Accepting)
  /\ server' = "failed"
  /\ UNCHANGED <<requestVars, main, stopping, quit, srvErr, exitCode>>

MutantReportFailure ==
  /\ Running /\ server = "failed"
  /\ main = "selecting"
  /\ srvErr' = srvErr + 1
  /\ server' = "done"
  /\ UNCHANGED <<requestVars, main, stopping, quit, exitCode>>

\* srvErr <- err, and wg.Done().
ReportFailure ==
  /\ Running /\ server = "failed"
  /\ srvErr < 1
  /\ srvErr' = srvErr + 1
  /\ server' = "done"
  /\ UNCHANGED <<requestVars, main, stopping, quit, exitCode>>

\* Serve returns ErrServerClosed, and wg.Done().
ServerCloses ==
  /\ Running /\ server = "serving" /\ stopping
  /\ server' = "done"
  /\ UNCHANGED <<requestVars, main, stopping, quit, srvErr, exitCode>>

Exit(code) == main' = "exited" /\ exitCode' = code

ExitOnFailure ==
  /\ main = "selecting" /\ srvErr = 1
  /\ srvErr' = 0
  /\ Exit("1")
  /\ UNCHANGED <<requestVars, server, stopping, quit>>

Shutdown ==
  /\ main = "selecting" /\ quit = 1
  /\ quit' = 0
  /\ stopping' = TRUE
  /\ main' = "draining"
  /\ UNCHANGED <<requestVars, server, srvErr, exitCode>>

\* Shutdown finds every connection idle.
Drained ==
  /\ main = "draining" /\ InFlight = {}
  /\ main' = "waiting"
  /\ UNCHANGED <<requestVars, server, stopping, quit, srvErr, exitCode>>

\* The 10 seconds are over; a request at the device may take 30.
Deadline ==
  /\ main = "draining"
  /\ Exit("1")
  /\ UNCHANGED <<requestVars, server, stopping, quit, srvErr>>

MutantWaitForServer ==
  /\ main = "waiting"
  /\ Exit("0")
  /\ UNCHANGED <<requestVars, server, stopping, quit, srvErr>>

\* wg.Wait(), and main returns.
WaitForServer ==
  /\ main = "waiting" /\ server = "done"
  /\ Exit("0")
  /\ UNCHANGED <<requestVars, server, stopping, quit, srvErr>>

-----------------------------------------------------------------------------
RequestStep(c) ==
  \/ FetchFails(c) \/ FetchPure(c)
  \/ \E length \in Lengths : FetchToMix(c, length)
  \/ Mix(c)

ServerStep == Listen \/ Serve \/ ServerFails \/ ReportFailure \/ ServerCloses

MainStep == ExitOnFailure \/ Shutdown \/ Drained \/ Deadline \/ WaitForServer

Next ==
  \/ \E c \in Clients : BadCount(c) \/ Request(c) \/ RequestStep(c)
  \/ Signal \/ ServerStep \/ MainStep

\* The device answers or the HTTP client gives up after 30 seconds; the goroutines of
\* the process keep running.  Nobody has to send requests or signals, and nothing
\* has to fail.
Fairness ==
  /\ \A c \in Clients : WF_vars(RequestStep(c))
  /\ WF_vars(Listen \/ Serve \/ ReportFailure \/ ServerCloses)
  /\ WF_vars(MainStep)

Spec == Init /\ [][Next]_vars /\ Fairness

-----------------------------------------------------------------------------
(* Properties                                                              *)

TypeOK ==
  /\ client \in [Clients -> Ended \cup {"queued", "fetching", "mixing"}]
  /\ quantum \in [Clients -> Lengths \cup {0}]
  /\ slots \in 0..maxConcurrentLfd
  /\ waiters \in Seq(Clients)
  /\ main \in {"selecting", "draining", "waiting", "exited"}
  /\ server \in {"starting", "binding", "serving", "failed", "done"}
  /\ stopping \in BOOLEAN
  /\ quit \in 0..1 /\ srvErr \in 0..1
  /\ exitCode \in {"none", "0", "1"}

\* The semaphore counts exactly the requests at the device, whichever way they leave
\* it; and nobody waits while there is a place: those who wait are in the queue, once
\* each, and the device is at its cap.
SlotsMatch ==
  /\ slots = Cardinality(AtDevice)
  /\ Cardinality(AtDevice) <= maxConcurrentLfd
  /\ \A c \in Clients : client[c] = "queued" <=> \E i \in DOMAIN waiters : waiters[i] = c
  /\ IsInjective(waiters)
  /\ waiters # <<>> => slots = maxConcurrentLfd

\* The process ends with exit code 0 only after the signal was followed to its end: no
\* request is cut off, and the server goroutine has really returned (main.go:46).
CleanExit ==
  exitCode = "0" => InFlight = {} /\ waiters = <<>> /\ slots = 0 /\ server = "done"

\* Every byte of a mixed answer is masked by a pad of its own, and every byte is
\* masked: a keystream that is too short would panic, one that repeats would cancel.
MaskedOnce ==
  \A c \in Clients : client[c] = "mixing" =>
    /\ Len(Keystream(quantum[c])) = quantum[c]
    /\ IsInjective(Keystream(quantum[c]))

\* No request waits forever on the semaphore or the device, unless the process ends.
AllAnswered == \A c \in Clients : c \in InFlight ~> c \notin InFlight \/ main = "exited"

\* A signal ends the process, in whatever state the server and its requests are; so
\* does a failure of the server.
SignalStops == quit = 1 \/ server = "failed" ~> main = "exited"

=============================================================================
