---------------------------- MODULE RefillBatch ----------------------------
(***************************************************************************)
(* One call of Scheduler.runRefillBatch (internal/collector/scheduler.go): *)
(* a producer hands jobs over an unbuffered channel to refillWorkers       *)
(* workers, the workers push outcomes into a buffered channel, a closer    *)
(* goroutine closes that channel after wg.Wait, and the calling goroutine  *)
(* folds the outcomes and is the only one that writes to the store.        *)
(* Stop() may close stopChan at any moment, before the call included.      *)
(*                                                                         *)
(* A fetch is abstracted to its outcome: an error, or data that split into *)
(* any number of records.  Nothing compares that number with what was      *)
(* asked for: an answer may be longer, and one of white space has none.    *)
(* Time (the HTTP timeout, retryDelay) is abstracted to the step that ends *)
(* the wait.                                                               *)
(***************************************************************************)
EXTENDS Integers, Sequences, FiniteSets

CONSTANTS Workers,          \* the fan-out goroutines (refillWorkers of them)
          MaxFetches,       \* bound on the `fetches` argument
          MaxFailures,      \* maxFailures
          LargestAnswer     \* bound: records that the data of one answer split into

ASSUME WorkersAssumption == IsFiniteSet(Workers) /\ Workers # {}
ASSUME BoundsAssumption ==
  /\ MaxFetches \in Nat \ {0}
  /\ MaxFailures \in Nat \ {0}
  /\ LargestAnswer \in Nat \ {0}

VARIABLES
  stopped,        \* stopChan is closed
  fetches,        \* the argument of the call
  prod,           \* the producer: "load", "offer" (blocked in its select), "done"
  handed,         \* i of the producer's loop: jobs handed over so far
  wpc,            \* where each worker is
  outcome,        \* what the worker's fetch returned: an error, or n records
  failCount,      \* the atomic counter shared by workers and producer
  results,        \* the buffered results channel
  resultsClosed,
  collector,      \* the calling goroutine: "range", "save", "returned"
  chunk,          \* records of the current chunk that saveRecords has left
  saved, failures,\* the two results of the call
  begun, folded   \* history: fetches begun, outcomes taken off `results`

chanVars == <<results, resultsClosed>>
foldVars == <<collector, chunk, saved, failures, folded>>
prodVars == <<fetches, prod, handed>>
workVars == <<wpc, outcome, failCount, begun>>
vars == <<stopped, prodVars, workVars, chanVars, foldVars>>

\* jobs is closed by the producer's defer, so exactly when the producer is done.
jobsClosed == prod = "done"

BufferCapacity == Cardinality(Workers)

Failed == -1

-----------------------------------------------------------------------------

Init ==
  /\ stopped \in BOOLEAN
  /\ fetches \in 1..MaxFetches
  /\ prod = "load"
  /\ handed = 0
  /\ wpc = [w \in Workers |-> "range"]
  /\ outcome = [w \in Workers |-> Failed]
  /\ failCount = 0
  /\ results = << >>
  /\ resultsClosed = FALSE
  /\ collector = "range"
  /\ chunk = 0
  /\ saved = 0
  /\ failures = 0
  /\ begun = 0
  /\ folded = 0

-----------------------------------------------------------------------------
(* The producer.                                                           *)

MutantTripsLate == failCount > MaxFailures

Tripped == failCount >= MaxFailures

\* The loop test and the circuit breaker, read before each job is offered.
Load ==
  /\ prod = "load"
  /\ prod' = IF handed < fetches /\ ~Tripped THEN "offer" ELSE "done"
  /\ UNCHANGED <<stopped, fetches, handed, workVars, chanVars, foldVars>>

\* The select of the producer: the job meets a worker that ranges over jobs ...
HandOff(w) ==
  /\ prod = "offer"
  /\ wpc[w] = "range"
  /\ prod' = "load"
  /\ handed' = handed + 1
  /\ wpc' = [wpc EXCEPT ![w] = "poll"]
  /\ UNCHANGED <<stopped, fetches, outcome, failCount, begun, chanVars, foldVars>>

MutantOfferBlocks == FALSE

\* ... or stopChan is closed.  With both ready, select takes either.
AbandonOffer ==
  /\ prod = "offer"
  /\ stopped
  /\ prod' = "done"
  /\ UNCHANGED <<stopped, fetches, handed, workVars, chanVars, foldVars>>

-----------------------------------------------------------------------------
(* The workers.                                                            *)

\* `range jobs` ends.
LeaveRange(w) ==
  /\ wpc[w] = "range"
  /\ jobsClosed
  /\ wpc' = [wpc EXCEPT ![w] = "exited"]
  /\ UNCHANGED <<stopped, prodVars, outcome, failCount, begun, chanVars, foldVars>>

MutantPollIgnoresStop(w) ==
  /\ wpc[w] = "poll"
  /\ wpc' = [wpc EXCEPT ![w] = "fetch"]
  /\ begun' = begun + 1
  /\ UNCHANGED <<stopped, prodVars, outcome, failCount, chanVars, foldVars>>

\* The non-blocking select before a fetch: a stopped worker drops its job.
Poll(w) ==
  /\ wpc[w] = "poll"
  /\ wpc' = [wpc EXCEPT ![w] = IF stopped THEN "exited" ELSE "fetch"]
  /\ begun' = IF stopped THEN begun ELSE begun + 1
  /\ UNCHANGED <<stopped, prodVars, outcome, failCount, chanVars, foldVars>>

\* fetch() returns an error; the shared counter goes up before the outcome is sent.
FetchFails(w) ==
  /\ wpc[w] = "fetch"
  /\ failCount' = failCount + 1
  /\ outcome' = [outcome EXCEPT ![w] = Failed]
  /\ wpc' = [wpc EXCEPT ![w] = "send"]
  /\ UNCHANGED <<stopped, prodVars, begun, chanVars, foldVars>>

FetchReturns(w) ==
  /\ wpc[w] = "fetch"
  /\ \E records \in 0..LargestAnswer : outcome' = [outcome EXCEPT ![w] = records]
  /\ wpc' = [wpc EXCEPT ![w] = "send"]
  /\ UNCHANGED <<stopped, prodVars, failCount, begun, chanVars, foldVars>>

\* Blocks while the buffer is full.  A worker that failed then sleeps retryDelay.
Send(w) ==
  /\ wpc[w] = "send"
  /\ Len(results) < BufferCapacity
  /\ results' = Append(results, outcome[w])
  /\ outcome' = [outcome EXCEPT ![w] = Failed]
  /\ wpc' = [wpc EXCEPT ![w] = IF outcome[w] = Failed THEN "sleep" ELSE "range"]
  /\ UNCHANGED <<stopped, prodVars, failCount, begun, resultsClosed, foldVars>>

Wake(w) ==
  /\ wpc[w] = "sleep"
  /\ wpc' = [wpc EXCEPT ![w] = "range"]
  /\ UNCHANGED <<stopped, prodVars, outcome, failCount, begun, chanVars, foldVars>>

WorkerStep(w) ==
  \/ LeaveRange(w)
  \/ Poll(w)
  \/ FetchFails(w)
  \/ FetchReturns(w)
  \/ Send(w)
  \/ Wake(w)

-----------------------------------------------------------------------------
(* The closer and the collector.                                           *)

MutantCloseOnJobsClosed ==
  /\ ~resultsClosed
  /\ jobsClosed
  /\ \A w \in Workers : wpc[w] \notin {"poll", "fetch"}
  /\ resultsClosed' = TRUE
  /\ UNCHANGED <<stopped, prodVars, workVars, results, foldVars>>

\* wg.Wait returns when every worker has exited.
CloseResults ==
  /\ ~resultsClosed
  /\ \A w \in Workers : wpc[w] = "exited"
  /\ resultsClosed' = TRUE
  /\ UNCHANGED <<stopped, prodVars, workVars, results, foldVars>>

\* One iteration of `range results`.
Receive ==
  /\ collector = "range"
  /\ results # << >>
  /\ results' = Tail(results)
  /\ folded' = folded + 1
  /\ IF Head(results) = Failed
       THEN /\ failures' = failures + 1
            /\ UNCHANGED <<collector, chunk>>
       ELSE /\ chunk' = Head(results)
            /\ collector' = IF Head(results) = 0 THEN "range" ELSE "save"
            /\ UNCHANGED failures
  /\ UNCHANGED <<stopped, prodVars, workVars, resultsClosed, saved>>

MutantSaveOneTooMany ==
  /\ collector = "save"
  /\ chunk' = chunk - 1
  /\ collector' = IF chunk = 0 THEN "range" ELSE "save"
  /\ saved' \in {saved, saved + 1}
  /\ UNCHANGED <<stopped, prodVars, workVars, chanVars, failures, folded>>

\* One record of saveRecords: SaveEntropy succeeds and the record's two events are
\* published (whose errors are only logged), or it fails and the record is dropped.
SaveOneRecord ==
  /\ collector = "save"
  /\ chunk' = chunk - 1
  /\ collector' = IF chunk = 1 THEN "range" ELSE "save"
  /\ saved' \in {saved, saved + 1}
  /\ UNCHANGED <<stopped, prodVars, workVars, chanVars, failures, folded>>

MutantReturnWhenDrained ==
  /\ collector = "range"
  /\ results = << >>
  /\ jobsClosed
  /\ collector' = "returned"
  /\ UNCHANGED <<stopped, prodVars, workVars, chanVars, chunk, saved, failures, folded>>

\* `range results` ends: closed and drained.
Return ==
  /\ collector = "range"
  /\ results = << >>
  /\ resultsClosed
  /\ collector' = "returned"
  /\ UNCHANGED <<stopped, prodVars, workVars, chanVars, chunk, saved, failures, folded>>

\* Scheduler.Stop, called by the server at any time.
Stop ==
  /\ ~stopped
  /\ stopped' = TRUE
  /\ UNCHANGED <<prodVars, workVars, chanVars, foldVars>>

Terminated ==
  /\ collector = "returned"
  /\ prod = "done"
  /\ \A w \in Workers : wpc[w] = "exited"

-----------------------------------------------------------------------------

ProducerStep == Load \/ AbandonOffer \/ \E w \in Workers : HandOff(w)

CollectorStep == Receive \/ SaveOneRecord \/ Return

Next ==
  \/ ProducerStep
  \/ \E w \in Workers : WorkerStep(w)
  \/ CloseResults
  \/ CollectorStep
  \/ Stop
  \/ Terminated /\ UNCHANGED vars

\* Every goroutine keeps running; fetch() ends because the HTTP client has a
\* timeout.  Nobody is obliged to call Stop.
Fairness ==
  /\ WF_vars(ProducerStep)
  /\ \A w \in Workers : WF_vars(WorkerStep(w))
  /\ WF_vars(CloseResults)
  /\ WF_vars(CollectorStep)

Spec == Init /\ [][Next]_vars /\ Fairness

-----------------------------------------------------------------------------
(* Properties.                                                             *)

WorkerStates == {"range", "poll", "fetch", "send", "sleep", "exited"}

\* Every variable keeps its type.
TypeOK ==
  /\ stopped \in BOOLEAN
  /\ fetches \in 1..MaxFetches
  /\ prod \in {"load", "offer", "done"}
  /\ handed \in Nat
  /\ wpc \in [Workers -> WorkerStates]
  /\ outcome \in [Workers -> Failed..LargestAnswer]
  /\ failCount \in Nat
  /\ results \in Seq(Failed..LargestAnswer)
  /\ resultsClosed \in BOOLEAN
  /\ collector \in {"range", "save", "returned"}
  /\ chunk \in 0..LargestAnswer
  /\ saved \in Nat
  /\ failures \in Nat
  /\ begun \in Nat
  /\ folded \in Nat

InFlight == {w \in Workers : wpc[w] \in {"poll", "fetch"}}

\* The circuit breaker is read before a job is offered while other workers are
\* still fetching, so maxFailures can be exceeded - by the fetches then in flight
\* and the job on offer, and by no more than that.
FailureOvershoot == failCount <= MaxFailures + Cardinality(Workers)

\* A send on a closed channel panics.  The closer must not close results while
\* some worker still has an outcome to send or a job to fetch.
NoSendOnClosedResults ==
  resultsClosed => \A w \in Workers : wpc[w] \notin {"poll", "fetch", "send"}

\* collectEntropy starts the next batch, with fresh channels and a fresh counter,
\* as soon as this call returns: no worker may still be running then, and what the
\* call returns as failures is what the workers counted.
NothingLeftBehind ==
  collector = "returned" =>
    /\ \A w \in Workers : wpc[w] = "exited"
    /\ results = << >>
    /\ failures = failCount

Contract == INSTANCE BatchContract WITH
  FailureCap <- MaxFailures + Cardinality(Workers),
  batch <- [phase    |-> IF collector = "returned" THEN "returned" ELSE "running",
            fetches  |-> fetches,
            begun    |-> begun,
            folded   |-> folded,
            chunk    |-> chunk,
            saved    |-> saved,
            failures |-> failures]

\* The goroutines implement the contract collectEntropy relies on: each begun
\* fetch is folded exactly once, nothing is fetched after Stop, and the call
\* returns only when nothing is outstanding and there was a reason to end.
ImplementsContract == Contract!ContractSpec

\* Whatever fails and whenever Stop arrives, the call returns and leaves no
\* goroutine behind: neither the producer nor a worker blocks for ever.
Terminates == <>Terminated

=============================================================================
