---------------------------- MODULE EntropyPool ----------------------------
(***************************************************************************)
(* The entropy pool and the two parties that change it:                    *)
(*  - the collector (internal/collector/scheduler.go) refills it from      *)
(*    below LowWatermark up to HighWatermark, woken by a ticker or by      *)
(*    TriggerRefill, and announces pool.ok;                                *)
(*  - the key manager (internal/keymanager/service.go) consumes records,   *)
(*    one HTTP request per client, and after a successful operation checks *)
(*    the pool and triggers a refill.                                      *)
(* The collector counts the pool once per refill and afterwards works with *)
(* a local sum, while requests keep consuming: the interesting part.       *)
(*                                                                         *)
(* runRefillBatch is taken from BatchContract, which RefillBatch           *)
(* implements.  The pool is a number here: SaveEntropy and ConsumeEntropy  *)
(* are each one transaction of the store.                                  *)
(***************************************************************************)
EXTENDS Naturals

CONSTANTS
  Clients,           \* concurrent HTTP requests of the key manager
  LowWatermark,      \* the scheduler starts a refill below this
  HighWatermark,     \* and aims for this
  PoolLowThreshold,  \* the key manager triggers a refill below this
  EntropyPerKey,     \* records one GenerateKey consumes
  EntropyPerExport,  \* records one ExportPrivateKey consumes
  RecordsPerFetch,
  MaxFailures,
  RefillWorkers,
  MaxOperations,     \* bound: key operations that get their entropy
  LargestAnswer,     \* bound: records that the data of one answer split into
  MaxFaults          \* bound: failed fetches, saves and counts, and answers of
                     \* another length than was asked for

ASSUME WatermarksAssumption ==
  /\ LowWatermark \in Nat \ {0}
  /\ HighWatermark \in Nat
  /\ LowWatermark <= HighWatermark
  /\ PoolLowThreshold \in Nat
ASSUME RefillAssumption ==
  /\ RecordsPerFetch \in Nat \ {0}
  /\ MaxFailures \in Nat \ {0}
  /\ RefillWorkers \in Nat \ {0}
  /\ LargestAnswer \in Nat
  /\ LargestAnswer >= RecordsPerFetch
ASSUME ConsumptionAssumption ==
  /\ EntropyPerKey \in Nat \ {0}
  /\ EntropyPerExport \in Nat \ {0}
  /\ MaxOperations \in Nat
  /\ MaxFaults \in Nat

VARIABLES
  unused,      \* unused records in the store
  stopped,     \* stopChan is closed
  refillChan,  \* the one-slot channel of TriggerRefill holds a signal
  tick,        \* ticker.C holds a tick
  sched,       \* where the scheduler goroutine is
  count,       \* collectEntropy's local count, 0 while it does not run
  failures,    \* collectEntropy's local failures, 0 while it does not run
  batch,       \* the running runRefillBatch
  request,     \* where each request is
  operations, faults,     \* what the two bounds count
  dipped,      \* history: the pool was below LowWatermark since the last pool.ok
  unanswered,  \* history: a low pool was signalled and not counted since
  missed,      \* history: the count that such a signal woke has failed
  surplus,     \* history: records of the last refill beyond what was asked for
  reached      \* history: the pool was at HighWatermark during this refill

loopVars == <<count, failures>>
wakeVars == <<refillChan, tick>>
boundVars == <<operations, faults>>
signalVars == <<unanswered, missed>>
refillVars == <<surplus, reached>>
histVars == <<dipped, signalVars, refillVars>>
vars == <<unused, stopped, wakeVars, sched, loopVars, batch, request,
          boundVars, histVars>>

\* How many fetches a batch needs for what is missing (rounded up).
FetchesFor(missing) == (missing + RecordsPerFetch - 1) \div RecordsPerFetch

Batch == INSTANCE BatchContract WITH
  MaxFetches <- FetchesFor(HighWatermark),
  FailureCap <- MaxFailures + RefillWorkers

NoBatch == [Batch!NewBatch(1) EXCEPT !.phase = "returned"]

\* main.go opens an in-memory database: the pool starts empty.
Init ==
  /\ unused = 0
  /\ stopped = FALSE
  /\ refillChan = FALSE
  /\ tick = FALSE
  /\ sched = "select"
  /\ count = 0
  /\ failures = 0
  /\ batch = NoBatch
  /\ request = [c \in Clients |-> "idle"]
  /\ operations = 0
  /\ faults = 0
  /\ dipped = TRUE
  /\ unanswered = FALSE
  /\ missed = FALSE
  /\ surplus = 0
  /\ reached = FALSE

\* One more fault of the world outside, within the bound.
Fault ==
  /\ faults < MaxFaults
  /\ faults' = faults + 1

-----------------------------------------------------------------------------
(* Scheduler.run                                                           *)

\* ticker.C has room for one tick; the ticker drops the others.
Tick ==
  /\ sched # "exited"
  /\ ~tick
  /\ tick' = TRUE
  /\ UNCHANGED <<unused, stopped, refillChan, sched, loopVars, batch, request,
                 boundVars, histVars>>

WakeOnTrigger ==
  /\ sched = "select"
  /\ refillChan
  /\ refillChan' = FALSE
  /\ sched' = "count"
  /\ UNCHANGED <<unused, stopped, tick, loopVars, batch, request, boundVars,
                 histVars>>

MutantNoTicker == FALSE

WakeOnTick ==
  /\ sched = "select"
  /\ tick
  /\ tick' = FALSE
  /\ sched' = "count"
  /\ UNCHANGED <<unused, stopped, refillChan, loopVars, batch, request,
                 boundVars, histVars>>

Exit ==
  /\ sched = "select"
  /\ stopped
  /\ sched' = "exited"
  /\ UNCHANGED <<unused, stopped, wakeVars, loopVars, batch, request, boundVars,
                 histVars>>

\* Scheduler.Stop
Stop ==
  /\ Batch!RequestStop
  /\ UNCHANGED <<unused, wakeVars, sched, loopVars, request, boundVars, histVars>>

-----------------------------------------------------------------------------
(* Scheduler.collectEntropy                                                *)

\* A new refill begins with what is in the pool.
BeginRefill ==
  /\ sched' = "loop"
  /\ count' = unused
  /\ surplus' = 0

MutantCountWithoutHysteresis ==
  /\ sched = "count"
  /\ BeginRefill
  /\ unanswered' = FALSE
  /\ missed' = FALSE
  /\ UNCHANGED <<unused, stopped, wakeVars, failures, batch, request, boundVars,
                 dipped, reached>>

\* The only look at the store of the whole refill.
CountPool ==
  /\ sched = "count"
  /\ \/ /\ unused >= LowWatermark
        /\ sched' = "select"
        /\ UNCHANGED <<count, surplus>>
     \/ /\ unused < LowWatermark
        /\ BeginRefill
  /\ unanswered' = FALSE
  /\ missed' = FALSE
  /\ UNCHANGED <<unused, stopped, wakeVars, failures, batch, request, boundVars,
                 dipped, reached>>

\* CountAllUnusedEntropy fails: logged, and the wake-up is spent.  A signal that
\* caused it stays unanswered, with nothing left to remind the scheduler but another
\* signal or the ticker.
CountFails ==
  /\ sched = "count"
  /\ Fault
  /\ sched' = "select"
  /\ missed' = (unanswered /\ ~refillChan)
  /\ UNCHANGED <<unused, stopped, wakeVars, loopVars, batch, request, operations,
                 dipped, unanswered, refillVars>>

MutantKeepRefillingAnyway == count < HighWatermark

KeepRefilling == count < HighWatermark /\ failures < MaxFailures

StartBatch ==
  /\ sched = "loop"
  /\ KeepRefilling
  /\ batch' = Batch!NewBatch(FetchesFor(HighWatermark - count))
  /\ sched' = "batch"
  /\ UNCHANGED <<unused, stopped, wakeVars, loopVars, request, boundVars, histVars>>

\* collectEntropy returns to the select of run, and its locals are gone.
ReturnFromRefill ==
  /\ sched' = "select"
  /\ count' = 0
  /\ failures' = 0
  /\ reached' = FALSE

\* What follows the loop: publishPoolOk, or nothing.
LeaveLoop ==
  \/ /\ count >= HighWatermark
     /\ sched' = "announce"
     /\ UNCHANGED <<loopVars, reached>>
  \/ /\ count < HighWatermark
     /\ ReturnFromRefill

EndLoop ==
  /\ sched = "loop"
  /\ ~KeepRefilling
  /\ LeaveLoop
  /\ UNCHANGED <<unused, stopped, wakeVars, batch, request, boundVars, dipped,
                 signalVars, surplus>>

\* The steps of the running batch that neither touch the store nor fail; the API
\* sends what it was asked for.
BatchProceeds ==
  /\ sched = "batch"
  /\ Batch!BeginFetch \/ Batch!FoldChunk(RecordsPerFetch) \/ Batch!Return
  /\ UNCHANGED <<unused, wakeVars, sched, loopVars, request, boundVars, histVars>>

\* How many records of an answer were not asked for.
Excess(records) ==
  IF records > RecordsPerFetch THEN records - RecordsPerFetch ELSE 0

\* The API sends less, nothing, or more: the length of the answer is not looked at.
BatchMissized ==
  /\ sched = "batch"
  /\ Fault
  /\ \E records \in (0..LargestAnswer) \ {RecordsPerFetch} :
       /\ Batch!FoldChunk(records)
       /\ surplus' = surplus + Excess(records)
  /\ UNCHANGED <<unused, wakeVars, sched, loopVars, request, operations, dipped,
                 signalVars, reached>>

MutantLostRecordsCount ==
  /\ sched = "batch"
  /\ Fault
  /\ Batch!FoldFailure \/ Batch!SaveRecord
  /\ UNCHANGED <<unused, wakeVars, sched, loopVars, request, operations, histVars>>

\* A failed fetch, or a record the store refuses to save.
BatchSuffers ==
  /\ sched = "batch"
  /\ Fault
  /\ Batch!FoldFailure \/ Batch!LoseRecord
  /\ UNCHANGED <<unused, wakeVars, sched, loopVars, request, operations, histVars>>

BatchSaves ==
  /\ sched = "batch"
  /\ Batch!SaveRecord
  /\ unused' = unused + 1
  /\ reached' = (reached \/ unused' >= HighWatermark)
  /\ UNCHANGED <<wakeVars, sched, loopVars, request, boundVars, dipped,
                 signalVars, surplus>>

\* The loop goes on with the results of the batch added up.
GoOn(added) ==
  /\ sched' = "loop"
  /\ count' = count + added
  /\ failures' = failures + batch.failures
  /\ UNCHANGED reached

MutantAddUpWithoutBreak ==
  /\ sched = "batch"
  /\ batch.phase = "returned"
  /\ batch' = NoBatch
  /\ GoOn(batch.saved)
  /\ UNCHANGED <<unused, stopped, wakeVars, request, boundVars, dipped, signalVars,
                 surplus>>

MutantAddUpFetches ==
  /\ sched = "batch"
  /\ batch.phase = "returned"
  /\ batch' = NoBatch
  /\ \/ batch.saved + batch.failures > 0 /\ GoOn(batch.folded)
     \/ batch.saved + batch.failures = 0 /\ LeaveLoop
  /\ UNCHANGED <<unused, stopped, wakeVars, request, boundVars, dipped, signalVars,
                 surplus>>

\* count += saved, failures += fails; a batch without either ends the loop.
AddUp ==
  /\ sched = "batch"
  /\ batch.phase = "returned"
  /\ batch' = NoBatch
  /\ \/ batch.saved + batch.failures > 0 /\ GoOn(batch.saved)
     \/ batch.saved + batch.failures = 0 /\ LeaveLoop
  /\ UNCHANGED <<unused, stopped, wakeVars, request, boundVars, dipped, signalVars,
                 surplus>>

\* publishPoolOk; a publish error is only logged.
AnnouncePoolOk ==
  /\ sched = "announce"
  /\ ReturnFromRefill
  /\ dipped' = (unused < LowWatermark)
  /\ UNCHANGED <<unused, stopped, wakeVars, batch, request, boundVars, signalVars,
                 surplus>>

-----------------------------------------------------------------------------
(* keymanager.Service                                                      *)

MutantConsumeWhatIsThere(c) ==
  /\ request[c] = "idle"
  /\ operations < MaxOperations
  /\ \E n \in {EntropyPerKey, EntropyPerExport} :
       /\ unused > 0
       /\ unused' = unused - n
       /\ dipped' = (dipped \/ unused - n < LowWatermark)
  /\ operations' = operations + 1
  /\ request' = [request EXCEPT ![c] = "consumed"]
  /\ UNCHANGED <<stopped, wakeVars, sched, loopVars, batch, faults, signalVars,
                 refillVars>>

\* ConsumeEntropy inside GenerateKey or ExportPrivateKey.  When it fails (too few
\* records, database locked) the request ends and nothing has changed.
Consume(c) ==
  /\ request[c] = "idle"
  /\ operations < MaxOperations
  /\ \E n \in {EntropyPerKey, EntropyPerExport} :
       /\ n <= unused
       /\ unused' = unused - n
       /\ dipped' = (dipped \/ unused - n < LowWatermark)
  /\ operations' = operations + 1
  /\ request' = [request EXCEPT ![c] = "consumed"]
  /\ UNCHANGED <<stopped, wakeVars, sched, loopVars, batch, faults, signalVars,
                 refillVars>>

\* The operation succeeds and goes on to checkPoolStatus.
Complete(c) ==
  /\ request[c] = "consumed"
  /\ request' = [request EXCEPT ![c] = "check"]
  /\ UNCHANGED <<unused, stopped, wakeVars, sched, loopVars, batch, boundVars,
                 histVars>>

\* RSA generation, wrapping, SaveKey (a duplicate alias) or unwrapping fails after
\* the entropy is gone: GenerateKey and ExportPrivateKey return without the check.
Abort(c) ==
  /\ request[c] = "consumed"
  /\ request' = [request EXCEPT ![c] = "idle"]
  /\ UNCHANGED <<unused, stopped, wakeVars, sched, loopVars, batch, boundVars,
                 histVars>>

\* checkPoolStatus counts the pool.
Check(c) ==
  /\ request[c] = "check"
  /\ request' = [request EXCEPT ![c] = IF unused >= PoolLowThreshold THEN "idle" ELSE "low"]
  /\ UNCHANGED <<unused, stopped, wakeVars, sched, loopVars, batch, boundVars,
                 histVars>>

CheckFails(c) ==
  /\ request[c] = "check"
  /\ Fault
  /\ request' = [request EXCEPT ![c] = "idle"]
  /\ UNCHANGED <<unused, stopped, wakeVars, sched, loopVars, batch, operations,
                 histVars>>

MutantTriggerWhenWaiting(c) ==
  /\ request[c] = "low"
  /\ refillChan' = (refillChan \/ sched = "select")
  /\ unanswered' = TRUE
  /\ missed' = FALSE
  /\ request' = [request EXCEPT ![c] = "idle"]
  /\ UNCHANGED <<unused, stopped, tick, sched, loopVars, batch, boundVars, dipped,
                 refillVars>>

\* OnPoolLow, which main.go wires to Scheduler.TriggerRefill: a non-blocking send
\* that is dropped when the slot is taken.  pool.low is then published (an error is
\* only logged).
TriggerRefill(c) ==
  /\ request[c] = "low"
  /\ refillChan' = TRUE
  /\ unanswered' = TRUE
  /\ missed' = FALSE
  /\ request' = [request EXCEPT ![c] = "idle"]
  /\ UNCHANGED <<unused, stopped, tick, sched, loopVars, batch, boundVars, dipped,
                 refillVars>>

-----------------------------------------------------------------------------

SchedulerStep ==
  \/ WakeOnTrigger
  \/ WakeOnTick
  \/ CountPool
  \/ CountFails
  \/ StartBatch
  \/ EndLoop
  \/ BatchProceeds
  \/ BatchMissized
  \/ BatchSuffers
  \/ BatchSaves
  \/ AddUp
  \/ AnnouncePoolOk

RequestStep(c) ==
  \/ Complete(c)
  \/ Abort(c)
  \/ Check(c)
  \/ CheckFails(c)
  \/ TriggerRefill(c)

Next ==
  \/ Tick
  \/ SchedulerStep
  \/ Exit
  \/ Stop
  \/ \E c \in Clients : Consume(c) \/ RequestStep(c)

\* The ticker ticks, the scheduler goroutine and the requests that have begun keep
\* running.  Go's select picks at random among its ready cases, so a stopChan that
\* stays closed is taken sooner or later (Exit is strongly fair).  Nobody has to
\* start an operation or call Stop.
Fairness ==
  /\ WF_vars(Tick)
  /\ WF_vars(SchedulerStep)
  /\ SF_vars(Exit)
  /\ \A c \in Clients : WF_vars(RequestStep(c))

Spec == Init /\ [][Next]_vars /\ Fairness

-----------------------------------------------------------------------------
(* Properties.                                                             *)

SchedulerStates ==
  {"select", "count", "loop", "batch", "announce", "exited"}

RequestStates == {"idle", "consumed", "check", "low"}

\* Every variable keeps its type.
TypeOK ==
  /\ unused \in Nat
  /\ stopped \in BOOLEAN
  /\ refillChan \in BOOLEAN
  /\ tick \in BOOLEAN
  /\ sched \in SchedulerStates
  /\ count \in Nat
  /\ failures \in Nat
  /\ batch \in Batch!Batches
  /\ request \in [Clients -> RequestStates]
  /\ operations \in 0..MaxOperations
  /\ faults \in 0..MaxFaults
  /\ dipped \in BOOLEAN
  /\ unanswered \in BOOLEAN
  /\ missed \in BOOLEAN
  /\ surplus \in Nat
  /\ reached \in BOOLEAN

\* Between CountPool and the end of the refill.
Refilling == sched \in {"loop", "batch", "announce"}

\* What collectEntropy believes is in the pool.
Believed == count + batch.saved

\* The refill adds to the pool without looking at it again, and requests take from
\* it meanwhile; still the pool never holds more than the high watermark, the records
\* by which the last fetch is rounded up, and those that the API has sent beyond what
\* was asked for, whose number nothing checks (client_lfd.go:82).
NeverOverfills == unused <= HighWatermark + RecordsPerFetch - 1 + surplus

\* During a refill the local count departs from the pool by what requests take out
\* of the pool, and by nothing else: every saved record is counted once, and no
\* lost record is.
LocalCountDrift ==
  [][Refilling /\ Refilling' =>
       \/ Believed' - unused' = Believed - unused
       \/ /\ unused' < unused
          /\ Believed' = Believed]_vars

\* Hysteresis: pool.ok is announced only if the pool really was below the low
\* watermark since the previous announcement, so ticks on a pool between the two
\* watermarks neither refill nor announce.
OneOkPerDip == sched = "announce" => dipped

\* A refill gives up after a bounded number of failures.  They add up over the
\* batches of a refill, and the last batch may overshoot by its workers.
RefillFailureBound ==
  failures + batch.failures < 2 * MaxFailures + RefillWorkers

\* A signal that the pool is low is lost in one way only, a count that fails
\* (scheduler.go:103-107): TriggerRefill drops it only when another one is waiting,
\* a refill that is already running when it arrives does not use it up, and a count
\* that fails while a second signal waits leaves that one.
TriggerNotLost == unanswered => refillChan \/ sched = "count" \/ missed

\* The pool recovers: once the world outside stops failing and the requests stop
\* consuming, a pool below the low watermark is refilled, even if no request ever
\* signalled it.
LowPoolRecovers == unused < LowWatermark ~> (unused >= LowWatermark \/ stopped)

\* Stop ends the scheduler goroutine, also out of the middle of a refill.
StopEndsScheduler == stopped ~> sched = "exited"

(* Three statements of the documentation that the code does not keep.      *)

\* PROGRESS_STATUS.md says that the pool never passes the high watermark.
PoolCapped == unused <= HighWatermark

\* scheduler.go says of pool.ok "we only announce a state we actually reached": some
\* time during the refill the pool was at the high watermark.
PoolOkOnlyWhenReached == sched = "announce" => reached

\* PROJECT_DOCUMENTATION.md: a key operation that leaves the pool below the
\* threshold publishes pool.low (and triggers the refill).
LowPoolIsSignalled ==
  [][\A c \in Clients :
       request[c] = "consumed" /\ request'[c] = "idle" => unused >= PoolLowThreshold]_vars

=============================================================================
