------------------------- MODULE EntropyPoolProofs -------------------------
(***************************************************************************)
(* Theorems about EntropyPool, for any watermarks, any record and failure  *)
(* counts, and any number of concurrent requests.                          *)
(***************************************************************************)
EXTENDS EntropyPool, TLAPS

-----------------------------------------------------------------------------
(* Arithmetic.                                                             *)

LEMMA Times ==
  ASSUME NEW a \in Nat, NEW b \in Nat, NEW r \in Nat
  PROVE  /\ a * r \in Nat
         /\ (a + 1) * r = a * r + r
         /\ a <= b => a * r <= b * r
OBVIOUS

LEMMA Cancel ==
  ASSUME NEW a \in Nat, NEW b \in Nat, NEW r \in Nat, a * r < b * r
  PROVE  a < b
OBVIOUS

LEMMA Quotient ==
  ASSUME NEW x \in Nat, NEW r \in Nat \ {0}
  PROVE  /\ x \div r \in Nat
         /\ (x \div r) * r <= x
         /\ x < (x \div r) * r + r
OBVIOUS

\* The fetches of a batch cover what is missing and exceed it by less than a fetch.
LEMMA RoundUp ==
  ASSUME NEW missing \in Nat \ {0}
  PROVE  /\ FetchesFor(missing) \in Nat \ {0}
         /\ missing <= FetchesFor(missing) * RecordsPerFetch
         /\ FetchesFor(missing) * RecordsPerFetch <= missing + RecordsPerFetch - 1
<1> DEFINE R == RecordsPerFetch
           x == missing + R - 1
           q == x \div R
<1>1. R \in Nat \ {0} /\ x \in Nat
  BY RefillAssumption DEF RefillAssumption
<1>2. q \in Nat /\ q * R <= x /\ x < q * R + R
  BY <1>1, Quotient
<1>3. q # 0
  <2> SUFFICES ASSUME q = 0 PROVE FALSE
    OBVIOUS
  <2>1. q * R = 0
    BY <1>1
  <2> QED BY <2>1, <1>1, <1>2
<1>4. q * R \in Nat
  BY <1>1, <1>2, Times
<1>5. FetchesFor(missing) = q
  BY DEF FetchesFor
<1> HIDE DEF q
<1> QED BY <1>1, <1>2, <1>3, <1>4, <1>5

\* No batch is larger than the one that fills an empty pool.
LEMMA LargestBatch ==
  ASSUME NEW missing \in Nat \ {0}, missing <= HighWatermark
  PROVE  FetchesFor(missing) \in 1..FetchesFor(HighWatermark)
<1> DEFINE R == RecordsPerFetch
           a == FetchesFor(missing)
           b == FetchesFor(HighWatermark)
<1>1. R \in Nat \ {0} /\ HighWatermark \in Nat \ {0}
  BY RefillAssumption, WatermarksAssumption DEF RefillAssumption, WatermarksAssumption
<1>2. a \in Nat \ {0} /\ b \in Nat \ {0}
  BY <1>1, RoundUp
<1>3. a * R <= missing + R - 1 /\ HighWatermark <= b * R
  BY <1>1, RoundUp
<1>4. a * R \in Nat /\ b * R \in Nat /\ (b + 1) * R = b * R + R
  BY <1>1, <1>2, Times
<1> HIDE DEF a, b
<1>5. a * R < (b + 1) * R
  BY <1>1, <1>2, <1>3, <1>4
<1>6. a < b + 1
  BY <1>1, <1>2, <1>5, Cancel
<1> QED BY <1>2, <1>6 DEF a, b

-----------------------------------------------------------------------------
(* The batch: what its steps keep, whoever runs it.                        *)

BatchRecords ==
  [phase : {"running", "returned"}, fetches : Nat, begun : Nat, folded : Nat,
   chunk : Nat, saved : Nat, failures : Nat]

\* A batch saves no more records than the answers it has folded can hold.
Sound(b) ==
  /\ b \in BatchRecords
  /\ b.fetches \in 1..FetchesFor(HighWatermark)
  /\ b.folded <= b.begun
  /\ b.begun <= b.fetches
  /\ b.chunk <= LargestAnswer
  /\ b.saved + b.chunk <= b.folded * LargestAnswer
  /\ b.failures <= MaxFailures + RefillWorkers

LEMMA HighestBatch == FetchesFor(HighWatermark) \in Nat \ {0}
BY RoundUp, WatermarksAssumption DEF WatermarksAssumption

LEMMA SoundType ==
  ASSUME NEW b, Sound(b)
  PROVE  b \in Batch!Batches
<1>1. /\ b \in BatchRecords
      /\ FetchesFor(HighWatermark) \in Nat
      /\ LargestAnswer \in Nat
      /\ MaxFailures + RefillWorkers \in Nat
  BY HighestBatch, RefillAssumption DEF Sound, RefillAssumption
<1>2. /\ b.folded * LargestAnswer \in Nat
      /\ b.folded * LargestAnswer <= FetchesFor(HighWatermark) * LargestAnswer
      /\ FetchesFor(HighWatermark) * LargestAnswer \in Nat
  <2>1. b.folded \in Nat /\ b.folded <= FetchesFor(HighWatermark)
    BY <1>1 DEF Sound, BatchRecords
  <2> QED BY <1>1, <2>1, Times
<1>3. /\ b.begun \in 0..FetchesFor(HighWatermark)
      /\ b.folded \in 0..FetchesFor(HighWatermark)
      /\ b.chunk \in 0..LargestAnswer
      /\ b.failures \in 0..(MaxFailures + RefillWorkers)
  BY <1>1 DEF Sound, BatchRecords
<1>4. b.saved \in 0..(FetchesFor(HighWatermark) * LargestAnswer)
  BY <1>1, <1>2 DEF Sound, BatchRecords
<1> QED BY <1>1, <1>3, <1>4 DEF Sound, BatchRecords, Batch!Batches

LEMMA NewBatchSound ==
  ASSUME NEW missing \in Nat \ {0}, missing <= HighWatermark
  PROVE  /\ Sound(Batch!NewBatch(FetchesFor(missing)))
         /\ Batch!NewBatch(FetchesFor(missing)).fetches = FetchesFor(missing)
         /\ Batch!NewBatch(FetchesFor(missing)).folded = 0
         /\ Batch!NewBatch(FetchesFor(missing)).chunk = 0
         /\ Batch!NewBatch(FetchesFor(missing)).saved = 0
         /\ Batch!NewBatch(FetchesFor(missing)).failures = 0
<1>1. FetchesFor(missing) \in 1..FetchesFor(HighWatermark)
  BY LargestBatch
<1>2. LargestAnswer \in Nat /\ MaxFailures + RefillWorkers \in Nat
  BY RefillAssumption DEF RefillAssumption
<1>3. 0 * LargestAnswer = 0
  BY <1>2
<1> HIDE DEF FetchesFor
<1> QED BY <1>1, <1>2, <1>3, HighestBatch DEF Sound, BatchRecords, Batch!NewBatch

LEMMA NoBatchSound ==
  /\ Sound(NoBatch)
  /\ NoBatch.saved = 0
  /\ NoBatch.failures = 0
<1>1. NoBatch = [phase |-> "returned", fetches |-> 1, begun |-> 0, folded |-> 0,
                 chunk |-> 0, saved |-> 0, failures |-> 0]
  BY DEF NoBatch, Batch!NewBatch
<1>2. LargestAnswer \in Nat /\ MaxFailures + RefillWorkers \in Nat
  BY RefillAssumption DEF RefillAssumption
<1>3. 0 * LargestAnswer = 0
  BY <1>2
<1> QED BY <1>1, <1>2, <1>3, HighestBatch DEF Sound, BatchRecords

\* A batch between two of its steps: same batch, nothing saved.
SameSaved == batch'.fetches = batch.fetches /\ batch'.saved = batch.saved

\* The same fetches are folded, and no more records wait to be saved.
SameFolded == batch'.folded = batch.folded /\ batch'.chunk <= batch.chunk

LEMMA BeginAndReturnKeep ==
  ASSUME Sound(batch), Batch!BeginFetch \/ Batch!Return
  PROVE  Sound(batch') /\ SameSaved /\ SameFolded
<1>1. CASE Batch!BeginFetch
  BY <1>1 DEF Batch!BeginFetch, Sound, BatchRecords, SameSaved, SameFolded
<1>2. CASE Batch!Return
  BY <1>2 DEF Batch!Return, Sound, BatchRecords, SameSaved, SameFolded
<1> QED BY <1>1, <1>2

LEMMA FoldFailureKeeps ==
  ASSUME Sound(batch), Batch!FoldFailure
  PROVE  /\ Sound(batch') /\ SameSaved
         /\ batch'.folded = batch.folded + 1
         /\ batch'.chunk = batch.chunk
<1> DEFINE half == [batch EXCEPT !.folded = @ + 1]
<1>1. /\ half \in BatchRecords
      /\ half.phase = batch.phase
      /\ half.fetches = batch.fetches
      /\ half.begun = batch.begun
      /\ half.folded = batch.folded + 1
      /\ half.chunk = batch.chunk
      /\ half.saved = batch.saved
      /\ half.failures = batch.failures
  BY DEF Sound, BatchRecords
<1>2. batch' = [half EXCEPT !.failures = batch.failures + 1]
  BY Zenon DEF Batch!FoldFailure
<1> HIDE DEF half
<1>3. /\ batch' \in BatchRecords
      /\ batch'.fetches = batch.fetches
      /\ batch'.begun = batch.begun
      /\ batch'.folded = batch.folded + 1
      /\ batch'.chunk = batch.chunk
      /\ batch'.saved = batch.saved
      /\ batch'.failures = batch.failures + 1
  BY <1>1, <1>2 DEF BatchRecords, Sound
<1>4. /\ batch.chunk = 0
      /\ batch.folded < batch.begun
      /\ batch.failures < MaxFailures + RefillWorkers
  BY DEF Batch!FoldFailure, Batch!MayFold
<1>5. /\ LargestAnswer \in Nat
      /\ MaxFailures + RefillWorkers \in Nat
      /\ batch.folded \in Nat
      /\ batch.folded * LargestAnswer \in Nat
      /\ batch'.folded * LargestAnswer = batch.folded * LargestAnswer + LargestAnswer
  <2>1. LargestAnswer \in Nat /\ MaxFailures + RefillWorkers \in Nat
    BY RefillAssumption DEF RefillAssumption
  <2>2. batch.folded \in Nat /\ batch'.folded = batch.folded + 1
    BY <1>3 DEF Sound, BatchRecords
  <2> QED BY <2>1, <2>2, Times
<1>6. /\ batch.fetches \in 1..FetchesFor(HighWatermark)
      /\ batch.begun \in Nat /\ batch.begun <= batch.fetches
      /\ batch.saved \in Nat /\ batch.saved + batch.chunk <= batch.folded * LargestAnswer
      /\ batch.failures \in Nat
  BY DEF Sound, BatchRecords
<1>7. SameSaved
  BY <1>3 DEF SameSaved
<1>8. /\ batch'.folded <= batch'.begun
      /\ batch'.chunk <= LargestAnswer
      /\ batch'.failures <= MaxFailures + RefillWorkers
  BY <1>3, <1>4, <1>5, <1>6
<1>9. batch'.saved + batch'.chunk <= batch'.folded * LargestAnswer
  BY <1>3, <1>4, <1>5, <1>6
<1>10. batch'.fetches \in 1..FetchesFor(HighWatermark) /\ batch'.begun <= batch'.fetches
  BY <1>3, <1>6
<1> QED BY <1>3, <1>7, <1>8, <1>9, <1>10 DEF Sound

LEMMA FoldChunkKeeps ==
  ASSUME Sound(batch), NEW records \in 0..LargestAnswer, Batch!FoldChunk(records)
  PROVE  /\ Sound(batch') /\ SameSaved
         /\ batch'.folded = batch.folded + 1
         /\ batch.chunk = 0
         /\ batch'.chunk = records
<1> DEFINE half == [batch EXCEPT !.folded = @ + 1]
<1>0. LargestAnswer \in Nat /\ records \in Nat
  BY RefillAssumption DEF RefillAssumption
<1>1. /\ half \in BatchRecords
      /\ half.phase = batch.phase
      /\ half.fetches = batch.fetches
      /\ half.begun = batch.begun
      /\ half.folded = batch.folded + 1
      /\ half.chunk = batch.chunk
      /\ half.saved = batch.saved
      /\ half.failures = batch.failures
  BY DEF Sound, BatchRecords
<1>2. batch' = [half EXCEPT !.chunk = records]
  BY Zenon DEF Batch!FoldChunk
<1> HIDE DEF half
<1>3. /\ batch' \in BatchRecords
      /\ batch'.fetches = batch.fetches
      /\ batch'.begun = batch.begun
      /\ batch'.folded = batch.folded + 1
      /\ batch'.chunk = records
      /\ batch'.saved = batch.saved
      /\ batch'.failures = batch.failures
  BY <1>0, <1>1, <1>2 DEF BatchRecords
<1>4. batch.chunk = 0 /\ batch.folded < batch.begun
  BY DEF Batch!FoldChunk, Batch!MayFold
<1>5. /\ batch.folded \in Nat
      /\ batch.folded * LargestAnswer \in Nat
      /\ batch'.folded * LargestAnswer = batch.folded * LargestAnswer + LargestAnswer
  BY <1>0, <1>3, Times DEF Sound, BatchRecords
<1> QED BY <1>0, <1>3, <1>4, <1>5 DEF Sound, SameSaved, BatchRecords

LEMMA LoseRecordKeeps ==
  ASSUME Sound(batch), Batch!LoseRecord
  PROVE  Sound(batch') /\ SameSaved /\ SameFolded
<1>1. batch.folded * LargestAnswer \in Nat
  BY Times, RefillAssumption DEF RefillAssumption, Sound, BatchRecords
<1> QED BY <1>1, RefillAssumption
    DEF Batch!LoseRecord, Batch!MaySave, Sound, BatchRecords, SameSaved, SameFolded,
        RefillAssumption

LEMMA SaveRecordKeeps ==
  ASSUME Sound(batch), Batch!SaveRecord
  PROVE  /\ Sound(batch')
         /\ batch'.fetches = batch.fetches
         /\ batch'.folded = batch.folded
         /\ batch'.saved = batch.saved + 1
         /\ batch'.chunk = batch.chunk - 1
         /\ batch'.failures = batch.failures
<1> DEFINE half == [batch EXCEPT !.chunk = @ - 1]
<1>0. batch.chunk > 0
  BY DEF Batch!SaveRecord, Batch!MaySave
<1>1. /\ half \in BatchRecords
      /\ half.phase = batch.phase
      /\ half.fetches = batch.fetches
      /\ half.begun = batch.begun
      /\ half.folded = batch.folded
      /\ half.chunk = batch.chunk - 1
      /\ half.saved = batch.saved
      /\ half.failures = batch.failures
  BY <1>0 DEF Sound, BatchRecords
<1>2. batch' = [half EXCEPT !.saved = batch.saved + 1]
  BY Zenon DEF Batch!SaveRecord
<1> HIDE DEF half
<1>3. /\ batch' \in BatchRecords
      /\ batch'.fetches = batch.fetches
      /\ batch'.begun = batch.begun
      /\ batch'.folded = batch.folded
      /\ batch'.chunk = batch.chunk - 1
      /\ batch'.saved = batch.saved + 1
      /\ batch'.failures = batch.failures
  BY <1>1, <1>2 DEF BatchRecords, Sound
<1>4. batch.folded * LargestAnswer \in Nat /\ LargestAnswer \in Nat
  BY Times, RefillAssumption DEF RefillAssumption, Sound, BatchRecords
<1> QED BY <1>0, <1>3, <1>4 DEF Sound, BatchRecords

-----------------------------------------------------------------------------
(* The inductive invariant.                                                *)

\* What the rest of the running refill may still add, and what it believes.
RefillInv ==
  /\ Sound(batch)
  /\ sched # "batch" => batch = NoBatch
  /\ sched \in {"loop", "batch"} => unused <= Believed
  /\ sched = "batch" => failures < MaxFailures
  /\ ~Refilling => failures = 0

\* A batch is sized for what the local count lacks: what it has saved, the answer it is
\* saving and the fetches it has not folded yet, each as long as asked for, stay within
\* the bound but for the surplus.
RoomInv ==
  sched = "batch" =>
    count + batch.saved + batch.chunk + batch.fetches * RecordsPerFetch
      <= HighWatermark + RecordsPerFetch - 1 + surplus + batch.folded * RecordsPerFetch

DipInv ==
  /\ unused < LowWatermark => dipped
  /\ Refilling => dipped

IInv ==
  /\ TypeOK
  /\ RefillInv
  /\ RoomInv
  /\ NeverOverfills
  /\ RefillFailureBound
  /\ DipInv
  /\ TriggerNotLost

\* The constants as numbers.
LEMMA Numbers ==
  /\ LowWatermark \in Nat \ {0}
  /\ HighWatermark \in Nat \ {0}
  /\ LowWatermark <= HighWatermark
  /\ RecordsPerFetch \in Nat \ {0}
  /\ LargestAnswer \in Nat
  /\ RecordsPerFetch <= LargestAnswer
  /\ MaxFailures \in Nat \ {0}
  /\ RefillWorkers \in Nat \ {0}
BY WatermarksAssumption, RefillAssumption DEF WatermarksAssumption, RefillAssumption

\* What the invariant says of the numbers of the state.
LEMMA StateNumbers ==
  ASSUME IInv
  PROVE  /\ unused \in Nat
         /\ count \in Nat
         /\ failures \in Nat
         /\ surplus \in Nat
         /\ batch.saved \in Nat
         /\ batch.failures \in Nat
         /\ batch.fetches \in Nat
         /\ batch.folded \in Nat
         /\ batch.chunk \in Nat
         /\ batch.failures <= MaxFailures + RefillWorkers
         /\ NoBatch.saved = 0
         /\ NoBatch.failures = 0
         /\ Sound(NoBatch)
BY NoBatchSound DEF IInv, TypeOK, RefillInv, Sound, BatchRecords

\* A fault is counted within its bound.
LEMMA FaultCounted ==
  ASSUME TypeOK, Fault
  PROVE  faults' \in 0..MaxFaults
<1>1. MaxFaults \in Nat
  BY ConsumptionAssumption DEF ConsumptionAssumption
<1> QED BY <1>1 DEF TypeOK, Fault

LEMMA InitInv == Init => IInv
<1> SUFFICES ASSUME Init PROVE IInv
  OBVIOUS
<1>1. /\ unused = 0
      /\ sched = "select"
      /\ count = 0
      /\ failures = 0
      /\ surplus = 0
      /\ batch = NoBatch
      /\ request = [c \in Clients |-> "idle"]
  BY DEF Init
<1>2. Sound(batch) /\ batch.failures = 0
  BY <1>1, NoBatchSound
<1>3. TypeOK
  <2>1. batch \in Batch!Batches
    BY <1>2, SoundType
  <2>2. 0 \in 0..MaxOperations /\ 0 \in 0..MaxFaults
    BY ConsumptionAssumption DEF ConsumptionAssumption
  <2>3. operations = 0 /\ faults = 0 /\ dipped \in BOOLEAN /\ unanswered \in BOOLEAN
        /\ missed \in BOOLEAN /\ reached \in BOOLEAN
        /\ stopped \in BOOLEAN /\ refillChan \in BOOLEAN /\ tick \in BOOLEAN
    BY DEF Init
  <2>4. request \in [Clients -> RequestStates]
    BY <1>1 DEF RequestStates
  <2> QED BY <1>1, <2>1, <2>2, <2>3, <2>4 DEF TypeOK, SchedulerStates
<1>4. RefillInv /\ RoomInv
  BY <1>1, <1>2 DEF RefillInv, RoomInv
<1>5. NeverOverfills /\ RefillFailureBound
  BY <1>1, <1>2, Numbers DEF NeverOverfills, RefillFailureBound
<1>6. DipInv /\ TriggerNotLost
  BY <1>1 DEF Init, DipInv, Refilling, TriggerNotLost
<1> QED BY <1>3, <1>4, <1>5, <1>6 DEF IInv

-----------------------------------------------------------------------------
(* The steps of the scheduler around a batch.                              *)

PoolInv == RefillInv /\ RoomInv /\ NeverOverfills /\ RefillFailureBound /\ DipInv

\* The steps that leave the pool, the batch and both local numbers alone.
LEMMA QuietSteps ==
  ASSUME IInv,
         UNCHANGED <<unused, count, failures, batch, dipped, surplus>>,
         \/ sched' = sched
         \/ sched \in {"select", "count"} /\ sched' \in {"select", "count", "exited"}
  PROVE  PoolInv'
<1>1. RefillInv'
  BY DEF IInv, RefillInv, Believed, Refilling
<1>2. RoomInv' /\ NeverOverfills' /\ RefillFailureBound'
  BY DEF IInv, RoomInv, NeverOverfills, RefillFailureBound
<1>3. DipInv'
  BY DEF IInv, DipInv, Refilling
<1> QED BY <1>1, <1>2, <1>3 DEF PoolInv

LEMMA WakingSteps ==
  ASSUME IInv, Tick \/ WakeOnTrigger \/ WakeOnTick \/ Exit \/ Stop
  PROVE  IInv'
<1> USE DEF histVars, signalVars, refillVars, loopVars
<1>1. TypeOK'
  BY DEF Tick, WakeOnTrigger, WakeOnTick, Exit, Stop, Batch!RequestStop, IInv, TypeOK,
         SchedulerStates, wakeVars, boundVars
<1>2. PoolInv'
  <2>1. UNCHANGED <<unused, count, failures, batch, dipped, surplus>>
    BY DEF Tick, WakeOnTrigger, WakeOnTick, Exit, Stop, Batch!RequestStop
  <2>2. \/ sched' = sched
        \/ sched = "select" /\ sched' \in {"count", "exited"}
    BY DEF Tick, WakeOnTrigger, WakeOnTick, Exit, Stop
  <2> QED BY <2>1, <2>2, QuietSteps
<1>3. TriggerNotLost'
  BY DEF Tick, WakeOnTrigger, WakeOnTick, Exit, Stop, Batch!RequestStop, IInv,
         TriggerNotLost, wakeVars
<1> QED BY <1>1, <1>2, <1>3 DEF IInv, PoolInv

LEMMA CountPoolStep ==
  ASSUME IInv, CountPool
  PROVE  IInv'
<1>1. /\ sched = "count"
      /\ \/ unused >= LowWatermark /\ sched' = "select" /\ count' = count
            /\ surplus' = surplus
         \/ unused < LowWatermark /\ sched' = "loop" /\ count' = unused /\ surplus' = 0
      /\ unanswered' = FALSE
      /\ missed' = FALSE
      /\ UNCHANGED <<unused, stopped, refillChan, tick, failures, batch, request,
                     operations, faults, dipped, reached>>
  BY DEF CountPool, BeginRefill, wakeVars, boundVars
<1>2. batch = NoBatch /\ failures = 0
  BY <1>1 DEF IInv, RefillInv, Refilling
<1>3. TypeOK'
  <2>1. count' \in Nat /\ surplus' \in Nat /\ sched' \in {"select", "loop"}
    BY <1>1, StateNumbers
  <2>2. unanswered' \in BOOLEAN /\ missed' \in BOOLEAN
    BY <1>1
  <2> QED BY <1>1, <2>1, <2>2 DEF IInv, TypeOK, SchedulerStates
<1>4. RefillInv' /\ RoomInv'
  BY <1>1, <1>2, StateNumbers DEF RefillInv, RoomInv, Believed
<1>5. NeverOverfills' /\ RefillFailureBound'
  BY <1>1, <1>2, StateNumbers, Numbers DEF IInv, NeverOverfills, RefillFailureBound
<1>6. DipInv'
  BY <1>1 DEF IInv, DipInv, Refilling
<1>7. TriggerNotLost'
  BY <1>1 DEF TriggerNotLost
<1> QED BY <1>3, <1>4, <1>5, <1>6, <1>7 DEF IInv

LEMMA CountFailsStep ==
  ASSUME IInv, CountFails
  PROVE  IInv'
<1> USE DEF refillVars, loopVars
<1>1. /\ sched = "count" /\ sched' = "select"
      /\ missed' = (unanswered /\ ~refillChan)
      /\ UNCHANGED <<unused, stopped, refillChan, tick, count, failures, batch, request,
                     operations, dipped, unanswered, surplus, reached>>
  BY DEF CountFails, wakeVars
<1>2. unanswered \in BOOLEAN /\ refillChan \in BOOLEAN
  BY DEF IInv, TypeOK
<1>3. missed' \in BOOLEAN
  <2> HIDE DEF CountFails
  <2> QED BY <1>1, <1>2, Zenon
<1>4. TypeOK'
  <2>1. faults' \in 0..MaxFaults
    BY FaultCounted DEF IInv, CountFails
  <2> QED BY <1>1, <1>3, <2>1 DEF IInv, TypeOK, SchedulerStates
<1>5. PoolInv'
  BY <1>1, QuietSteps
<1>6. TriggerNotLost'
  BY <1>1, <1>2 DEF TriggerNotLost
<1> QED BY <1>4, <1>5, <1>6 DEF IInv, PoolInv

\* collectEntropy is left, or about to be, by the loop's test or by its break.
LEMMA LeaveLoopKeeps ==
  ASSUME IInv, LeaveLoop, sched \in {"loop", "batch"}, batch' = NoBatch,
         UNCHANGED <<unused, dipped, surplus>>
  PROVE  /\ PoolInv'
         /\ sched' \in SchedulerStates
         /\ count' \in Nat /\ failures' \in Nat /\ reached' \in BOOLEAN
<1> USE DEF LeaveLoop, ReturnFromRefill, loopVars
<1>1. sched' \in {"announce", "select"} /\ failures' \in {failures, 0}
  OBVIOUS
<1>2. count' \in {count, 0} /\ reached' \in {reached, FALSE}
  OBVIOUS
<1>3. RefillInv' /\ RoomInv'
  BY <1>1, StateNumbers DEF IInv, RefillInv, RoomInv, Refilling
<1>4. NeverOverfills'
  BY DEF IInv, NeverOverfills
<1>5. RefillFailureBound'
  BY <1>1, StateNumbers, Numbers DEF IInv, RefillFailureBound
<1>6. DipInv'
  BY <1>1 DEF IInv, DipInv, Refilling
<1>7. PoolInv'
  BY <1>3, <1>4, <1>5, <1>6 DEF PoolInv
<1>8. count' \in Nat /\ failures' \in Nat
  BY <1>1, <1>2, StateNumbers
<1>9. reached' \in BOOLEAN
  <2>1. reached \in BOOLEAN
    BY DEF IInv, TypeOK
  <2> HIDE DEF LeaveLoop
  <2> QED BY <1>2, <2>1
<1> HIDE DEF LeaveLoop
<1> QED BY <1>1, <1>7, <1>8, <1>9 DEF SchedulerStates

LEMMA EndLoopStep ==
  ASSUME IInv, EndLoop
  PROVE  IInv'
<1>1. /\ sched = "loop" /\ LeaveLoop
      /\ UNCHANGED <<unused, stopped, refillChan, tick, batch, request, operations,
                     faults, dipped, unanswered, missed, surplus>>
  BY DEF EndLoop, wakeVars, boundVars, signalVars
<1>2. batch' = NoBatch
  BY <1>1 DEF IInv, RefillInv
<1>3. /\ PoolInv'
      /\ sched' \in SchedulerStates
      /\ count' \in Nat /\ failures' \in Nat /\ reached' \in BOOLEAN
  BY <1>1, <1>2, LeaveLoopKeeps
<1>4. TypeOK'
  BY <1>1, <1>3 DEF IInv, TypeOK
<1>5. TriggerNotLost'
  BY <1>1 DEF IInv, TriggerNotLost
<1> QED BY <1>3, <1>4, <1>5 DEF IInv, PoolInv

LEMMA AnnounceStep ==
  ASSUME IInv, AnnouncePoolOk
  PROVE  IInv'
<1>1. /\ sched = "announce" /\ sched' = "select"
      /\ count' = 0 /\ failures' = 0 /\ reached' = FALSE
      /\ dipped' = (unused < LowWatermark)
      /\ UNCHANGED <<unused, stopped, refillChan, tick, batch, request, operations,
                     faults, unanswered, missed, surplus>>
  BY DEF AnnouncePoolOk, ReturnFromRefill, wakeVars, boundVars, signalVars
<1>2. dipped' \in BOOLEAN
  <2>1. CASE unused < LowWatermark
    BY <1>1, <2>1
  <2>2. CASE ~(unused < LowWatermark)
    BY <1>1, <2>2
  <2> QED BY <2>1, <2>2
<1>3. TypeOK'
  BY <1>1, <1>2 DEF IInv, TypeOK, SchedulerStates
<1>4. RefillInv' /\ RoomInv'
  BY <1>1 DEF IInv, RefillInv, RoomInv
<1>5. NeverOverfills'
  BY <1>1 DEF IInv, NeverOverfills
<1>6. RefillFailureBound'
  BY <1>1, StateNumbers, Numbers DEF IInv, RefillFailureBound
<1>7. DipInv' /\ TriggerNotLost'
  BY <1>1 DEF IInv, DipInv, Refilling, TriggerNotLost
<1> QED BY <1>3, <1>4, <1>5, <1>6, <1>7 DEF IInv

-----------------------------------------------------------------------------
(* The steps of a batch.                                                   *)

\* A new batch is sized to what the local count says is missing.
LEMMA StartBatchStep ==
  ASSUME IInv, StartBatch
  PROVE  IInv'
<1> DEFINE missing == HighWatermark - count
<1>1. /\ sched = "loop" /\ sched' = "batch"
      /\ count < HighWatermark /\ failures < MaxFailures
      /\ batch' = Batch!NewBatch(FetchesFor(missing))
      /\ UNCHANGED <<unused, stopped, refillChan, tick, count, failures, request,
                     operations, faults, dipped, unanswered, missed, surplus, reached>>
  BY DEF StartBatch, KeepRefilling, wakeVars, loopVars, boundVars, histVars, signalVars,
         refillVars
<1>2. missing \in Nat \ {0} /\ missing <= HighWatermark
  BY <1>1, StateNumbers, Numbers
<1>3. /\ Sound(batch')
      /\ batch'.fetches = FetchesFor(missing)
      /\ batch'.folded = 0
      /\ batch'.chunk = 0
      /\ batch'.saved = 0
      /\ batch'.failures = 0
  BY <1>1, <1>2, NewBatchSound
<1>4. /\ FetchesFor(missing) * RecordsPerFetch <= missing + RecordsPerFetch - 1
      /\ FetchesFor(missing) * RecordsPerFetch \in Nat
  BY <1>2, RoundUp, Times, Numbers
<1> HIDE DEF missing
<1>5. batch = NoBatch
  BY <1>1 DEF IInv, RefillInv
<1>6. TypeOK'
  <2>1. batch' \in Batch!Batches
    BY <1>3, SoundType
  <2> QED BY <1>1, <2>1 DEF IInv, TypeOK, SchedulerStates
<1>7. RefillInv'
  <2>1. unused <= count + batch'.saved
    BY <1>1, <1>3, <1>5, StateNumbers DEF IInv, RefillInv, Believed
  <2> QED BY <1>1, <1>3, <2>1 DEF RefillInv, Believed, Refilling
<1>8. RoomInv'
  <2>1. batch'.folded * RecordsPerFetch = 0
    BY <1>3, Numbers
  <2>2. count + FetchesFor(missing) * RecordsPerFetch
          <= HighWatermark + RecordsPerFetch - 1 + surplus
    BY <1>4, StateNumbers, Numbers DEF missing
  <2> QED BY <1>1, <1>3, <1>4, <2>1, <2>2, StateNumbers, Numbers DEF RoomInv
<1>9. NeverOverfills' /\ RefillFailureBound'
  BY <1>1, <1>3, <1>5, StateNumbers, Numbers
  DEF IInv, NeverOverfills, RefillFailureBound
<1>10. DipInv' /\ TriggerNotLost'
  BY <1>1 DEF IInv, DipInv, Refilling, TriggerNotLost
<1> QED BY <1>6, <1>7, <1>8, <1>9, <1>10 DEF IInv

\* A batch that has saved nothing more keeps the invariant if it keeps its room.
LEMMA UnsavedKeeps ==
  ASSUME IInv, sched = "batch", Sound(batch'), SameSaved, RoomInv',
         surplus' \in Nat, surplus' >= surplus, faults' \in 0..MaxFaults,
         UNCHANGED <<unused, stopped, sched, refillChan, tick, count, failures, request,
                     operations, dipped, unanswered, missed, reached>>
  PROVE  IInv'
<1>1. TypeOK'
  <2>1. batch' \in Batch!Batches
    BY SoundType
  <2> QED BY <2>1 DEF IInv, TypeOK
<1>2. RefillInv'
  BY DEF IInv, RefillInv, Believed, SameSaved, Refilling
<1>3. NeverOverfills'
  BY StateNumbers, Numbers DEF IInv, NeverOverfills
<1>4. RefillFailureBound'
  <2>1. batch'.failures \in Nat /\ batch'.failures <= MaxFailures + RefillWorkers
    BY DEF Sound, BatchRecords
  <2>2. failures < MaxFailures
    BY DEF IInv, RefillInv
  <2> QED BY <2>1, <2>2, StateNumbers, Numbers DEF RefillFailureBound
<1>5. DipInv' /\ TriggerNotLost'
  BY DEF IInv, DipInv, Refilling, TriggerNotLost
<1> QED BY <1>1, <1>2, <1>3, <1>4, <1>5 DEF IInv

\* A folded fetch needs no more room for itself, whatever has come of it.
LEMMA FoldedRoom ==
  ASSUME IInv, sched = "batch", UNCHANGED <<sched, count>>, SameSaved, Sound(batch'),
         batch'.folded = batch.folded + 1, surplus' \in Nat,
         batch'.chunk + surplus <= batch.chunk + RecordsPerFetch + surplus'
  PROVE  RoomInv'
<1> DEFINE before == batch.folded * RecordsPerFetch
           after == batch'.folded * RecordsPerFetch
           all == batch.fetches * RecordsPerFetch
<1>1. after = before + RecordsPerFetch /\ before \in Nat /\ all \in Nat
  BY StateNumbers, Numbers, Times
<1>2. count + batch.saved + batch.chunk + all
        <= HighWatermark + RecordsPerFetch - 1 + surplus + before
  BY DEF IInv, RoomInv
<1>3. batch'.chunk \in Nat
  BY DEF Sound, BatchRecords
<1> HIDE DEF before, after, all
<1>4. count + batch.saved + batch'.chunk + all
        <= HighWatermark + RecordsPerFetch - 1 + surplus' + after
  BY <1>1, <1>2, <1>3, StateNumbers, Numbers
<1> QED BY <1>4 DEF RoomInv, SameSaved, after, all

\* The steps of the batch that save nothing and get what was asked for, or fail.
LEMMA UnsavedSteps ==
  ASSUME IInv, BatchProceeds \/ BatchSuffers
  PROVE  IInv'
<1>1. /\ sched = "batch"
      /\ UNCHANGED <<unused, sched, refillChan, tick, count, failures, request,
                     operations, dipped, unanswered, missed, surplus, reached>>
  BY DEF BatchProceeds, BatchSuffers, wakeVars, loopVars, boundVars, histVars,
         signalVars, refillVars
<1>2. stopped' = stopped
  BY DEF BatchProceeds, BatchSuffers, Batch!BeginFetch, Batch!FoldChunk, Batch!Return,
         Batch!FoldFailure, Batch!LoseRecord
<1>3. Sound(batch)
  BY DEF IInv, RefillInv
<1>4. faults' \in 0..MaxFaults
  BY FaultCounted DEF BatchProceeds, BatchSuffers, boundVars, IInv, TypeOK
<1>5. CASE Batch!BeginFetch \/ Batch!Return \/ Batch!LoseRecord
  <2>1. Sound(batch') /\ SameSaved /\ SameFolded
    BY <1>3, <1>5, BeginAndReturnKeep, LoseRecordKeeps
  <2>2. batch'.chunk \in Nat
    BY <2>1 DEF Sound, BatchRecords
  <2>3. batch.fetches * RecordsPerFetch \in Nat /\ batch.folded * RecordsPerFetch \in Nat
    BY StateNumbers, Numbers, Times
  <2>4. RoomInv'
    BY <1>1, <2>1, <2>2, <2>3, StateNumbers, Numbers
    DEF IInv, RoomInv, SameSaved, SameFolded
  <2> QED BY <1>1, <1>2, <1>4, <2>1, <2>4, StateNumbers, UnsavedKeeps
<1>6. CASE Batch!FoldFailure
  <2>1. Sound(batch') /\ SameSaved /\ batch'.folded = batch.folded + 1
        /\ batch'.chunk = batch.chunk
    BY <1>3, <1>6, FoldFailureKeeps
  <2>2. RoomInv'
    BY <1>1, <2>1, StateNumbers, Numbers, FoldedRoom
  <2> QED BY <1>1, <1>2, <1>4, <2>1, <2>2, StateNumbers, UnsavedKeeps
<1>7. CASE Batch!FoldChunk(RecordsPerFetch)
  <2>1. RecordsPerFetch \in 0..LargestAnswer
    BY Numbers
  <2>2. Sound(batch') /\ SameSaved /\ batch'.folded = batch.folded + 1
        /\ batch.chunk = 0 /\ batch'.chunk = RecordsPerFetch
    BY <1>3, <1>7, <2>1, FoldChunkKeeps
  <2>3. RoomInv'
    BY <1>1, <2>2, StateNumbers, Numbers, FoldedRoom
  <2> QED BY <1>1, <1>2, <1>4, <2>2, <2>3, StateNumbers, UnsavedKeeps
<1> QED BY <1>5, <1>6, <1>7 DEF BatchProceeds, BatchSuffers

\* An answer of another length: what is too much of it is surplus.
LEMMA MissizedStep ==
  ASSUME IInv, BatchMissized
  PROVE  IInv'
<1>1. PICK records \in 0..LargestAnswer :
        /\ Batch!FoldChunk(records)
        /\ surplus' = surplus + Excess(records)
  BY DEF BatchMissized
<1>2. /\ sched = "batch"
      /\ UNCHANGED <<unused, sched, refillChan, tick, count, failures, request,
                     operations, dipped, unanswered, missed, reached>>
  BY DEF BatchMissized, wakeVars, loopVars, signalVars
<1>3. stopped' = stopped
  BY <1>1 DEF Batch!FoldChunk
<1>4. faults' \in 0..MaxFaults
  BY FaultCounted DEF BatchMissized, IInv
<1>5. Sound(batch') /\ SameSaved /\ batch'.folded = batch.folded + 1
      /\ batch.chunk = 0 /\ batch'.chunk = records
  BY <1>1, FoldChunkKeeps DEF IInv, RefillInv
<1>6. /\ records \in Nat
      /\ Excess(records) \in Nat
      /\ records <= RecordsPerFetch + Excess(records)
  BY Numbers DEF Excess
<1>7. /\ surplus' \in Nat /\ surplus' >= surplus
      /\ batch'.chunk + surplus <= batch.chunk + RecordsPerFetch + surplus'
  BY <1>1, <1>5, <1>6, StateNumbers, Numbers
<1>8. RoomInv'
  BY <1>2, <1>5, <1>7, FoldedRoom
<1> QED BY <1>2, <1>3, <1>4, <1>5, <1>7, <1>8, UnsavedKeeps

\* A saved record: the pool still holds no more than the refill believes, and that
\* is no more than the batch can still bring it to.
LEMMA BatchSavesStep ==
  ASSUME IInv, BatchSaves
  PROVE  IInv'
<1>1. /\ sched = "batch"
      /\ unused' = unused + 1
      /\ Batch!SaveRecord
      /\ reached' = (reached \/ unused' >= HighWatermark)
      /\ UNCHANGED <<sched, refillChan, tick, count, failures, request, operations,
                     faults, dipped, unanswered, missed, surplus>>
  BY DEF BatchSaves, wakeVars, loopVars, boundVars, signalVars
<1>2. stopped' = stopped
  BY <1>1 DEF Batch!SaveRecord
<1>3. /\ Sound(batch')
      /\ batch'.fetches = batch.fetches
      /\ batch'.folded = batch.folded
      /\ batch'.saved = batch.saved + 1
      /\ batch'.chunk = batch.chunk - 1
      /\ batch'.failures = batch.failures
  BY <1>1, SaveRecordKeeps DEF IInv, RefillInv
<1>4. TypeOK'
  <2>1. batch' \in Batch!Batches
    BY <1>3, SoundType
  <2>2. reached' \in BOOLEAN
    BY <1>1, Zenon
  <2> QED BY <1>1, <1>2, <2>1, <2>2 DEF IInv, TypeOK
<1>5. unused' <= count + batch'.saved
  BY <1>1, <1>3, StateNumbers DEF IInv, RefillInv, Believed
<1>6. RefillInv'
  BY <1>1, <1>3, <1>5 DEF IInv, RefillInv, Believed, Refilling
<1>7. /\ batch'.saved \in Nat /\ batch'.chunk \in Nat /\ batch'.folded \in Nat
      /\ batch'.fetches \in Nat /\ batch'.folded <= batch'.fetches
  BY <1>3 DEF Sound, BatchRecords
<1>8. /\ batch'.folded * RecordsPerFetch <= batch'.fetches * RecordsPerFetch
      /\ batch'.folded * RecordsPerFetch \in Nat
      /\ batch'.fetches * RecordsPerFetch \in Nat
  BY <1>7, Times, Numbers
<1>9. RoomInv'
  BY <1>1, <1>3, <1>8, StateNumbers, Numbers DEF IInv, RoomInv
<1>10. NeverOverfills'
  <2>1. count + batch'.saved + batch'.chunk + batch'.fetches * RecordsPerFetch
          <= HighWatermark + RecordsPerFetch - 1 + surplus
               + batch'.folded * RecordsPerFetch
    BY <1>1, <1>9 DEF RoomInv
  <2>2. count + batch'.saved <= HighWatermark + RecordsPerFetch - 1 + surplus
    BY <1>7, <1>8, <2>1, StateNumbers, Numbers
  <2> QED BY <1>1, <1>5, <1>7, <2>2, StateNumbers, Numbers DEF NeverOverfills
<1>11. RefillFailureBound'
  BY <1>1, <1>3 DEF IInv, RefillFailureBound
<1>12. DipInv' /\ TriggerNotLost'
  <2>1. unused' < LowWatermark => unused < LowWatermark
    BY <1>1, StateNumbers, Numbers
  <2> QED BY <1>1, <2>1 DEF IInv, DipInv, Refilling, TriggerNotLost
<1> QED BY <1>4, <1>6, <1>9, <1>10, <1>11, <1>12 DEF IInv

LEMMA AddUpStep ==
  ASSUME IInv, AddUp
  PROVE  IInv'
<1>1. /\ sched = "batch" /\ batch' = NoBatch
      /\ GoOn(batch.saved) \/ LeaveLoop
      /\ UNCHANGED <<unused, stopped, refillChan, tick, request, operations, faults,
                     dipped, unanswered, missed, surplus>>
  BY DEF AddUp, wakeVars, boundVars, signalVars
<1>2. batch' \in Batch!Batches
  BY <1>1, NoBatchSound, SoundType
<1>3. /\ PoolInv'
      /\ sched' \in SchedulerStates
      /\ count' \in Nat /\ failures' \in Nat /\ reached' \in BOOLEAN
  <2>1. CASE GoOn(batch.saved)
    <3>1. /\ sched' = "loop" /\ reached' = reached
          /\ count' = count + batch.saved
          /\ failures' = failures + batch.failures
      BY <2>1 DEF GoOn
    <3>2. RefillInv' /\ RoomInv'
      BY <1>1, <3>1, StateNumbers DEF IInv, RefillInv, RoomInv, Believed, Refilling
    <3>3. NeverOverfills' /\ RefillFailureBound'
      BY <1>1, <3>1, StateNumbers, Numbers DEF IInv, NeverOverfills, RefillFailureBound
    <3>4. DipInv'
      BY <1>1, <3>1 DEF IInv, DipInv, Refilling
    <3> QED BY <3>1, <3>2, <3>3, <3>4, StateNumbers
        DEF PoolInv, IInv, TypeOK, SchedulerStates
  <2>2. CASE LeaveLoop
    BY <1>1, <2>2, LeaveLoopKeeps
  <2> QED BY <1>1, <2>1, <2>2
<1>4. TypeOK'
  BY <1>1, <1>2, <1>3 DEF IInv, TypeOK
<1>5. TriggerNotLost'
  BY <1>1, <1>3 DEF IInv, TriggerNotLost
<1> QED BY <1>3, <1>4, <1>5 DEF IInv, PoolInv

-----------------------------------------------------------------------------
(* The steps of the requests.                                              *)

LEMMA ConsumeStep ==
  ASSUME IInv, NEW c \in Clients, Consume(c)
  PROVE  IInv'
<1>1. PICK n \in {EntropyPerKey, EntropyPerExport} :
        /\ n <= unused
        /\ unused' = unused - n
        /\ dipped' = (dipped \/ unused - n < LowWatermark)
  BY DEF Consume
<1>2. n \in Nat \ {0}
  BY ConsumptionAssumption DEF ConsumptionAssumption
<1>3. unused' \in Nat /\ unused' < unused
  BY <1>1, <1>2, StateNumbers
<1>4. /\ operations < MaxOperations /\ operations' = operations + 1
      /\ request' = [request EXCEPT ![c] = "consumed"]
      /\ UNCHANGED <<stopped, refillChan, tick, sched, count, failures, batch, faults,
                     unanswered, missed, surplus, reached>>
  BY DEF Consume, wakeVars, loopVars, signalVars, refillVars
<1>5. TypeOK'
  <2>1. dipped' \in BOOLEAN
    BY <1>1, Zenon
  <2>2. operations' \in 0..MaxOperations
    BY <1>4, ConsumptionAssumption DEF IInv, TypeOK, ConsumptionAssumption
  <2> QED BY <1>3, <1>4, <2>1, <2>2 DEF IInv, TypeOK, RequestStates
<1>6. RefillInv' /\ RoomInv'
  BY <1>3, <1>4, StateNumbers DEF IInv, RefillInv, RoomInv, Believed, Refilling
<1>7. NeverOverfills' /\ RefillFailureBound'
  BY <1>3, <1>4, StateNumbers, Numbers DEF IInv, NeverOverfills, RefillFailureBound
<1>8. DipInv'
  <2>1. dipped => dipped'
    BY <1>1
  <2>2. unused' < LowWatermark => dipped'
    BY <1>1
  <2> QED BY <1>4, <2>1, <2>2 DEF IInv, DipInv, Refilling
<1>9. TriggerNotLost'
  BY <1>4 DEF IInv, TriggerNotLost
<1> QED BY <1>5, <1>6, <1>7, <1>8, <1>9 DEF IInv

LEMMA RequestSteps ==
  ASSUME IInv, NEW c \in Clients, RequestStep(c)
  PROVE  IInv'
<1> USE DEF histVars, signalVars, refillVars
<1>1. /\ UNCHANGED <<unused, stopped, tick, sched, count, failures, batch, operations,
                     dipped, surplus, reached>>
      /\ \E r \in RequestStates : request' = [request EXCEPT ![c] = r]
  BY DEF RequestStep, Complete, Abort, Check, CheckFails, TriggerRefill, RequestStates,
         wakeVars, loopVars, boundVars
<1>2. \/ UNCHANGED <<refillChan, unanswered, missed>>
      \/ refillChan' = TRUE /\ unanswered' = TRUE /\ missed' = FALSE
  BY DEF RequestStep, Complete, Abort, Check, CheckFails, TriggerRefill, wakeVars
<1>3. faults' \in 0..MaxFaults
  BY FaultCounted
  DEF RequestStep, Complete, Abort, Check, CheckFails, TriggerRefill, boundVars, IInv, TypeOK
<1>4. TypeOK'
  BY <1>1, <1>2, <1>3 DEF IInv, TypeOK
<1>5. PoolInv'
  BY <1>1, QuietSteps
<1>6. TriggerNotLost'
  BY <1>1, <1>2 DEF IInv, TriggerNotLost
<1> QED BY <1>4, <1>5, <1>6 DEF IInv, PoolInv

LEMMA InvStep == IInv /\ [Next]_vars => IInv'
<1> SUFFICES ASSUME IInv, [Next]_vars PROVE IInv'
  OBVIOUS
<1>1. CASE SchedulerStep
  BY <1>1, WakingSteps, CountPoolStep, CountFailsStep, StartBatchStep, EndLoopStep,
     UnsavedSteps, MissizedStep, BatchSavesStep, AddUpStep, AnnounceStep DEF SchedulerStep
<1>2. CASE Tick \/ Exit \/ Stop
  BY <1>2, WakingSteps
<1>3. ASSUME NEW c \in Clients, Consume(c) \/ RequestStep(c) PROVE IInv'
  BY <1>3, ConsumeStep, RequestSteps
<1>4. CASE UNCHANGED vars
  <2> USE DEF vars, wakeVars, loopVars, boundVars, histVars, signalVars, refillVars
  <2>1. TypeOK'
    BY <1>4 DEF IInv, TypeOK
  <2>2. PoolInv'
    BY <1>4, QuietSteps
  <2>3. TriggerNotLost'
    BY <1>4 DEF IInv, TriggerNotLost
  <2> QED BY <2>1, <2>2, <2>3 DEF IInv, PoolInv
<1> QED BY <1>1, <1>2, <1>3, <1>4 DEF Next

\* Pool, local count, running batch and pending signals stay consistent, however
\* refill, requests and faults interleave.
THEOREM Invariance == Spec => []IInv
BY InitInv, InvStep, PTL DEF Spec

-----------------------------------------------------------------------------
(* The properties.                                                         *)

\* Every variable of EntropyPool keeps its type.
THEOREM TypeCorrect == Spec => []TypeOK
<1>1. IInv => TypeOK
  BY DEF IInv
<1> QED BY <1>1, Invariance, PTL

\* However many requests consume while collectEntropy works with its stale count, and
\* whatever the API answers, the refill never brings the pool above the high watermark
\* by more than the round-up of its last fetch and what the API has sent unasked.
THEOREM PoolBounded == Spec => []NeverOverfills
<1>1. IInv => NeverOverfills
  BY DEF IInv
<1> QED BY <1>1, Invariance, PTL

\* One refill of collectEntropy ends with fewer than 2 * maxFailures + refillWorkers
\* failed fetches.
THEOREM FailuresBounded == Spec => []RefillFailureBound
<1>1. IInv => RefillFailureBound
  BY DEF IInv
<1> QED BY <1>1, Invariance, PTL

\* A signal sent through the one-slot channel is still waiting, or being answered,
\* until the pool has been counted after it, unless the count it has woken fails.
THEOREM SignalKept == Spec => []TriggerNotLost
<1>1. IInv => TriggerNotLost
  BY DEF IInv
<1> QED BY <1>1, Invariance, PTL

\* pool.ok is announced at most once for each time the pool fell below the low
\* watermark.
THEOREM AnnouncedOncePerDip == Spec => []OneOkPerDip
<1>1. IInv => OneOkPerDip
  BY DEF IInv, DipInv, OneOkPerDip, Refilling
<1> QED BY <1>1, Invariance, PTL

\* One step of LocalCountDrift.
DriftStep ==
  Refilling /\ Refilling' =>
    \/ Believed' - unused' = Believed - unused
    \/ unused' < unused /\ Believed' = Believed

LEMMA DriftOfStep == IInv /\ Next => DriftStep
<1> SUFFICES ASSUME IInv, Next, Refilling, Refilling'
             PROVE  \/ Believed' - unused' = Believed - unused
                    \/ unused' < unused /\ Believed' = Believed
  BY DEF DriftStep
<1>1. ASSUME UNCHANGED <<unused, count, batch>>
      PROVE  Believed' - unused' = Believed - unused
  BY <1>1 DEF Believed
<1>2. CASE SchedulerStep
  <2>1. CASE WakeOnTrigger \/ WakeOnTick \/ CountPool \/ CountFails
    BY <2>1 DEF WakeOnTrigger, WakeOnTick, CountPool, CountFails, Refilling
  <2>2. CASE StartBatch
    <3>1. /\ sched = "loop"
          /\ batch' = Batch!NewBatch(FetchesFor(HighWatermark - count))
          /\ unused' = unused /\ count' = count
      BY <2>2 DEF StartBatch, loopVars
    <3>2. batch'.saved = 0
      BY <3>1 DEF Batch!NewBatch
    <3>3. batch.saved = 0
      BY <3>1, StateNumbers DEF IInv, RefillInv
    <3> QED BY <3>1, <3>2, <3>3 DEF Believed
  <2>3. CASE EndLoop \/ AnnouncePoolOk
    <3>1. sched' # "select"
      BY DEF Refilling
    <3>2. UNCHANGED <<unused, count, batch>>
      BY <2>3, <3>1 DEF EndLoop, AnnouncePoolOk, LeaveLoop, ReturnFromRefill, loopVars
    <3> QED BY <3>2, <1>1
  <2>4. CASE BatchProceeds \/ BatchMissized \/ BatchSuffers
    <3>1. SameSaved
      <4>1. Sound(batch) /\ RecordsPerFetch \in 0..LargestAnswer
        BY Numbers DEF IInv, RefillInv
      <4> QED BY <2>4, <4>1, BeginAndReturnKeep, FoldFailureKeeps, FoldChunkKeeps,
                 LoseRecordKeeps DEF BatchProceeds, BatchMissized, BatchSuffers
    <3>2. unused' = unused /\ count' = count
      BY <2>4 DEF BatchProceeds, BatchMissized, BatchSuffers, loopVars
    <3> QED BY <3>1, <3>2 DEF Believed, SameSaved
  <2>5. CASE BatchSaves
    <3>1. batch'.saved = batch.saved + 1 /\ unused' = unused + 1 /\ count' = count
      BY <2>5, SaveRecordKeeps DEF BatchSaves, IInv, RefillInv, loopVars
    <3> QED BY <3>1, StateNumbers DEF Believed
  <2>6. CASE AddUp
    <3>1. sched' # "select"
      BY DEF Refilling
    <3>2. batch.saved + batch.failures = 0 => batch.saved = 0
      BY StateNumbers
    <3>3. batch' = NoBatch /\ unused' = unused
      BY <2>6 DEF AddUp
    <3>4. count' = count + batch.saved
      BY <2>6, <3>1, <3>2, StateNumbers
      DEF AddUp, GoOn, LeaveLoop, ReturnFromRefill, loopVars
    <3> QED BY <3>3, <3>4, StateNumbers DEF Believed
  <2> QED BY <1>2, <2>1, <2>2, <2>3, <2>4, <2>5, <2>6 DEF SchedulerStep
<1>3. CASE Tick \/ Exit \/ Stop
  BY <1>1, <1>3 DEF Tick, Exit, Stop, Batch!RequestStop, loopVars
<1>4. ASSUME NEW c \in Clients, Consume(c) PROVE unused' < unused /\ Believed' = Believed
  <2>1. \E n \in {EntropyPerKey, EntropyPerExport} : unused' = unused - n
    BY <1>4 DEF Consume
  <2>2. UNCHANGED <<count, batch>>
    BY <1>4 DEF Consume, loopVars
  <2> QED BY <2>1, <2>2, StateNumbers, ConsumptionAssumption
      DEF Believed, ConsumptionAssumption
<1>5. ASSUME NEW c \in Clients, RequestStep(c)
      PROVE  Believed' - unused' = Believed - unused
  <2>1. UNCHANGED <<unused, count, batch>>
    BY <1>5 DEF RequestStep, Complete, Abort, Check, CheckFails, TriggerRefill, loopVars
  <2> QED BY <2>1, <1>1
<1> QED BY <1>2, <1>3, <1>4, <1>5 DEF Next

\* During a refill the local count departs from the pool only by what requests take
\* out of the pool meanwhile.
THEOREM CountDrift == Spec => LocalCountDrift
<1>1. IInv /\ [Next]_vars => [DriftStep]_vars
  BY DriftOfStep
<1>2. [DriftStep]_vars =>
        [Refilling /\ Refilling' =>
           \/ Believed' - unused' = Believed - unused
           \/ /\ unused' < unused
              /\ Believed' = Believed]_vars
  BY DEF DriftStep
<1> QED BY <1>1, <1>2, Invariance, PTL DEF Spec, LocalCountDrift

=============================================================================
