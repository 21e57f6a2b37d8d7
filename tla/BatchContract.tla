--------------------------- MODULE BatchContract ---------------------------
(***************************************************************************)
(* What one call of Scheduler.runRefillBatch promises collectEntropy,      *)
(* without goroutines or channels: fetches are begun, each begun fetch is  *)
(* folded exactly once (as a failure or as a chunk whose records are saved *)
(* one by one), and the call returns only when every begun fetch has been  *)
(* folded and there was a reason not to begin another one.                 *)
(*                                                                         *)
(* RefillBatch.tla is shown to implement this module; EntropyPool.tla uses *)
(* its actions in place of the goroutines.                                 *)
(***************************************************************************)
EXTENDS Naturals

CONSTANTS MaxFetches,       \* largest number of fetches a batch is asked for
          MaxFailures,      \* maxFailures of scheduler.go
          FailureCap,       \* failures one batch may reach at most
          LargestAnswer     \* bound: records that the data of one answer split into

VARIABLES batch,     \* the running batch
          stopped    \* stopChan has been closed

contractVars == <<batch, stopped>>

Batches ==
  [phase    : {"running", "returned"},
   fetches  : 1..MaxFetches,
   begun    : 0..MaxFetches,
   folded   : 0..MaxFetches,
   chunk    : 0..LargestAnswer,
   saved    : 0..MaxFetches * LargestAnswer,
   failures : 0..FailureCap]

\* A batch of n fetches that has not begun any.
NewBatch(n) ==
  [phase |-> "running", fetches |-> n, begun |-> 0, folded |-> 0,
   chunk |-> 0, saved |-> 0, failures |-> 0]

Running == batch.phase = "running"

\* Nothing is fetched once the scheduler has been stopped.
BeginFetch ==
  /\ Running
  /\ ~stopped
  /\ batch.begun < batch.fetches
  /\ batch' = [batch EXCEPT !.begun = @ + 1]
  /\ UNCHANGED stopped

\* The batch folds one outstanding fetch at a time.
MayFold ==
  /\ Running
  /\ batch.chunk = 0
  /\ batch.folded < batch.begun

FoldFailure ==
  /\ MayFold
  /\ batch.failures < FailureCap
  /\ batch' = [batch EXCEPT !.folded = @ + 1, !.failures = @ + 1]
  /\ UNCHANGED stopped

\* The data are split into records whatever their length, which nothing compares
\* with what was asked for; an answer may also have no data in it.
FoldChunk(records) ==
  /\ MayFold
  /\ batch' = [batch EXCEPT !.folded = @ + 1, !.chunk = records]
  /\ UNCHANGED stopped

MaySave ==
  /\ Running
  /\ batch.chunk > 0

SaveRecord ==
  /\ MaySave
  /\ batch' = [batch EXCEPT !.chunk = @ - 1, !.saved = @ + 1]
  /\ UNCHANGED stopped

\* A record the store refuses is lost; it counts neither as saved nor as a failure.
LoseRecord ==
  /\ MaySave
  /\ batch' = [batch EXCEPT !.chunk = @ - 1]
  /\ UNCHANGED stopped

Return ==
  /\ Running
  /\ batch.chunk = 0
  /\ batch.folded = batch.begun
  /\ \/ stopped
     \/ batch.begun = batch.fetches
     \/ batch.failures >= MaxFailures
  /\ batch' = [batch EXCEPT !.phase = "returned"]
  /\ UNCHANGED stopped

RequestStop ==
  /\ ~stopped
  /\ stopped' = TRUE
  /\ UNCHANGED batch

ContractInit ==
  /\ \E n \in 1..MaxFetches : batch = NewBatch(n)
  /\ stopped \in BOOLEAN

BatchStep ==
  \/ BeginFetch
  \/ FoldFailure
  \/ \E records \in 0..LargestAnswer : FoldChunk(records)
  \/ SaveRecord
  \/ LoseRecord
  \/ Return

ContractNext == BatchStep \/ RequestStop

ContractSpec == ContractInit /\ [][ContractNext]_contractVars

=============================================================================
