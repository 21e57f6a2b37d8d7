------------------------- MODULE RefillBatchProofs -------------------------
(***************************************************************************)
(* Theorems about RefillBatch, for every number of workers, fetches and    *)
(* failures.                                                               *)
(***************************************************************************)
EXTENDS RefillBatch, FiniteSetTheorems, FunctionTheorems, SequenceTheorems, TLAPS

\* The collector has records left to save exactly while it is in saveRecords.
Saving == collector = "save" <=> chunk > 0

LEMMA InitType == Init => TypeOK /\ Saving
<1> SUFFICES ASSUME Init PROVE TypeOK /\ Saving
  OBVIOUS
<1>1. 0 \in 0..LargestAnswer
  BY BoundsAssumption DEF BoundsAssumption
<1>2. outcome \in [Workers -> Failed..LargestAnswer]
  <2>1. Failed \in Failed..LargestAnswer
    BY <1>1, BoundsAssumption DEF Failed, BoundsAssumption
  <2> QED BY <2>1 DEF Init
<1>3. wpc \in [Workers -> WorkerStates]
  BY DEF Init, WorkerStates
<1>4. results \in Seq(Failed..LargestAnswer)
  BY DEF Init
<1>5. chunk \in 0..LargestAnswer
  BY <1>1 DEF Init
<1>6. Saving
  BY DEF Init, Saving
<1>7. /\ stopped \in BOOLEAN
      /\ fetches \in 1..MaxFetches
      /\ prod \in {"load", "offer", "done"}
      /\ handed \in Nat
  BY DEF Init
<1>8. /\ failCount \in Nat
      /\ resultsClosed \in BOOLEAN
      /\ collector \in {"range", "save", "returned"}
      /\ saved \in Nat
      /\ failures \in Nat
      /\ begun \in Nat
      /\ folded \in Nat
  BY DEF Init
<1> QED BY <1>2, <1>3, <1>4, <1>5, <1>6, <1>7, <1>8 DEF TypeOK

\* The steps of the producer keep the types.
LEMMA ProducerType == TypeOK /\ ProducerStep => TypeOK'
<1> SUFFICES ASSUME TypeOK, ProducerStep PROVE TypeOK'
  OBVIOUS
<1> USE DEF TypeOK, WorkerStates, prodVars, workVars, chanVars, foldVars
<1>1. CASE Load
  BY <1>1 DEF Load
<1>2. CASE AbandonOffer
  BY <1>2 DEF AbandonOffer
<1>3. ASSUME NEW w \in Workers, HandOff(w) PROVE TypeOK'
  BY <1>3 DEF HandOff
<1> QED BY <1>1, <1>2, <1>3 DEF ProducerStep

\* The steps of a worker keep the types.
LEMMA WorkerType ==
  ASSUME TypeOK, NEW w \in Workers, WorkerStep(w)
  PROVE  TypeOK'
<1> USE DEF TypeOK, WorkerStates, prodVars, workVars, chanVars, foldVars, Failed
<1>1. CASE LeaveRange(w)
  BY <1>1 DEF LeaveRange
<1>2. CASE Poll(w)
  BY <1>2 DEF Poll
<1>3. CASE FetchFails(w)
  BY <1>3, BoundsAssumption DEF FetchFails, BoundsAssumption
<1>4. CASE FetchReturns(w)
  BY <1>4, BoundsAssumption DEF FetchReturns, BoundsAssumption
<1>5. CASE Send(w)
  BY <1>5, BoundsAssumption DEF Send, BoundsAssumption
<1>6. CASE Wake(w)
  BY <1>6 DEF Wake
<1> QED BY <1>1, <1>2, <1>3, <1>4, <1>5, <1>6 DEF WorkerStep

\* The closer, the collector and Stop keep the types.
LEMMA CollectorType ==
  ASSUME TypeOK, Saving, CloseResults \/ CollectorStep \/ Stop
  PROVE  TypeOK'
<1> USE DEF TypeOK, WorkerStates, prodVars, workVars, chanVars, foldVars, Failed
<1>1. CASE CloseResults
  BY <1>1 DEF CloseResults
<1>2. CASE Receive
  <2>1. /\ Head(results) \in Failed..LargestAnswer
        /\ Tail(results) \in Seq(Failed..LargestAnswer)
    BY <1>2, HeadTailProperties DEF Receive
  <2> QED BY SMTT(40), <1>2, <2>1, BoundsAssumption DEF Receive, BoundsAssumption
<1>3. CASE SaveOneRecord
  BY <1>3, BoundsAssumption DEF SaveOneRecord, Saving, BoundsAssumption
<1>4. CASE Return
  BY <1>4 DEF Return
<1>5. CASE Stop
  BY <1>5 DEF Stop
<1> QED BY <1>1, <1>2, <1>3, <1>4, <1>5 DEF CollectorStep

\* Saving is kept as well: saveRecords leaves the loop with its last record.
LEMMA SavingStep == TypeOK /\ Saving /\ [Next]_vars => Saving'
<1> SUFFICES ASSUME TypeOK, Saving, [Next]_vars PROVE Saving'
  OBVIOUS
<1> USE DEF Saving, foldVars
<1>1. CASE Receive
  <2>1. Head(results) \in Failed..LargestAnswer
    BY <1>1, HeadTailProperties DEF Receive, TypeOK
  <2> QED BY <1>1, <2>1 DEF Receive, TypeOK, Failed
<1>2. CASE SaveOneRecord
  BY <1>2 DEF SaveOneRecord, TypeOK
<1>3. CASE Return
  BY <1>3 DEF Return
<1>4. CASE ProducerStep
  BY <1>4 DEF ProducerStep, Load, HandOff, AbandonOffer
<1>5. ASSUME NEW w \in Workers, WorkerStep(w) PROVE Saving'
  BY <1>5 DEF WorkerStep, LeaveRange, Poll, FetchFails, FetchReturns, Send, Wake
<1>6. CASE CloseResults
  BY <1>6 DEF CloseResults
<1>7. CASE Stop
  BY <1>7 DEF Stop
<1>8. CASE UNCHANGED vars
  BY <1>8 DEF vars
<1> QED
  BY <1>1, <1>2, <1>3, <1>4, <1>5, <1>6, <1>7, <1>8 DEF Next, CollectorStep

LEMMA TypeStep == TypeOK /\ Saving /\ [Next]_vars => TypeOK'
<1> SUFFICES ASSUME TypeOK, Saving, [Next]_vars PROVE TypeOK'
  OBVIOUS
<1>1. CASE UNCHANGED vars
  BY <1>1 DEF vars, prodVars, workVars, chanVars, foldVars, TypeOK
<1> QED BY <1>1, ProducerType, WorkerType, CollectorType DEF Next

\* Every variable of RefillBatch keeps its type.
THEOREM TypeCorrect == Spec => [](TypeOK /\ Saving)
BY InitType, TypeStep, SavingStep, PTL DEF Spec

-----------------------------------------------------------------------------
(* Counting workers.                                                       *)

LEMMA WorkerSets ==
  ASSUME NEW S \in SUBSET Workers
  PROVE  /\ Cardinality(S) \in Nat
         /\ Cardinality(S) <= Cardinality(Workers)
         /\ Cardinality(Workers) \in Nat
         /\ S = {} <=> Cardinality(S) = 0
         /\ \A w \in Workers :
              /\ w \notin S => Cardinality(S \cup {w}) = Cardinality(S) + 1
              /\ w \in S => Cardinality(S \ {w}) = Cardinality(S) - 1
<1>1. IsFiniteSet(S) /\ IsFiniteSet(Workers)
  BY WorkersAssumption, FS_Subset DEF WorkersAssumption
<1>2. Cardinality(S) \in Nat /\ Cardinality(Workers) \in Nat
  BY <1>1, FS_CardinalityType
<1>3. Cardinality(S) <= Cardinality(Workers)
  BY <1>1, FS_Subset
<1>4. S = {} <=> Cardinality(S) = 0
  BY <1>1, FS_EmptySet
<1>5. ASSUME NEW w \in Workers
      PROVE  /\ w \notin S => Cardinality(S \cup {w}) = Cardinality(S) + 1
             /\ w \in S => Cardinality(S \ {w}) = Cardinality(S) - 1
  BY <1>1, FS_AddElement, FS_RemoveElement
<1> QED BY <1>2, <1>3, <1>4, <1>5

-----------------------------------------------------------------------------
(* Counting the failures in the results channel.                           *)

FailedIn(s) == {i \in 1..Len(s) : s[i] = Failed}

LEMMA FailedInFinite ==
  ASSUME NEW S, NEW s \in Seq(S)
  PROVE  IsFiniteSet(FailedIn(s)) /\ Cardinality(FailedIn(s)) \in Nat
<1>1. IsFiniteSet(1..Len(s))
  BY LenProperties, FS_Interval
<1>2. FailedIn(s) \in SUBSET (1..Len(s))
  BY DEF FailedIn
<1> QED BY <1>1, <1>2, FS_Subset, FS_CardinalityType

\* A send adds at most the one failure it carries.
LEMMA FailedInAppend ==
  ASSUME NEW S, NEW s \in Seq(S), NEW e \in S
  PROVE  Cardinality(FailedIn(Append(s, e))) =
           Cardinality(FailedIn(s)) + IF e = Failed THEN 1 ELSE 0
<1> DEFINE n == Len(s) + 1
<1>1. /\ Len(s) \in Nat
      /\ Len(Append(s, e)) = n
      /\ Append(s, e)[n] = e
      /\ \A i \in 1..Len(s) : Append(s, e)[i] = s[i]
  BY LenProperties, AppendProperties
<1>2. n \notin FailedIn(s)
  BY <1>1 DEF FailedIn
<1>3. CASE e = Failed
  <2>1. FailedIn(Append(s, e)) = FailedIn(s) \cup {n}
    BY <1>1, <1>3 DEF FailedIn
  <2> QED BY <2>1, <1>2, <1>3, FailedInFinite, FS_AddElement
<1>4. CASE e # Failed
  <2>1. FailedIn(Append(s, e)) = FailedIn(s)
    BY <1>1, <1>4 DEF FailedIn
  <2> QED BY <2>1, <1>4, FailedInFinite
<1> QED BY <1>3, <1>4

\* A receive takes away the failure at the head, if it is one.
LEMMA FailedInTail ==
  ASSUME NEW S, NEW s \in Seq(S), s # << >>
  PROVE  Cardinality(FailedIn(s)) =
           Cardinality(FailedIn(Tail(s))) + IF Head(s) = Failed THEN 1 ELSE 0
<1> DEFINE R == FailedIn(s) \ {1}
           T == FailedIn(Tail(s))
           shift == [i \in R |-> i - 1]
<1>1. /\ Len(s) \in Nat \ {0}
      /\ Len(Tail(s)) = Len(s) - 1
      /\ \A i \in 1..Len(Tail(s)) : Tail(s)[i] = s[i + 1]
      /\ Head(s) = s[1]
  BY LenProperties, HeadTailProperties, EmptySeq
<1>2. shift \in Bijection(R, T)
  <2>1. shift \in [R -> T]
    BY <1>1 DEF FailedIn
  <2>2. \A a, b \in R : shift[a] = shift[b] => a = b
    BY <1>1 DEF FailedIn
  <2>3. \A t \in T : \E r \in R : shift[r] = t
    <3> SUFFICES ASSUME NEW t \in T PROVE \E r \in R : shift[r] = t
      OBVIOUS
    <3>1. t + 1 \in R /\ shift[t + 1] = t
      BY <1>1 DEF FailedIn
    <3> QED BY <3>1
  <2> QED BY <2>1, <2>2, <2>3, Fun_IsBij
<1>3. IsFiniteSet(R) /\ Cardinality(T) = Cardinality(R)
  <2>1. IsFiniteSet(R)
    BY FailedInFinite, FS_RemoveElement
  <2>2. ExistsBijection(R, T)
    BY <1>2 DEF ExistsBijection
  <2> QED BY <2>1, <2>2, FS_Bijection
<1>4. Cardinality(R) = Cardinality(FailedIn(s)) - IF Head(s) = Failed THEN 1 ELSE 0
  <2>1. 1 \in FailedIn(s) <=> Head(s) = Failed
    BY <1>1 DEF FailedIn
  <2>2. IsFiniteSet(FailedIn(s)) /\ Cardinality(FailedIn(s)) \in Nat
    BY FailedInFinite
  <2>3. Cardinality(R) = IF 1 \in FailedIn(s) THEN Cardinality(FailedIn(s)) - 1
                                              ELSE Cardinality(FailedIn(s))
    BY <2>2, FS_RemoveElement
  <2> QED BY <2>1, <2>2, <2>3
<1> QED BY <1>3, <1>4, FailedInFinite

-----------------------------------------------------------------------------
(* The inductive invariant: where every job and every failure is.          *)

Polling == {w \in Workers : wpc[w] = "poll"}

Outstanding == {w \in Workers : wpc[w] \in {"fetch", "send"}}

SendingFailure == {w \in Workers : wpc[w] = "send" /\ outcome[w] = Failed}

Offered == IF prod = "offer" THEN 1 ELSE 0

\* The circuit breaker: a job on offer or in flight may still become a failure.
Breaker ==
  failCount + Cardinality(InFlight) + Offered <= MaxFailures + Cardinality(Workers)

\* The order in which the goroutines end.
EndOrder ==
  /\ resultsClosed => \A w \in Workers : wpc[w] = "exited"
  /\ collector = "returned" => resultsClosed /\ results = << >>
  /\ \A w \in Workers : wpc[w] = "exited" => stopped \/ jobsClosed
  /\ jobsClosed => stopped \/ handed = fetches \/ failCount >= MaxFailures

\* Every job handed over is waiting to be polled, begun, or dropped by a stop.
HandedAccount ==
  /\ handed <= fetches
  /\ prod = "offer" => handed < fetches
  /\ begun + Cardinality(Polling) <= handed
  /\ ~stopped => begun + Cardinality(Polling) = handed

\* Every begun fetch is with a worker, in the channel, or folded.
BegunAccount == begun = folded + Len(results) + Cardinality(Outstanding)

\* Every counted failure is with a worker, in the channel, or folded.
FailureAccount ==
  failCount = failures + Cardinality(FailedIn(results)) + Cardinality(SendingFailure)

Accounts ==
  /\ Breaker
  /\ EndOrder
  /\ HandedAccount
  /\ BegunAccount
  /\ FailureAccount

IInv == TypeOK /\ Saving /\ Accounts

\* The four sets of workers that are counted, and the counts.
LEMMA Counts ==
  ASSUME TypeOK
  PROVE  /\ InFlight \in SUBSET Workers
         /\ Polling \in SUBSET Workers
         /\ Outstanding \in SUBSET Workers
         /\ SendingFailure \in SUBSET Workers
         /\ Cardinality(InFlight) \in Nat
         /\ Cardinality(InFlight) <= Cardinality(Workers)
         /\ Cardinality(Workers) \in Nat
         /\ Cardinality(Polling) \in Nat
         /\ Cardinality(Outstanding) \in Nat
         /\ Cardinality(SendingFailure) \in Nat
         /\ Cardinality(FailedIn(results)) \in Nat
         /\ Len(results) \in Nat
<1>1. /\ InFlight \in SUBSET Workers
      /\ Polling \in SUBSET Workers
      /\ Outstanding \in SUBSET Workers
      /\ SendingFailure \in SUBSET Workers
  BY DEF InFlight, Polling, Outstanding, SendingFailure
<1>2. Cardinality(FailedIn(results)) \in Nat /\ Len(results) \in Nat
  BY FailedInFinite, LenProperties DEF TypeOK
<1> QED BY <1>1, <1>2, WorkerSets

\* The counters are numbers, and the breaker bounds the failures counted so far.
LEMMA Numbers ==
  ASSUME TypeOK
  PROVE  /\ failCount \in Nat /\ failures \in Nat /\ MaxFailures \in Nat
         /\ Offered \in Nat /\ handed \in Nat /\ begun \in Nat
BY BoundsAssumption DEF TypeOK, Offered, BoundsAssumption

LEMMA FailuresBounded ==
  ASSUME TypeOK, Breaker
  PROVE  failCount <= MaxFailures + Cardinality(Workers)
<1>1. failCount + Cardinality(InFlight) + Offered <= MaxFailures + Cardinality(Workers)
  BY DEF Breaker
<1>2. /\ failCount \in Nat /\ MaxFailures \in Nat /\ Offered \in Nat
      /\ Cardinality(InFlight) \in Nat /\ Cardinality(Workers) \in Nat
  BY Counts, Numbers
<1> QED BY <1>1, <1>2

\* Nothing has begun in the initial state.
LEMMA InitAccounts == Init => Accounts
<1> SUFFICES ASSUME Init PROVE Accounts
  OBVIOUS
<1>1. InFlight = {} /\ Polling = {} /\ Outstanding = {} /\ SendingFailure = {}
  BY DEF Init, InFlight, Polling, Outstanding, SendingFailure
<1>2. FailedIn(results) = {} /\ Len(results) = 0
  BY DEF Init, FailedIn
<1>3. Cardinality({}) = 0 /\ Cardinality(Workers) \in Nat
  BY FS_EmptySet, WorkerSets
<1>4. Breaker
  BY <1>1, <1>3, BoundsAssumption DEF Init, Breaker, Offered, BoundsAssumption
<1>5. EndOrder
  BY DEF Init, EndOrder, jobsClosed
<1>6. HandedAccount
  BY <1>1, <1>3, BoundsAssumption DEF Init, HandedAccount, BoundsAssumption
<1>7. begun = 0 /\ folded = 0 /\ failCount = 0 /\ failures = 0
  BY DEF Init
<1>8. BegunAccount /\ FailureAccount
  BY <1>1, <1>2, <1>3, <1>7 DEF BegunAccount, FailureAccount
<1> QED BY <1>4, <1>5, <1>6, <1>8 DEF Accounts

\* Steps that move no worker and leave the results channel alone keep the counts.
LEMMA CountsKept ==
  ASSUME UNCHANGED <<wpc, outcome, results>>
  PROVE  /\ InFlight' = InFlight
         /\ Polling' = Polling
         /\ Outstanding' = Outstanding
         /\ SendingFailure' = SendingFailure
         /\ FailedIn(results)' = FailedIn(results)
BY DEF InFlight, Polling, Outstanding, SendingFailure, FailedIn

\* The producer offers a job only while the breaker is closed, and gives a job up
\* only for one of the three reasons.
LEMMA ProducerAccounts ==
  ASSUME IInv, Load \/ AbandonOffer
  PROVE  Accounts'
<1> USE DEF IInv, TypeOK, Accounts, prodVars, workVars, chanVars, foldVars
<1>1. UNCHANGED <<wpc, outcome, results, resultsClosed, collector, failCount,
                  begun, folded, failures, handed, fetches, stopped>>
  BY DEF Load, AbandonOffer
<1>a. /\ InFlight' = InFlight
      /\ Polling' = Polling
      /\ Outstanding' = Outstanding
      /\ SendingFailure' = SendingFailure
      /\ FailedIn(results)' = FailedIn(results)
  BY <1>1, CountsKept
<1>2. Breaker'
  BY SMTT(40), <1>1, <1>a, Counts, BoundsAssumption
  DEF Breaker, Offered, Load, AbandonOffer, Tripped, BoundsAssumption
<1>3. EndOrder'
  BY <1>1, BoundsAssumption DEF EndOrder, HandedAccount, Load, AbandonOffer, jobsClosed, Tripped,
     BoundsAssumption
<1>4. HandedAccount'
  BY <1>1, <1>a, Counts DEF HandedAccount, Load, AbandonOffer
<1>5. BegunAccount' /\ FailureAccount'
  BY <1>1, <1>a DEF BegunAccount, FailureAccount
<1> QED BY <1>2, <1>3, <1>4, <1>5

\* A job changes hands: it was on offer, now it is in flight.
LEMMA HandOffAccounts ==
  ASSUME IInv, NEW w \in Workers, HandOff(w)
  PROVE  Accounts'
<1> USE DEF IInv, Accounts
<1>1. /\ wpc \in [Workers -> WorkerStates]
      /\ wpc[w] = "range"
      /\ wpc' = [wpc EXCEPT ![w] = "poll"]
      /\ handed' = handed + 1
      /\ prod = "offer" /\ prod' = "load"
      /\ UNCHANGED <<outcome, results, resultsClosed, collector, failCount, begun,
                     folded, failures, fetches, stopped>>
  BY DEF TypeOK, HandOff, chanVars, foldVars
<1>2. /\ InFlight' = InFlight \cup {w} /\ w \notin InFlight
      /\ Polling' = Polling \cup {w} /\ w \notin Polling
      /\ Outstanding' = Outstanding
      /\ SendingFailure' = SendingFailure
      /\ FailedIn(results)' = FailedIn(results)
  BY <1>1 DEF InFlight, Polling, Outstanding, SendingFailure, FailedIn
<1>3. /\ Cardinality(InFlight') = Cardinality(InFlight) + 1
      /\ Cardinality(Polling') = Cardinality(Polling) + 1
  BY <1>2, Counts, WorkerSets
<1>4. Breaker'
  BY SMTT(40), <1>1, <1>3, Counts DEF Breaker, Offered, TypeOK
<1>5. EndOrder'
  BY <1>1 DEF EndOrder, jobsClosed
<1>6. HandedAccount'
  BY SMTT(40), <1>1, <1>3, Counts DEF HandedAccount, TypeOK
<1>7. BegunAccount' /\ FailureAccount'
  BY <1>1, <1>2 DEF BegunAccount, FailureAccount
<1> QED BY <1>4, <1>5, <1>6, <1>7

\* A polled job is begun, or dropped because the scheduler has been stopped.
LEMMA PollAccounts ==
  ASSUME IInv, NEW w \in Workers, Poll(w)
  PROVE  Accounts'
<1> USE DEF IInv, Accounts
<1>1. /\ wpc \in [Workers -> WorkerStates]
      /\ wpc[w] = "poll"
      /\ wpc' = [wpc EXCEPT ![w] = IF stopped THEN "exited" ELSE "fetch"]
      /\ begun' = IF stopped THEN begun ELSE begun + 1
      /\ UNCHANGED <<outcome, results, resultsClosed, collector, failCount, handed,
                     prod, folded, failures, fetches, stopped>>
  BY DEF TypeOK, Poll, chanVars, foldVars, prodVars
<1>2. /\ Polling' = Polling \ {w} /\ w \in Polling
      /\ SendingFailure' = SendingFailure
      /\ FailedIn(results)' = FailedIn(results)
  BY <1>1 DEF Polling, SendingFailure, FailedIn
<1>3. Cardinality(Polling') = Cardinality(Polling) - 1
  BY <1>2, Counts, WorkerSets
<1>4. Cardinality(InFlight') <= Cardinality(InFlight)
  <2>1. InFlight' \in SUBSET InFlight
    BY <1>1 DEF InFlight
  <2>2. IsFiniteSet(InFlight)
    BY Counts, WorkersAssumption, FS_Subset DEF WorkersAssumption
  <2> QED BY <2>1, <2>2, FS_Subset
<1>5. Cardinality(InFlight') \in Nat
  <2>1. InFlight' \in SUBSET Workers
    BY DEF InFlight
  <2> QED BY <2>1, WorkerSets
<1>6. Cardinality(Outstanding') = Cardinality(Outstanding) + IF stopped THEN 0 ELSE 1
  <2>1. CASE stopped
    <3>1. Outstanding' = Outstanding
      BY <1>1, <2>1 DEF Outstanding
    <3> QED BY <3>1, <2>1, Counts
  <2>2. CASE ~stopped
    <3>1. Outstanding' = Outstanding \cup {w} /\ w \notin Outstanding
      BY <1>1, <2>2 DEF Outstanding
    <3> QED BY <3>1, <2>2, Counts, WorkerSets
  <2> QED BY <2>1, <2>2
<1>7. Breaker'
  <2>1. failCount' = failCount /\ Offered' = Offered
    BY <1>1 DEF Offered
  <2>2. failCount \in Nat /\ Offered \in Nat /\ MaxFailures \in Nat
    BY BoundsAssumption DEF TypeOK, Offered, BoundsAssumption
  <2> QED BY SMTT(40), <2>1, <2>2, <1>4, <1>5, Counts DEF Breaker
<1>8. EndOrder'
  <2>1. \A v \in Workers : wpc'[v] = "exited" => stopped \/ wpc[v] = "exited"
    BY <1>1
  <2>2. ~resultsClosed
    BY <1>1 DEF EndOrder
  <2> QED BY <1>1, <2>1, <2>2 DEF EndOrder, jobsClosed
<1>9. HandedAccount'
  <2>1. CASE stopped
    BY SMTT(40), <1>1, <1>3, <2>1, Counts DEF HandedAccount, TypeOK
  <2>2. CASE ~stopped
    BY SMTT(40), <1>1, <1>3, <2>2, Counts DEF HandedAccount, TypeOK
  <2> QED BY <2>1, <2>2
<1>10. BegunAccount'
  <2>1. CASE stopped
    BY SMTT(40), <1>1, <1>6, <2>1, Counts DEF BegunAccount, TypeOK
  <2>2. CASE ~stopped
    BY SMTT(40), <1>1, <1>6, <2>2, Counts DEF BegunAccount, TypeOK
  <2> QED BY <2>1, <2>2
<1>11. FailureAccount'
  BY <1>1, <1>2 DEF FailureAccount
<1> QED BY <1>7, <1>8, <1>9, <1>10, <1>11

\* A worker that leaves its loop or wakes up holds no job.
LEMMA IdleWorkerAccounts ==
  ASSUME IInv, NEW w \in Workers, LeaveRange(w) \/ Wake(w)
  PROVE  Accounts'
<1> USE DEF IInv, Accounts
<1>1. /\ wpc \in [Workers -> WorkerStates]
      /\ wpc[w] \in {"range", "sleep"}
      /\ \/ wpc' = [wpc EXCEPT ![w] = "exited"] /\ jobsClosed
         \/ wpc' = [wpc EXCEPT ![w] = "range"]
      /\ UNCHANGED <<outcome, results, resultsClosed, collector, failCount, begun,
                     handed, prod, folded, failures, fetches, stopped>>
  BY DEF TypeOK, LeaveRange, Wake, chanVars, foldVars, prodVars
<1>2. /\ InFlight' = InFlight
      /\ Polling' = Polling
      /\ Outstanding' = Outstanding
      /\ SendingFailure' = SendingFailure
      /\ FailedIn(results)' = FailedIn(results)
  BY <1>1 DEF InFlight, Polling, Outstanding, SendingFailure, FailedIn
<1>3. Breaker'
  BY <1>1, <1>2 DEF Breaker, Offered
<1>4. EndOrder'
  BY <1>1 DEF EndOrder, jobsClosed
<1>5. HandedAccount'
  BY <1>1, <1>2 DEF HandedAccount
<1>6. BegunAccount' /\ FailureAccount'
  BY <1>1, <1>2 DEF BegunAccount, FailureAccount
<1> QED BY <1>3, <1>4, <1>5, <1>6

\* A fetch ends: the breaker counts the failure the worker now carries.
LEMMA FetchAccounts ==
  ASSUME IInv, NEW w \in Workers, FetchFails(w) \/ FetchReturns(w)
  PROVE  Accounts'
<1> USE DEF IInv, Accounts
<1> DEFINE failure == IF FetchFails(w) THEN 1 ELSE 0
<1>1. /\ wpc \in [Workers -> WorkerStates]
      /\ outcome \in [Workers -> Failed..LargestAnswer]
      /\ wpc[w] = "fetch"
      /\ wpc' = [wpc EXCEPT ![w] = "send"]
      /\ UNCHANGED <<results, resultsClosed, collector, begun, handed, prod, folded,
                     failures, fetches, stopped>>
  BY DEF TypeOK, FetchFails, FetchReturns, chanVars, foldVars, prodVars
<1>2. /\ InFlight' = InFlight \ {w} /\ w \in InFlight
      /\ Polling' = Polling
      /\ Outstanding' = Outstanding
      /\ FailedIn(results)' = FailedIn(results)
  BY <1>1 DEF InFlight, Polling, Outstanding, FailedIn
<1>3. Cardinality(InFlight') = Cardinality(InFlight) - 1
  BY <1>2, Counts, WorkerSets
<1>4. /\ failCount' = failCount + failure
      /\ Cardinality(SendingFailure') = Cardinality(SendingFailure) + failure
      /\ failure \in {0, 1}
  <2>1. CASE FetchFails(w)
    <3>1. /\ failCount' = failCount + 1
          /\ outcome' = [outcome EXCEPT ![w] = Failed]
      BY <2>1 DEF FetchFails
    <3>2. SendingFailure' = SendingFailure \cup {w} /\ w \notin SendingFailure
      BY <1>1, <3>1 DEF SendingFailure
    <3> QED BY <2>1, <3>1, <3>2, Counts, WorkerSets
  <2>2. CASE ~FetchFails(w)
    <3>1. failCount' = failCount
      BY <2>2 DEF FetchReturns
    <3>2. PICK records \in 0..LargestAnswer : outcome' = [outcome EXCEPT ![w] = records]
      BY <2>2 DEF FetchReturns
    <3>3. records # Failed
      BY BoundsAssumption DEF Failed, BoundsAssumption
    <3>4. SendingFailure' = SendingFailure
      BY <1>1, <3>2, <3>3 DEF SendingFailure
    <3>5. failCount \in Nat
      BY DEF TypeOK
    <3> QED BY <2>2, <3>1, <3>4, <3>5, Counts
  <2> QED BY <2>1, <2>2
<1> HIDE DEF failure
<1>5. failCount \in Nat /\ failures \in Nat /\ MaxFailures \in Nat
  BY BoundsAssumption DEF TypeOK, BoundsAssumption
<1>6. Breaker'
  <2>1. Offered' = Offered /\ Offered \in Nat
    BY <1>1 DEF Offered
  <2>2. Cardinality(InFlight) \in Nat /\ Cardinality(Workers) \in Nat
    BY Counts
  <2>3. failCount + Cardinality(InFlight) + Offered <= MaxFailures + Cardinality(Workers)
    BY DEF Breaker
  <2>4. failCount' + Cardinality(InFlight') + Offered' <= MaxFailures + Cardinality(Workers)
    BY <2>1, <2>2, <2>3, <1>3, <1>4, <1>5
  <2> QED BY <2>4 DEF Breaker
<1>7. EndOrder'
  <2>1. ~resultsClosed
    BY <1>1 DEF EndOrder
  <2>2. \A v \in Workers : wpc'[v] = "exited" => wpc[v] = "exited"
    BY <1>1
  <2> QED BY <1>1, <1>4, <1>5, <2>1, <2>2, BoundsAssumption
      DEF EndOrder, jobsClosed, BoundsAssumption
<1>8. HandedAccount'
  BY <1>1, <1>2 DEF HandedAccount
<1>9. BegunAccount'
  BY <1>1, <1>2 DEF BegunAccount
<1>10. FailureAccount'
  BY SMTT(40), <1>1, <1>2, <1>4, <1>5, Counts DEF FailureAccount
<1> QED BY <1>6, <1>7, <1>8, <1>9, <1>10

\* An outcome moves from the worker into the channel.
LEMMA SendAccounts ==
  ASSUME IInv, NEW w \in Workers, Send(w)
  PROVE  Accounts'
<1> USE DEF IInv, Accounts
<1> DEFINE failure == IF outcome[w] = Failed THEN 1 ELSE 0
<1>1. /\ wpc \in [Workers -> WorkerStates]
      /\ outcome \in [Workers -> Failed..LargestAnswer]
      /\ results \in Seq(Failed..LargestAnswer)
      /\ wpc[w] = "send"
      /\ wpc' = [wpc EXCEPT ![w] = IF outcome[w] = Failed THEN "sleep" ELSE "range"]
      /\ outcome' = [outcome EXCEPT ![w] = Failed]
      /\ results' = Append(results, outcome[w])
      /\ UNCHANGED <<resultsClosed, collector, begun, handed, prod, folded, failCount,
                     failures, fetches, stopped>>
  BY DEF TypeOK, Send, foldVars, prodVars
<1>2. \A v \in Workers : v # w => wpc'[v] = wpc[v] /\ outcome'[v] = outcome[v]
  BY <1>1
<1>3. wpc'[w] \in {"sleep", "range"}
  BY <1>1
<1>4. /\ InFlight' = InFlight
      /\ Polling' = Polling
      /\ Outstanding' = Outstanding \ {w} /\ w \in Outstanding
  BY <1>1, <1>2, <1>3 DEF InFlight, Polling, Outstanding
<1>5. Cardinality(Outstanding') = Cardinality(Outstanding) - 1
  BY <1>4, Counts, WorkerSets
<1>6. Len(results') = Len(results) + 1
  BY <1>1, AppendProperties
<1>7. Cardinality(FailedIn(results')) = Cardinality(FailedIn(results)) + failure
  BY <1>1, FailedInAppend
<1>8. Cardinality(SendingFailure') = Cardinality(SendingFailure) - failure
  <2>1. CASE outcome[w] = Failed
    <3>1. SendingFailure' = SendingFailure \ {w} /\ w \in SendingFailure
      BY <1>1, <1>2, <1>3, <2>1 DEF SendingFailure
    <3> QED BY <3>1, <2>1, Counts, WorkerSets
  <2>2. CASE outcome[w] # Failed
    <3>1. SendingFailure' = SendingFailure
      BY <1>1, <1>2, <1>3, <2>2 DEF SendingFailure
    <3> QED BY <3>1, <2>2, Counts
  <2> QED BY <2>1, <2>2
<1>9. failure \in {0, 1}
  OBVIOUS
<1> HIDE DEF failure
<1>10. failCount \in Nat /\ failures \in Nat /\ begun \in Nat /\ folded \in Nat
  BY DEF TypeOK
<1>11. Breaker'
  BY <1>1, <1>4 DEF Breaker, Offered
<1>12. EndOrder'
  <2>1. ~resultsClosed
    BY <1>1 DEF EndOrder
  <2>2. \A v \in Workers : wpc'[v] = "exited" => wpc[v] = "exited"
    BY <1>2, <1>3
  <2>3. collector' # "returned"
    BY <1>1, <2>1 DEF EndOrder
  <2> QED BY <1>1, <2>1, <2>2, <2>3 DEF EndOrder, jobsClosed
<1>13. HandedAccount'
  BY <1>1, <1>4 DEF HandedAccount
<1>14. BegunAccount'
  BY <1>1, <1>5, <1>6, <1>10, Counts DEF BegunAccount
<1>15. FailureAccount'
  <2>1. FailedIn(results)' = FailedIn(results')
    BY DEF FailedIn
  <2> QED BY SMTT(40), <2>1, <1>1, <1>7, <1>8, <1>9, <1>10, Counts DEF FailureAccount
<1> QED BY <1>11, <1>12, <1>13, <1>14, <1>15

\* The closer and Stop move no job.
LEMMA CloseAndStopAccounts ==
  ASSUME IInv, CloseResults \/ Stop
  PROVE  Accounts'
<1> USE DEF IInv, Accounts
<1>1. UNCHANGED <<wpc, outcome, results, collector, failCount, begun, handed, prod,
                  folded, failures, fetches>>
  BY DEF CloseResults, Stop, chanVars, foldVars, prodVars, workVars
<1>2. /\ InFlight' = InFlight
      /\ Polling' = Polling
      /\ Outstanding' = Outstanding
      /\ SendingFailure' = SendingFailure
      /\ FailedIn(results)' = FailedIn(results)
  BY <1>1, CountsKept
<1>3. Breaker'
  BY <1>1, <1>2 DEF Breaker, Offered
<1>4. EndOrder'
  <2>1. CASE CloseResults
    BY <2>1, <1>1 DEF CloseResults, EndOrder, jobsClosed
  <2>2. CASE Stop
    BY <2>2, <1>1 DEF Stop, EndOrder, jobsClosed, chanVars
  <2> QED BY <2>1, <2>2
<1>5. HandedAccount'
  <2>1. CASE CloseResults
    BY <2>1, <1>1, <1>2 DEF CloseResults, HandedAccount
  <2>2. CASE Stop
    BY <2>2, <1>1, <1>2 DEF Stop, HandedAccount
  <2> QED BY <2>1, <2>2
<1>6. BegunAccount' /\ FailureAccount'
  BY <1>1, <1>2 DEF BegunAccount, FailureAccount
<1> QED BY <1>3, <1>4, <1>5, <1>6

\* An outcome leaves the channel: a failure becomes one of the call's failures.
LEMMA ReceiveAccounts ==
  ASSUME IInv, Receive
  PROVE  Accounts'
<1> USE DEF IInv, Accounts
<1> DEFINE failure == IF Head(results) = Failed THEN 1 ELSE 0
<1>1. /\ results \in Seq(Failed..LargestAnswer) /\ results # << >>
      /\ results' = Tail(results)
      /\ folded' = folded + 1
      /\ collector = "range" /\ collector' \in {"range", "save"}
      /\ failures' = failures + failure
      /\ UNCHANGED <<wpc, outcome, resultsClosed, failCount, begun, handed, prod,
                     fetches, stopped>>
  BY DEF TypeOK, Receive, prodVars, workVars
<1>2. /\ InFlight' = InFlight
      /\ Polling' = Polling
      /\ Outstanding' = Outstanding
      /\ SendingFailure' = SendingFailure
  BY <1>1 DEF InFlight, Polling, Outstanding, SendingFailure
<1>3. Len(results') = Len(results) - 1
  BY <1>1, HeadTailProperties
<1>4. Cardinality(FailedIn(results)) = Cardinality(FailedIn(results')) + failure
  BY <1>1, FailedInTail
<1>5. Cardinality(FailedIn(results')) \in Nat
  <2>1. results' \in Seq(Failed..LargestAnswer)
    BY <1>1, HeadTailProperties
  <2> QED BY <2>1, FailedInFinite
<1>6. failure \in {0, 1}
  OBVIOUS
<1> HIDE DEF failure
<1>7. failCount \in Nat /\ failures \in Nat /\ begun \in Nat /\ folded \in Nat
  BY DEF TypeOK
<1>8. Breaker'
  BY <1>1, <1>2 DEF Breaker, Offered
<1>9. EndOrder'
  BY <1>1 DEF EndOrder, jobsClosed
<1>10. HandedAccount'
  BY <1>1, <1>2 DEF HandedAccount
<1>11. BegunAccount'
  BY <1>1, <1>2, <1>3, <1>7, Counts DEF BegunAccount
<1>12. FailureAccount'
  <2>1. FailedIn(results)' = FailedIn(results')
    BY DEF FailedIn
  <2> QED BY <2>1, <1>1, <1>2, <1>4, <1>5, <1>6, <1>7, Counts DEF FailureAccount
<1> QED BY <1>8, <1>9, <1>10, <1>11, <1>12

\* Saving records and returning touch no account.
LEMMA SaveAndReturnAccounts ==
  ASSUME IInv, SaveOneRecord \/ Return
  PROVE  Accounts'
<1> USE DEF IInv, Accounts
<1>1. UNCHANGED <<wpc, outcome, results, resultsClosed, failCount, begun, handed, prod,
                  folded, failures, fetches, stopped>>
  BY DEF SaveOneRecord, Return, chanVars, prodVars, workVars
<1>2. /\ InFlight' = InFlight
      /\ Polling' = Polling
      /\ Outstanding' = Outstanding
      /\ SendingFailure' = SendingFailure
      /\ FailedIn(results)' = FailedIn(results)
  BY <1>1, CountsKept
<1>3. Breaker'
  BY <1>1, <1>2 DEF Breaker, Offered
<1>4. EndOrder'
  <2>1. collector' = "returned" => resultsClosed /\ results = << >>
    BY DEF SaveOneRecord, Return
  <2> QED BY <2>1, <1>1 DEF EndOrder, jobsClosed
<1>5. HandedAccount'
  BY <1>1, <1>2 DEF HandedAccount
<1>6. BegunAccount' /\ FailureAccount'
  BY <1>1, <1>2 DEF BegunAccount, FailureAccount
<1> QED BY <1>3, <1>4, <1>5, <1>6

LEMMA InvStep == IInv /\ [Next]_vars => IInv'
<1> SUFFICES ASSUME IInv, [Next]_vars PROVE IInv'
  OBVIOUS
<1>1. TypeOK' /\ Saving'
  BY TypeStep, SavingStep DEF IInv
<1>2. Accounts'
  <2>1. CASE ProducerStep
    BY <2>1, ProducerAccounts, HandOffAccounts DEF ProducerStep
  <2>2. ASSUME NEW w \in Workers, WorkerStep(w) PROVE Accounts'
    BY <2>2, IdleWorkerAccounts, PollAccounts, FetchAccounts, SendAccounts DEF WorkerStep
  <2>3. CASE CloseResults \/ Stop
    BY <2>3, CloseAndStopAccounts
  <2>4. CASE CollectorStep
    BY <2>4, ReceiveAccounts, SaveAndReturnAccounts DEF CollectorStep
  <2>5. CASE UNCHANGED vars
    <3>1. UNCHANGED <<wpc, outcome, results, resultsClosed, collector, failCount, begun,
                      handed, prod, folded, failures, fetches, stopped>>
      BY <2>5 DEF vars, prodVars, workVars, chanVars, foldVars
    <3>2. /\ InFlight' = InFlight
          /\ Polling' = Polling
          /\ Outstanding' = Outstanding
          /\ SendingFailure' = SendingFailure
          /\ FailedIn(results)' = FailedIn(results)
      BY <3>1, CountsKept
    <3> QED BY <3>1, <3>2 DEF IInv, Accounts, Breaker, Offered, EndOrder, jobsClosed,
                             HandedAccount, BegunAccount, FailureAccount
  <2> QED BY <2>1, <2>2, <2>3, <2>4, <2>5 DEF Next
<1> QED BY <1>1, <1>2 DEF IInv

\* In every reachable state each job, outcome and failure of the call is accounted
\* for, and the goroutines end in order: workers, then the channel, then the call.
THEOREM Invariance == Spec => []IInv
<1>1. Init => IInv
  BY InitType, InitAccounts DEF IInv
<1> QED BY <1>1, InvStep, PTL DEF Spec

-----------------------------------------------------------------------------
(* The safety properties.                                                  *)

\* However the workers and the producer interleave around the unsynchronised read
\* of failCount, a batch fails at most MaxFailures + refillWorkers times.
THEOREM BreakerHolds == Spec => []FailureOvershoot
<1>1. IInv => FailureOvershoot
  BY FailuresBounded DEF IInv, Accounts, FailureOvershoot
<1> QED BY <1>1, Invariance, PTL

\* No worker can reach `results <- ...` after close(results).
THEOREM NeverSendsOnClosed == Spec => []NoSendOnClosedResults
<1>1. IInv => NoSendOnClosedResults
  BY DEF IInv, Accounts, EndOrder, NoSendOnClosedResults
<1> QED BY <1>1, Invariance, PTL

\* Once every worker has exited, nothing is outstanding.
LEMMA AllExited ==
  ASSUME IInv, \A w \in Workers : wpc[w] = "exited"
  PROVE  /\ Cardinality(Polling) = 0
         /\ Cardinality(Outstanding) = 0
         /\ Cardinality(SendingFailure) = 0
<1>1. Polling = {} /\ Outstanding = {} /\ SendingFailure = {}
  BY DEF Polling, Outstanding, SendingFailure
<1> QED BY <1>1, FS_EmptySet

\* When runRefillBatch has returned no worker is left, the channel is drained, and
\* the failures it returns are the failures the workers counted.
THEOREM CleanReturn == Spec => []NothingLeftBehind
<1>1. IInv => NothingLeftBehind
  <2> SUFFICES ASSUME IInv, collector = "returned"
               PROVE  /\ \A w \in Workers : wpc[w] = "exited"
                      /\ results = << >>
                      /\ failures = failCount
    BY DEF NothingLeftBehind
  <2>1. (\A w \in Workers : wpc[w] = "exited") /\ results = << >>
    BY DEF IInv, Accounts, EndOrder
  <2>2. Cardinality(FailedIn(results)) = 0
    <3>1. FailedIn(results) = {}
      BY <2>1 DEF FailedIn
    <3> QED BY <3>1, FS_EmptySet
  <2>3. failCount = failures
    BY <2>1, <2>2, AllExited DEF IInv, TypeOK, Accounts, FailureAccount
  <2> QED BY <2>1, <2>3
<1> QED BY <1>1, Invariance, PTL

-----------------------------------------------------------------------------
(* The goroutines implement the contract.                                  *)

\* The batch of the contract, as ImplementsContract reads it off the variables.
Mapped ==
  [phase    |-> IF collector = "returned" THEN "returned" ELSE "running",
   fetches  |-> fetches,
   begun    |-> begun,
   folded   |-> folded,
   chunk    |-> chunk,
   saved    |-> saved,
   failures |-> failures]

mappedVars == <<collector, fetches, begun, folded, chunk, saved, failures, stopped>>

LEMMA InitMaps == Init => Contract!ContractInit
<1> SUFFICES ASSUME Init PROVE Contract!ContractInit
  OBVIOUS
<1>1. /\ fetches \in 1..MaxFetches
      /\ stopped \in BOOLEAN
      /\ Mapped = Contract!NewBatch(fetches)
  BY DEF Init, Mapped, Contract!NewBatch
<1> QED BY <1>1 DEF Contract!ContractInit, Mapped

\* What FoldFailure does to the record of the batch.
LEMMA FailureRecord ==
  ASSUME collector # "returned"
  PROVE  [Mapped EXCEPT !.folded = @ + 1, !.failures = @ + 1] =
           [phase |-> "running", fetches |-> fetches, begun |-> begun,
            folded |-> folded + 1, chunk |-> chunk, saved |-> saved, failures |-> failures + 1]
<1> DEFINE half == [Mapped EXCEPT !.folded = @ + 1]
<1>1. half = [phase |-> "running", fetches |-> fetches, begun |-> begun,
              folded |-> folded + 1, chunk |-> chunk, saved |-> saved, failures |-> failures]
  BY DEF Mapped
<1>2. Mapped.failures = failures
  BY DEF Mapped
<1> HIDE DEF half
<1>3. [half EXCEPT !.failures = Mapped.failures + 1] =
        [phase |-> "running", fetches |-> fetches, begun |-> begun,
         folded |-> folded + 1, chunk |-> chunk, saved |-> saved, failures |-> failures + 1]
  BY <1>1, <1>2
<1> QED BY <1>3, Zenon DEF half

\* What FoldChunk does to it.
LEMMA ChunkRecord ==
  ASSUME collector # "returned", NEW records
  PROVE  [Mapped EXCEPT !.folded = @ + 1, !.chunk = records] =
           [phase |-> "running", fetches |-> fetches, begun |-> begun,
            folded |-> folded + 1, chunk |-> records, saved |-> saved, failures |-> failures]
<1> DEFINE half == [Mapped EXCEPT !.folded = @ + 1]
<1>1. half = [phase |-> "running", fetches |-> fetches, begun |-> begun,
              folded |-> folded + 1, chunk |-> chunk, saved |-> saved, failures |-> failures]
  BY DEF Mapped
<1>2. Mapped.chunk = chunk
  BY DEF Mapped
<1> HIDE DEF half
<1>3. [half EXCEPT !.chunk = records] =
        [phase |-> "running", fetches |-> fetches, begun |-> begun,
         folded |-> folded + 1, chunk |-> records, saved |-> saved, failures |-> failures]
  BY <1>1, <1>2
<1> QED BY <1>3, Zenon DEF half

\* What SaveRecord does to it.
LEMMA SaveRecordRecord ==
  ASSUME collector # "returned"
  PROVE  [Mapped EXCEPT !.chunk = @ - 1, !.saved = @ + 1] =
           [phase |-> "running", fetches |-> fetches, begun |-> begun,
            folded |-> folded, chunk |-> chunk - 1, saved |-> saved + 1, failures |-> failures]
<1> DEFINE half == [Mapped EXCEPT !.chunk = @ - 1]
<1>1. half = [phase |-> "running", fetches |-> fetches, begun |-> begun,
              folded |-> folded, chunk |-> chunk - 1, saved |-> saved, failures |-> failures]
  BY DEF Mapped
<1>2. Mapped.saved = saved
  BY DEF Mapped
<1> HIDE DEF half
<1>3. [half EXCEPT !.saved = Mapped.saved + 1] =
        [phase |-> "running", fetches |-> fetches, begun |-> begun,
         folded |-> folded, chunk |-> chunk - 1, saved |-> saved + 1, failures |-> failures]
  BY <1>1, <1>2
<1> QED BY <1>3, Zenon DEF half

\* The steps the contract does not see.
LEMMA HiddenSteps ==
  ASSUME UNCHANGED mappedVars
  PROVE  UNCHANGED Contract!contractVars
BY DEF mappedVars, Contract!contractVars

\* A worker that polls a job begins a fetch the batch was asked for.
LEMMA PollMaps ==
  ASSUME IInv, NEW w \in Workers, Poll(w)
  PROVE  [Contract!BeginFetch]_(Contract!contractVars)
<1>1. UNCHANGED <<collector, fetches, folded, chunk, saved, failures, stopped>>
  BY DEF Poll, prodVars, foldVars
<1>2. CASE stopped
  BY <1>1, <1>2, HiddenSteps DEF Poll, mappedVars
<1>3. CASE ~stopped
  <2>1. begun' = begun + 1
    BY <1>3 DEF Poll
  <2>2. begun < fetches
    <3>1. Polling # {}
      BY DEF Poll, Polling
    <3>2. Cardinality(Polling) # 0
      BY <3>1, Counts, WorkerSets DEF IInv
    <3> QED BY <3>2, <1>3, Counts DEF IInv, TypeOK, Accounts, HandedAccount
  <2>3. collector # "returned"
    BY DEF Poll, IInv, Accounts, EndOrder
  <2> QED BY <1>1, <1>3, <2>1, <2>2, <2>3 DEF Contract!BeginFetch, Contract!Running
<1> QED BY <1>2, <1>3

\* What the collector receives is an outstanding fetch, and a failure it receives
\* keeps the call's failures below the cap.
LEMMA ReceiveMaps ==
  ASSUME IInv, Receive
  PROVE  Contract!BatchStep
<1>1. /\ results \in Seq(Failed..LargestAnswer) /\ results # << >>
      /\ collector = "range"
      /\ folded' = folded + 1
      /\ UNCHANGED <<fetches, begun, saved, stopped>>
  BY DEF IInv, TypeOK, Receive, prodVars, workVars
<1>2. chunk = 0
  BY <1>1 DEF IInv, TypeOK, Saving
<1>3. folded < begun
  <2>1. Len(results) > 0
    BY <1>1, LenProperties, EmptySeq
  <2> QED BY <2>1, Counts DEF IInv, TypeOK, Accounts, BegunAccount
<1>4. Contract!MayFold
  BY <1>1, <1>2, <1>3 DEF Contract!MayFold, Contract!Running
<1>5. CASE Head(results) = Failed
  <2>1. failures' = failures + 1 /\ chunk' = chunk /\ collector' = collector
    BY <1>5 DEF Receive
  <2>2. failures < MaxFailures + Cardinality(Workers)
    <3>1. Cardinality(FailedIn(results)) = Cardinality(FailedIn(Tail(results))) + 1
      BY <1>1, <1>5, FailedInTail
    <3>2. Cardinality(FailedIn(Tail(results))) \in Nat
      <4>1. Tail(results) \in Seq(Failed..LargestAnswer)
        BY <1>1, HeadTailProperties
      <4> QED BY <4>1, FailedInFinite
    <3>3. failures < failCount
      <4>1. failCount = failures + Cardinality(FailedIn(results)) + Cardinality(SendingFailure)
        BY DEF IInv, Accounts, FailureAccount
      <4>2. TypeOK
        BY DEF IInv
      <4>3. failures \in Nat /\ Cardinality(SendingFailure) \in Nat
        BY <4>2, Counts, Numbers
      <4> QED BY <3>1, <3>2, <4>1, <4>3
    <3>4. failCount <= MaxFailures + Cardinality(Workers)
      BY FailuresBounded DEF IInv, Accounts
    <3>5. MaxFailures \in Nat
      BY BoundsAssumption DEF BoundsAssumption
    <3> QED BY <3>3, <3>4, <3>5, Counts DEF IInv, TypeOK
  <2>3. Mapped' = [Mapped EXCEPT !.folded = @ + 1, !.failures = @ + 1]
    <3>1. Mapped' = [phase |-> "running", fetches |-> fetches, begun |-> begun,
                   folded |-> folded + 1, chunk |-> chunk, saved |-> saved, failures |-> failures + 1]
      BY <1>1, <2>1 DEF Mapped
    <3> QED BY <1>1, <3>1, FailureRecord
  <2>4. Contract!FoldFailure
    BY <1>1, <1>4, <2>2, <2>3, Zenon DEF Contract!FoldFailure, Mapped
  <2> QED BY <2>4 DEF Contract!BatchStep
<1>6. CASE Head(results) # Failed
  <2>1. chunk' = Head(results) /\ collector' \in {"range", "save"} /\ failures' = failures
    BY <1>6 DEF Receive
  <2>2. Head(results) \in 0..LargestAnswer
    <3>1. Head(results) \in Failed..LargestAnswer
      BY <1>1, HeadTailProperties
    <3> QED BY <3>1, <1>6, BoundsAssumption DEF Failed, BoundsAssumption
  <2>3. Mapped' = [Mapped EXCEPT !.folded = @ + 1, !.chunk = Head(results)]
    <3>1. Mapped' = [phase |-> "running", fetches |-> fetches, begun |-> begun,
                   folded |-> folded + 1, chunk |-> Head(results), saved |-> saved, failures |-> failures]
      BY <1>1, <2>1 DEF Mapped
    <3> QED BY <1>1, <3>1, ChunkRecord
  <2>4. Contract!FoldChunk(Head(results))
    BY <1>1, <1>4, <2>3, Zenon DEF Contract!FoldChunk, Mapped
  <2> QED BY <2>2, <2>4 DEF Contract!BatchStep
<1> QED BY <1>5, <1>6

\* saveRecords saves a record or loses it.
LEMMA SaveMaps ==
  ASSUME IInv, SaveOneRecord
  PROVE  Contract!BatchStep
<1>1. /\ collector = "save" /\ collector' \in {"range", "save"}
      /\ chunk' = chunk - 1
      /\ saved' = saved \/ saved' = saved + 1
      /\ UNCHANGED <<fetches, begun, folded, failures, stopped>>
  BY DEF SaveOneRecord, prodVars, workVars
<1>2. Contract!MaySave
  BY <1>1 DEF IInv, Saving, Contract!MaySave, Contract!Running
<1>3. CASE saved' = saved + 1
  <2>1. Mapped' = [Mapped EXCEPT !.chunk = @ - 1, !.saved = @ + 1]
    <3>1. Mapped' = [phase |-> "running", fetches |-> fetches, begun |-> begun,
                   folded |-> folded, chunk |-> chunk - 1, saved |-> saved + 1, failures |-> failures]
      BY <1>1, <1>3 DEF Mapped
    <3> QED BY <1>1, <3>1, SaveRecordRecord
  <2>2. Contract!SaveRecord
    BY <1>1, <1>2, <2>1, Zenon DEF Contract!SaveRecord, Mapped
  <2> QED BY <2>2 DEF Contract!BatchStep
<1>4. CASE saved' = saved
  BY <1>1, <1>2, <1>4 DEF Contract!LoseRecord, Contract!BatchStep
<1> QED BY <1>1, <1>3, <1>4

\* The call returns only when every begun fetch is folded, and for a reason.
LEMMA ReturnMaps ==
  ASSUME IInv, Return
  PROVE  Contract!Return
<1>1. /\ collector = "range" /\ collector' = "returned"
      /\ results = << >>
      /\ resultsClosed
      /\ UNCHANGED <<fetches, begun, folded, chunk, saved, failures, stopped>>
  BY DEF Return, prodVars, workVars, chanVars
<1>2. \A w \in Workers : wpc[w] = "exited"
  BY <1>1 DEF IInv, Accounts, EndOrder
<1>3. chunk = 0
  BY <1>1 DEF IInv, TypeOK, Saving
<1>4. folded = begun
  BY <1>1, <1>2, AllExited DEF IInv, TypeOK, Accounts, BegunAccount
<1>5. failures = failCount
  <2>1. Cardinality(FailedIn(results)) = 0
    <3>1. FailedIn(results) = {}
      BY <1>1 DEF FailedIn
    <3> QED BY <3>1, FS_EmptySet
  <2> QED BY <2>1, <1>2, AllExited DEF IInv, TypeOK, Accounts, FailureAccount
<1>6. stopped \/ begun = fetches \/ failures >= MaxFailures
  <2>1. stopped \/ jobsClosed
    BY <1>2, WorkersAssumption DEF WorkersAssumption, IInv, Accounts, EndOrder
  <2>2. ~stopped => begun = handed
    BY <1>2, AllExited DEF IInv, TypeOK, Accounts, HandedAccount
  <2> QED BY <2>1, <2>2, <1>5 DEF IInv, Accounts, EndOrder
<1> QED BY <1>1, <1>3, <1>4, <1>6 DEF Contract!Return, Contract!Running

LEMMA StepMaps == IInv /\ [Next]_vars => [Contract!ContractNext]_(Contract!contractVars)
<1> SUFFICES ASSUME IInv, [Next]_vars
             PROVE  [Contract!ContractNext]_(Contract!contractVars)
  OBVIOUS
<1> USE DEF Contract!ContractNext
<1>1. CASE ProducerStep
  <2>1. UNCHANGED mappedVars
    BY <1>1 DEF ProducerStep, Load, HandOff, AbandonOffer, mappedVars, workVars, foldVars
  <2> QED BY <2>1, HiddenSteps
<1>2. ASSUME NEW w \in Workers, WorkerStep(w)
      PROVE  [Contract!ContractNext]_(Contract!contractVars)
  <2>1. CASE Poll(w)
    BY <2>1, PollMaps DEF Contract!BatchStep
  <2>2. CASE ~Poll(w)
    <3>1. UNCHANGED mappedVars
      BY <1>2, <2>2 DEF WorkerStep, LeaveRange, FetchFails, FetchReturns, Send, Wake,
                        mappedVars, prodVars, foldVars
    <3> QED BY <3>1, HiddenSteps
  <2> QED BY <2>1, <2>2
<1>3. CASE CloseResults
  <2>1. UNCHANGED mappedVars
    BY <1>3 DEF CloseResults, mappedVars, prodVars, workVars, foldVars
  <2> QED BY <2>1, HiddenSteps
<1>4. CASE CollectorStep
  BY <1>4, ReceiveMaps, SaveMaps, ReturnMaps DEF CollectorStep, Contract!BatchStep
<1>5. CASE Stop
  <2>1. Contract!RequestStop
    BY <1>5 DEF Stop, prodVars, workVars, foldVars, Contract!RequestStop
  <2> QED BY <2>1
<1>6. CASE UNCHANGED vars
  <2>1. UNCHANGED mappedVars
    BY <1>6 DEF vars, mappedVars, prodVars, workVars, foldVars
  <2> QED BY <2>1, HiddenSteps
<1> QED BY <1>1, <1>2, <1>3, <1>4, <1>5, <1>6 DEF Next

\* Producer, workers, closer and collector together do what collectEntropy relies on:
\* every behaviour of runRefillBatch is a behaviour of the contract.
THEOREM Implements == Spec => ImplementsContract
<1>1. Init => Contract!ContractInit
  BY InitMaps
<1>2. IInv /\ [Next]_vars => [Contract!ContractNext]_(Contract!contractVars)
  BY StepMaps
<1> QED BY <1>1, <1>2, Invariance, PTL DEF Spec, ImplementsContract, Contract!ContractSpec

=============================================================================
