------------------------------ MODULE LabProofs ------------------------------
(***************************************************************************)
(* Theorems about the fan-in, the lab and the audit, for every pool, every *)
(* size and every suite asked for, and about the counts of the validators  *)
(* for samples of every length.                                            *)
(***************************************************************************)
EXTENDS Lab, Induction, SequenceTheorems, TLAPS

-----------------------------------------------------------------------------
(* The fan-in.                                                             *)

Messages == {[idx |-> i, items |-> fns[i]] : i \in DOMAIN fns}

Received(i) == groups[i] = fns[i] \/ \E k \in DOMAIN ch : ch[k].idx = i

\* A group is at its goroutine, in the channel or at its place in groups.
FanInv ==
  /\ fns = [i \in DOMAIN fns |-> fns[i]]
  /\ worker \in [DOMAIN fns -> {"running", "sent", "done"}]
  /\ groups = [i \in DOMAIN fns |-> groups[i]]
  /\ ch \in Seq(Messages)
  /\ \A i \in DOMAIN fns : worker[i] # "running" => Received(i)
  /\ closed => \A i \in DOMAIN fns : worker[i] = "done"
  /\ caller \in {"idle", "ranging", "returned"}
  /\ caller # "ranging" => ch = <<>>
  /\ caller = "idle" => fns = <<>>
  /\ caller = "returned" => closed /\ metrics = FlattenSeq(fns)

LEMMA CallKeepsFan ==
  ASSUME FanInv, NEW closures, closures = [i \in DOMAIN closures |-> closures[i]],
         Call(closures)
  PROVE  FanInv'
<1>1. /\ fns' = closures /\ worker' = [i \in DOMAIN closures |-> "running"]
      /\ ch' = <<>> /\ closed' = FALSE /\ caller' = "ranging"
      /\ groups' = [i \in DOMAIN closures |-> <<>>]
  BY DEF Call
<1>2. ch' \in Seq(Messages')
  BY <1>1
<1>3. worker' \in [DOMAIN fns' -> {"running", "sent", "done"}]
  BY <1>1
<1>4. groups' = [i \in DOMAIN fns' |-> groups'[i]] /\ fns' = [i \in DOMAIN fns' |-> fns'[i]]
  BY <1>1
<1>5. \A i \in DOMAIN fns' : worker'[i] = "running"
  BY <1>1
<1> QED BY <1>1, <1>2, <1>3, <1>4, <1>5 DEF FanInv

LEMMA SendKeepsFan ==
  ASSUME FanInv, NEW i \in DOMAIN worker, Send(i)
  PROVE  FanInv'
<1> DEFINE message == [idx |-> i, items |-> fns[i]]
<1>1. /\ worker[i] = "running" /\ worker' = [worker EXCEPT ![i] = "sent"]
      /\ ch' = Append(ch, message)
      /\ UNCHANGED <<fns, closed, groups, metrics, caller>>
  BY DEF Send
<1>2. i \in DOMAIN fns /\ message \in Messages /\ Messages' = Messages
  BY <1>1 DEF FanInv, Messages
<1>3. caller = "ranging" /\ ~closed
  <2>1. ~closed
    BY <1>1, <1>2 DEF FanInv
  <2>2. fns # <<>>
    BY <1>2
  <2> QED BY <2>1, <2>2 DEF FanInv
<1>4. /\ ch' \in Seq(Messages')
      /\ DOMAIN ch' = DOMAIN ch \cup {Len(ch) + 1}
      /\ \A k \in DOMAIN ch : ch'[k] = ch[k]
      /\ ch'[Len(ch) + 1] = message
  BY <1>1, <1>2 DEF FanInv
<1>5. \A j \in DOMAIN fns' : worker'[j] # "running" => Received(j)'
  <2>1. \A j \in DOMAIN fns : Received(j) => Received(j)'
    BY <1>1, <1>4 DEF Received
  <2>2. Received(i)'
    BY <1>4 DEF Received
  <2>3. \A j \in DOMAIN fns : j # i => worker'[j] = worker[j]
    BY <1>1 DEF FanInv
  <2> QED BY <1>1, <2>1, <2>2, <2>3 DEF FanInv
<1>6. worker' \in [DOMAIN fns' -> {"running", "sent", "done"}]
  BY <1>1 DEF FanInv
<1> QED BY <1>1, <1>3, <1>4, <1>5, <1>6 DEF FanInv

LEMMA DoneKeepsFan ==
  ASSUME FanInv, NEW i \in DOMAIN worker, Done(i)
  PROVE  FanInv'
<1>1. /\ worker[i] = "sent" /\ worker' = [worker EXCEPT ![i] = "done"]
      /\ UNCHANGED <<fns, ch, closed, groups, metrics, caller>>
  BY DEF Done
<1>2. Messages' = Messages
  BY <1>1 DEF Messages
<1>3. \A j \in DOMAIN fns : worker'[j] # "running" => Received(j)'
  BY <1>1 DEF FanInv, Received
<1>4. /\ worker' \in [DOMAIN fns' -> {"running", "sent", "done"}]
      /\ \A j \in DOMAIN fns : worker[j] = "done" => worker'[j] = "done"
  BY <1>1 DEF FanInv
<1> QED BY <1>1, <1>2, <1>3, <1>4 DEF FanInv

LEMMA CloseKeepsFan ==
  ASSUME FanInv, Close
  PROVE  FanInv'
<1>1. /\ caller = "ranging" /\ closed' = TRUE
      /\ \A i \in DOMAIN worker : worker[i] = "done"
      /\ UNCHANGED <<fns, worker, ch, groups, metrics, caller>>
  BY DEF Close
<1>2. Messages' = Messages /\ \A j : Received(j)' = Received(j)
  BY <1>1 DEF Messages, Received
<1>3. \A i \in DOMAIN fns : worker[i] = "done"
  BY <1>1 DEF FanInv
<1> QED BY <1>1, <1>2, <1>3 DEF FanInv

LEMMA ReceiveKeepsFan ==
  ASSUME FanInv, Receive
  PROVE  FanInv'
<1> DEFINE first == Head(ch)
<1>1. /\ caller = "ranging" /\ ch # <<>> /\ ch' = Tail(ch)
      /\ groups' = [groups EXCEPT ![first.idx] = first.items]
      /\ UNCHANGED <<fns, worker, closed, metrics, caller>>
  BY DEF Receive
<1>2. /\ Messages' = Messages /\ ch \in Seq(Messages) /\ Len(ch) > 0
      /\ first = ch[1] /\ first \in Messages
  BY <1>1 DEF FanInv, Messages
<1>3. first.idx \in DOMAIN fns /\ first.items = fns[first.idx]
  BY <1>2 DEF Messages
<1>4. /\ ch' \in Seq(Messages')
      /\ DOMAIN ch' = 1..(Len(ch) - 1)
      /\ \A k \in 1..(Len(ch) - 1) : ch'[k] = ch[k + 1]
  BY <1>1, <1>2
<1>5. /\ groups' = [i \in DOMAIN fns' |-> groups'[i]]
      /\ \A i \in DOMAIN fns : groups'[i] = IF i = first.idx THEN fns[i] ELSE groups[i]
  BY <1>1, <1>3 DEF FanInv
<1>6. ASSUME NEW i \in DOMAIN fns, Received(i) PROVE Received(i)'
  <2>1. CASE i = first.idx
    BY <1>1, <1>5, <2>1 DEF Received
  <2>2. CASE i # first.idx /\ groups[i] = fns[i]
    BY <1>1, <1>5, <2>2 DEF Received
  <2>3. CASE i # first.idx /\ \E k \in DOMAIN ch : ch[k].idx = i
    <3>1. PICK k \in DOMAIN ch : ch[k].idx = i
      BY <2>3
    <3>2. k # 1 /\ k \in 1..Len(ch)
      BY <1>2, <2>3, <3>1
    <3>3. k - 1 \in DOMAIN ch' /\ ch'[k - 1] = ch[k]
      BY <1>2, <1>4, <3>2
    <3> QED BY <3>1, <3>3 DEF Received
  <2> QED BY <1>6, <2>1, <2>2, <2>3 DEF Received
<1> QED BY <1>1, <1>4, <1>5, <1>6 DEF FanInv

LEMMA ConcatenateKeepsFan ==
  ASSUME FanInv, Concatenate
  PROVE  FanInv'
<1>1. /\ ch = <<>> /\ closed /\ metrics' = FlattenSeq(groups) /\ caller' = "returned"
      /\ UNCHANGED <<fns, worker, ch, closed, groups>>
  BY DEF Concatenate
<1>2. Messages' = Messages /\ \A j : Received(j)' = Received(j)
  BY <1>1 DEF Messages, Received
<1>3. \A i \in DOMAIN fns : worker[i] = "done"
  BY <1>1 DEF FanInv
<1>4. \A i \in DOMAIN fns : groups[i] = fns[i]
  BY <1>1, <1>3 DEF FanInv, Received
<1>5. groups = fns
  BY <1>4 DEF FanInv
<1> QED BY <1>1, <1>2, <1>5 DEF FanInv

LEMMA LeaveKeepsFan ==
  ASSUME FanInv, Leave
  PROVE  FanInv'
<1>1. /\ fns' = <<>> /\ worker' = <<>> /\ groups' = <<>> /\ ch' = ch /\ ch = <<>>
      /\ closed' = FALSE /\ caller' = "idle"
  BY DEF Leave, FanInv
<1>2. ch' \in Seq(Messages')
  BY <1>1
<1>3. DOMAIN fns' = {}
  BY <1>1
<1>4. worker' \in [DOMAIN fns' -> {"running", "sent", "done"}]
  BY <1>1, <1>3
<1>5. groups' = [i \in DOMAIN fns' |-> groups'[i]] /\ fns' = [i \in DOMAIN fns' |-> fns'[i]]
  BY <1>1, <1>3
<1> QED BY <1>1, <1>2, <1>3, <1>4, <1>5 DEF FanInv

LEMMA FanStepKeepsFan ==
  ASSUME FanInv, FanStep
  PROVE  FanInv'
BY SendKeepsFan, DoneKeepsFan, CloseKeepsFan, ReceiveKeepsFan, ConcatenateKeepsFan
   DEF FanStep

LEMMA FanUnchanged ==
  ASSUME FanInv, UNCHANGED fanVars
  PROVE  FanInv'
<1>1. Messages' = Messages /\ \A j : Received(j)' = Received(j)
  BY DEF Messages, Received, fanVars
<1> QED BY <1>1 DEF FanInv, fanVars

-----------------------------------------------------------------------------
(* The events of a request.                                                *)

\* What has been published tells how far the request is.
EventInv ==
  /\ lpc \in {"idle", "sampling", "starting", "running", "completing"}
  /\ lpc \in {"sampling", "starting"} => log = <<>>
  /\ lpc \in {"running", "completing"} => log = <<"audit.start">>
  /\ lpc # "idle" => answer = "none"
  /\ EventsMatchAnswer

LEMMA RequestKeepsEvents ==
  ASSUME EventInv, NEW route \in Routes, NEW suite \in SuiteIds, NEW size \in Sizes,
         Request(route, suite, size)
  PROVE  EventInv'
BY DEF Request, Reply, EventInv, EventsMatchAnswer

LEMMA SampleKeepsEvents ==
  ASSUME EventInv,
         \/ FindNoRows
         \/ \E found \in Pools : FindFails(found) \/ SamplePanics(found) \/ TakeSample(found)
  PROVE  EventInv'
<1>1. CASE FindNoRows
  BY <1>1 DEF FindNoRows, Reply, EventInv, EventsMatchAnswer
<1>2. ASSUME NEW found \in Pools, FindFails(found) \/ SamplePanics(found) PROVE EventInv'
  BY <1>2 DEF FindFails, SamplePanics, Reply, EventInv, EventsMatchAnswer
<1>3. ASSUME NEW found \in Pools, TakeSample(found) PROVE EventInv'
  <2>1. lpc = "sampling" /\ log' = log
    BY <1>3 DEF TakeSample
  <2>2. (lpc' = "idle" /\ answer' = "no data") \/ (lpc' = "starting" /\ answer' = answer)
    BY <1>3 DEF TakeSample, Reply
  <2> QED BY <2>1, <2>2 DEF EventInv, EventsMatchAnswer
<1> QED BY <1>1, <1>2, <1>3

LEMMA RunKeepsEvents ==
  ASSUME EventInv,
         PublishStart \/ AuditSources \/ RunSuite \/ FanInStep \/ TakeMetrics \/ PublishComplete
  PROVE  EventInv'
<1>1. CASE PublishStart
  <2>1. log' = <<"audit.start">>
    BY <1>1 DEF PublishStart, Publish, EventInv
  <2> QED BY <1>1, <2>1 DEF PublishStart, EventInv, EventsMatchAnswer
<1>2. CASE AuditSources \/ TakeMetrics
  <2>1. lpc = "running" /\ lpc' \in {"running", "completing"} /\ UNCHANGED <<log, answer>>
    BY <1>2 DEF AuditSources, TakeMetrics
  <2> QED BY <2>1 DEF EventInv, EventsMatchAnswer
<1>3. CASE RunSuite \/ FanInStep
  <2>1. UNCHANGED <<lpc, log, answer>>
    BY <1>3 DEF RunSuite, FanInStep
  <2> QED BY <2>1 DEF EventInv, EventsMatchAnswer
<1>4. CASE PublishComplete
  <2>1. log' = <<"audit.start", "audit.complete">>
    <3> DEFINE Events == {"audit.start", "audit.complete"}
    <3>1. log = <<"audit.start">> /\ log' = Append(log, "audit.complete")
      BY <1>4 DEF PublishComplete, Publish, EventInv
    <3>2. <<"audit.start">> \in Seq(Events) /\ <<"audit.start", "audit.complete">> \in Seq(Events)
      OBVIOUS
    <3>3. /\ log' \in Seq(Events) /\ Len(log') = 2
          /\ log'[1] = "audit.start" /\ log'[2] = "audit.complete"
      BY <3>1, <3>2
    <3> QED BY <3>2, <3>3, SeqEqual
  <2> QED BY <1>4, <2>1 DEF PublishComplete, Reply, EventInv, EventsMatchAnswer
<1> QED BY <1>1, <1>2, <1>3, <1>4

-----------------------------------------------------------------------------
(* The report of a suite.                                                  *)

FirstSources(n) == [s \in 1..n |-> Expected(s)]

\* The sources that are done have all their metrics, the running call is that of the
\* next one, and a report has three.
SuiteInv ==
  /\ caller # "idle" =>
       /\ lpc = "running" /\ request.route = "ui lab"
       /\ Len(results) < 3
       /\ fns = Closures(request.suite, Sources[Len(results) + 1], Len(sample))
  /\ request.route = "ui lab" => \E n \in 0..3 :
       /\ results = FirstSources(n)
       /\ lpc = "running" => n < 3
       /\ lpc = "completing" \/ answer = "report" => n = 3
  /\ lpc \in {"idle", "sampling", "starting", "running", "completing"}
  /\ lpc \in {"sampling", "starting"} => results = <<>>
  /\ lpc # "idle" => answer = "none"
  /\ request.route \in Routes

LabInv == FanInv /\ EventInv /\ SuiteInv

LEMMA FirstSourcesLength ==
  ASSUME NEW n \in Nat
  PROVE  /\ Len(FirstSources(n)) = n
         /\ FirstSources(n) \in Seq({Expected(s) : s \in 1..(n + 1)})
         /\ Append(FirstSources(n), Expected(n + 1)) = FirstSources(n + 1)
<1> DEFINE S == {Expected(s) : s \in 1..(n + 1)}
<1>1. \A s \in 1..(n + 1) : Expected(s) \in S
  OBVIOUS
<1> HIDE DEF S
<1>2. FirstSources(n) \in [1..n -> S] /\ FirstSources(n + 1) \in [1..(n + 1) -> S]
  BY <1>1 DEF FirstSources
<1>3. FirstSources(n) \in Seq(S) /\ FirstSources(n + 1) \in Seq(S) /\ Len(FirstSources(n)) = n
      /\ Len(FirstSources(n + 1)) = n + 1
  BY <1>2
<1>4. Expected(n + 1) \in S
  BY <1>1
<1>5. \A i \in 1..(n + 1) :
        Append(FirstSources(n), Expected(n + 1))[i] = FirstSources(n + 1)[i]
  BY <1>3, <1>4 DEF FirstSources
<1>6. /\ Append(FirstSources(n), Expected(n + 1)) \in Seq(S)
      /\ Len(Append(FirstSources(n), Expected(n + 1))) = n + 1
  BY <1>3, <1>4
<1>7. Append(FirstSources(n), Expected(n + 1)) = FirstSources(n + 1)
  BY <1>3, <1>5, <1>6
<1> QED BY <1>3, <1>7 DEF S

LEMMA NoSources == FirstSources(0) = <<>>
BY DEF FirstSources

LEMMA NothingDone ==
  ASSUME results' = <<>>, lpc' # "completing", answer' # "report"
  PROVE  \E n \in 0..3 : /\ results' = FirstSources(n)'
                         /\ lpc' = "running" => n < 3
                         /\ lpc' = "completing" \/ answer' = "report" => n = 3
<1>1. FirstSources(0)' = <<>>
  BY DEF FirstSources
<1>2. 0 \in 0..3 /\ 0 < 3
  OBVIOUS
<1> QED BY <1>1, <1>2

LEMMA RequestKeepsSuite ==
  ASSUME LabInv, NEW route \in Routes, NEW suite \in SuiteIds, NEW size \in Sizes,
         Request(route, suite, size)
  PROVE  SuiteInv'
<1>1. /\ lpc = "idle" /\ caller = "idle" /\ caller' = "idle" /\ results' = <<>>
      /\ request'.route = route /\ answer' \in {"unknown suite", "none"}
      /\ lpc' \in {"idle", "sampling"} /\ (lpc' = "sampling" => answer' = "none")
  BY DEF Request, Reply, LabInv, FanInv, SuiteInv, fanVars
<1> QED BY <1>1, NothingDone DEF SuiteInv

LEMMA SampleKeepsSuite ==
  ASSUME LabInv,
         \/ FindNoRows
         \/ \E found \in Pools : FindFails(found) \/ SamplePanics(found) \/ TakeSample(found)
  PROVE  SuiteInv'
<1>1. /\ lpc = "sampling" /\ UNCHANGED <<caller, request, results>>
      /\ lpc' \in {"idle", "starting"} /\ answer' # "report"
      /\ lpc' # "idle" => answer' = "none"
  BY DEF FindNoRows, FindFails, SamplePanics, TakeSample, Reply, LabInv, SuiteInv, fanVars
<1>2. results' = <<>> /\ caller' = "idle"
  BY <1>1 DEF LabInv, SuiteInv
<1> QED BY <1>1, <1>2, NothingDone DEF LabInv, SuiteInv

LEMMA StartKeepsSuite ==
  ASSUME LabInv, PublishStart
  PROVE  SuiteInv'
<1>1. /\ lpc = "starting" /\ lpc' = "running" /\ UNCHANGED <<caller, request, results, answer>>
  BY DEF PublishStart, fanVars
<1>2. results' = <<>> /\ caller' = "idle" /\ answer' = "none"
  BY <1>1 DEF LabInv, SuiteInv
<1> QED BY <1>1, <1>2, NothingDone DEF LabInv, SuiteInv

LEMMA AuditKeepsSuite ==
  ASSUME LabInv, AuditSources
  PROVE  SuiteInv'
<1>1. /\ lpc' = "completing" /\ request.route # "ui lab" /\ lpc = "running"
      /\ UNCHANGED <<caller, request, answer>>
  BY DEF AuditSources, fanVars
<1> QED BY <1>1 DEF LabInv, SuiteInv

\* The steps that change neither request nor sample leave what is expected alone.
LEMMA SameExpected ==
  ASSUME UNCHANGED <<request, sample>>
  PROVE  \A n : FirstSources(n)' = FirstSources(n)
BY DEF FirstSources, Expected

LEMMA RunKeepsSuite ==
  ASSUME LabInv, RunSuite
  PROVE  SuiteInv'
<1>1. /\ lpc = "running" /\ request.route = "ui lab" /\ Len(results) < 3
      /\ fns' = Closures(request.suite, Sources[Len(results) + 1], Len(sample))
      /\ UNCHANGED <<lpc, request, sample, results, answer>>
  BY DEF RunSuite, Call
<1> QED BY <1>1, SameExpected DEF LabInv, SuiteInv

LEMMA FanStepKeepsSuite ==
  ASSUME LabInv, FanInStep
  PROVE  SuiteInv'
<1>1. UNCHANGED <<lpc, request, sample, results, answer>>
  BY DEF FanInStep
<1>2. caller # "idle" /\ fns' = fns
  <2>1. CASE \E i \in DOMAIN worker : Send(i) \/ Done(i)
    BY <2>1 DEF Send, Done, LabInv, FanInv
  <2>2. CASE Close \/ Receive \/ Concatenate
    BY <2>2 DEF Close, Receive, Concatenate
  <2> QED BY <2>1, <2>2 DEF FanInStep, FanStep
<1> QED BY <1>1, <1>2, SameExpected DEF LabInv, SuiteInv

LEMMA TakeKeepsSuite ==
  ASSUME LabInv, TakeMetrics
  PROVE  SuiteInv'
<1>1. /\ caller = "returned" /\ caller' = "idle" /\ UNCHANGED <<request, sample, answer>>
      /\ results' = Append(results, [source |-> Sources[Len(results) + 1], metrics |-> metrics])
      /\ lpc' = IF Len(results') = 3 THEN "completing" ELSE "running"
  BY DEF TakeMetrics, Leave
<1>2. /\ request.route = "ui lab" /\ lpc = "running"
      /\ fns = Closures(request.suite, Sources[Len(results) + 1], Len(sample))
      /\ metrics = FlattenSeq(fns)
  BY <1>1 DEF LabInv, FanInv, SuiteInv
<1>3. PICK n \in 0..3 : results = FirstSources(n) /\ n < 3
  BY <1>2 DEF LabInv, SuiteInv
<1>4. n \in Nat /\ n + 1 \in Nat /\ n + 1 \in 0..3
  BY <1>3
<1>5. Len(results) = n /\ Append(FirstSources(n), Expected(n + 1)) = FirstSources(n + 1)
  BY <1>3, <1>4, FirstSourcesLength
<1>6. results' = FirstSources(n + 1)
  BY <1>1, <1>2, <1>3, <1>5 DEF Expected
<1>7. Len(results') = n + 1
  BY <1>4, <1>6, FirstSourcesLength
<1>8. FirstSources(n + 1)' = FirstSources(n + 1)
  BY <1>1, SameExpected
<1>9. answer' = "none"
  BY <1>1, <1>2 DEF LabInv, SuiteInv
<1>10. /\ lpc' \in {"running", "completing"}
       /\ lpc' = "running" => n + 1 < 3
       /\ lpc' = "completing" => n + 1 = 3
  BY <1>1, <1>3, <1>4, <1>7
<1>11. \E m \in 0..3 : /\ results' = FirstSources(m)'
                       /\ lpc' = "running" => m < 3
                       /\ lpc' = "completing" \/ answer' = "report" => m = 3
  <2>1. results' = FirstSources(n + 1)'
    BY <1>6, <1>8
  <2> QED BY <1>4, <1>9, <1>10, <2>1
<1> QED BY <1>1, <1>9, <1>10, <1>11 DEF LabInv, SuiteInv

LEMMA CompleteKeepsSuite ==
  ASSUME LabInv, PublishComplete
  PROVE  SuiteInv'
<1>1. /\ lpc = "completing" /\ lpc' = "idle"
      /\ UNCHANGED <<caller, request, sample, results>>
  BY DEF PublishComplete, Reply, fanVars
<1> QED BY <1>1, SameExpected DEF LabInv, SuiteInv

LEMMA InitLab == Init => LabInv
<1> SUFFICES ASSUME Init PROVE LabInv
  OBVIOUS
<1>1. FanInv
  <2>1. fns = <<>> /\ worker = <<>> /\ groups = <<>> /\ ch = <<>> /\ DOMAIN fns = {}
    BY DEF Init, FanInit
  <2>2. ch \in Seq(Messages)
    BY <2>1
  <2>3. /\ worker \in [DOMAIN fns -> {"running", "sent", "done"}]
        /\ groups = [i \in DOMAIN fns |-> groups[i]] /\ fns = [i \in DOMAIN fns |-> fns[i]]
    BY <2>1
  <2> QED BY <2>1, <2>2, <2>3 DEF Init, FanInit, FanInv
<1>2. EventInv
  BY DEF Init, EventInv, EventsMatchAnswer
<1>3. SuiteInv
  <2>1. request.route = "api audit" /\ caller = "idle" /\ lpc = "idle" /\ answer = "none"
    BY DEF Init, FanInit, NoRequest
  <2> QED BY <2>1 DEF SuiteInv, Routes
<1> QED BY <1>1, <1>2, <1>3 DEF LabInv

LEMMA ClosuresAreFunctions ==
  ASSUME NEW id, NEW source, NEW size
  PROVE  Closures(id, source, size)
           = [i \in DOMAIN Closures(id, source, size) |-> Closures(id, source, size)[i]]
BY DEF Closures

LEMMA LabKeepsFan ==
  ASSUME LabInv, Next
  PROVE  FanInv'
<1>1. CASE RunSuite
  BY <1>1, CallKeepsFan, ClosuresAreFunctions DEF RunSuite, LabInv
<1>2. CASE FanInStep
  BY <1>2, FanStepKeepsFan DEF FanInStep, LabInv
<1>3. CASE TakeMetrics
  BY <1>3, LeaveKeepsFan DEF TakeMetrics, LabInv
<1>4. CASE UNCHANGED fanVars
  BY <1>4, FanUnchanged DEF LabInv
<1> QED
  BY <1>1, <1>2, <1>3, <1>4 DEF Next, Step, Request, FindNoRows, FindFails, SamplePanics, TakeSample,
     PublishStart, AuditSources, PublishComplete

LEMMA LabStep == LabInv /\ [Next]_vars => LabInv'
<1> SUFFICES ASSUME LabInv, [Next]_vars PROVE LabInv'
  OBVIOUS
<1>1. CASE Next
  <2>1. FanInv'
    BY <1>1, LabKeepsFan
  <2>2. EventInv'
    BY <1>1, RequestKeepsEvents, SampleKeepsEvents, RunKeepsEvents DEF LabInv, Next, Step
  <2>3. SuiteInv'
    BY <1>1, RequestKeepsSuite, SampleKeepsSuite, StartKeepsSuite, AuditKeepsSuite,
       RunKeepsSuite, FanStepKeepsSuite, TakeKeepsSuite, CompleteKeepsSuite DEF Next, Step
  <2> QED BY <2>1, <2>2, <2>3 DEF LabInv
<1>2. CASE UNCHANGED vars
  <2>1. FanInv'
    BY <1>2, FanUnchanged DEF LabInv, vars
  <2>2. EventInv'
    BY <1>2 DEF LabInv, EventInv, EventsMatchAnswer, vars
  <2>3. SuiteInv'
    BY <1>2, SameExpected DEF LabInv, SuiteInv, vars, fanVars
  <2> QED BY <2>1, <2>2, <2>3 DEF LabInv
<1> QED BY <1>1, <1>2

\* The inductive invariant of the lab holds always.
THEOREM Invariance == Spec => []LabInv
<1> QED BY InitLab, LabStep, PTL DEF Spec

\* No goroutine of runFanIn sends into the channel that the closer has closed.
THEOREM SendsBeforeClose == Spec => []NoSendOnClosedMetrics
<1>1. LabInv => NoSendOnClosedMetrics
  BY DEF LabInv, FanInv, NoSendOnClosedMetrics
<1> QED BY <1>1, Invariance, PTL

\* runFanIn restores the order of its closures, for any number of them - those of the
\* five and seven closures of the basic and NIST suites included - and any metrics.
THEOREM FanInReturnsInOrder == Spec => []ReturnsInOrder
<1>1. LabInv => ReturnsInOrder
  BY DEF LabInv, FanInv, ReturnsInOrder
<1> QED BY <1>1, Invariance, PTL

\* The report of every suite has the three sources in order with all their metrics.
THEOREM SuitesAreComplete == Spec => []SuiteComplete
<1>1. LabInv => SuiteComplete
  BY DEF LabInv, SuiteInv, SuiteComplete, FirstSources
<1> QED BY <1>1, Invariance, PTL

\* A request publishes its start and its end if and only if it gets a report.
THEOREM EventsAreTrue == Spec => []EventsMatchAnswer
<1>1. LabInv => EventsMatchAnswer
  BY DEF LabInv, EventInv
<1> QED BY <1>1, Invariance, PTL

-----------------------------------------------------------------------------
(* The quantum sample of a request, for every pool.                        *)

\* flat[i] is the first i sequences, joined.
Joins(flat, seqs) ==
  /\ flat[1] = seqs[1]
  /\ \A i \in 1..Len(seqs) : i > 1 => flat[i] = flat[i - 1] \o seqs[i]

LEMMA FlattenJoins ==
  ASSUME NEW S, NEW seqs \in Seq(Seq(S)), seqs # <<>>
  PROVE  \E flat : /\ Joins(flat, seqs)
                   /\ \A i \in 1..Len(seqs) : flat[i] \in Seq(S)
                   /\ FlattenSeq(seqs) = flat[Len(seqs)]
<1> DEFINE n == Len(seqs)
           T == [i \in 1..n |-> Seq(S)]
           step == [i \in 1..n |-> [s \in Seq(S) |-> s \o seqs[i]]]
           Loop(f) == [i \in 1..n |-> IF i = 1 THEN seqs[i] ELSE f[i - 1] \o seqs[i]]
           flat == CHOOSE f : f = Loop(f)
<1>1. n \in Nat /\ n >= 1 /\ 1 \in 1..n /\ \A i \in 1..n : seqs[i] \in Seq(S)
  OBVIOUS
<1>2. FlattenSeq(seqs) = flat[n]
  <2>1. Len(seqs) # 0
    BY <1>1
  <2> QED BY <2>1 DEF FlattenSeq
<1> HIDE DEF n
<1>3. seqs[1] \in T[1] /\ 1 \in Int /\ n \in Int
  BY <1>1
<1>4. \A i \in 1..n : i > 1 => i - 1 \in 1..n /\ T[i - 1] = Seq(S) /\ T[i] = Seq(S)
  BY <1>1
<1>5. Steps(step, T, 1, n)
  <2> SUFFICES ASSUME NEW i \in 1..n, i > 1 PROVE step[i] \in [T[i - 1] -> T[i]]
    BY DEF Steps
  <2>1. step[i] = [s \in Seq(S) |-> s \o seqs[i]] /\ seqs[i] \in Seq(S)
    BY <1>1
  <2>2. \A s \in Seq(S) : s \o seqs[i] \in Seq(S)
    BY <2>1
  <2> QED BY <1>4, <2>1, <2>2
<1>6. \E f : f = Loop(f)
  <2> HIDE DEF T, step
  <2>1. PICK f : Follows(f, seqs[1], step, T, 1, n)
    BY <1>3, <1>5, Recursion
  <2> DEFINE g == [i \in 1..n |-> f[i]]
  <2>2. \A i \in 1..n : i > 1 => f[i] = f[i - 1] \o seqs[i]
    BY <1>4, <2>1 DEF step, Follows, T
  <2>3. \A i \in 1..n : i > 1 => g[i - 1] = f[i - 1]
    BY <1>4
  <2>4. ASSUME NEW i \in 1..n PROVE Loop(g)[i] = f[i]
    <3>1. CASE i = 1
      BY <2>1, <3>1 DEF Follows
    <3>2. CASE i # 1
      <4>1. i > 1 /\ g[i - 1] = f[i - 1]
        BY <1>1, <2>3, <3>2
      <4>2. Loop(g)[i] = g[i - 1] \o seqs[i]
        BY <3>2
      <4> QED BY <2>2, <4>1, <4>2
    <3> QED BY <3>1, <3>2
  <2>5. g = Loop(g)
    BY <2>4
  <2> QED BY <2>5
<1>7. flat = Loop(flat)
  <2> HIDE DEF Loop
  <2> QED BY <1>6
<1> HIDE DEF flat
<1>8. Joins(flat, seqs)
  <2>1. flat[1] = seqs[1]
    BY <1>1, <1>7
  <2>2. ASSUME NEW i \in 1..n, i > 1 PROVE flat[i] = flat[i - 1] \o seqs[i]
    <3>1. flat[i] = Loop(flat)[i] /\ i # 1
      <4>1. flat[i] = Loop(flat)[i]
        <5> HIDE DEF Loop
        <5> QED BY <1>7
      <4> QED BY <4>1, <2>2
    <3>2. Loop(flat)[i] = flat[i - 1] \o seqs[i]
      BY <3>1
    <3> HIDE DEF Loop
    <3> QED BY <3>1, <3>2
  <2> QED BY <2>1, <2>2 DEF Joins, n
<1>9. \A i \in 1..n : i > 1 /\ flat[i - 1] \in T[i - 1] => flat[i] \in T[i]
  <2> SUFFICES ASSUME NEW i \in 1..n, i > 1, flat[i - 1] \in T[i - 1] PROVE flat[i] \in T[i]
    OBVIOUS
  <2>1. flat[i] = flat[i - 1] \o seqs[i]
    BY <1>8 DEF Joins, n
  <2>2. flat[i - 1] \in Seq(S) /\ seqs[i] \in Seq(S)
    BY <1>1, <1>4
  <2> QED BY <1>4, <2>1, <2>2
<1>10. flat[1] \in T[1]
  BY <1>3, <1>8 DEF Joins
<1>11. \A i \in 1..n : flat[i] \in T[i]
  <2> HIDE DEF T
  <2> QED BY <1>3, <1>9, <1>10, TypeInduction, Zenon
<1>12. \A i \in 1..n : flat[i] \in Seq(S)
  BY <1>11
<1> QED BY <1>2, <1>8, <1>12 DEF n

\* The concatenation of sequences over S is one.
LEMMA FlattenType ==
  ASSUME NEW S, NEW seqs \in Seq(Seq(S))
  PROVE  FlattenSeq(seqs) \in Seq(S)
<1>1. CASE seqs = <<>>
  BY <1>1 DEF FlattenSeq
<1>2. CASE seqs # <<>>
  <2>1. Len(seqs) \in 1..Len(seqs)
    BY <1>2
  <2> QED BY <1>2, <2>1, FlattenJoins
<1> QED BY <1>1, <1>2

Byte == 0..255

\* What the loop of getQuantumSample may have after k rows, of which flat is the whole:
\* all of it, or as many of its first bytes as are enough.
Gathered(whole, size) ==
  {s \in Seq(Byte) : \/ s = whole
                     \/ Len(s) >= size /\ Len(s) <= Len(whole) /\ s = SubSeq(whole, 1, Len(s))}

\* A turn of the loop that gathers rows keeps the start of what lies before it.
LEMMA RowGathers ==
  ASSUME NEW whole \in Seq(Byte), NEW row \in Seq(Byte), NEW size \in Int,
         NEW s \in Gathered(whole, size)
  PROVE  (IF Len(s) >= size THEN s ELSE s \o row) \in Gathered(whole \o row, size)
<1>1. s \in Seq(Byte) /\ Len(s) \in Nat /\ Len(s) <= Len(whole) /\ s = SubSeq(whole, 1, Len(s))
  BY DEF Gathered
<1>2. CASE Len(s) >= size
  <2>1. Len(whole \o row) = Len(whole) + Len(row) /\ Len(row) \in Nat /\ Len(whole) \in Nat
        /\ whole \o row \in Seq(Byte)
    OBVIOUS
  <2>2. SubSeq(whole \o row, 1, Len(s)) = s
    <3> DEFINE t == SubSeq(whole \o row, 1, Len(s))
    <3>1. \A i \in 1..Len(s) : (whole \o row)[i] = whole[i] /\ whole[i] \in Byte
      BY <1>1, <2>1
    <3>2. t \in Seq(Byte) /\ Len(t) = Len(s) /\ \A i \in 1..Len(s) : t[i] = (whole \o row)[i]
      BY <1>1, <2>1
    <3>3. \A i \in 1..Len(s) : s[i] = whole[i]
      BY <1>1
    <3> HIDE DEF t
    <3>4. t = s
      BY <1>1, <3>1, <3>2, <3>3, SeqEqual
    <3> QED BY <3>4 DEF t
  <2>3. s \in Gathered(whole \o row, size)
    <3> DEFINE more == whole \o row
    <3>1. s \in Seq(Byte) /\ Len(s) >= size /\ Len(s) <= Len(more) /\ s = SubSeq(more, 1, Len(s))
      BY <1>1, <1>2, <2>1, <2>2
    <3> HIDE DEF more
    <3>2. s \in Gathered(more, size)
      BY <3>1 DEF Gathered
    <3> QED BY <3>2 DEF more
  <2> QED BY <1>2, <2>3
<1>3. CASE ~ (Len(s) >= size)
  <2>1. s = whole
    BY <1>3 DEF Gathered
  <2>2. whole \o row \in Seq(Byte)
    OBVIOUS
  <2>3. s \o row \in Gathered(whole \o row, size)
    BY <2>1, <2>2 DEF Gathered
  <2> QED BY <1>3, <2>3
<1> QED BY <1>2, <1>3

\* What the loop gathers is the start of the rows, all of them or enough.
LEMMA GatherGathers ==
  ASSUME NEW found \in Seq(Seq(Byte)), found # <<>>, NEW size \in Int
  PROVE  Gather(found, size) \in Gathered(FlattenSeq(found), size)
<1> DEFINE n == Len(found)
           Loop(f) == [k \in 1..Len(found) |->
                         IF k = 1 THEN found[1]
                         ELSE IF Len(f[k - 1]) >= size THEN f[k - 1] ELSE f[k - 1] \o found[k]]
           acc == CHOOSE f : f = Loop(f)
<1>1. Gather(found, size) = acc[n]
  BY DEF Gather
<1>2. PICK flat : /\ Joins(flat, found)
                  /\ \A i \in 1..n : flat[i] \in Seq(Byte)
                  /\ FlattenSeq(found) = flat[n]
  BY FlattenJoins
<1>3. n \in Nat /\ n >= 1 /\ 1 \in 1..n /\ 1 \in Int /\ n \in Int
      /\ \A i \in 1..n : found[i] \in Seq(Byte)
  OBVIOUS
<1> DEFINE T == [k \in 1..n |-> Gathered(flat[k], size)]
           step == [k \in 1..n |-> [s \in Gathered(flat[k - 1], size) |->
                                     IF Len(s) >= size THEN s ELSE s \o found[k]]]
<1>4. found[1] \in T[1]
  BY <1>2, <1>3 DEF Joins, Gathered
<1>5. ASSUME NEW k \in 1..n, k > 1
      PROVE  /\ k - 1 \in 1..n /\ T[k - 1] = Gathered(flat[k - 1], size)
             /\ T[k] = Gathered(flat[k], size)
             /\ \A s \in Gathered(flat[k - 1], size) :
                  (IF Len(s) >= size THEN s ELSE s \o found[k]) \in Gathered(flat[k], size)
  <2>1. k - 1 \in 1..n
    BY <1>3, <1>5
  <2>2. flat[k] = flat[k - 1] \o found[k]
    BY <1>2, <1>5 DEF Joins
  <2>3. flat[k - 1] \in Seq(Byte) /\ found[k] \in Seq(Byte)
    BY <1>2, <1>3, <2>1
  <2> QED BY <2>1, <2>2, <2>3, RowGathers
<1>6. Steps(step, T, 1, n)
  <2> SUFFICES ASSUME NEW k \in 1..n, k > 1 PROVE step[k] \in [T[k - 1] -> T[k]]
    BY DEF Steps
  <2> QED BY <1>5
<1>7. \E f : f = Loop(f)
  <2> HIDE DEF T
  <2>0. \A k \in 1..n : step[k] = [s \in Gathered(flat[k - 1], size) |->
                                     IF Len(s) >= size THEN s ELSE s \o found[k]]
    OBVIOUS
  <2> HIDE DEF step
  <2>1. PICK f : Follows(f, found[1], step, T, 1, n)
    BY <1>3, <1>4, <1>6, Recursion
  <2> DEFINE g == [k \in 1..n |-> f[k]]
  <2>2. ASSUME NEW k \in 1..n, k > 1
        PROVE  f[k] = IF Len(f[k - 1]) >= size THEN f[k - 1] ELSE f[k - 1] \o found[k]
    <3>1. f[k] = step[k][f[k - 1]] /\ f[k - 1] \in Gathered(flat[k - 1], size)
      BY <1>5, <2>1, <2>2 DEF Follows
    <3> QED BY <2>0, <3>1
  <2>3. \A k \in 1..n : k > 1 => g[k - 1] = f[k - 1]
    BY <1>5
  <2>4. ASSUME NEW k \in 1..n PROVE Loop(g)[k] = f[k]
    <3>1. CASE k = 1
      BY <2>1, <3>1 DEF Follows
    <3>2. CASE k # 1
      <4>1. k > 1 /\ g[k - 1] = f[k - 1]
        BY <1>3, <2>3, <3>2
      <4>2. Loop(g)[k] = IF Len(g[k - 1]) >= size THEN g[k - 1] ELSE g[k - 1] \o found[k]
        BY <3>2
      <4> HIDE DEF Loop, g
      <4> QED BY <2>2, <4>1, <4>2
    <3> QED BY <3>1, <3>2
  <2>5. g = Loop(g)
    BY <2>4
  <2> QED BY <2>5
<1>8. acc = Loop(acc)
  <2> HIDE DEF Loop
  <2> QED BY <1>7
<1> HIDE DEF acc
<1>9. acc[1] \in T[1]
  BY <1>3, <1>4, <1>8
<1>10. ASSUME NEW k \in 1..n, k > 1, acc[k - 1] \in T[k - 1] PROVE acc[k] \in T[k]
  <2>1. acc[k] = Loop(acc)[k] /\ k # 1
    <3>1. acc[k] = Loop(acc)[k]
      <4> HIDE DEF Loop
      <4> QED BY <1>8
    <3> QED BY <3>1, <1>10
  <2>2. Loop(acc)[k]
          = IF Len(acc[k - 1]) >= size THEN acc[k - 1] ELSE acc[k - 1] \o found[k]
    BY <2>1
  <2> HIDE DEF Loop, T
  <2>3. acc[k - 1] \in Gathered(flat[k - 1], size) /\ T[k] = Gathered(flat[k], size)
    BY <1>5, <1>10
  <2> QED BY <1>5, <1>10, <2>1, <2>2, <2>3
<1>11. \A k \in 1..n : acc[k] \in T[k]
  <2> HIDE DEF T
  <2> QED BY <1>3, <1>9, <1>10, TypeInduction, Zenon
<1> QED BY <1>1, <1>2, <1>3, <1>11

\* The cut of what was gathered is the start of the whole pool.
LEMMA SampleIsFirstBytes ==
  ASSUME NEW found \in Seq(Seq(Byte)), found # <<>>, NEW size \in Nat
  PROVE  /\ Cut(Gather(found, size), size) \in Seq(Byte)
         /\ Cut(Gather(found, size), size) = FirstBytes(FlattenSeq(found), size)
<1> DEFINE s == Gather(found, size)
           whole == FlattenSeq(found)
<1>1. s \in Gathered(whole, size) /\ whole \in Seq(Byte)
  BY GatherGathers, FlattenType
<1> HIDE DEF s, whole
<1>2. s \in Seq(Byte) /\ Len(s) \in Nat /\ Len(whole) \in Nat /\ Len(s) <= Len(whole)
      /\ (s = whole \/ Len(s) >= size) /\ \A i \in 1..Len(s) : s[i] = whole[i]
  BY <1>1 DEF Gathered
<1>3. SubSeq(whole, 1, Len(whole)) = whole
  <2>1. /\ SubSeq(whole, 1, Len(whole)) \in Seq(Byte)
        /\ Len(SubSeq(whole, 1, Len(whole))) = Len(whole)
        /\ \A i \in 1..Len(whole) : SubSeq(whole, 1, Len(whole))[i] = whole[i]
    BY <1>1, <1>2
  <2> QED BY <1>1, <2>1, SeqEqual
<1>4. CASE Len(s) <= size
  <2>1. Cut(s, size) = s /\ FirstBytes(whole, size) = SubSeq(whole, 1, Len(s))
    BY <1>2, <1>4 DEF Cut, FirstBytes, Smaller
  <2>2. SubSeq(whole, 1, Len(s)) = s
    BY <1>1, <1>2, <1>3 DEF Gathered
  <2> QED BY <1>2, <2>1, <2>2 DEF s, whole
<1>5. CASE ~ (Len(s) <= size)
  <2>1. /\ Cut(s, size) = SubSeq(s, 1, size) /\ size <= Len(whole) /\ size <= Len(s)
        /\ FirstBytes(whole, size) = SubSeq(whole, 1, size)
    BY <1>2, <1>5 DEF Cut, FirstBytes, Smaller
  <2>2. /\ SubSeq(s, 1, size) \in Seq(Byte) /\ SubSeq(whole, 1, size) \in Seq(Byte)
        /\ Len(SubSeq(s, 1, size)) = size /\ Len(SubSeq(whole, 1, size)) = size
    BY <1>1, <1>2, <2>1
  <2>3. \A i \in 1..size : SubSeq(s, 1, size)[i] = s[i] /\ SubSeq(whole, 1, size)[i] = whole[i]
    BY <1>1, <1>2, <2>1
  <2>4. \A i \in 1..size : SubSeq(s, 1, size)[i] = SubSeq(whole, 1, size)[i]
    BY <1>2, <2>1, <2>3
  <2>5. SubSeq(s, 1, size) = SubSeq(whole, 1, size)
    BY <2>2, <2>4, SeqEqual
  <2> QED BY <2>1, <2>2, <2>5 DEF s, whole
<1> QED BY <1>2, <1>4, <1>5

\* The values of the variables, by name.
Rows == Seq(Seq(Byte))

Requests == [route : Routes, suite : SuiteIds \cup {""}, size : Int]

Results == Seq(Result)

\* The values of the variables, that a suite that runs is registered, and that from the
\* moment it is taken the sample has bytes and is the start of the rows that were there.
SampleInv ==
  /\ request \in Requests /\ rows \in Rows /\ sample \in Seq(Byte)
  /\ results \in Results
  /\ answer \in {"none", "unknown suite", "no data", "panic", "report"}
  /\ closed \in BOOLEAN /\ readFailed \in BOOLEAN
  /\ lpc # "idle" /\ request.route = "ui lab" => Registered(request.suite)
  /\ lpc \in {"starting", "running", "completing"} \/ answer = "report" =>
       sample = FirstBytes(FlattenSeq(rows), request.size)
  /\ answer = "no data" => FlattenSeq(rows) = <<>> \/ request.size = 0 \/ readFailed
  /\ lpc \in {"starting", "running", "completing"} => sample # <<>>

LabTypeInv == LabInv /\ SampleInv

\* Sequences written out; the names of a registry's metrics are some set's.
LEMMA TuplesAreSequences ==
  ASSUME NEW S
  PROVE  /\ \A a \in S : <<a>> \in Seq(S)
         /\ \A a, b \in S : <<a, b>> \in Seq(S)
         /\ \A a, b, c, d \in S : <<a, b, c, d>> \in Seq(S)
         /\ \A a, b, c, d, e \in S : <<a, b, c, d, e>> \in Seq(S)
         /\ \A a, b, c, d, e, f, g \in S : <<a, b, c, d, e, f, g>> \in Seq(S)
OBVIOUS

LEMMA BasicNames == \E S : runBasic \in Seq(Seq(S))
<1> DEFINE S == {"shannon", "chi-square", "pi", "compression", "repetitions"}
           Names == Seq(S)
<1>1.      /\ <<"shannon">> \in Names
            /\ <<"chi-square">> \in Names
            /\ <<"pi">> \in Names
            /\ <<"compression">> \in Names
            /\ <<"repetitions">> \in Names
  BY TuplesAreSequences
<1> HIDE DEF Names
<1>2. runBasic \in Seq(Names)
  BY <1>1, TuplesAreSequences, Zenon DEF runBasic
<1> QED BY <1>2 DEF Names

LEMMA MinEntropyNames == \E S : runMinEntropy \in Seq(Seq(S))
<1> DEFINE S == {"mcv 8-bit", "bit level", "most common", "distinct"}
           Names == Seq(S)
<1>1.      /\ <<"mcv 8-bit">> \in Names
            /\ <<"bit level">> \in Names
            /\ <<"most common">> \in Names
            /\ <<"distinct">> \in Names
  BY TuplesAreSequences
<1> HIDE DEF Names
<1>2. runMinEntropy \in Seq(Names)
  BY <1>1, TuplesAreSequences, Zenon DEF runMinEntropy
<1> QED BY <1>2 DEF Names

LEMMA NISTNames == \E S : runNIST \in Seq(Seq(S))
<1> DEFINE S == {"monobit", "block frequency", "runs", "longest run",
                         "approximate entropy", "serial p1", "serial p2", "cusum forward",
                         "cusum reverse"}
           Names == Seq(S)
<1>1.      /\ <<"monobit">> \in Names
            /\ <<"block frequency">> \in Names
            /\ <<"runs">> \in Names
            /\ <<"longest run">> \in Names
            /\ <<"approximate entropy">> \in Names
            /\ <<"serial p1", "serial p2">> \in Names
            /\ <<"cusum forward", "cusum reverse">> \in Names
  BY TuplesAreSequences
<1> HIDE DEF Names
<1>2. runNIST \in Seq(Names)
  BY <1>1, TuplesAreSequences, Zenon DEF runNIST
<1> QED BY <1>2 DEF Names

LEMMA StructureNames == \E S : runStructure \in Seq(Seq(S))
<1> DEFINE S == {"bit bias", "autocorrelation", "lags out of range", "runs z",
                         "serial correlation"}
           Names == Seq(S)
<1>1.      /\ <<"bit bias">> \in Names
            /\ <<"autocorrelation", "lags out of range">> \in Names
            /\ <<"runs z">> \in Names
            /\ <<"serial correlation">> \in Names
  BY TuplesAreSequences
<1> HIDE DEF Names
<1>2. runStructure \in Seq(Names)
  BY <1>1, TuplesAreSequences, Zenon DEF runStructure
<1> QED BY <1>2 DEF Names

\* What a registered suite runs is a sequence of sequences of names of the registry.
LEMMA RunType ==
  ASSUME NEW id, Registered(id)
  PROVE  Suite(id).run \in Seq(Seq(MetricNames))
<1>1. PICK r \in DOMAIN Registry : Suite(id) = Registry[r]
  BY DEF Registered, Suite
<1>2. \E S : Registry[r].run \in Seq(Seq(S))
  <2>1. Registry[r].run \in {runBasic, runMinEntropy, runNIST, runStructure}
    <3>1. r \in 1..4
      BY DEF Registry
    <3> QED BY <3>1 DEF Registry
  <2> QED BY <2>1, BasicNames, MinEntropyNames, NISTNames, StructureNames
<1> DEFINE run == Registry[r].run
           N == MetricNames
<1>3. ASSUME NEW i \in DOMAIN run, NEW j \in DOMAIN run[i] PROVE run[i][j] \in N
  <2>1. run[i] \in ToSet(run)
    BY DEF ToSet
  <2>2. run[i][j] \in ToSet(run[i])
    BY DEF ToSet
  <2> QED BY <2>1, <2>2 DEF MetricNames
<1> HIDE DEF run, N
<1>4. PICK S : run \in Seq(Seq(S))
  BY <1>2 DEF run
<1>5. \A i \in DOMAIN run : run[i] \in Seq(N)
  <2> SUFFICES ASSUME NEW i \in DOMAIN run PROVE run[i] \in Seq(N)
    OBVIOUS
  <2>1. run[i] \in Seq(S)
    BY <1>4
  <2> QED BY <1>3, <2>1
<1>6. run \in Seq(Seq(N))
  <2> DEFINE Names == Seq(N)
  <2>1. \A i \in DOMAIN run : run[i] \in Names
    BY <1>5
  <2> HIDE DEF Names
  <2>2. run \in Seq(Names)
    BY <1>4, <2>1
  <2> QED BY <2>2 DEF Names
<1> QED BY <1>1, <1>6 DEF run, N

\* What a suite returns for a source, concatenated, is a sequence of metrics.
LEMMA ClosuresType ==
  ASSUME NEW id, Registered(id), NEW source \in ToSet(Sources), NEW size \in Nat
  PROVE  FlattenSeq(Closures(id, source, size)) \in Seq(Metric)
<1>2. Suite(id).run \in Seq(Seq(MetricNames))
  BY RunType
<1> DEFINE run == Suite(id).run
           cs == Closures(id, source, size)
<1>3. cs = [i \in DOMAIN run |-> [k \in DOMAIN run[i] |->
              [name |-> run[i][k], source |-> source, size |-> size]]]
  BY DEF Closures
<1> HIDE DEF run, cs
<1>4. run \in Seq(Seq(MetricNames))
  BY <1>2 DEF run
<1>5. \A i \in DOMAIN run : [k \in DOMAIN run[i] |->
         [name |-> run[i][k], source |-> source, size |-> size]] \in Seq(Metric)
  <2> SUFFICES ASSUME NEW i \in DOMAIN run
               PROVE  [k \in DOMAIN run[i] |->
                         [name |-> run[i][k], source |-> source, size |-> size]] \in Seq(Metric)
    OBVIOUS
  <2>1. run[i] \in Seq(MetricNames)
    BY <1>4
  <2>2. \A k \in DOMAIN run[i] :
           [name |-> run[i][k], source |-> source, size |-> size] \in Metric
    BY <2>1 DEF Metric
  <2> QED BY <2>1, <2>2
<1>6. cs \in Seq(Seq(Metric))
  <2> DEFINE M == Seq(Metric)
  <2>1. PICK n \in Nat : DOMAIN run = 1..n
    BY <1>4
  <2>2. cs \in [1..n -> M]
    BY <1>3, <1>5, <2>1
  <2> HIDE DEF M
  <2>3. cs \in Seq(M)
    BY <2>1, <2>2
  <2> QED BY <2>3 DEF M
<1> QED BY <1>6, FlattenType DEF cs

\* The invariant is kept by the requests, and by the steps that take the sample.
LEMMA RequestKeepsSample ==
  ASSUME LabTypeInv, NEW route \in Routes, NEW suite \in SuiteIds, NEW size \in Sizes,
         Request(route, suite, size)
  PROVE  SampleInv'
<1>1. Requested(route, size) \in Int
  BY LabAssumption DEF LabAssumption, Requested
<1>2. /\ request' = [route |-> route, suite |-> IF route = "ui lab" THEN suite ELSE "",
                     size |-> Requested(route, size)]
      /\ rows' = <<>> /\ sample' = <<>> /\ results' = <<>> /\ closed' = closed
      /\ readFailed' = FALSE
      /\ answer' \in {"unknown suite", "none"} /\ lpc' \in {"idle", "sampling"}
      /\ lpc' # "idle" /\ route = "ui lab" => Registered(suite)
  BY DEF Request, Reply, fanVars
<1>3. request' \in Requests
  BY <1>1, <1>2 DEF Requests
<1>4. request'.route = "ui lab" => route = "ui lab" /\ request'.suite = suite
  BY <1>2
<1>5. lpc' # "idle" /\ request'.route = "ui lab" => Registered(request.suite)'
  BY <1>2, <1>4 DEF Registered
<1>6. <<>> \in Rows /\ <<>> \in Results /\ <<>> \in Seq(Byte)
  BY DEF Rows, Results
<1> QED BY <1>2, <1>3, <1>5, <1>6 DEF LabTypeInv, SampleInv

LEMMA PoolsAreRows == \A found \in Pools : found \in Rows
BY LabAssumption DEF LabAssumption, Rows, Byte

LEMMA TakeKeepsSample ==
  ASSUME LabTypeInv, NEW found \in Pools, TakeSample(found)
  PROVE  SampleInv'
<1>1. /\ lpc = "sampling" /\ found # <<>> /\ request.size >= 0 /\ rows' = found
      /\ sample' = Cut(Gather(found, request.size), request.size)
      /\ UNCHANGED <<closed, request, readFailed, results>>
      /\ IF sample' = <<>> THEN lpc' = "idle" /\ answer' = "no data"
                           ELSE lpc' = "starting" /\ answer' = answer
  BY DEF TakeSample, Reply, fanVars
<1>2. request.size \in Nat /\ found \in Seq(Seq(Byte)) /\ answer = "none"
  <2>1. request \in Requests /\ answer = "none"
    BY <1>1 DEF LabTypeInv, LabInv, EventInv, SampleInv
  <2>2. request.size \in Int
    BY <2>1 DEF Requests
  <2>3. found \in Rows
    BY PoolsAreRows
  <2> DEFINE size == request.size
  <2>4. size \in Int /\ size >= 0
    BY <1>1, <2>2
  <2> HIDE DEF size
  <2>5. size \in Nat
    BY <2>4
  <2> QED BY <2>1, <2>3, <2>5 DEF Rows, size
<1>3. sample' \in Seq(Byte) /\ sample' = FirstBytes(FlattenSeq(found), request.size)
  BY <1>1, <1>2, SampleIsFirstBytes
<1>4. sample' = <<>> => FlattenSeq(found) = <<>> \/ request.size = 0
  <2>1. FlattenSeq(found) \in Seq(Byte)
    BY <1>2, FlattenType
  <2> DEFINE whole == FlattenSeq(found)
  <2> HIDE DEF whole
  <2>2. whole \in Seq(Byte) /\ sample' = SubSeq(whole, 1, Smaller(request.size, Len(whole)))
    BY <1>3, <2>1 DEF whole, FirstBytes
  <2>3. Len(sample') = Smaller(request.size, Len(whole))
    BY <1>2, <2>2 DEF Smaller
  <2>4. sample' = <<>> => Len(whole) = 0 \/ request.size = 0
    BY <1>2, <2>2, <2>3 DEF Smaller
  <2> QED BY <2>2, <2>4 DEF whole
<1>5. FirstBytes(FlattenSeq(rows), request.size)' = FirstBytes(FlattenSeq(found), request.size)
  BY <1>1
<1>6. FlattenSeq(rows)' = FlattenSeq(found)
  BY <1>1
<1>7. lpc' # "idle" /\ request'.route = "ui lab" => Registered(request.suite)'
  BY <1>1 DEF LabTypeInv, SampleInv, Registered
<1>8. answer' \in {"none", "no data"} /\ (answer' = "no data" => sample' = <<>>)
  BY <1>1, <1>2
<1>9. answer' = "no data" => FlattenSeq(rows)' = <<>> \/ request'.size = 0
  BY <1>1, <1>4, <1>6, <1>8
<1>10. rows' \in Rows
  BY <1>1, PoolsAreRows
<1> QED BY <1>1, <1>2, <1>3, <1>5, <1>7, <1>8, <1>9, <1>10 DEF LabTypeInv, SampleInv

LEMMA NoSampleKeepsSample ==
  ASSUME LabTypeInv,
         FindNoRows \/ \E found \in Pools : FindFails(found) \/ SamplePanics(found)
  PROVE  SampleInv'
<1>1. rows' \in Rows
  <2>1. <<>> \in Rows
    BY DEF Rows
  <2> QED BY <2>1, PoolsAreRows DEF FindNoRows, FindFails, SamplePanics
<1>2. /\ lpc' = "idle" /\ answer' \in {"no data", "panic"}
      /\ UNCHANGED <<closed, request, sample, results>>
      /\ readFailed' = readFailed \/ readFailed' = TRUE
      /\ answer' = "no data" => rows' = <<>> \/ readFailed'
  BY DEF FindNoRows, FindFails, SamplePanics, Reply, fanVars
<1>3. answer' = "no data" => FlattenSeq(rows)' = <<>> \/ readFailed'
  BY <1>2 DEF FlattenSeq
<1> QED BY <1>1, <1>2, <1>3 DEF LabTypeInv, SampleInv

\* The steps of the run change neither the request nor what it found.
LEMMA RunKeepsSample ==
  ASSUME LabTypeInv, UNCHANGED <<request, rows, readFailed, sample>>,
         results' \in Results, closed' \in BOOLEAN,
         \/ /\ answer' = answer
            /\ \/ lpc' = lpc
               \/ lpc \in {"starting", "running"} /\ lpc' \in {"running", "completing"}
         \/ lpc = "completing" /\ lpc' = "idle" /\ answer' = "report"
  PROVE  SampleInv'
<1>1. /\ FirstBytes(FlattenSeq(rows), request.size)' = FirstBytes(FlattenSeq(rows), request.size)
      /\ Registered(request.suite)' = Registered(request.suite)
      /\ FlattenSeq(rows)' = FlattenSeq(rows)
  BY DEF Registered
<1> QED BY <1>1 DEF LabTypeInv, LabInv, SuiteInv, SampleInv

LEMMA SourcesAreNames == \A s \in 1..3 : Sources[s] \in ToSet(Sources)
<1>1. DOMAIN Sources = 1..3
  BY DEF Sources
<1> QED BY <1>1 DEF ToSet

LEMMA SampleFacts ==
  ASSUME LabTypeInv
  PROVE  Len(sample) \in Nat /\ results \in Seq(Result) /\ Len(results) \in Nat
<1>1. sample \in Seq(Byte) /\ results \in Results
  BY DEF LabTypeInv, SampleInv
<1> QED BY <1>1 DEF Results

LEMMA MetricType ==
  ASSUME NEW name \in MetricNames, NEW source \in ToSet(Sources), NEW size \in Nat
  PROVE  [name |-> name, source |-> source, size |-> size] \in Metric
BY DEF Metric

\* The results of the audit and of a suite have their type.
LEMMA AuditedType ==
  ASSUME LabTypeInv, AuditSources
  PROVE  results' \in Results
<1>1. Len(sample) \in Nat
  BY SampleFacts
<1> DEFINE metric(s) == [name |-> "audit", source |-> Sources[s], size |-> Len(sample)]
<1>2. ASSUME NEW s \in 1..3
      PROVE  [source |-> Sources[s], metrics |-> <<metric(s)>>] \in Result
  <2>1. Sources[s] \in ToSet(Sources)
    BY SourcesAreNames
  <2>2. metric(s) \in Metric
    <3>1. "audit" \in MetricNames
      BY DEF MetricNames
    <3> QED BY <3>1, <1>1, <2>1, MetricType, Zenon
  <2> HIDE DEF metric
  <2>3. <<metric(s)>> \in Seq(Metric)
    BY <2>2
  <2> QED BY <2>1, <2>3 DEF Result
<1>3. results' = [s \in 1..3 |-> [source |-> Sources[s], metrics |-> <<metric(s)>>]]
  BY DEF AuditSources
<1> HIDE DEF metric
<1>4. results' \in [1..3 -> Result]
  BY <1>2, <1>3
<1>5. results' \in Seq(Result)
  BY <1>4, SeqDef
<1> QED BY <1>5 DEF Results

LEMMA TakenType ==
  ASSUME LabTypeInv, TakeMetrics
  PROVE  results' \in Results
<1>1. /\ caller = "returned"
      /\ results' = Append(results, [source |-> Sources[Len(results) + 1], metrics |-> metrics])
  BY DEF TakeMetrics, Leave
<1>2. /\ lpc = "running" /\ request.route = "ui lab" /\ Len(results) < 3
      /\ metrics = FlattenSeq(Closures(request.suite, Sources[Len(results) + 1], Len(sample)))
  BY <1>1 DEF LabTypeInv, LabInv, FanInv, SuiteInv
<1>3. Registered(request.suite) /\ Len(sample) \in Nat /\ Len(results) \in Nat
      /\ results \in Seq(Result)
  <2>1. Registered(request.suite)
    BY <1>2 DEF LabTypeInv, SampleInv
  <2> QED BY <2>1, SampleFacts
<1>4. Sources[Len(results) + 1] \in ToSet(Sources)
  <2> DEFINE k == Len(results)
  <2>0. k < 3 /\ k \in Nat
    BY <1>2, <1>3
  <2> HIDE DEF k
  <2>1. k + 1 \in 1..3
    BY <2>0
  <2> QED BY <2>1, SourcesAreNames DEF k
<1>5. metrics \in Seq(Metric)
  BY <1>2, <1>3, <1>4, ClosuresType
<1>6. [source |-> Sources[Len(results) + 1], metrics |-> metrics] \in Result
  BY <1>4, <1>5 DEF Result
<1> QED BY <1>1, <1>3, <1>6 DEF Results

\* The invariant is inductive.
LEMMA LabTypeStep == LabTypeInv /\ [Next]_vars => LabTypeInv'
<1> SUFFICES ASSUME LabTypeInv, [Next]_vars PROVE LabTypeInv'
  OBVIOUS
<1>1. LabInv'
  BY LabStep DEF LabTypeInv
<1>2. SampleInv'
  <2>1. ASSUME NEW route \in Routes, NEW suite \in SuiteIds, NEW size \in Sizes,
               Request(route, suite, size)
        PROVE  SampleInv'
    BY <2>1, RequestKeepsSample
  <2>2. ASSUME NEW found \in Pools, TakeSample(found) PROVE SampleInv'
    BY <2>2, TakeKeepsSample
  <2>3. CASE FindNoRows \/ \E found \in Pools : FindFails(found) \/ SamplePanics(found)
    BY <2>3, NoSampleKeepsSample
  <2>4. results \in Results /\ closed \in BOOLEAN
    BY DEF LabTypeInv, SampleInv
  <2>5. CASE PublishStart
    BY <2>4, <2>5, RunKeepsSample DEF PublishStart, fanVars
  <2>6. CASE AuditSources
    BY <2>4, <2>6, AuditedType, RunKeepsSample DEF AuditSources, fanVars
  <2>7. CASE RunSuite
    BY <2>4, <2>7, RunKeepsSample DEF RunSuite, Call
  <2>8. CASE FanInStep
    <3>1. closed' \in BOOLEAN
      BY <2>4, <2>8 DEF FanInStep, FanStep, Send, Done, Close, Receive, Concatenate
    <3> QED BY <2>4, <2>8, <3>1, RunKeepsSample DEF FanInStep
  <2>9. CASE TakeMetrics
    <3>1. lpc' \in {"running", "completing"} /\ closed' = FALSE
      BY <2>9 DEF TakeMetrics, Leave
    <3> QED BY <2>9, <3>1, TakenType, RunKeepsSample DEF TakeMetrics
  <2>10. CASE PublishComplete
    BY <2>4, <2>10, RunKeepsSample DEF PublishComplete, Reply, fanVars
  <2>11. CASE UNCHANGED vars
    BY <2>4, <2>11, RunKeepsSample DEF vars, fanVars
  <2> QED
    BY <2>1, <2>2, <2>3, <2>5, <2>6, <2>7, <2>8, <2>9, <2>10, <2>11 DEF Next, Step
<1> QED BY <1>1, <1>2 DEF LabTypeInv

LEMMA InitLabType == Init => LabTypeInv
<1> SUFFICES ASSUME Init PROVE LabTypeInv
  OBVIOUS
<1>1. LabInv
  BY InitLab
<1>2. SampleInv
  <2>1. request \in Requests
    <3>1. NoRequest \in Requests
      BY DEF NoRequest, Routes, Requests
    <3> QED BY <3>1 DEF Init
  <2>2. <<>> \in Rows /\ <<>> \in Results /\ <<>> \in Seq(Byte)
    BY DEF Rows, Results
  <2> QED BY <2>1, <2>2 DEF Init, FanInit, SampleInv
<1> QED BY <1>1, <1>2 DEF LabTypeInv

\* The invariant from which the three theorems below follow: the values of a request and
\* of its results, and that its sample is the start of what it read (auditSource and
\* RunSuites work on sample[:size] of getQuantumSample).
THEOREM SampleInvariance == Spec => []LabTypeInv
<1> QED BY InitLabType, LabTypeStep, PTL DEF Spec

\* Every variable of a request keeps to its type, for pools, sizes and suites of any kind;
\* above all the metrics of a report are metrics of the registry, on a source of the lab.
THEOREM TypeCorrect == Spec => []TypeOK
<1>1. LabTypeInv => TypeOK
  <2> SUFFICES ASSUME LabTypeInv PROVE TypeOK
    OBVIOUS
  <2>1. log \in Seq({"audit.start", "audit.complete"})
    <3> DEFINE Events == {"audit.start", "audit.complete"}
    <3>1. <<"audit.start">> \in Seq(Events) /\ <<>> \in Seq(Events)
          /\ <<"audit.start", "audit.complete">> \in Seq(Events)
      OBVIOUS
    <3> HIDE DEF Events
    <3>2. log \in {<<>>, <<"audit.start">>, <<"audit.start", "audit.complete">>}
      BY DEF LabTypeInv, LabInv, EventInv, EventsMatchAnswer
    <3> QED BY <3>1, <3>2 DEF Events
  <2>2. worker \in Seq({"running", "sent", "done"}) /\ DOMAIN fns = DOMAIN worker
    <3>1. worker \in [DOMAIN fns -> {"running", "sent", "done"}]
      BY DEF LabTypeInv, LabInv, FanInv
    <3>2. \E n \in Nat : DOMAIN fns = 1..n
      <4>1. CASE caller = "idle"
        <5>1. fns = <<>>
          BY <4>1 DEF LabTypeInv, LabInv, FanInv
        <5> QED BY <5>1
      <4>2. CASE caller # "idle"
        <5>1. /\ fns = Closures(request.suite, Sources[Len(results) + 1], Len(sample))
              /\ Registered(request.suite)
          BY <4>2 DEF LabTypeInv, LabInv, SuiteInv, SampleInv
        <5> QED BY <5>1, RunType DEF Closures
      <4> QED BY <4>1, <4>2
    <3> QED BY <3>1, <3>2
  <2>3. results \in Seq(Result)
    BY DEF LabTypeInv, SampleInv, Results
  <2> QED
    BY <2>1, <2>2, <2>3 DEF TypeOK, LabTypeInv, LabInv, SuiteInv, FanInv, SampleInv, Byte, Rows, Requests
<1> QED BY <1>1, SampleInvariance, PTL

\* A report is about the first bytes of the pool that its request looked at, and "no data"
\* is answered only to a pool without bytes, to a request for nothing and when the store
\* failed (getQuantumSample makes one error of them), whatever the rows and their lengths.
THEOREM ReportsAreFaithful == Spec => []ReportFaithful
<1>1. LabTypeInv => ReportFaithful
  BY DEF LabTypeInv, LabInv, FanInv, SuiteInv, SampleInv, ReturnsInOrder, SuiteComplete,
         FirstSources, ReportFaithful
<1> QED BY <1>1, SampleInvariance, PTL

-----------------------------------------------------------------------------
(* The validators, for samples of every length.                            *)

\* The blocks of the two block tests lie inside the sample: an index beyond it would
\* panic in a goroutine of the fan-in, which no recovery middleware guards.
THEOREM BlocksInside ==
  \A n \in Nat : BlockFrequencyReads(n) <= n /\ LongestRunReads(n) <= n
<1> SUFFICES ASSUME NEW n \in Nat PROVE BlockFrequencyReads(n) <= n /\ LongestRunReads(n) <= n
  OBVIOUS
<1>1. BlockFrequencyReads(n) <= n
  BY DEF BlockFrequencyReads, BlockLength, Blocks
<1>2. LongestRunReads(n) <= n
  BY DEF LongestRunReads, Tier
<1> QED BY <1>1, <1>2

\* The terms of both sums of the cumulative sums test pair off around the middle of the
\* normal distribution, which only the truncation towards zero of Go's division gives
\* on the negative side.
THEOREM TermsPair ==
  ASSUME NEW n \in Nat, NEW z \in Nat \ {0}, z <= n
  PROVE  /\ \A k \in Int : k \in Sum1Terms(n, z) <=> -k \in Sum1Terms(n, z)
         /\ \A k \in Int : k \in Sum2Terms(n, z) <=> -1 - k \in Sum2Terms(n, z)
<1> DEFINE q == n \div z
<1>1. q \in Nat /\ q >= 1
  OBVIOUS
<1> HIDE DEF q
<1>2. Quot(-q + 1, 4) = -((q - 1) \div 4) /\ Quot(q - 1, 4) = (q - 1) \div 4
  BY <1>1 DEF Quot
<1>3. Quot(-q - 3, 4) = -((q - 1) \div 4) - 1
  BY <1>1 DEF Quot
<1>4. (q - 1) \div 4 \in Int
  BY <1>1
<1>5. /\ Sum1Terms(n, z) = -((q - 1) \div 4)..((q - 1) \div 4)
      /\ Sum2Terms(n, z) = (-((q - 1) \div 4) - 1)..((q - 1) \div 4)
  BY <1>2, <1>3 DEF Sum1Terms, Sum2Terms, q
<1> QED BY <1>4, <1>5

-----------------------------------------------------------------------------
(* The loops over a sample as walks over its prefixes.                     *)

\* The sums of the first numbers of s.
Sums(acc, s) ==
  /\ acc[0] = 0
  /\ \A k \in 1..Len(s) : acc[k] = acc[k - 1] + s[k]
  /\ \A k \in 0..Len(s) : acc[k] \in Int

\* A fold with + is the last of the partial sums.
LEMMA TotalIsSum ==
  ASSUME NEW s \in Seq(Int)
  PROVE  \E acc : Sums(acc, s) /\ Total(s) = acc[Len(s)]
<1> DEFINE n == Len(s)
           Loop(f) ==
             [t \in SUBSET (1..n) |->
                IF t = {} THEN 0 ELSE f[t \ {Max(t)}] + s[Max(t)]]
           iter == CHOOSE f : f = Loop(f)
           step == [k \in 1..n |-> [a \in Int |-> a + s[k]]]
<1>1. n \in Nat /\ DOMAIN s = 1..n /\ \A k \in 1..n : s[k] \in Int
  OBVIOUS
<1>2. Total(s) = iter[1..n]
  BY <1>1 DEF Total, FoldLeft, MapThenFoldSet
<1> HIDE DEF n
<1>3. Turns(step, 1..n, Int) /\ 0 \in Int
  BY <1>1 DEF Turns
<1>4. \A k \in 1..n, a \in Int : step[k][a] = a + s[k]
  OBVIOUS
<1>5. \A t \in SUBSET (1..n) :
        t # {} => Max(t) = Greatest(t) /\ Max(t) \in 1..n /\ t \ {Max(t)} \in SUBSET (1..n)
  BY <1>1, GreatestExists DEF Max, Greatest
<1> HIDE DEF step
<1>6. \E f : f = Loop(f)
  <2>1. PICK f \in [SUBSET (1..n) -> Int] : LeftFolds(f, n, 0, step)
    BY <1>1, <1>3, LeftRecursion
  <2>2. ASSUME NEW t \in SUBSET (1..n), t # {} PROVE f[t] = f[t \ {Max(t)}] + s[Max(t)]
    BY <1>4, <1>5, <2>1, <2>2 DEF LeftFolds
  <2>3. f[{}] = 0
    BY <2>1 DEF LeftFolds
  <2>4. f = Loop(f)
    BY <2>1, <2>2, <2>3
  <2> HIDE DEF Loop
  <2> QED BY <2>4
<1>7. iter = Loop(iter)
  <2> HIDE DEF Loop
  <2> QED BY <1>6
<1> HIDE DEF iter
<1>8. iter[{}] = 0
  BY <1>7
<1>9. \A t \in SUBSET (1..n) : t # {} => iter[t] = iter[t \ {Max(t)}] + s[Max(t)]
  BY <1>7
<1>10. Unfolds(iter, n, step, Int)
  <2> SUFFICES ASSUME NEW t \in SUBSET (1..n), t # {}, iter[t \ {Greatest(t)}] \in Int
               PROVE  iter[t] = step[Greatest(t)][iter[t \ {Greatest(t)}]]
    BY DEF Unfolds
  <2> DEFINE m == Greatest(t)
  <2>1. m \in 1..n /\ m = Max(t)
    BY <1>5
  <2> HIDE DEF m
  <2>2. iter[t \ {m}] \in Int
    BY DEF m
  <2>3. step[m][iter[t \ {m}]] = iter[t]
    BY <1>4, <1>9, <2>1, <2>2
  <2> QED BY <2>3 DEF m
<1>11. PICK acc : Accumulates(acc, n, 0, step, Int) /\ acc[n] = iter[1..n]
  <2> DEFINE Z == Int
  <2>1. 0 \in Z /\ Turns(step, 1..n, Z) /\ Unfolds(iter, n, step, Z)
    BY <1>3, <1>10
  <2> HIDE DEF Z
  <2>2. \E acc : Accumulates(acc, n, 0, step, Z) /\ acc[n] = iter[1..n]
    BY <1>1, <1>8, <2>1, LeftPrefixes
  <2> QED BY <2>2 DEF Z
<1>12. ASSUME NEW k \in 1..n PROVE acc[k] = acc[k - 1] + s[k]
  <2>1. k - 1 \in 0..n
    BY <1>1
  <2> QED BY <1>4, <1>11, <2>1 DEF Accumulates
<1>13. Sums(acc, s)
  BY <1>11, <1>12 DEF Sums, Accumulates, n
<1> QED BY <1>2, <1>11, <1>13 DEF n

\* The values of a bit.
Bit == {0, 1}

\* The state of the loop of cumulativeSums.
Walks == [sum : Int, sup : Int, inf : Int]

Start == [sum |-> 0, sup |-> 0, inf |-> 0]

\* One turn of that loop, and the loop.
WalkStep(w, b) ==
  LET s == w.sum + (IF b = 1 THEN 1 ELSE -1)
  IN  [sum |-> s, sup |-> Larger(w.sup, s), inf |-> Smaller(w.inf, s)]

WalkOf(bits) == FoldLeft(WalkStep, Start, bits)

\* The states that the loop passes through.
Walk(acc, s) ==
  /\ acc[0] = Start
  /\ \A k \in 1..Len(s) : acc[k] = WalkStep(acc[k - 1], s[k])
  /\ \A k \in 0..Len(s) : acc[k] \in Walks

\* A turn keeps the type; Excursions reads the state that the loop ends in.
LEMMA WalkStepType ==
  /\ Start \in Walks
  /\ \A w \in Walks, b \in Bit : WalkStep(w, b) \in Walks
BY DEF Start, Walks, WalkStep, Larger, Smaller

LEMMA ExcursionsOfWalk ==
  ASSUME NEW bits
  PROVE  Excursions(bits) =
           [forward |-> Larger(WalkOf(bits).sup, -WalkOf(bits).inf),
            reverse |-> Larger(WalkOf(bits).sup - WalkOf(bits).sum,
                               WalkOf(bits).sum - WalkOf(bits).inf)]
BY DEF Excursions, WalkOf, WalkStep, Start, FoldLeft, MapThenFoldSet

\* The loop does pass through such states.
LEMMA WalkIsFold ==
  ASSUME NEW s \in Seq(Bit)
  PROVE  \E acc : Walk(acc, s) /\ WalkOf(s) = acc[Len(s)]
<1> DEFINE n == Len(s)
           Loop(f) ==
             [t \in SUBSET (1..n) |->
                IF t = {} THEN Start ELSE WalkStep(f[t \ {Max(t)}], s[Max(t)])]
           iter == CHOOSE f : f = Loop(f)
           step == [k \in 1..n |-> [a \in Walks |-> WalkStep(a, s[k])]]
<1>1. n \in Nat /\ DOMAIN s = 1..n /\ \A k \in 1..n : s[k] \in Bit
  OBVIOUS
<1>2. WalkOf(s) = iter[1..n]
  BY <1>1 DEF WalkOf, FoldLeft, MapThenFoldSet
<1> HIDE DEF n
<1>3. Turns(step, 1..n, Walks) /\ Start \in Walks
  BY <1>1, WalkStepType DEF Turns
<1>4. \A k \in 1..n, a \in Walks : step[k][a] = WalkStep(a, s[k])
  OBVIOUS
<1>5. \A t \in SUBSET (1..n) :
        t # {} => Max(t) = Greatest(t) /\ Max(t) \in 1..n /\ t \ {Max(t)} \in SUBSET (1..n)
  BY <1>1, GreatestExists DEF Max, Greatest
<1> HIDE DEF step
<1>6. \E f : f = Loop(f)
  <2>1. PICK f \in [SUBSET (1..n) -> Walks] : LeftFolds(f, n, Start, step)
    BY <1>1, <1>3, LeftRecursion
  <2>2. ASSUME NEW t \in SUBSET (1..n), t # {} PROVE f[t] = WalkStep(f[t \ {Max(t)}], s[Max(t)])
    BY <1>4, <1>5, <2>1, <2>2 DEF LeftFolds
  <2>3. f[{}] = Start
    BY <2>1 DEF LeftFolds
  <2>4. f = Loop(f)
    BY <2>1, <2>2, <2>3
  <2> HIDE DEF Loop
  <2> QED BY <2>4
<1>7. iter = Loop(iter)
  <2> HIDE DEF Loop
  <2> QED BY <1>6
<1> HIDE DEF iter
<1>8. iter[{}] = Start
  BY <1>7
<1>9. \A t \in SUBSET (1..n) : t # {} => iter[t] = WalkStep(iter[t \ {Max(t)}], s[Max(t)])
  BY <1>7
<1>10. Unfolds(iter, n, step, Walks)
  <2> SUFFICES ASSUME NEW t \in SUBSET (1..n), t # {}, iter[t \ {Greatest(t)}] \in Walks
               PROVE  iter[t] = step[Greatest(t)][iter[t \ {Greatest(t)}]]
    BY DEF Unfolds
  <2> DEFINE m == Greatest(t)
  <2>1. m \in 1..n /\ m = Max(t)
    BY <1>5
  <2> HIDE DEF m
  <2>2. iter[t \ {m}] \in Walks
    BY DEF m
  <2>3. step[m][iter[t \ {m}]] = iter[t]
    BY <1>4, <1>9, <2>1, <2>2
  <2> QED BY <2>3 DEF m
<1>11. PICK acc : Accumulates(acc, n, Start, step, Walks) /\ acc[n] = iter[1..n]
  BY <1>1, <1>3, <1>8, <1>10, LeftPrefixes
<1>12. ASSUME NEW k \in 1..n PROVE acc[k] = WalkStep(acc[k - 1], s[k])
  <2>1. k - 1 \in 0..n
    BY <1>1
  <2> QED BY <1>4, <1>11, <2>1 DEF Accumulates
<1>13. Walk(acc, s)
  BY <1>11, <1>12 DEF Walk, Accumulates, n
<1> QED BY <1>2, <1>11, <1>13 DEF n

\* The state of the loop of longestRunOnesInBlock.
RunStates == [cur : Nat, runs : Nat]

\* How the loop starts, one turn of it, and the loop.
NoRun == [cur |-> 0, runs |-> 0]

RunStep(r, b) ==
  LET cur == IF b = 1 THEN r.cur + 1 ELSE 0
  IN  [cur |-> cur, runs |-> Larger(cur, r.runs)]

RunOf(bits) == FoldLeft(RunStep, NoRun, bits)

\* The states that the loop passes through.
RunsSeen(acc, s) ==
  /\ acc[0] = NoRun
  /\ \A k \in 1..Len(s) : acc[k] = RunStep(acc[k - 1], s[k])
  /\ \A k \in 0..Len(s) : acc[k] \in RunStates

\* A turn keeps the type; LongestRun reads the state that the loop ends in.
LEMMA RunStepType ==
  /\ NoRun \in RunStates
  /\ \A r \in RunStates, b \in Bit : RunStep(r, b) \in RunStates
BY DEF NoRun, RunStates, RunStep, Larger

LEMMA LongestRunOfRun ==
  ASSUME NEW bits
  PROVE  LongestRun(bits) = RunOf(bits).runs
BY DEF LongestRun, RunOf, RunStep, NoRun, FoldLeft, MapThenFoldSet

\* The loop does pass through such states.
LEMMA RunIsFold ==
  ASSUME NEW s \in Seq(Bit)
  PROVE  \E acc : RunsSeen(acc, s) /\ RunOf(s) = acc[Len(s)]
<1> DEFINE n == Len(s)
           Loop(f) ==
             [t \in SUBSET (1..n) |->
                IF t = {} THEN NoRun ELSE RunStep(f[t \ {Max(t)}], s[Max(t)])]
           iter == CHOOSE f : f = Loop(f)
           step == [k \in 1..n |-> [a \in RunStates |-> RunStep(a, s[k])]]
<1>1. n \in Nat /\ DOMAIN s = 1..n /\ \A k \in 1..n : s[k] \in Bit
  OBVIOUS
<1>2. RunOf(s) = iter[1..n]
  BY <1>1 DEF RunOf, FoldLeft, MapThenFoldSet
<1> HIDE DEF n
<1>3. Turns(step, 1..n, RunStates) /\ NoRun \in RunStates
  BY <1>1, RunStepType DEF Turns
<1>4. \A k \in 1..n, a \in RunStates : step[k][a] = RunStep(a, s[k])
  OBVIOUS
<1>5. \A t \in SUBSET (1..n) :
        t # {} => Max(t) = Greatest(t) /\ Max(t) \in 1..n /\ t \ {Max(t)} \in SUBSET (1..n)
  BY <1>1, GreatestExists DEF Max, Greatest
<1> HIDE DEF step
<1>6. \E f : f = Loop(f)
  <2>1. PICK f \in [SUBSET (1..n) -> RunStates] : LeftFolds(f, n, NoRun, step)
    BY <1>1, <1>3, LeftRecursion
  <2>2. ASSUME NEW t \in SUBSET (1..n), t # {} PROVE f[t] = RunStep(f[t \ {Max(t)}], s[Max(t)])
    BY <1>4, <1>5, <2>1, <2>2 DEF LeftFolds
  <2>3. f[{}] = NoRun
    BY <2>1 DEF LeftFolds
  <2>4. f = Loop(f)
    BY <2>1, <2>2, <2>3
  <2> HIDE DEF Loop
  <2> QED BY <2>4
<1>7. iter = Loop(iter)
  <2> HIDE DEF Loop
  <2> QED BY <1>6
<1> HIDE DEF iter
<1>8. iter[{}] = NoRun
  BY <1>7
<1>9. \A t \in SUBSET (1..n) : t # {} => iter[t] = RunStep(iter[t \ {Max(t)}], s[Max(t)])
  BY <1>7
<1>10. Unfolds(iter, n, step, RunStates)
  <2> SUFFICES ASSUME NEW t \in SUBSET (1..n), t # {}, iter[t \ {Greatest(t)}] \in RunStates
               PROVE  iter[t] = step[Greatest(t)][iter[t \ {Greatest(t)}]]
    BY DEF Unfolds
  <2> DEFINE m == Greatest(t)
  <2>1. m \in 1..n /\ m = Max(t)
    BY <1>5
  <2> HIDE DEF m
  <2>2. iter[t \ {m}] \in RunStates
    BY DEF m
  <2>3. step[m][iter[t \ {m}]] = iter[t]
    BY <1>4, <1>9, <2>1, <2>2
  <2> QED BY <2>3 DEF m
<1>11. PICK acc : Accumulates(acc, n, NoRun, step, RunStates) /\ acc[n] = iter[1..n]
  BY <1>1, <1>3, <1>8, <1>10, LeftPrefixes
<1>12. ASSUME NEW k \in 1..n PROVE acc[k] = RunStep(acc[k - 1], s[k])
  <2>1. k - 1 \in 0..n
    BY <1>1
  <2> QED BY <1>4, <1>11, <2>1 DEF Accumulates
<1>13. RunsSeen(acc, s)
  BY <1>11, <1>12 DEF RunsSeen, Accumulates, n
<1> QED BY <1>2, <1>11, <1>13 DEF n

-----------------------------------------------------------------------------
(* The excursions of the cumulative sums, forward and reverse.             *)

\* The two excursions that are read from a walk.
Forward(w) == Larger(w.sup, -w.inf)

Backward(w) == Larger(w.sup - w.sum, w.sum - w.inf)

\* What a walk has seen of the partial sums up to k.
Seen(S, k) ==
  {w \in Walks : /\ w.sum = S[k]
                 /\ \A j \in 0..k : w.inf <= S[j] /\ S[j] <= w.sup
                 /\ \E j \in 0..k : S[j] = w.sup
                 /\ \E j \in 0..k : S[j] = w.inf}

\* The partial sums of a sequence of bits.
PartialSums(S, bits) ==
  /\ S[0] = 0
  /\ \A k \in 1..Len(bits) : S[k] = S[k - 1] + (IF bits[k] = 1 THEN 1 ELSE -1)
  /\ \A k \in 0..Len(bits) : S[k] \in Int

\* A turn with the next bit sees the next partial sum.
LEMMA StepSees ==
  ASSUME NEW k \in Nat, NEW S, \A j \in 0..(k + 1) : S[j] \in Int,
         NEW w \in Seen(S, k), NEW b,
         S[k + 1] = S[k] + (IF b = 1 THEN 1 ELSE -1)
  PROVE  WalkStep(w, b) \in Seen(S, k + 1)
<1> DEFINE v == WalkStep(w, b)
           s == S[k + 1]
<1>1. w \in Walks /\ w.sum = S[k] /\ w.sup \in Int /\ w.inf \in Int /\ w.sum \in Int
  BY DEF Seen, Walks
<1>2. v = [sum |-> s, sup |-> Larger(w.sup, s), inf |-> Smaller(w.inf, s)]
  BY <1>1 DEF WalkStep
<1>3. s \in Int /\ k + 1 \in 0..(k + 1) /\ \A j \in 0..(k + 1) : j \in 0..k \/ j = k + 1
  OBVIOUS
<1>4. v \in Walks /\ v.sum = S[k + 1] /\ v.sup = Larger(w.sup, s) /\ v.inf = Smaller(w.inf, s)
  BY <1>1, <1>2, <1>3 DEF Walks, Larger, Smaller
<1>5. \A j \in 0..k : w.inf <= S[j] /\ S[j] <= w.sup /\ S[j] \in Int /\ j \in 0..(k + 1)
  BY DEF Seen
<1>6. ASSUME NEW j \in 0..(k + 1) PROVE v.inf <= S[j] /\ S[j] <= v.sup
  <2>1. CASE j \in 0..k
    BY <1>1, <1>3, <1>4, <1>5, <2>1 DEF Larger, Smaller
  <2>2. CASE j = k + 1
    BY <1>1, <1>3, <1>4, <2>2 DEF Larger, Smaller
  <2> QED BY <1>3, <2>1, <2>2
<1>7. \E j \in 0..(k + 1) : S[j] = v.sup
  <2>1. PICK j \in 0..k : S[j] = w.sup
    BY DEF Seen
  <2>2. v.sup = S[j] \/ v.sup = s
    BY <1>4, <2>1 DEF Larger
  <2> HIDE DEF v
  <2> QED BY <1>3, <1>5, <2>2
<1>8. \E j \in 0..(k + 1) : S[j] = v.inf
  <2>1. PICK j \in 0..k : S[j] = w.inf
    BY DEF Seen
  <2>2. v.inf = S[j] \/ v.inf = s
    BY <1>4, <2>1 DEF Smaller
  <2> HIDE DEF v
  <2> QED BY <1>3, <1>5, <2>2
<1> HIDE DEF v
<1>9. v \in Seen(S, k + 1)
  BY <1>4, <1>6, <1>7, <1>8 DEF Seen
<1> QED BY <1>9 DEF v

\* The loop ends with the last, the greatest and the least partial sum.
LEMMA WalkSees ==
  ASSUME NEW bits \in Seq(Bit)
  PROVE  \E S : PartialSums(S, bits) /\ WalkOf(bits) \in Seen(S, Len(bits))
<1> DEFINE n == Len(bits)
<1>1. PICK acc : Walk(acc, bits) /\ WalkOf(bits) = acc[n]
  BY WalkIsFold
<1>2. n \in Nat /\ \A k \in 1..n : bits[k] \in Bit
  OBVIOUS
<1> DEFINE S == [k \in 0..n |-> acc[k].sum]
           T == [k \in 0..n |-> Seen(S, k)]
<1>3. \A k \in 0..n : S[k] = acc[k].sum /\ S[k] \in Int /\ acc[k] \in Walks
  BY <1>1 DEF Walk, Walks
<1>4. \A k \in 0..n : T[k] = Seen(S, k)
  OBVIOUS
<1>5. ASSUME NEW k \in 1..n
      PROVE  /\ acc[k] = WalkStep(acc[k - 1], bits[k]) /\ k - 1 \in 0..n /\ k \in 0..n
             /\ S[k] = S[k - 1] + (IF bits[k] = 1 THEN 1 ELSE -1)
  <2>1. acc[k] = WalkStep(acc[k - 1], bits[k]) /\ k - 1 \in 0..n /\ k \in 0..n
    BY <1>1, <1>2 DEF Walk
  <2>2. acc[k].sum = acc[k - 1].sum + (IF bits[k] = 1 THEN 1 ELSE -1)
    BY <2>1 DEF WalkStep
  <2> QED BY <1>3, <2>1, <2>2
<1>6. acc[0] = Start /\ S[0] = 0 /\ 0 \in 0..n
  BY <1>1, <1>2, <1>3 DEF Walk, Start
<1> HIDE DEF n, S, T
<1>7. PartialSums(S, bits)
  BY <1>3, <1>5, <1>6 DEF PartialSums, n
<1>8. acc[0] \in T[0]
  <2>1. Start \in Seen(S, 0)
    BY <1>6 DEF Start, Seen, Walks
  <2> QED BY <1>4, <1>6, <2>1
<1>9. ASSUME NEW k \in 0..n, k > 0, acc[k - 1] \in T[k - 1] PROVE acc[k] \in T[k]
  <2>1. k \in 1..n /\ k - 1 \in 0..n /\ k - 1 \in Nat /\ (k - 1) + 1 = k
    BY <1>2, <1>9
  <2>2. acc[k - 1] \in Seen(S, k - 1) /\ \A j \in 0..k : S[j] \in Int
    BY <1>2, <1>3, <1>4, <1>9, <2>1
  <2>3. WalkStep(acc[k - 1], bits[k]) \in Seen(S, (k - 1) + 1)
    BY <1>5, <2>1, <2>2, StepSees
  <2> QED BY <1>4, <1>5, <2>1, <2>3
<1>10. \A k \in 0..n : acc[k] \in T[k]
  <2>1. 0 \in Int /\ n \in Int
    BY <1>2
  <2> QED BY <1>8, <1>9, <2>1, TypeInduction, Zenon
<1>11. WalkOf(bits) \in Seen(S, n)
  <2>1. n \in 0..n
    BY <1>2
  <2> QED BY <1>1, <1>4, <1>10, <2>1 DEF n
<1> QED BY <1>7, <1>11 DEF n

\* The partial sums of the reversed bits are those of the bits, from the other end.
LEMMA ReverseSums ==
  ASSUME NEW bits \in Seq(Bit), NEW S, PartialSums(S, bits),
         NEW R, PartialSums(R, Reverse(bits))
  PROVE  \A k \in 0..Len(bits) : R[k] = S[Len(bits)] - S[Len(bits) - k]
<1> DEFINE n == Len(bits)
           T == [k \in 0..n |-> {S[n] - S[n - k]}]
<1>1. n \in Nat /\ Len(Reverse(bits)) = n
      /\ \A k \in 1..n : Reverse(bits)[k] = bits[n - k + 1]
  BY DEF Reverse
<1>2. \A k \in 0..n : T[k] = {S[n] - S[n - k]}
  OBVIOUS
<1> HIDE DEF n, T
<1>3. R[0] \in T[0] /\ 0 \in Int /\ n \in Int
  <2>1. S[n] \in Int /\ n - 0 = n /\ R[0] = 0 /\ 0 \in 0..n
    BY <1>1 DEF PartialSums, n
  <2>2. R[0] = S[n] - S[n - 0]
    BY <2>1
  <2> QED BY <1>1, <1>2, <2>1, <2>2
<1>4. ASSUME NEW k \in 0..n, k > 0, R[k - 1] \in T[k - 1] PROVE R[k] \in T[k]
  <2> DEFINE j == n - k + 1
             d == IF bits[j] = 1 THEN 1 ELSE -1
  <2>1. k \in 1..n /\ k - 1 \in 0..n /\ j \in 1..n /\ n - (k - 1) = j /\ n - k = j - 1
        /\ j \in 0..n /\ j - 1 \in 0..n /\ n \in 0..n
    BY <1>1, <1>4
  <2>2. R[k - 1] = S[n] - S[j]
    BY <1>2, <1>4, <2>1
  <2>3. R[k] = R[k - 1] + d
    BY <1>1, <2>1 DEF PartialSums
  <2>4. S[j] = S[j - 1] + d
    BY <2>1 DEF PartialSums, n
  <2>5. S[n] \in Int /\ S[j - 1] \in Int /\ d \in Int
    BY <2>1 DEF PartialSums, n
  <2> HIDE DEF j, d
  <2>6. R[k] = S[n] - S[j - 1]
    BY <2>2, <2>3, <2>4, <2>5
  <2> QED BY <1>2, <2>1, <2>6
<1>5. \A k \in 0..n : R[k] \in T[k]
  BY <1>3, <1>4, TypeInduction, Zenon
<1> QED BY <1>2, <1>5 DEF n

\* The greatest and the least sum of the reversed bits.
LEMMA ReverseWalk ==
  ASSUME NEW bits \in Seq(Bit)
  PROVE  LET w == WalkOf(bits)
             r == WalkOf(Reverse(bits))
         IN  w \in Walks /\ r \in Walks /\ r.sup = w.sum - w.inf /\ r.inf = w.sum - w.sup
<1> DEFINE n == Len(bits)
           w == WalkOf(bits)
           r == WalkOf(Reverse(bits))
<1>1. Reverse(bits) \in Seq(Bit) /\ Len(Reverse(bits)) = n /\ n \in Nat
  BY DEF Reverse
<1>2. PICK S : PartialSums(S, bits) /\ w \in Seen(S, n)
  BY WalkSees
<1>3. PICK R : PartialSums(R, Reverse(bits)) /\ r \in Seen(R, n)
  BY <1>1, WalkSees
<1>4. \A k \in 0..n : R[k] = S[n] - S[n - k]
  BY <1>2, <1>3, ReverseSums
<1>5. \A k \in 0..n : S[k] \in Int /\ n - k \in 0..n /\ n - (n - k) = k
  BY <1>1, <1>2 DEF PartialSums
<1>6. n \in 0..n /\ S[n] \in Int
  BY <1>1, <1>5
<1>7. \A k \in 0..n : R[k] \in Int /\ R[n - k] = S[n] - S[k]
  BY <1>4, <1>5, <1>6, SMTT(30)
<1> HIDE DEF n, w, r
<1>8. /\ w.sum = S[n] /\ w.sup \in Int /\ w.inf \in Int /\ w \in Walks
      /\ \A j \in 0..n : w.inf <= S[j] /\ S[j] <= w.sup
  BY <1>2 DEF Seen, Walks
<1>9. /\ r.sup \in Int /\ r.inf \in Int /\ r \in Walks
      /\ \A j \in 0..n : r.inf <= R[j] /\ R[j] <= r.sup
  BY <1>3 DEF Seen, Walks
<1>10. r.sup = S[n] - w.inf
  <2>1. PICK i \in 0..n : S[i] = w.inf
    BY <1>2 DEF Seen
  <2>2. PICK j \in 0..n : R[j] = r.sup
    BY <1>3 DEF Seen
  <2>3. n - i \in 0..n /\ R[n - i] = S[n] - w.inf
    BY <1>5, <1>7, <2>1
  <2>4. S[n] - w.inf <= r.sup
    BY <1>9, <2>3
  <2>5. n - j \in 0..n /\ r.sup = S[n] - S[n - j]
    BY <1>4, <1>5, <2>2
  <2>6. w.inf <= S[n - j] /\ S[n - j] \in Int
    BY <1>5, <1>8, <2>5
  <2> QED BY <1>6, <1>8, <1>9, <2>4, <2>5, <2>6, SMTT(30)
<1>11. r.inf = S[n] - w.sup
  <2>1. PICK i \in 0..n : S[i] = w.sup
    BY <1>2 DEF Seen
  <2>2. PICK j \in 0..n : R[j] = r.inf
    BY <1>3 DEF Seen
  <2>3. n - i \in 0..n /\ R[n - i] = S[n] - w.sup
    BY <1>5, <1>7, <2>1
  <2>4. S[n] - w.sup >= r.inf
    BY <1>9, <2>3
  <2>5. n - j \in 0..n /\ r.inf = S[n] - S[n - j]
    BY <1>4, <1>5, <2>2
  <2>6. w.sup >= S[n - j] /\ S[n - j] \in Int
    BY <1>5, <1>8, <2>5
  <2> QED BY <1>6, <1>8, <1>9, <2>4, <2>5, <2>6, SMTT(30)
<1> QED BY <1>8, <1>9, <1>10, <1>11 DEF w, r

\* The first bit already takes the walk away from zero.
LEMMA ExcursionBounds ==
  ASSUME NEW bits \in Seq(Bit), bits # <<>>
  PROVE  Forward(WalkOf(bits)) \in 1..Len(bits)
<1> DEFINE n == Len(bits)
           w == WalkOf(bits)
<1>1. n \in Nat /\ n >= 1 /\ n \in Int /\ 0 \in Int
  OBVIOUS
<1>2. PICK S : PartialSums(S, bits) /\ w \in Seen(S, n)
  BY WalkSees
<1> DEFINE T == [k \in 0..n |-> -k..k]
<1>3. \A k \in 0..n : T[k] = -k..k
  OBVIOUS
<1>4. S[0] \in T[0]
  <2>1. S[0] = 0 /\ 0 \in 0..n
    BY <1>1, <1>2 DEF PartialSums
  <2> QED BY <2>1
<1>5. ASSUME NEW k \in 0..n, k > 0, S[k - 1] \in T[k - 1] PROVE S[k] \in T[k]
  <2>1. k \in 1..n /\ k - 1 \in 0..n
    BY <1>5
  <2>2. S[k] = S[k - 1] + (IF bits[k] = 1 THEN 1 ELSE -1)
    BY <1>2, <2>1 DEF PartialSums
  <2>3. S[k - 1] \in -(k - 1)..(k - 1)
    BY <1>3, <1>5, <2>1
  <2>4. S[k] \in -k..k
    BY <2>1, <2>2, <2>3
  <2> QED BY <1>3, <2>4
<1> HIDE DEF n, w, T
<1>6. \A k \in 0..n : S[k] \in T[k]
  BY <1>1, <1>4, <1>5, TypeInduction, Zenon
<1>7. \A k \in 0..n : S[k] \in -k..k
  BY <1>3, <1>6
<1>8. \A k \in 0..n : S[k] \in -n..n
  <2> SUFFICES ASSUME NEW k \in 0..n PROVE S[k] \in -n..n
    OBVIOUS
  <2>1. S[k] \in -k..k /\ k \in Nat /\ k <= n
    BY <1>1, <1>7
  <2> QED BY <1>1, <2>1
<1>9. /\ w.sup \in Int /\ w.inf \in Int
      /\ \A j \in 0..n : w.inf <= S[j] /\ S[j] <= w.sup
  BY <1>2 DEF Seen, Walks
<1>10. w.sup \in -n..n /\ w.inf \in -n..n
  <2>1. PICK i \in 0..n : S[i] = w.sup
    BY <1>2 DEF Seen
  <2>2. PICK j \in 0..n : S[j] = w.inf
    BY <1>2 DEF Seen
  <2> QED BY <1>8, <2>1, <2>2
<1>11. S[1] = 1 \/ S[1] = -1
  <2>1. 1 \in 1..n /\ 1 - 1 = 0
    BY <1>1
  <2> QED BY <1>2, <2>1 DEF PartialSums, n
<1>12. w.inf <= S[1] /\ S[1] <= w.sup
  <2>1. 1 \in 0..n
    BY <1>1
  <2> QED BY <1>9, <2>1
<1>13. Forward(w) \in 1..n
  BY <1>1, <1>9, <1>10, <1>11, <1>12 DEF Forward, Larger
<1> QED BY <1>13 DEF w, n

\* The one pass of the cumulative sums test finds both excursions: the reverse one is
\* the forward one of the reversed bits, and neither is zero, the divisor of both sums
\* of cumulativeSumsP.
THEOREM ExcursionsAgree ==
  ASSUME NEW bits \in Seq(Bit), bits # <<>>
  PROVE  LET walk == Excursions(bits)
         IN  /\ walk.forward \in 1..Len(bits) /\ walk.reverse \in 1..Len(bits)
             /\ walk.reverse = Excursions(Reverse(bits)).forward
<1> DEFINE w == WalkOf(bits)
           r == WalkOf(Reverse(bits))
<1>1. /\ Excursions(bits).forward = Forward(w)
      /\ Excursions(bits).reverse = Backward(w)
      /\ Excursions(Reverse(bits)).forward = Forward(r)
  BY ExcursionsOfWalk DEF Forward, Backward
<1>2. Reverse(bits) \in Seq(Bit) /\ Len(Reverse(bits)) = Len(bits) /\ Reverse(bits) # <<>>
  BY DEF Reverse
<1>3. Forward(w) \in 1..Len(bits) /\ Forward(r) \in 1..Len(bits)
  BY <1>2, ExcursionBounds
<1>4. /\ w \in Walks /\ r \in Walks /\ r.sup = w.sum - w.inf /\ r.inf = w.sum - w.sup
  BY ReverseWalk
<1> HIDE DEF w, r
<1>5. Backward(w) = Forward(r)
  <2>1. w.sup \in Int /\ w.sum \in Int /\ w.inf \in Int
    BY <1>4 DEF Walks
  <2> QED BY <1>4, <2>1 DEF Forward, Backward, Larger
<1> QED BY <1>1, <1>3, <1>5

-----------------------------------------------------------------------------
(* The longest run of ones, its bin, and the runs of bits.                 *)

\* What the loop of longestRunOnesInBlock has seen of the first k bits.
SeenRuns(bits, k) ==
  {r \in RunStates :
     /\ r.cur <= r.runs /\ r.runs <= k
     /\ \A j \in (k - r.cur + 1)..k : bits[j] = 1
     /\ r.cur < k => bits[k - r.cur] = 0
     /\ \E i \in 1..(k - r.runs + 1) : \A j \in i..(i + r.runs - 1) : bits[j] = 1
     /\ \A i \in 1..(k - r.runs) : \E j \in i..(i + r.runs) : bits[j] = 0}

\* A turn with the next bit sees the runs of one bit more.
LEMMA StepSeesRuns ==
  ASSUME NEW bits, NEW k \in Nat, bits[k + 1] \in Bit,
         NEW r \in SeenRuns(bits, k)
  PROVE  RunStep(r, bits[k + 1]) \in SeenRuns(bits, k + 1)
<1> DEFINE s == RunStep(r, bits[k + 1])
<1>1. /\ r \in RunStates /\ r.cur \in Nat /\ r.runs \in Nat
      /\ r.cur <= r.runs /\ r.runs <= k
      /\ \A j \in (k - r.cur + 1)..k : bits[j] = 1
      /\ r.cur < k => bits[k - r.cur] = 0
      /\ \A i \in 1..(k - r.runs) : \E j \in i..(i + r.runs) : bits[j] = 0
  BY DEF SeenRuns, RunStates
<1>2. PICK first \in 1..(k - r.runs + 1) :
        \A j \in first..(first + r.runs - 1) : bits[j] = 1
  BY DEF SeenRuns
<1>3. /\ s \in RunStates
      /\ s.cur = IF bits[k + 1] = 1 THEN r.cur + 1 ELSE 0
      /\ s.runs = IF s.cur > r.runs THEN s.cur ELSE r.runs
  BY <1>1, RunStepType DEF RunStep, Larger, RunStates
<1> HIDE DEF s
<1>4. /\ s.cur \in Nat /\ s.runs \in Nat /\ s.cur <= s.runs /\ r.runs <= s.runs
      /\ s.runs <= k + 1 /\ s.cur <= k + 1
  BY <1>1, <1>3
<1>5. \A j \in ((k + 1) - s.cur + 1)..(k + 1) : bits[j] = 1
  <2> SUFFICES ASSUME NEW j \in ((k + 1) - s.cur + 1)..(k + 1) PROVE bits[j] = 1
    OBVIOUS
  <2>1. bits[k + 1] = 1 /\ s.cur = r.cur + 1
    BY <1>3, <1>4
  <2>2. j = k + 1 \/ j \in (k - r.cur + 1)..k
    BY <1>1, <2>1
  <2> QED BY <1>1, <2>1, <2>2
<1>6. s.cur < k + 1 => bits[(k + 1) - s.cur] = 0
  <2>1. CASE bits[k + 1] = 1
    <3>1. s.cur = r.cur + 1
      BY <1>3, <2>1
    <3>2. (k + 1) - s.cur = k - r.cur
      BY <1>1, <3>1
    <3> QED BY <1>1, <3>1, <3>2
  <2>2. CASE bits[k + 1] = 0
    <3>1. s.cur = 0 /\ (k + 1) - s.cur = k + 1
      BY <1>3, <2>2
    <3> QED BY <2>2, <3>1
  <2> QED BY <2>1, <2>2 DEF Bit
<1>7. \E i \in 1..((k + 1) - s.runs + 1) : \A j \in i..(i + s.runs - 1) : bits[j] = 1
  <2>1. CASE s.runs = r.runs
    <3>1. first \in 1..((k + 1) - s.runs + 1)
      BY <1>1, <2>1
    <3> QED BY <1>2, <2>1, <3>1
  <2>2. CASE s.runs = s.cur
    <3> DEFINE i == (k + 1) - s.cur + 1
    <3>1. i \in 1..((k + 1) - s.runs + 1) /\ i + s.runs - 1 = k + 1
      BY <1>4, <2>2
    <3> QED BY <1>5, <3>1
  <2> QED BY <1>3, <2>1, <2>2
<1>8. \A i \in 1..((k + 1) - s.runs) : \E j \in i..(i + s.runs) : bits[j] = 0
  <2> SUFFICES ASSUME NEW i \in 1..((k + 1) - s.runs)
               PROVE  \E j \in i..(i + s.runs) : bits[j] = 0
    OBVIOUS
  <2>1. CASE i + s.runs = k + 1
    <3>1. s.cur < k + 1 /\ (k + 1) - s.cur \in i..(i + s.runs)
      BY <1>4, <2>1
    <3> QED BY <1>6, <3>1
  <2>2. CASE i + s.runs # k + 1
    <3>1. i \in 1..(k - r.runs)
      BY <1>1, <1>4, <2>2
    <3>2. PICK j \in i..(i + r.runs) : bits[j] = 0
      BY <1>1, <3>1
    <3>3. j \in i..(i + s.runs)
      BY <1>1, <1>4
    <3> QED BY <3>2, <3>3
  <2> QED BY <2>1, <2>2
<1>9. s \in SeenRuns(bits, k + 1)
  BY <1>3, <1>4, <1>5, <1>6, <1>7, <1>8 DEF SeenRuns
<1> QED BY <1>9 DEF s

\* longestRunOnesInBlock finds a run of ones in a block of any length, and there is no
\* longer one in it.
THEOREM LongestRunFound ==
  ASSUME NEW bits \in Seq(Bit)
  PROVE  LET longest == LongestRun(bits)
             n == Len(bits)
         IN  /\ longest \in 0..n
             /\ \E i \in 1..(n - longest + 1) : \A k \in i..(i + longest - 1) : bits[k] = 1
             /\ \A i \in 1..(n - longest) : \E k \in i..(i + longest) : bits[k] = 0
<1> DEFINE n == Len(bits)
           T == [k \in 0..n |-> SeenRuns(bits, k)]
<1>1. PICK acc : RunsSeen(acc, bits) /\ RunOf(bits) = acc[n]
  BY RunIsFold
<1>2. n \in Nat /\ n \in Int /\ 0 \in Int /\ \A k \in 1..n : bits[k] \in Bit
  OBVIOUS
<1>3. \A k \in 0..n : T[k] = SeenRuns(bits, k)
  OBVIOUS
<1>4. acc[0] \in T[0]
  <2>1. NoRun \in SeenRuns(bits, 0)
    <3>1. NoRun \in RunStates /\ NoRun.cur = 0 /\ NoRun.runs = 0
      BY DEF NoRun, RunStates
    <3> QED BY <3>1 DEF SeenRuns
  <2> QED BY <1>1, <1>2, <2>1 DEF RunsSeen
<1>5. ASSUME NEW k \in 0..n, k > 0, acc[k - 1] \in T[k - 1] PROVE acc[k] \in T[k]
  <2>1. k \in 1..n /\ k - 1 \in 0..n /\ k - 1 \in Nat /\ (k - 1) + 1 = k
    BY <1>5
  <2>2. acc[k] = RunStep(acc[k - 1], bits[k]) /\ bits[k] \in Bit
    BY <1>1, <1>2, <2>1 DEF RunsSeen
  <2>3. acc[k - 1] \in SeenRuns(bits, k - 1)
    BY <1>3, <1>5, <2>1
  <2>4. RunStep(acc[k - 1], bits[(k - 1) + 1]) \in SeenRuns(bits, (k - 1) + 1)
    BY <2>1, <2>2, <2>3, StepSeesRuns
  <2> QED BY <1>3, <2>1, <2>2, <2>4
<1> HIDE DEF n, T
<1>6. \A k \in 0..n : acc[k] \in T[k]
  BY <1>2, <1>4, <1>5, TypeInduction, Zenon
<1>7. RunOf(bits) \in SeenRuns(bits, n)
  BY <1>1, <1>2, <1>3, <1>6
<1>8. LongestRun(bits) = RunOf(bits).runs
  BY LongestRunOfRun
<1> DEFINE r == RunOf(bits)
<1> HIDE DEF r
<1>9. r \in SeenRuns(bits, n)
  BY <1>7 DEF r
<1>10. /\ r.runs \in 0..n
       /\ \E i \in 1..(n - r.runs + 1) : \A k \in i..(i + r.runs - 1) : bits[k] = 1
       /\ \A i \in 1..(n - r.runs) : \E k \in i..(i + r.runs) : bits[k] = 0
  BY <1>2, <1>9 DEF SeenRuns, RunStates
<1> QED BY <1>8, <1>10 DEF r, n

\* v is the n runs from first on.
Tabulates(v, n, first) == Len(v) = n /\ \A j \in 1..n : v[j] = first + j - 1

\* A run is counted in the bin of the nearest of the runs first..first + n - 1.
LEMMA BinIsNearest ==
  ASSUME NEW run \in Nat, NEW v, NEW n \in Nat \ {0, 1}, NEW first \in Nat,
         Tabulates(v, n, first)
  PROVE  RunBin(run, v) = Smaller(Larger(run, v[1]), v[Len(v)]) - v[1] + 1
<1>1. /\ v[1] = first /\ v[n] = first + n - 1 /\ Len(v) = n
      /\ \A j \in 1..n : v[j] = first + j - 1
  <2>1. 1 \in 1..n /\ n \in 1..n
    OBVIOUS
  <2> QED BY <2>1 DEF Tabulates
<1>2. CASE run <= first
  BY <1>1, <1>2 DEF RunBin, Smaller, Larger
<1>3. CASE run > first /\ run < first + n - 1
  <2> DEFINE k == run - first + 1
             In(j) == run = v[j]
             Found == CHOOSE j \in 2..(n - 1) : In(j)
  <2>1. k \in 2..(n - 1) /\ In(k)
    BY <1>1, <1>3
  <2>2. \A j \in 2..(n - 1) : In(j) => j = k
    BY <1>1, <1>3
  <2>3. Found \in 2..(n - 1) /\ In(Found)
    <3> HIDE DEF In
    <3> QED BY <2>1
  <2>4. Found = k
    <3> HIDE DEF Found, In, k
    <3> QED BY <2>2, <2>3
  <2>5. RunBin(run, v) = Found
    BY <1>1, <1>3, <2>1 DEF RunBin
  <2>6. Smaller(Larger(run, first), first + n - 1) = run
    BY <1>3 DEF Smaller, Larger
  <2> HIDE DEF Found
  <2> QED BY <1>1, <1>3, <2>4, <2>5, <2>6
<1>4. CASE run >= first + n - 1
  <2>1. ~ \E j \in 2..(n - 1) : run = v[j]
    BY <1>1, <1>4
  <2>2. run > first
    BY <1>4
  <2>3. RunBin(run, v) = n
    BY <1>1, <2>1, <2>2 DEF RunBin
  <2>4. Smaller(Larger(run, first), first + n - 1) = first + n - 1
    BY <1>4, <2>2 DEF Smaller, Larger
  <2> QED BY <1>1, <2>3, <2>4
<1> QED BY <1>2, <1>3, <1>4

\* Every run falls into the bin of the nearest tabulated run, in both tiers.
THEOREM BinsAreNearest ==
  \A run \in Nat, t \in {Tier(128), Tier(6272)} :
    RunBin(run, t.v) = Smaller(Larger(run, t.v[1]), t.v[Len(t.v)]) - t.v[1] + 1
<1> SUFFICES ASSUME NEW run \in Nat, NEW t \in {Tier(128), Tier(6272)}
             PROVE  RunBin(run, t.v)
                      = Smaller(Larger(run, t.v[1]), t.v[Len(t.v)]) - t.v[1] + 1
  OBVIOUS
<1>1. CASE t = Tier(128)
  <2>1. t.v = <<1, 2, 3, 4>>
    BY <1>1 DEF Tier
  <2>2. Tabulates(t.v, 4, 1) /\ 4 \in Nat \ {0, 1} /\ 1 \in Nat
    BY <2>1 DEF Tabulates
  <2> QED BY <2>2, BinIsNearest
<1>2. CASE t = Tier(6272)
  <2>1. t.v = <<4, 5, 6, 7, 8, 9>>
    BY <1>2 DEF Tier
  <2>2. Tabulates(t.v, 6, 4) /\ 6 \in Nat \ {0, 1} /\ 4 \in Nat
    BY <2>1 DEF Tabulates
  <2> QED BY <2>2, BinIsNearest
<1> QED BY <1>1, <1>2

\* The two parts of a set share out its elements.
LEMMA PartsCount ==
  ASSUME NEW S, IsFiniteSet(S), NEW A, NEW B, A \cup B = S, A \cap B = {}
  PROVE  Cardinality(A) + Cardinality(B) = Cardinality(S)
<1>1. IsFiniteSet(A) /\ IsFiniteSet(B)
  BY FS_Subset
<1>2. Cardinality(A \cap B) = 0
  BY FS_EmptySet
<1>3. Cardinality(A) \in Nat /\ Cardinality(B) \in Nat
  BY <1>1, FS_CardinalityType
<1>4. Cardinality(A \cup B) = Cardinality(A) + Cardinality(B) - Cardinality(A \cap B)
  BY <1>1, FS_Union
<1> QED BY <1>2, <1>3, <1>4

\* Every two neighbours differ, which ends a run, or agree: the runs test and the
\* autocorrelation at lag 1 share out the bits.
THEOREM RunsAndAgreements ==
  ASSUME NEW bits \in Seq(Bit), bits # <<>>
  PROVE  Runs(bits) + Agreements(bits, 1) = Len(bits)
<1> DEFINE n == Len(bits)
           Differ == {i \in 2..n : bits[i] # bits[i - 1]}
           Agree == {i \in 2..n : bits[i] = bits[i - 1]}
           Before == {i \in 1..(n - 1) : bits[i] = bits[i + 1]}
<1>1. n \in Nat /\ n >= 1
  OBVIOUS
<1>2. IsFiniteSet(2..n) /\ Cardinality(2..n) = n - 1
  BY <1>1, FS_Interval
<1>3. Differ \cup Agree = 2..n /\ Differ \cap Agree = {}
  OBVIOUS
<1>4. IsFiniteSet(Before) /\ Cardinality(Before) \in Nat
      /\ IsFiniteSet(Differ) /\ Cardinality(Differ) \in Nat
  <2>1. Before \in SUBSET (1..(n - 1)) /\ Differ \in SUBSET (2..n)
    BY <1>1
  <2>2. IsFiniteSet(1..(n - 1)) /\ IsFiniteSet(2..n)
    BY <1>1, FS_Interval
  <2> HIDE DEF Before, Differ, n
  <2> QED BY <2>1, <2>2, FS_Subset, FS_CardinalityType
<1>5. Cardinality(Agree) = Cardinality(Before)
  <2> DEFINE f == [i \in Before |-> i + 1]
  <2>1. f \in [Before -> Agree]
    BY <1>1
  <2>2. \A i, j \in Before : f[i] = f[j] => i = j
    OBVIOUS
  <2>3. ASSUME NEW j \in Agree PROVE \E i \in Before : f[i] = j
    <3>1. j - 1 \in Before /\ (j - 1) + 1 = j
      BY <1>1
    <3> QED BY <3>1
  <2> HIDE DEF f
  <2>4. f \in Bijection(Before, Agree)
    BY <2>1, <2>2, <2>3 DEF Bijection, Injection, Surjection, IsInjective
  <2>5. ExistsBijection(Before, Agree)
    BY <2>4 DEF ExistsBijection
  <2> QED BY <1>4, <2>5, FS_Bijection
<1>6. Cardinality(Differ) + Cardinality(Agree) = n - 1
  BY <1>2, <1>3, PartsCount
<1>7. Runs(bits) = 1 + Cardinality(Differ) /\ Agreements(bits, 1) = Cardinality(Before)
  BY DEF Runs, Agreements
<1> HIDE DEF Differ, Agree, Before, n
<1>8. Runs(bits) + Agreements(bits, 1) = n
  BY <1>1, <1>4, <1>5, <1>6, <1>7
<1> QED BY <1>8 DEF n

-----------------------------------------------------------------------------
(* The counts over bytes.                                                  *)

\* FoldFunction with Larger is the largest value.
LEMMA LargestValue ==
  ASSUME NEW D, IsFiniteSet(D), NEW fun \in [D -> Nat]
  PROVE  LET largest == FoldFunction(Larger, 0, fun)
         IN  /\ largest \in Nat
             /\ \A x \in D : fun[x] <= largest
             /\ D # {} => \E x \in D : fun[x] = largest
<1> DEFINE pick == [s \in SUBSET D |-> CHOOSE x \in s : TRUE]
           step == [x \in D |-> [a \in Nat |-> Larger(fun[x], a)]]
           Loop(f) == [s \in SUBSET D |->
                         IF s = {} THEN 0
                         ELSE Larger(fun[CHOOSE x \in s : TRUE],
                                     f[s \ {CHOOSE x \in s : TRUE}])]
           iter == CHOOSE f : f = Loop(f)
<1>1. FoldFunction(Larger, 0, fun) = iter[D]
  BY DEF FoldFunction, FoldFunctionOnSet, MapThenFoldSet
<1>2. Picks(pick, D)
  BY DEF Picks
<1>3. \A s \in SUBSET D : pick[s] = CHOOSE x \in s : TRUE
  OBVIOUS
<1>4. Turns(step, D, Nat) /\ 0 \in Nat
  BY DEF Turns, Larger
<1>5. \A x \in D, a \in Nat : step[x][a] = Larger(fun[x], a)
  OBVIOUS
<1> HIDE DEF pick, step
<1>6. \E f : f = Loop(f)
  <2>1. PICK f : Folds(f, D, pick, 0, step) /\ \A s \in SUBSET D : f[s] \in Nat
    <3> DEFINE N == Nat
    <3>1. Turns(step, D, N) /\ 0 \in N
      BY <1>4
    <3> HIDE DEF N
    <3>2. \E f : Folds(f, D, pick, 0, step) /\ \A s \in SUBSET D : f[s] \in N
      BY <1>2, <3>1, SetRecursion
    <3> QED BY <3>2 DEF N
  <2> DEFINE g == [s \in SUBSET D |-> f[s]]
  <2>2. ASSUME NEW s \in SUBSET D
        PROVE  g[s] = IF s = {} THEN 0 ELSE Larger(fun[pick[s]], g[s \ {pick[s]}])
    BY <1>2, <1>5, <2>1 DEF Folds, Picks
  <2>3. g = Loop(g)
    BY <1>3, <2>2
  <2> HIDE DEF Loop
  <2> QED BY <2>3
<1>7. iter = Loop(iter)
  <2> HIDE DEF Loop
  <2> QED BY <1>6
<1> HIDE DEF iter
<1>8. \A s \in SUBSET D :
        iter[s] = IF s = {} THEN 0 ELSE Larger(fun[pick[s]], iter[s \ {pick[s]}])
  BY <1>3, <1>7
<1> DEFINE S == {s \in SUBSET D : /\ iter[s] \in Nat
                                  /\ \A x \in s : fun[x] <= iter[s]
                                  /\ s # {} => \E x \in s : fun[x] = iter[s]}
<1>9. {} \in S
  BY <1>8
<1>10. ASSUME NEW s \in SUBSET D, s # {}, s \ {pick[s]} \in S PROVE s \in S
  <2> DEFINE x == pick[s]
             rest == s \ {x}
  <2>1. x \in s /\ x \in D /\ fun[x] \in Nat
    BY <1>2, <1>10 DEF Picks
  <2>2. /\ iter[rest] \in Nat /\ \A y \in rest : fun[y] <= iter[rest]
        /\ rest # {} => \E y \in rest : fun[y] = iter[rest]
    BY <1>10
  <2>3. iter[s] = Larger(fun[x], iter[rest])
    BY <1>8, <1>10
  <2>4. rest = {} => iter[rest] = 0
    BY <1>8
  <2>5. \A y \in s : y = x \/ y \in rest
    OBVIOUS
  <2> HIDE DEF x
  <2>6. \A y \in s : fun[y] \in Nat
    OBVIOUS
  <2>7. iter[s] \in Nat /\ \A y \in s : fun[y] <= iter[s]
    <3> HIDE DEF rest
    <3> QED BY <2>1, <2>2, <2>3, <2>5, <2>6 DEF Larger
  <2>8. \E y \in s : fun[y] = iter[s]
    <3>1. CASE iter[s] = fun[x]
      BY <2>1, <3>1
    <3>2. CASE iter[s] # fun[x]
      <4>1. iter[s] = iter[rest] /\ iter[rest] # 0
        BY <2>1, <2>2, <2>3, <3>2 DEF Larger
      <4> QED BY <2>2, <2>4, <4>1
    <3> QED BY <3>1, <3>2
  <2> QED BY <2>7, <2>8
<1>11. \A s \in SUBSET D : s # {} /\ s \ {pick[s]} \in S => s \in S
  BY <1>10
<1> HIDE DEF S
<1>12. \A s \in SUBSET D : s \in S
  BY <1>2, <1>9, <1>11, SubsetInduction
<1>13. D \in S
  BY <1>12
<1> QED BY <1>1, <1>13 DEF S

\* The positions and the values of a sequence are finitely many.
LEMMA ValuesFinite ==
  ASSUME NEW S, NEW data \in Seq(S)
  PROVE  /\ IsFiniteSet(DOMAIN data) /\ Cardinality(DOMAIN data) = Len(data)
         /\ IsFiniteSet(ToSet(data)) /\ Cardinality(ToSet(data)) \in Nat
         /\ \A P \in SUBSET DOMAIN data : IsFiniteSet(P) /\ Cardinality(P) \in Nat
<1>1. IsFiniteSet(DOMAIN data) /\ Cardinality(DOMAIN data) = Len(data)
  <2>1. DOMAIN data = 1..Len(data) /\ Len(data) \in Nat
    OBVIOUS
  <2> QED BY <2>1, FS_Interval
<1>2. data \in Surjection(DOMAIN data, ToSet(data))
  <2>1. \A b \in ToSet(data) : \E i \in DOMAIN data : data[i] = b
    BY DEF ToSet
  <2>2. \A i \in DOMAIN data : data[i] \in ToSet(data)
    BY DEF ToSet
  <2>3. data = [i \in DOMAIN data |-> data[i]]
    OBVIOUS
  <2>4. data \in [DOMAIN data -> ToSet(data)]
    BY <2>2, <2>3
  <2> QED BY <2>1, <2>4 DEF Surjection
<1>3. IsFiniteSet(ToSet(data))
  BY <1>1, <1>2, FS_Surjection
<1> QED BY <1>1, <1>3, FS_Subset, FS_CardinalityType

\* Where the value b is.
Places(data, b) == {i \in DOMAIN data : data[i] = b}

\* MostCommonValue is the number of places of some value, and of no value fewer.
LEMMA MostCommonFacts ==
  ASSUME NEW data \in Seq(Byte), data # <<>>
  PROVE  /\ MostCommonValue(data) \in Nat
         /\ \A b \in ToSet(data) : Cardinality(Places(data, b)) <= MostCommonValue(data)
         /\ \E b \in ToSet(data) : Cardinality(Places(data, b)) = MostCommonValue(data)
<1> DEFINE D == ToSet(data)
<1>1. IsFiniteSet(D) /\ \A b \in D : Cardinality(Places(data, b)) \in Nat
  BY ValuesFinite DEF Places
<1>2. D # {}
  <2>1. 1 \in DOMAIN data
    OBVIOUS
  <2> QED BY <2>1 DEF ToSet
<1> HIDE DEF D
<1>3. Freq(data) = [b \in D |-> Cardinality(Places(data, b))]
  BY DEF Freq, Places, D
<1>4. Freq(data) \in [D -> Nat]
  BY <1>1, <1>3
<1> DEFINE largest == FoldFunction(Larger, 0, Freq(data))
<1>5. /\ largest \in Nat /\ \A b \in D : Freq(data)[b] <= largest
      /\ \E b \in D : Freq(data)[b] = largest
  BY <1>1, <1>2, <1>4, LargestValue
<1>6. MostCommonValue(data) = largest
  BY DEF MostCommonValue
<1> HIDE DEF largest
<1> QED BY <1>3, <1>5, <1>6 DEF D

\* A sample has no more bytes than the most common value for each of its values.
LEMMA MostCommonTimesDistinct ==
  ASSUME NEW data \in Seq(Byte), data # <<>>
  PROVE  MostCommonValue(data) * DistinctByteValues(data) >= Len(data)
<1> DEFINE D == ToSet(data)
           m == MostCommonValue(data)
           Of(s) == {i \in DOMAIN data : data[i] \in s}
           pick == [s \in SUBSET D |-> CHOOSE x \in s : TRUE]
           S == {s \in SUBSET D : Cardinality(Of(s)) <= m * Cardinality(s)}
<1>1. m \in Nat /\ \A b \in D : Cardinality(Places(data, b)) <= m
  BY MostCommonFacts
<1>2. IsFiniteSet(D) /\ Picks(pick, D)
  BY ValuesFinite DEF Picks
<1>3. \A P \in SUBSET DOMAIN data : IsFiniteSet(P) /\ Cardinality(P) \in Nat
  BY ValuesFinite
<1>4. \A s \in SUBSET D : IsFiniteSet(s) /\ Cardinality(s) \in Nat
  BY <1>2, FS_Subset, FS_CardinalityType
<1>5. {} \in S
  <2>1. Of({}) = {}
    OBVIOUS
  <2>2. Cardinality({}) = 0
    BY FS_EmptySet
  <2>3. Cardinality(Of({})) <= m * Cardinality({})
    <3>1. m \in Nat
      BY <1>1
    <3> HIDE DEF m
    <3>2. m * 0 = 0
      BY <3>1
    <3>3. Cardinality(Of({})) = 0
      BY <2>1, <2>2
    <3> HIDE DEF Of
    <3> QED BY <2>2, <3>2, <3>3
  <2> QED BY <2>3
<1> HIDE DEF m
<1>6. ASSUME NEW s \in SUBSET D, s # {}, s \ {pick[s]} \in S PROVE s \in S
  <2> DEFINE x == pick[s]
             rest == s \ {x}
  <2>1. x \in s /\ x \in D
    BY <1>2, <1>6 DEF Picks
  <2>2. Cardinality(Of(rest)) <= m * Cardinality(rest) /\ rest \in SUBSET D
    BY <1>6
  <2> HIDE DEF x
  <2>3. Of(s) = Of(rest) \cup Places(data, x) /\ Of(rest) \cap Places(data, x) = {}
    BY <2>1 DEF Places
  <2>4. /\ IsFiniteSet(Of(s)) /\ Cardinality(Of(s)) \in Nat
        /\ Cardinality(Of(rest)) \in Nat /\ Cardinality(Places(data, x)) \in Nat
    BY <1>3 DEF Places
  <2>5. Cardinality(Of(rest)) + Cardinality(Places(data, x)) = Cardinality(Of(s))
    <3> HIDE DEF Of, rest
    <3> QED BY <2>3, <2>4, PartsCount
  <2>6. Cardinality(rest) = Cardinality(s) - 1
    BY <1>4, <2>1, FS_RemoveElement
  <2> DEFINE c == Cardinality(s)
             p == Cardinality(Places(data, x))
             q == Cardinality(Of(rest))
             t == Cardinality(Of(s))
  <2>7. c \in Nat /\ p \in Nat /\ q \in Nat /\ p <= m /\ q <= m * (c - 1) /\ q + p = t
    BY <1>1, <1>4, <2>1, <2>2, <2>4, <2>5, <2>6
  <2> HIDE DEF c, p, q, t
  <2>8. m * (c - 1) + m = m * c
    BY <1>1, <2>7
  <2>9. m * (c - 1) \in Int /\ m * c \in Int
    BY <1>1, <2>7
  <2>10. t <= m * c
    BY <1>1, <2>7, <2>8, <2>9
  <2> QED BY <2>10 DEF t, c
<1>7. \A s \in SUBSET D : s # {} /\ s \ {pick[s]} \in S => s \in S
  BY <1>6
<1> HIDE DEF S, pick
<1>8. D \in S
  BY <1>2, <1>5, <1>7, SubsetInduction, SMTT(30)
<1>9. Of(D) = DOMAIN data
  BY DEF ToSet
<1>10. Cardinality(DOMAIN data) = Len(data)
  BY ValuesFinite
<1>11. Len(data) <= m * Cardinality(D)
  BY <1>8, <1>9, <1>10 DEF S
<1>12. m * Cardinality(D) \in Int /\ Len(data) \in Int
  BY <1>1, <1>2, <1>4
<1> QED BY <1>11, <1>12 DEF m, DistinctByteValues

\* The values that are not the most common one have a place each.
LEMMA MostCommonPlusDistinct ==
  ASSUME NEW data \in Seq(Byte), data # <<>>
  PROVE  MostCommonValue(data) + DistinctByteValues(data) <= Len(data) + 1
<1> DEFINE D == ToSet(data)
<1>1. PICK b \in D : Cardinality(Places(data, b)) = MostCommonValue(data)
  BY MostCommonFacts
<1> DEFINE Others == D \ {b}
           Rest == {i \in DOMAIN data : data[i] # b}
           f == [i \in Rest |-> data[i]]
<1>2. /\ IsFiniteSet(DOMAIN data) /\ Cardinality(DOMAIN data) = Len(data) /\ Len(data) \in Nat
      /\ IsFiniteSet(D) /\ Cardinality(D) \in Nat
      /\ IsFiniteSet(Rest) /\ Cardinality(Rest) \in Nat
      /\ Cardinality(Places(data, b)) \in Nat
  BY ValuesFinite DEF Places
<1>3. Places(data, b) \cup Rest = DOMAIN data /\ Places(data, b) \cap Rest = {}
  BY DEF Places
<1>4. f \in Surjection(Rest, Others)
  <2>1. f \in [Rest -> Others]
    BY DEF ToSet
  <2>2. \A x \in Others : \E i \in Rest : f[i] = x
    BY DEF ToSet
  <2> QED BY <2>1, <2>2 DEF Surjection
<1> HIDE DEF f, Rest, D
<1>5. Cardinality(Others) <= Cardinality(Rest)
  BY <1>2, <1>4, FS_Surjection
<1>6. Cardinality(Others) = Cardinality(D) - 1
  BY <1>1, <1>2, FS_RemoveElement
<1>7. Cardinality(Places(data, b)) + Cardinality(Rest) = Cardinality(DOMAIN data)
  BY <1>2, <1>3, PartsCount
<1> HIDE DEF Others
<1>8. MostCommonValue(data) + Cardinality(D) <= Len(data) + 1
  BY <1>1, <1>2, <1>5, <1>6, <1>7
<1> QED BY <1>8 DEF DistinctByteValues, D

\* Every value has a first place, and a first place is no repetition.
LEMMA DistinctAndRepetitions ==
  ASSUME NEW data \in Seq(Byte), data # <<>>
  PROVE  DistinctByteValues(data) + CountRepetitions(data) <= Len(data)
<1> DEFINE n == Len(data)
           D == ToSet(data)
           New == {i \in 1..n : i = 1 \/ data[i] # data[i - 1]}
           Reps == {i \in 2..n : data[i] = data[i - 1]}
           f == [i \in New |-> data[i]]
<1>1. DOMAIN data = 1..n /\ n \in Nat /\ n >= 1
  OBVIOUS
<1>2. /\ IsFiniteSet(1..n) /\ Cardinality(1..n) = n /\ Cardinality(D) \in Nat
      /\ IsFiniteSet(New) /\ Cardinality(New) \in Nat /\ Cardinality(Reps) \in Nat
  <2>1. New \in SUBSET (1..n) /\ Reps \in SUBSET (1..n)
    BY <1>1
  <2> HIDE DEF New, Reps, n
  <2> QED BY <1>1, <2>1, ValuesFinite DEF n
<1>3. ASSUME NEW b \in D PROVE \E i \in New : f[i] = b
  <2> SUFFICES ASSUME \A i \in New : data[i] # b PROVE FALSE
    OBVIOUS
  <2> DEFINE S == {k \in Nat : k \in 1..n => data[k] # b}
  <2>1. 0 \in S
    OBVIOUS
  <2>2. ASSUME NEW k \in Nat, k \in S PROVE k + 1 \in S
    <3> SUFFICES ASSUME k + 1 \in 1..n, data[k + 1] = b PROVE FALSE
      OBVIOUS
    <3>1. k + 1 \notin New
      OBVIOUS
    <3>2. k # 0 /\ data[k + 1] = data[(k + 1) - 1]
      BY <3>1
    <3>3. (k + 1) - 1 = k /\ k \in 1..n
      BY <1>1, <3>2
    <3> QED BY <2>2, <3>2, <3>3
  <2> HIDE DEF S
  <2>3. Nat \subseteq S
    BY <2>1, <2>2, SetInduction
  <2>4. \A k \in 1..n : data[k] # b
    BY <2>3 DEF S
  <2> QED BY <1>1, <2>4 DEF ToSet
<1>4. f \in Surjection(New, D)
  <2>1. \A i \in New : data[i] \in D
    BY <1>1 DEF ToSet
  <2>2. f \in [New -> D]
    BY <2>1
  <2> QED BY <1>3, <2>2 DEF Surjection
<1>5. New \cup Reps = 1..n /\ New \cap Reps = {}
  BY <1>1
<1>6. CountRepetitions(data) = Cardinality(Reps) /\ DistinctByteValues(data) = Cardinality(D)
  BY DEF CountRepetitions, DistinctByteValues
<1> HIDE DEF f, New, Reps, D, n
<1>7. Cardinality(D) <= Cardinality(New)
  BY <1>2, <1>4, FS_Surjection
<1>8. Cardinality(New) + Cardinality(Reps) = n
  BY <1>2, <1>5, PartsCount
<1>9. Cardinality(D) + Cardinality(Reps) <= n
  BY <1>2, <1>7, <1>8
<1> QED BY <1>6, <1>9 DEF n

\* The counts of byte values that the estimators divide and take logarithms of agree:
\* those of minentropy.go and structure.go are taken in loops of their own.
THEOREM ByteCountsAgree ==
  ASSUME NEW data \in Seq(Byte), data # <<>>
  PROVE  /\ MostCommonValue(data) * DistinctByteValues(data) >= Len(data)
         /\ MostCommonValue(data) + DistinctByteValues(data) <= Len(data) + 1
         /\ DistinctByteValues(data) + CountRepetitions(data) <= Len(data)
BY MostCommonTimesDistinct, MostCommonPlusDistinct, DistinctAndRepetitions

-----------------------------------------------------------------------------
(* The ones of a sample, by bit, by position and by block.                 *)

\* The bit of a byte at a position from 1 to 8, the most significant one first.
BitAt(b, pos) == (b \div 2 ^ (8 - pos)) % 2

\* A position of a byte is one of eight.
LEMMA EightPositions ==
  ASSUME NEW pos \in 1..8
  PROVE  pos = 1 \/ pos = 2 \/ pos = 3 \/ pos = 4 \/ pos = 5 \/ pos = 6 \/ pos = 7 \/ pos = 8
OBVIOUS

\* A byte is the sum of its bits, each with its power of 2.
LEMMA ByteOfBits ==
  ASSUME NEW b \in Byte
  PROVE  /\ \A pos \in 1..8 : BitAt(b, pos) \in Bit
         /\ b = 128 * BitAt(b, 1) + 64 * BitAt(b, 2) + 32 * BitAt(b, 3) + 16 * BitAt(b, 4)
                + 8 * BitAt(b, 5) + 4 * BitAt(b, 6) + 2 * BitAt(b, 7) + BitAt(b, 8)
<1>1. /\ BitAt(b, 1) = (b \div 128) % 2 /\ BitAt(b, 2) = (b \div 64) % 2
      /\ BitAt(b, 3) = (b \div 32) % 2 /\ BitAt(b, 4) = (b \div 16) % 2
      /\ BitAt(b, 5) = (b \div 8) % 2 /\ BitAt(b, 6) = (b \div 4) % 2
      /\ BitAt(b, 7) = (b \div 2) % 2 /\ BitAt(b, 8) = (b \div 1) % 2
  BY DEF BitAt
<1>2. b \in 0..255
  BY DEF Byte
<1>3. \A pos \in 1..8 : BitAt(b, pos) \in Bit
  BY <1>1, <1>2, EightPositions DEF Bit
<1>4. b = 128 * ((b \div 128) % 2) + 64 * ((b \div 64) % 2) + 32 * ((b \div 32) % 2)
          + 16 * ((b \div 16) % 2) + 8 * ((b \div 8) % 2) + 4 * ((b \div 4) % 2)
          + 2 * ((b \div 2) % 2) + ((b \div 1) % 2)
  BY <1>2
<1> QED BY <1>1, <1>3, <1>4

\* The bits of a sample are the bits of its bytes, in order.
LEMMA BitsOfBytes ==
  ASSUME NEW data \in Seq(Byte)
  PROVE  /\ ToBits(data) \in Seq(Bit) /\ Len(ToBits(data)) = 8 * Len(data)
         /\ \A i \in 1..Len(data), pos \in 1..8 :
              ToBits(data)[8 * (i - 1) + pos] = BitAt(data[i], pos)
<1> DEFINE n == Len(data)
           bits == ToBits(data)
<1>1. n \in Nat /\ \A i \in 1..n : data[i] \in Byte
  OBVIOUS
<1> HIDE DEF n
<1>2. bits = [k \in 1..(8 * n) |-> (data[(k - 1) \div 8 + 1] \div 2 ^ (7 - ((k - 1) % 8))) % 2]
  BY DEF ToBits, n
<1>3. ASSUME NEW k \in 1..(8 * n)
      PROVE  /\ (k - 1) \div 8 + 1 \in 1..n /\ ((k - 1) % 8) + 1 \in 1..8
             /\ bits[k] = BitAt(data[(k - 1) \div 8 + 1], ((k - 1) % 8) + 1)
  <2> DEFINE r == (k - 1) % 8
  <2>1. r \in 0..7 /\ (k - 1) \div 8 + 1 \in 1..n
    BY <1>1
  <2>2. bits[k] = (data[(k - 1) \div 8 + 1] \div 2 ^ (7 - r)) % 2
    BY <1>2
  <2> HIDE DEF r
  <2>3. 7 - r = 8 - (r + 1) /\ r + 1 \in 1..8
    BY <2>1
  <2> QED BY <2>1, <2>2, <2>3 DEF BitAt, r
<1> HIDE DEF bits
<1>4. ASSUME NEW k \in 1..(8 * n) PROVE bits[k] \in Bit
  <2> DEFINE i == (k - 1) \div 8 + 1
             pos == ((k - 1) % 8) + 1
  <2>1. i \in 1..n /\ pos \in 1..8 /\ bits[k] = BitAt(data[i], pos)
    BY <1>3
  <2> HIDE DEF i, pos
  <2> QED BY <1>1, <2>1, ByteOfBits
<1>5. DOMAIN bits = 1..(8 * n) /\ bits = [k \in 1..(8 * n) |-> bits[k]] /\ 8 * n \in Nat
  BY <1>1, <1>2
<1>6. bits \in Seq(Bit) /\ Len(bits) = 8 * n
  BY <1>4, <1>5
<1>7. ASSUME NEW i \in 1..n, NEW pos \in 1..8
      PROVE  bits[8 * (i - 1) + pos] = BitAt(data[i], pos)
  <2> DEFINE k == 8 * (i - 1) + pos
  <2>1. k \in 1..(8 * n) /\ (k - 1) \div 8 + 1 = i /\ ((k - 1) % 8) + 1 = pos
    BY <1>1
  <2> HIDE DEF k
  <2>2. bits[k] = BitAt(data[i], pos)
    BY <1>3, <2>1
  <2> QED BY <2>2 DEF k
<1> QED BY <1>6, <1>7 DEF bits, n

\* The sum of eight numbers.
LEMMA TotalOfEight ==
  ASSUME NEW s \in Seq(Int), Len(s) = 8
  PROVE  Total(s) = s[1] + s[2] + s[3] + s[4] + s[5] + s[6] + s[7] + s[8]
<1>1. PICK acc : Sums(acc, s) /\ Total(s) = acc[8]
  BY TotalIsSum
<1>2. \A k \in 1..8 : s[k] \in Int
  BY ElementOfSeq
<1>3. /\ acc[0] = 0 /\ acc[1] = acc[0] + s[1] /\ acc[2] = acc[1] + s[2]
      /\ acc[3] = acc[2] + s[3] /\ acc[4] = acc[3] + s[4] /\ acc[5] = acc[4] + s[5]
      /\ acc[6] = acc[5] + s[6] /\ acc[7] = acc[6] + s[7] /\ acc[8] = acc[7] + s[8]
  BY <1>1 DEF Sums
<1>4. s[1] \in Int /\ s[2] \in Int /\ s[3] \in Int /\ s[4] \in Int
      /\ s[5] \in Int /\ s[6] \in Int /\ s[7] \in Int /\ s[8] \in Int
  BY <1>2
<1> QED BY <1>1, <1>3, <1>4

\* The bytes of the first i whose bit at pos is set.
Set(data, pos, i) == {j \in 1..i : BitAt(data[j], pos) = 1}

\* The bytes that have the bit set are counted byte by byte.
LEMMA SetGrows ==
  ASSUME NEW data \in Seq(Byte), NEW pos \in 1..8
  PROVE  /\ Cardinality(Set(data, pos, 0)) = 0
         /\ \A i \in 0..Len(data) : Cardinality(Set(data, pos, i)) \in Nat
         /\ \A i \in 1..Len(data) :
              Cardinality(Set(data, pos, i)) =
                Cardinality(Set(data, pos, i - 1)) + BitAt(data[i], pos)
<1> DEFINE n == Len(data)
<1>1. n \in Nat /\ \A i \in 1..n : data[i] \in Byte
  OBVIOUS
<1>2. \A i \in 0..n : IsFiniteSet(Set(data, pos, i)) /\ Cardinality(Set(data, pos, i)) \in Nat
  <2> TAKE i \in 0..n
  <2>1. Set(data, pos, i) \in SUBSET (1..i) /\ IsFiniteSet(1..i)
    BY <1>1, FS_Interval DEF Set
  <2> QED BY <2>1, FS_Subset, FS_CardinalityType
<1>3. Cardinality(Set(data, pos, 0)) = 0
  <2>1. Set(data, pos, 0) = {}
    BY DEF Set
  <2> QED BY <2>1, FS_EmptySet
<1>4. ASSUME NEW i \in 1..n
      PROVE  Cardinality(Set(data, pos, i)) =
               Cardinality(Set(data, pos, i - 1)) + BitAt(data[i], pos)
  <2>1. i - 1 \in 0..n /\ i \notin 1..(i - 1) /\ 1..i = (1..(i - 1)) \cup {i}
    BY <1>1
  <2>2. IsFiniteSet(Set(data, pos, i - 1)) /\ Cardinality(Set(data, pos, i - 1)) \in Nat
    BY <1>2, <2>1
  <2>3. CASE BitAt(data[i], pos) = 1
    <3>1. Set(data, pos, i) = Set(data, pos, i - 1) \cup {i} /\ i \notin Set(data, pos, i - 1)
      BY <2>1, <2>3 DEF Set
    <3>2. Cardinality(Set(data, pos, i - 1) \cup {i}) = Cardinality(Set(data, pos, i - 1)) + 1
      BY <2>2, <3>1, FS_AddElement
    <3> QED BY <2>3, <3>1, <3>2
  <2>4. CASE BitAt(data[i], pos) # 1
    <3>1. BitAt(data[i], pos) = 0
      BY <1>1, <2>4, ByteOfBits DEF Bit
    <3>2. Set(data, pos, i) = Set(data, pos, i - 1)
      BY <2>1, <2>4 DEF Set
    <3> QED BY <2>2, <3>1, <3>2
  <2> QED BY <2>3, <2>4
<1> QED BY <1>2, <1>3, <1>4

\* BitBiasCounts counts them all.
LEMMA BiasIsSet ==
  ASSUME NEW data \in Seq(Byte), NEW pos \in 1..8
  PROVE  BitBiasCounts(data)[pos] = Cardinality(Set(data, pos, Len(data)))
<1> DEFINE n == Len(data)
           bits == ToBits(data)
           Ones == {k \in DOMAIN bits : ((k - 1) % 8) + 1 = pos /\ bits[k] = 1}
           There == Set(data, pos, n)
           f == [j \in There |-> 8 * (j - 1) + pos]
<1>1. n \in Nat /\ DOMAIN bits = 1..(8 * n)
      /\ \A i \in 1..n : bits[8 * (i - 1) + pos] = BitAt(data[i], pos)
  <2>1. bits \in Seq(Bit) /\ Len(bits) = 8 * n
    BY BitsOfBytes
  <2>2. \A i \in 1..n : bits[8 * (i - 1) + pos] = BitAt(data[i], pos)
    BY BitsOfBytes
  <2> HIDE DEF bits
  <2> QED BY <2>1, <2>2
<1>2. BitBiasCounts(data)[pos] = Cardinality(Ones)
  BY DEF BitBiasCounts
<1> HIDE DEF bits, n
<1>3. f \in [There -> Ones]
  <2> SUFFICES ASSUME NEW j \in There PROVE 8 * (j - 1) + pos \in Ones
    OBVIOUS
  <2>1. j \in 1..n /\ BitAt(data[j], pos) = 1
    BY DEF Set
  <2>2. 8 * (j - 1) + pos \in 1..(8 * n) /\ ((8 * (j - 1) + pos - 1) % 8) + 1 = pos
    BY <1>1, <2>1
  <2> QED BY <1>1, <2>1, <2>2
<1>4. \A i, j \in There : f[i] = f[j] => i = j
  <2> SUFFICES ASSUME NEW i \in There, NEW j \in There, 8 * (i - 1) + pos = 8 * (j - 1) + pos
               PROVE  i = j
    OBVIOUS
  <2>1. i \in Int /\ j \in Int
    BY DEF Set
  <2> QED BY <2>1
<1>5. ASSUME NEW k \in Ones PROVE \E j \in There : f[j] = k
  <2> DEFINE j == (k - 1) \div 8 + 1
  <2>1. k \in 1..(8 * n) /\ ((k - 1) % 8) + 1 = pos /\ bits[k] = 1
    BY <1>1
  <2>2. j \in 1..n /\ 8 * (j - 1) + pos = k
    <3>1. k \in Int /\ n \in Nat /\ k >= 1 /\ k <= 8 * n
      BY <1>1, <2>1
    <3>2. 8 * ((k - 1) \div 8) + ((k - 1) % 8) = k - 1
      BY <3>1
    <3> QED BY <2>1, <3>1, <3>2
  <2> HIDE DEF j
  <2>3. BitAt(data[j], pos) = 1
    BY <1>1, <2>1, <2>2
  <2>4. j \in There
    BY <2>2, <2>3 DEF Set
  <2> QED BY <2>2, <2>4
<1>6. IsFiniteSet(There)
  <2>1. There \in SUBSET (1..n) /\ IsFiniteSet(1..n)
    BY <1>1, FS_Interval DEF Set
  <2> QED BY <2>1, FS_Subset
<1> HIDE DEF f, Ones, There
<1>7. f \in Bijection(There, Ones)
  BY <1>3, <1>4, <1>5 DEF Bijection, Injection, Surjection, IsInjective
<1>8. ExistsBijection(There, Ones)
  BY <1>7 DEF ExistsBijection
<1>9. Cardinality(There) = Cardinality(Ones)
  BY <1>6, <1>8, FS_Bijection
<1> QED BY <1>2, <1>9 DEF There, n

\* The ones at each position among the first i bytes.
SetCount(data, pos, i) == Cardinality(Set(data, pos, i))

\* The counts of the eight positions grow by the bits of each byte.
LEMMA CountsGrow ==
  ASSUME NEW data \in Seq(Byte)
  PROVE  /\ \A pos \in 1..8 : SetCount(data, pos, 0) = 0
         /\ \A pos \in 1..8, i \in 0..Len(data) : SetCount(data, pos, i) \in Nat
         /\ \A pos \in 1..8, i \in 1..Len(data) :
              SetCount(data, pos, i) = SetCount(data, pos, i - 1) + BitAt(data[i], pos)
BY SetGrows DEF SetCount

\* The sum over the eight positions of what f has there.
Eight(f) == f[1] + f[2] + f[3] + f[4] + f[5] + f[6] + f[7] + f[8]

\* Sums of eight terms: of sums, step by step, of equal terms.
LEMMA EightAdd ==
  ASSUME NEW p, NEW q, NEW t,
         \A pos \in 1..8 : p[pos] \in Int /\ q[pos] \in Int /\ t[pos] = p[pos] + q[pos]
  PROVE  Eight(t) = Eight(p) + Eight(q) /\ Eight(p) \in Int /\ Eight(q) \in Int
<1>1. /\ p[1] \in Int /\ p[2] \in Int /\ p[3] \in Int /\ p[4] \in Int
      /\ p[5] \in Int /\ p[6] \in Int /\ p[7] \in Int /\ p[8] \in Int
  OBVIOUS
<1>2. /\ q[1] \in Int /\ q[2] \in Int /\ q[3] \in Int /\ q[4] \in Int
      /\ q[5] \in Int /\ q[6] \in Int /\ q[7] \in Int /\ q[8] \in Int
  OBVIOUS
<1>3. /\ t[1] = p[1] + q[1] /\ t[2] = p[2] + q[2] /\ t[3] = p[3] + q[3] /\ t[4] = p[4] + q[4]
      /\ t[5] = p[5] + q[5] /\ t[6] = p[6] + q[6] /\ t[7] = p[7] + q[7] /\ t[8] = p[8] + q[8]
  OBVIOUS
<1> QED BY <1>1, <1>2, <1>3 DEF Eight

LEMMA EightSteps ==
  ASSUME NEW sum, NEW q, sum[0] \in Int,
         \A pos \in 1..8 : q[pos] \in Int /\ sum[pos] = sum[pos - 1] + q[pos]
  PROVE  sum[8] = sum[0] + Eight(q)
<1>1. /\ q[1] \in Int /\ q[2] \in Int /\ q[3] \in Int /\ q[4] \in Int
      /\ q[5] \in Int /\ q[6] \in Int /\ q[7] \in Int /\ q[8] \in Int
  OBVIOUS
<1>2. /\ sum[1] = sum[0] + q[1] /\ sum[2] = sum[1] + q[2] /\ sum[3] = sum[2] + q[3]
      /\ sum[4] = sum[3] + q[4] /\ sum[5] = sum[4] + q[5] /\ sum[6] = sum[5] + q[6]
      /\ sum[7] = sum[6] + q[7] /\ sum[8] = sum[7] + q[8]
  OBVIOUS
<1> QED BY <1>1, <1>2 DEF Eight

LEMMA EightSame ==
  ASSUME NEW p, NEW q, \A pos \in 1..8 : p[pos] = q[pos]
  PROVE  Eight(p) = Eight(q)
BY DEF Eight

\* A sum over the bytes that each byte adds its bits to, each with the weight of its
\* position.
AddsBits(acc, data, w) ==
  /\ acc[0] = 0
  /\ \A i \in 0..Len(data) : acc[i] \in Int
  /\ \A i \in 1..Len(data) :
       acc[i] = acc[i - 1] + Eight([pos \in 1..8 |-> w[pos] * BitAt(data[i], pos)])

\* A sum over the bytes of their bits, each position with its weight, is the sum of the
\* weighted counts of the positions.
LEMMA WeightedBits ==
  ASSUME NEW data \in Seq(Byte), NEW acc, NEW w \in [1..8 -> Int], AddsBits(acc, data, w)
  PROVE  acc[Len(data)] = Eight([pos \in 1..8 |-> w[pos] * SetCount(data, pos, Len(data))])
<1> DEFINE n == Len(data)
           Weighs(i) == Eight([pos \in 1..8 |-> w[pos] * SetCount(data, pos, i)])
           T == [i \in 0..n |-> {Weighs(i)}]
<1>1. n \in Nat /\ n \in Int /\ 0 \in Int /\ \A i \in 1..n : data[i] \in Byte
  BY ElementOfSeq, SMTT(30)
<1>2. /\ \A pos \in 1..8, i \in 0..n : SetCount(data, pos, i) \in Nat
      /\ \A pos \in 1..8, i \in 1..n :
           SetCount(data, pos, i) = SetCount(data, pos, i - 1) + BitAt(data[i], pos)
  BY CountsGrow
<1>3. acc[0] = Weighs(0)
  <2> DEFINE t == [pos \in 1..8 |-> w[pos] * SetCount(data, pos, 0)]
  <2>1. \A pos \in 1..8 : t[pos] = 0
    <3> TAKE pos \in 1..8
    <3>1. SetCount(data, pos, 0) = 0 /\ w[pos] \in Int
      BY CountsGrow
    <3> QED BY <3>1
  <2> HIDE DEF t
  <2>2. Eight(t) = 0
    BY <2>1, SMTT(30) DEF Eight
  <2>3. acc[0] = 0
    BY DEF AddsBits
  <2> QED BY <2>2, <2>3 DEF t
<1>4. ASSUME NEW i \in 1..n, acc[i - 1] = Weighs(i - 1) PROVE acc[i] = Weighs(i)
  <2> DEFINE p == [pos \in 1..8 |-> w[pos] * SetCount(data, pos, i - 1)]
             q == [pos \in 1..8 |-> w[pos] * BitAt(data[i], pos)]
             t == [pos \in 1..8 |-> w[pos] * SetCount(data, pos, i)]
  <2>1. \A pos \in 1..8 : p[pos] \in Int /\ q[pos] \in Int /\ t[pos] = p[pos] + q[pos]
    <3> TAKE pos \in 1..8
    <3> DEFINE v == w[pos]
               a == SetCount(data, pos, i - 1)
               b == BitAt(data[i], pos)
    <3>1. v \in Int
      OBVIOUS
    <3>2. a \in Int /\ SetCount(data, pos, i) = a + b
      <4>1. i - 1 \in 0..n
        BY <1>1
      <4>2. SetCount(data, pos, i - 1) \in Nat
        BY <1>2, <4>1
      <4>3. SetCount(data, pos, i) = SetCount(data, pos, i - 1) + BitAt(data[i], pos)
        BY <1>2
      <4> QED BY <4>2, <4>3
    <3>3. b \in Int
      <4>1. b \in Bit
        BY <1>1, ByteOfBits
      <4> HIDE DEF b
      <4> QED BY <4>1 DEF Bit
    <3>4. p[pos] = v * a /\ q[pos] = v * b /\ t[pos] = v * (a + b)
      BY <3>2
    <3> HIDE DEF v, a, b, p, q, t
    <3>5. v * (a + b) = v * a + v * b /\ v * a \in Int /\ v * b \in Int
      BY <3>1, <3>2, <3>3
    <3> QED BY <3>4, <3>5
  <2>2. acc[i - 1] = Eight(p) /\ Weighs(i) = Eight(t)
    BY <1>4
  <2>3. acc[i] = acc[i - 1] + Eight(q)
    BY DEF AddsBits
  <2> HIDE DEF p, q, t, Weighs
  <2>4. Eight(t) = Eight(p) + Eight(q)
    BY <2>1, EightAdd
  <2> QED BY <2>2, <2>3, <2>4
<1>5. \A i \in 0..n : T[i] = {Weighs(i)}
  OBVIOUS
<1> HIDE DEF T, Weighs, n
<1>6. acc[0] \in T[0] /\ \A i \in 0..n : i > 0 => i \in 1..n /\ i - 1 \in 0..n
  <2>1. \A i \in 0..n : i > 0 => i \in 1..n /\ i - 1 \in 0..n
    BY <1>1
  <2>2. 0 \in 0..n
    BY <1>1
  <2> QED BY <1>3, <1>5, <2>1, <2>2, SMTT(30)
<1>7. \A i \in 0..n : i > 0 /\ acc[i - 1] \in T[i - 1] => acc[i] \in T[i]
  <2> SUFFICES ASSUME NEW i \in 0..n, i > 0, acc[i - 1] \in T[i - 1] PROVE acc[i] \in T[i]
    OBVIOUS
  <2>1. i \in 1..n /\ i - 1 \in 0..n
    BY <1>6
  <2> QED BY <1>4, <1>5, <2>1
<1>8. \A i \in 0..n : acc[i] \in T[i]
  BY <1>1, <1>6, <1>7, TypeInduction
<1>9. acc[n] = Weighs(n)
  <2>1. n \in 0..n
    BY <1>1
  <2>2. acc[n] \in {Weighs(n)}
    BY <1>5, <1>8, <2>1
  <2> QED BY <2>2
<1> QED BY <1>9 DEF Weighs, n

\* The ones per position, as BitBiasCounts has them.
LEMMA BiasType ==
  ASSUME NEW data \in Seq(Byte)
  PROVE  /\ BitBiasCounts(data) \in Seq(Int) /\ Len(BitBiasCounts(data)) = 8
         /\ \A pos \in 1..8 : /\ BitBiasCounts(data)[pos] = SetCount(data, pos, Len(data))
                              /\ BitBiasCounts(data)[pos] \in Nat
<1> DEFINE bias == BitBiasCounts(data)
<1>1. bias = [pos \in 1..8 |-> bias[pos]] /\ DOMAIN bias = 1..8
  BY DEF BitBiasCounts
<1>2. Len(data) \in 0..Len(data)
  OBVIOUS
<1>3. \A pos \in 1..8 : bias[pos] = SetCount(data, pos, Len(data)) /\ bias[pos] \in Nat
  BY <1>2, BiasIsSet, CountsGrow DEF SetCount
<1> HIDE DEF bias
<1> QED BY <1>1, <1>3 DEF bias

\* The ones at the positions of the bytes, weighted, give back the sum of the bytes.
LEMMA BiasGivesBytes ==
  ASSUME NEW data \in Seq(Byte)
  PROVE  Total([pos \in 1..8 |-> 2 ^ (8 - pos) * BitBiasCounts(data)[pos]]) = Total(data)
<1> DEFINE n == Len(data)
           w == [pos \in 1..8 |-> 2 ^ (8 - pos)]
           s == [pos \in 1..8 |-> 2 ^ (8 - pos) * BitBiasCounts(data)[pos]]
<1>1. \A i \in 1..n : data[i] \in Byte
  BY ElementOfSeq
<1>2. data \in Seq(Int)
  <2>1. \A b \in Byte : b \in Int
    BY DEF Byte
  <2>2. data = [i \in 1..n |-> data[i]] /\ n \in Nat
    OBVIOUS
  <2> HIDE DEF n
  <2> QED BY <1>1, <2>1, <2>2
<1>3. PICK acc : Sums(acc, data) /\ Total(data) = acc[n]
  BY <1>2, TotalIsSum
<1>4. /\ w[1] = 128 /\ w[2] = 64 /\ w[3] = 32 /\ w[4] = 16
      /\ w[5] = 8 /\ w[6] = 4 /\ w[7] = 2 /\ w[8] = 1
  OBVIOUS
<1>5. w \in [1..8 -> Int]
  <2>1. w = [pos \in 1..8 |-> w[pos]]
    OBVIOUS
  <2> HIDE DEF w
  <2>2. \A pos \in 1..8 : w[pos] \in Int
    BY <1>4, EightPositions
  <2> QED BY <2>1, <2>2
<1>6. \A pos \in 1..8 : s[pos] = w[pos] * SetCount(data, pos, n)
  BY BiasType
<1>7. s = [pos \in 1..8 |-> s[pos]] /\ DOMAIN s = 1..8
  OBVIOUS
<1> HIDE DEF w, s
<1>8. \A i \in 1..n : data[i] = Eight([pos \in 1..8 |-> w[pos] * BitAt(data[i], pos)])
  <2> TAKE i \in 1..n
  <2> DEFINE b == data[i]
             q == [pos \in 1..8 |-> w[pos] * BitAt(data[i], pos)]
  <2>1. b \in Byte
    BY <1>1
  <2>2. \A pos \in 1..8 : q[pos] = w[pos] * BitAt(b, pos)
    OBVIOUS
  <2> HIDE DEF b, q
  <2>3. BitAt(b, 8) \in Int
    BY <2>1, ByteOfBits DEF Bit
  <2>4. /\ q[1] = 128 * BitAt(b, 1) /\ q[2] = 64 * BitAt(b, 2) /\ q[3] = 32 * BitAt(b, 3)
        /\ q[4] = 16 * BitAt(b, 4) /\ q[5] = 8 * BitAt(b, 5) /\ q[6] = 4 * BitAt(b, 6)
        /\ q[7] = 2 * BitAt(b, 7) /\ q[8] = BitAt(b, 8)
    BY <1>4, <2>2, <2>3
  <2>5. b = 128 * BitAt(b, 1) + 64 * BitAt(b, 2) + 32 * BitAt(b, 3) + 16 * BitAt(b, 4)
            + 8 * BitAt(b, 5) + 4 * BitAt(b, 6) + 2 * BitAt(b, 7) + BitAt(b, 8)
    BY <2>1, ByteOfBits
  <2>6. b = Eight(q)
    BY <2>4, <2>5 DEF Eight
  <2> QED BY <2>6 DEF b, q
<1>9. AddsBits(acc, data, w)
  BY <1>3, <1>8 DEF AddsBits, Sums
<1>10. acc[n] = Eight([pos \in 1..8 |-> w[pos] * SetCount(data, pos, n)])
  BY <1>5, <1>9, WeightedBits
<1>11. Eight([pos \in 1..8 |-> w[pos] * SetCount(data, pos, n)]) = Eight(s)
  <2> DEFINE t == [pos \in 1..8 |-> w[pos] * SetCount(data, pos, n)]
  <2>1. \A pos \in 1..8 : t[pos] = s[pos]
    BY <1>6
  <2> HIDE DEF t
  <2>2. Eight(t) = Eight(s)
    BY <2>1, EightSame
  <2> QED BY <2>2 DEF t
<1>12. \A pos \in 1..8 : s[pos] \in Int
  <2> TAKE pos \in 1..8
  <2> DEFINE v == w[pos]
             c == SetCount(data, pos, n)
  <2>1. v \in Int
    BY <1>5
  <2>2. c \in Int
    <3>1. n \in 0..n
      OBVIOUS
    <3>2. c \in Nat
      BY <3>1, CountsGrow
    <3> QED BY <3>2
  <2>3. s[pos] = v * c
    BY <1>6
  <2> HIDE DEF v, c
  <2> QED BY <2>1, <2>2, <2>3
<1>13. s \in Seq(Int) /\ Len(s) = 8
  BY <1>7, <1>12
<1>14. Total(s) = Eight(s)
  BY <1>13, TotalOfEight DEF Eight
<1>15. Total(s) = Total(data)
  BY <1>3, <1>10, <1>11, <1>14
<1> QED BY <1>15 DEF s

\* They are all the ones of the bits.
LEMMA BiasGivesOnes ==
  ASSUME NEW data \in Seq(Byte)
  PROVE  Total(BitBiasCounts(data)) = countOnes(ToBits(data))
<1> DEFINE n == Len(data)
           bits == ToBits(data)
           s == BitBiasCounts(data)
           w == [pos \in 1..8 |-> 1]
<1>1. n \in Nat /\ \A i \in 1..n : data[i] \in Byte
  OBVIOUS
<1>2. /\ bits \in Seq(Bit) /\ Len(bits) = 8 * n
      /\ \A i \in 1..n, pos \in 1..8 : bits[8 * (i - 1) + pos] = BitAt(data[i], pos)
  BY BitsOfBytes
<1>3. bits \in Seq(Int)
  BY <1>2 DEF Bit
<1> HIDE DEF bits
<1>4. PICK all : Sums(all, bits) /\ Total(bits) = all[Len(bits)]
  BY <1>3, TotalIsSum
<1>5. countOnes(bits) = all[8 * n]
  BY <1>2, <1>4 DEF countOnes, Total
<1> DEFINE acc == [i \in 0..n |-> all[8 * i]]
<1>6. acc[0] = 0 /\ acc[n] = all[8 * n]
  BY <1>1, <1>4 DEF Sums
<1>7. \A k \in 1..(8 * n) : all[k] = all[k - 1] + bits[k]
  BY <1>2, <1>4 DEF Sums
<1>8. \A k \in 0..(8 * n) : all[k] \in Int
  BY <1>2, <1>4 DEF Sums
<1>9. \A i \in 0..n : acc[i] \in Int
  BY <1>1, <1>8
<1>10. \A pos \in 1..8 : w[pos] = 1
  OBVIOUS
<1>11. w \in [1..8 -> Int]
  OBVIOUS
<1> HIDE DEF w
<1>12. ASSUME NEW i \in 1..n
       PROVE  acc[i] = acc[i - 1] + Eight([pos \in 1..8 |-> w[pos] * BitAt(data[i], pos)])
  <2> DEFINE from == 8 * (i - 1)
             q == [pos \in 1..8 |-> w[pos] * BitAt(data[i], pos)]
             sum == [k \in 0..8 |-> all[from + k]]
  <2>1. from \in Nat /\ from + 8 <= 8 * n /\ from + 8 = 8 * i
        /\ acc[i - 1] = all[from] /\ acc[i] = all[8 * i]
    BY <1>1
  <2>2. \A pos \in 1..8 : bits[from + pos] = q[pos] /\ q[pos] \in Int
    <3> TAKE pos \in 1..8
    <3> DEFINE b == BitAt(data[i], pos)
    <3>1. b \in Bit
      BY <1>1, ByteOfBits
    <3>2. bits[from + pos] = b
      BY <1>2
    <3>3. q[pos] = w[pos] * b /\ w[pos] = 1
      BY <1>10
    <3> HIDE DEF b, q, from
    <3> QED BY <3>1, <3>2, <3>3 DEF Bit
  <2> HIDE DEF from, q, acc
  <2>3. \A pos \in 1..8 : from + pos \in 1..(8 * n) /\ (from + pos) - 1 = from + (pos - 1)
    BY <1>1, <2>1
  <2>4. \A pos \in 1..8 : sum[pos] = sum[pos - 1] + q[pos]
    <3> TAKE pos \in 1..8
    <3>1. pos \in 0..8 /\ pos - 1 \in 0..8
      OBVIOUS
    <3>2. sum[pos] = all[from + pos] /\ sum[pos - 1] = all[from + (pos - 1)]
      BY <3>1
    <3>3. all[from + pos] = all[(from + pos) - 1] + bits[from + pos]
      BY <1>7, <2>3
    <3> QED BY <2>2, <2>3, <3>2, <3>3
  <2>5. sum[0] = acc[i - 1] /\ sum[8] = acc[i] /\ sum[0] \in Int
    <3>1. from + 0 = from /\ from \in 0..(8 * n) /\ 0 \in 0..8 /\ 8 \in 0..8
      BY <1>1, <2>1
    <3>2. sum[0] = all[from] /\ sum[8] = all[from + 8]
      BY <3>1
    <3>3. all[from] \in Int
      BY <1>8, <3>1
    <3> HIDE DEF sum
    <3>4. from + 8 = 8 * i
      BY <2>1
    <3> QED BY <2>1, <3>2, <3>3, <3>4
  <2> HIDE DEF sum
  <2>6. sum[8] = sum[0] + Eight(q)
    BY <2>2, <2>4, <2>5, EightSteps
  <2> QED BY <2>5, <2>6 DEF q
<1>13. AddsBits(acc, data, w)
  BY <1>6, <1>9, <1>12 DEF AddsBits
<1> HIDE DEF acc
<1>14. acc[n] = Eight([pos \in 1..8 |-> w[pos] * SetCount(data, pos, n)])
  BY <1>11, <1>13, WeightedBits
<1>15. \A pos \in 1..8 : s[pos] = SetCount(data, pos, n) /\ SetCount(data, pos, n) \in Nat
  BY BiasType
<1>16. s \in Seq(Int) /\ Len(s) = 8
  BY BiasType
<1> HIDE DEF s
<1>17. Eight([pos \in 1..8 |-> w[pos] * SetCount(data, pos, n)]) = Eight(s)
  <2> DEFINE t == [pos \in 1..8 |-> w[pos] * SetCount(data, pos, n)]
  <2>1. \A pos \in 1..8 : t[pos] = s[pos]
    BY <1>10, <1>15, SMTT(30)
  <2> HIDE DEF t
  <2>2. Eight(t) = Eight(s)
    BY <2>1, EightSame
  <2> QED BY <2>2 DEF t
<1>18. Total(s) = Eight(s)
  BY <1>16, TotalOfEight DEF Eight
<1>19. Total(s) = countOnes(bits)
  BY <1>5, <1>6, <1>14, <1>17, <1>18
<1> QED BY <1>19 DEF s, bits

\* The total of a part of s is a difference of two partial sums.
LEMMA SliceTotal ==
  ASSUME NEW s \in Seq(Int), NEW S, Sums(S, s),
         NEW hi \in 0..Len(s), NEW lo \in 0..hi
  PROVE  Total(SubSeq(s, lo + 1, hi)) = S[hi] - S[lo]
<1> DEFINE n == Len(s)
           slice == SubSeq(s, lo + 1, hi)
           m == hi - lo
           T == [k \in 0..m |-> {S[lo + k] - S[lo]}]
<1>1. n \in Nat /\ \A k \in 1..n : s[k] \in Int
  BY ElementOfSeq
<1>2. hi \in Int /\ lo \in Int /\ 0 <= lo /\ lo <= hi /\ hi <= n /\ m \in Nat
  BY <1>1
<1>3. slice = [k \in 1..m |-> s[lo + k]]
  <2>1. slice = [k \in 1..(hi - (lo + 1) + 1) |-> s[(lo + 1) + k - 1]]
    BY <1>1, <1>2
  <2>2. hi - (lo + 1) + 1 = m /\ \A k \in 1..m : (lo + 1) + k - 1 = lo + k
    BY <1>2
  <2> QED BY <2>1, <2>2
<1>4. \A k \in 1..m : lo + k \in 1..n /\ lo + k - 1 = lo + (k - 1)
  BY <1>1, <1>2
<1>5. \A k \in 1..m : slice[k] = s[lo + k] /\ slice[k] \in Int
  BY <1>1, <1>3, <1>4
<1>6. DOMAIN slice = 1..m
  BY <1>3
<1> HIDE DEF slice, n
<1>7. slice \in Seq(Int) /\ Len(slice) = m
  BY <1>2, <1>3, <1>5
<1>8. PICK acc : Sums(acc, slice) /\ Total(slice) = acc[m]
  BY <1>7, TotalIsSum
<1>9. \A k \in 0..n : S[k] \in Int
  BY DEF Sums, n
<1>10. \A k \in 1..n : S[k] = S[k - 1] + s[k]
  BY DEF Sums, n
<1>11. \A k \in 0..m : T[k] = {S[lo + k] - S[lo]}
  OBVIOUS
<1> HIDE DEF T, m
<1>12. acc[0] \in T[0]
  <2>1. 0 \in 0..m /\ lo + 0 = lo /\ S[lo] \in Int
    <3>1. lo \in 0..n
      BY <1>1, <1>2
    <3> QED BY <1>2, <1>9, <3>1
  <2>2. acc[0] = 0 /\ S[lo] - S[lo] = 0
    BY <1>8, <2>1 DEF Sums
  <2> QED BY <1>11, <2>1, <2>2
<1>13. ASSUME NEW k \in 0..m, k > 0, acc[k - 1] \in T[k - 1] PROVE acc[k] \in T[k]
  <2>1. k \in 1..m /\ k - 1 \in 0..m
    BY <1>2, <1>13
  <2>2. acc[k - 1] = S[lo + (k - 1)] - S[lo]
    BY <1>11, <1>13, <2>1
  <2>3. acc[k] = acc[k - 1] + s[lo + k]
    <3>1. acc[k] = acc[k - 1] + slice[k]
      BY <1>7, <1>8, <2>1 DEF Sums
    <3> QED BY <1>5, <2>1, <3>1
  <2>4. S[lo + k] = S[lo + (k - 1)] + s[lo + k]
    BY <1>4, <1>10, <2>1
  <2>5. S[lo + (k - 1)] \in Int /\ S[lo] \in Int /\ s[lo + k] \in Int
    <3>1. lo + (k - 1) \in 0..n /\ lo \in 0..n
      BY <1>1, <1>2, <2>1 DEF m
    <3>2. s[lo + k] \in Int
      BY <1>1, <1>4, <2>1
    <3> QED BY <1>9, <3>1, <3>2
  <2>6. acc[k] = S[lo + k] - S[lo]
    BY <2>2, <2>3, <2>4, <2>5
  <2> QED BY <1>11, <2>6
<1>14. \A k \in 0..m : acc[k] \in T[k]
  <2>1. m \in Int /\ 0 \in Int
    BY <1>2
  <2> QED BY <1>12, <1>13, <2>1, TypeInduction
<1>15. acc[m] = S[hi] - S[lo]
  <2>1. m \in 0..m /\ lo + m = hi
    BY <1>2 DEF m
  <2>2. acc[m] \in {S[lo + m] - S[lo]}
    BY <1>11, <1>14, <2>1
  <2> QED BY <2>1, <2>2
<1> QED BY <1>8, <1>15 DEF slice

\* Blocks of whatever length hold all the ones of the bits that they cover exactly.
LEMMA BlocksGiveOnes ==
  ASSUME NEW bits \in Seq(Bit), NEW L \in Nat \ {0}, Len(bits) % L = 0
  PROVE  Total(BlockOnes(bits, L)) = countOnes(bits)
<1> DEFINE n == Len(bits)
           q == Blocks(n, L)
           ones == BlockOnes(bits, L)
<1>1. n \in Nat /\ q \in Nat /\ q * L = n
  <2>1. n \in Nat /\ L \in Nat /\ L >= 1 /\ n % L = 0
    OBVIOUS
  <2> HIDE DEF n
  <2>2. n = L * (n \div L) + (n % L) /\ n \div L \in Nat
    BY <2>1
  <2>3. CASE n < L
    <3>1. n = 0
      BY <2>1, <2>3
    <3> QED BY <2>1, <3>1 DEF Blocks
  <2>4. CASE ~ (n < L)
    <3>1. q = n \div L
      BY <2>4 DEF Blocks
    <3> HIDE DEF q
    <3>2. L * q = q * L /\ L * q \in Int
      BY <2>1, <2>2, <3>1
    <3> QED BY <2>1, <2>2, <3>1, <3>2
  <2> QED BY <2>3, <2>4
<1>2. bits \in Seq(Int)
  BY DEF Bit
<1>3. PICK S : Sums(S, bits) /\ Total(bits) = S[n]
  BY <1>2, TotalIsSum
<1>4. \A k \in 0..n : S[k] \in Int
  BY <1>3 DEF Sums
<1>5. ones = [b \in 1..q |-> countOnes(SubSeq(bits, (b - 1) * L + 1, b * L))]
  BY DEF BlockOnes
<1> HIDE DEF n, q, ones
<1> DEFINE at == [b \in 0..q |-> b * L]
<1>6. \A b \in 0..q : at[b] \in 0..n
  <2> TAKE b \in 0..q
  <2>1. b \in Nat /\ q - b \in Nat /\ L \in Nat
    BY <1>1
  <2>2. b * L \in Nat /\ (q - b) * L \in Nat
    BY <2>1
  <2>3. q * L = b * L + (q - b) * L
    BY <1>1, <2>1
  <2>4. at[b] = b * L
    OBVIOUS
  <2> HIDE DEF at
  <2> QED BY <1>1, <2>2, <2>3, <2>4
<1>7. \A b \in 1..q : /\ at[b - 1] = (b - 1) * L /\ at[b] = b * L
                      /\ b - 1 \in 0..q /\ b \in 0..q /\ at[b - 1] <= at[b]
  <2> TAKE b \in 1..q
  <2>1. b - 1 \in 0..q /\ b \in 0..q
    BY <1>1
  <2>2. at[b - 1] = (b - 1) * L /\ at[b] = b * L
    BY <2>1
  <2>3. at[b - 1] \in Int /\ at[b] \in Int
    BY <1>6, <2>1
  <2>4. b * L = (b - 1) * L + L
    BY <2>1
  <2> HIDE DEF at
  <2> QED BY <2>1, <2>2, <2>3, <2>4
<1>8. at[0] = 0 /\ at[q] = n
  BY <1>1
<1> HIDE DEF at
<1>9. ASSUME NEW b \in 1..q PROVE ones[b] = S[at[b]] - S[at[b - 1]]
  <2> DEFINE lo == at[b - 1]
             hi == at[b]
  <2>1. hi \in 0..Len(bits) /\ lo \in 0..hi
    BY <1>6, <1>7 DEF n
  <2>2. ones[b] = countOnes(SubSeq(bits, lo + 1, hi))
    BY <1>5, <1>7
  <2> HIDE DEF lo, hi
  <2>3. Total(SubSeq(bits, lo + 1, hi)) = S[hi] - S[lo]
    BY <1>2, <1>3, <2>1, SliceTotal
  <2> QED BY <2>2, <2>3 DEF countOnes, Total, lo, hi
<1>10. \A b \in 0..q : S[at[b]] \in Int
  BY <1>4, <1>6
<1>11. ones \in Seq(Int) /\ Len(ones) = q
  <2>1. \A b \in 1..q : ones[b] \in Int
    BY <1>7, <1>9, <1>10, SMTT(30)
  <2>2. ones = [b \in 1..q |-> ones[b]]
    BY <1>5
  <2> QED BY <1>1, <2>1, <2>2
<1>12. PICK acc : Sums(acc, ones) /\ Total(ones) = acc[q]
  BY <1>11, TotalIsSum
<1> DEFINE T == [b \in 0..q |-> {S[at[b]]}]
<1>13. \A b \in 0..q : T[b] = {S[at[b]]}
  OBVIOUS
<1> HIDE DEF T
<1>14. acc[0] \in T[0]
  <2>1. 0 \in 0..q /\ acc[0] = 0 /\ S[0] = 0
    BY <1>1, <1>3, <1>12 DEF Sums
  <2> QED BY <1>8, <1>13, <2>1
<1>15. ASSUME NEW b \in 0..q, b > 0, acc[b - 1] \in T[b - 1] PROVE acc[b] \in T[b]
  <2>1. b \in 1..q /\ b - 1 \in 0..q
    BY <1>1, <1>15
  <2>2. acc[b - 1] = S[at[b - 1]]
    BY <1>13, <1>15, <2>1
  <2>3. acc[b] = acc[b - 1] + ones[b]
    BY <1>11, <1>12, <2>1 DEF Sums
  <2>4. acc[b] = S[at[b]]
    BY <1>9, <1>10, <2>1, <2>2, <2>3
  <2> QED BY <1>13, <2>4
<1>16. \A b \in 0..q : acc[b] \in T[b]
  <2>1. q \in Int /\ 0 \in Int
    BY <1>1
  <2> QED BY <1>14, <1>15, <2>1, TypeInduction
<1>17. acc[q] = S[n]
  <2>1. q \in 0..q
    BY <1>1
  <2>2. acc[q] \in {S[at[q]]}
    BY <1>13, <1>16, <2>1
  <2> QED BY <1>8, <2>2
<1> QED BY <1>3, <1>12, <1>17 DEF countOnes, Total, ones

\* Three countings of the ones of a sample, in loops of their own, agree: the ones at
\* the positions of the bytes (bias) weigh as much as the bytes, they are as many as the
\* bits that are set, and so are those of the blocks of the block frequency test.
THEOREM OnesAgree ==
  ASSUME NEW data \in Seq(Byte)
  PROVE  LET bits == ToBits(data)
             n == Len(bits)
             bias == BitBiasCounts(data)
         IN  /\ Total([pos \in 1..8 |-> 2 ^ (8 - pos) * bias[pos]]) = Total(data)
             /\ Total(bias) = countOnes(bits)
             /\ n % BlockLength(n) = 0 => Total(BlockOnes(bits, BlockLength(n))) = countOnes(bits)
<1> DEFINE bits == ToBits(data)
<1>1. bits \in Seq(Bit) /\ Len(bits) \in Nat
  BY BitsOfBytes
<1> HIDE DEF bits
<1>2. BlockLength(Len(bits)) \in Nat \ {0}
  BY <1>1 DEF BlockLength
<1>3. Len(bits) % BlockLength(Len(bits)) = 0 =>
        Total(BlockOnes(bits, BlockLength(Len(bits)))) = countOnes(bits)
  BY <1>1, <1>2, BlocksGiveOnes
<1> QED BY <1>3, BiasGivesBytes, BiasGivesOnes DEF bits

-----------------------------------------------------------------------------
(* The serial test: pattern counts as pairs of places that show the same.  *)

\* The pairs of D that f maps to the same value.
PairsOf(f, D) == {p \in D \X D : f[p[1]] = f[p[2]]}

\* Those that z tells apart, and those that it does not.
Agreeing(f, z, D) == {p \in D \X D : f[p[1]] = f[p[2]] /\ z[p[1]] = z[p[2]]}

Differing(f, z, D) == {p \in D \X D : f[p[1]] = f[p[2]] /\ z[p[1]] # z[p[2]]}

\* Sets of pairs from a finite set are finite.
LEMMA PairsFinite ==
  ASSUME NEW D, IsFiniteSet(D)
  PROVE  \A P \in SUBSET (D \X D) : IsFiniteSet(P) /\ Cardinality(P) \in Nat
<1>1. IsFiniteSet(D \X D)
  BY FS_Product
<1> QED BY <1>1, FS_Subset, FS_CardinalityType

\* (u - v)^2 >= 0.
LEMMA TwoSquares ==
  ASSUME NEW u \in Int, NEW v \in Int
  PROVE  u * v + v * u <= u * u + v * v /\ u * u + v * v \in Int /\ u * v + v * u \in Int
<1>1. (u - v) * (u - v) >= 0
  <2> DEFINE d == u - v
  <2>1. d \in Int
    OBVIOUS
  <2> HIDE DEF d
  <2>2. d * d >= 0
    BY <2>1
  <2> QED BY <2>2 DEF d
<1>2. (u - v) * (u - v) = u * u - u * v - v * u + v * v
  OBVIOUS
<1>3. u * u \in Int /\ u * v \in Int /\ v * u \in Int /\ v * v \in Int
  OBVIOUS
<1> QED BY <1>1, <1>2, <1>3

\* Of the elements that f maps to one value, no more pairs can be told apart by a bit
\* than cannot: with u and v of the two kinds these are 2uv and u^2 + v^2.
LEMMA AgreeingPairs ==
  ASSUME NEW D, IsFiniteSet(D), NEW Q, IsFiniteSet(Q), NEW f \in [D -> Q], NEW z \in [D -> Bit]
  PROVE  Cardinality(Differing(f, z, D)) <= Cardinality(Agreeing(f, z, D))
<1> DEFINE Agree(s) == {p \in D \X D : f[p[1]] = f[p[2]] /\ z[p[1]] = z[p[2]] /\ f[p[1]] \in s}
           Differ(s) == {p \in D \X D : f[p[1]] = f[p[2]] /\ z[p[1]] # z[p[2]] /\ f[p[1]] \in s}
           pick == [s \in SUBSET Q |-> CHOOSE x \in s : TRUE]
           S == {s \in SUBSET Q : Cardinality(Differ(s)) <= Cardinality(Agree(s))}
<1>1. Picks(pick, Q)
  BY DEF Picks
<1>2. \A s : /\ IsFiniteSet(Agree(s)) /\ Cardinality(Agree(s)) \in Nat
             /\ IsFiniteSet(Differ(s)) /\ Cardinality(Differ(s)) \in Nat
  <2> TAKE s
  <2>1. Agree(s) \in SUBSET (D \X D) /\ Differ(s) \in SUBSET (D \X D)
    OBVIOUS
  <2> HIDE DEF Agree, Differ
  <2> QED BY <2>1, PairsFinite
<1>3. {} \in S
  <2>1. Agree({}) = {} /\ Differ({}) = {}
    OBVIOUS
  <2>2. Cardinality(Differ({})) <= Cardinality(Agree({}))
    <3> HIDE DEF Agree, Differ
    <3>1. Cardinality({}) = 0
      BY FS_EmptySet
    <3> QED BY <2>1, <3>1
  <2> QED BY <2>2
<1>4. ASSUME NEW s \in SUBSET Q, s # {}, s \ {pick[s]} \in S PROVE s \in S
  <2> DEFINE x == pick[s]
             rest == s \ {x}
             U == {i \in D : f[i] = x /\ z[i] = 0}
             V == {i \in D : f[i] = x /\ z[i] = 1}
  <2>1. x \in s
    BY <1>1, <1>4 DEF Picks
  <2>2. Cardinality(Differ(rest)) <= Cardinality(Agree(rest))
    BY <1>4
  <2> HIDE DEF x
  <2>3. IsFiniteSet(U) /\ IsFiniteSet(V) /\ Cardinality(U) \in Nat /\ Cardinality(V) \in Nat
    <3>1. U \in SUBSET D /\ V \in SUBSET D
      OBVIOUS
    <3> HIDE DEF U, V
    <3> QED BY <3>1, FS_Subset, FS_CardinalityType
  <2>4. U \cap V = {} /\ \A i \in D : f[i] = x => i \in U \/ i \in V
    BY DEF Bit
  <2>5. Agree(s) = Agree(rest) \cup ((U \X U) \cup (V \X V))
        /\ Agree(rest) \cap ((U \X U) \cup (V \X V)) = {}
    <3>1. ASSUME NEW p \in Agree(s) PROVE p \in Agree(rest) \cup ((U \X U) \cup (V \X V))
      <4>1. p \in D \X D /\ p = <<p[1], p[2]>> /\ p[1] \in D /\ p[2] \in D
        OBVIOUS
      <4> QED BY <4>1 DEF Bit
    <3>2. ASSUME NEW p \in (U \X U) \cup (V \X V) PROVE p \in Agree(s) /\ p \notin Agree(rest)
      <4>1. p \in D \X D
        OBVIOUS
      <4>2. f[p[1]] = x /\ f[p[2]] = x /\ z[p[1]] = z[p[2]]
        OBVIOUS
      <4> QED BY <2>1, <4>1, <4>2
    <3>3. Agree(rest) \subseteq Agree(s)
      OBVIOUS
    <3> HIDE DEF Agree, U, V
    <3> QED BY <3>1, <3>2, <3>3
  <2>6. Differ(s) = Differ(rest) \cup ((U \X V) \cup (V \X U))
        /\ Differ(rest) \cap ((U \X V) \cup (V \X U)) = {}
    <3>1. ASSUME NEW p \in Differ(s) PROVE p \in Differ(rest) \cup ((U \X V) \cup (V \X U))
      <4>1. p \in D \X D /\ p = <<p[1], p[2]>> /\ p[1] \in D /\ p[2] \in D
        OBVIOUS
      <4> QED BY <4>1 DEF Bit
    <3>2. ASSUME NEW p \in (U \X V) \cup (V \X U) PROVE p \in Differ(s) /\ p \notin Differ(rest)
      <4>1. p \in D \X D
        OBVIOUS
      <4>2. f[p[1]] = x /\ f[p[2]] = x /\ z[p[1]] # z[p[2]]
        OBVIOUS
      <4> QED BY <2>1, <4>1, <4>2
    <3>3. Differ(rest) \subseteq Differ(s)
      OBVIOUS
    <3> HIDE DEF Differ, U, V
    <3> QED BY <3>1, <3>2, <3>3
  <2>7. (U \X U) \cap (V \X V) = {} /\ (U \X V) \cap (V \X U) = {}
    <3> HIDE DEF U, V
    <3> QED BY <2>4
  <2> DEFINE u == Cardinality(U)
             v == Cardinality(V)
  <2> HIDE DEF U, V
  <2>8. /\ IsFiniteSet(U \X U) /\ Cardinality(U \X U) = u * u
        /\ IsFiniteSet(V \X V) /\ Cardinality(V \X V) = v * v
        /\ IsFiniteSet(U \X V) /\ Cardinality(U \X V) = u * v
        /\ IsFiniteSet(V \X U) /\ Cardinality(V \X U) = v * u
    BY <2>3, FS_Product
  <2> DEFINE same == (U \X U) \cup (V \X V)
             other == (U \X V) \cup (V \X U)
  <2>9. IsFiniteSet(same) /\ IsFiniteSet(other)
    BY <2>8, FS_Union
  <2>10. Cardinality(same) = u * u + v * v /\ Cardinality(other) = u * v + v * u
    <3>1. Cardinality(U \X U) + Cardinality(V \X V) = Cardinality(same)
      BY <2>7, <2>9, PartsCount
    <3>2. Cardinality(U \X V) + Cardinality(V \X U) = Cardinality(other)
      BY <2>7, <2>9, PartsCount
    <3> QED BY <2>8, <3>1, <3>2
  <2>11. Agree(s) = Agree(rest) \cup same /\ Agree(rest) \cap same = {}
         /\ Differ(s) = Differ(rest) \cup other /\ Differ(rest) \cap other = {}
    BY <2>5, <2>6
  <2> HIDE DEF same, other, rest, Agree, Differ
  <2>12. Cardinality(Agree(rest)) + Cardinality(same) = Cardinality(Agree(s))
         /\ Cardinality(Differ(rest)) + Cardinality(other) = Cardinality(Differ(s))
    BY <1>2, <2>11, PartsCount
  <2>13. /\ Cardinality(Agree(rest)) \in Nat /\ Cardinality(Differ(rest)) \in Nat
         /\ Cardinality(Agree(s)) \in Nat /\ Cardinality(Differ(s)) \in Nat
    BY <1>2
  <2>14. Cardinality(other) <= Cardinality(same)
         /\ Cardinality(other) \in Int /\ Cardinality(same) \in Int
    <3>1. u \in Int /\ v \in Int
      BY <2>3
    <3> HIDE DEF u, v
    <3> QED BY <2>10, <3>1, TwoSquares
  <2>15. Cardinality(Differ(s)) <= Cardinality(Agree(s))
    BY <2>2, <2>12, <2>13, <2>14
  <2> QED BY <2>15
<1>5. \A s \in SUBSET Q : s # {} /\ s \ {pick[s]} \in S => s \in S
  BY <1>4
<1> HIDE DEF S, pick
<1>6. Q \in S
  BY <1>1, <1>3, <1>5, SubsetInduction
<1>7. Agree(Q) = Agreeing(f, z, D) /\ Differ(Q) = Differing(f, z, D)
  BY DEF Agreeing, Differing
<1> QED BY <1>6, <1>7 DEF S

\* The squares of how often f has each of its values sum up to the pairs that it maps
\* to the same one.
LEMMA SquaresArePairs ==
  ASSUME NEW I, IsFiniteSet(I), NEW D, IsFiniteSet(D), NEW f \in [I -> D], NEW c,
         c = [x \in D |-> Cardinality({i \in I : f[i] = x})]
  PROVE  SquareSum(c) = Cardinality(PairsOf(f, I))
<1> DEFINE pick == [s \in SUBSET D |-> CHOOSE x \in s : TRUE]
           step == [x \in D |-> [a \in Nat |-> c[x] * c[x] + a]]
           Loop(g) == [s \in SUBSET D |->
                         IF s = {} THEN 0
                         ELSE c[CHOOSE x \in s : TRUE] * c[CHOOSE x \in s : TRUE]
                                + g[s \ {CHOOSE x \in s : TRUE}]]
           iter == CHOOSE g : g = Loop(g)
           At(x) == {i \in I : f[i] = x}
           Within(s) == {p \in I \X I : f[p[1]] = f[p[2]] /\ f[p[1]] \in s}
<1>1. SquareSum(c) = iter[D]
  <2>1. DOMAIN c = D
    OBVIOUS
  <2> HIDE DEF At, Within, pick, step
  <2> QED BY <2>1 DEF SquareSum, FoldFunction, FoldFunctionOnSet, MapThenFoldSet
<1>2. Picks(pick, D)
  BY DEF Picks
<1>3. \A s \in SUBSET D : pick[s] = CHOOSE x \in s : TRUE
  OBVIOUS
<1>4. \A x \in D : IsFiniteSet(At(x)) /\ Cardinality(At(x)) \in Nat /\ c[x] = Cardinality(At(x))
  <2> TAKE x \in D
  <2>1. At(x) \in SUBSET I /\ c[x] = Cardinality(At(x))
    OBVIOUS
  <2> HIDE DEF At
  <2> QED BY <2>1, FS_Subset, FS_CardinalityType
<1>5. \A x \in D : c[x] * c[x] \in Nat
  <2> TAKE x \in D
  <2> DEFINE k == c[x]
  <2>1. k \in Nat
    BY <1>4
  <2> HIDE DEF k
  <2>2. k * k \in Nat
    BY <2>1
  <2> QED BY <2>2 DEF k
<1> DEFINE sq == [x \in D |-> c[x] * c[x]]
<1>6. \A x \in D : sq[x] = c[x] * c[x] /\ sq[x] \in Nat
  BY <1>5
<1> HIDE DEF sq
<1>7. \A x \in D, a \in Nat : step[x][a] = sq[x] + a
  BY <1>6
<1>8. Turns(step, D, Nat) /\ 0 \in Nat
  <2> SUFFICES ASSUME NEW x \in D PROVE step[x] \in [Nat -> Nat]
    BY DEF Turns
  <2>1. step[x] = [a \in Nat |-> sq[x] + a]
    BY <1>6
  <2> QED BY <1>6, <2>1
<1> HIDE DEF pick, step
<1>9. \E g : g = Loop(g)
  <2>1. PICK h : Folds(h, D, pick, 0, step) /\ \A s \in SUBSET D : h[s] \in Nat
    <3> DEFINE N == Nat
    <3>1. Turns(step, D, N) /\ 0 \in N
      BY <1>8
    <3> HIDE DEF N
    <3>2. \E h : Folds(h, D, pick, 0, step) /\ \A s \in SUBSET D : h[s] \in N
      BY <1>2, <3>1, SetRecursion
    <3> QED BY <3>2 DEF N
  <2> DEFINE g == [s \in SUBSET D |-> h[s]]
  <2>2. ASSUME NEW s \in SUBSET D
        PROVE  g[s] = IF s = {} THEN 0 ELSE sq[pick[s]] + g[s \ {pick[s]}]
    BY <1>2, <1>7, <2>1 DEF Folds, Picks
  <2>3. ASSUME NEW s \in SUBSET D
        PROVE  g[s] = IF s = {} THEN 0 ELSE c[pick[s]] * c[pick[s]] + g[s \ {pick[s]}]
    <3>1. s # {} => pick[s] \in D
      BY <1>2 DEF Picks
    <3> HIDE DEF g
    <3> QED BY <1>6, <2>2, <3>1
  <2>4. g = Loop(g)
    BY <1>3, <2>3, ZenonT(40)
  <2> HIDE DEF Loop
  <2> QED BY <2>4
<1>10. iter = Loop(iter)
  <2> HIDE DEF Loop
  <2> QED BY <1>9
<1> HIDE DEF iter
<1>11. \A s \in SUBSET D :
         iter[s] = IF s = {} THEN 0 ELSE c[pick[s]] * c[pick[s]] + iter[s \ {pick[s]}]
  BY <1>3, <1>10
<1> DEFINE S == {s \in SUBSET D : iter[s] = Cardinality(Within(s))}
<1>12. \A s : IsFiniteSet(Within(s)) /\ Cardinality(Within(s)) \in Nat
  <2> TAKE s
  <2>1. Within(s) \in SUBSET (I \X I)
    OBVIOUS
  <2> HIDE DEF Within
  <2> QED BY <2>1, PairsFinite
<1>13. {} \in S
  <2>1. Within({}) = {} /\ Cardinality({}) = 0
    BY FS_EmptySet
  <2>2. iter[{}] = 0
    BY <1>11
  <2> HIDE DEF Within
  <2> QED BY <2>1, <2>2
<1>14. ASSUME NEW s \in SUBSET D, s # {}, s \ {pick[s]} \in S PROVE s \in S
  <2> DEFINE x == pick[s]
             rest == s \ {x}
             new == At(x) \X At(x)
  <2>1. x \in s /\ x \in D
    BY <1>2, <1>14 DEF Picks
  <2>2. iter[rest] = Cardinality(Within(rest))
    BY <1>14
  <2>3. iter[s] = c[x] * c[x] + iter[rest]
    BY <1>11, <1>14
  <2> HIDE DEF x
  <2>4. Within(s) = Within(rest) \cup new /\ Within(rest) \cap new = {}
    <3>1. ASSUME NEW p \in Within(s) PROVE p \in Within(rest) \cup new
      <4>1. p \in I \X I /\ p = <<p[1], p[2]>> /\ p[1] \in I /\ p[2] \in I
        OBVIOUS
      <4> QED BY <4>1
    <3>2. ASSUME NEW p \in new PROVE p \in Within(s) /\ p \notin Within(rest)
      <4>1. p \in I \X I /\ f[p[1]] = x /\ f[p[2]] = x
        OBVIOUS
      <4> QED BY <2>1, <4>1
    <3>3. Within(rest) \subseteq Within(s)
      OBVIOUS
    <3> HIDE DEF Within, new
    <3> QED BY <3>1, <3>2, <3>3
  <2>5. Cardinality(new) = c[x] * c[x]
    <3>1. IsFiniteSet(At(x)) /\ c[x] = Cardinality(At(x))
      BY <1>4, <2>1
    <3> HIDE DEF At
    <3> QED BY <3>1, FS_Product
  <2> HIDE DEF Within, new, rest
  <2>6. Cardinality(Within(rest)) + Cardinality(new) = Cardinality(Within(s))
    BY <1>12, <2>4, PartsCount
  <2>7. c[x] * c[x] \in Nat /\ Cardinality(Within(rest)) \in Nat
    BY <1>5, <1>12, <2>1
  <2>8. iter[s] = Cardinality(Within(s))
    BY <2>2, <2>3, <2>5, <2>6, <2>7
  <2> QED BY <2>8
<1>15. \A s \in SUBSET D : s # {} /\ s \ {pick[s]} \in S => s \in S
  BY <1>14
<1> HIDE DEF S
<1>16. D \in S
  BY <1>2, <1>13, <1>15, SubsetInduction
<1>17. Within(D) = PairsOf(f, I)
  BY DEF PairsOf
<1> QED BY <1>1, <1>16, <1>17 DEF S

\* The bits in a circle, twice round.
Ring(bits) == [k \in 1..(2 * Len(bits)) |->
                 IF k <= Len(bits) THEN bits[k] ELSE bits[k - Len(bits)]]

\* The place that follows i on the circle.
After(n, i) == IF i = n THEN 1 ELSE i + 1

\* The pattern of l bits that starts at i, as PatternCounts takes it.
PatternAt(bits, l) == [i \in DOMAIN bits |-> SubSeq(Extended(bits, l), i, i + l - 1)]

\* The patterns of l bits.
Patterns(l) == [1..l -> Bit]

\* The ring read from the next place is the ring read one bit later.
LEMMA RingFacts ==
  ASSUME NEW bits \in Seq(Bit)
  PROVE  /\ \A k \in 1..(2 * Len(bits)) : Ring(bits)[k] \in Bit
         /\ \A i \in 1..Len(bits), k \in 0..(Len(bits) - 1) :
              /\ After(Len(bits), i) \in 1..Len(bits)
              /\ Ring(bits)[After(Len(bits), i) + k] = Ring(bits)[i + (k + 1)]
<1> DEFINE n == Len(bits)
           ring == Ring(bits)
<1>1. n \in Nat /\ \A k \in 1..n : bits[k] \in Bit
  BY ElementOfSeq
<1>2. \A k \in 1..(2 * n) : ring[k] = IF k <= n THEN bits[k] ELSE bits[k - n]
  BY DEF Ring
<1> HIDE DEF n, ring
<1>3. ASSUME NEW k \in 1..(2 * n) PROVE ring[k] \in Bit
  <2>1. CASE k <= n
    <3>1. k \in 1..n
      BY <1>1, <2>1
    <3> QED BY <1>1, <1>2, <2>1, <3>1
  <2>2. CASE ~ (k <= n)
    <3>1. k - n \in 1..n
      BY <1>1, <2>2
    <3> QED BY <1>1, <1>2, <2>2, <3>1
  <2> QED BY <2>1, <2>2
<1>4. ASSUME NEW i \in 1..n, NEW k \in 0..(n - 1)
      PROVE  After(n, i) \in 1..n /\ ring[After(n, i) + k] = ring[i + (k + 1)]
  <2>1. CASE i = n
    <3>1. After(n, i) = 1 /\ 1 \in 1..n
      BY <1>1, <2>1 DEF After
    <3>2. 1 + k \in 1..(2 * n) /\ 1 + k <= n
      BY <1>1
    <3>3. i + (k + 1) \in 1..(2 * n) /\ ~ (i + (k + 1) <= n) /\ i + (k + 1) - n = 1 + k
      BY <1>1, <2>1
    <3>4. ring[1 + k] = bits[1 + k] /\ ring[i + (k + 1)] = bits[1 + k]
      <4> DEFINE a == 1 + k
                 b == i + (k + 1)
      <4>1. a \in 1..(2 * n) /\ a <= n /\ b \in 1..(2 * n) /\ ~ (b <= n) /\ b - n = a
        BY <1>1, <2>1
      <4> HIDE DEF a, b
      <4>2. ring[a] = bits[a] /\ ring[b] = bits[b - n]
        BY <1>2, <4>1
      <4>3. ring[a] = bits[a] /\ ring[b] = bits[a]
        BY <4>1, <4>2
      <4> QED BY <4>3 DEF a, b
    <3> QED BY <3>1, <3>4
  <2>2. CASE i # n
    <3>1. After(n, i) = i + 1 /\ i + 1 \in 1..n /\ (i + 1) + k = i + (k + 1)
      BY <1>1, <2>2 DEF After
    <3> QED BY <3>1
  <2> QED BY <2>1, <2>2
<1> QED BY <1>3, <1>4 DEF n, ring

\* The continued stream is the ring, as far as it goes.
LEMMA ExtendedIsRing ==
  ASSUME NEW bits \in Seq(Bit), NEW l \in Nat, 1 <= l, l <= Len(bits)
  PROVE  /\ PatternAt(bits, l) \in [1..Len(bits) -> Patterns(l)]
         /\ \A i \in 1..Len(bits), j \in 1..l :
              PatternAt(bits, l)[i][j] = Ring(bits)[i + (j - 1)]
<1> DEFINE n == Len(bits)
           tail == SubSeq(bits, 1, l - 1)
           ext == bits \o tail
<1>1. n \in Nat /\ DOMAIN bits = 1..n /\ \A k \in 1..n : bits[k] \in Bit
  BY ElementOfSeq
<1>2. /\ tail \in Seq(Bit) /\ Len(tail) = l - 1
      /\ \A k \in 1..(l - 1) : tail[k] = bits[k]
  <2>1. 1 \in Int /\ l - 1 \in Int /\ \A i \in 1..(l - 1) : bits[i] \in Bit
    BY <1>1
  <2>2. /\ tail \in Seq(Bit) /\ Len(tail) = IF 1 <= l - 1 THEN l - 1 - 1 + 1 ELSE 0
        /\ \A i \in 1..(l - 1 - 1 + 1) : tail[i] = bits[1 + i - 1]
    BY <2>1, SubSeqProperties
  <2>3. \A i \in 1..(l - 1) : 1 + i - 1 = i
    OBVIOUS
  <2>4. l - 1 - 1 + 1 = l - 1
    OBVIOUS
  <2> HIDE DEF tail
  <2> QED BY <2>2, <2>3, <2>4
<1> HIDE DEF tail
<1>3. /\ Len(ext) = n + (l - 1)
      /\ \A k \in 1..(n + (l - 1)) : ext[k] = IF k <= n THEN bits[k] ELSE tail[k - n]
  BY <1>1, <1>2
<1>4. Extended(bits, l) = ext
  BY DEF Extended, tail
<1>5. \A k \in 1..(2 * n) : Ring(bits)[k] = IF k <= n THEN bits[k] ELSE bits[k - n]
  BY DEF Ring
<1> HIDE DEF ext, n
<1>6. ASSUME NEW k \in 1..(n + (l - 1)) PROVE ext[k] = Ring(bits)[k]
  <2>1. k \in 1..(2 * n)
    BY <1>1 DEF n
  <2>2. CASE k <= n
    BY <1>3, <1>5, <2>1, <2>2
  <2>3. CASE ~ (k <= n)
    <3>1. k - n \in 1..(l - 1)
      BY <1>1, <2>3
    <3>2. tail[k - n] = bits[k - n]
      BY <1>2, <3>1
    <3> QED BY <1>3, <1>5, <2>1, <2>3, <3>2
  <2> QED BY <2>2, <2>3
<1>7. ASSUME NEW i \in 1..n
      PROVE  /\ PatternAt(bits, l)[i] \in Patterns(l)
             /\ \A j \in 1..l : PatternAt(bits, l)[i][j] = Ring(bits)[i + (j - 1)]
  <2> DEFINE p == SubSeq(ext, i, i + l - 1)
  <2>1. PatternAt(bits, l)[i] = p
    BY <1>1, <1>4 DEF PatternAt
  <2>2. \A k \in i..(i + l - 1) : k \in 1..(n + (l - 1)) /\ k \in 1..(2 * n)
    BY <1>1 DEF n
  <2>3. \A k \in i..(i + l - 1) : ext[k] \in Bit
    BY <1>6, <2>2, RingFacts DEF n
  <2>4. i \in Int /\ i + l - 1 \in Int /\ i <= i + l - 1 /\ (i + l - 1) - i + 1 = l
    OBVIOUS
  <2>5. p \in Seq(Bit) /\ Len(p) = l /\ \A j \in 1..l : p[j] = ext[i + j - 1]
    BY <2>3, <2>4, SubSeqProperties
  <2>6. \A j \in 1..l : i + j - 1 = i + (j - 1) /\ i + (j - 1) \in i..(i + l - 1)
    OBVIOUS
  <2> HIDE DEF p
  <2>7. \A j \in 1..l : p[j] = Ring(bits)[i + (j - 1)]
    BY <1>6, <2>2, <2>5, <2>6
  <2>8. p \in [1..l -> Bit]
    BY <2>5
  <2> QED BY <2>1, <2>7, <2>8 DEF Patterns
<1>8. PatternAt(bits, l) = [i \in 1..n |-> PatternAt(bits, l)[i]]
  BY <1>1 DEF PatternAt
<1> QED BY <1>7, <1>8 DEF n

\* From i and from j the next l bits are the same.
Same(ring, i, j, l) == \A k \in 0..(l - 1) : ring[i + k] = ring[j + k]

\* Two places show the same pattern if the ring continues alike from both.
LEMMA SamePattern ==
  ASSUME NEW bits \in Seq(Bit), NEW l \in Nat, 1 <= l, l <= Len(bits),
         NEW i \in 1..Len(bits), NEW j \in 1..Len(bits)
  PROVE  PatternAt(bits, l)[i] = PatternAt(bits, l)[j] <=> Same(Ring(bits), i, j, l)
<1> DEFINE at == PatternAt(bits, l)
           ring == Ring(bits)
<1>1. /\ at[i] \in [1..l -> Bit] /\ at[j] \in [1..l -> Bit]
      /\ \A k \in 1..l : at[i][k] = ring[i + (k - 1)] /\ at[j][k] = ring[j + (k - 1)]
  BY ExtendedIsRing DEF Patterns
<1> HIDE DEF at, ring
<1>2. ASSUME at[i] = at[j], NEW k \in 0..(l - 1) PROVE ring[i + k] = ring[j + k]
  <2>1. k + 1 \in 1..l /\ (k + 1) - 1 = k
    OBVIOUS
  <2>2. at[i][k + 1] = ring[i + ((k + 1) - 1)] /\ at[j][k + 1] = ring[j + ((k + 1) - 1)]
    BY <1>1, <2>1
  <2> QED BY <1>2, <2>1, <2>2
<1>3. ASSUME \A k \in 0..(l - 1) : ring[i + k] = ring[j + k] PROVE at[i] = at[j]
  <2>1. \A k \in 1..l : k - 1 \in 0..(l - 1)
    OBVIOUS
  <2>2. \A k \in 1..l : at[i][k] = at[j][k]
    BY <1>1, <1>3, <2>1
  <2> QED BY <1>1, <2>2
<1> QED BY <1>2, <1>3 DEF at, ring, Same

\* One bit more, behind.
LEMMA SameGrows ==
  ASSUME NEW ring, NEW i, NEW j, NEW l \in Nat
  PROVE  Same(ring, i, j, l + 1) <=> Same(ring, i, j, l) /\ ring[i + l] = ring[j + l]
<1>1. 0..((l + 1) - 1) = (0..(l - 1)) \cup {l}
  OBVIOUS
<1> QED BY <1>1 DEF Same

\* One bit more in front.
LEMMA SameAfter ==
  ASSUME NEW bits \in Seq(Bit), NEW l \in Nat, l <= Len(bits),
         NEW i \in 1..Len(bits), NEW j \in 1..Len(bits)
  PROVE  LET n == Len(bits)
             ring == Ring(bits)
         IN  Same(ring, i, j, l + 1) <=>
               ring[i] = ring[j] /\ Same(ring, After(n, i), After(n, j), l)
<1> DEFINE n == Len(bits)
           ring == Ring(bits)
<1>1. \A k \in 0..(n - 1) : /\ ring[After(n, i) + k] = ring[i + (k + 1)]
                            /\ ring[After(n, j) + k] = ring[j + (k + 1)]
  BY RingFacts
<1>2. n \in Nat /\ i + 0 = i /\ j + 0 = j
  OBVIOUS
<1>3. l <= n /\ i \in Int /\ j \in Int
  OBVIOUS
<1> HIDE DEF n, ring
<1>4. ASSUME Same(ring, i, j, l + 1)
      PROVE  ring[i] = ring[j] /\ Same(ring, After(n, i), After(n, j), l)
  <2>1. \A k \in 0..l : ring[i + k] = ring[j + k]
    <3>1. (l + 1) - 1 = l
      OBVIOUS
    <3> QED BY <1>4, <3>1 DEF Same
  <2>2. 0 \in 0..l /\ \A k \in 0..(l - 1) : k \in 0..(n - 1) /\ k + 1 \in 0..l
    BY <1>2, <1>3
  <2>3. \A k \in 0..(l - 1) : ring[After(n, i) + k] = ring[After(n, j) + k]
    BY <1>1, <2>1, <2>2
  <2> QED BY <1>2, <2>1, <2>2, <2>3 DEF Same
<1>5. ASSUME ring[i] = ring[j], Same(ring, After(n, i), After(n, j), l)
      PROVE  Same(ring, i, j, l + 1)
  <2> SUFFICES ASSUME NEW k \in 0..((l + 1) - 1) PROVE ring[i + k] = ring[j + k]
    BY DEF Same
  <2>1. CASE k = 0
    BY <1>2, <1>5, <2>1
  <2>2. CASE k # 0
    <3>1. k - 1 \in 0..(n - 1) /\ k - 1 \in 0..(l - 1) /\ (k - 1) + 1 = k
      BY <1>2, <1>3, <2>2
    <3>2. ring[After(n, i) + (k - 1)] = ring[After(n, j) + (k - 1)]
      BY <1>5, <3>1 DEF Same
    <3>3. ring[After(n, i) + (k - 1)] = ring[i + ((k - 1) + 1)]
          /\ ring[After(n, j) + (k - 1)] = ring[j + ((k - 1) + 1)]
      BY <1>1, <3>1
    <3> QED BY <3>1, <3>2, <3>3
  <2> QED BY <2>1, <2>2
<1> QED BY <1>4, <1>5 DEF n, ring

\* The pairs of places that show the same pattern of l bits.
SamePairs(bits, l) ==
  {p \in (1..Len(bits)) \X (1..Len(bits)) : Same(Ring(bits), p[1], p[2], l)}

\* How many pairs of places show the same pattern of l bits.
SameCount(bits, l) == Cardinality(SamePairs(bits, l))

\* They are finitely many.
LEMMA SamePairsFinite ==
  ASSUME NEW bits \in Seq(Bit)
  PROVE  /\ IsFiniteSet(1..Len(bits))
         /\ \A P \in SUBSET ((1..Len(bits)) \X (1..Len(bits))) :
              IsFiniteSet(P) /\ Cardinality(P) \in Nat
         /\ \A l : IsFiniteSet(SamePairs(bits, l)) /\ SameCount(bits, l) \in Nat
<1>1. IsFiniteSet(1..Len(bits))
  BY FS_Interval
<1>2. \A P \in SUBSET ((1..Len(bits)) \X (1..Len(bits))) : IsFiniteSet(P) /\ Cardinality(P) \in Nat
  BY <1>1, PairsFinite
<1>3. \A l : SamePairs(bits, l) \in SUBSET ((1..Len(bits)) \X (1..Len(bits)))
  BY DEF SamePairs
<1> QED BY <1>1, <1>2, <1>3 DEF SameCount

\* The sum of the squares of the pattern counts is the number of these pairs.
LEMMA PatternPairs ==
  ASSUME NEW bits \in Seq(Bit), NEW l \in Nat, 1 <= l, l <= Len(bits)
  PROVE  PairsOf(PatternAt(bits, l), 1..Len(bits)) = SamePairs(bits, l)
<1> DEFINE I == 1..Len(bits)
<1>1. ASSUME NEW p \in I \X I
      PROVE  PatternAt(bits, l)[p[1]] = PatternAt(bits, l)[p[2]]
               <=> Same(Ring(bits), p[1], p[2], l)
  <2>1. p[1] \in I /\ p[2] \in I
    OBVIOUS
  <2> QED BY <2>1, SamePattern
<1> QED BY <1>1 DEF PairsOf, SamePairs

LEMMA PatternSquares ==
  ASSUME NEW bits \in Seq(Bit), NEW l \in Nat, 1 <= l, l <= Len(bits)
  PROVE  SquareSum(PatternCounts(bits, l)) = SameCount(bits, l)
<1> DEFINE n == Len(bits)
           I == 1..n
           at == PatternAt(bits, l)
           D == ToSet(at)
           c == PatternCounts(bits, l)
<1>1. n \in Nat /\ IsFiniteSet(I)
  BY FS_Interval
<1>2. at \in [I -> Patterns(l)] /\ DOMAIN at = I
  BY ExtendedIsRing
<1>3. c = [x \in D |-> Cardinality({i \in I : at[i] = x})]
  <2>1. c = [x \in D |-> Cardinality({i \in DOMAIN at : at[i] = x})]
    BY DEF PatternCounts, PatternAt
  <2> HIDE DEF c, D, at
  <2> QED BY <1>2, <2>1
<1> HIDE DEF at, c
<1>4. at \in Seq(Patterns(l))
  BY <1>1, <1>2
<1>5. IsFiniteSet(D)
  BY <1>4, ValuesFinite
<1>6. at \in [I -> D]
  BY <1>2 DEF ToSet
<1> HIDE DEF D, I
<1>7. SquareSum(c) = Cardinality(PairsOf(at, I))
  BY <1>1, <1>3, <1>5, <1>6, SquaresArePairs
<1>8. PairsOf(at, I) = SamePairs(bits, l)
  BY PatternPairs DEF at, I
<1> QED BY <1>7, <1>8 DEF c, SameCount

\* A pattern goes on with a 0 or a 1.
LEMMA SamePairsHalve ==
  ASSUME NEW bits \in Seq(Bit), NEW l \in Nat, 1 <= l, l + 1 <= Len(bits)
  PROVE  SameCount(bits, l) <= 2 * SameCount(bits, l + 1)
<1> DEFINE n == Len(bits)
           I == 1..n
           f == PatternAt(bits, l)
           D == ToSet(f)
           z == [i \in I |-> Ring(bits)[i + l]]
<1>1. n \in Nat /\ IsFiniteSet(I) /\ l <= n
  BY FS_Interval
<1>2. f \in [I -> Patterns(l)] /\ DOMAIN f = I
  BY <1>1, ExtendedIsRing
<1>3. z \in [I -> Bit]
  <2>1. \A i \in I : i + l \in 1..(2 * n)
    BY <1>1
  <2> HIDE DEF I
  <2> QED BY <2>1, RingFacts
<1>4. \A i \in I : z[i] = Ring(bits)[i + l]
  OBVIOUS
<1> HIDE DEF f, z
<1>5. f \in Seq(Patterns(l))
  BY <1>1, <1>2
<1>6. IsFiniteSet(D) /\ f \in [I -> D]
  <2>1. IsFiniteSet(D)
    BY <1>5, ValuesFinite
  <2> QED BY <1>2, <2>1 DEF ToSet
<1> HIDE DEF D, I
<1>7. Cardinality(Differing(f, z, I)) <= Cardinality(Agreeing(f, z, I))
  BY <1>1, <1>3, <1>6, AgreeingPairs
<1>8. PairsOf(f, I) = SamePairs(bits, l)
  BY <1>1, PatternPairs DEF f, I
<1>9. Agreeing(f, z, I) = SamePairs(bits, l + 1)
  <2>1. ASSUME NEW p \in I \X I
        PROVE  f[p[1]] = f[p[2]] /\ z[p[1]] = z[p[2]] <=> Same(Ring(bits), p[1], p[2], l + 1)
    <3>1. p[1] \in I /\ p[2] \in I
      OBVIOUS
    <3>2. f[p[1]] = f[p[2]] <=> Same(Ring(bits), p[1], p[2], l)
      BY <1>1, <3>1, SamePattern DEF f, I
    <3> QED BY <1>4, <3>1, <3>2, SameGrows
  <2>2. Agreeing(f, z, I) = {p \in I \X I : Same(Ring(bits), p[1], p[2], l + 1)}
    BY <2>1 DEF Agreeing
  <2> QED BY <2>2 DEF SamePairs, I
<1>10. Agreeing(f, z, I) \cup Differing(f, z, I) = PairsOf(f, I)
       /\ Agreeing(f, z, I) \cap Differing(f, z, I) = {}
  BY DEF Agreeing, Differing, PairsOf
<1> DEFINE A == Agreeing(f, z, I)
           B == Differing(f, z, I)
<1>11. IsFiniteSet(PairsOf(f, I)) /\ Cardinality(A) \in Nat /\ Cardinality(B) \in Nat
  <2>1. A \in SUBSET (I \X I) /\ B \in SUBSET (I \X I) /\ PairsOf(f, I) \in SUBSET (I \X I)
    BY DEF Agreeing, Differing, PairsOf
  <2> HIDE DEF A, B
  <2> QED BY <1>1, <2>1, PairsFinite
<1> HIDE DEF A, B
<1>12. Cardinality(A) + Cardinality(B) = SameCount(bits, l)
       /\ Cardinality(A) = SameCount(bits, l + 1) /\ Cardinality(B) <= Cardinality(A)
  <2>1. Cardinality(A) + Cardinality(B) = Cardinality(PairsOf(f, I))
    BY <1>10, <1>11, PartsCount DEF A, B
  <2> QED BY <1>7, <1>8, <1>9, <2>1 DEF A, B, SameCount
<1> QED BY <1>11, <1>12

\* The pairs of I that After leads into T are as many as T.
LEMMA AfterCount ==
  ASSUME NEW n \in Nat, NEW T \in SUBSET ((1..n) \X (1..n))
  PROVE  Cardinality({p \in (1..n) \X (1..n) : <<After(n, p[1]), After(n, p[2])>> \in T})
           = Cardinality(T)
<1> DEFINE I == 1..n
           S == {p \in I \X I : <<After(n, p[1]), After(n, p[2])>> \in T}
           f == [p \in S |-> <<After(n, p[1]), After(n, p[2])>>]
<1>1. IsFiniteSet(S)
  <2>1. S \in SUBSET (I \X I) /\ IsFiniteSet(I)
    BY FS_Interval
  <2> HIDE DEF S, I
  <2> QED BY <2>1, PairsFinite
<1>2. \A i, j \in I : After(n, i) = After(n, j) => i = j
  BY DEF After
<1>3. \A j \in I : \E i \in I : After(n, i) = j
  <2> TAKE j \in I
  <2>1. CASE j = 1
    <3>1. n \in I /\ After(n, n) = j
      BY <2>1 DEF After
    <3> QED BY <3>1
  <2>2. CASE j # 1
    <3>1. j - 1 \in I /\ j - 1 # n /\ (j - 1) + 1 = j
      BY <2>2
    <3>2. After(n, j - 1) = j
      BY <3>1 DEF After
    <3> QED BY <3>1, <3>2
  <2> QED BY <2>1, <2>2
<1> HIDE DEF I
<1>4. f \in [S -> T]
  OBVIOUS
<1>5. ASSUME NEW p \in S, NEW q \in S, f[p] = f[q] PROVE p = q
  <2>1. p \in I \X I /\ q \in I \X I
    OBVIOUS
  <2>2. p = <<p[1], p[2]>> /\ q = <<q[1], q[2]>> /\ p[1] \in I /\ p[2] \in I /\ q[1] \in I /\ q[2] \in I
    BY <2>1
  <2>3. After(n, p[1]) = After(n, q[1]) /\ After(n, p[2]) = After(n, q[2])
    BY <1>5
  <2>4. p[1] = q[1] /\ p[2] = q[2]
    BY <1>2, <2>2, <2>3
  <2> QED BY <2>2, <2>4
<1>6. ASSUME NEW t \in T PROVE \E p \in S : f[p] = t
  <2>1. t = <<t[1], t[2]>> /\ t[1] \in I /\ t[2] \in I
    BY DEF I
  <2>2. PICK i \in I : After(n, i) = t[1]
    BY <1>3, <2>1
  <2>3. PICK j \in I : After(n, j) = t[2]
    BY <1>3, <2>1
  <2>4. <<After(n, i), After(n, j)>> = t
    BY <2>1, <2>2, <2>3
  <2>5. <<i, j>> \in S /\ f[<<i, j>>] = t
    BY <2>4
  <2> QED BY <2>5
<1> HIDE DEF f, S
<1>7. f \in Bijection(S, T)
  BY <1>4, <1>5, <1>6 DEF Bijection, Injection, Surjection, IsInjective
<1>8. ExistsBijection(S, T)
  BY <1>7 DEF ExistsBijection
<1>9. Cardinality(S) = Cardinality(T)
  BY <1>1, <1>8, FS_Bijection
<1> QED BY <1>9 DEF S, I

\* The four parts of the pairs that share their middle l bits, by whether they share
\* the bit before it and the bit after it.
LEMMA SamePairsBend ==
  ASSUME NEW bits \in Seq(Bit), NEW l \in Nat, 1 <= l, l + 2 <= Len(bits)
  PROVE  4 * SameCount(bits, l + 1) <= 4 * SameCount(bits, l + 2) + SameCount(bits, l)
<1> DEFINE n == Len(bits)
           I == 1..n
           ring == Ring(bits)
           A == [i \in I |-> After(n, i)]
           f == [i \in I |-> PatternAt(bits, l)[A[i]]]
           z == [i \in I |-> IF ring[i] = ring[A[i] + l] THEN 0 ELSE 1]
           Middle == {p \in I \X I : f[p[1]] = f[p[2]]}
           Opens(p) == ring[p[1]] = ring[p[2]]
           Closes(p) == ring[A[p[1]] + l] = ring[A[p[2]] + l]
           Both == {p \in Middle : Opens(p) /\ Closes(p)}
           Firsts == {p \in Middle : Opens(p) /\ ~Closes(p)}
           Lasts == {p \in Middle : ~Opens(p) /\ Closes(p)}
           None == {p \in Middle : ~Opens(p) /\ ~Closes(p)}
<1>1. n \in Nat /\ l <= n /\ l + 1 <= n /\ IsFiniteSet(I)
  <2>1. n \in Nat /\ l + 2 <= n
    OBVIOUS
  <2>2. IsFiniteSet(I)
    BY <2>1, FS_Interval
  <2> HIDE DEF n, I
  <2> QED BY <2>1, <2>2
<1>2. \A i \in I : /\ A[i] = After(n, i) /\ A[i] \in I
                   /\ ring[i] \in Bit /\ ring[A[i] + l] \in Bit
  <2> TAKE i \in I
  <2>1. 0 \in 0..(n - 1) /\ i \in 1..(2 * n)
    BY <1>1
  <2>2. A[i] = After(n, i) /\ A[i] \in I
    BY <2>1, RingFacts
  <2>3. A[i] + l \in 1..(2 * n)
    BY <1>1, <2>2
  <2> HIDE DEF A, I
  <2> QED BY <2>1, <2>2, <2>3, RingFacts
<1>3. \A i \in I : f[i] = PatternAt(bits, l)[A[i]]
  OBVIOUS
<1>4. \A i \in I : z[i] = IF ring[i] = ring[A[i] + l] THEN 0 ELSE 1
  OBVIOUS
<1>5. z \in [I -> Bit]
  <2>1. z = [i \in I |-> z[i]] /\ \A i \in I : z[i] = 0 \/ z[i] = 1
    OBVIOUS
  <2> HIDE DEF z, I
  <2> QED BY <2>1 DEF Bit
<1> DEFINE D == ToSet(PatternAt(bits, l))
<1>6. IsFiniteSet(D) /\ f \in [I -> D]
  <2> DEFINE at == PatternAt(bits, l)
  <2>1. at \in [I -> Patterns(l)] /\ DOMAIN at = I
    BY <1>1, ExtendedIsRing
  <2> HIDE DEF at
  <2>2. at \in Seq(Patterns(l))
    BY <1>1, <2>1
  <2>3. IsFiniteSet(ToSet(at))
    BY <2>2, ValuesFinite
  <2>4. \A i \in I : at[A[i]] \in ToSet(at)
    <3> HIDE DEF A, I
    <3> QED BY <1>2, <2>1 DEF ToSet
  <2>5. f = [i \in I |-> at[A[i]]]
    BY DEF at
  <2> QED BY <2>3, <2>4, <2>5 DEF at
<1> HIDE DEF A, f, z, D
<1>7. Cardinality(Differing(f, z, I)) <= Cardinality(Agreeing(f, z, I))
  <2> HIDE DEF I
  <2> QED BY <1>1, <1>5, <1>6, AgreeingPairs
<1> HIDE DEF I, ring
<1>8. \A p \in I \X I : f[p[1]] = f[p[2]] <=> Same(ring, A[p[1]], A[p[2]], l)
  <2> TAKE p \in I \X I
  <2>1. p[1] \in I /\ p[2] \in I
    OBVIOUS
  <2>2. A[p[1]] \in I /\ A[p[2]] \in I
    BY <1>2, <2>1
  <2> DEFINE i == A[p[1]]
             j == A[p[2]]
  <2>3. f[p[1]] = PatternAt(bits, l)[i] /\ f[p[2]] = PatternAt(bits, l)[j]
    BY <1>3, <2>1
  <2>4. i \in 1..Len(bits) /\ j \in 1..Len(bits) /\ l <= Len(bits)
    BY <1>1, <2>2 DEF I
  <2> HIDE DEF i, j
  <2>5. PatternAt(bits, l)[i] = PatternAt(bits, l)[j] <=> Same(Ring(bits), i, j, l)
    BY <2>4, SamePattern
  <2> QED BY <2>3, <2>5 DEF i, j, ring
<1>9. \A p \in I \X I : Same(ring, A[p[1]], A[p[2]], l + 1)
                          <=> f[p[1]] = f[p[2]] /\ Closes(p)
  BY <1>8, SameGrows
<1>10. \A p \in I \X I, k \in Nat : k <= n =>
         (Same(ring, p[1], p[2], k + 1) <=> Opens(p) /\ Same(ring, A[p[1]], A[p[2]], k))
  <2> TAKE p \in I \X I, k \in Nat
  <2>1. p[1] \in I /\ p[2] \in I
    OBVIOUS
  <2>2. A[p[1]] = After(n, p[1]) /\ A[p[2]] = After(n, p[2])
    BY <1>2, <2>1
  <2> QED BY <2>1, <2>2, SameAfter DEF I, ring
<1>11. \A p \in I \X I : Same(ring, p[1], p[2], l + 1) <=> f[p[1]] = f[p[2]] /\ Opens(p)
  BY <1>1, <1>8, <1>10
<1>12. \A p \in I \X I : Same(ring, p[1], p[2], l + 2)
                           <=> f[p[1]] = f[p[2]] /\ Opens(p) /\ Closes(p)
  <2>1. (l + 1) + 1 = l + 2 /\ l + 1 \in Nat
    OBVIOUS
  <2> QED BY <1>1, <1>9, <1>10, <2>1
\* The parts, as sets.
<1>13. \A P \in SUBSET (I \X I) : IsFiniteSet(P) /\ Cardinality(P) \in Nat
  BY <1>1, PairsFinite
<1>14. /\ Middle \in SUBSET (I \X I) /\ Both \in SUBSET (I \X I) /\ Firsts \in SUBSET (I \X I)
       /\ Lasts \in SUBSET (I \X I) /\ None \in SUBSET (I \X I)
  OBVIOUS
<1>15. SamePairs(bits, l + 2) = Both /\ SamePairs(bits, l + 1) = Both \cup Firsts
  <2>1. SamePairs(bits, l + 2) = {p \in I \X I : Same(ring, p[1], p[2], l + 2)}
    BY DEF SamePairs, I, ring
  <2>2. SamePairs(bits, l + 1) = {p \in I \X I : Same(ring, p[1], p[2], l + 1)}
    BY DEF SamePairs, I, ring
  <2> QED BY <1>11, <1>12, <2>1, <2>2
<1>16. Cardinality(Middle) = SameCount(bits, l)
       /\ Cardinality(Both \cup Lasts) = SameCount(bits, l + 1)
  <2>1. ASSUME NEW k \in Nat
        PROVE  Cardinality({p \in I \X I : Same(ring, A[p[1]], A[p[2]], k)}) = SameCount(bits, k)
    <3> DEFINE T == SamePairs(bits, k)
    <3>1. T \in SUBSET (I \X I) /\ n \in Nat
      BY <1>1 DEF SamePairs, I
    <3>2. \A p \in I \X I : Same(ring, A[p[1]], A[p[2]], k)
                              <=> <<After(n, p[1]), After(n, p[2])>> \in T
      <4> TAKE p \in I \X I
      <4>1. p[1] \in I /\ p[2] \in I
        OBVIOUS
      <4>2. /\ A[p[1]] = After(n, p[1]) /\ A[p[2]] = After(n, p[2])
            /\ A[p[1]] \in I /\ A[p[2]] \in I
        BY <1>2, <4>1
      <4> QED BY <4>2 DEF SamePairs, I, ring
    <3>3. Cardinality({p \in I \X I : <<After(n, p[1]), After(n, p[2])>> \in T}) = Cardinality(T)
      <4> HIDE DEF T, n
      <4> QED BY <3>1, AfterCount DEF I
    <3>4. {p \in I \X I : Same(ring, A[p[1]], A[p[2]], k)}
            = {p \in I \X I : <<After(n, p[1]), After(n, p[2])>> \in T}
      BY <3>2
    <3> QED BY <3>3, <3>4 DEF SameCount
  <2>2. Middle = {p \in I \X I : Same(ring, A[p[1]], A[p[2]], l)}
    BY <1>8
  <2>3. Both \cup Lasts = {p \in I \X I : Same(ring, A[p[1]], A[p[2]], l + 1)}
    BY <1>9
  <2>4. l + 1 \in Nat
    OBVIOUS
  <2> QED BY <2>1, <2>2, <2>3, <2>4
<1>17. Agreeing(f, z, I) = Both \cup None /\ Differing(f, z, I) = Firsts \cup Lasts
  <2>1. ASSUME NEW p \in I \X I PROVE z[p[1]] = z[p[2]] <=> (Opens(p) <=> Closes(p))
    <3> DEFINE a == ring[p[1]]
               b == ring[p[2]]
               c == ring[A[p[1]] + l]
               d == ring[A[p[2]] + l]
    <3>1. p[1] \in I /\ p[2] \in I
      OBVIOUS
    <3>2. a \in Bit /\ b \in Bit /\ c \in Bit /\ d \in Bit
      BY <1>2, <3>1
    <3>3. z[p[1]] = (IF a = c THEN 0 ELSE 1) /\ z[p[2]] = (IF b = d THEN 0 ELSE 1)
      BY <1>4, <3>1
    <3>4. (z[p[1]] = z[p[2]]) <=> ((a = b) <=> (c = d))
      <4> HIDE DEF a, b, c, d
      <4> QED BY <3>2, <3>3 DEF Bit
    <3> QED BY <3>4
  <2>2. Agreeing(f, z, I) = {p \in Middle : z[p[1]] = z[p[2]]}
        /\ Differing(f, z, I) = {p \in Middle : z[p[1]] # z[p[2]]}
    BY DEF Agreeing, Differing
  <2> QED BY <2>1, <2>2
<1> DEFINE Odd == Firsts \cup Lasts
           Even == Both \cup None
<1>18. /\ Both \cap Firsts = {} /\ Both \cap Lasts = {} /\ Both \cap None = {}
       /\ Firsts \cap Lasts = {} /\ Even \cup Odd = Middle /\ Even \cap Odd = {}
  OBVIOUS
<1>19. /\ Both \cup Firsts \in SUBSET (I \X I) /\ Both \cup Lasts \in SUBSET (I \X I)
       /\ Even \in SUBSET (I \X I) /\ Odd \in SUBSET (I \X I)
  OBVIOUS
<1> HIDE DEF Middle, Both, Firsts, Lasts, None
<1>20. /\ Cardinality(Both) + Cardinality(Firsts) = Cardinality(Both \cup Firsts)
       /\ Cardinality(Both) + Cardinality(Lasts) = Cardinality(Both \cup Lasts)
       /\ Cardinality(Both) + Cardinality(None) = Cardinality(Even)
       /\ Cardinality(Firsts) + Cardinality(Lasts) = Cardinality(Odd)
  BY <1>13, <1>18, <1>19, PartsCount
<1>21. Cardinality(Even) + Cardinality(Odd) = Cardinality(Middle)
  <2> HIDE DEF Even, Odd
  <2> QED BY <1>13, <1>14, <1>18, PartsCount
<1> DEFINE e1 == Cardinality(Both)
           e2 == Cardinality(Firsts)
           e3 == Cardinality(Lasts)
           e4 == Cardinality(None)
<1>22. e1 \in Nat /\ e2 \in Nat /\ e3 \in Nat /\ e4 \in Nat
  BY <1>13, <1>14
<1>23. e2 + e3 <= e1 + e4
  BY <1>7, <1>17, <1>20
<1>24. /\ SameCount(bits, l + 2) = e1 /\ SameCount(bits, l + 1) = e1 + e2
       /\ SameCount(bits, l + 1) = e1 + e3 /\ SameCount(bits, l) = (e1 + e4) + (e2 + e3)
  BY <1>15, <1>16, <1>20, <1>21 DEF SameCount
<1> HIDE DEF e1, e2, e3, e4
<1> QED BY <1>22, <1>23, <1>24

\* The bits from i on are the pattern p.
Shows(ring, i, p, l) == \A k \in 1..l : ring[i + (k - 1)] = p[k]

\* The places where p starts.
Starts(bits, p, l) == {i \in 1..Len(bits) : Shows(Ring(bits), i, p, l)}

\* How often PatternCounts has seen p.
CountOf(bits, p) ==
  LET c == PatternCounts(bits, Len(p)) IN IF p \in DOMAIN c THEN c[p] ELSE 0

\* CountOf counts the places where p starts.
LEMMA StartsFinite ==
  ASSUME NEW bits \in Seq(Bit)
  PROVE  \A P \in SUBSET (1..Len(bits)) : IsFiniteSet(P) /\ Cardinality(P) \in Nat
<1>1. IsFiniteSet(1..Len(bits))
  BY FS_Interval
<1> QED BY <1>1, FS_Subset, FS_CardinalityType

LEMMA CountIsStarts ==
  ASSUME NEW bits \in Seq(Bit), NEW l \in Nat, 1 <= l, l <= Len(bits), NEW p \in Patterns(l)
  PROVE  CountOf(bits, p) = Cardinality(Starts(bits, p, l))
<1> DEFINE I == 1..Len(bits)
           at == PatternAt(bits, l)
           c == PatternCounts(bits, l)
<1>1. at \in [I -> Patterns(l)] /\ DOMAIN at = I
      /\ \A i \in I, j \in 1..l : at[i][j] = Ring(bits)[i + (j - 1)]
  BY ExtendedIsRing
<1>2. c = [x \in ToSet(at) |-> Cardinality({i \in DOMAIN at : at[i] = x})]
  BY DEF PatternCounts, PatternAt
<1>3. Len(p) = l
  BY DEF Patterns
<1> HIDE DEF at, c
<1>4. CountOf(bits, p) = IF p \in DOMAIN c THEN c[p] ELSE 0
  BY <1>3 DEF CountOf, c
<1>5. ASSUME NEW i \in I PROVE at[i] = p <=> Shows(Ring(bits), i, p, l)
  <2>1. at[i] \in [1..l -> Bit] /\ p \in [1..l -> Bit]
    BY <1>1 DEF Patterns
  <2>2. at[i] = p <=> \A j \in 1..l : at[i][j] = p[j]
    BY <2>1
  <2> QED BY <1>1, <2>2 DEF Shows
<1>6. Starts(bits, p, l) = {i \in DOMAIN at : at[i] = p}
  BY <1>1, <1>5 DEF Starts
<1>7. CASE p \in ToSet(at)
  BY <1>2, <1>4, <1>6, <1>7
<1>8. CASE p \notin ToSet(at)
  <2>1. {i \in DOMAIN at : at[i] = p} = {}
    BY <1>8 DEF ToSet
  <2>2. DOMAIN c = ToSet(at)
    BY <1>2
  <2> QED BY <1>4, <1>6, <1>8, <2>1, <2>2, FS_EmptySet
<1> QED BY <1>7, <1>8

\* Zeros and Ones hold the elements of A whose bit is 0 and 1.
ByBit(A, r, Zeros, Ones) ==
  \A i \in A \cup Zeros \cup Ones :
    /\ r[i] \in Bit
    /\ i \in Zeros <=> i \in A /\ r[i] = 0
    /\ i \in Ones <=> i \in A /\ r[i] = 1

\* A split by a bit has two parts that share nothing.
LEMMA BitParts ==
  ASSUME NEW A, NEW r, NEW Zeros, NEW Ones, ByBit(A, r, Zeros, Ones)
  PROVE  Zeros \cup Ones = A /\ Zeros \cap Ones = {}
<1>1. \A i \in A : r[i] = 0 \/ r[i] = 1
  BY DEF ByBit, Bit
<1>2. \A i \in A \cup Zeros \cup Ones :
        (i \in Zeros <=> i \in A /\ r[i] = 0) /\ (i \in Ones <=> i \in A /\ r[i] = 1)
  BY DEF ByBit
<1> QED BY <1>1, <1>2

\* A pattern is continued by a 0 or a 1.
LEMMA CountSplitsBehind ==
  ASSUME NEW bits \in Seq(Bit), NEW l \in Nat, 1 <= l, l + 1 <= Len(bits), NEW p \in Patterns(l)
  PROVE  CountOf(bits, p) = CountOf(bits, Append(p, 0)) + CountOf(bits, Append(p, 1))
<1> DEFINE n == Len(bits)
           ring == Ring(bits)
           All == Starts(bits, p, l)
           To(b) == Starts(bits, Append(p, b), l + 1)
<1>1. n \in Nat /\ l <= n /\ l + 1 \in Nat /\ 1 <= l + 1
  OBVIOUS
<1>2. p \in [1..l -> Bit] /\ p \in Seq(Bit) /\ Len(p) = l
  BY DEF Patterns
<1>3. \A b \in Bit : /\ Append(p, b) \in Patterns(l + 1)
                     /\ \A k \in 1..l : Append(p, b)[k] = p[k]
                     /\ Append(p, b)[l + 1] = b
  <2> TAKE b \in Bit
  <2> DEFINE q == Append(p, b)
  <2>1. q \in Seq(Bit) /\ Len(q) = l + 1 /\ q[l + 1] = b /\ \A k \in 1..l : q[k] = p[k]
    BY <1>2, AppendProperties
  <2> HIDE DEF q
  <2>2. q \in [1..(l + 1) -> Bit]
    BY <2>1
  <2> QED BY <2>1, <2>2 DEF q, Patterns
<1>4. \A i \in 1..n : ring[i + l] \in Bit
  <2> TAKE i \in 1..n
  <2>1. i + l \in 1..(2 * n)
    BY <1>1
  <2> QED BY <2>1, RingFacts
<1>5. ASSUME NEW b \in Bit, NEW i \in 1..n
      PROVE  i \in To(b) <=> i \in All /\ ring[i + l] = b
  <2>1. 1..(l + 1) = (1..l) \cup {l + 1} /\ (l + 1) - 1 = l
    OBVIOUS
  <2> HIDE DEF ring
  <2>2. Shows(ring, i, Append(p, b), l + 1) <=> Shows(ring, i, p, l) /\ ring[i + l] = b
    BY <1>3, <2>1 DEF Shows
  <2> QED BY <2>2 DEF Starts, ring
<1>6. All \in SUBSET (1..n) /\ To(0) \in SUBSET (1..n) /\ To(1) \in SUBSET (1..n)
  BY DEF Starts
<1>7. 0 \in Bit /\ 1 \in Bit /\ \A b \in Bit : b = 0 \/ b = 1
  BY DEF Bit
<1> HIDE DEF All, To, ring
<1>8. To(0) \cup To(1) = All /\ To(0) \cap To(1) = {}
  <2> DEFINE I == 1..n
             Zeros == To(0)
             Ones == To(1)
             r == [i \in I |-> ring[i + l]]
  <2>1. \A i \in I : r[i] = ring[i + l] /\ r[i] \in Bit
    BY <1>4
  <2>2. \A i \in I : (i \in Zeros <=> i \in All /\ r[i] = 0)
                     /\ (i \in Ones <=> i \in All /\ r[i] = 1)
    BY <1>5, <1>7
  <2>3. All \in SUBSET I /\ Zeros \in SUBSET I /\ Ones \in SUBSET I
    BY <1>6
  <2> HIDE DEF I, Zeros, Ones, r
  <2>4. Zeros \cup Ones = All /\ Zeros \cap Ones = {}
    <3>1. ByBit(All, r, Zeros, Ones)
      BY <2>1, <2>2, <2>3 DEF ByBit
    <3> QED BY <3>1, BitParts
  <2> QED BY <2>4 DEF Zeros, Ones
<1>9. Cardinality(To(0)) + Cardinality(To(1)) = Cardinality(All)
  <2>1. IsFiniteSet(All)
    BY <1>6, StartsFinite
  <2> QED BY <1>8, <2>1, PartsCount
<1>10. CountOf(bits, p) = Cardinality(All)
  BY <1>1, CountIsStarts DEF All
<1>11. ASSUME NEW b \in Bit PROVE CountOf(bits, Append(p, b)) = Cardinality(To(b))
  <2> DEFINE q == Append(p, b)
             m == l + 1
  <2>1. q \in Patterns(m) /\ m \in Nat /\ 1 <= m /\ m <= Len(bits)
    BY <1>1, <1>3
  <2> HIDE DEF q, m
  <2>2. CountOf(bits, q) = Cardinality(Starts(bits, q, m))
    BY <2>1, CountIsStarts
  <2> QED BY <2>2 DEF q, m, To
<1> QED BY <1>7, <1>9, <1>10, <1>11

\* The places of I that After leads into T are as many as T.
LEMMA AfterOne ==
  ASSUME NEW n \in Nat, NEW T \in SUBSET (1..n)
  PROVE  Cardinality({i \in 1..n : After(n, i) \in T}) = Cardinality(T)
<1> DEFINE I == 1..n
           S == {i \in I : After(n, i) \in T}
           f == [i \in S |-> After(n, i)]
<1>1. IsFiniteSet(S)
  <2>1. S \in SUBSET I /\ IsFiniteSet(I)
    BY FS_Interval
  <2> HIDE DEF S, I
  <2> QED BY <2>1, FS_Subset
<1>2. \A i, j \in I : After(n, i) = After(n, j) => i = j
  BY DEF After
<1>3. \A j \in I : \E i \in I : After(n, i) = j
  <2> TAKE j \in I
  <2>1. CASE j = 1
    <3>1. n \in I /\ After(n, n) = j
      BY <2>1 DEF After
    <3> QED BY <3>1
  <2>2. CASE j # 1
    <3>1. j - 1 \in I /\ j - 1 # n /\ (j - 1) + 1 = j
      BY <2>2
    <3>2. After(n, j - 1) = j
      BY <3>1 DEF After
    <3> QED BY <3>1, <3>2
  <2> QED BY <2>1, <2>2
<1> HIDE DEF I
<1>4. f \in [S -> T]
  OBVIOUS
<1>5. \A i, j \in S : f[i] = f[j] => i = j
  BY <1>2
<1>6. ASSUME NEW t \in T PROVE \E i \in S : f[i] = t
  <2>1. t \in I
    BY DEF I
  <2>2. PICK i \in I : After(n, i) = t
    BY <1>3, <2>1
  <2> QED BY <2>2
<1> HIDE DEF f, S
<1>7. f \in Bijection(S, T)
  BY <1>4, <1>5, <1>6 DEF Bijection, Injection, Surjection, IsInjective
<1>8. ExistsBijection(S, T)
  BY <1>7 DEF ExistsBijection
<1>9. Cardinality(S) = Cardinality(T)
  BY <1>1, <1>8, FS_Bijection
<1> QED BY <1>9 DEF S, I

\* A pattern is preceded by a 0 or a 1, because the stream is a circle.
LEMMA CountSplitsInFront ==
  ASSUME NEW bits \in Seq(Bit), NEW l \in Nat, 1 <= l, l + 1 <= Len(bits), NEW p \in Patterns(l)
  PROVE  CountOf(bits, p) = CountOf(bits, <<0>> \o p) + CountOf(bits, <<1>> \o p)
<1> DEFINE n == Len(bits)
           ring == Ring(bits)
           All == Starts(bits, p, l)
           Next1 == {i \in 1..n : After(n, i) \in All}
           From(b) == Starts(bits, <<b>> \o p, l + 1)
<1>1. n \in Nat /\ l <= n /\ l + 1 \in Nat /\ 1 <= l + 1 /\ l + 1 <= n
  OBVIOUS
<1>2. p \in [1..l -> Bit] /\ p \in Seq(Bit) /\ Len(p) = l
  BY DEF Patterns
<1>3. \A b \in Bit : /\ <<b>> \o p \in Patterns(l + 1)
                     /\ \A k \in 1..l : (<<b>> \o p)[k + 1] = p[k]
                     /\ (<<b>> \o p)[1] = b
  <2> TAKE b \in Bit
  <2> DEFINE one == <<b>>
             q == one \o p
  <2>1. one \in Seq(Bit) /\ Len(one) = 1 /\ one[1] = b
    OBVIOUS
  <2> HIDE DEF one
  <2>2. /\ q \in Seq(Bit) /\ Len(q) = 1 + l
        /\ \A k \in 1..(1 + l) : q[k] = IF k <= 1 THEN one[k] ELSE p[k - 1]
    <3>1. /\ q \in Seq(Bit) /\ Len(q) = Len(one) + Len(p)
          /\ \A k \in 1..(Len(one) + Len(p)) : q[k] = IF k <= Len(one) THEN one[k] ELSE p[k - Len(one)]
      BY <1>2, <2>1, ConcatProperties, Zenon
    <3> HIDE DEF q
    <3> QED BY <1>2, <2>1, <3>1
  <2> HIDE DEF q
  <2>3. q \in [1..(l + 1) -> Bit]
    BY <2>2
  <2>4. q[1] = b
    BY <2>1, <2>2
  <2>5. ASSUME NEW k \in 1..l PROVE q[k + 1] = p[k]
    <3> DEFINE h == k + 1
    <3>1. h \in 1..(1 + l) /\ ~ (h <= 1) /\ h - 1 = k
      OBVIOUS
    <3> HIDE DEF h
    <3>2. q[h] = p[k]
      BY <2>2, <3>1
    <3> QED BY <3>2 DEF h
  <2> QED BY <2>3, <2>4, <2>5 DEF q, one, Patterns
<1>4. \A i \in 1..n : ring[i] \in Bit
  <2> TAKE i \in 1..n
  <2>1. i \in 1..(2 * n)
    BY <1>1
  <2> QED BY <2>1, RingFacts
<1>5. \A i \in 1..n, k \in 0..(n - 1) :
        After(n, i) \in 1..n /\ ring[After(n, i) + k] = ring[i + (k + 1)]
  BY RingFacts
<1>6. ASSUME NEW b \in Bit, NEW i \in 1..n
      PROVE  i \in From(b) <=> i \in Next1 /\ ring[i] = b
  <2> DEFINE q == <<b>> \o p
             j == After(n, i)
  <2>1. q[1] = b /\ \A k \in 1..l : q[k + 1] = p[k]
    BY <1>3
  <2>2. j \in 1..n /\ \A k \in 0..(n - 1) : ring[j + k] = ring[i + (k + 1)]
    <3>1. 0 \in 0..(n - 1)
      BY <1>1
    <3> QED BY <1>5, <3>1
  <2>3. i + 0 = i
    OBVIOUS
  <2> HIDE DEF q, j, ring, n
  <2>4. ASSUME Shows(ring, i, q, l + 1) PROVE ring[i] = b /\ Shows(ring, j, p, l)
    <3>1. \A k \in 1..(l + 1) : ring[i + (k - 1)] = q[k]
      BY <2>4 DEF Shows
    <3>2. ring[i] = b
      <4>1. 1 \in 1..(l + 1) /\ 1 - 1 = 0
        OBVIOUS
      <4> QED BY <2>1, <2>3, <3>1, <4>1
    <3>3. ASSUME NEW k \in 1..l PROVE ring[j + (k - 1)] = p[k]
      <4>1. k - 1 \in 0..(n - 1) /\ k + 1 \in 1..(l + 1) /\ (k - 1) + 1 = k /\ (k + 1) - 1 = k
        BY <1>1
      <4>2. ring[j + (k - 1)] = ring[i + ((k - 1) + 1)]
        BY <2>2, <4>1
      <4>3. ring[i + ((k + 1) - 1)] = q[k + 1]
        BY <3>1, <4>1
      <4> QED BY <2>1, <4>1, <4>2, <4>3
    <3> QED BY <3>2, <3>3 DEF Shows
  <2>5. ASSUME ring[i] = b, Shows(ring, j, p, l) PROVE Shows(ring, i, q, l + 1)
    <3> SUFFICES ASSUME NEW k \in 1..(l + 1) PROVE ring[i + (k - 1)] = q[k]
      BY DEF Shows
    <3>1. CASE k = 1
      <4>1. i + (k - 1) = i
        BY <3>1
      <4> QED BY <2>1, <2>5, <3>1, <4>1
    <3>2. CASE k # 1
      <4> DEFINE h == k - 1
      <4>1. h \in 1..l /\ h - 1 \in 0..(n - 1) /\ h + 1 = k /\ (h - 1) + 1 = h
        BY <1>1, <3>2
      <4> HIDE DEF h
      <4>2. ring[j + (h - 1)] = p[h] /\ q[h + 1] = p[h]
        BY <2>1, <2>5, <4>1 DEF Shows
      <4>3. ring[j + (h - 1)] = ring[i + ((h - 1) + 1)]
        BY <2>2, <4>1
      <4>4. ring[i + h] = q[k]
        BY <4>1, <4>2, <4>3
      <4> QED BY <4>4 DEF h
    <3> QED BY <3>1, <3>2
  <2>6. i \in Next1 <=> Shows(ring, j, p, l)
    BY <2>2 DEF Starts, j, ring, n
  <2>7. i \in From(b) <=> Shows(ring, i, q, l + 1)
    BY DEF Starts, q, ring, n
  <2> QED BY <2>4, <2>5, <2>6, <2>7
<1>7. All \in SUBSET (1..n) /\ Next1 \in SUBSET (1..n)
      /\ From(0) \in SUBSET (1..n) /\ From(1) \in SUBSET (1..n)
  BY DEF Starts
<1>8. 0 \in Bit /\ 1 \in Bit /\ \A b \in Bit : b = 0 \/ b = 1
  BY DEF Bit
<1>9. Cardinality(Next1) = Cardinality(All)
  <2> HIDE DEF All, n
  <2> QED BY <1>1, <1>7, AfterOne
<1> HIDE DEF All, Next1, From, ring
<1>10. From(0) \cup From(1) = Next1 /\ From(0) \cap From(1) = {}
  <2> DEFINE I == 1..n
             Zeros == From(0)
             Ones == From(1)
  <2>1. \A i \in I : (i \in Zeros <=> i \in Next1 /\ ring[i] = 0)
                     /\ (i \in Ones <=> i \in Next1 /\ ring[i] = 1)
    BY <1>6, <1>8
  <2>2. Next1 \in SUBSET I /\ Zeros \in SUBSET I /\ Ones \in SUBSET I
        /\ \A i \in I : ring[i] \in Bit
    BY <1>4, <1>7
  <2> HIDE DEF I, Zeros, Ones
  <2>3. Zeros \cup Ones = Next1 /\ Zeros \cap Ones = {}
    <3>1. ByBit(Next1, ring, Zeros, Ones)
      BY <2>1, <2>2 DEF ByBit
    <3> QED BY <3>1, BitParts
  <2> QED BY <2>3 DEF Zeros, Ones
<1>11. Cardinality(From(0)) + Cardinality(From(1)) = Cardinality(Next1)
  <2>1. IsFiniteSet(Next1)
    BY <1>7, StartsFinite
  <2> QED BY <1>10, <2>1, PartsCount
<1>12. CountOf(bits, p) = Cardinality(All)
  BY <1>1, CountIsStarts DEF All
<1>13. ASSUME NEW b \in Bit PROVE CountOf(bits, <<b>> \o p) = Cardinality(From(b))
  <2> DEFINE q == <<b>> \o p
             m == l + 1
  <2>1. q \in Patterns(m) /\ m \in Nat /\ 1 <= m /\ m <= Len(bits)
    BY <1>1, <1>3
  <2> HIDE DEF q, m
  <2>2. CountOf(bits, q) = Cardinality(Starts(bits, q, m))
    BY <2>1, CountIsStarts
  <2> QED BY <2>2 DEF q, m, From
<1> QED BY <1>8, <1>9, <1>11, <1>12, <1>13

\* The pattern lengths that the serial test may end up with.
Lengths(n) == {k \in 3..16 : k = 3 \/ 2 ^ (k - 2) <= n}

\* The loop that chooses the pattern length ends with one of them.
LEMMA SerialLengthFits ==
  ASSUME NEW n \in Nat
  PROVE  SerialLength(n) \in Lengths(n)
<1> DEFINE A == Lengths(n)
           s == [i \in 1..14 |-> i + 2]
           Turn(m, mm) == IF 2 * mm * 2 ^ mm <= n /\ 2 ^ (mm - 2) <= n THEN mm ELSE m
           Loop(f) ==
             [t \in SUBSET (1..14) |->
                IF t = {} THEN 3 ELSE Turn(f[t \ {Max(t)}], s[Max(t)])]
           iter == CHOOSE f : f = Loop(f)
           step == [k \in 1..14 |-> [a \in A |-> Turn(a, s[k])]]
<1>1. SerialLength(n) = iter[1..14]
  <2>1. s = [i \in 1..14 |-> i + 2] /\ Len(s) = 14
    OBVIOUS
  <2> QED BY <2>1 DEF SerialLength, FoldLeft, MapThenFoldSet
<1>2. 3 \in A
  BY DEF Lengths
<1>3. \A k \in 1..14, a \in A : Turn(a, s[k]) \in A
  <2> TAKE k \in 1..14, a \in A
  <2> DEFINE mm == s[k]
  <2>1. mm \in 3..16
    OBVIOUS
  <2> HIDE DEF mm
  <2> QED BY <2>1 DEF Lengths
<1> HIDE DEF A, s, Turn
<1>4. Turns(step, 1..14, A)
  BY <1>3 DEF Turns
<1>5. \A k \in 1..14, a \in A : step[k][a] = Turn(a, s[k])
  OBVIOUS
<1>6. \A t \in SUBSET (1..14) :
        t # {} => Max(t) = Greatest(t) /\ Max(t) \in 1..14 /\ t \ {Max(t)} \in SUBSET (1..14)
  <2>1. 14 \in Nat
    OBVIOUS
  <2> QED BY <2>1, GreatestExists DEF Max, Greatest
<1> HIDE DEF step
<1>7. PICK f \in [SUBSET (1..14) -> A] : LeftFolds(f, 14, 3, step)
  <2>1. 14 \in Nat
    OBVIOUS
  <2> QED BY <1>2, <1>4, <2>1, LeftRecursion
<1>8. f = Loop(f)
  <2>1. ASSUME NEW t \in SUBSET (1..14), t # {} PROVE f[t] = Turn(f[t \ {Max(t)}], s[Max(t)])
    BY <1>5, <1>6, <1>7, <2>1 DEF LeftFolds
  <2>2. f[{}] = 3
    BY <1>7 DEF LeftFolds
  <2> QED BY <1>7, <2>1, <2>2
<1>9. iter = Loop(iter)
  <2> HIDE DEF Loop
  <2> QED BY <1>8
<1> HIDE DEF iter
<1>10. iter[{}] = 3
  BY <1>9
<1>11. \A t \in SUBSET (1..14) : t # {} => iter[t] = Turn(iter[t \ {Max(t)}], s[Max(t)])
  BY <1>9
<1>12. Unfolds(iter, 14, step, A)
  <2> SUFFICES ASSUME NEW t \in SUBSET (1..14), t # {}, iter[t \ {Greatest(t)}] \in A
               PROVE  iter[t] = step[Greatest(t)][iter[t \ {Greatest(t)}]]
    BY DEF Unfolds
  <2> DEFINE m == Greatest(t)
  <2>1. m \in 1..14 /\ m = Max(t)
    BY <1>6
  <2> HIDE DEF m
  <2>2. iter[t \ {m}] \in A
    BY DEF m
  <2>3. step[m][iter[t \ {m}]] = iter[t]
    BY <1>5, <1>11, <2>1, <2>2
  <2> QED BY <2>3 DEF m
<1>13. PICK acc : Accumulates(acc, 14, 3, step, A) /\ acc[14] = iter[1..14]
  <2> DEFINE N == 14
             base == 3
  <2>1. N \in Nat /\ base \in A /\ Turns(step, 1..N, A) /\ iter[{}] = base
        /\ Unfolds(iter, N, step, A)
    BY <1>2, <1>4, <1>10, <1>12
  <2> HIDE DEF N, base
  <2>2. \E acc : Accumulates(acc, N, base, step, A) /\ acc[N] = iter[1..N]
    BY <2>1, LeftPrefixes
  <2> QED BY <2>2 DEF N, base
<1>14. acc[14] \in A
  <2>1. 14 \in 0..14
    OBVIOUS
  <2> QED BY <1>13, <2>1 DEF Accumulates
<1> QED BY <1>1, <1>13, <1>14 DEF A

\* Such a length fits into a sample of at least 8 bits.
LEMMA LengthFacts ==
  ASSUME NEW n \in Nat, 8 <= n, NEW m \in Lengths(n)
  PROVE  /\ m \in 3..16 /\ m <= n
         /\ 2 ^ (m - 2) \in Nat /\ 2 ^ (m - 1) = 2 * 2 ^ (m - 2) /\ 2 ^ m = 4 * 2 ^ (m - 2)
<1>1. m \in 3..16 /\ (m = 3 \/ 2 ^ (m - 2) <= n)
  BY DEF Lengths
<1>3. CASE m = 3
  BY <1>1, <1>3
<1>4. CASE m = 4
  BY <1>1, <1>4
<1>5. CASE m = 5
  BY <1>1, <1>5
<1>6. CASE m = 6
  BY <1>1, <1>6
<1>7. CASE m = 7
  BY <1>1, <1>7
<1>8. CASE m = 8
  BY <1>1, <1>8
<1>9. CASE m = 9
  BY <1>1, <1>9
<1>10. CASE m = 10
  BY <1>1, <1>10
<1>11. CASE m = 11
  BY <1>1, <1>11
<1>12. CASE m = 12
  BY <1>1, <1>12
<1>13. CASE m = 13
  BY <1>1, <1>13
<1>14. CASE m = 14
  BY <1>1, <1>14
<1>15. CASE m = 15
  BY <1>1, <1>15
<1>16. CASE m = 16
  BY <1>1, <1>16
<1>17. m = 3 \/ m = 4 \/ m = 5 \/ m = 6 \/ m = 7 \/ m = 8 \/ m = 9 \/ m = 10 \/ m = 11
       \/ m = 12 \/ m = 13 \/ m = 14 \/ m = 15 \/ m = 16
  BY <1>1
<1> QED BY <1>3, <1>4, <1>5, <1>6, <1>7, <1>8, <1>9, <1>10, <1>11, <1>12, <1>13, <1>14,
           <1>15, <1>16, <1>17

\* What the serial test counts is consistent, for samples of every length, and with it
\* the two differences of psi^2 that the code forms from the square sums (serialPsi2) are
\* not negative in exact arithmetic.  Of the floats that it forms them in this says nothing.
THEOREM SerialCountsConsistent ==
  ASSUME NEW bits \in Seq(Bit), 8 <= Len(bits)
  PROVE  LET m == SerialLength(Len(bits))
             Count(p) == LET c == PatternCounts(bits, Len(p))
                         IN  IF p \in DOMAIN c THEN c[p] ELSE 0
             S(l) == SquareSum(PatternCounts(bits, l))
         IN  /\ \A p \in UNION {[1..l -> {0, 1}] : l \in 1..(m - 1)} :
                  /\ Count(p) = Count(Append(p, 0)) + Count(Append(p, 1))
                  /\ Count(p) = Count(<<0>> \o p) + Count(<<1>> \o p)
             /\ 2 * S(m) >= S(m - 1)
             /\ 4 * S(m) + S(m - 2) >= 4 * S(m - 1)
<1> DEFINE n == Len(bits)
           m == SerialLength(n)
           S(l) == SquareSum(PatternCounts(bits, l))
<1>1. n \in Nat /\ 8 <= n
  OBVIOUS
<1> HIDE DEF n
<1>2. m \in 3..16 /\ m <= n
  <2>1. m \in Lengths(n)
    BY <1>1, SerialLengthFits
  <2> HIDE DEF m
  <2> QED BY <1>1, <2>1, LengthFacts
<1> HIDE DEF m
<1>3. ASSUME NEW l \in 1..(m - 1), NEW p \in [1..l -> {0, 1}]
      PROVE  /\ CountOf(bits, p) = CountOf(bits, Append(p, 0)) + CountOf(bits, Append(p, 1))
             /\ CountOf(bits, p) = CountOf(bits, <<0>> \o p) + CountOf(bits, <<1>> \o p)
  <2>1. l \in Nat /\ 1 <= l /\ l + 1 <= Len(bits) /\ p \in Patterns(l)
    BY <1>1, <1>2 DEF n, Patterns, Bit
  <2> QED BY <2>1, CountSplitsBehind, CountSplitsInFront
<1>4. ASSUME NEW k \in {m, m - 1, m - 2} PROVE S(k) = SameCount(bits, k)
  <2>1. k \in Nat /\ 1 <= k /\ k <= Len(bits)
    BY <1>1, <1>2 DEF n
  <2> QED BY <2>1, PatternSquares
<1>5. 2 * S(m) >= S(m - 1) /\ 4 * S(m) + S(m - 2) >= 4 * S(m - 1)
  <2> DEFINE l == m - 2
             a == SameCount(bits, m)
             b == SameCount(bits, m - 1)
             c == SameCount(bits, m - 2)
  <2>1. /\ l \in Nat /\ 1 <= l /\ l + 2 <= Len(bits) /\ l + 2 = m /\ l + 1 = m - 1
        /\ l + 1 \in Nat /\ 1 <= l + 1 /\ (l + 1) + 1 <= Len(bits) /\ (l + 1) + 1 = m
    BY <1>1, <1>2 DEF n
  <2>2. a \in Nat /\ b \in Nat /\ c \in Nat
    BY <1>1, SamePairsFinite
  <2>3. 4 * b <= 4 * a + c
    <3>1. 4 * SameCount(bits, l + 1) <= 4 * SameCount(bits, l + 2) + SameCount(bits, l)
      <4> HIDE DEF l
      <4> QED BY <2>1, SamePairsBend
    <3> QED BY <2>1, <3>1
  <2>4. b <= 2 * a
    <3>1. SameCount(bits, l + 1) <= 2 * SameCount(bits, (l + 1) + 1)
      <4> DEFINE k == l + 1
      <4> HIDE DEF k, l
      <4> QED BY <2>1, SamePairsHalve DEF k
    <3> QED BY <2>1, <3>1
  <2>5. S(m) = a /\ S(m - 1) = b /\ S(m - 2) = c
    BY <1>4
  <2> HIDE DEF a, b, c, S
  <2> QED BY <2>2, <2>3, <2>4, <2>5
<1>6. \A p \in UNION {[1..l -> {0, 1}] : l \in 1..(m - 1)} :
        /\ CountOf(bits, p) = CountOf(bits, Append(p, 0)) + CountOf(bits, Append(p, 1))
        /\ CountOf(bits, p) = CountOf(bits, <<0>> \o p) + CountOf(bits, <<1>> \o p)
  BY <1>3
<1> QED BY <1>5, <1>6, Zenon DEF CountOf, m, n

-----------------------------------------------------------------------------
(* The validators, on every sample that a request takes.                   *)

\* All conjuncts, one theorem each.
LEMMA StatisticsOfSample ==
  ASSUME sample \in Seq(Byte), sample # <<>>, lpc = "starting"
  PROVE  StatisticsAgree
<1> DEFINE bits == ToBits(sample)
           n == Len(bits)
           bias == BitBiasCounts(sample)
           walk == Excursions(bits)
           longest == LongestRun(bits)
<1>1. /\ bits \in Seq(Bit) /\ n = 8 * Len(sample) /\ Len(sample) \in Nat \ {0}
      /\ bits # <<>> /\ n \in Nat \ {0} /\ 8 <= n
  <2>1. bits \in Seq(Bit) /\ n = 8 * Len(sample)
    BY BitsOfBytes
  <2>2. Len(sample) \in Nat \ {0}
    BY EmptySeq
  <2> HIDE DEF bits
  <2> QED BY <2>1, <2>2
<1>2. Runs(bits) + Agreements(bits, 1) = n
  BY <1>1, RunsAndAgreements
<1>3. /\ Total([pos \in 1..8 |-> 2 ^ (8 - pos) * bias[pos]]) = Total(sample)
      /\ Total(bias) = countOnes(bits)
      /\ n % BlockLength(n) = 0 => Total(BlockOnes(bits, BlockLength(n))) = countOnes(bits)
  BY OnesAgree, Zenon
<1>4. /\ MostCommonValue(sample) * DistinctByteValues(sample) >= Len(sample)
      /\ MostCommonValue(sample) + DistinctByteValues(sample) <= Len(sample) + 1
      /\ DistinctByteValues(sample) + CountRepetitions(sample) <= Len(sample)
  BY ByteCountsAgree
<1>5. /\ longest \in 0..n
      /\ \E i \in 1..(n - longest + 1) : \A k \in i..(i + longest - 1) : bits[k] = 1
      /\ \A i \in 1..(n - longest) : \E k \in i..(i + longest) : bits[k] = 0
  BY <1>1, LongestRunFound, Zenon
<1>6. \A t \in {Tier(128), Tier(6272)} :
        RunBin(longest, t.v) = Smaller(Larger(longest, t.v[1]), t.v[Len(t.v)]) - t.v[1] + 1
  <2> HIDE DEF bits, longest
  <2>1. longest \in Nat
    BY <1>1, <1>5
  <2> TAKE t \in {Tier(128), Tier(6272)}
  <2> QED BY <2>1, BinsAreNearest
<1>7. /\ walk.forward \in 1..n /\ walk.reverse \in 1..n
      /\ walk.reverse = Excursions(Reverse(bits)).forward
  BY <1>1, ExcursionsAgree, Zenon
<1>8. walk.forward >= 1 /\ walk.reverse >= 1
  <2> HIDE DEF bits, walk
  <2> QED BY <1>1, <1>7
<1>9. /\ \A k \in Sum1Terms(n, walk.forward) : -k \in Sum1Terms(n, walk.forward)
      /\ \A k \in Sum2Terms(n, walk.forward) : -1 - k \in Sum2Terms(n, walk.forward)
  <2> DEFINE z == walk.forward
  <2>1. z \in Nat \ {0} /\ z <= n /\ n \in Nat
    <3> HIDE DEF bits, walk
    <3> QED BY <1>1, <1>7
  <2> HIDE DEF z, bits
  <2>2. /\ \A k \in Int : k \in Sum1Terms(n, z) <=> -k \in Sum1Terms(n, z)
        /\ \A k \in Int : k \in Sum2Terms(n, z) <=> -1 - k \in Sum2Terms(n, z)
    BY <2>1, TermsPair
  <2>3. Sum1Terms(n, z) \subseteq Int /\ Sum2Terms(n, z) \subseteq Int
    BY DEF Sum1Terms, Sum2Terms
  <2> QED BY <2>2, <2>3 DEF z
<1>10. SerialCountsAgree
  <2>1. LET m == SerialLength(n)
            Count(p) == LET c == PatternCounts(bits, Len(p))
                        IN  IF p \in DOMAIN c THEN c[p] ELSE 0
            S(l) == SquareSum(PatternCounts(bits, l))
        IN  /\ \A p \in UNION {[1..l -> {0, 1}] : l \in 1..(m - 1)} :
                 /\ Count(p) = Count(Append(p, 0)) + Count(Append(p, 1))
                 /\ Count(p) = Count(<<0>> \o p) + Count(<<1>> \o p)
            /\ 2 * S(m) >= S(m - 1)
            /\ 4 * S(m) + S(m - 2) >= 4 * S(m - 1)
    BY <1>1, SerialCountsConsistent, Zenon
  <2> QED BY <2>1, Zenon DEF SerialCountsAgree
<1>11. BlockFrequencyReads(n) <= n /\ LongestRunReads(n) <= n
  <2> HIDE DEF n
  <2> QED BY <1>1, BlocksInside
<1> HIDE DEF bits, n, bias, walk, longest
<1>12. /\ Runs(bits) + Agreements(bits, 1) = n
       /\ Total([pos \in 1..8 |-> 2 ^ (8 - pos) * bias[pos]]) = Total(sample)
       /\ Total(bias) = countOnes(bits)
       /\ n % BlockLength(n) = 0 => Total(BlockOnes(bits, BlockLength(n))) = countOnes(bits)
       /\ MostCommonValue(sample) * DistinctByteValues(sample) >= Len(sample)
       /\ MostCommonValue(sample) + DistinctByteValues(sample) <= Len(sample) + 1
       /\ DistinctByteValues(sample) + CountRepetitions(sample) <= Len(sample)
       /\ \A t \in {Tier(128), Tier(6272)} :
            RunBin(longest, t.v) =
              Smaller(Larger(longest, t.v[1]), t.v[Len(t.v)]) - t.v[1] + 1
       /\ \E i \in 1..(n - longest + 1) : \A k \in i..(i + longest - 1) : bits[k] = 1
       /\ \A i \in 1..(n - longest) : \E k \in i..(i + longest) : bits[k] = 0
       /\ walk.forward >= 1 /\ walk.reverse >= 1
       /\ walk.reverse = Excursions(Reverse(bits)).forward
       /\ \A k \in Sum1Terms(n, walk.forward) : -k \in Sum1Terms(n, walk.forward)
       /\ \A k \in Sum2Terms(n, walk.forward) : -1 - k \in Sum2Terms(n, walk.forward)
       /\ SerialCountsAgree
       /\ BlockFrequencyReads(n) <= n /\ LongestRunReads(n) <= n
  BY <1>2, <1>3, <1>4, <1>5, <1>6, <1>7, <1>8, <1>9, <1>10, <1>11
<1> QED
  BY <1>12 DEF StatisticsAgree, bits, n, bias, walk, longest

\* What the validators count apart, on whatever sample a request takes, is consistent:
\* every conjunct of StatisticsAgree, for samples of every length.
THEOREM StatisticsAreConsistent == Spec => []StatisticsAgree
<1>1. LabTypeInv => StatisticsAgree
  <2> SUFFICES ASSUME LabTypeInv, lpc = "starting" PROVE StatisticsAgree
    BY DEF StatisticsAgree
  <2>1. sample \in Seq(Byte) /\ sample # <<>>
    BY DEF LabTypeInv, SampleInv
  <2> QED BY <2>1, StatisticsOfSample
<1> QED BY <1>1, SampleInvariance, PTL

=============================================================================
