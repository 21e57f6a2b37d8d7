-------------------------------- MODULE Lab --------------------------------
(***************************************************************************)
(* The audit (RunFullAudit) and the lab suites (RunSuites) with the        *)
(* handlers that call them.  A request reads the pool in one statement,    *)
(* and then shares nothing with any other but the publisher; one request   *)
(* at a time is modelled, and the pool is any pool.                        *)
(***************************************************************************)
EXTENDS FanIn, Validators

CONSTANTS
  Pools,        \* the contents of the unused LFD rows: sequences of byte sequences
  Sizes,        \* the sizes that requests ask for
  SuiteIds,     \* the suites that requests ask for, registered or not
  DefaultSize   \* what the handlers of the UI replace a size <= 0 by

ASSUME LabAssumption ==
  /\ Pools \subseteq Seq(Seq(0..255))
  /\ Sizes \subseteq Int
  /\ SuiteIds \subseteq STRING
  /\ DefaultSize \in Nat \ {0}

VARIABLES
  lpc,      \* where the request is
  request,  \* [route, suite, size]
  rows,     \* history: the rows that were unused when the request looked
  readFailed, \* history: the store failed to read them
  sample,   \* the quantum sample
  results,  \* the results of the sources that are done
  log,      \* the calls of Publish
  answer    \* of the last request

vars == <<fanVars, lpc, request, rows, readFailed, sample, results, log, answer>>

-----------------------------------------------------------------------------
(* The suites: the metrics that each of their closures returns, in order.  *)

runBasic == << <<"shannon">>, <<"chi-square">>, <<"pi">>, <<"compression">>,
               <<"repetitions">> >>

runMinEntropy == << <<"mcv 8-bit">>, <<"bit level">>, <<"most common">>, <<"distinct">> >>

runNIST == << <<"monobit">>, <<"block frequency">>, <<"runs">>, <<"longest run">>,
              <<"approximate entropy">>, <<"serial p1", "serial p2">>,
              <<"cusum forward", "cusum reverse">> >>

runStructure == << <<"bit bias">>, <<"autocorrelation", "lags out of range">>,
                   <<"runs z">>, <<"serial correlation">> >>

Registry == << [id |-> "basic", run |-> runBasic],
               [id |-> "min-entropy", run |-> runMinEntropy],
               [id |-> "nist", run |-> runNIST],
               [id |-> "structure", run |-> runStructure] >>

Registered(id) == \E k \in DOMAIN Registry : Registry[k].id = id

Suite(id) == Registry[CHOOSE k \in DOMAIN Registry : Registry[k].id = id]

Sources == <<"Quantum (LFD)", "Java SecureRandom (CSPRNG)", "Java Random (LCRNG)">>

\* What the closures of a suite return for a source: each metric is a function of
\* the source's sample, of which only the size matters here.
Closures(id, source, size) ==
  [i \in DOMAIN Suite(id).run |->
     [k \in DOMAIN Suite(id).run[i] |->
        [name |-> Suite(id).run[i][k], source |-> source, size |-> size]]]

-----------------------------------------------------------------------------
Routes == {"api audit", "ui audit", "ui lab"}

\* /api/v1/quantum-entropy/audit passes any number on; the UI does not.
Requested(route, size) ==
  IF route # "api audit" /\ size <= 0 THEN DefaultSize ELSE size

NoRequest == [route |-> "api audit", suite |-> "", size |-> 0]

Init ==
  /\ FanInit
  /\ lpc = "idle"
  /\ request = NoRequest
  /\ rows = <<>> /\ readFailed = FALSE /\ sample = <<>>
  /\ results = <<>> /\ log = <<>>
  /\ answer = "none"

Reply(kind) == lpc' = "idle" /\ answer' = kind

Request(route, suite, size) ==
  /\ lpc = "idle"
  /\ request' = [route |-> route, suite |-> IF route = "ui lab" THEN suite ELSE "",
                 size |-> Requested(route, size)]
  /\ rows' = <<>> /\ readFailed' = FALSE /\ sample' = <<>>
  /\ results' = <<>> /\ log' = <<>>
  /\ IF route = "ui lab" /\ ~Registered(suite)
     THEN Reply("unknown suite")
     ELSE lpc' = "sampling" /\ answer' = "none"
  /\ UNCHANGED fanVars

\* The rows are appended until the size is reached.
Gather(found, size) ==
  LET acc[k \in 1..Len(found)] ==
        IF k = 1 THEN found[1]
        ELSE IF Len(acc[k - 1]) >= size THEN acc[k - 1] ELSE acc[k - 1] \o found[k]
  IN  acc[Len(found)]

MutantCut(bytes, size) == IF Len(bytes) > size + 1 THEN SubSeq(bytes, 1, size) ELSE bytes

\* sample[:size]
Cut(bytes, size) == IF Len(bytes) > size THEN SubSeq(bytes, 1, size) ELSE bytes

MutantFindNoRows ==
  /\ lpc = "sampling"
  /\ rows' = <<>>
  /\ log' = Append(log, "audit.start")
  /\ Reply("no data")
  /\ UNCHANGED <<fanVars, request, readFailed, sample, results>>

\* The store finds nothing.
FindNoRows ==
  /\ lpc = "sampling"
  /\ rows' = <<>>
  /\ Reply("no data")
  /\ UNCHANGED <<fanVars, request, readFailed, sample, results, log>>

\* The store fails to read what it holds; the error becomes the one of an empty pool.
FindFails(unused) ==
  /\ lpc = "sampling"
  /\ rows' = unused /\ readFailed' = TRUE
  /\ Reply("no data")
  /\ UNCHANGED <<fanVars, request, sample, results, log>>

\* sample[:size] panics in the goroutine of the handler, whose Recovery middleware
\* answers 500.
SamplePanics(found) ==
  /\ lpc = "sampling"
  /\ found # <<>> /\ request.size < 0
  /\ rows' = found
  /\ Reply("panic")
  /\ UNCHANGED <<fanVars, request, readFailed, sample, results, log>>

\* A row that does not decode adds nothing, and a sample may be empty.
TakeSample(found) ==
  /\ lpc = "sampling"
  /\ found # <<>> /\ request.size >= 0
  /\ rows' = found
  /\ sample' = Cut(Gather(found, request.size), request.size)
  /\ IF sample' = <<>> THEN Reply("no data") ELSE lpc' = "starting" /\ UNCHANGED answer
  /\ UNCHANGED <<fanVars, request, readFailed, results, log>>

Publish(event) == log' = Append(log, event)

\* A failure to publish is only logged.
PublishStart ==
  /\ lpc = "starting"
  /\ Publish("audit.start")
  /\ lpc' = "running"
  /\ UNCHANGED <<fanVars, request, rows, readFailed, sample, results, answer>>

\* auditSource, for the three sources in turn; nothing is concurrent.
AuditSources ==
  /\ lpc = "running" /\ request.route # "ui lab"
  /\ results' = [s \in 1..3 |-> [source |-> Sources[s],
                                 metrics |-> <<[name |-> "audit", source |-> Sources[s],
                                                size |-> Len(sample)]>>]]
  /\ lpc' = "completing"
  /\ UNCHANGED <<fanVars, request, rows, readFailed, sample, log, answer>>

\* def.run for the next source, on a sample of the quantum sample's size.
RunSuite ==
  /\ lpc = "running" /\ request.route = "ui lab"
  /\ caller = "idle" /\ Len(results) < 3
  /\ Call(Closures(request.suite, Sources[Len(results) + 1], Len(sample)))
  /\ UNCHANGED <<lpc, request, rows, readFailed, sample, results, log, answer>>

MutantTakeMetrics ==
  /\ lpc = "running"
  /\ Leave
  /\ results' = <<[source |-> Sources[Len(results) + 1], metrics |-> metrics]>>
  /\ lpc' = IF Len(results') = 3 THEN "completing" ELSE "running"
  /\ UNCHANGED <<request, rows, readFailed, sample, log, answer>>

TakeMetrics ==
  /\ lpc = "running"
  /\ Leave
  /\ results' = Append(results, [source |-> Sources[Len(results) + 1], metrics |-> metrics])
  /\ lpc' = IF Len(results') = 3 THEN "completing" ELSE "running"
  /\ UNCHANGED <<request, rows, readFailed, sample, log, answer>>

PublishComplete ==
  /\ lpc = "completing"
  /\ Publish("audit.complete")
  /\ Reply("report")
  /\ UNCHANGED <<fanVars, request, rows, readFailed, sample, results>>

FanInStep == FanStep /\ UNCHANGED <<lpc, request, rows, readFailed, sample, results, log, answer>>

Step ==
  \/ FindNoRows
  \/ \E found \in Pools : FindFails(found) \/ SamplePanics(found) \/ TakeSample(found)
  \/ PublishStart \/ AuditSources
  \/ RunSuite \/ FanInStep \/ TakeMetrics
  \/ PublishComplete

Next ==
  \/ \E route \in Routes, suite \in SuiteIds, size \in Sizes : Request(route, suite, size)
  \/ Step

\* The goroutines of a request keep running; requests come as they like.
Spec == Init /\ [][Next]_vars /\ WF_vars(Step)

-----------------------------------------------------------------------------
(* Properties                                                              *)

MetricNames ==
  {"audit"} \cup
  UNION {UNION {ToSet(names) : names \in ToSet(Registry[k].run)} : k \in DOMAIN Registry}

Metric == [name : MetricNames, source : ToSet(Sources), size : Nat]

Result == [source : ToSet(Sources), metrics : Seq(Metric)]

TypeOK ==
  /\ lpc \in {"idle", "sampling", "starting", "running", "completing"}
  /\ request \in [route : Routes, suite : SuiteIds \cup {""}, size : Int]
  /\ rows \in Seq(Seq(0..255)) /\ readFailed \in BOOLEAN /\ sample \in Seq(0..255)
  /\ log \in Seq({"audit.start", "audit.complete"})
  /\ answer \in {"none", "unknown suite", "no data", "panic", "report"}
  /\ results \in Seq(Result)
  /\ worker \in Seq({"running", "sent", "done"}) /\ DOMAIN fns = DOMAIN worker
  /\ closed \in BOOLEAN
  /\ caller \in {"idle", "ranging", "returned"}

FirstBytes(bytes, n) == SubSeq(bytes, 1, Smaller(n, Len(bytes)))

Expected(s) ==
  [source |-> Sources[s],
   metrics |-> FlattenSeq(Closures(request.suite, Sources[s], Len(sample)))]

\* A suite's report has the three sources in their order, for each one every metric of
\* the suite in the registry's order - although goroutines computed them in any order -
\* and all of it on samples of one size.
SuiteComplete ==
  answer = "report" /\ request.route = "ui lab" => results = [s \in 1..3 |-> Expected(s)]

\* What is answered is true of the pool that the request looked at: the quantum sample
\* of a report is its first bytes, as many as the request asked for if there are, and
\* "no data" is only the answer to a pool without bytes, to a request for none, or to
\* a read that failed - in which case it says nothing of the pool, which may be full.
ReportFaithful ==
  /\ ReturnsInOrder
  /\ SuiteComplete
  /\ answer = "report" => sample = FirstBytes(FlattenSeq(rows), request.size)
  /\ answer = "no data" => FlattenSeq(rows) = <<>> \/ request.size = 0 \/ readFailed

\* No event speaks of an audit that did not run (README.md:454-458): a request that
\* ends without a report, by an empty pool, an unknown suite or a panic, has published
\* nothing, and one that ends with a report has announced its start, then its end.
EventsMatchAnswer ==
  lpc = "idle" => log = IF answer = "report" THEN <<"audit.start", "audit.complete">>
                                             ELSE <<>>

\* Every request is answered: the fan-in ends whatever the order of its goroutines.
Answered == lpc # "idle" ~> lpc = "idle"

\* The counts of the serial test are those of one circular stream: every m-bit pattern
\* is as frequent as its two extensions together, on either side.  Hence the first and
\* the second difference of psi^2 (psi^2_m + n is 2^m / n times the square sum), which
\* igamc would refuse if negative, are not negative but for the rounding of the floats
\* that the code computes them in.
SerialCountsAgree ==
  LET bits == ToBits(sample)
      m == SerialLength(Len(bits))
      Count(p) == LET c == PatternCounts(bits, Len(p))
                  IN  IF p \in DOMAIN c THEN c[p] ELSE 0
      S(l) == SquareSum(PatternCounts(bits, l))
  IN  /\ \A p \in UNION {[1..l -> {0, 1}] : l \in 1..(m - 1)} :
           /\ Count(p) = Count(Append(p, 0)) + Count(Append(p, 1))
           /\ Count(p) = Count(<<0>> \o p) + Count(<<1>> \o p)
      /\ 2 * S(m) >= S(m - 1)
      /\ 4 * S(m) + S(m - 2) >= 4 * S(m - 1)

Total(s) == FoldLeft(+, 0, s)

\* The validators, on every sample that a request takes.  Loops written apart must
\* count the same: the runs of bits and the agreements at lag 1 share out the bits; the
\* ones per bit position give back the bytes; the blocks of the block frequency test
\* and the positions hold all the ones; the most common value bounds the distinct
\* values; the longest run is a run of ones, there is no longer one, and it falls in the
\* bin of the nearest tabulated run; the excursion of the reversed walk is the one
\* that the reversed bits would show, is never zero, which cumulativeSumsP would answer
\* with 0, and leaves sums of terms that pair off; the counts of the serial test agree;
\* and the two block tests, which run in goroutines that nothing recovers, index no bit
\* beyond the sample.
StatisticsAgree ==
  lpc = "starting" =>
    LET bits == ToBits(sample)
        n == Len(bits)
        bias == BitBiasCounts(sample)
        walk == Excursions(bits)
        longest == LongestRun(bits)
    IN  /\ Runs(bits) + Agreements(bits, 1) = n
        /\ Total([pos \in 1..8 |-> 2 ^ (8 - pos) * bias[pos]]) = Total(sample)
        /\ Total(bias) = countOnes(bits)
        /\ n % BlockLength(n) = 0 => Total(BlockOnes(bits, BlockLength(n))) = countOnes(bits)
        /\ MostCommonValue(sample) * DistinctByteValues(sample) >= Len(sample)
        /\ MostCommonValue(sample) + DistinctByteValues(sample) <= Len(sample) + 1
        /\ DistinctByteValues(sample) + CountRepetitions(sample) <= Len(sample)
        /\ \A t \in {Tier(128), Tier(6272)} :
             RunBin(longest, t.v) =
               Smaller(Larger(longest, t.v[1]), t.v[Len(t.v)]) - t.v[1] + 1
        /\ \E i \in 1..(n - longest + 1) : \A k \in i..(i + longest - 1) : bits[k] = 1
        /\ \A i \in 1..(n - longest) : \E k \in i..(i + longest) : bits[k] = 0
        /\ walk.forward >= 1 /\ walk.reverse >= 1
        /\ walk.reverse = Excursions(Reverse(bits)).forward
        /\ \A k \in Sum1Terms(n, walk.forward) : -k \in Sum1Terms(n, walk.forward)
        /\ \A k \in Sum2Terms(n, walk.forward) : -1 - k \in Sum2Terms(n, walk.forward)
        /\ SerialCountsAgree
        /\ BlockFrequencyReads(n) <= n /\ LongestRunReads(n) <= n

=============================================================================
