# Quantum Entropy Service: TLA+ models and proofs

This directory holds the TLA+ specifications of the service under `src/`: what
they model, what TLC checks about them on small instances, and what TLAPS proves
about them for every value of their constants.  All definitions are translated
from the Go code; `PROJECT.json` names the lines each of them stands for.

## 1. The system

Two processes.  **quantum-api** proxies a quantum random number device
(`internal/quantum`).  **keymanager** keeps a pool of entropy records in an
in-memory SQLite database, refills it from quantum-api, consumes it to generate
and export RSA keys, audits it, and publishes events to RabbitMQ.

| component | state | operations | talks to |
|---|---|---|---|
| refill batch, `collector/scheduler.go` `runRefillBatch` | jobs and results channels, the atomic `failCount`, a WaitGroup | producer, 4 workers, closer, collecting goroutine | quantum-api (`fetch`), the store (`SaveEntropy`), `stopChan` |
| scheduler, `collector/scheduler.go` | `stopChan`, one-slot `refillChan`, ticker, the local `count` and `failures` of a refill | `run`, `collectEntropy`, `TriggerRefill`, `Stop`, `publishPoolOk` | the store, the refill batch, the publisher |
| key manager, `keymanager/service.go` | RSA keys (in the store), the lazily derived master key | `GenerateKey`, `ExportPrivateKey`, `DeleteKey`, `DeleteAllKeys`, `checkPoolStatus` | the store, the scheduler (callback `OnPoolLow`), the publisher |
| repository, `keymanager/repository.go` | tables of records and keys | save, count, consume (a transaction), find, delete | SQLite |
| AMQP connection, `messaging/connection.go`, `consumer.go` | `session`, `channel`, `topologyDeclared`, the negative cache, all under `c.mu` | `Channel`, `Close`, `declareTopology` | the broker |
| publisher, `messaging/publisher.go` | none | `Publish` | the connection |
| consumer, `messaging/consumer.go` | a goroutine per queue | `Consume` | the connection; no production caller |
| audit and lab suites, `audit/` | none | `RunFullAudit`, `RunSuites`, `runFanIn`, validators | the store, the publisher |
| quantum-api, `quantum/`, `cmd/quantum-api` | a semaphore of 4 slots | `FetchRandomBytes`, `GetEntropyAsBase64`, graceful shutdown | the device |
| HTTP handlers, middleware, UI | none | parse, call a service, render | the services |

The behaviours that are hard:

- goroutines and channels inside one refill: who closes what, who can block,
  what a failure counter read too early allows, what `Stop` leaves behind;
- a refill that counts the pool once and then works with its own sum, while HTTP
  requests consume from the pool;
- wake-ups that are coalesced into a one-slot channel;
- operations that fail after they have consumed entropy;
- an AMQP connection that holds a mutex over round trips, whose session and
  channel die separately, and which `Close` takes apart without the mutex;
- a topology flag that speaks of a channel that may have been replaced;
- a negative cache that throttles reconnects and must never block recovery;
- a fan-in whose goroutines are outside the recovery middleware, whose results
  arrive in any order and are reported in one;
- an audit that announces its start and its end, and may end early in between:
  an empty pool, a store that fails, a sample of no bytes, a panic;
- integer loops of the statistical tests that are right or wrong only on samples
  of particular lengths (truncating division, circular continuation, blocks);
- a semaphore on which requests queue without a deadline, and a shutdown whose
  own deadline is shorter than a request may take, racing the server's failure.

`PROJECT.json` lists these as hazards, each at its line, with the properties that
cover it.

What makes each component correct: the batch never sends on a closed channel,
ends in every interleaving, and returns with nothing left running; the pool exceeds
its high watermark by no more than the rounding of a fetch and what the API sends
unasked, a signal that it is low is lost to a failed count only, and it recovers
without any signal; the connection leaks no session, serves only channels on which the
topology was declared, replaces dead channels and never lets a wedged broker
block publishers through `Close`; no record of entropy is handed out twice and no
failed transaction costs any; the events about keys agree with the keys; a report
is about the bytes that were in the pool, complete and in order, and has its two
events; at most four requests are at the device and none waits for ever; every
signal ends quantum-api, with exit code 0 only if nothing was cut off.

## 2. Modules

| module | models | lines |
|---|---|---|
| `BatchContract` | the abstract specification: what one `runRefillBatch` promises | scheduler.go 146-268 |
| `RefillBatch` | the goroutines of `runRefillBatch` | scheduler.go 146-294 |
| `EntropyPool` | the scheduler, the pool, the key operations that consume; uses the actions of `BatchContract` for the running batch | scheduler.go, service.go, repository.go |
| `Connection` | `Channel`, `Close`, the publishers and the broker's faults | connection.go, consumer.go 92-135, publisher.go |
| `AtomicPool` | the abstract specification: what the entropy store promises | repository.go 24-60 |
| `EntropyStore` | the transactions on the entropy table under the database's locks | repository.go 24-60 |
| `KeyLifecycle` | the key table, the requests on it and the events about keys | service.go 80-218, repository.go 64-94 |
| `FanIn` | one call of `runFanIn` | suites.go 259-286 |
| `Validators` | what the statistical tests count, as operators | validators/, service.go 163-168 |
| `Lab` | `RunFullAudit` and `RunSuites` with their handlers; extends `FanIn` and `Validators` | suites.go, service.go, handler.go of audit/, ui/handler.go 196-262, recovery.go |
| `QuantumApi` | the quantum-api process: handler, LfD client, mixing, shutdown | quantum/, cmd/quantum-api/main.go |
| `MC<module>` | the instance of that module that TLC checks | |
| `<module>Proofs` | theorems and proofs about that module | |
| `Induction` | lemmas about induction, recursion and folds, for the proofs about `Lab`, `Validators` and `QuantumApi` | |

`RefillBatch` implements `BatchContract` (property `ImplementsContract`, checked
and proved), and `EntropyPool` is composed with `BatchContract` in place of the
goroutines: the fan-out is verified once, and the pool against its contract.
Likewise `EntropyStore` implements `AtomicPool`, which justifies the single step
by which `EntropyPool` and `KeyLifecycle` consume entropy.

Definitions that start with `Mutant` are versions of a definition as a plausible
bug would leave it.  Nothing uses them; replacing the definition by the mutant
breaks the property that `PROJECT.json` pairs with it.

### RefillBatch

`prod` is the producer's position: before the loop test (`load`), blocked in its
select (`offer`), or returned (`done`, which is also when the deferred
`close(jobs)` has run).  `wpc` is each worker's: ranging over jobs, about to poll
`stopChan`, fetching, about to send, sleeping `retryDelay`, exited.  `results` is
the buffered channel, `collector` the calling goroutine, `chunk` the records that
`saveRecords` still has to save.  A fetch is its outcome: an error, or data that
split into `0..LargestAnswer` records.  Nobody checks the length of an answer:
neither the device's client (client_lfd.go:73-82) nor `fetch` nor `saveRecords`, so it
may be shorter or longer than was asked for, and base64 of line breaks alone is not
an error but no data.  `LargestAnswer` is a bound of the model, any number.  `begun`
and `folded` are history variables.

### EntropyPool

`unused` is the number of unused records: `SaveEntropy` and `ConsumeEntropy` are
each a single transaction of the store and one step here.  `sched` is the
scheduler goroutine: in its select, about to count, at the loop test, in a batch,
about to announce `pool.ok`, exited.  A request consumes, then completes (and
goes on to `checkPoolStatus`) or aborts (RSA generation, wrapping, or `SaveKey`
with a duplicate alias fails).  An answer of the API has the records that were asked
for (`BatchProceeds`), or any other number up to `LargestAnswer` (`BatchMissized`),
which counts as a fault of the world outside, like a failed fetch.  The locals of
`collectEntropy`, `count` and `failures`, are 0 while it does not run.
`main.go` opens an in-memory database, so the pool starts empty.

The history variables say what the properties speak of: `dipped`, that the pool has
been below the low watermark since the last `pool.ok`; `reached`, that it has been at
the high one during this refill; `surplus`, how many records of the last refill were
not asked for; `unanswered`, that a signal was sent and the pool has not been counted
since; `missed`, that the count which that signal woke has failed, and no other signal
was waiting.

### Connection

A caller is at the label of the round trip it is about to make, with `c.mu` held
from `check` to `topology`.  `alive` are the sessions that are not `IsClosed()`,
`open` those on which `Close()` has not been called (they hold a socket and a
goroutine), `carrier` maps a channel to the session it is open on.  Declarations
are counted: `Declarations` stands for the 24 round trips of `declareTopology` (5
exchanges, the dead letter exchange, 9 queues each declared and bound).  The
broker may drop a session, close a channel, and fail any round trip, `MaxFaults`
times.  The negative cache is one bit; `WindowElapses` is the passing of
`reconnectDelay`.  Session and channel identities are used again once they are
closed and nobody refers to them; the instances have enough of them, which TLC
shows by never finding a dial or an open that is stuck.

### EntropyStore

Records have identities.  `ConsumeEntropy` is a transaction of two statements: it
selects unused records (`selected`) and marks them (`marked`), then commits or is
rolled back.  Nothing in the Go code keeps a second transaction from selecting the
same records in between; the database does, because it is opened with
`cache=shared`: a transaction holds the lock of a table it has read or written
until it ends, and a conflicting statement fails at once.  These two rules are
the external part of the model (`Readers`, `WriterActive`, `MayRead`,
`MayWrite`).  A deletion of the lock on what was read (`MutantReaders`) lets two
operations have the same records.  The refinement takes a record out of the pool
when the transaction commits: rows that are marked but not committed are still
`avail`.

### KeyLifecycle

A request is at the statement or call it is about to make; `held` is what it has
read or saved.  Ids come from SQLite's AUTOINCREMENT and are never used again, so
an id stands for the key; `Live` are the rows of the table.  A `DeleteAllKeys`
that has its list is at `wipe`.  `late` is a history variable.  Granting entropy
and `checkPoolStatus` are left to `EntropyPool`; a call of `Publish` is the event.

### FanIn

`fns` are the closures of the running call, each as what it returns; `worker` is
each goroutine's position, `ch` the buffered channel of indexed groups, `groups`
the slice that the caller fills, `caller` the ranging goroutine.  `closed` is
`close(ch)` by the goroutine that waits for all others.  A closure computes
without touching anything shared, so running it and sending is one step, and the
deferred `wg.Done()` another.

### Lab

One request at a time.  A request reads the pool in a single statement and from
then on shares nothing with others except the publisher, which `Connection` models; its
own goroutines are the concurrency.  The pool is any pool, chosen when it is
read; a row is its bytes, and a row that does not decode is the empty one.
`Gather`, `Cut` and the guards on the size are `getQuantumSample`: a negative
size panics in the slice expression and the recovery middleware answers.  A store
that fails (`FindFails`) gives the same answer as an empty pool (`FindNoRows`), which
is what the code does, but leaves its rows and the failure in the history variables
`rows` and `readFailed`.  The
audit asks its three sources in turn (`AuditSources`), a lab suite uses the
fan-in once per source.  A metric is its name, its source and the size of the
sample it was computed on; values, verdicts and the mark "indicative" are left
out.

### Validators

Operators on sequences of bytes and bits, written as the Go loops are, up to the
point where the integers turn into floating point.  `Quot` is Go's division.  Of
`serialPsi2` that is the sum of squares (`SquareSum`): psi^2 and its differences are
float64 in the code and have no counterpart here.

### QuantumApi

`client` is where each client's request is, or how its last one ended.  The
semaphore is a Go channel: `slots` are its elements and `waiters` the goroutines
blocked in the send, first come first served; a receive from a full channel takes
the first waiter's element in the same step (`LeaveDevice`).  Whether the answer is mixed
is decided when it has arrived, so that a request needs no mode before.  The
keystream consists of pads, each named by its counter and place: SHA-256 is
external and taken to give different blocks for different counters.  `main`,
`server`, `quit` and `srvErr` are the two goroutines of `main.go` and its two
one-slot channels; `stopping` is that `Shutdown` has been called, which closes the
listener.  There is no clock: the 10 seconds of the shutdown (`Deadline`) and the 30
of the HTTP client (`FetchFails`) end when they end, in either order.  The details
of net/http (connections, keep-alive) are external.  After `Exit` nothing moves.

## 3. Runs

| run | instance | distinct states | shows |
|---|---|---|---|
| `refill_batch` | 2 workers, up to 5 fetches, cap 1, answers of 0 to 2 records | 198,560 | safety of the channels, the overshoot of the cap, `ImplementsContract`, `Terminates` |
| `entropy_pool` | 2 clients, watermarks 2 and 3, 2 operations of 2 records, 2 records per fetch, answers of 0 to 3, 5 faults | 407,938 | the pool against the stale local count and answers of any length, hysteresis, how a signal may be lost, recovery, stop |
| `connection` | 2 publishers, 1 closer, 3 sessions, 4 channels, 3 faults | 743,009 | ownership of sessions, the topology flag, served channels, the throttle |
| `connection_live` | the same with 1 declaration, 2 faults | 214,212 | calls return, dead channels are replaced |
| `entropy_store` | 3 requests, 5 records, amounts 1 and 2, symmetric | 452 | no record twice, none lost, `ImplementsAtomicPool` |
| `key_lifecycle` | 3 requests, 2 keys, 2 aliases | 249,229 | the events against the table, in every overlap |
| `lab` | 1 request at a time, pools of up to two rows of up to two bytes and two of 16 bytes, sizes -1, 0, 1, one registered suite and one that is not, a store that may fail | 295,795 | sends and closes of the fan-in, truth and order of reports, events, the validators' counts, `Answered` |
| `quantum_api` | 4 clients, 2 places, blocks of 2 bytes, answers of 2 and 5 | 62,128 | the semaphore, the masks, exit codes, `AllAnswered`, `SignalStops` |
| `find_silent_removal` | as `key_lifecycle` | violated | see Findings |
| `find_pool_ok` | as `entropy_pool`, operations of 2 and of 1 record, no faults | violated | see Findings |
| `find_low_unsignalled` | as `entropy_pool`, operations of 2 and of 1 record, no faults | violated | see Findings |
| `find_pool_capped` | as `entropy_pool`, operations of 2 and of 1 record, no faults | violated | see Findings |

Why the bounds are enough: two workers and a buffer of two already give every
order of hand-off, failure, send and stop, with a worker blocked on a full
buffer while the other one fails; five fetches let the breaker trip before and
after the producer's last look.  Watermarks 2 and 3 with chunks of 2 give a
rounded-up last fetch, and two operations of 2 records land before, during and
after a refill, and in it between two of its records.  An answer may be empty, short or
one record too long, so that a batch of it leaves the pool below, at or above what the
local sum was to become.  Five faults exceed what ends a
refill (cap 2 plus one worker), so a refill gives up and the next one succeeds; fewer
failures leave faults for answers of other lengths and failed counts around them.  The
three runs of findings need no fault at all, and have none: what they show is not the
world's doing.
Three faults on a connection give, for example, a dead session, a failed open on
the new one and a broken channel after recovery, around one `Close`.  Three
requests on five records overlap pairwise on a record while a third one scans, and
consume again what a rollback has returned.  Three requests and two keys give a
generation that overlaps a `DeleteAllKeys` and a `DeleteKey` at every statement.
The suite `structure` has four closures, one of which returns two metrics: 4
goroutines, a closer and a receiver in every order; that the longer suites (5 and
7 closures) behave likewise is what `FanInReturnsInOrder` and `SuitesAreComplete` prove.
The pools are small because the validators are evaluated on each sample;
`StatisticsAreConsistent` and `ReportsAreFaithful` prove the same for all others.
Four byte values and up to two of them give walks, runs and ties of every kind on
8 and 16 bits.  A sample of 16 bytes (`DefaultSize`) is the shortest that reaches
the second block length of the block frequency test, the first tier of the
longest run test, and patterns of 4 bits in the serial test; `MCLab` has a mixed one,
cut out of two rows, and one of ones only.  Two of four clients queue while two
are at the device; an answer of 5 bytes takes two and a half keystream blocks, one of 2
exactly one.

Deadlock is checked except in `MCEntropyPool`, where the scheduler may have been
stopped and the operations be used up, and in `MCQuantumApi`, where the process
ends.  `RefillBatch` ends in `Terminated`,
which may stutter.

### Fairness

- `RefillBatch`: every goroutine keeps running; `fetch` returns because the HTTP
  client has a timeout of 30 s.  Nobody has to call `Stop`.
- `EntropyPool`: the ticker ticks, the scheduler and begun requests keep running.
  Go's select chooses at random among ready cases, hence strong fairness of
  `Exit`: a closed `stopChan` is taken sooner or later.  Operations need not
  start.
- `Connection`: `sync.Mutex` starves nobody (strong fairness of `Lock` and
  `Steal`); the round trips of `Channel()` are answered or fail (dial timeout and
  heartbeat of the AMQP client); time passes.  Nothing is assumed of the
  handshakes of `Close`, which have no timeout, and nobody has to call.
  `Recovers` is conditional on callers that keep calling, as the code is
  ("Retry comes for free from the callers", connection.go:151).
- `KeyLifecycle`: a request that has begun goes on, as each has a goroutine of its
  own; nobody has to send one.  `EntropyStore` needs no fairness, its properties
  are safety.
- `Lab`: the goroutines of a request keep running; requests need not come.
- `QuantumApi`: the device answers or the HTTP client gives up after 30 s, and the
  server and main goroutines keep running.  Nobody has to send requests or
  signals, and neither the server nor the deadline has to fail.

### Findings

Four statements of comments and documentation that the code does not keep; each
is a run that TLC finds violated.

1. `PoolOkOnlyWhenReached`: scheduler.go:132 "we only announce a state we actually
   reached".  `pool.ok` is decided on the local sum (line 134); records that
   requests consume during the refill are not subtracted, so the pool may never have
   been at the high watermark during the refill that announces it.  In the trace, with
   the watermark at 3, the refill saves two records, a request takes both, the refill
   saves two more: the sum is 4, and the pool has been at 2 at most.  (A pool that was
   at the mark and is not any more when `pool.ok` is published does not count.)  What
   does hold is `LocalCountDrift`: sum and pool differ by consumption and by nothing
   else.
2. `LowPoolIsSignalled`: docs/PROJECT_DOCUMENTATION.md:439 says that a key
   operation that leaves the pool below 200 publishes `pool.low`.  An operation
   that fails after it consumed (a duplicate alias: service.go:127) returns
   without `checkPoolStatus`.  What does hold is `LowPoolRecovers`: the ticker
   refills the pool anyway.
3. `PoolCapped`: docs/PROGRESS_STATUS.md:315 says that the pool never passes 1000.
   The last fetch is rounded up to a whole chunk (scheduler.go:116): from 199
   records, 201 fetches of 4 records end at 1003.  What does hold is
   `NeverOverfills`: at most `RecordsPerFetch - 1` more than the high watermark, if the
   API sends no more than it is asked for, and otherwise what it sends too much on top.

4. `EveryRemovalAnnounced`: service.go:190 says that `DeleteAllKeys` publishes a
   `key.deleted` event per removed key.  It lists the keys in one statement and
   deletes every row in another; a key saved in between is deleted without an
   event.  What does hold is `RemovalsAnnounced`: no other key is.

Smaller remarks, not runs.

- scheduler.go:126 and PROJECT_DOCUMENTATION.md:547 speak of consecutive failures,
  but the failures of a refill are added up, successes in between or not.
- The comment "stop signal: nothing happened" (scheduler.go:121) is also reached by
  a batch in which the store refused every record or every answer was without data.
- A `TriggerRefill` that wakes the scheduler for a count that fails is used up
  (scheduler.go:103-107): the pool stays low until another signal or the next tick.
  `TriggerNotLost` says that this is the only way to lose one.
- connection.go:143-145 says that a reopen that finds the session dying takes the
  full dial path on the next call; the failed attempt fills the negative cache, so
  that calls are refused for the rest of the window first.
- `ErrNoQuantumData` is "returned when the entropy pool holds no unused quantum data"
  (audit/service.go:18-19).  It is also the answer to a request for zero bytes from a
  filled pool, and to any request when the store fails to read a filled pool
  (service.go:56-58, 125-128, suites.go:121-125): the user is told to wait
  for the pool to fill.  `ReportFaithful` names both cases.
- The second difference of psi^2 is formed in float64 (nist.go:184, 215).  Where it is
  exactly 0 it can come out slightly negative, as 20 - 2 * 13.2 + 6.4 does for a sample of
  40 bits whose square sums are 300, 532 and 928, and `igamc` then gives NaN.  The
  comment at nist.go:169 explains a NaN by a statistic that "cannot be computed"; this
  one could be.
- validators_test.go:109 says "an all-zero walk never leaves zero, so p is exactly 0".
  A walk over zeros takes a step down for each of them; no walk over a non-empty sample
  stays at zero (`walk.forward >= 1` in `StatisticsAgree`, proved in `ExcursionsAgree`).
  The p-value of that test is 0 because the excursion is the largest possible; the
  case that the comment has in mind, `z <= 0`, is never reached.
- The pattern length of `NISTSerial` is the largest that fits (nist.go:165-166), but
  3 when none does, as on samples of less than 6 bytes.
- Nothing reads `LFD_API_URL`, which PROJECT_DOCUMENTATION.md:789 documents.
- When the server fails and a signal arrives before main's select has run, either
  case may be taken: the failure is then neither logged nor in the exit code.  A
  second signal during the drain stays in the channel.

## 4. Proofs

Every theorem is proved from the assumptions the modules name: the constants are
natural numbers (positive where the code's are), the low watermark is not above
the high one, `LargestAnswer` is at least `RecordsPerFetch` (the API may send what it
is asked for; it is not bounded from above), workers are a finite non-empty set, and callers, closers and `NULL`
are different values.

- **RefillBatchProofs** (`TypeCorrect`, `BreakerHolds`, `NeverSendsOnClosed`,
  `CleanReturn`, `Implements`).  The invariant relates the positions of the
  goroutines to the counters: what has been begun is what is being fetched, what
  waits to be sent, what is in `results` and what has been folded, so that no
  outcome is lost or folded twice; `failCount` is the failures folded and those
  still on their way; results is closed only after all workers have exited.  The
  bound `MaxFailures + Cardinality(Workers)` needs the stronger statement that
  once the breaker has tripped, the fetches in flight and a job on offer are all
  that can still fail.  `Implements` maps each step to a step of the contract or to a
  stutter.
- **EntropyPoolProofs** (`TypeCorrect`, `PoolBounded`, `FailuresBounded`,
  `SignalKept`, `AnnouncedOncePerDip`, `CountDrift`).  `NeverOverfills` alone is
  not inductive: `RefillInv` adds that during a refill the pool is at most what
  the scheduler believes, and `RoomInv` that the belief, plus the answer being saved,
  plus the fetches not yet folded, each as long as was asked for, stays within the bound
  but for the surplus.  So an answer that is too long shifts the bound by what it has
  too much, and one that is short only leaves room.  `DipInv` says that a refill only
  runs in a dip.  `TriggerNotLost` is inductive as it stands.
- **ConnectionProofs** (`TypeCorrect`, `NoSessionLeaks`, `FlagNeverStale`,
  `ServedWithTopology`, `OneAttempt`).  `MutexInv` says who is inside `c.mu`;
  `SessionInv` turns ownership into an injective function from goroutines to
  sessions that every step leaves alone, extends, cuts or passes on, and says that
  a caller that dials does so over a dead session; `TopologyInv` and `HandleInv`
  say that a served channel is complete and is never declared on again, so a
  failed declaration cannot hurt a publisher; `WindowInv` that who is about to try
  has found the cache empty.

- **EntropyStoreProofs** (`TypeCorrect`, `NoEntropyLost`, `Implements`).  `LockInv`
  says that who writes has the table to itself, `PickInv` that what a transaction
  has selected is still unused when it marks it; together they make each commit
  an atomic `Take` and every other step a stutter, except the end of an insert.
- **KeyLifecycleProofs** (`TypeCorrect`, `LiveKeysAreAnnounced`,
  `RemovalsAreAnnounced`).  The two properties are nearly inductive; `WipeKnows`
  adds that a `DeleteAllKeys` between its statements has every row on its list but
  the late ones.
- **LabProofs** (`SendsBeforeClose`, `FanInReturnsInOrder`, `SuitesAreComplete`,
  `EventsAreTrue`, `TypeCorrect`, `ReportsAreFaithful`, `StatisticsAreConsistent`).
  `FanInv` says where each closure's group is: once its goroutine has sent, either in
  the channel, and nowhere else, or in its place in `groups`; so an empty closed
  channel means that the places hold everything.  `SuiteInv` says that the results are
  the expected ones of the first sources and that a running call is that of the
  next; `EventInv` which events each position has behind it.  `SampleInv` follows the
  sample: from the moment it is taken until the report it is not empty and is the
  start of the rows that were in the pool (`GatherGathers`: the loop over the rows
  never has anything else than a start of them, and stops with enough).  They hold for
  every number of closures, every pool and every size.
- **LabProofs**, about the validators, for samples of every length: `BlocksInside`,
  `TermsPair`, `RunsAndAgreements`, `ByteCountsAgree`, `OnesAgree`, `LongestRunFound`,
  `BinsAreNearest`, `ExcursionsAgree`, `SerialCountsConsistent`; together they give
  `StatisticsAreConsistent`.  See below.
- **QuantumApiProofs** (`TypeCorrect`, `SemaphoreCounts`, `ExitsClean`,
  `EveryByteMasked`).  `SlotsMatch` is inductive with the types; the work is in the
  handover of a place, where one request leaves the device and the head of the queue
  enters it, so that the cardinality stays.  `MainKnows` says what main has seen when it
  drains, waits and exits.  `EveryByteMasked` is an induction over the turns of the
  keystream's loop: a turn appends pads of its own counter only, at least one while
  bytes are missing and never more than are missing, so that the stream is as long as
  the answer and no pad occurs twice in it.

### Induction over data

The induction theorems of the TLAPS library take an operator as a parameter, which the
provers used here cannot instantiate.  `Induction` states what is needed for sets and
functions instead.  `SetInduction` takes a set of natural numbers without a least
missing element (`WFMin`, for which `<` is well-founded by `NatLessThanWellFounded`);
`TypeInduction`, `Recursion`, `SubsetInduction` and `SetRecursion` follow from it.  A
recursive function of TLA+ is a CHOOSE, so before anything can be said of one it must be
shown to exist; `Recursion` does so for intervals and `SetRecursion` for the finite
subsets over which the folds of the community modules are defined.  `LeftPrefixes`
turns `FoldLeft` into what it is meant to be: the last of a sequence of states, each
one turn of the loop after the one before.

With that, each loop of the validators has an invariant in the usual sense, stated as
the set of states that it may be in after k bits, and one lemma that a turn keeps it:

- `Seen`: the walk holds the last, the greatest and the least partial sum.  The
  partial sums of the reversed bits are those of the bits, seen from the other end
  (`ReverseSums`), which exchanges the two excursions.
- `SeenRuns`: the current run reaches back exactly to the last zero, and the longest
  one is somewhere, and is nowhere exceeded.
- For the bytes, a byte is the sum of its bits and `Set(data, pos, i)` are the first i
  bytes that have the bit at `pos`; both sums grow by the same bits.
- The serial test.  The sum of the squares of the counts of l-bit patterns is the
  number of pairs of places at which the same pattern starts (`SquaresArePairs`,
  `PatternSquares`).  Read circularly, such pairs are split by whether the next bit
  agrees too, and those that disagree are not more than those that agree, because
  (u - v)^2 >= 0 for the zeros and ones behind each pattern (`AgreeingPairs`); this is
  `SamePairsHalve`, which is what makes the first difference of psi^2 not negative.
  The second is the same with the bits in front and behind together
  (`SamePairsBend`): for the shared middles, "both or neither agree" is not rarer than
  "one of them".  Both are statements about the integer sums; nothing is proved of the
  floats.

### Only model-checked

The liveness properties (`Terminates`, `LowPoolRecovers`, `StopEndsScheduler`,
`CallsReturn`, `Recovers`, `RemovalsGetAnnounced`, `Answered`, `AllAnswered`,
`SignalStops`): liveness under fairness is out of the prover's reach.  Every other
property of a passing run is proved.

## 5. Not modelled

- Payloads, JSON, base64, hex, HTML and logging; HTTP parsing and the status codes of
  the key routes, which call the service methods that `KeyLifecycle` models.
- The values of the statistics: p-values, `igamc`, entropies, z-scores, pi, serial
  correlation and the verdicts are floating point, and compression is gzip.  So are
  the two reference sources, whose seeds are random or the clock.
- AES-GCM, RSA, the master key and the XOR reader (keymanager/service.go:300-329):
  deterministic byte streams into libraries, without state that others share.
- `Consumer`: no production code calls `Consume` (consumer.go:64-66).  The topology
  that it would rely on is declared by `Channel()` and modelled in `Connection`.
- The start-up of `cmd/keymanager`: it connects the parts once, in a straight line.
  `Stop` and `Close` are deferred in its `main.go` but never reached (lines 41-46
  say so); the models let them happen at any time, as the tests do.
- A lost event changes no state, so publishing is the call of `Channel()` and no
  more.  A channel that dies between `Channel()` and its use costs that event.

What could still be added: overlapping audits composed with `EntropyStore` (an audit
reads records that a consumer is about to take, which the code permits), and the
answers of the key routes.
