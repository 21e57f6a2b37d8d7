---------------------------- MODULE EntropyStore ----------------------------
(***************************************************************************)
(* The entropy table (internal/keymanager/repository.go) under concurrent  *)
(* requests and the collector.  ConsumeEntropy is a deferred transaction   *)
(* that selects unused records and marks them in a second statement;       *)
(* nothing in the code excludes another transaction in between.  What      *)
(* excludes it is the database, opened with cache=shared (main.go:26):     *)
(*  - a transaction that has read a table holds a read lock on it, and one *)
(*    that has written it the write lock, until it ends;                   *)
(*  - a statement whose lock conflicts with the lock of another connection *)
(*    fails at once with "database table is locked" and does not wait.     *)
(* These two rules are modelled as they are used here.  A statement that   *)
(* fails before it has locked anything changes nothing and is no step.     *)
(***************************************************************************)
EXTENDS Naturals, FiniteSets

CONSTANTS
  Requests,   \* concurrent requests: key operations and audits
  Records,    \* bound: the records that are ever saved
  Amounts     \* what ConsumeEntropy is called with

ASSUME StoreAssumption ==
  /\ IsFiniteSet(Requests)
  /\ IsFiniteSet(Records)
  /\ Amounts \subseteq Nat \ {0}

VARIABLES
  unused,     \* the rows with used = false, as the current transactions leave them
  used,       \* the rows with used = true
  pc,         \* where each request's transaction is
  picked,     \* the records a transaction has selected
  inserting,  \* the row of the collector's open transaction, if any
  handed      \* history: the records ConsumeEntropy has returned

vars == <<unused, used, pc, picked, inserting, handed>>
rowVars == <<unused, used>>

Init ==
  /\ unused = {}
  /\ used = {}
  /\ pc = [r \in Requests |-> "idle"]
  /\ picked = [r \in Requests |-> {}]
  /\ inserting = {}
  /\ handed = {}

-----------------------------------------------------------------------------
(* The table locks of the shared cache.                                    *)

\* The select outside the transaction: its read lock is gone when the update runs.
MutantReaders == {r \in Requests : pc[r] \in {"scan", "marked"}}

Readers == {r \in Requests : pc[r] \in {"scan", "selected", "marked"}}

WriterActive == inserting # {} \/ \E r \in Requests : pc[r] = "marked"

MayRead == ~WriterActive

\* For the transaction of the requests in own; the collector reads nothing first.
MayWrite(own) == ~WriterActive /\ Readers \subseteq own

-----------------------------------------------------------------------------
(* ConsumeEntropy                                                          *)

Goto(r, step, S) ==
  /\ pc' = [pc EXCEPT ![r] = step]
  /\ picked' = [picked EXCEPT ![r] = S]

\* LIMIT without ORDER BY: any n unused records.  With fewer than n of them the
\* transaction ends in an error and has changed nothing.
Select(r, n) ==
  /\ pc[r] = "idle"
  /\ MayRead
  /\ \E S \in SUBSET unused : Cardinality(S) = n /\ Goto(r, "selected", S)
  /\ UNCHANGED <<rowVars, inserting, handed>>

MarkUsed(r) ==
  /\ pc[r] = "selected"
  /\ MayWrite({r})
  /\ unused' = unused \ picked[r]
  /\ used' = used \cup picked[r]
  /\ Goto(r, "marked", picked[r])
  /\ UNCHANGED <<inserting, handed>>

\* The update fails, on a lock of another connection for example.
MarkFails(r) ==
  /\ pc[r] = "selected"
  /\ Goto(r, "idle", {})
  /\ UNCHANGED <<rowVars, inserting, handed>>

Commit(r) ==
  /\ pc[r] = "marked"
  /\ handed' = handed \cup picked[r]
  /\ Goto(r, "idle", {})
  /\ UNCHANGED <<rowVars, inserting>>

\* The update without a transaction around it: nothing is rolled back.
MutantCommitFails(r) ==
  /\ pc[r] = "marked"
  /\ Goto(r, "idle", {})
  /\ UNCHANGED <<rowVars, inserting, handed>>

\* The transaction is rolled back, and ConsumeEntropy reports the error.
CommitFails(r) ==
  /\ pc[r] = "marked"
  /\ unused' = unused \cup picked[r]
  /\ used' = used \ picked[r]
  /\ Goto(r, "idle", {})
  /\ UNCHANGED <<inserting, handed>>

-----------------------------------------------------------------------------
(* FindAllUnusedBySource of an audit, and the inserts of the collector.    *)

BeginScan(r) ==
  /\ pc[r] = "idle"
  /\ MayRead
  /\ Goto(r, "scan", {})
  /\ UNCHANGED <<rowVars, inserting, handed>>

EndScan(r) ==
  /\ pc[r] = "scan"
  /\ Goto(r, "idle", {})
  /\ UNCHANGED <<rowVars, inserting, handed>>

SaveEntropy(x) ==
  /\ MayWrite({})
  /\ x \notin unused \cup used
  /\ unused' = unused \cup {x}
  /\ inserting' = {x}
  /\ UNCHANGED <<used, pc, picked, handed>>

SaveCommits ==
  /\ inserting # {}
  /\ inserting' = {}
  /\ UNCHANGED <<rowVars, pc, picked, handed>>

\* A failed insert is rolled back, and its key handed on.
MutantSaveFails ==
  /\ inserting # {}
  /\ unused' = unused \ inserting
  /\ UNCHANGED <<used, inserting, pc, picked, handed>>

SaveFails ==
  /\ inserting # {}
  /\ unused' = unused \ inserting
  /\ inserting' = {}
  /\ UNCHANGED <<used, pc, picked, handed>>

-----------------------------------------------------------------------------

RequestStep(r) ==
  \/ \E n \in Amounts : Select(r, n)
  \/ MarkUsed(r)
  \/ MarkFails(r)
  \/ Commit(r)
  \/ CommitFails(r)
  \/ BeginScan(r)
  \/ EndScan(r)

CollectorStep ==
  \/ \E x \in Records : SaveEntropy(x)
  \/ SaveCommits
  \/ SaveFails

Next == CollectorStep \/ \E r \in Requests : RequestStep(r)

Spec == Init /\ [][Next]_vars

-----------------------------------------------------------------------------
(* Properties                                                              *)

\* The variables have their types.
TypeOK ==
  /\ unused \subseteq Records
  /\ used \subseteq Records
  /\ pc \in [Requests -> {"idle", "scan", "selected", "marked"}]
  /\ picked \in [Requests -> SUBSET Records]
  /\ inserting \subseteq unused
  /\ handed \subseteq Records

\* The records of transactions that have updated and not yet committed.
Marked == UNION {picked[r] : r \in {q \in Requests : pc[q] = "marked"}}

\* A record is used up exactly when an operation has received it or is about to:
\* no refused update and no rollback costs entropy (repository.go:46-58).
NothingLost == used = handed \cup Marked

\* What an operation may get: as many records as it asks for.
Portions == {S \in SUBSET Records : Cardinality(S) \in Amounts}

Atomic == INSTANCE AtomicPool WITH
  avail <- (unused \ inserting) \cup Marked,
  given <- handed

\* Seen from outside, a request takes its records at one instant, when it commits,
\* and nobody took any of them before (repository.go:43, "atomically").
ImplementsAtomicPool == Atomic!PoolSpec

=============================================================================
