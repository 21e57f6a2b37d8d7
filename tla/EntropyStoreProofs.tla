------------------------- MODULE EntropyStoreProofs -------------------------
(***************************************************************************)
(* The two-statement transaction of ConsumeEntropy implements an atomic    *)
(* pool, for any number of requests, records and amounts.                  *)
(***************************************************************************)
EXTENDS EntropyStore, TLAPS

-----------------------------------------------------------------------------
(* The invariant.                                                          *)

\* A row is used or not, and at most one row is being inserted.
RowsInv ==
  /\ unused \cap used = {}
  /\ inserting = {} \/ \E x \in unused : inserting = {x}

\* Who writes has the table to itself.
LockInv ==
  /\ inserting # {} => Readers = {}
  /\ \A r \in Requests : pc[r] = "marked" => Readers = {r}

\* What a transaction has selected is still there when it marks it.
PickInv ==
  \A r \in Requests :
    /\ pc[r] \in {"idle", "scan"} => picked[r] = {}
    /\ pc[r] \in {"selected", "marked"} => Cardinality(picked[r]) \in Amounts
    /\ pc[r] = "selected" => picked[r] \subseteq unused
    /\ pc[r] = "marked" => picked[r] \subseteq used /\ picked[r] \cap handed = {}

IInv == TypeOK /\ RowsInv /\ LockInv /\ PickInv /\ NothingLost

LEMMA NobodyMarked ==
  ASSUME \A r \in Requests : pc[r] # "marked"
  PROVE  Marked = {}
BY DEF Marked

LEMMA OneMarked ==
  ASSUME LockInv, NEW r \in Requests, pc[r] = "marked"
  PROVE  /\ Marked = picked[r] /\ inserting = {}
         /\ \A q \in Requests \ {r} : pc[q] = "idle" \/ pc[q] \notin {"scan", "selected", "marked"}
<1>1. Readers = {r}
  BY DEF LockInv
<1>2. \A q \in Requests : pc[q] = "marked" => q = r
  BY <1>1 DEF Readers
<1>3. {q \in Requests : pc[q] = "marked"} = {r}
  BY <1>2
<1>4. Marked = picked[r]
  BY <1>3 DEF Marked
<1> QED BY <1>1, <1>4 DEF LockInv, Readers

LEMMA GotoEffect ==
  ASSUME TypeOK, NEW r \in Requests, NEW S \in SUBSET Records,
         NEW s \in {"idle", "scan", "selected", "marked"}, Goto(r, s, S)
  PROVE  /\ pc'[r] = s /\ picked'[r] = S
         /\ \A q \in Requests \ {r} : pc'[q] = pc[q] /\ picked'[q] = picked[q]
         /\ pc' \in [Requests -> {"idle", "scan", "selected", "marked"}]
         /\ picked' \in [Requests -> SUBSET Records]
BY DEF TypeOK, Goto

LEMMA InitStore == Init => IInv
<1> SUFFICES ASSUME Init PROVE IInv
  OBVIOUS
<1>1. Marked = {}
  BY NobodyMarked DEF Init
<1> QED BY <1>1 DEF Init, IInv, TypeOK, RowsInv, LockInv, PickInv, NothingLost, Readers

-----------------------------------------------------------------------------
(* The steps of a transaction.                                             *)

\* The avail of the refinement.
Avail == (unused \ inserting) \cup Marked

\* What a step leaves behind, and how it looks from outside.
Keeps == IInv' /\ Avail' = Avail /\ handed' = handed

\* A transaction that begins to read: it may read because nobody writes.
LEMMA ReadKeeps ==
  ASSUME IInv, NEW r \in Requests,
         BeginScan(r) \/ \E n \in Amounts : Select(r, n)
  PROVE  Keeps
<1> USE DEF IInv, rowVars
<1>1. PICK s \in {"scan", "selected"}, S \in SUBSET unused :
        /\ Goto(r, s, S)
        /\ s = "scan" => S = {}
        /\ s = "selected" => Cardinality(S) \in Amounts
  BY DEF BeginScan, Select
<1>2. /\ pc[r] = "idle" /\ inserting = {} /\ \A q \in Requests : pc[q] # "marked"
      /\ UNCHANGED <<unused, used, inserting, handed>>
  BY DEF BeginScan, Select, MayRead, WriterActive
<1>3. S \in SUBSET Records
  BY DEF TypeOK
<1>4. /\ pc'[r] = s /\ picked'[r] = S
      /\ \A q \in Requests \ {r} : pc'[q] = pc[q] /\ picked'[q] = picked[q]
      /\ pc' \in [Requests -> {"idle", "scan", "selected", "marked"}]
      /\ picked' \in [Requests -> SUBSET Records]
  BY <1>1, <1>3, GotoEffect
<1>5. \A q \in Requests : pc'[q] # "marked"
  BY <1>2, <1>4
<1>6. Marked = {} /\ Marked' = {}
  BY <1>2, <1>5, NobodyMarked DEF Marked
<1>7. TypeOK' /\ RowsInv' /\ LockInv' /\ NothingLost'
  BY <1>2, <1>4, <1>5, <1>6 DEF TypeOK, RowsInv, LockInv, NothingLost
<1>8. PickInv'
  BY <1>1, <1>2, <1>4, <1>5 DEF PickInv
<1> QED BY <1>2, <1>6, <1>7, <1>8 DEF Keeps, Avail

\* A transaction that ends without having written.
LEMMA LetGoKeeps ==
  ASSUME IInv, NEW r \in Requests, MarkFails(r) \/ EndScan(r)
  PROVE  Keeps
<1> USE DEF IInv, rowVars
<1>1. /\ Goto(r, "idle", {}) /\ pc[r] \in {"selected", "scan"}
      /\ UNCHANGED <<unused, used, inserting, handed>>
  BY DEF MarkFails, EndScan
<1>2. /\ pc'[r] = "idle" /\ picked'[r] = {}
      /\ \A q \in Requests \ {r} : pc'[q] = pc[q] /\ picked'[q] = picked[q]
      /\ pc' \in [Requests -> {"idle", "scan", "selected", "marked"}]
      /\ picked' \in [Requests -> SUBSET Records]
  BY <1>1, GotoEffect
<1>3. \A q \in Requests : pc[q] # "marked"
  BY <1>1 DEF LockInv, Readers
<1>4. \A q \in Requests : pc'[q] # "marked"
  BY <1>2, <1>3
<1>5. Marked = {} /\ Marked' = {}
  BY <1>3, <1>4, NobodyMarked DEF Marked
<1>6. inserting = {}
  BY <1>1 DEF LockInv, Readers
<1>7. TypeOK' /\ RowsInv' /\ LockInv' /\ NothingLost'
  BY <1>1, <1>2, <1>4, <1>5, <1>6 DEF TypeOK, RowsInv, LockInv, NothingLost
<1>8. PickInv'
  BY <1>1, <1>2, <1>4 DEF PickInv
<1> QED BY <1>1, <1>5, <1>7, <1>8 DEF Keeps, Avail

\* The update: nobody else reads, so what was selected is only this transaction's.
LEMMA MarkKeeps ==
  ASSUME IInv, NEW r \in Requests, MarkUsed(r)
  PROVE  Keeps
<1> USE DEF IInv
<1>1. /\ Goto(r, "marked", picked[r]) /\ pc[r] = "selected"
      /\ unused' = unused \ picked[r] /\ used' = used \cup picked[r]
      /\ inserting = {} /\ inserting' = {} /\ handed' = handed
      /\ Readers \subseteq {r} /\ \A q \in Requests : pc[q] # "marked"
      /\ picked[r] \in SUBSET unused /\ picked[r] \in SUBSET Records
      /\ Cardinality(picked[r]) \in Amounts
  BY DEF MarkUsed, MayWrite, WriterActive, PickInv, TypeOK
<1>2. /\ pc'[r] = "marked" /\ picked'[r] = picked[r]
      /\ \A q \in Requests \ {r} : pc'[q] = pc[q] /\ picked'[q] = picked[q]
      /\ pc' \in [Requests -> {"idle", "scan", "selected", "marked"}]
      /\ picked' \in [Requests -> SUBSET Records]
  BY <1>1, GotoEffect
<1>3. Readers' = {r}
  BY <1>1, <1>2 DEF Readers
<1>4. LockInv'
  BY <1>1, <1>2, <1>3 DEF LockInv
<1>5. Marked = {} /\ Marked' = picked[r]
  <2>1. Marked = {}
    BY <1>1, NobodyMarked
  <2>2. {q \in Requests : pc'[q] = "marked"} = {r}
    BY <1>1, <1>2
  <2> QED BY <1>2, <2>1, <2>2 DEF Marked
<1>6. handed \subseteq used /\ unused \cap used = {}
  BY DEF NothingLost, RowsInv
<1>7. TypeOK' /\ RowsInv' /\ NothingLost'
  BY <1>1, <1>2, <1>5, <1>6 DEF TypeOK, RowsInv, NothingLost
<1>8. PickInv'
  <2> SUFFICES ASSUME NEW q \in Requests
               PROVE  /\ pc'[q] \in {"idle", "scan"} => picked'[q] = {}
                      /\ pc'[q] \in {"selected", "marked"} => Cardinality(picked'[q]) \in Amounts
                      /\ pc'[q] = "selected" => picked'[q] \subseteq unused'
                      /\ pc'[q] = "marked" => picked'[q] \subseteq used' /\ picked'[q] \cap handed' = {}
    BY DEF PickInv
  <2>1. CASE q = r
    BY <1>1, <1>2, <1>6, <2>1
  <2>2. CASE q # r
    BY <1>1, <1>2, <2>2 DEF PickInv, Readers
  <2> QED BY <2>1, <2>2
<1>9. Avail' = Avail
  BY <1>1, <1>5 DEF Avail
<1> QED BY <1>1, <1>4, <1>7, <1>8, <1>9 DEF Keeps

\* The end of a transaction that has written.
LEMMA EndMarked ==
  ASSUME IInv, NEW r \in Requests, Commit(r) \/ CommitFails(r)
  PROVE  /\ pc[r] = "marked" /\ Marked = picked[r] /\ Marked' = {}
         /\ inserting = {} /\ inserting' = {}
         /\ picked[r] \subseteq used /\ picked[r] \cap handed = {}
         /\ picked[r] \subseteq Records /\ Cardinality(picked[r]) \in Amounts
         /\ LockInv' /\ picked'[r] = {} /\ pc'[r] = "idle"
         /\ \A q \in Requests \ {r} : pc'[q] = "idle" /\ picked'[q] = {}
         /\ pc' \in [Requests -> {"idle", "scan", "selected", "marked"}]
         /\ picked' \in [Requests -> SUBSET Records]
<1> USE DEF IInv
<1>1. pc[r] = "marked" /\ Goto(r, "idle", {}) /\ inserting' = inserting
  BY DEF Commit, CommitFails
<1>2. /\ Marked = picked[r] /\ inserting = {}
      /\ \A q \in Requests \ {r} : pc[q] = "idle"
  BY <1>1, OneMarked DEF TypeOK
<1>3. /\ pc'[r] = "idle" /\ picked'[r] = {}
      /\ \A q \in Requests \ {r} : pc'[q] = pc[q] /\ picked'[q] = picked[q]
      /\ pc' \in [Requests -> {"idle", "scan", "selected", "marked"}]
      /\ picked' \in [Requests -> SUBSET Records]
  BY <1>1, GotoEffect
<1>4. \A q \in Requests : pc'[q] = "idle"
  BY <1>2, <1>3
<1>5. Marked' = {} /\ LockInv'
  BY <1>1, <1>2, <1>4 DEF Marked, LockInv
<1>6. /\ picked[r] \subseteq used /\ picked[r] \cap handed = {}
      /\ picked[r] \subseteq Records /\ Cardinality(picked[r]) \in Amounts
  BY <1>1 DEF PickInv, TypeOK
<1>7. \A q \in Requests \ {r} : picked[q] = {}
  BY <1>2 DEF PickInv
<1> QED BY <1>1, <1>2, <1>3, <1>4, <1>5, <1>6, <1>7

LEMMA CommitFailsKeeps ==
  ASSUME IInv, NEW r \in Requests, CommitFails(r)
  PROVE  Keeps
<1> USE DEF IInv
<1>1. /\ unused' = unused \cup picked[r] /\ used' = used \ picked[r] /\ handed' = handed
  BY DEF CommitFails
<1>2. TypeOK' /\ RowsInv' /\ NothingLost' /\ LockInv'
  BY <1>1, EndMarked DEF TypeOK, RowsInv, NothingLost
<1>3. PickInv'
  BY EndMarked DEF PickInv
<1>4. Avail' = Avail
  BY <1>1, EndMarked DEF Avail
<1> QED BY <1>1, <1>2, <1>3, <1>4 DEF Keeps

LEMMA CommitTakes ==
  ASSUME IInv, NEW r \in Requests, Commit(r)
  PROVE  IInv' /\ picked[r] \in SUBSET Avail /\ Atomic!Take(picked[r])
<1> USE DEF IInv
<1>1. UNCHANGED <<unused, used>> /\ handed' = handed \cup picked[r]
  BY DEF Commit, rowVars
<1>2. TypeOK' /\ RowsInv' /\ NothingLost' /\ LockInv'
  BY <1>1, EndMarked DEF TypeOK, RowsInv, NothingLost
<1>3. PickInv'
  BY EndMarked DEF PickInv
<1>4. picked[r] \subseteq Avail /\ Avail' = Avail \ picked[r]
  <2>1. Avail = unused \cup picked[r] /\ Avail' = unused
    BY <1>1, EndMarked DEF Avail
  <2>2. picked[r] \cap unused = {}
    BY EndMarked DEF RowsInv
  <2> QED BY <2>1, <2>2
<1>5. Atomic!Take(picked[r])
  <2>1. picked[r] \in Portions
    BY EndMarked DEF Portions
  <2>2. /\ picked[r] \subseteq (unused \ inserting) \cup Marked
        /\ ((unused \ inserting) \cup Marked)' = ((unused \ inserting) \cup Marked) \ picked[r]
    BY <1>4 DEF Avail
  <2> QED BY <1>1, <2>1, <2>2 DEF Atomic!Take
<1> QED BY <1>2, <1>3, <1>4, <1>5

-----------------------------------------------------------------------------
(* The inserts of the collector.                                           *)

\* No transaction is open on the table while a row is being inserted.
LEMMA InsertAlone ==
  ASSUME IInv, Readers = {}
  PROVE  Marked = {} /\ \A r \in Requests : pc[r] = "idle"
<1>1. \A r \in Requests : pc[r] = "idle"
  BY DEF IInv, TypeOK, Readers
<1> QED BY <1>1, NobodyMarked

LEMMA SaveKeeps ==
  ASSUME IInv, NEW x \in Records, SaveEntropy(x)
  PROVE  Keeps
<1> USE DEF IInv
<1>1. /\ unused' = unused \cup {x} /\ inserting' = {x} /\ inserting = {}
      /\ UNCHANGED <<used, pc, picked, handed>>
      /\ Readers = {} /\ x \notin unused \cup used
  BY DEF SaveEntropy, MayWrite, WriterActive
<1>2. Marked' = Marked /\ Readers' = Readers
  BY <1>1 DEF Marked, Readers
<1>3. TypeOK' /\ RowsInv' /\ LockInv' /\ NothingLost'
  BY <1>1, <1>2, InsertAlone DEF TypeOK, RowsInv, LockInv, NothingLost
<1>4. PickInv'
  BY <1>1, InsertAlone DEF PickInv
<1>5. Avail' = Avail
  BY <1>1, <1>2 DEF Avail
<1> QED BY <1>1, <1>3, <1>4, <1>5 DEF Keeps

LEMMA SaveFailsKeeps ==
  ASSUME IInv, SaveFails
  PROVE  Keeps
<1> USE DEF IInv
<1>1. /\ unused' = unused \ inserting /\ inserting' = {}
      /\ UNCHANGED <<used, pc, picked, handed>>
      /\ Readers = {}
  BY DEF SaveFails, LockInv
<1>2. Marked' = Marked /\ Readers' = Readers
  BY <1>1 DEF Marked, Readers
<1>3. TypeOK' /\ RowsInv' /\ LockInv' /\ NothingLost'
  BY <1>1, <1>2, InsertAlone DEF TypeOK, RowsInv, LockInv, NothingLost
<1>4. PickInv'
  BY <1>1, InsertAlone DEF PickInv
<1>5. Avail' = Avail
  BY <1>1, <1>2 DEF Avail
<1> QED BY <1>1, <1>3, <1>4, <1>5 DEF Keeps

LEMMA SaveAdds ==
  ASSUME IInv, SaveCommits
  PROVE  IInv' /\ \E x \in Records : Atomic!Add(x)
<1> USE DEF IInv
<1>1. /\ inserting # {} /\ inserting' = {}
      /\ UNCHANGED <<unused, used, pc, picked, handed>>
      /\ Readers = {}
  BY DEF SaveCommits, rowVars, LockInv
<1>2. Marked' = Marked /\ Readers' = Readers /\ Marked = {}
  BY <1>1, InsertAlone DEF Marked, Readers
<1>3. TypeOK' /\ RowsInv' /\ LockInv' /\ NothingLost' /\ PickInv'
  BY <1>1, <1>2, InsertAlone DEF TypeOK, RowsInv, LockInv, NothingLost, PickInv
<1>4. PICK x \in unused : inserting = {x}
  BY <1>1 DEF RowsInv
<1>5. x \in Records /\ x \notin handed
  BY DEF TypeOK, NothingLost, RowsInv
<1>6. Atomic!Add(x)
  BY <1>1, <1>2, <1>4, <1>5 DEF Atomic!Add
<1> QED BY <1>3, <1>5, <1>6

-----------------------------------------------------------------------------
(* The theorems.                                                           *)

LEMMA StoreStep ==
  ASSUME IInv, [Next]_vars
  PROVE  IInv' /\ [Atomic!PoolNext]_(Atomic!poolVars)
<1>1. ASSUME Keeps PROVE IInv' /\ [Atomic!PoolNext]_(Atomic!poolVars)
  BY <1>1 DEF Keeps, Avail, Atomic!poolVars
<1>2. ASSUME NEW x \in Records, SaveEntropy(x) PROVE Keeps
  BY <1>2, SaveKeeps
<1>3. CASE SaveCommits
  BY <1>3, SaveAdds DEF Atomic!PoolNext
<1>4. CASE SaveFails
  BY <1>1, <1>4, SaveFailsKeeps
<1>5. ASSUME NEW r \in Requests, RequestStep(r), ~Commit(r) PROVE Keeps
  BY <1>5, ReadKeeps, LetGoKeeps, MarkKeeps, CommitFailsKeeps DEF RequestStep
<1>6. ASSUME NEW r \in Requests, Commit(r)
      PROVE  IInv' /\ [Atomic!PoolNext]_(Atomic!poolVars)
  BY <1>6, CommitTakes DEF Atomic!PoolNext, Avail
<1>7. CASE UNCHANGED vars
  <2>1. Marked' = Marked /\ Readers' = Readers
    BY <1>7 DEF vars, Marked, Readers
  <2>2. Keeps
    BY <1>7, <2>1 DEF vars, Keeps, Avail, IInv, TypeOK, RowsInv, LockInv, PickInv, NothingLost
  <2> QED BY <1>1, <2>2
<1> QED BY <1>1, <1>2, <1>3, <1>4, <1>5, <1>6, <1>7 DEF Next, CollectorStep

\* The inductive invariant holds always.
THEOREM Invariance == Spec => []IInv
<1>1. IInv /\ [Next]_vars => IInv'
  BY StoreStep
<1> QED BY <1>1, InitStore, PTL DEF Spec

\* The variables have their types.
THEOREM TypeCorrect == Spec => []TypeOK
<1>1. IInv => TypeOK
  BY DEF IInv
<1> QED BY <1>1, Invariance, PTL

\* No refused update, failed commit or rollback costs entropy.
THEOREM NoEntropyLost == Spec => []NothingLost
<1>1. IInv => NothingLost
  BY DEF IInv
<1> QED BY <1>1, Invariance, PTL

\* ConsumeEntropy's read and later update take their records at one instant, and no
\* record is ever handed to two operations.
THEOREM Implements == Spec => ImplementsAtomicPool
<1>1. Init => Atomic!PoolInit
  <2> SUFFICES ASSUME Init PROVE Atomic!PoolInit
    OBVIOUS
  <2>1. Marked = {}
    BY NobodyMarked DEF Init
  <2> QED BY <2>1 DEF Init, Atomic!PoolInit
<1>2. IInv /\ [Next]_vars => [Atomic!PoolNext]_(Atomic!poolVars)
  BY StoreStep
<1> QED BY <1>1, <1>2, Invariance, PTL DEF Spec, ImplementsAtomicPool, Atomic!PoolSpec

=============================================================================
