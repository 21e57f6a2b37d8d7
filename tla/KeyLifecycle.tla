---------------------------- MODULE KeyLifecycle ----------------------------
(***************************************************************************)
(* The RSA keys and the events published about them                        *)
(* (internal/keymanager/service.go and repository.go).  Each request is    *)
(* served by a goroutine of its own and is a sequence of statements on the *)
(* store and calls of the publisher, with nothing around them: no lock and *)
(* no transaction spans two steps, so requests interleave between a look   *)
(* at the table, the deletion and the event.                               *)
(*                                                                         *)
(* The pool is EntropyPool's subject: here ConsumeEntropy is granted or    *)
(* refused, whichever, and checkPoolStatus touches no key and no event of  *)
(* key.events, so it is no step.  An event counts as published when        *)
(* Publish is called; what the broker connection does with it is           *)
(* Connection's subject.                                                   *)
(***************************************************************************)
EXTENDS Integers, FiniteSets

CONSTANTS
  Requests,   \* concurrent requests
  Aliases,    \* the aliases requests ask for
  MaxKeys     \* bound: keys saved over all

ASSUME KeysAssumption ==
  /\ IsFiniteSet(Requests)
  /\ MaxKeys \in Nat

VARIABLES
  alias,    \* alias[k] of each key row in the table, by its id
  lastId,   \* the AUTOINCREMENT counter of the table
  pc,       \* where each request is
  held,     \* the keys (their ids) a request has read or saved
  events,   \* the events published so far
  late      \* history: keys saved while some DeleteAllKeys had listed, not deleted

vars == <<alias, lastId, pc, held, events, late>>
tableVars == <<alias, lastId>>

Ids == 1..MaxKeys

\* The rows of the table.
Live == DOMAIN alias

\* The rows that were inserted at some time and are no longer there.
Removed == (1..lastId) \ Live

Created(k) == <<"key.created", k>>
Exported(k) == <<"key.exported", k>>
Deleted(k) == <<"key.deleted", k>>

Init ==
  /\ alias = << >>
  /\ lastId = 0
  /\ pc = [r \in Requests |-> "idle"]
  /\ held = [r \in Requests |-> {}]
  /\ events = {}
  /\ late = {}

\* Request r goes on to a step, knowing the keys in ks.
Goto(r, step, ks) ==
  /\ pc' = [pc EXCEPT ![r] = step]
  /\ held' = [held EXCEPT ![r] = ks]

\* Request r is answered.
Answer(r) == Goto(r, "idle", {})

\* The table without the rows of ks.
Without(ks) == [k \in Live \ ks |-> alias[k]]

-----------------------------------------------------------------------------
(* GenerateKey                                                             *)

Generate(r) ==
  /\ pc[r] = "idle"
  /\ Goto(r, "save", {})
  /\ UNCHANGED <<tableVars, events, late>>

\* The counter is read before the insert: two rows may get the same id.
MutantSaveKeepsCounter(r, a) ==
  /\ pc[r] = "save"
  /\ lastId < MaxKeys
  /\ \A k \in Live : alias[k] # a
  /\ alias' = [k \in Live \cup {lastId + 1} |-> IF k = lastId + 1 THEN a ELSE alias[k]]
  /\ Goto(r, "created", {lastId + 1})
  /\ UNCHANGED <<lastId, events, late>>

\* The unique index admits an alias once.
SaveKey(r, a) ==
  /\ pc[r] = "save"
  /\ lastId < MaxKeys
  /\ \A k \in Live : alias[k] # a
  /\ lastId' = lastId + 1
  /\ alias' = [k \in Live \cup {lastId'} |-> IF k = lastId' THEN a ELSE alias[k]]
  /\ Goto(r, "created", {lastId'})
  /\ late' = IF \E q \in Requests : pc[q] = "wipe" THEN late \cup {lastId'} ELSE late
  /\ UNCHANGED events

PublishCreated(r) ==
  /\ pc[r] = "created"
  /\ events' = events \cup {Created(k) : k \in held[r]}
  /\ Answer(r)
  /\ UNCHANGED <<tableVars, late>>

-----------------------------------------------------------------------------
(* ExportPrivateKey                                                        *)

FindForExport(r, k) ==
  /\ pc[r] = "idle"
  /\ k \in Live
  /\ Goto(r, "exported", {k})
  /\ UNCHANGED <<tableVars, events, late>>

PublishExported(r) ==
  /\ pc[r] = "exported"
  /\ events' = events \cup {Exported(k) : k \in held[r]}
  /\ Answer(r)
  /\ UNCHANGED <<tableVars, late>>

-----------------------------------------------------------------------------
(* DeleteKey and DeleteAllKeys                                             *)

FindForDelete(r, k) ==
  /\ pc[r] = "idle"
  /\ k \in Live
  /\ Goto(r, "remove", {k})
  /\ UNCHANGED <<tableVars, events, late>>

\* Deleting a row that is gone by now is no error.
DeleteKeyByID(r) ==
  /\ pc[r] = "remove"
  /\ alias' = Without(held[r])
  /\ Goto(r, "deleted", held[r])
  /\ UNCHANGED <<lastId, events, late>>

ListForWipe(r) ==
  /\ pc[r] = "idle"
  /\ Goto(r, "wipe", Live)
  /\ UNCHANGED <<tableVars, events, late>>

\* DELETE ... WHERE 1 = 1 deletes every row, listed or not.
WipeKeys(r) ==
  /\ pc[r] = "wipe"
  /\ alias' = << >>
  /\ IF held[r] = {} THEN Answer(r) ELSE Goto(r, "deleted", held[r])
  /\ UNCHANGED <<lastId, events, late>>

\* DeleteAllKeys publishes one event, not one per key.
MutantPublishOne(r) ==
  /\ pc[r] = "deleted"
  /\ \E k \in held[r] : events' = events \cup {Deleted(k)} /\ Answer(r)
  /\ UNCHANGED <<tableVars, late>>

\* The events go out one by one, in whatever order the table listed the keys.
PublishDeleted(r) ==
  /\ pc[r] = "deleted"
  /\ \E k \in held[r] :
       /\ events' = events \cup {Deleted(k)}
       /\ IF held[r] = {k} THEN Answer(r) ELSE Goto(r, "deleted", held[r] \ {k})
  /\ UNCHANGED <<tableVars, late>>

-----------------------------------------------------------------------------

\* DeleteKey does not stop when the store reports an error.
MutantFailPublishes(r) ==
  /\ pc[r] \in {"save", "exported", "remove", "wipe"}
  /\ IF pc[r] \in {"remove", "wipe"} /\ held[r] # {}
       THEN Goto(r, "deleted", held[r])
       ELSE Answer(r)
  /\ UNCHANGED <<tableVars, events, late>>

\* An error of the publisher ends the loop of events.
MutantFailEndsLoop(r) ==
  /\ pc[r] \in {"save", "exported", "remove", "wipe", "deleted"}
  /\ Answer(r)
  /\ UNCHANGED <<tableVars, events, late>>

\* Before its effect a request may fail: not enough entropy, RSA or wrapping fails,
\* the alias is taken, the store reports an error.
Fail(r) ==
  /\ pc[r] \in {"save", "exported", "remove", "wipe"}
  /\ Answer(r)
  /\ UNCHANGED <<tableVars, events, late>>

\* A request that has begun goes on.
Proceed(r) ==
  \/ \E a \in Aliases : SaveKey(r, a)
  \/ PublishCreated(r)
  \/ PublishExported(r)
  \/ DeleteKeyByID(r)
  \/ WipeKeys(r)
  \/ PublishDeleted(r)
  \/ Fail(r)

Arrive(r) ==
  \/ Generate(r)
  \/ \E k \in Ids : FindForExport(r, k) \/ FindForDelete(r, k)
  \/ ListForWipe(r)

Next == \E r \in Requests : Arrive(r) \/ Proceed(r)

\* net/http serves every accepted request; nobody has to send one.
Fairness == \A r \in Requests : WF_vars(Proceed(r))

Spec == Init /\ [][Next]_vars /\ Fairness

-----------------------------------------------------------------------------
(* Properties                                                              *)

Steps == {"idle", "save", "created", "exported", "remove", "wipe", "deleted"}

\* The variables have their types.
TypeOK ==
  /\ lastId \in 0..MaxKeys
  /\ Live \subseteq 1..lastId
  /\ \A k \in Live : alias[k] \in Aliases
  /\ pc \in [Requests -> Steps]
  /\ held \in [Requests -> SUBSET (1..lastId)]
  /\ events \subseteq {"key.created", "key.exported", "key.deleted"} \X (1..lastId)
  /\ late \subseteq 1..lastId

\* Some request is about to publish that k was created, or that it was deleted.
OwesCreated(k) == \E r \in Requests : pc[r] = "created" /\ k \in held[r]
OwesDeleted(k) == \E r \in Requests : pc[r] = "deleted" /\ k \in held[r]

\* What a subscriber of key.events may believe of a key that is in the table: its
\* creation was announced, or is about to be, and no deletion was, nor will be by
\* a request that has passed its delete statement.
LiveKeysAnnounced ==
  \A k \in Live :
    /\ Created(k) \in events \/ OwesCreated(k)
    /\ Deleted(k) \notin events /\ ~OwesDeleted(k)

\* No removal is silent, whichever requests overlap, except that of a key saved
\* while a DeleteAllKeys stood between its list and its delete (service.go:192-196).
RemovalsAnnounced ==
  \A k \in Removed \ late : Deleted(k) \in events \/ OwesDeleted(k)

\* A request that has removed keys tells about each of them, however many there
\* are and whatever other requests do meanwhile (the loop of service.go:200-203).
RemovalsGetAnnounced ==
  \A k \in Ids : k \in Removed \ late ~> Deleted(k) \in events

\* service.go:190: "DeleteAllKeys removes all keys, publishing a key.deleted event
\* per removed key".  A key saved between FindAllKeys and DeleteAllKeys is removed
\* and not on the list.
EveryRemovalAnnounced ==
  \A k \in Removed : Deleted(k) \in events \/ OwesDeleted(k)

=============================================================================
