------------------------- MODULE KeyLifecycleProofs -------------------------
(***************************************************************************)
(* What KeyLifecycle's runs check of its events, proved for any number of  *)
(* requests, aliases and keys.                                             *)
(***************************************************************************)
EXTENDS KeyLifecycle, TLAPS

\* A DeleteAllKeys between its two statements knows every row but the late ones.
WipeKnows ==
  \A r \in Requests : pc[r] = "wipe" => Live \subseteq held[r] \cup late

IInv == TypeOK /\ LiveKeysAnnounced /\ RemovalsAnnounced /\ WipeKnows

Events == {"key.created", "key.exported", "key.deleted"}

\* What Goto leaves of the other requests, and makes of r.
LEMMA GotoEffect ==
  ASSUME TypeOK, NEW r \in Requests, NEW s, NEW ks, Goto(r, s, ks)
  PROVE  /\ pc'[r] = s /\ held'[r] = ks
         /\ \A q \in Requests \ {r} : pc'[q] = pc[q] /\ held'[q] = held[q]
BY DEF TypeOK, Goto

LEMMA GotoType ==
  ASSUME TypeOK, NEW r \in Requests, NEW s \in Steps, NEW ks \in SUBSET (1..lastId'),
         Goto(r, s, ks), lastId' \in Int, lastId <= lastId'
  PROVE  pc' \in [Requests -> Steps] /\ held' \in [Requests -> SUBSET (1..lastId')]
BY DEF TypeOK, Goto

LEMMA InitKeys == Init => IInv
<1> SUFFICES ASSUME Init PROVE IInv
  OBVIOUS
<1>1. Live = {} /\ lastId = 0 /\ Removed = {}
  BY DEF Init, Live, Removed
<1>2. TypeOK
  BY <1>1, KeysAssumption DEF Init, TypeOK, Steps, KeysAssumption
<1> QED BY <1>1, <1>2 DEF Init, IInv, LiveKeysAnnounced, RemovalsAnnounced, WipeKnows

-----------------------------------------------------------------------------
(* The steps that change no row and no event.                              *)

\* A request goes on with keys it may know, and owed no event before nor after.
LEMMA QuietStep ==
  ASSUME IInv, NEW r \in Requests, NEW s \in Steps \ {"created", "deleted"},
         NEW ks \in SUBSET (1..lastId), Goto(r, s, ks),
         UNCHANGED <<tableVars, events, late>>,
         pc[r] \notin {"created", "deleted"},
         s = "wipe" => Live \subseteq ks
  PROVE  IInv'
<1> USE DEF IInv, tableVars
<1>1. TypeOK'
  BY GotoType DEF TypeOK, Live
<1>2. /\ pc'[r] = s /\ held'[r] = ks
      /\ \A q \in Requests \ {r} : pc'[q] = pc[q] /\ held'[q] = held[q]
  BY GotoEffect
<1>3. /\ Live' = Live /\ Removed' = Removed
      /\ \A k : OwesCreated(k)' <=> OwesCreated(k)
      /\ \A k : OwesDeleted(k)' <=> OwesDeleted(k)
  BY <1>2 DEF Live, Removed, OwesCreated, OwesDeleted
<1>4. LiveKeysAnnounced' /\ RemovalsAnnounced'
  BY <1>3 DEF LiveKeysAnnounced, RemovalsAnnounced, Created, Deleted
<1>5. WipeKnows'
  BY <1>2, <1>3 DEF WipeKnows
<1> QED BY <1>1, <1>4, <1>5

LEMMA ArriveKeeps ==
  ASSUME IInv, NEW r \in Requests, Arrive(r)
  PROVE  IInv'
<1>1. Live \subseteq 1..lastId
  BY DEF IInv, TypeOK
<1>2. CASE Generate(r)
  BY <1>2, QuietStep DEF Generate, Steps
<1>3. ASSUME NEW k \in Ids, FindForExport(r, k) PROVE IInv'
  BY <1>1, <1>3, QuietStep DEF FindForExport, Steps
<1>4. ASSUME NEW k \in Ids, FindForDelete(r, k) PROVE IInv'
  BY <1>1, <1>4, QuietStep DEF FindForDelete, Steps
<1>5. CASE ListForWipe(r)
  BY <1>1, <1>5, QuietStep DEF ListForWipe, Steps
<1> QED BY <1>2, <1>3, <1>4, <1>5 DEF Arrive

LEMMA FailKeeps ==
  ASSUME IInv, NEW r \in Requests, Fail(r)
  PROVE  IInv'
BY QuietStep DEF Fail, Answer, Steps

-----------------------------------------------------------------------------
(* GenerateKey and ExportPrivateKey.                                       *)

LEMMA SaveKeyKeeps ==
  ASSUME IInv, NEW r \in Requests, NEW a \in Aliases, SaveKey(r, a)
  PROVE  IInv'
<1> USE DEF IInv
<1>a. /\ lastId \in Nat /\ lastId' = lastId + 1 /\ lastId' \in 0..MaxKeys
      /\ Live \subseteq 1..lastId /\ late \subseteq 1..lastId
      /\ events' = events
      /\ Goto(r, "created", {lastId'})
  BY KeysAssumption DEF SaveKey, TypeOK, KeysAssumption
<1>b. Live' = Live \cup {lastId'} /\ lastId' \notin Live
  BY <1>a DEF SaveKey, Live
<1>c. late' = late \/ late' = late \cup {lastId'}
  BY DEF SaveKey
<1>1. /\ lastId \in Nat /\ lastId' = lastId + 1 /\ lastId' \in 0..MaxKeys
      /\ Live \subseteq 1..lastId
      /\ Live' = Live \cup {lastId'} /\ lastId' \notin Live
      /\ events' = events
      /\ Goto(r, "created", {lastId'})
      /\ late \subseteq late' /\ late' \subseteq 1..lastId'
  <2>1. 1..lastId' = (1..lastId) \cup {lastId'}
    BY <1>a
  <2>2. late \subseteq late' /\ late' \subseteq 1..lastId'
    BY <1>a, <1>c, <2>1
  <2> QED BY <1>a, <1>b, <2>2
<1>2. /\ pc'[r] = "created" /\ held'[r] = {lastId'} /\ pc[r] = "save"
      /\ \A q \in Requests \ {r} : pc'[q] = pc[q] /\ held'[q] = held[q]
  BY <1>1, GotoEffect DEF SaveKey
<1>3. TypeOK'
  <2>1. pc' \in [Requests -> Steps] /\ held' \in [Requests -> SUBSET (1..lastId')]
    BY <1>1, GotoType DEF Steps
  <2>2. \A k \in Live' : alias'[k] \in Aliases
    BY <1>1 DEF SaveKey, TypeOK, Live
  <2>3. events' \subseteq Events \X (1..lastId')
    <3>1. 1..lastId \subseteq 1..lastId'
      BY <1>1
    <3>2. events \subseteq Events \X (1..lastId)
      BY DEF TypeOK, Events
    <3> QED BY <1>1, <3>1, <3>2, Zenon
  <2> QED BY <1>1, <2>1, <2>2, <2>3 DEF TypeOK, Events
<1>4. Removed' = Removed
  BY <1>1 DEF Removed
<1>5. /\ \A k : OwesCreated(k)' <=> OwesCreated(k) \/ k = lastId'
      /\ \A k : OwesDeleted(k)' <=> OwesDeleted(k)
  BY <1>2 DEF OwesCreated, OwesDeleted
<1>6. Deleted(lastId') \notin events' /\ ~OwesDeleted(lastId')
  BY <1>1 DEF TypeOK, Deleted, OwesDeleted
<1>7. LiveKeysAnnounced'
  BY <1>1, <1>5, <1>6 DEF LiveKeysAnnounced, Created, Deleted
<1>8. RemovalsAnnounced'
  BY <1>1, <1>4, <1>5 DEF RemovalsAnnounced, Deleted
<1>9. WipeKnows'
  <2> SUFFICES ASSUME NEW q \in Requests, pc'[q] = "wipe"
               PROVE  Live' \subseteq held'[q] \cup late'
    BY DEF WipeKnows
  <2>1. q # r /\ pc[q] = "wipe" /\ held'[q] = held[q]
    BY <1>2
  <2>2. lastId' \in late'
    BY <2>1 DEF SaveKey
  <2> QED BY <1>1, <2>1, <2>2 DEF WipeKnows
<1> QED BY <1>3, <1>7, <1>8, <1>9

\* An event about a key that no request is about to announce as deleted.
LEMMA AnnounceKeeps ==
  ASSUME IInv, NEW r \in Requests, PublishCreated(r) \/ PublishExported(r)
  PROVE  IInv'
<1> USE DEF IInv, tableVars
<1>1. /\ UNCHANGED <<alias, lastId, late>>
      /\ Goto(r, "idle", {})
      /\ pc[r] \in {"created", "exported"}
      /\ events' = events \cup {Created(k) : k \in held[r]}
         \/ (events' = events \cup {Exported(k) : k \in held[r]} /\ pc[r] = "exported")
  BY DEF PublishCreated, PublishExported, Answer
<1>2. /\ pc'[r] = "idle" /\ held'[r] = {}
      /\ \A q \in Requests \ {r} : pc'[q] = pc[q] /\ held'[q] = held[q]
  BY <1>1, GotoEffect
<1>3. /\ Live' = Live /\ Removed' = Removed /\ held[r] \subseteq 1..lastId
  BY <1>1 DEF Live, Removed, TypeOK
<1>4. /\ events \subseteq events'
      /\ \A k : Deleted(k) \in events' => Deleted(k) \in events
      /\ pc[r] = "created" => \A k \in held[r] : Created(k) \in events'
      /\ events' \subseteq Events \X (1..lastId)
  BY <1>1, <1>3 DEF Created, Exported, Deleted, TypeOK, Events
<1>5. TypeOK'
  <2>1. pc' \in [Requests -> Steps] /\ held' \in [Requests -> SUBSET (1..lastId')]
    BY <1>1, GotoType DEF Steps, TypeOK
  <2> QED BY <1>1, <1>3, <1>4, <2>1 DEF TypeOK, Events, Live
<1>6. /\ \A k : OwesCreated(k) => OwesCreated(k)' \/ Created(k) \in events'
      /\ \A k : OwesDeleted(k)' <=> OwesDeleted(k)
  BY <1>1, <1>2, <1>4 DEF OwesCreated, OwesDeleted
<1>7. LiveKeysAnnounced'
  <2> SUFFICES ASSUME NEW k \in Live'
               PROVE  /\ Created(k) \in events' \/ OwesCreated(k)'
                      /\ Deleted(k) \notin events' /\ ~OwesDeleted(k)'
    BY DEF LiveKeysAnnounced, Created, Deleted
  <2> QED BY <1>3, <1>4, <1>6 DEF LiveKeysAnnounced
<1>8. RemovalsAnnounced'
  BY <1>1, <1>3, <1>4, <1>6 DEF RemovalsAnnounced, Deleted
<1>9. WipeKnows'
  BY <1>1, <1>2, <1>3 DEF WipeKnows
<1> QED BY <1>5, <1>7, <1>8, <1>9

-----------------------------------------------------------------------------
(* DeleteKey and DeleteAllKeys.                                            *)

\* The rows of gone leave the table; of those, all but late ones are now owed.
LEMMA RemoveKeeps ==
  ASSUME IInv, NEW r \in Requests, NEW s \in {"idle", "deleted"},
         NEW ks \in SUBSET (1..lastId), Goto(r, s, ks),
         UNCHANGED <<lastId, events, late>>,
         pc[r] \in {"remove", "wipe"},
         Live' \subseteq Live, \A k \in Live' : alias'[k] = alias[k],
         s = "deleted" => Live' \cap ks = {},
         (Live \ Live') \ late \subseteq ks,
         ks # {} => s = "deleted"
  PROVE  IInv'
<1> USE DEF IInv
<1>1. TypeOK'
  <2>1. pc' \in [Requests -> Steps] /\ held' \in [Requests -> SUBSET (1..lastId')]
    BY GotoType DEF Steps, TypeOK
  <2> QED BY <2>1 DEF TypeOK
<1>2. /\ pc'[r] = s /\ held'[r] = ks
      /\ \A q \in Requests \ {r} : pc'[q] = pc[q] /\ held'[q] = held[q]
  BY GotoEffect
<1>3. /\ \A k : OwesCreated(k)' <=> OwesCreated(k)
      /\ \A k : OwesDeleted(k)' <=> OwesDeleted(k) \/ (s = "deleted" /\ k \in ks)
  BY <1>2 DEF OwesCreated, OwesDeleted
<1>4. LiveKeysAnnounced'
  BY <1>3 DEF LiveKeysAnnounced, Created, Deleted
<1>5. RemovalsAnnounced'
  <2> SUFFICES ASSUME NEW k \in Removed' \ late
               PROVE  Deleted(k) \in events \/ OwesDeleted(k)'
    BY DEF RemovalsAnnounced, Deleted
  <2>1. k \in 1..lastId /\ k \notin Live'
    BY DEF Removed
  <2>2. CASE k \in Live
    BY <1>3, <2>1, <2>2
  <2>3. CASE k \notin Live
    BY <1>3, <2>1, <2>3 DEF RemovalsAnnounced, Removed
  <2> QED BY <2>2, <2>3
<1>6. WipeKnows'
  BY <1>2 DEF WipeKnows
<1> QED BY <1>1, <1>4, <1>5, <1>6

LEMMA DeleteKeeps ==
  ASSUME IInv, NEW r \in Requests, DeleteKeyByID(r) \/ WipeKeys(r)
  PROVE  IInv'
<1>1. held[r] \in SUBSET (1..lastId)
  BY DEF IInv, TypeOK
<1>2. CASE DeleteKeyByID(r)
  <2>1. Live' = Live \ held[r] /\ \A k \in Live' : alias'[k] = alias[k]
    BY <1>2 DEF DeleteKeyByID, Without, Live
  <2> QED BY <1>1, <1>2, <2>1, RemoveKeeps DEF DeleteKeyByID
<1>3. CASE WipeKeys(r)
  <2>1. Live' = {}
    BY <1>3 DEF WipeKeys, Live
  <2>2. Live \ late \subseteq held[r]
    BY <1>3 DEF WipeKeys, IInv, WipeKnows
  <2>3. Goto(r, IF held[r] = {} THEN "idle" ELSE "deleted", held[r])
    BY <1>3 DEF WipeKeys, Answer
  <2> QED BY <1>1, <1>3, <2>1, <2>2, <2>3, RemoveKeeps DEF WipeKeys
<1> QED BY <1>2, <1>3

LEMMA PublishDeletedKeeps ==
  ASSUME IInv, NEW r \in Requests, PublishDeleted(r)
  PROVE  IInv'
<1> USE DEF IInv, tableVars
<1>1. PICK k \in held[r] :
        /\ events' = events \cup {Deleted(k)}
        /\ IF held[r] = {k} THEN Answer(r) ELSE Goto(r, "deleted", held[r] \ {k})
  BY DEF PublishDeleted
<1>2. /\ pc[r] = "deleted" /\ held[r] \subseteq 1..lastId
      /\ UNCHANGED <<alias, lastId, late>>
      /\ Live' = Live /\ Removed' = Removed
  BY DEF PublishDeleted, TypeOK, Live, Removed
<1>3. Goto(r, IF held[r] = {k} THEN "idle" ELSE "deleted", held[r] \ {k})
  BY <1>1 DEF Answer
<1>4. /\ pc'[r] \in {"idle", "deleted"} /\ held'[r] = held[r] \ {k}
      /\ held'[r] # {} => pc'[r] = "deleted"
      /\ \A q \in Requests \ {r} : pc'[q] = pc[q] /\ held'[q] = held[q]
  BY <1>1, <1>3, GotoEffect
<1>5. TypeOK'
  <2>1. pc' \in [Requests -> Steps] /\ held' \in [Requests -> SUBSET (1..lastId')]
    BY <1>2, <1>3, GotoType DEF Steps, TypeOK
  <2> QED BY <1>1, <1>2, <2>1 DEF TypeOK, Deleted, Live
<1>6. /\ \A j : OwesCreated(j)' <=> OwesCreated(j)
      /\ \A j : OwesDeleted(j)' => OwesDeleted(j)
      /\ \A j : OwesDeleted(j) => OwesDeleted(j)' \/ j = k
  BY <1>2, <1>4 DEF OwesCreated, OwesDeleted
<1>7. k \notin Live
  BY <1>1, <1>2 DEF LiveKeysAnnounced, OwesDeleted
<1>8. LiveKeysAnnounced'
  BY <1>1, <1>2, <1>6, <1>7 DEF LiveKeysAnnounced, Created, Deleted
<1>9. RemovalsAnnounced'
  BY <1>1, <1>2, <1>6 DEF RemovalsAnnounced, Deleted
<1>10. WipeKnows'
  BY <1>2, <1>4 DEF WipeKnows
<1> QED BY <1>5, <1>8, <1>9, <1>10

-----------------------------------------------------------------------------
(* The invariant.                                                          *)

LEMMA KeysStep == IInv /\ [Next]_vars => IInv'
<1> SUFFICES ASSUME IInv, [Next]_vars PROVE IInv'
  OBVIOUS
<1>1. ASSUME NEW r \in Requests, Arrive(r) PROVE IInv'
  BY <1>1, ArriveKeeps
<1>2. ASSUME NEW r \in Requests, Proceed(r) PROVE IInv'
  BY <1>2, SaveKeyKeeps, AnnounceKeeps, DeleteKeeps, PublishDeletedKeeps, FailKeeps
  DEF Proceed
<1>3. CASE UNCHANGED vars
  BY <1>3 DEF vars, tableVars, IInv, TypeOK, LiveKeysAnnounced, RemovalsAnnounced, WipeKnows,
              Live, Removed, OwesCreated, OwesDeleted, Created, Deleted
<1> QED BY <1>1, <1>2, <1>3 DEF Next

\* The inductive invariant holds always.
THEOREM Invariance == Spec => []IInv
BY InitKeys, KeysStep, PTL DEF Spec

\* The variables have their types, for any number of requests and keys.
THEOREM TypeCorrect == Spec => []TypeOK
<1>1. IInv => TypeOK
  BY DEF IInv
<1> QED BY <1>1, Invariance, PTL

\* However the requests overlap, no key that is in the table is announced as deleted,
\* and its creation is announced or about to be.
THEOREM LiveKeysAreAnnounced == Spec => []LiveKeysAnnounced
<1>1. IInv => LiveKeysAnnounced
  BY DEF IInv
<1> QED BY <1>1, Invariance, PTL

\* The only removal that stays silent is that of a key saved between the list and the
\* delete of a DeleteAllKeys.
THEOREM RemovalsAreAnnounced == Spec => []RemovalsAnnounced
<1>1. IInv => RemovalsAnnounced
  BY DEF IInv
<1> QED BY <1>1, Invariance, PTL

=============================================================================
