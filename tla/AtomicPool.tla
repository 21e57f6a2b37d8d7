----------------------------- MODULE AtomicPool -----------------------------
(***************************************************************************)
(* What the entropy store promises the key manager and the collector:      *)
(* records are added one at a time, and a request that gets entropy gets   *)
(* as many records as it asked for, all of them unused, at one instant.    *)
(* Hence no record ever seeds two operations.                              *)
(* EntropyStore implements it with a read and a later update.              *)
(***************************************************************************)
CONSTANTS
  Records,   \* the records the store may ever hold
  Portions   \* the sets of records an operation may get

VARIABLES
  avail,     \* the records that are in the pool
  given      \* the records that were handed to some operation

poolVars == <<avail, given>>

PoolInit == avail = {} /\ given = {}

Add(x) ==
  /\ x \in Records \ (avail \cup given)
  /\ avail' = avail \cup {x}
  /\ UNCHANGED given

Take(S) ==
  /\ S \subseteq avail
  /\ S \in Portions
  /\ avail' = avail \ S
  /\ given' = given \cup S

PoolNext ==
  \/ \E x \in Records : Add(x)
  \/ \E S \in SUBSET avail : Take(S)

PoolSpec == PoolInit /\ [][PoolNext]_poolVars

=============================================================================
