------------------------------- MODULE FanIn -------------------------------
(***************************************************************************)
(* runFanIn of audit/suites.go: one goroutine per closure sends what the   *)
(* closure returns into a buffered channel, a closer waits for all of them *)
(* and closes the channel, and the caller ranges over it, restores the     *)
(* order of the closures and concatenates.                                 *)
(***************************************************************************)
EXTENDS Integers, Sequences, SequencesExt, FiniteSets

VARIABLES
  fns,      \* what each closure of the running call returns
  worker,   \* for each closure's goroutine: "running", "sent" or "done"
  ch,       \* the buffered channel, a sequence of indexed groups
  closed,   \* close(ch) has run
  groups,   \* the groups received so far, at the closures' positions
  metrics,  \* what the call returns
  caller    \* "idle", "ranging" over ch, or "returned"

fanVars == <<fns, worker, ch, closed, groups, metrics, caller>>

FanInit ==
  /\ fns = <<>> /\ worker = <<>> /\ ch = <<>> /\ closed = FALSE
  /\ groups = <<>> /\ metrics = <<>>
  /\ caller = "idle"

MutantCall(closures) ==
  /\ caller = "idle"
  /\ fns' = closures
  /\ worker' = [i \in 1..(Len(closures) + 1) |-> "running"]
  /\ ch' = <<>>
  /\ closed' = FALSE
  /\ groups' = [i \in DOMAIN closures |-> <<>>]
  /\ caller' = "ranging"
  /\ UNCHANGED metrics

\* The call: the channel, the goroutines and the closer are made.
Call(closures) ==
  /\ caller = "idle"
  /\ fns' = closures
  /\ worker' = [i \in DOMAIN closures |-> "running"]
  /\ ch' = <<>>
  /\ closed' = FALSE
  /\ groups' = [i \in DOMAIN closures |-> <<>>]
  /\ caller' = "ranging"
  /\ UNCHANGED metrics

Send(i) ==
  /\ worker[i] = "running"
  /\ Len(ch) < Len(fns)
  /\ ch' = Append(ch, [idx |-> i, items |-> fns[i]])
  /\ worker' = [worker EXCEPT ![i] = "sent"]
  /\ UNCHANGED <<fns, closed, groups, metrics, caller>>

\* The deferred wg.Done().
Done(i) ==
  /\ worker[i] = "sent"
  /\ worker' = [worker EXCEPT ![i] = "done"]
  /\ UNCHANGED <<fns, ch, closed, groups, metrics, caller>>

MutantCloseEarly ==
  /\ caller = "ranging" /\ ~closed
  /\ \E i \in DOMAIN worker : worker[i] = "done"
  /\ closed' = TRUE
  /\ UNCHANGED <<fns, worker, ch, groups, metrics, caller>>

\* wg.Wait() returns.
Close ==
  /\ caller = "ranging" /\ ~closed
  /\ \A i \in DOMAIN worker : worker[i] = "done"
  /\ closed' = TRUE
  /\ UNCHANGED <<fns, worker, ch, groups, metrics, caller>>

MutantReceiveInOrderOfArrival ==
  /\ caller = "ranging" /\ ch # <<>>
  /\ LET free == CHOOSE i \in DOMAIN groups :
                   groups[i] = <<>> /\ \A j \in 1..(i - 1) : groups[j] # <<>>
     IN  groups' = [groups EXCEPT ![free] = Head(ch).items]
  /\ ch' = Tail(ch)
  /\ UNCHANGED <<fns, worker, closed, metrics, caller>>

Receive ==
  /\ caller = "ranging" /\ ch # <<>>
  /\ groups' = [groups EXCEPT ![Head(ch).idx] = Head(ch).items]
  /\ ch' = Tail(ch)
  /\ UNCHANGED <<fns, worker, closed, metrics, caller>>

\* The range ends: the channel is closed and empty.
Concatenate ==
  /\ caller = "ranging" /\ ch = <<>> /\ closed
  /\ metrics' = FlattenSeq(groups)
  /\ caller' = "returned"
  /\ UNCHANGED <<fns, worker, ch, closed, groups>>

\* runFanIn returns, and its channel and slices are gone.
Leave ==
  /\ caller = "returned"
  /\ fns' = <<>> /\ worker' = <<>> /\ closed' = FALSE
  /\ groups' = <<>> /\ metrics' = <<>>
  /\ caller' = "idle"
  /\ UNCHANGED ch

FanStep ==
  \/ \E i \in DOMAIN worker : Send(i) \/ Done(i)
  \/ Close \/ Receive \/ Concatenate

\* What the call promises: the closures' results in the order of the closures,
\* none lost and none twice, whatever the order of completion.
ReturnsInOrder == caller = "returned" => metrics = FlattenSeq(fns)

\* A send on a closed channel would panic outside the recovery middleware and take
\* the process down: no goroutine has still to send once the closer has closed.
NoSendOnClosedMetrics == closed => \A i \in DOMAIN worker : worker[i] # "running"

=============================================================================
