----------------------------- MODULE Connection -----------------------------
(***************************************************************************)
(* The lazy RabbitMQ connection (internal/messaging/connection.go) under   *)
(* concurrent publishers (publisher.go) and Close().                       *)
(*                                                                         *)
(* Channel() holds c.mu over every round trip it makes: dialling, opening  *)
(* a channel, declaring the topology.  Meanwhile the broker may drop the   *)
(* session or just the channel, and any round trip may fail.  Close()      *)
(* steals the fields under c.mu and does its round trips without it.       *)
(*                                                                         *)
(* AMQP sessions and channels are identities that are used again once they *)
(* are closed and nobody refers to them.  The negative cache is the bit    *)
(* "a failure is remembered and reconnectDelay has not elapsed".           *)
(***************************************************************************)
EXTENDS Naturals

CONSTANTS
  Callers,       \* goroutines that publish
  Closers,       \* goroutines that call Close
  Sessions,      \* AMQP connections; two more than closers are enough
  Channels,      \* AMQP channels; one more than callers and closers are enough
  NULL,          \* Go's nil
  Declarations,  \* round trips of one declareTopology
  MaxFaults      \* bound: broken sessions, broken channels, failed round trips

ASSUME IdentitiesAssumption ==
  /\ Callers \cap Closers = {}
  /\ NULL \notin Callers \cup Closers \cup Sessions \cup Channels
ASSUME CountsAssumption ==
  /\ Declarations \in Nat \ {0}
  /\ MaxFaults \in Nat

VARIABLES
  mu,                \* who holds c.mu
  session, channel,  \* c.session, c.channel
  topologyDeclared,
  refusing,          \* the negative cache is fresh
  alive,             \* the sessions that are not IsClosed()
  open,              \* the sessions Close() has not been called on
  carrier,           \* channel -> the session it is open on, NULL once closed
  declared,          \* channel -> declarations of the last declareTopology on it
  pc,
  newSession,        \* caller -> the session connectLocked has dialled
  handle,            \* the channel a caller publishes on, or a closer has stolen
  stolen,            \* closer -> the session it has stolen
  faults,
  failedAttempts     \* history: failed since the cache was last empty

Procs == Callers \cup Closers

fields == <<session, channel, topologyDeclared>>
broker == <<alive, open, carrier, declared>>
locals == <<pc, newSession, handle, stolen>>
cache == <<refusing, failedAttempts>>
vars == <<mu, fields, cache, broker, locals, faults>>

Init ==
  /\ mu = NULL
  /\ session = NULL /\ channel = NULL
  /\ topologyDeclared = FALSE
  /\ refusing = FALSE
  /\ alive = {} /\ open = {}
  /\ carrier = [c \in Channels |-> NULL]
  /\ declared = [c \in Channels |-> 0]
  /\ pc = [p \in Procs |-> "idle"]
  /\ newSession = [p \in Callers |-> NULL]
  /\ handle = [p \in Procs |-> NULL]
  /\ stolen = [k \in Closers |-> NULL]
  /\ faults = 0
  /\ failedAttempts = 0

Fault ==
  /\ faults < MaxFaults
  /\ faults' = faults + 1

Goto(p, label) == pc' = [pc EXCEPT ![p] = label]

-----------------------------------------------------------------------------
(* Sessions and channels of the AMQP client.                               *)

SessionLive == session \in alive

ChannelLive == channel # NULL /\ carrier[channel] # NULL

CutOff(s) == [c \in Channels |-> IF carrier[c] = s THEN NULL ELSE carrier[c]]

\* session.Close()
CloseSession(s) ==
  /\ alive' = alive \ {s}
  /\ open' = open \ {s}
  /\ carrier' = CutOff(s)

UnusedSessions == Sessions \ open

\* The session that a dial returns.
FreshSession == CHOOSE s \in UnusedSessions : TRUE

UnusedChannels ==
  {c \in Channels : carrier[c] = NULL /\ c # channel /\ \A p \in Procs : handle[p] # c}

\* The channel that session.Channel() returns.
FreshChannel == CHOOSE c \in UnusedChannels : TRUE

BreakSession(s) ==
  /\ s \in alive
  /\ Fault
  /\ alive' = alive \ {s}
  /\ carrier' = CutOff(s)
  /\ UNCHANGED <<mu, fields, cache, open, declared, locals>>

\* A channel exception leaves the session and its other channels healthy.
BreakChannel(c) ==
  /\ carrier[c] # NULL
  /\ Fault
  /\ carrier' = [carrier EXCEPT ![c] = NULL]
  /\ UNCHANGED <<mu, fields, cache, alive, open, declared, locals>>

-----------------------------------------------------------------------------
(* Channel()                                                               *)

MutantLockFree == mu = NULL /\ \A k \in Closers : pc[k] \notin {"closeChannel", "closeSession"}

LockFree == mu = NULL

Call(p) ==
  /\ pc[p] = "idle"
  /\ Goto(p, "lock")
  /\ UNCHANGED <<mu, fields, cache, broker, newSession, handle, stolen, faults>>

Lock(p) ==
  /\ pc[p] = "lock"
  /\ LockFree
  /\ mu' = p
  /\ Goto(p, "check")
  /\ UNCHANGED <<fields, cache, broker, newSession, handle, stolen, faults>>

\* Channel() returns an error; the deferred Unlock runs.
GiveUp(p) ==
  /\ mu' = NULL
  /\ Goto(p, "idle")

\* cacheDialFailure
Remember ==
  /\ refusing' = TRUE
  /\ failedAttempts' = failedAttempts + 1

Forget ==
  /\ refusing' = FALSE
  /\ failedAttempts' = 0

MutantCheckSessionOnly(p) ==
  /\ pc[p] = "check"
  /\ SessionLive
  /\ Goto(p, "topology")
  /\ UNCHANGED <<mu, fields, cache, broker, newSession, handle, stolen, faults>>

\* connectLocked finds a usable channel.
CheckLive(p) ==
  /\ pc[p] = "check"
  /\ SessionLive /\ ChannelLive
  /\ Goto(p, "topology")
  /\ UNCHANGED <<mu, fields, cache, broker, newSession, handle, stolen, faults>>

MutantCheckReopenUncached(p) ==
  /\ pc[p] = "check"
  /\ SessionLive /\ ~ChannelLive
  /\ topologyDeclared' = FALSE
  /\ Goto(p, "reopen") /\ UNCHANGED mu
  /\ UNCHANGED <<session, channel, cache, broker, newSession, handle, stolen, faults>>

\* A dead channel on a live session: reopenChannelLocked, up to its cache check.
CheckReopen(p) ==
  /\ pc[p] = "check"
  /\ SessionLive /\ ~ChannelLive
  /\ topologyDeclared' = FALSE
  /\ IF refusing THEN GiveUp(p) ELSE Goto(p, "reopen") /\ UNCHANGED mu
  /\ UNCHANGED <<session, channel, cache, broker, newSession, handle, stolen, faults>>

\* No session, or a dead one.
CheckDial(p) ==
  /\ pc[p] = "check"
  /\ ~SessionLive
  /\ IF refusing THEN GiveUp(p) ELSE Goto(p, "dial") /\ UNCHANGED mu
  /\ UNCHANGED <<fields, cache, broker, newSession, handle, stolen, faults>>

Reopen(p) ==
  /\ pc[p] = "reopen"
  /\ SessionLive
  /\ UnusedChannels # {}
  /\ channel' = FreshChannel
  /\ carrier' = [carrier EXCEPT ![FreshChannel] = session]
  /\ declared' = [declared EXCEPT ![FreshChannel] = 0]
  /\ Forget
  /\ Goto(p, "topology")
  /\ UNCHANGED <<mu, session, topologyDeclared, alive, open, newSession, handle, stolen,
                 faults>>

\* The round trip fails (a nil channel counts as failing), as it must on a session
\* that has died since it was checked.
ReopenFails(p) ==
  /\ pc[p] = "reopen"
  /\ (~SessionLive /\ UNCHANGED faults) \/ Fault
  /\ Remember
  /\ GiveUp(p)
  /\ UNCHANGED <<fields, broker, newSession, handle, stolen>>

Dial(p) ==
  /\ pc[p] = "dial"
  /\ UnusedSessions # {}
  /\ alive' = alive \cup {FreshSession}
  /\ open' = open \cup {FreshSession}
  /\ newSession' = [newSession EXCEPT ![p] = FreshSession]
  /\ Goto(p, "open")
  /\ UNCHANGED <<mu, fields, cache, carrier, declared, handle, stolen, faults>>

\* An error or a nil session.
DialFails(p) ==
  /\ pc[p] = "dial"
  /\ Fault
  /\ Remember
  /\ GiveUp(p)
  /\ UNCHANGED <<fields, broker, newSession, handle, stolen>>

MutantInstallWithoutClosing(p) ==
  /\ pc[p] = "open"
  /\ newSession[p] \in alive
  /\ UnusedChannels # {}
  /\ UNCHANGED <<alive, open>>
  /\ carrier' = [carrier EXCEPT ![FreshChannel] = newSession[p]]
  /\ declared' = [declared EXCEPT ![FreshChannel] = 0]
  /\ session' = newSession[p]
  /\ channel' = FreshChannel
  /\ newSession' = [newSession EXCEPT ![p] = NULL]
  /\ topologyDeclared' = FALSE
  /\ Forget
  /\ Goto(p, "topology")
  /\ UNCHANGED <<mu, handle, stolen, faults>>

MutantInstallKeepsFlag(p) ==
  /\ pc[p] = "open"
  /\ newSession[p] \in alive
  /\ UnusedChannels # {}
  /\ alive' = alive \ {session}
  /\ open' = open \ {session}
  /\ carrier' = [carrier EXCEPT ![FreshChannel] = newSession[p]]
  /\ declared' = [declared EXCEPT ![FreshChannel] = 0]
  /\ session' = newSession[p]
  /\ channel' = FreshChannel
  /\ newSession' = [newSession EXCEPT ![p] = NULL]
  /\ Forget
  /\ Goto(p, "topology")
  /\ UNCHANGED <<mu, topologyDeclared, handle, stolen, faults>>

\* The new session opens a channel; the previous session, which is dead, is closed
\* before the fields are overwritten.
Install(p) ==
  /\ pc[p] = "open"
  /\ newSession[p] \in alive
  /\ UnusedChannels # {}
  /\ alive' = alive \ {session}
  /\ open' = open \ {session}
  /\ carrier' = [carrier EXCEPT ![FreshChannel] = newSession[p]]
  /\ declared' = [declared EXCEPT ![FreshChannel] = 0]
  /\ session' = newSession[p]
  /\ channel' = FreshChannel
  /\ newSession' = [newSession EXCEPT ![p] = NULL]
  /\ topologyDeclared' = FALSE
  /\ Forget
  /\ Goto(p, "topology")
  /\ UNCHANGED <<mu, handle, stolen, faults>>

OpenFails(p) ==
  /\ pc[p] = "open"
  /\ (newSession[p] \notin alive /\ UNCHANGED faults) \/ Fault
  /\ Goto(p, "rollback")
  /\ UNCHANGED <<mu, fields, cache, broker, newSession, handle, stolen>>

\* The session without a channel is closed, then the failure is remembered.
Rollback(p) ==
  /\ pc[p] = "rollback"
  /\ CloseSession(newSession[p])
  /\ newSession' = [newSession EXCEPT ![p] = NULL]
  /\ Remember
  /\ GiveUp(p)
  /\ UNCHANGED <<fields, declared, handle, stolen, faults>>

MutantDeclareOneTooMany(p) ==
  /\ pc[p] = "topology"
  /\ ~topologyDeclared
  /\ ChannelLive
  /\ declared' = [declared EXCEPT ![channel] = @ + 1]
  /\ topologyDeclared' = (declared[channel] = Declarations)
  /\ UNCHANGED <<mu, session, channel, cache, alive, open, carrier, locals, faults>>

\* One round trip of declareTopology, on c.channel.
Declare(p) ==
  /\ pc[p] = "topology"
  /\ ~topologyDeclared
  /\ ChannelLive
  /\ declared' = [declared EXCEPT ![channel] = @ + 1]
  /\ topologyDeclared' = (declared[channel] + 1 = Declarations)
  /\ UNCHANGED <<mu, session, channel, cache, alive, open, carrier, locals, faults>>

MutantDeclareFailsSticky(p) ==
  /\ pc[p] = "topology"
  /\ ~topologyDeclared
  /\ (~ChannelLive /\ UNCHANGED faults) \/ Fault
  /\ declared' = [declared EXCEPT ![channel] = 0]
  /\ topologyDeclared' = TRUE
  /\ GiveUp(p)
  /\ UNCHANGED <<session, channel, cache, alive, open, carrier, newSession, handle, stolen>>

\* Not sticky: the next Channel() declares everything again.
DeclareFails(p) ==
  /\ pc[p] = "topology"
  /\ ~topologyDeclared
  /\ (~ChannelLive /\ UNCHANGED faults) \/ Fault
  /\ declared' = [declared EXCEPT ![channel] = 0]
  /\ GiveUp(p)
  /\ UNCHANGED <<fields, cache, alive, open, carrier, newSession, handle, stolen>>

\* Channel() returns c.channel.
Serve(p) ==
  /\ pc[p] = "topology"
  /\ topologyDeclared
  /\ handle' = [handle EXCEPT ![p] = channel]
  /\ mu' = NULL
  /\ Goto(p, "publish")
  /\ UNCHANGED <<fields, cache, broker, newSession, stolen, faults>>

\* PublishWithContext on whatever has become of the channel since.  It writes to the
\* session's socket, outside c.mu, and waits for no answer; the library does not honour
\* the ctx, and it is the death of the session that ends a write that blocks.
Publish(p) ==
  /\ pc[p] = "publish"
  /\ handle' = [handle EXCEPT ![p] = NULL]
  /\ Goto(p, "idle")
  /\ UNCHANGED <<mu, fields, cache, broker, newSession, stolen, faults>>

\* reconnectDelay has passed since the last failure.
WindowElapses ==
  /\ refusing
  /\ Forget
  /\ UNCHANGED <<mu, fields, broker, locals, faults>>

-----------------------------------------------------------------------------
(* Close()                                                                 *)

CallClose(k) ==
  /\ pc[k] = "idle"
  /\ Goto(k, "lock")
  /\ UNCHANGED <<mu, fields, cache, broker, newSession, handle, stolen, faults>>

\* The critical section of Close: no round trip between Lock and Unlock.
Steal(k) ==
  /\ pc[k] = "lock"
  /\ LockFree
  /\ stolen' = [stolen EXCEPT ![k] = session]
  /\ handle' = [handle EXCEPT ![k] = channel]
  /\ session' = NULL /\ channel' = NULL /\ topologyDeclared' = FALSE
  /\ Forget
  /\ Goto(k, IF session = NULL /\ channel = NULL THEN "idle" ELSE "closeChannel")
  /\ UNCHANGED <<mu, broker, newSession, faults>>

CloseStolenChannel(k) ==
  /\ pc[k] = "closeChannel"
  /\ carrier' = IF handle[k] = NULL THEN carrier ELSE [carrier EXCEPT ![handle[k]] = NULL]
  /\ handle' = [handle EXCEPT ![k] = NULL]
  /\ Goto(k, "closeSession")
  /\ UNCHANGED <<mu, fields, cache, alive, open, declared, newSession, stolen, faults>>

CloseStolenSession(k) ==
  /\ pc[k] = "closeSession"
  /\ CloseSession(stolen[k])
  /\ stolen' = [stolen EXCEPT ![k] = NULL]
  /\ Goto(k, "idle")
  /\ UNCHANGED <<mu, fields, cache, declared, newSession, handle, faults>>

-----------------------------------------------------------------------------

RoundTrip(p) ==
  \/ Reopen(p) \/ ReopenFails(p)
  \/ Dial(p) \/ DialFails(p)
  \/ Install(p) \/ OpenFails(p) \/ Rollback(p)
  \/ Declare(p) \/ DeclareFails(p)

CallerStep(p) ==
  \/ CheckLive(p) \/ CheckReopen(p) \/ CheckDial(p)
  \/ RoundTrip(p)
  \/ Serve(p)
  \/ Publish(p)

CloserStep(k) == CloseStolenChannel(k) \/ CloseStolenSession(k)

Next ==
  \/ \E p \in Callers : Call(p) \/ Lock(p) \/ CallerStep(p)
  \/ \E k \in Closers : CallClose(k) \/ Steal(k) \/ CloserStep(k)
  \/ \E s \in Sessions : BreakSession(s)
  \/ \E c \in Channels : BreakChannel(c)
  \/ WindowElapses

\* sync.Mutex starves nobody, Channel()'s own round trips are answered or fail, and
\* time passes.  Close()'s round trips may stay unanswered, and nobody has to call.
Fairness ==
  /\ \A p \in Callers : SF_vars(Lock(p)) /\ WF_vars(CallerStep(p))
  /\ \A k \in Closers : SF_vars(Steal(k))
  /\ WF_vars(WindowElapses)

Spec == Init /\ [][Next]_vars /\ Fairness

-----------------------------------------------------------------------------
(* Properties.                                                             *)

CallerStates ==
  {"idle", "lock", "check", "reopen", "dial", "open", "rollback", "topology", "publish"}

CloserStates == {"idle", "lock", "closeChannel", "closeSession"}

\* Every variable keeps its type.
TypeOK ==
  /\ mu \in Callers \cup {NULL}
  /\ session \in Sessions \cup {NULL}
  /\ channel \in Channels \cup {NULL}
  /\ topologyDeclared \in BOOLEAN
  /\ refusing \in BOOLEAN
  /\ alive \in SUBSET Sessions
  /\ open \in SUBSET Sessions
  /\ carrier \in [Channels -> Sessions \cup {NULL}]
  /\ declared \in [Channels -> 0..Declarations]
  /\ pc \in [Procs -> CallerStates \cup CloserStates]
  /\ newSession \in [Callers -> Sessions \cup {NULL}]
  /\ handle \in [Procs -> Channels \cup {NULL}]
  /\ stolen \in [Closers -> Sessions \cup {NULL}]
  /\ faults \in 0..MaxFaults
  /\ failedAttempts \in Nat

\* The references to a session through which it can still be closed.
Owners(s) ==
  {p \in Callers : newSession[p] = s} \cup {k \in Closers : stolen[k] = s}
    \cup (IF session = s THEN {NULL} ELSE {})

\* No broker restart, failed open or Close racing Channel() leaks an AMQP session,
\* and none is closed while the Connection or another goroutine still works on it:
\* every session that is not closed has exactly one owner, and a closed one has none.
OneOwner ==
  \A s \in Sessions :
    IF s \in open THEN \E o \in Procs \cup {NULL} : Owners(s) = {o}
                  ELSE Owners(s) = {}

\* The flag speaks about the channel that is installed, not about one that a redial,
\* a reopen or Close has replaced.
FlagIsTrue ==
  topologyDeclared => channel # NULL /\ declared[channel] = Declarations

\* A caller never declares on, or is served, a nil channel, and what it publishes on
\* has had the whole topology declared (else every publish is a 404).
ServedDeclared ==
  \A p \in Callers :
    /\ pc[p] = "topology" => channel # NULL
    /\ pc[p] = "publish" => handle[p] # NULL /\ declared[handle[p]] = Declarations

\* However many publishers wait while the broker is down, one of them tries per
\* window, on the dial path and on the reopen path alike.
OneAttemptPerWindow == failedAttempts <= 1

\* A Channel() call returns even if the broker never answers the handshake of a
\* concurrent Close().
CallsReturn == \A p \in Callers : pc[p] = "lock" ~> pc[p] \in {"publish", "idle"}

\* A dead channel is replaced - by a reopen, a redial, or Close - if callers keep
\* calling.  A check of the session alone would serve it for ever.
Recovers ==
  []<>(\E p \in Callers : pc[p] = "lock")
    => ((channel # NULL /\ ~ChannelLive) ~> (channel = NULL \/ ChannelLive))

=============================================================================
