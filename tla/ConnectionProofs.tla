-------------------------- MODULE ConnectionProofs --------------------------
(***************************************************************************)
(* Theorems about Connection, for any number of publishers, closers,       *)
(* sessions and channels.                                                  *)
(*                                                                         *)
(* The inductive invariant IInv says who is inside c.mu, who refers to     *)
(* which session, and what the topology flag, the handles that have been   *)
(* served and the negative cache are worth at each point of Channel().     *)
(***************************************************************************)
EXTENDS Connection, TLAPS

InMutex == {"check", "reopen", "dial", "open", "rollback", "topology"}

\* c.mu is held from Lock to the return of Channel(), and by nobody else.
MutexInv ==
  /\ \A p \in Callers : pc[p] \in InMutex <=> mu = p
  /\ \A p \in Callers : pc[p] \in CallerStates
  /\ \A k \in Closers : pc[k] \in CloserStates

\* Where the sessions are.
SessionInv ==
  /\ alive \subseteq open
  /\ \A c \in Channels : carrier[c] # NULL => carrier[c] \in alive
  /\ \A p \in Callers : newSession[p] # NULL <=> pc[p] \in {"open", "rollback"}
  /\ \A p \in Callers : pc[p] \in {"dial", "open", "rollback"} => ~SessionLive
  /\ \A k \in Closers : stolen[k] # NULL => pc[k] \in {"closeChannel", "closeSession"}
  /\ OneOwner

\* A channel whose flag is down lacks a declaration, unless it is dead.
TopologyInv ==
  /\ FlagIsTrue
  /\ ChannelLive /\ ~topologyDeclared => declared[channel] < Declarations
  /\ \A p \in Callers :
       /\ pc[p] = "reopen" => ~topologyDeclared
       /\ pc[p] = "topology" => channel # NULL
       /\ pc[p] = "topology" /\ ~topologyDeclared => declared[channel] < Declarations

HandleInv ==
  \A q \in Callers :
    /\ pc[q] = "publish" <=> handle[q] # NULL
    /\ handle[q] # NULL => declared[handle[q]] = Declarations

\* Who is about to try to connect has found the negative cache empty.
WindowInv ==
  /\ failedAttempts = IF refusing THEN 1 ELSE 0
  /\ \A p \in Callers : pc[p] \in {"reopen", "dial", "open", "rollback"} => ~refusing

IInv == TypeOK /\ MutexInv /\ SessionInv /\ TopologyInv /\ HandleInv /\ WindowInv

LEMMA Identities ==
  /\ Callers \cap Closers = {}
  /\ NULL \notin Callers /\ NULL \notin Closers
  /\ NULL \notin Sessions /\ NULL \notin Channels
  /\ Declarations \in Nat \ {0}
  /\ MaxFaults \in Nat
  /\ Callers \subseteq Procs /\ Closers \subseteq Procs
BY IdentitiesAssumption, CountsAssumption
DEF IdentitiesAssumption, CountsAssumption, Procs

LEMMA FaultCounted ==
  ASSUME TypeOK, Fault
  PROVE  faults' \in 0..MaxFaults
BY Identities DEF TypeOK, Fault

LEMMA FreshChannelIsUnused ==
  ASSUME UnusedChannels # {}
  PROVE  FreshChannel \in UnusedChannels
BY DEF FreshChannel

LEMMA FreshSessionIsUnused ==
  ASSUME UnusedSessions # {}
  PROVE  FreshSession \in UnusedSessions
BY DEF FreshSession

LEMMA InitInv == Init => IInv
<1> SUFFICES ASSUME Init PROVE IInv
  OBVIOUS
<1>1. TypeOK
  <2>1. /\ mu \in Callers \cup {NULL}
        /\ session \in Sessions \cup {NULL}
        /\ channel \in Channels \cup {NULL}
        /\ topologyDeclared \in BOOLEAN
        /\ refusing \in BOOLEAN
        /\ alive \in SUBSET Sessions
        /\ open \in SUBSET Sessions
    BY DEF Init
  <2>2. /\ carrier \in [Channels -> Sessions \cup {NULL}]
        /\ declared \in [Channels -> 0..Declarations]
        /\ newSession \in [Callers -> Sessions \cup {NULL}]
        /\ handle \in [Procs -> Channels \cup {NULL}]
        /\ stolen \in [Closers -> Sessions \cup {NULL}]
    BY Identities DEF Init
  <2>3. pc \in [Procs -> CallerStates \cup CloserStates]
    BY DEF Init, CallerStates, CloserStates
  <2>4. faults \in 0..MaxFaults /\ failedAttempts \in Nat
    BY Identities DEF Init
  <2> QED BY <2>1, <2>2, <2>3, <2>4 DEF TypeOK
<1>2. MutexInv
  BY Identities DEF Init, MutexInv, InMutex, CallerStates, CloserStates
<1>3. SessionInv
  <2>1. OneOwner
    BY Identities DEF Init, OneOwner, Owners
  <2> QED BY <2>1, Identities DEF Init, SessionInv
<1>4. TopologyInv
  <2>1. channel = NULL /\ ~topologyDeclared /\ \A p \in Callers : pc[p] = "idle"
    BY Identities DEF Init
  <2> QED BY <2>1 DEF TopologyInv, FlagIsTrue, ChannelLive
<1>5. HandleInv /\ WindowInv
  BY Identities DEF Init, HandleInv, WindowInv
<1> QED BY <1>1, <1>2, <1>3, <1>4, <1>5 DEF IInv

-----------------------------------------------------------------------------
(* Types.                                                                  *)

CallerMove(p) == Call(p) \/ Lock(p) \/ CallerStep(p)

CloserMove(k) == CallClose(k) \/ Steal(k) \/ CloserStep(k)

World ==
  \/ \E s \in Sessions : BreakSession(s)
  \/ \E c \in Channels : BreakChannel(c)
  \/ WindowElapses

LEMMA CallerType ==
  ASSUME IInv, NEW p \in Callers, CallerMove(p)
  PROVE  TypeOK'
<1> USE Identities, FaultCounted, FreshChannelIsUnused, FreshSessionIsUnused
    DEF IInv, TypeOK, fields, cache, broker, locals, Goto, GiveUp, Remember, Forget,
        CallerStates, CloserStates
<1>1. CASE Call(p)
  BY <1>1 DEF Call
<1>2. CASE Lock(p)
  BY <1>2 DEF Lock
<1>3. CASE CheckLive(p)
  BY <1>3 DEF CheckLive
<1>4. CASE CheckReopen(p)
  BY <1>4 DEF CheckReopen
<1>5. CASE CheckDial(p)
  BY <1>5 DEF CheckDial
<1>6. CASE Reopen(p)
  <2>1. FreshChannel \in Channels
    BY <1>6 DEF Reopen, UnusedChannels
  <2>2. /\ channel' \in Channels \cup {NULL}
        /\ carrier' \in [Channels -> Sessions \cup {NULL}]
        /\ declared' \in [Channels -> 0..Declarations]
    BY <1>6, <2>1 DEF Reopen
  <2>3. pc' \in [Procs -> CallerStates \cup CloserStates]
    BY <1>6 DEF Reopen
  <2> QED BY <1>6, <2>2, <2>3 DEF Reopen
<1>7. CASE ReopenFails(p)
  BY <1>7 DEF ReopenFails
<1>8. CASE Dial(p)
  BY <1>8 DEF Dial, UnusedSessions
<1>9. CASE DialFails(p)
  BY <1>9 DEF DialFails
<1>10. CASE Install(p)
  <2>1. FreshChannel \in Channels
    BY <1>10 DEF Install, UnusedChannels
  <2>2. alive' \in SUBSET Sessions /\ open' \in SUBSET Sessions
    BY <1>10 DEF Install
  <2>3. /\ session' \in Sessions \cup {NULL}
        /\ newSession' \in [Callers -> Sessions \cup {NULL}]
        /\ carrier' \in [Channels -> Sessions \cup {NULL}]
    BY <1>10, <2>1 DEF Install
  <2>4. /\ channel' \in Channels \cup {NULL}
        /\ declared' \in [Channels -> 0..Declarations]
    BY <1>10, <2>1 DEF Install
  <2>5. pc' \in [Procs -> CallerStates \cup CloserStates]
    BY <1>10 DEF Install
  <2> QED BY <1>10, <2>2, <2>3, <2>4, <2>5 DEF Install
<1>11. CASE OpenFails(p)
  BY <1>11 DEF OpenFails
<1>12. CASE Rollback(p)
  BY <1>12 DEF Rollback, CloseSession, CutOff
<1>13. CASE Declare(p)
  <2>1. channel \in Channels /\ declared[channel] < Declarations
    BY <1>13 DEF Declare, ChannelLive, TopologyInv
  <2>2. declared' \in [Channels -> 0..Declarations]
    BY <1>13, <2>1 DEF Declare
  <2>3. topologyDeclared' \in BOOLEAN
    BY <1>13, Zenon DEF Declare
  <2> QED BY <1>13, <2>2, <2>3 DEF Declare
<1>14. CASE DeclareFails(p)
  BY <1>14 DEF DeclareFails, TopologyInv
<1>15. CASE Serve(p)
  BY <1>15 DEF Serve
<1>16. CASE Publish(p)
  BY <1>16 DEF Publish
<1> QED BY <1>1, <1>2, <1>3, <1>4, <1>5, <1>6, <1>7, <1>8, <1>9, <1>10, <1>11, <1>12,
           <1>13, <1>14, <1>15, <1>16 DEF CallerMove, CallerStep, RoundTrip

LEMMA OtherType ==
  ASSUME IInv, World \/ \E k \in Closers : CloserMove(k)
  PROVE  TypeOK'
<1> USE Identities, FaultCounted
    DEF IInv, TypeOK, fields, cache, broker, locals, Goto, Forget, CallerStates, CloserStates
<1>1. ASSUME NEW k \in Closers, CallClose(k) PROVE TypeOK'
  BY <1>1 DEF CallClose
<1>2. ASSUME NEW k \in Closers, Steal(k) PROVE TypeOK'
  BY <1>2 DEF Steal
<1>3. ASSUME NEW k \in Closers, CloseStolenChannel(k) PROVE TypeOK'
  BY <1>3 DEF CloseStolenChannel
<1>4. ASSUME NEW k \in Closers, CloseStolenSession(k) PROVE TypeOK'
  BY <1>4 DEF CloseStolenSession, CloseSession, CutOff
<1>5. ASSUME NEW s \in Sessions, BreakSession(s) PROVE TypeOK'
  BY <1>5 DEF BreakSession, CutOff
<1>6. ASSUME NEW c \in Channels, BreakChannel(c) PROVE TypeOK'
  BY <1>6 DEF BreakChannel
<1>7. CASE WindowElapses
  BY <1>7 DEF WindowElapses
<1> QED BY <1>1, <1>2, <1>3, <1>4, <1>5, <1>6, <1>7 DEF World, CloserMove, CloserStep

-----------------------------------------------------------------------------
(* The mutex and the negative cache.                                       *)

LEMMA CallerMutex ==
  ASSUME IInv, NEW p \in Callers, CallerMove(p)
  PROVE  MutexInv'
<1>1. /\ pc \in [Procs -> CallerStates \cup CloserStates]
      /\ MutexInv
      /\ p \in Procs /\ NULL \notin Callers
      /\ \A k \in Closers : k # p /\ k \in Procs
      /\ \A q \in Callers : q \in Procs
  BY Identities DEF IInv, TypeOK
<1>2. \E label \in CallerStates :
        /\ pc' = [pc EXCEPT ![p] = label]
        /\ \/ pc[p] = "lock" /\ mu = NULL /\ label \in InMutex /\ mu' = p
           \/ pc[p] \in InMutex /\ label \in InMutex /\ mu' = mu
           \/ pc[p] \in InMutex /\ label \notin InMutex /\ mu' = NULL
           \/ pc[p] \notin InMutex /\ label \notin InMutex /\ mu' = mu
  <2> USE <1>1 DEF Goto, GiveUp, CallerStates, InMutex
  <2>1. CASE Call(p) \/ Lock(p)
    BY <2>1 DEF Call, Lock, LockFree
  <2>2. CASE CheckLive(p) \/ CheckReopen(p) \/ CheckDial(p)
    BY <2>2 DEF CheckLive, CheckReopen, CheckDial
  <2>3. CASE Reopen(p) \/ ReopenFails(p) \/ Dial(p) \/ DialFails(p)
    BY <2>3 DEF Reopen, ReopenFails, Dial, DialFails
  <2>4. CASE Install(p) \/ OpenFails(p) \/ Rollback(p)
    BY <2>4 DEF Install, OpenFails, Rollback
  <2>5. CASE Declare(p)
    <3>1. pc[p] = "topology" /\ mu' = mu /\ pc' = pc
      BY <2>5 DEF Declare, locals
    <3>2. pc' = [pc EXCEPT ![p] = "topology"]
      BY <3>1, <1>1
    <3> QED BY <3>1, <3>2
  <2>6. CASE DeclareFails(p) \/ Serve(p) \/ Publish(p)
    BY <2>6 DEF DeclareFails, Serve, Publish
  <2> QED BY <2>1, <2>2, <2>3, <2>4, <2>5, <2>6 DEF CallerMove, CallerStep, RoundTrip
<1> QED BY <1>1, <1>2 DEF MutexInv

LEMMA OtherMutex ==
  ASSUME IInv, World \/ \E k \in Closers : CloserMove(k)
  PROVE  MutexInv'
<1>1. /\ pc \in [Procs -> CallerStates \cup CloserStates]
      /\ MutexInv
      /\ \A k \in Closers : k \in Procs /\ k \notin Callers
  BY Identities DEF IInv, TypeOK
<1>2. CASE World
  <2>1. UNCHANGED <<mu, pc>>
    BY <1>2 DEF World, BreakSession, BreakChannel, WindowElapses, locals
  <2> QED BY <1>1, <2>1 DEF MutexInv
<1>3. ASSUME NEW k \in Closers, CloserMove(k) PROVE MutexInv'
  <2>1. mu' = mu /\ \E label \in CloserStates : pc' = [pc EXCEPT ![k] = label]
    BY <1>3 DEF CloserMove, CloserStep, CallClose, Steal, CloseStolenChannel,
                CloseStolenSession, Goto, CloserStates
  <2> QED BY <1>1, <2>1 DEF MutexInv
<1> QED BY <1>2, <1>3

LEMMA CallerWindow ==
  ASSUME IInv, NEW p \in Callers, CallerMove(p)
  PROVE  WindowInv'
<1> DEFINE Trying == {"reopen", "dial", "open", "rollback"}
<1>1. /\ pc \in [Procs -> CallerStates \cup CloserStates]
      /\ p \in Procs
      /\ \A q \in Callers : q \in Procs
      /\ refusing \in BOOLEAN
      /\ failedAttempts = IF refusing THEN 1 ELSE 0
      /\ \A q \in Callers : pc[q] \in Trying => ~refusing
  BY Identities DEF IInv, TypeOK, WindowInv
<1>2. pc[p] \in InMutex => \A q \in Callers : q # p => pc[q] \notin Trying
  BY DEF IInv, MutexInv, InMutex
<1>3. CASE \/ Call(p) \/ Lock(p) \/ CheckLive(p) \/ DeclareFails(p) \/ Serve(p)
           \/ Publish(p)
  <2>1. /\ UNCHANGED <<refusing, failedAttempts>>
        /\ \E label \in {"lock", "check", "topology", "idle", "publish"} :
             pc' = [pc EXCEPT ![p] = label]
    BY <1>3 DEF Call, Lock, CheckLive, DeclareFails, Serve, Publish, Goto, GiveUp, cache
  <2> QED BY <1>1, <2>1 DEF WindowInv
<1>4. CASE CheckReopen(p) \/ CheckDial(p)
  <2>1. /\ UNCHANGED <<refusing, failedAttempts>>
        /\ \/ pc' = [pc EXCEPT ![p] = "idle"]
           \/ ~refusing /\ \E label \in Trying : pc' = [pc EXCEPT ![p] = label]
    BY <1>4 DEF CheckReopen, CheckDial, Goto, GiveUp, cache
  <2> QED BY <1>1, <2>1 DEF WindowInv
<1>5. CASE Reopen(p) \/ Install(p)
  <2>1. /\ refusing' = FALSE /\ failedAttempts' = 0
        /\ pc' = [pc EXCEPT ![p] = "topology"]
    BY <1>5 DEF Reopen, Install, Goto, Forget
  <2> QED BY <1>1, <2>1 DEF WindowInv
<1>6. CASE ReopenFails(p) \/ DialFails(p) \/ Rollback(p)
  <2>1. /\ pc[p] \in Trying /\ pc[p] \in InMutex
        /\ refusing' = TRUE /\ failedAttempts' = failedAttempts + 1
        /\ pc' = [pc EXCEPT ![p] = "idle"]
    BY <1>6 DEF ReopenFails, DialFails, Rollback, GiveUp, Goto, Remember, InMutex
  <2>2. failedAttempts' = 1
    BY <1>1, <2>1
  <2>3. \A q \in Callers : pc'[q] \notin Trying
    BY <1>1, <1>2, <2>1
  <2> QED BY <2>1, <2>2, <2>3 DEF WindowInv
<1>7. CASE Dial(p) \/ OpenFails(p)
  <2>1. /\ UNCHANGED <<refusing, failedAttempts>>
        /\ pc[p] \in Trying
        /\ \E label \in Trying : pc' = [pc EXCEPT ![p] = label]
    BY <1>7 DEF Dial, OpenFails, Goto, cache
  <2> QED BY <1>1, <2>1 DEF WindowInv
<1>8. CASE Declare(p)
  BY <1>8 DEF Declare, cache, locals, IInv, WindowInv
<1> QED BY <1>3, <1>4, <1>5, <1>6, <1>7, <1>8 DEF CallerMove, CallerStep, RoundTrip

LEMMA OtherWindow ==
  ASSUME IInv, World \/ \E k \in Closers : CloserMove(k)
  PROVE  WindowInv'
<1>1. /\ pc \in [Procs -> CallerStates \cup CloserStates]
      /\ WindowInv
      /\ \A k \in Closers : k \in Procs /\ k \notin Callers
      /\ \A q \in Callers : q \in Procs
  BY Identities DEF IInv, TypeOK
<1>2. \A q \in Callers : pc'[q] = pc[q]
  <2>1. CASE World
    BY <2>1 DEF World, BreakSession, BreakChannel, WindowElapses, locals
  <2>2. ASSUME NEW k \in Closers, CloserMove(k) PROVE \A q \in Callers : pc'[q] = pc[q]
    BY <1>1, <2>2 DEF CloserMove, CloserStep, CallClose, Steal, CloseStolenChannel,
                      CloseStolenSession, Goto
  <2> QED BY <2>1, <2>2
<1>3. \/ UNCHANGED <<refusing, failedAttempts>>
      \/ refusing' = FALSE /\ failedAttempts' = 0
  BY DEF World, BreakSession, BreakChannel, WindowElapses, CloserMove, CloserStep,
         CallClose, Steal, CloseStolenChannel, CloseStolenSession, cache, Forget
<1> QED BY <1>1, <1>2, <1>3 DEF WindowInv

-----------------------------------------------------------------------------
(* Sessions.  Ownership is the function that takes every goroutine, and    *)
(* NULL for the Connection itself, to the session it refers to.            *)

Holders == Procs \cup {NULL}

held ==
  [o \in Holders |-> IF o \in Callers THEN newSession[o]
                     ELSE IF o \in Closers THEN stolen[o] ELSE session]

Owned(h, O) ==
  /\ \A o \in Holders : h[o] # NULL => h[o] \in O
  /\ \A o1, o2 \in Holders : h[o1] = h[o2] /\ h[o1] # NULL => o1 = o2
  /\ \A s \in O : \E o \in Holders : h[o] = s

LEMMA OwnersAreHolders ==
  TypeOK => (OneOwner <=> Owned(held, open))
<1> SUFFICES ASSUME TypeOK PROVE OneOwner <=> Owned(held, open)
  OBVIOUS
<1>1. ASSUME NEW s \in Sessions PROVE Owners(s) = {o \in Holders : held[o] = s}
  <2>1. /\ NULL \notin Callers /\ NULL \notin Closers /\ Callers \cap Closers = {}
        /\ Holders = Callers \cup Closers \cup {NULL}
    BY Identities DEF Holders, Procs
  <2>2. /\ \A p \in Callers : held[p] = newSession[p]
        /\ \A k \in Closers : held[k] = stolen[k]
        /\ held[NULL] = session
    BY <2>1 DEF held
  <2>3. ASSUME NEW o PROVE o \in Owners(s) <=> o \in Holders /\ held[o] = s
    <3>1. CASE o \in Callers
      BY <2>1, <2>2, <3>1 DEF Owners
    <3>2. CASE o \in Closers
      BY <2>1, <2>2, <3>2 DEF Owners
    <3>3. CASE o \notin Callers \cup Closers
      BY <2>1, <2>2, <3>3 DEF Owners
    <3> QED BY <3>1, <3>2, <3>3
  <2> QED BY <2>3
<1>2. open \subseteq Sessions /\ NULL \notin Sessions
  BY Identities DEF TypeOK
<1>3. \A o \in Holders : held[o] \in Sessions \cup {NULL}
  BY Identities DEF TypeOK, held, Holders, Procs
<1> DEFINE H(s) == {o \in Holders : held[o] = s}
<1>4. OneOwner <=> \A s \in Sessions : IF s \in open THEN \E o \in Holders : H(s) = {o}
                                                    ELSE H(s) = {}
  BY <1>1 DEF OneOwner, Holders
<1>5. ASSUME OneOwner PROVE Owned(held, open)
  <2>1. \A s \in open : \E o \in Holders : H(s) = {o}
    BY <1>2, <1>4, <1>5
  <2>2. \A s \in Sessions \ open : H(s) = {}
    BY <1>4, <1>5
  <2>3. \A o \in Holders : held[o] # NULL => held[o] \in open
    BY <1>3, <2>2
  <2>4. ASSUME NEW o1 \in Holders, NEW o2 \in Holders, held[o1] = held[o2], held[o1] # NULL
        PROVE  o1 = o2
    <3>1. o1 \in H(held[o1]) /\ o2 \in H(held[o1])
      BY <2>4
    <3>2. PICK o \in Holders : H(held[o1]) = {o}
      BY <2>1, <2>3, <2>4
    <3> QED BY <3>1, <3>2
  <2>5. \A s \in open : \E o \in Holders : held[o] = s
    BY <2>1
  <2> QED BY <2>3, <2>4, <2>5 DEF Owned
<1>6. ASSUME Owned(held, open) PROVE OneOwner
  <2>1. ASSUME NEW s \in open PROVE \E o \in Holders : H(s) = {o}
    <3>1. PICK o \in Holders : held[o] = s
      BY <1>6 DEF Owned
    <3>2. \A o2 \in Holders : held[o2] = s => o2 = o
      BY <1>2, <1>6, <3>1 DEF Owned
    <3>3. H(s) = {o}
      BY <3>1, <3>2
    <3> QED BY <3>3
  <2>2. ASSUME NEW s \in Sessions \ open PROVE H(s) = {}
    BY <1>2, <1>6 DEF Owned
  <2> QED BY <1>4, <2>1, <2>2
<1> QED BY <1>5, <1>6

\* A new session, in the hands of a holder that had none.
LEMMA OwnedGain ==
  ASSUME NEW h, NEW g, NEW O, NEW a \in Holders, NEW s, Owned(h, O), NULL \notin O,
         h[a] = NULL, s \notin O, s # NULL, g[a] = s,
         \A o \in Holders : o # a => g[o] = h[o]
  PROVE  Owned(g, O \cup {s})
BY DEF Owned

\* A holder closes its session.
LEMMA OwnedDrop ==
  ASSUME NEW h, NEW g, NEW O, NEW a \in Holders, Owned(h, O), NULL \notin O,
         g[a] = NULL, \A o \in Holders : o # a => g[o] = h[o]
  PROVE  Owned(g, O \ {h[a]})
BY DEF Owned

\* A session changes hands.
LEMMA OwnedPass ==
  ASSUME NEW h, NEW g, NEW O, NEW a \in Holders, NEW b \in Holders, a # b, Owned(h, O),
         NULL \notin O, h[b] = NULL, g[b] = h[a], g[a] = NULL,
         \A o \in Holders : o # a /\ o # b => g[o] = h[o]
  PROVE  Owned(g, O)
BY DEF Owned


LEMMA HolderShapes ==
  ASSUME IInv
  PROVE  /\ held = [o \in Holders |-> held[o]]
         /\ NULL \in Holders /\ NULL \notin open
         /\ held[NULL] = session
         /\ \A p \in Callers : p \in Holders /\ p # NULL /\ held[p] = newSession[p]
         /\ \A k \in Closers : k \in Holders /\ k # NULL /\ held[k] = stolen[k]
         /\ held'[NULL] = session'
         /\ \A p \in Callers : held'[p] = newSession'[p]
         /\ \A k \in Closers : held'[k] = stolen'[k]
         /\ \A o \in Holders : o \in Callers \/ o \in Closers \/ o = NULL
         /\ Owned(held, open)
<1>1. Owned(held, open)
  BY OwnersAreHolders DEF IInv, SessionInv
<1>2. NULL \notin open
  BY Identities DEF IInv, TypeOK
<1> QED BY <1>1, <1>2, Identities DEF held, Holders, Procs

\* A step of Channel() leaves the sessions and their holders alone, or one holder
\* gains, closes or passes on a session.
LEMMA CallerOwners ==
  ASSUME IInv, TypeOK', NEW p \in Callers, CallerMove(p)
  PROVE  Owned(held', open')
<1> USE HolderShapes
<1>1. /\ newSession \in [Callers -> Sessions \cup {NULL}]
      /\ open \subseteq Sessions /\ NULL \notin Sessions
  BY Identities DEF IInv, TypeOK
<1>2. CASE UNCHANGED <<open, newSession, stolen, session>>
  <2>1. \A o \in Holders : held'[o] = held[o]
    BY <1>2
  <2> QED BY <1>2, <2>1 DEF Owned
<1>3. CASE Dial(p)
  <2>1. FreshSession \in Sessions /\ FreshSession \notin open
    BY <1>3, FreshSessionIsUnused DEF Dial, UnusedSessions
  <2>2. held[p] = NULL
    BY <1>3 DEF Dial, IInv, SessionInv
  <2>3. /\ newSession' = [newSession EXCEPT ![p] = FreshSession]
        /\ UNCHANGED <<stolen, session>>
        /\ open' = open \cup {FreshSession}
    BY <1>3 DEF Dial, fields
  <2>4. held'[p] = FreshSession /\ \A o \in Holders : o # p => held'[o] = held[o]
    BY <1>1, <2>3
  <2> QED BY <1>1, <2>1, <2>2, <2>3, <2>4, OwnedGain
<1>4. CASE Install(p)
  <2> DEFINE half == [held EXCEPT ![NULL] = NULL]
  <2>1. /\ newSession' = [newSession EXCEPT ![p] = NULL]
        /\ session' = newSession[p]
        /\ open' = open \ {session}
        /\ UNCHANGED stolen
    BY <1>4 DEF Install
  <2>2. half[NULL] = NULL /\ \A o \in Holders : o # NULL => half[o] = held[o]
    OBVIOUS
  <2> HIDE DEF half
  <2>3. Owned(half, open \ {session})
    <3>1. Owned(half, open \ {held[NULL]})
      BY <2>2, OwnedDrop
    <3> QED BY <3>1
  <2>4. /\ held'[NULL] = half[p] /\ held'[p] = NULL
        /\ \A o \in Holders : o # p /\ o # NULL => held'[o] = half[o]
    BY <1>1, <2>1, <2>2
  <2>5. Owned(held', open \ {session})
    BY <2>2, <2>3, <2>4, OwnedPass
  <2> QED BY <2>1, <2>5
<1>5. CASE Rollback(p)
  <2>1. /\ newSession' = [newSession EXCEPT ![p] = NULL]
        /\ open' = open \ {held[p]}
        /\ UNCHANGED <<stolen, session>>
    BY <1>5 DEF Rollback, CloseSession, fields
  <2>2. held'[p] = NULL /\ \A o \in Holders : o # p => held'[o] = held[o]
    BY <1>1, <2>1
  <2>3. Owned(held', open \ {held[p]})
    BY <2>2, OwnedDrop
  <2> QED BY <2>1, <2>3
<1>6. \/ UNCHANGED <<open, newSession, stolen, session>>
      \/ Dial(p) \/ Install(p) \/ Rollback(p)
  BY DEF CallerMove, CallerStep, RoundTrip, Call, Lock, CheckLive, CheckReopen, CheckDial,
         Reopen, ReopenFails, DialFails, OpenFails, Declare, DeclareFails, Serve, Publish,
         fields, broker, locals
<1> QED BY <1>2, <1>3, <1>4, <1>5, <1>6

LEMMA OtherOwners ==
  ASSUME IInv, TypeOK', World \/ \E k \in Closers : CloserMove(k)
  PROVE  Owned(held', open')
<1> USE HolderShapes
<1>1. stolen \in [Closers -> Sessions \cup {NULL}]
  BY DEF IInv, TypeOK
<1>2. CASE UNCHANGED <<open, newSession, stolen, session>>
  <2>1. \A o \in Holders : held'[o] = held[o]
    BY <1>2
  <2> QED BY <1>2, <2>1 DEF Owned
<1>3. ASSUME NEW k \in Closers, Steal(k) PROVE Owned(held', open')
  <2>1. held[k] = NULL
    BY <1>3 DEF Steal, IInv, SessionInv
  <2>2. /\ stolen' = [stolen EXCEPT ![k] = session] /\ session' = NULL
        /\ UNCHANGED <<open, newSession>>
    BY <1>3 DEF Steal, broker
  <2>3. /\ held'[k] = held[NULL] /\ held'[NULL] = NULL
        /\ \A o \in Holders : o # NULL /\ o # k => held'[o] = held[o]
    BY <1>1, <2>2
  <2>4. Owned(held', open)
    BY <2>1, <2>3, OwnedPass
  <2> QED BY <2>2, <2>4
<1>4. ASSUME NEW k \in Closers, CloseStolenSession(k) PROVE Owned(held', open')
  <2>1. /\ stolen' = [stolen EXCEPT ![k] = NULL]
        /\ open' = open \ {held[k]}
        /\ UNCHANGED <<newSession, session>>
    BY <1>4 DEF CloseStolenSession, CloseSession, fields
  <2>2. held'[k] = NULL /\ \A o \in Holders : o # k => held'[o] = held[o]
    BY <1>1, <2>1
  <2>3. Owned(held', open \ {held[k]})
    BY <2>2, OwnedDrop
  <2> QED BY <2>1, <2>3
<1>5. \/ UNCHANGED <<open, newSession, stolen, session>>
      \/ \E k \in Closers : Steal(k) \/ CloseStolenSession(k)
  BY DEF World, BreakSession, BreakChannel, WindowElapses, CloserMove, CloserStep,
         CallClose, CloseStolenChannel, fields, broker, locals
<1> QED BY <1>2, <1>3, <1>4, <1>5

LEMMA OwnersNext ==
  ASSUME TypeOK', Owned(held', open')
  PROVE  OneOwner'
<1>1. (TypeOK => (OneOwner <=> Owned(held, open)))'
  BY OwnersAreHolders, PTL
<1> QED BY <1>1 DEF Owned

LEMMA CallerSessions ==
  ASSUME IInv, TypeOK', NEW p \in Callers, CallerMove(p)
  PROVE  SessionInv'
<1> DEFINE Dialling == {"dial", "open", "rollback"}
<1>1. /\ pc \in [Procs -> CallerStates \cup CloserStates]
      /\ newSession \in [Callers -> Sessions \cup {NULL}]
      /\ carrier \in [Channels -> Sessions \cup {NULL}]
      /\ open \subseteq Sessions /\ alive \subseteq open
      /\ \A c \in Channels : carrier[c] # NULL => carrier[c] \in alive
      /\ \A q \in Callers : newSession[q] # NULL <=> pc[q] \in {"open", "rollback"}
      /\ \A q \in Callers : pc[q] \in Dialling => session \notin alive
      /\ \A k \in Closers : stolen[k] # NULL => pc[k] \in {"closeChannel", "closeSession"}
  BY DEF IInv, TypeOK, SessionInv, SessionLive
<1>2. /\ p \in Procs /\ NULL \notin Sessions
      /\ \A q \in Callers : q \in Procs
      /\ \A k \in Closers : k \in Procs /\ k # p
  BY Identities
<1>3. pc[p] \in InMutex => \A q \in Callers : q # p => pc[q] \notin Dialling
  BY DEF IInv, MutexInv, InMutex
<1>4. OneOwner'
  BY CallerOwners, OwnersNext
<1>5. SUFFICES /\ alive' \subseteq open'
               /\ \A c \in Channels : carrier'[c] # NULL => carrier'[c] \in alive'
               /\ \A q \in Callers : newSession'[q] # NULL <=> pc'[q] \in {"open", "rollback"}
               /\ \A q \in Callers : pc'[q] \in Dialling => session' \notin alive'
               /\ \A k \in Closers : stolen'[k] # NULL
                                      => pc'[k] \in {"closeChannel", "closeSession"}
  BY <1>4 DEF SessionInv, SessionLive
<1>6. stolen' = stolen /\ \E label : pc' = [pc EXCEPT ![p] = label]
  <2>1. CASE Declare(p)
    BY <1>1, <2>1 DEF Declare, locals
  <2> QED BY <2>1 DEF CallerMove, CallerStep, RoundTrip, Call, Lock, CheckLive, CheckReopen,
      CheckDial, Reopen, ReopenFails, Dial, DialFails, Install, OpenFails, Rollback,
      DeclareFails, Serve, Publish, locals, Goto, GiveUp
<1>7. \A k \in Closers : stolen'[k] # NULL => pc'[k] \in {"closeChannel", "closeSession"}
  BY <1>1, <1>2, <1>6
<1>8. CASE /\ UNCHANGED <<alive, open, carrier, session, newSession>>
           /\ \E label : /\ pc' = [pc EXCEPT ![p] = label]
                         /\ label \in {"open", "rollback"} <=> pc[p] \in {"open", "rollback"}
                         /\ label \in Dialling => session \notin alive
  BY <1>1, <1>2, <1>7, <1>8
<1>9. CASE Reopen(p)
  <2>1. /\ carrier' = [carrier EXCEPT ![FreshChannel] = session]
        /\ pc' = [pc EXCEPT ![p] = "topology"] /\ pc[p] = "reopen"
        /\ session \in alive
        /\ UNCHANGED <<alive, open, session, newSession>>
    BY <1>9 DEF Reopen, Goto, SessionLive
  <2> QED BY <1>1, <1>2, <1>7, <2>1
<1>10. CASE Dial(p)
  <2>1. FreshSession \in Sessions /\ FreshSession \notin open
    BY <1>10, FreshSessionIsUnused DEF Dial, UnusedSessions
  <2>2. /\ alive' = alive \cup {FreshSession} /\ open' = open \cup {FreshSession}
        /\ newSession' = [newSession EXCEPT ![p] = FreshSession]
        /\ pc' = [pc EXCEPT ![p] = "open"] /\ pc[p] = "dial" /\ pc[p] \in InMutex
        /\ UNCHANGED <<carrier, session>>
    BY <1>10 DEF Dial, Goto, fields, InMutex
  <2>3. session # FreshSession
    BY <2>1, HolderShapes, Identities DEF Owned
  <2> QED BY <1>1, <1>2, <1>3, <1>7, <2>1, <2>2, <2>3
<1>11. CASE Install(p)
  <2>1. /\ alive' = alive \ {session} /\ open' = open \ {session}
        /\ carrier' = [carrier EXCEPT ![FreshChannel] = newSession[p]]
        /\ newSession' = [newSession EXCEPT ![p] = NULL]
        /\ pc' = [pc EXCEPT ![p] = "topology"] /\ pc[p] = "open" /\ pc[p] \in InMutex
        /\ newSession[p] \in alive
    BY <1>11 DEF Install, Goto, InMutex
  <2>2. session \notin alive
    BY <1>1, <2>1
  <2>3. alive' = alive /\ alive' \subseteq open'
    BY <1>1, <2>1, <2>2
  <2> QED BY <1>1, <1>2, <1>3, <1>7, <2>1, <2>3
<1>12. CASE Rollback(p)
  <2>1. /\ alive' = alive \ {newSession[p]} /\ open' = open \ {newSession[p]}
        /\ carrier' = CutOff(newSession[p])
        /\ newSession' = [newSession EXCEPT ![p] = NULL]
        /\ pc' = [pc EXCEPT ![p] = "idle"] /\ pc[p] = "rollback" /\ pc[p] \in InMutex
        /\ session' = session
    BY <1>12 DEF Rollback, CloseSession, GiveUp, Goto, InMutex, fields
  <2>2. \A c \in Channels : carrier'[c] # NULL => carrier'[c] \in alive'
    BY <1>1, <2>1 DEF CutOff
  <2> QED BY <1>1, <1>2, <1>3, <1>7, <2>1, <2>2
<1>13. CASE Declare(p)
  <2>1. UNCHANGED <<alive, open, carrier, session, newSession, pc>>
    BY <1>13 DEF Declare, locals
  <2> QED BY <1>1, <1>7, <2>1
<1>14. CASE CheckReopen(p) \/ CheckDial(p) \/ ReopenFails(p) \/ DialFails(p) \/ OpenFails(p)
  BY <1>1, <1>8, <1>14 DEF CheckReopen, CheckDial, ReopenFails, DialFails, OpenFails,
     fields, broker, locals, Goto, GiveUp, SessionLive
<1>15. CASE Call(p) \/ Lock(p) \/ CheckLive(p) \/ DeclareFails(p) \/ Serve(p) \/ Publish(p)
  BY <1>8, <1>15 DEF Call, Lock, CheckLive, DeclareFails, Serve, Publish,
     fields, broker, locals, Goto, GiveUp
<1> QED BY <1>9, <1>10, <1>11, <1>12, <1>13, <1>14, <1>15
    DEF CallerMove, CallerStep, RoundTrip

LEMMA OtherSessions ==
  ASSUME IInv, TypeOK', World \/ \E k \in Closers : CloserMove(k)
  PROVE  SessionInv'
<1> DEFINE Rest ==
      /\ alive' \subseteq open'
      /\ \A c \in Channels : carrier'[c] # NULL => carrier'[c] \in alive'
      /\ \A q \in Callers : newSession'[q] # NULL <=> pc'[q] \in {"open", "rollback"}
      /\ \A q \in Callers : pc'[q] \in {"dial", "open", "rollback"} => session' \notin alive'
      /\ \A k \in Closers : stolen'[k] # NULL => pc'[k] \in {"closeChannel", "closeSession"}
<1>1. /\ pc \in [Procs -> CallerStates \cup CloserStates]
      /\ stolen \in [Closers -> Sessions \cup {NULL}]
      /\ handle \in [Procs -> Channels \cup {NULL}]
      /\ carrier \in [Channels -> Sessions \cup {NULL}]
      /\ alive \subseteq open
      /\ NULL \notin alive
      /\ \A c \in Channels : carrier[c] # NULL => carrier[c] \in alive
      /\ \A q \in Callers : newSession[q] # NULL <=> pc[q] \in {"open", "rollback"}
      /\ \A q \in Callers : pc[q] \in {"dial", "open", "rollback"} => session \notin alive
      /\ \A k \in Closers : stolen[k] # NULL => pc[k] \in {"closeChannel", "closeSession"}
  BY Identities DEF IInv, TypeOK, SessionInv, SessionLive
<1>2. /\ \A q \in Callers : q \in Procs
      /\ \A k \in Closers : k \in Procs /\ k \notin Callers
  BY Identities
<1>3. OneOwner'
  BY OtherOwners, OwnersNext
<1>4. ASSUME NEW s \in Sessions, BreakSession(s)
      PROVE  /\ alive' = alive \ {s} /\ carrier' = CutOff(s)
             /\ UNCHANGED <<open, session, newSession, stolen, pc>>
  BY <1>4 DEF BreakSession, fields, locals
<1>5. ASSUME NEW c \in Channels, BreakChannel(c)
      PROVE  /\ carrier' = [carrier EXCEPT ![c] = NULL]
             /\ UNCHANGED <<alive, open, session, newSession, stolen, pc>>
  BY <1>5 DEF BreakChannel, fields, locals
<1>6. ASSUME World PROVE Rest
  <2>1. CASE WindowElapses
    BY <1>1, <2>1 DEF WindowElapses, fields, broker, locals
  <2>2. ASSUME NEW s \in Sessions, BreakSession(s)
        PROVE  \A c \in Channels : carrier'[c] # NULL => carrier'[c] \in alive'
    BY <1>1, <1>4, <2>2 DEF CutOff
  <2> QED BY <1>1, <1>4, <1>5, <1>6, <2>1, <2>2 DEF World
<1>7. ASSUME NEW k \in Closers, CallClose(k) \/ Steal(k) PROVE Rest
  <2>2. CASE CallClose(k)
    <3>1. /\ UNCHANGED <<alive, open, carrier, newSession, session, stolen>>
          /\ pc' = [pc EXCEPT ![k] = "lock"] /\ pc[k] = "idle"
      BY <2>2 DEF CallClose, fields, broker, Goto
    <3>2. \A j \in Closers : stolen'[j] # NULL => pc'[j] \in {"closeChannel", "closeSession"}
      BY <1>1, <1>2, <3>1
    <3> QED BY <1>1, <1>2, <3>1, <3>2
  <2>3. CASE Steal(k)
    <3>1. /\ UNCHANGED <<alive, open, carrier, newSession>>
          /\ session' = NULL
          /\ stolen' = [stolen EXCEPT ![k] = session]
          /\ \/ pc' = [pc EXCEPT ![k] = "closeChannel"]
             \/ session = NULL /\ pc' = [pc EXCEPT ![k] = "idle"]
      BY <2>3 DEF Steal, broker, Goto
    <3>2. \A j \in Closers : stolen'[j] # NULL => pc'[j] \in {"closeChannel", "closeSession"}
      BY <1>1, <1>2, <3>1
    <3> QED BY <1>1, <1>2, <3>1, <3>2
  <2> QED BY <1>7, <2>2, <2>3
<1>8. ASSUME NEW k \in Closers, CloseStolenChannel(k) PROVE Rest
  <2>1. /\ UNCHANGED <<alive, open, session, newSession, stolen>>
        /\ carrier' = IF handle[k] = NULL THEN carrier ELSE [carrier EXCEPT ![handle[k]] = NULL]
        /\ pc' = [pc EXCEPT ![k] = "closeSession"]
    BY <1>8 DEF CloseStolenChannel, fields, Goto
  <2>2. \A c \in Channels : carrier'[c] # NULL => carrier'[c] \in alive'
    BY <1>1, <1>2, <2>1
  <2> QED BY <1>1, <1>2, <2>1, <2>2
<1>9. ASSUME NEW k \in Closers, CloseStolenSession(k) PROVE Rest
  <2>1. /\ alive' = alive \ {stolen[k]} /\ open' = open \ {stolen[k]}
        /\ carrier' = CutOff(stolen[k])
        /\ stolen' = [stolen EXCEPT ![k] = NULL]
        /\ pc' = [pc EXCEPT ![k] = "idle"]
        /\ UNCHANGED <<session, newSession>>
    BY <1>9 DEF CloseStolenSession, CloseSession, fields, Goto
  <2>2. \A c \in Channels : carrier'[c] # NULL => carrier'[c] \in alive'
    BY <1>1, <2>1 DEF CutOff
  <2>3. \A j \in Closers : stolen'[j] # NULL => pc'[j] \in {"closeChannel", "closeSession"}
    BY <1>1, <1>2, <2>1
  <2> QED BY <1>1, <1>2, <2>1, <2>2, <2>3
<1>10. Rest
  BY <1>6, <1>7, <1>8, <1>9 DEF CloserMove, CloserStep
<1> QED BY <1>3, <1>10 DEF SessionInv, SessionLive

-----------------------------------------------------------------------------
(* The topology and the channels that are served.                          *)

\* TopologyInv and HandleInv, with the channel's liveness expanded.
LEMMA TopologyFacts ==
  ASSUME IInv
  PROVE  /\ pc \in [Procs -> CallerStates \cup CloserStates]
         /\ handle \in [Procs -> Channels \cup {NULL}]
         /\ declared \in [Channels -> 0..Declarations]
         /\ carrier \in [Channels -> Sessions \cup {NULL}]
         /\ channel \in Channels \cup {NULL} /\ NULL \notin Channels /\ NULL \notin Sessions
         /\ topologyDeclared \in BOOLEAN
         /\ topologyDeclared => channel # NULL /\ declared[channel] = Declarations
         /\ channel # NULL /\ carrier[channel] # NULL /\ ~topologyDeclared
              => declared[channel] < Declarations
         /\ \A q \in Callers : pc[q] = "reopen" => ~topologyDeclared
         /\ \A q \in Callers : pc[q] = "topology" => channel # NULL
         /\ \A q \in Callers : pc[q] = "topology" /\ ~topologyDeclared
                              => declared[channel] < Declarations
         /\ \A q \in Callers : pc[q] = "publish" <=> handle[q] # NULL
         /\ \A q \in Callers : handle[q] # NULL => declared[handle[q]] = Declarations
BY Identities DEF IInv, TypeOK, TopologyInv, FlagIsTrue, ChannelLive, HandleInv

LEMMA CallerTopology ==
  ASSUME IInv, NEW p \in Callers, CallerMove(p)
  PROVE  TopologyInv' /\ HandleInv'
<1> USE TopologyFacts
<1>1. /\ p \in Procs /\ Declarations \in Nat \ {0}
      /\ \A q \in Callers : q \in Procs
  BY Identities
<1>2. pc[p] \in InMutex => \A q \in Callers : q # p => pc[q] \notin InMutex
  BY DEF IInv, MutexInv
<1>3. ASSUME NEW label \in CallerStates, pc' = [pc EXCEPT ![p] = label],
             pc[p] # "publish", label \notin {"reopen", "topology", "publish"},
             UNCHANGED <<channel, topologyDeclared, declared, handle>>,
             \A c \in Channels : carrier'[c] \in {carrier[c], NULL}
      PROVE  TopologyInv' /\ HandleInv'
  <2>1. TopologyInv'
    BY <1>1, <1>3 DEF TopologyInv, FlagIsTrue, ChannelLive
  <2>2. HandleInv'
    BY <1>1, <1>3 DEF HandleInv
  <2> QED BY <2>1, <2>2
<1>4. CASE \/ Call(p) \/ Lock(p) \/ CheckDial(p) \/ ReopenFails(p) \/ Dial(p) \/ DialFails(p)
           \/ OpenFails(p)
  <2>1. /\ UNCHANGED <<channel, topologyDeclared, declared, handle, carrier>>
        /\ pc[p] # "publish"
        /\ \E label \in {"lock", "check", "idle", "dial", "open", "rollback"} :
             pc' = [pc EXCEPT ![p] = label]
    BY <1>4 DEF Call, Lock, CheckDial, ReopenFails, Dial, DialFails, OpenFails, Goto, GiveUp,
       fields, broker
  <2> QED BY <1>3, <2>1 DEF CallerStates
<1>5. CASE Rollback(p)
  <2>1. /\ UNCHANGED <<channel, topologyDeclared, declared, handle>>
        /\ pc[p] # "publish" /\ pc' = [pc EXCEPT ![p] = "idle"]
        /\ \A c \in Channels : carrier'[c] \in {carrier[c], NULL}
    BY <1>5 DEF Rollback, GiveUp, Goto, fields, CloseSession, CutOff
  <2> QED BY <1>3, <2>1 DEF CallerStates
<1>6. CASE CheckLive(p)
  <2>1. /\ UNCHANGED <<channel, topologyDeclared, declared, handle, carrier>>
        /\ pc[p] = "check" /\ pc' = [pc EXCEPT ![p] = "topology"]
        /\ channel # NULL /\ carrier[channel] # NULL
    BY <1>6 DEF CheckLive, Goto, fields, broker, ChannelLive
  <2>2. TopologyInv'
    BY <1>1, <2>1 DEF TopologyInv, FlagIsTrue, ChannelLive
  <2>3. HandleInv'
    BY <1>1, <2>1 DEF HandleInv
  <2> QED BY <2>2, <2>3
<1>7. CASE CheckReopen(p)
  <2>1. /\ UNCHANGED <<channel, declared, handle, carrier>>
        /\ topologyDeclared' = FALSE
        /\ pc[p] = "check" /\ \E l \in {"idle", "reopen"} : pc' = [pc EXCEPT ![p] = l]
        /\ ~(channel # NULL /\ carrier[channel] # NULL)
    BY <1>7 DEF CheckReopen, GiveUp, Goto, broker, ChannelLive
  <2>2. TopologyInv'
    BY <1>1, <1>2, <2>1 DEF TopologyInv, FlagIsTrue, ChannelLive, InMutex
  <2>3. HandleInv'
    BY <1>1, <2>1 DEF HandleInv
  <2> QED BY <2>2, <2>3
<1>8. CASE Reopen(p) \/ Install(p)
  <2>1. FreshChannel \in Channels /\ \A q \in Procs : handle[q] # FreshChannel
    BY <1>8, FreshChannelIsUnused DEF Reopen, Install, UnusedChannels
  <2>2. /\ channel' = FreshChannel
        /\ declared' = [declared EXCEPT ![FreshChannel] = 0]
        /\ topologyDeclared' = FALSE
        /\ handle' = handle
        /\ pc[p] \in {"reopen", "open"} /\ pc' = [pc EXCEPT ![p] = "topology"]
    BY <1>8 DEF Reopen, Install, Goto
  <2>3. declared'[channel'] = 0 /\ 0 < Declarations
    BY <1>1, <2>1, <2>2
  <2>4. \A q \in Callers : pc'[q] # "reopen"
    BY <1>1, <1>2, <2>2 DEF InMutex
  <2>5. TopologyInv'
    BY <2>1, <2>2, <2>3, <2>4 DEF TopologyInv, FlagIsTrue, ChannelLive
  <2>6. HandleInv'
    BY <1>1, <2>1, <2>2 DEF HandleInv
  <2> QED BY <2>5, <2>6
<1>9. CASE Declare(p)
  <2>1. /\ UNCHANGED <<channel, handle, carrier, pc>>
        /\ pc[p] = "topology" /\ ~topologyDeclared
        /\ declared' = [declared EXCEPT ![channel] = @ + 1]
    BY <1>9 DEF Declare, locals
  <2>2. topologyDeclared' <=> declared[channel] + 1 = Declarations
    BY <1>9, Zenon DEF Declare
  <2>3. /\ channel \in Channels /\ declared[channel] \in Nat
        /\ declared[channel] < Declarations
        /\ declared'[channel] = declared[channel] + 1
    BY <2>1
  <2>4. \A q \in Callers : pc[q] # "reopen"
    BY <1>1, <1>2, <2>1 DEF InMutex
  <2>5. TopologyInv'
    BY <1>1, <2>1, <2>2, <2>3, <2>4 DEF TopologyInv, FlagIsTrue, ChannelLive
  <2>6. HandleInv'
    BY <1>1, <2>1, <2>3 DEF HandleInv
  <2> QED BY <2>5, <2>6
<1>10. CASE DeclareFails(p)
  <2>1. /\ UNCHANGED <<channel, handle, carrier, topologyDeclared>>
        /\ pc[p] = "topology" /\ ~topologyDeclared /\ pc' = [pc EXCEPT ![p] = "idle"]
        /\ declared' = [declared EXCEPT ![channel] = 0]
    BY <1>10 DEF DeclareFails, GiveUp, Goto, fields
  <2>2. channel \in Channels /\ declared[channel] < Declarations /\ declared'[channel] = 0
    BY <2>1
  <2>3. TopologyInv'
    BY <1>1, <2>1, <2>2 DEF TopologyInv, FlagIsTrue, ChannelLive
  <2>4. HandleInv'
    BY <1>1, <2>1, <2>2 DEF HandleInv
  <2> QED BY <2>3, <2>4
<1>11. CASE Serve(p) \/ Publish(p)
  <2>1. /\ UNCHANGED <<channel, topologyDeclared, declared, carrier>>
        /\ \/ /\ pc[p] = "topology" /\ topologyDeclared
              /\ handle' = [handle EXCEPT ![p] = channel]
              /\ pc' = [pc EXCEPT ![p] = "publish"]
           \/ /\ handle' = [handle EXCEPT ![p] = NULL]
              /\ pc' = [pc EXCEPT ![p] = "idle"]
    BY <1>11 DEF Serve, Publish, Goto, fields, broker
  <2>2. TopologyInv'
    BY <1>1, <2>1 DEF TopologyInv, FlagIsTrue, ChannelLive
  <2>3. HandleInv'
    BY <1>1, <2>1 DEF HandleInv
  <2> QED BY <2>2, <2>3
<1> QED BY <1>4, <1>5, <1>6, <1>7, <1>8, <1>9, <1>10, <1>11
    DEF CallerMove, CallerStep, RoundTrip

LEMMA OtherTopology ==
  ASSUME IInv, World \/ \E k \in Closers : CloserMove(k)
  PROVE  TopologyInv' /\ HandleInv'
<1> USE TopologyFacts
<1>1. /\ \A q \in Callers : q \in Procs
      /\ \A k \in Closers : k \in Procs /\ k \notin Callers
  BY Identities
<1>2. ASSUME UNCHANGED <<channel, topologyDeclared, declared>>,
             \A c \in Channels : carrier'[c] \in {carrier[c], NULL},
             \A q \in Callers : pc'[q] = pc[q] /\ handle'[q] = handle[q]
      PROVE  TopologyInv' /\ HandleInv'
  <2>1. TopologyInv'
    BY <1>2 DEF TopologyInv, FlagIsTrue, ChannelLive
  <2>2. HandleInv'
    BY <1>2 DEF HandleInv
  <2> QED BY <2>1, <2>2
<1>3. CASE World
  <2>1. /\ UNCHANGED <<channel, topologyDeclared, declared, pc, handle>>
        /\ \A c \in Channels : carrier'[c] \in {carrier[c], NULL}
    BY <1>3 DEF World, BreakSession, BreakChannel, WindowElapses, CutOff, fields, broker, locals
  <2> QED BY <1>2, <2>1
<1>4. ASSUME NEW k \in Closers, CallClose(k) \/ CloseStolenChannel(k) \/ CloseStolenSession(k)
      PROVE  TopologyInv' /\ HandleInv'
  <2>1. /\ UNCHANGED <<channel, topologyDeclared, declared>>
        /\ \E label : pc' = [pc EXCEPT ![k] = label]
        /\ handle' = handle \/ handle' = [handle EXCEPT ![k] = NULL]
    BY <1>4 DEF CallClose, CloseStolenChannel, CloseStolenSession, Goto, fields, broker
  <2>2. \A c \in Channels : carrier'[c] \in {carrier[c], NULL}
    BY <1>4 DEF CallClose, CloseStolenChannel, CloseStolenSession, CloseSession, CutOff, broker
  <2>3. \A q \in Callers : pc'[q] = pc[q] /\ handle'[q] = handle[q]
    BY <1>1, <2>1
  <2> QED BY <1>2, <2>1, <2>2, <2>3
<1>5. ASSUME NEW k \in Closers, Steal(k) PROVE TopologyInv' /\ HandleInv'
  <2>1. /\ channel' = NULL /\ topologyDeclared' = FALSE /\ UNCHANGED <<declared, carrier>>
        /\ \E label : pc' = [pc EXCEPT ![k] = label]
        /\ handle' = [handle EXCEPT ![k] = channel]
        /\ mu = NULL
    BY <1>5 DEF Steal, Goto, broker, LockFree
  <2>2. \A q \in Callers : pc'[q] = pc[q] /\ handle'[q] = handle[q]
    BY <1>1, <2>1
  <2>3. \A q \in Callers : pc[q] \notin InMutex
    BY <2>1, Identities DEF IInv, MutexInv
  <2>4. TopologyInv'
    BY <2>1, <2>2, <2>3 DEF TopologyInv, FlagIsTrue, ChannelLive, InMutex
  <2>5. HandleInv'
    BY <2>1, <2>2 DEF HandleInv
  <2> QED BY <2>4, <2>5
<1> QED BY <1>3, <1>4, <1>5 DEF CloserMove, CloserStep

-----------------------------------------------------------------------------
(* The theorems.                                                           *)

LEMMA InvStep == IInv /\ [Next]_vars => IInv'
<1> SUFFICES ASSUME IInv, [Next]_vars PROVE IInv'
  OBVIOUS
<1>1. ASSUME NEW p \in Callers, CallerMove(p) PROVE IInv'
  BY <1>1, CallerType, CallerMutex, CallerSessions, CallerTopology, CallerWindow DEF IInv
<1>2. ASSUME World \/ \E k \in Closers : CloserMove(k) PROVE IInv'
  BY <1>2, OtherType, OtherMutex, OtherSessions, OtherTopology, OtherWindow DEF IInv
<1>3. CASE UNCHANGED vars
  <2> USE <1>3 DEF vars, fields, cache, broker, locals
  <2>1. TypeOK'
    BY DEF IInv, TypeOK
  <2>2. MutexInv' /\ WindowInv'
    BY DEF IInv, MutexInv, WindowInv
  <2>3. SessionInv'
    BY DEF IInv, SessionInv, SessionLive, OneOwner, Owners
  <2>4. TopologyInv' /\ HandleInv'
    BY DEF IInv, TopologyInv, FlagIsTrue, ChannelLive, HandleInv
  <2> QED BY <2>1, <2>2, <2>3, <2>4 DEF IInv
<1> QED BY <1>1, <1>2, <1>3 DEF Next, CallerMove, CloserMove, World

\* The inductive invariant holds always.
THEOREM Invariance == Spec => []IInv
BY InitInv, InvStep, PTL DEF Spec

\* Every variable of the connection keeps its type.
THEOREM TypeCorrect == Spec => []TypeOK
<1>1. IInv => TypeOK
  BY DEF IInv
<1> QED BY <1>1, Invariance, PTL

\* connection.go never leaks an AMQP session and never closes one that somebody still
\* uses, whatever the interleaving of reconnects, failures and Close.
THEOREM NoSessionLeaks == Spec => []OneOwner
<1>1. IInv => OneOwner
  BY DEF IInv, SessionInv
<1> QED BY <1>1, Invariance, PTL

\* topologyDeclared is never stale: it is up only when the installed channel has had
\* every declaration.
THEOREM FlagNeverStale == Spec => []FlagIsTrue
<1>1. IInv => FlagIsTrue
  BY DEF IInv, TopologyInv
<1> QED BY <1>1, Invariance, PTL

\* Every channel that Channel() serves is one on which the whole topology was declared.
THEOREM ServedWithTopology == Spec => []ServedDeclared
<1>1. IInv => ServedDeclared
  BY DEF IInv, TopologyInv, HandleInv, ServedDeclared
<1> QED BY <1>1, Invariance, PTL

\* The publishers together make at most one failing attempt to connect per window.
THEOREM OneAttempt == Spec => []OneAttemptPerWindow
<1>1. IInv => OneAttemptPerWindow
  BY DEF IInv, WindowInv, OneAttemptPerWindow
<1> QED BY <1>1, Invariance, PTL

=============================================================================
