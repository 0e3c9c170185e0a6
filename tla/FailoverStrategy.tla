-------------------------- MODULE FailoverStrategy --------------------------
(***************************************************************************)
(* FailoverStrategy (src/base/net/stratum/strategies/FailoverStrategy.cpp) *)
(* together with the N pool clients it owns.                               *)
(*                                                                         *)
(* Every step is one turn of the single-threaded event loop: a call of the *)
(* owner (connect, stop, tick) or one client callback (onClose,            *)
(* onLoginSuccess) run to completion, including every client method the    *)
(* handler calls.  The clients (IClient, not under src/) are modelled from *)
(* the spec: a client is disconnected, connecting, waiting on its own      *)
(* reconnect timer, or authorized; it counts its consecutive failures.     *)
(***************************************************************************)
EXTENDS Naturals, Integers, FiniteSets

CONSTANTS
    N,          \* number of pools, m_pools.size()
    Retries,    \* m_retries, fixed at construction
    Reachable,  \* pools whose connection attempts can end in a login
    Failing,    \* pools whose connection attempts can fail
    MaxDrops,   \* bound on drops of an authorized connection
    MaxStops    \* bound on the owner's calls of stop()

ASSUME NAssumption == N \in Nat \ {0}
ASSUME RetriesAssumption == Retries \in Nat
ASSUME ReachableAssumption ==
    /\ Reachable \subseteq 0..(N - 1)
    /\ Failing \subseteq 0..(N - 1)
    /\ Reachable \cup Failing = 0..(N - 1)
ASSUME BoundsAssumption == MaxDrops \in Nat /\ MaxStops \in Nat

Pools == 0..(N - 1)         \* client ids: a client's id is its index
NoPool == -1                \* m_active when no pool is active

ClientStates == {"disconnected", "connecting", "waiting", "authorized"}

VARIABLES
    index,              \* m_index
    active,             \* m_active
    pendingConnect,     \* m_pendingConnect
    pendingIndex,       \* m_pendingIndex
    minAcceptableIndex, \* m_minAcceptableIndex
    conn,               \* conn[c]: connection state of client c
    failures,           \* failures[c]: client c's consecutive-failure count
    wanted,             \* the owner's last call was connect() (not stop())
    drops,              \* number of drops so far (bounded by MaxDrops)
    stops               \* number of stop() calls so far (bounded by MaxStops)

strategyVars == <<index, active, pendingConnect, pendingIndex, minAcceptableIndex>>
clientVars == <<conn, failures>>
vars == <<strategyVars, clientVars, wanted, drops, stops>>

-----------------------------------------------------------------------------
(* The client methods the strategy calls, as functions of the clients'    *)
(* state.  connect() is a no-op on a client that is already connecting or  *)
(* authorized; disconnect() cancels the reconnect timer and marks the      *)
(* failure count -1, so the next failure reports 0.                        *)

ClientConnect(cn, c) ==
    [cn EXCEPT ![c] = IF @ \in {"connecting", "authorized"} THEN @ ELSE "connecting"]

ClientDisconnect(cn, S) ==
    [i \in Pools |-> IF i \in S THEN "disconnected" ELSE cn[i]]

DisconnectFailures(fl, S) ==
    [i \in Pools |-> IF i \in S THEN -1 ELSE fl[i]]

\* The failure count a closing client reports.  Counts at or above Retries
\* are not told apart by the strategy, so the count saturates there.
NextFailures(fl, c) == IF fl[c] + 1 > Retries THEN Retries ELSE fl[c] + 1

IsActive == active # NoPool

-----------------------------------------------------------------------------
Init ==
    /\ index = 0
    /\ active = NoPool
    /\ pendingConnect = FALSE
    /\ pendingIndex = 0
    /\ minAcceptableIndex = 0
    /\ conn = [c \in Pools |-> "disconnected"]
    /\ failures = [c \in Pools |-> 0]
    /\ wanted = FALSE
    /\ drops = 0
    /\ stops = 0

\* FailoverStrategy::connect(): connect the current candidate.
Connect ==
    /\ conn' = ClientConnect(conn, index)
    /\ wanted' = TRUE
    /\ UNCHANGED <<strategyVars, failures, drops, stops>>

\* Mutant: the disconnect loop of stop() stops one pool short.
StopFromSkipsLast(pc) ==
    /\ conn' = ClientDisconnect(conn, 0..(N - 2))
    /\ failures' = DisconnectFailures(failures, 0..(N - 2))
    /\ index' = 0
    /\ active' = NoPool
    /\ wanted' = FALSE
    /\ pendingConnect' = pc
    /\ UNCHANGED <<pendingIndex, minAcceptableIndex, drops>>

\* Mutant: stop() disconnects every client but keeps m_active.
StopFromKeepsActive(pc) ==
    /\ conn' = ClientDisconnect(conn, Pools)
    /\ failures' = DisconnectFailures(failures, Pools)
    /\ index' = 0
    /\ wanted' = FALSE
    /\ pendingConnect' = pc
    /\ UNCHANGED <<active, pendingIndex, minAcceptableIndex, drops>>

\* FailoverStrategy::stop(): disconnect every client, reset m_index and
\* m_active, emit onPause.  m_pendingConnect is left as it is; pc is its
\* value at the call (an owner that ticks the strategy in the same turn
\* first, DonateStrategy, passes the value tick() left).
StopFrom(pc) ==
    /\ conn' = ClientDisconnect(conn, Pools)
    /\ failures' = DisconnectFailures(failures, Pools)
    /\ index' = 0
    /\ active' = NoPool
    /\ wanted' = FALSE
    /\ pendingConnect' = pc
    /\ UNCHANGED <<pendingIndex, minAcceptableIndex, drops>>

\* The owner calls stop() (at most MaxStops times).
Stop ==
    /\ stops < MaxStops
    /\ StopFrom(pendingConnect)
    /\ stops' = stops + 1

\* connectNext() has a deferred connect to drain.
ConnectNextDrains == pendingConnect /\ pendingIndex < N

\* FailoverStrategy::tick(now): every client's tick() fires the reconnect
\* timers that have expired (the clients in S), then connectNext() drains
\* a deferred connect.
Tick(S) ==
    LET cn == [c \in Pools |-> IF c \in S THEN "connecting" ELSE conn[c]]
    IN  /\ \A c \in S : conn[c] = "waiting"
        /\ IF ConnectNextDrains
             THEN /\ pendingConnect' = FALSE
                  /\ index' = pendingIndex
                  /\ conn' = ClientConnect(cn, pendingIndex)
             ELSE /\ conn' = cn
                  /\ UNCHANGED <<pendingConnect, index>>
        /\ UNCHANGED <<active, pendingIndex, minAcceptableIndex, failures,
                       wanted, drops, stops>>

\* FailoverStrategy::onClose(client, failures) for a close that is not an
\* explicit disconnect, one operator per branch.  cn and fl are the
\* clients' state when the callback runs.  Every branch first clears
\* m_active (and emits onPause) if the closing client was the active one.
ClearActive(c) == active' = IF active = c THEN NoPool ELSE active

\* m_retries == 0, a pool below m_minAcceptableIndex: re-disconnect it.
CloseBelowMinimum(c, cn, fl) ==
    /\ Retries = 0
    /\ c < minAcceptableIndex
    /\ ClearActive(c)
    /\ conn' = ClientDisconnect(cn, {c})
    /\ failures' = DisconnectFailures(fl, {c})
    /\ UNCHANGED <<index, pendingConnect, pendingIndex, minAcceptableIndex>>

\* Mutant: the wrap-around to pool 0 is missing.
CloseCurrentDeferredNoWrap(c, cn, fl) ==
    /\ Retries = 0
    /\ c >= minAcceptableIndex
    /\ index = c
    /\ ClearActive(c)
    /\ conn' = ClientDisconnect(cn, 0..index)
    /\ failures' = DisconnectFailures(fl, 0..index)
    /\ pendingIndex' = index + 1
    /\ minAcceptableIndex' = index + 1
    /\ pendingConnect' = TRUE
    /\ UNCHANGED index

\* Mutant: the wrap-around keeps m_minAcceptableIndex.
CloseCurrentDeferredKeepMin(c, cn, fl) ==
    /\ Retries = 0
    /\ c >= minAcceptableIndex
    /\ index = c
    /\ ClearActive(c)
    /\ conn' = ClientDisconnect(cn, 0..index)
    /\ failures' = DisconnectFailures(fl, 0..index)
    /\ pendingIndex' = IF N - index > 1 THEN index + 1 ELSE 0
    /\ minAcceptableIndex' = IF N - index > 1 THEN index + 1 ELSE minAcceptableIndex
    /\ pendingConnect' = TRUE
    /\ UNCHANGED index

\* m_retries == 0, the current pool: silence pools 0..m_index and defer
\* the connect of the next pool (or of pool 0, wrapping around) to tick().
CloseCurrentDeferred(c, cn, fl) ==
    /\ Retries = 0
    /\ c >= minAcceptableIndex
    /\ index = c
    /\ ClearActive(c)
    /\ conn' = ClientDisconnect(cn, 0..index)
    /\ failures' = DisconnectFailures(fl, 0..index)
    /\ pendingIndex' = IF N - index > 1 THEN index + 1 ELSE 0
    /\ minAcceptableIndex' = IF N - index > 1 THEN index + 1 ELSE 0
    /\ pendingConnect' = TRUE
    /\ UNCHANGED index

\* m_retries == 0, some other pool: nothing more to do.
CloseOther(c, cn, fl) ==
    /\ Retries = 0
    /\ c >= minAcceptableIndex
    /\ index # c
    /\ ClearActive(c)
    /\ conn' = cn
    /\ failures' = fl
    /\ UNCHANGED <<index, pendingConnect, pendingIndex, minAcceptableIndex>>

\* Mutant: the bound check of the next pool is off by one.
CloseAdvancePastEnd(c, f, cn, fl) ==
    /\ Retries > 0
    /\ ~(index = 0 /\ f < Retries)
    /\ index = c
    /\ N - index > 0
    /\ ClearActive(c)
    /\ index' = index + 1
    /\ conn' = ClientConnect(cn, index + 1)
    /\ failures' = fl
    /\ UNCHANGED <<pendingConnect, pendingIndex, minAcceptableIndex>>

\* m_retries > 0, the current pool failed often enough (or is not pool 0)
\* and a next pool exists: advance m_index and connect it at once.
CloseAdvance(c, f, cn, fl) ==
    /\ Retries > 0
    /\ ~(index = 0 /\ f < Retries)
    /\ index = c
    /\ N - index > 1
    /\ ClearActive(c)
    /\ index' = index + 1
    /\ conn' = ClientConnect(cn, index + 1)
    /\ failures' = fl
    /\ UNCHANGED <<pendingConnect, pendingIndex, minAcceptableIndex>>

\* Mutant: pool 0 retries while failures <= m_retries (off by one).
CloseRetryInPlaceOffByOne(c, f, cn, fl) ==
    /\ Retries > 0
    /\ \/ index = 0 /\ f <= Retries
       \/ index # c
       \/ N - index <= 1
    /\ ClearActive(c)
    /\ conn' = cn
    /\ failures' = fl
    /\ UNCHANGED <<index, pendingConnect, pendingIndex, minAcceptableIndex>>

\* m_retries > 0, otherwise: the client retries on its own timer.
CloseRetryInPlace(c, f, cn, fl) ==
    /\ Retries > 0
    /\ \/ index = 0 /\ f < Retries
       \/ index # c
       \/ N - index <= 1
    /\ ClearActive(c)
    /\ conn' = cn
    /\ failures' = fl
    /\ UNCHANGED <<index, pendingConnect, pendingIndex, minAcceptableIndex>>

OnClose(c, f, cn, fl) ==
    \/ CloseBelowMinimum(c, cn, fl)
    \/ CloseCurrentDeferred(c, cn, fl)
    \/ CloseOther(c, cn, fl)
    \/ CloseAdvance(c, f, cn, fl)
    \/ CloseRetryInPlace(c, f, cn, fl)

\* FailoverStrategy::onLoginSuccess(client), m_retries == 0 and a lower
\* pool logged in during a cascade: disconnect it.
LoginBelowMinimum(c, cn, fl) ==
    /\ Retries = 0
    /\ c < minAcceptableIndex
    /\ conn' = ClientDisconnect(cn, {c})
    /\ failures' = DisconnectFailures(fl, {c})
    /\ UNCHANGED strategyVars

\* The pool that is active after an accepted login: the client if it is
\* pool 0 or no pool is active, else the active pool.
LoginWinner(c) == IF c = 0 \/ ~IsActive THEN c ELSE active

\* Mutant: the disconnect loop of onLoginSuccess is missing.
LoginAcceptedNoLoop(c, cn, fl) ==
    /\ ~(Retries = 0 /\ c < minAcceptableIndex)
    /\ pendingConnect' = FALSE
    /\ minAcceptableIndex' = 0
    /\ conn' = cn
    /\ failures' = fl
    /\ IF LoginWinner(c) # active
         THEN index' = LoginWinner(c) /\ active' = LoginWinner(c)
         ELSE UNCHANGED <<index, active>>
    /\ UNCHANGED pendingIndex

\* Mutant: the winner becomes m_active but m_index is not moved to it.
LoginAcceptedKeepsIndex(c, cn, fl) ==
    /\ ~(Retries = 0 /\ c < minAcceptableIndex)
    /\ pendingConnect' = FALSE
    /\ minAcceptableIndex' = 0
    /\ conn' = ClientDisconnect(cn, Pools \ {LoginWinner(c)})
    /\ failures' = DisconnectFailures(fl, Pools \ {LoginWinner(c)})
    /\ IF LoginWinner(c) # active
         THEN active' = LoginWinner(c) /\ UNCHANGED index
         ELSE UNCHANGED <<index, active>>
    /\ UNCHANGED pendingIndex

\* FailoverStrategy::onLoginSuccess(client), the login is accepted: cancel
\* the deferred connect, reset m_minAcceptableIndex, disconnect every pool
\* but the winner, and make the winner active (emitting onActive).
LoginAccepted(c, cn, fl) ==
    /\ ~(Retries = 0 /\ c < minAcceptableIndex)
    /\ pendingConnect' = FALSE
    /\ minAcceptableIndex' = 0
    /\ conn' = ClientDisconnect(cn, Pools \ {LoginWinner(c)})
    /\ failures' = DisconnectFailures(fl, Pools \ {LoginWinner(c)})
    /\ IF LoginWinner(c) # active
         THEN index' = LoginWinner(c) /\ active' = LoginWinner(c)
         ELSE UNCHANGED <<index, active>>
    /\ UNCHANGED pendingIndex

OnLoginSuccess(c, cn, fl) ==
    \/ LoginBelowMinimum(c, cn, fl)
    \/ LoginAccepted(c, cn, fl)

-----------------------------------------------------------------------------
(* The clients' own events, each delivered to the strategy's handler.      *)

\* A connection attempt fails (DNS, refused, login rejected): the client
\* arms its reconnect timer and reports onClose with its failure count.
ClientConnectFails(c) ==
    /\ conn[c] = "connecting"
    /\ c \in Failing
    /\ LET f == NextFailures(failures, c)
       IN  OnClose(c, f, [conn EXCEPT ![c] = "waiting"], [failures EXCEPT ![c] = f])
    /\ UNCHANGED <<wanted, drops, stops>>

\* A connection attempt to a reachable pool ends in a successful login.
ClientLoginSucceeds(c) ==
    /\ conn[c] = "connecting"
    /\ c \in Reachable
    /\ OnLoginSuccess(c, [conn EXCEPT ![c] = "authorized"], [failures EXCEPT ![c] = 0])
    /\ UNCHANGED <<wanted, drops, stops>>

\* An authorized connection is lost.
ClientDrops(c) ==
    /\ conn[c] = "authorized"
    /\ drops < MaxDrops
    /\ LET f == NextFailures(failures, c)
       IN  OnClose(c, f, [conn EXCEPT ![c] = "waiting"], [failures EXCEPT ![c] = f])
    /\ drops' = drops + 1
    /\ UNCHANGED <<wanted, stops>>

Next ==
    \/ Connect
    \/ Stop
    \/ \E S \in SUBSET Pools : Tick(S)
    \/ \E c \in Pools :
          \/ ClientConnectFails(c)
          \/ ClientLoginSucceeds(c)
          \/ ClientDrops(c)

Spec == Init /\ [][Next]_vars

(***************************************************************************)
(* Fairness.  The host runtime ticks every strategy forever, so tick() and *)
(* each expired reconnect timer are weakly fair.  A connection attempt     *)
(* always ends: a pool that cannot log in ends it in failure, a pool that  *)
(* cannot fail ends it in a login.  Drops, connect() and stop() are the    *)
(* environment's and the owner's choice.                                   *)
(***************************************************************************)
Fairness ==
    /\ WF_vars(\E S \in SUBSET Pools : Tick(S))
    /\ \A c \in Pools :
          /\ WF_vars(\E S \in SUBSET Pools : c \in S /\ Tick(S))
          /\ c \notin Reachable => WF_vars(ClientConnectFails(c))
          /\ c \notin Failing => WF_vars(ClientLoginSucceeds(c))

FairSpec == Spec /\ Fairness

-----------------------------------------------------------------------------
(* Properties                                                              *)

TypeOK ==
    /\ index \in Pools
    /\ active \in Pools \cup {NoPool}
    /\ pendingConnect \in BOOLEAN
    /\ pendingIndex \in Pools
    /\ minAcceptableIndex \in Pools
    /\ conn \in [Pools -> ClientStates]
    /\ failures \in [Pools -> -1..Retries]
    /\ wanted \in BOOLEAN
    /\ drops \in 0..MaxDrops
    /\ stops \in 0..MaxStops

\* Spec invariant 1 and section 8 invariant 1, made exact: while a pool is
\* active its client is the one authorized client and every other client
\* is disconnected with no reconnect timer armed (the disconnect loops of
\* onLoginSuccess and onClose, and stop()).
ExclusiveActive ==
    IsActive =>
        /\ conn[active] = "authorized"
        /\ \A c \in Pools \ {active} : conn[c] = "disconnected"

\* Spec invariant 2 at every event boundary: m_active is -1 or m_index, so
\* a deferred connect or a cascade step never moves m_index away from the
\* active pool.
ActiveIsCurrent == active \in {NoPool, index}

\* After stop(), and until the owner calls connect() again, no client is
\* connecting, waiting or connected: stop() is synchronous and leaves the
\* strategy quiet (section 5 of the spec, DonateStrategy's IDLE state).
StoppedStaysQuiet ==
    ~wanted => \A c \in Pools : conn[c] = "disconnected"

\* Once the owner has called connect(), and as long as it does not call
\* stop(), some pool eventually becomes active, provided some pool always
\* accepts the login: the cascade of onClose/tick/connectNext never gets
\* stuck and never skips that pool forever.
ConnectLeadsToActive ==
    Reachable \ Failing # {} => (wanted ~> (IsActive \/ ~wanted))


\* The refinement mapping onto ActivePool: the listener's active pool is
\* m_active, and the owner wants a connection after connect().
AP == INSTANCE ActivePool WITH current <- active, requested <- wanted

\* The strategy keeps its listener contract: onActive only while the owner
\* wants a connection and no pool is active (so the pool-0 preemption in
\* onLoginSuccess never switches the active pool directly), onPause when
\* the active pool closes or stop() runs.
ImplementsActivePool == AP!APSpec

=============================================================================
