----------------------- MODULE FailoverStrategyProofs -----------------------
(***************************************************************************)
(* Proofs about FailoverStrategy for every number of pools, every retry    *)
(* count and every choice of reachable and failing pools.                  *)
(***************************************************************************)
EXTENDS FailoverStrategy, TLAPS

\* A deferred connect is only ever pending while no pool is active: it is
\* raised by the close of the current pool (which clears m_active) and
\* cancelled by every accepted login.
PendingOnlyWhenInactive == pendingConnect => active = NoPool

\* The inductive invariant behind ExclusiveActive and ActiveIsCurrent.
SafeInv ==
    /\ ExclusiveActive
    /\ ActiveIsCurrent
    /\ PendingOnlyWhenInactive

IInv == TypeOK /\ SafeInv

-----------------------------------------------------------------------------
USE NAssumption, RetriesAssumption, BoundsAssumption

\* Pool 0, where stop(), a wrap-around and a login reset the indices.
LEMMA ZeroInPools == 0 \in Pools
BY DEF Pools

\* The client helpers keep the clients' state well typed.
LEMMA ClientHelpersTyped ==
    ASSUME NEW cn \in [Pools -> ClientStates], NEW fl \in [Pools -> -1..Retries],
           NEW c \in Pools, NEW S \in SUBSET Pools
    PROVE  /\ ClientConnect(cn, c) \in [Pools -> ClientStates]
           /\ ClientDisconnect(cn, S) \in [Pools -> ClientStates]
           /\ DisconnectFailures(fl, S) \in [Pools -> -1..Retries]
           /\ NextFailures(fl, c) \in 0..Retries
BY DEF ClientConnect, ClientDisconnect, DisconnectFailures, NextFailures, ClientStates

(* SMT does not prove membership in BOOLEAN and Zenon does no arithmetic, *)
(* so TypeOK is split into its Boolean part and its data part.            *)
BoolTypeOK == pendingConnect \in BOOLEAN /\ wanted \in BOOLEAN

\* The data part of TypeOK that the client callbacks change.
HandlerTypeOK ==
    /\ index \in Pools
    /\ active \in Pools \cup {NoPool}
    /\ pendingIndex \in Pools
    /\ minAcceptableIndex \in Pools
    /\ conn \in [Pools -> ClientStates]
    /\ failures \in [Pools -> -1..Retries]

DataTypeOK == HandlerTypeOK /\ drops \in 0..MaxDrops /\ stops \in 0..MaxStops

LEMMA TypeOKSplit == TypeOK <=> BoolTypeOK /\ DataTypeOK
BY Zenon DEF TypeOK, BoolTypeOK, DataTypeOK, HandlerTypeOK

\* Every branch of onClose keeps the strategy and the clients well typed.
LEMMA OnCloseTyped ==
    ASSUME DataTypeOK, NEW c \in Pools, NEW f \in 0..Retries,
           NEW cn \in [Pools -> ClientStates], NEW fl \in [Pools -> -1..Retries],
           OnClose(c, f, cn, fl)
    PROVE  HandlerTypeOK'
<1> USE DEF DataTypeOK, HandlerTypeOK
<1>1. active' \in Pools \cup {NoPool}
  BY DEF OnClose, CloseBelowMinimum, CloseCurrentDeferred, CloseOther,
         CloseAdvance, CloseRetryInPlace, ClearActive
<1>2. CASE CloseBelowMinimum(c, cn, fl)
  BY <1>1, <1>2, ClientHelpersTyped DEF CloseBelowMinimum
<1>3. CASE CloseCurrentDeferred(c, cn, fl)
  <2>1. 0..index \in SUBSET Pools
    BY DEF Pools
  <2>2. (IF N - index > 1 THEN index + 1 ELSE 0) \in Pools
    BY DEF Pools
  <2>3. QED
    BY <1>1, <1>3, <2>1, <2>2, ClientHelpersTyped DEF CloseCurrentDeferred
<1>4. CASE CloseOther(c, cn, fl)
  BY <1>1, <1>4 DEF CloseOther
<1>5. CASE CloseAdvance(c, f, cn, fl)
  <2>1. index + 1 \in Pools
    BY <1>5 DEF CloseAdvance, Pools
  <2>2. QED
    BY <1>1, <1>5, <2>1, ClientHelpersTyped DEF CloseAdvance
<1>6. CASE CloseRetryInPlace(c, f, cn, fl)
  BY <1>1, <1>6 DEF CloseRetryInPlace
<1>7. QED
  BY <1>2, <1>3, <1>4, <1>5, <1>6 DEF OnClose

\* onClose leaves m_pendingConnect a Boolean.
LEMMA OnCloseBool ==
    ASSUME pendingConnect \in BOOLEAN, NEW c, NEW f, NEW cn, NEW fl, OnClose(c, f, cn, fl)
    PROVE  pendingConnect' \in BOOLEAN
BY Zenon DEF OnClose, CloseBelowMinimum, CloseCurrentDeferred, CloseOther,
             CloseAdvance, CloseRetryInPlace

\* Both branches of onLoginSuccess keep the strategy and the clients well
\* typed.
LEMMA OnLoginSuccessTyped ==
    ASSUME DataTypeOK, NEW c \in Pools,
           NEW cn \in [Pools -> ClientStates], NEW fl \in [Pools -> -1..Retries],
           OnLoginSuccess(c, cn, fl)
    PROVE  HandlerTypeOK'
<1> USE DEF DataTypeOK, HandlerTypeOK
<1>1. CASE LoginBelowMinimum(c, cn, fl)
  BY <1>1, ClientHelpersTyped DEF LoginBelowMinimum, strategyVars
<1>2. CASE LoginAccepted(c, cn, fl)
  <2>1. LoginWinner(c) \in Pools
    BY DEF LoginWinner, IsActive, NoPool
  <2>2. Pools \ {LoginWinner(c)} \in SUBSET Pools
    OBVIOUS
  <2>3. QED
    BY <1>2, <2>1, <2>2, ZeroInPools, ClientHelpersTyped DEF LoginAccepted
<1>3. QED
  BY <1>1, <1>2 DEF OnLoginSuccess

\* onLoginSuccess leaves m_pendingConnect a Boolean.
LEMMA OnLoginSuccessBool ==
    ASSUME pendingConnect \in BOOLEAN, NEW c, NEW cn, NEW fl, OnLoginSuccess(c, cn, fl)
    PROVE  pendingConnect' \in BOOLEAN
BY Zenon DEF OnLoginSuccess, LoginBelowMinimum, LoginAccepted, strategyVars

\* Every step keeps the Boolean variables Boolean.
LEMMA BoolStep == BoolTypeOK /\ [Next]_vars => BoolTypeOK'
<1> SUFFICES ASSUME BoolTypeOK, [Next]_vars PROVE BoolTypeOK'
  OBVIOUS
<1> USE DEF BoolTypeOK
<1>1. CASE Connect
  BY <1>1, Zenon DEF Connect, strategyVars
<1>2. CASE Stop
  BY <1>2, Zenon DEF Stop, StopFrom
<1>3. ASSUME NEW S, Tick(S) PROVE BoolTypeOK'
  BY <1>3, Zenon DEF Tick, ConnectNextDrains
<1>4. ASSUME NEW c, ClientConnectFails(c) \/ ClientDrops(c) PROVE BoolTypeOK'
  BY <1>4, OnCloseBool, Zenon DEF ClientConnectFails, ClientDrops
<1>5. ASSUME NEW c, ClientLoginSucceeds(c) PROVE BoolTypeOK'
  BY <1>5, OnLoginSuccessBool, Zenon DEF ClientLoginSucceeds
<1>6. CASE UNCHANGED vars
  BY <1>6, Zenon DEF vars, strategyVars
<1>7. QED
  BY <1>1, <1>2, <1>3, <1>4, <1>5, <1>6, Zenon DEF Next

\* Every step keeps the data variables in their types.
LEMMA DataStep == DataTypeOK /\ [Next]_vars => DataTypeOK'
<1> SUFFICES ASSUME DataTypeOK, [Next]_vars PROVE DataTypeOK'
  OBVIOUS
<1> USE DEF DataTypeOK, HandlerTypeOK
<1>1. CASE Connect
  BY <1>1, ClientHelpersTyped DEF Connect, strategyVars
<1>2. CASE Stop
  BY <1>2, ZeroInPools, ClientHelpersTyped DEF Stop, StopFrom, NoPool
<1>3. ASSUME NEW S \in SUBSET Pools, Tick(S) PROVE DataTypeOK'
  <2> DEFINE cn == [c \in Pools |-> IF c \in S THEN "connecting" ELSE conn[c]]
  <2>1. cn \in [Pools -> ClientStates]
    BY DEF ClientStates
  <2>2. ClientConnect(cn, pendingIndex) \in [Pools -> ClientStates]
    BY <2>1, ClientHelpersTyped
  <2>3. QED
    BY <1>3, <2>1, <2>2 DEF Tick, ConnectNextDrains
<1>4. ASSUME NEW c \in Pools, ClientConnectFails(c) \/ ClientDrops(c) PROVE DataTypeOK'
  <2> DEFINE f == NextFailures(failures, c)
  <2>1. f \in 0..Retries
    BY ClientHelpersTyped
  <2>2. [conn EXCEPT ![c] = "waiting"] \in [Pools -> ClientStates]
    BY DEF ClientStates
  <2>3. [failures EXCEPT ![c] = f] \in [Pools -> -1..Retries]
    BY <2>1
  <2>4. HandlerTypeOK'
    BY <1>4, <2>1, <2>2, <2>3, OnCloseTyped DEF ClientConnectFails, ClientDrops
  <2>5. QED
    BY <1>4, <2>4 DEF ClientConnectFails, ClientDrops
<1>5. ASSUME NEW c \in Pools, ClientLoginSucceeds(c) PROVE DataTypeOK'
  <2>1. [conn EXCEPT ![c] = "authorized"] \in [Pools -> ClientStates]
    BY DEF ClientStates
  <2>2. [failures EXCEPT ![c] = 0] \in [Pools -> -1..Retries]
    OBVIOUS
  <2>3. HandlerTypeOK'
    BY <1>5, <2>1, <2>2, OnLoginSuccessTyped DEF ClientLoginSucceeds
  <2>4. QED
    BY <1>5, <2>3 DEF ClientLoginSucceeds
<1>6. CASE UNCHANGED vars
  BY <1>6 DEF vars, strategyVars, clientVars
<1>7. QED
  <2>1. CASE \E S \in SUBSET Pools : Tick(S)
    BY <2>1, <1>3
  <2>2. CASE \E c \in Pools : ClientConnectFails(c) \/ ClientLoginSucceeds(c) \/ ClientDrops(c)
    BY <2>2, <1>4, <1>5
  <2>3. QED
    BY <1>1, <1>2, <1>6, <2>1, <2>2 DEF Next

\* The initial state is well typed.
LEMMA InitTypeOK == Init => TypeOK
<1>1. Init => BoolTypeOK
  BY Zenon DEF Init, BoolTypeOK
<1>2. Init => DataTypeOK
  <2> SUFFICES ASSUME Init PROVE DataTypeOK
    OBVIOUS
  <2>1. index \in Pools /\ pendingIndex \in Pools /\ minAcceptableIndex \in Pools
    BY DEF Init, Pools
  <2>2. conn \in [Pools -> ClientStates]
    BY DEF Init, ClientStates
  <2>3. failures \in [Pools -> -1..Retries]
    BY DEF Init
  <2>4. active \in Pools \cup {NoPool} /\ drops \in 0..MaxDrops /\ stops \in 0..MaxStops
    BY DEF Init
  <2>5. QED
    BY <2>1, <2>2, <2>3, <2>4 DEF DataTypeOK, HandlerTypeOK
<1>3. QED
  BY <1>1, <1>2, TypeOKSplit

\* Every step keeps TypeOK.
LEMMA TypeStep == TypeOK /\ [Next]_vars => TypeOK'
<1> SUFFICES ASSUME TypeOK, [Next]_vars PROVE TypeOK'
  OBVIOUS
<1>1. BoolTypeOK'
  BY BoolStep, TypeOKSplit
<1>2. DataTypeOK'
  BY DataStep, TypeOKSplit
<1>3. QED
  BY <1>1, <1>2, Zenon DEF TypeOK, BoolTypeOK, DataTypeOK, HandlerTypeOK

\* Type correctness: every handler keeps every variable in its type.
THEOREM TypeCorrect == Spec => []TypeOK
BY InitTypeOK, TypeStep, PTL DEF Spec

-----------------------------------------------------------------------------
(* Safety.  The argument: while a pool is active, every other client is    *)
(* disconnected, so any client that closes or logs in is either the        *)
(* active one or there is no active pool.  Hence every onClose leaves no   *)
(* pool active, and every accepted login comes while no pool is active and *)
(* makes its own client the winner.  A deferred connect is only pending    *)
(* while no pool is active, so tick() never moves m_index under an active  *)
(* pool.                                                                   *)

\* A client that is not disconnected is the active one, if any is.
LEMMA LiveClientIsActive ==
    ASSUME TypeOK, ExclusiveActive, NEW c \in Pools, conn[c] # "disconnected", IsActive
    PROVE  c = active /\ conn[c] = "authorized"
BY DEF ExclusiveActive, IsActive, TypeOK

\* Every onClose of a live client leaves no pool active.
LEMMA CloseClearsActive ==
    ASSUME TypeOK, ExclusiveActive, NEW c \in Pools, conn[c] # "disconnected",
           NEW f, NEW cn, NEW fl, OnClose(c, f, cn, fl)
    PROVE  active' = NoPool
<1>1. ClearActive(c)
  BY DEF OnClose, CloseBelowMinimum, CloseCurrentDeferred, CloseOther,
         CloseAdvance, CloseRetryInPlace
<1>2. CASE IsActive
  BY <1>1, <1>2, LiveClientIsActive DEF ClearActive
<1>3. CASE ~IsActive
  BY <1>1, <1>3 DEF ClearActive, IsActive
<1>4. QED
  BY <1>2, <1>3

\* A state with no active pool satisfies the safety invariant.
LEMMA InactiveIsSafe ==
    ASSUME active' = NoPool
    PROVE  SafeInv'
BY DEF SafeInv, ExclusiveActive, ActiveIsCurrent, PendingOnlyWhenInactive, IsActive

\* Every step keeps the safety invariant.
LEMMA SafeStep == TypeOK /\ SafeInv /\ [Next]_vars => SafeInv'
<1> SUFFICES ASSUME TypeOK, SafeInv, [Next]_vars PROVE SafeInv'
  OBVIOUS
<1> USE DEF SafeInv
<1>1. CASE Connect
  <2>1. CASE IsActive
    <3>1. conn' = conn
      <4>1. index = active
        BY <2>1 DEF ActiveIsCurrent, IsActive
      <4>2. conn[index] = "authorized"
        BY <2>1, <4>1 DEF ExclusiveActive
      <4>3. QED
        BY <1>1, <4>2 DEF Connect, ClientConnect, TypeOK
    <3>2. QED
      BY <1>1, <3>1 DEF Connect, strategyVars, ExclusiveActive, ActiveIsCurrent,
                        PendingOnlyWhenInactive, IsActive
  <2>2. CASE ~IsActive
    BY <1>1, <2>2, InactiveIsSafe DEF Connect, strategyVars, IsActive
  <2>3. QED
    BY <2>1, <2>2
<1>2. CASE Stop
  BY <1>2, InactiveIsSafe DEF Stop, StopFrom
<1>3. ASSUME NEW S \in SUBSET Pools, Tick(S) PROVE SafeInv'
  <2>1. CASE IsActive
    <3>1. S = {}
      BY <1>3, <2>1, LiveClientIsActive DEF Tick, ConnectNextDrains
    <3>2. ~pendingConnect
      BY <2>1 DEF PendingOnlyWhenInactive, IsActive
    <3>3. conn' = conn /\ index' = index /\ pendingConnect' = pendingConnect
      BY <1>3, <3>1, <3>2 DEF Tick, ConnectNextDrains, TypeOK
    <3>4. QED
      BY <1>3, <3>3 DEF Tick, ConnectNextDrains, ExclusiveActive, ActiveIsCurrent,
                        PendingOnlyWhenInactive, IsActive
  <2>2. CASE ~IsActive
    BY <1>3, <2>2, InactiveIsSafe DEF Tick, ConnectNextDrains, IsActive
  <2>3. QED
    BY <2>1, <2>2
<1>4. ASSUME NEW c \in Pools, ClientConnectFails(c) \/ ClientDrops(c) PROVE SafeInv'
  <2>1. conn[c] # "disconnected"
    BY <1>4 DEF ClientConnectFails, ClientDrops
  <2>2. active' = NoPool
    BY <1>4, <2>1, CloseClearsActive DEF ClientConnectFails, ClientDrops
  <2>3. QED
    BY <2>2, InactiveIsSafe
<1>5. ASSUME NEW c \in Pools, ClientLoginSucceeds(c) PROVE SafeInv'
  <2> DEFINE cn == [conn EXCEPT ![c] = "authorized"]
             fl == [failures EXCEPT ![c] = 0]
  <2>1. ~IsActive
    BY <1>5, LiveClientIsActive DEF ClientLoginSucceeds
  <2>2. CASE LoginBelowMinimum(c, cn, fl)
    BY <2>1, <2>2, InactiveIsSafe DEF LoginBelowMinimum, strategyVars, IsActive
  <2>3. CASE LoginAccepted(c, cn, fl)
    <3>1. LoginWinner(c) = c /\ c # active
      BY <2>1 DEF LoginWinner, IsActive, NoPool, Pools
    <3>2. active' = c /\ index' = c /\ pendingConnect' = FALSE
      BY <2>3, <3>1 DEF LoginAccepted
    <3>3. conn'[c] = "authorized" /\ \A i \in Pools \ {c} : conn'[i] = "disconnected"
      BY <2>3, <3>1 DEF LoginAccepted, ClientDisconnect, TypeOK
    <3>4. QED
      BY <3>2, <3>3 DEF ExclusiveActive, ActiveIsCurrent, PendingOnlyWhenInactive,
                        IsActive, NoPool
  <2>4. QED
    BY <1>5, <2>2, <2>3 DEF ClientLoginSucceeds, OnLoginSuccess
<1>6. CASE UNCHANGED vars
  BY <1>6 DEF vars, strategyVars, clientVars, ExclusiveActive, ActiveIsCurrent,
              PendingOnlyWhenInactive, IsActive
<1>7. QED
  BY <1>1, <1>2, <1>3, <1>4, <1>5, <1>6 DEF Next

\* The inductive invariant holds in every reachable state of the strategy.
THEOREM Invariance == Spec => []IInv
<1>1. Init => SafeInv
  BY DEF Init, SafeInv, ExclusiveActive, ActiveIsCurrent, PendingOnlyWhenInactive,
         IsActive, NoPool
<1>2. IInv /\ [Next]_vars => IInv'
  BY TypeStep, SafeStep DEF IInv
<1>3. QED
  BY <1>1, <1>2, InitTypeOK, PTL DEF Spec, IInv

\* While a pool is active its client is the only live client, whatever the
\* number of pools, the retry count and the pools' behaviour
\* (onLoginSuccess's and onClose's disconnect loops, stop()).
THEOREM ExclusiveActiveHolds == Spec => []ExclusiveActive
BY Invariance, PTL DEF IInv, SafeInv

\* m_active is -1 or m_index at every event boundary, so neither a
\* deferred connect in tick() nor a cascade step moves m_index off the
\* active pool.
THEOREM ActiveIsCurrentHolds == Spec => []ActiveIsCurrent
BY Invariance, PTL DEF IInv, SafeInv

-----------------------------------------------------------------------------
(* Quiet after stop().  stop() does not touch m_pendingConnect, so a tick   *)
(* after it could start a deferred connect; only the m_retries == 0        *)
(* branches of onClose ever raise one.  With m_retries > 0 (the user pools, *)
(* which the Network builds with the configured retry count) none is ever  *)
(* pending, and the strengthening is just that.                            *)

QuietInv == ~pendingConnect /\ StoppedStaysQuiet

\* With m_retries > 0 no onClose branch raises a deferred connect, and an
\* accepted login cancels one.
LEMMA RetryNeverDefers ==
    ASSUME Retries > 0, ~pendingConnect,
           NEW c \in Pools, NEW f, NEW cn, NEW fl,
           OnClose(c, f, cn, fl) \/ OnLoginSuccess(c, cn, fl)
    PROVE  ~pendingConnect'
BY DEF OnClose, CloseBelowMinimum, CloseCurrentDeferred, CloseOther, CloseAdvance,
   CloseRetryInPlace, OnLoginSuccess, LoginBelowMinimum, LoginAccepted,
   strategyVars

LEMMA QuietStep ==
    ASSUME Retries > 0
    PROVE  QuietInv /\ [Next]_vars => QuietInv'
<1> SUFFICES ASSUME QuietInv, [Next]_vars PROVE QuietInv'
  OBVIOUS
<1> USE DEF QuietInv, StoppedStaysQuiet
<1>1. CASE Connect
  BY <1>1 DEF Connect, strategyVars
<1>2. CASE Stop
  BY <1>2 DEF Stop, StopFrom, ClientDisconnect
<1>3. ASSUME NEW S \in SUBSET Pools, Tick(S) PROVE QuietInv'
  <2>1. ~pendingConnect'
    BY <1>3 DEF Tick, ConnectNextDrains
  <2>2. CASE wanted
    BY <1>3, <2>1, <2>2 DEF Tick
  <2>3. CASE ~wanted
    <3>1. S = {}
      BY <1>3, <2>3 DEF Tick
    <3>2. \A c \in Pools : conn'[c] = conn[c]
      BY <1>3, <3>1 DEF Tick, ConnectNextDrains
    <3>3. QED
      BY <1>3, <2>1, <2>3, <3>2 DEF Tick
  <2>4. QED
    BY <2>2, <2>3
<1>4. ASSUME NEW c \in Pools,
             ClientConnectFails(c) \/ ClientLoginSucceeds(c) \/ ClientDrops(c)
      PROVE QuietInv'
  <2>1. wanted /\ wanted' = wanted
    BY <1>4 DEF ClientConnectFails, ClientLoginSucceeds, ClientDrops
  <2>2. ~pendingConnect'
    <3>1. CASE ClientConnectFails(c) \/ ClientDrops(c)
      BY <3>1, RetryNeverDefers DEF ClientConnectFails, ClientDrops
    <3>2. CASE ClientLoginSucceeds(c)
      BY <3>2, RetryNeverDefers DEF ClientLoginSucceeds
    <3>3. QED
      BY <1>4, <3>1, <3>2
  <2>3. QED
    BY <2>1, <2>2
<1>5. CASE UNCHANGED vars
  BY <1>5 DEF vars, strategyVars, clientVars
<1>6. QED
  BY <1>1, <1>2, <1>3, <1>4, <1>5 DEF Next

\* With a non-zero retry count, stop() leaves the strategy quiet until the
\* owner calls connect() again: no client is connecting, waiting on its
\* reconnect timer or connected, whatever tick() and the clients' late
\* callbacks do in between.  (With m_retries == 0 it does not hold: see the
\* run failover_zero_stop_quiet.)
THEOREM StoppedQuietWithRetries ==
    ASSUME Retries > 0
    PROVE  Spec => []StoppedStaysQuiet
<1>1. Init => QuietInv
  BY DEF Init, QuietInv, StoppedStaysQuiet
<1>2. QuietInv /\ [Next]_vars => QuietInv'
  BY QuietStep
<1>3. QED
  BY <1>1, <1>2, PTL DEF Spec, QuietInv

-----------------------------------------------------------------------------
(* The listener contract (ActivePool), with m_retries > 0.  Every step maps *)
(* to a step of ActivePool or to a stutter: connect() is Request, stop() is *)
(* Halt, tick() touches neither m_active nor the owner's wish, and a client *)
(* event is a Pause (a close of the active pool), an Activate (an accepted  *)
(* login that changes m_active) or a stutter.  ExclusiveActive makes an     *)
(* accepted login come while no pool is active, so the pool-0 preemption   *)
(* of onLoginSuccess never switches m_active from one pool to another, and  *)
(* QuietInv makes it come while the owner wants a connection.               *)

\* A client event comes while the owner wants a connection and leaves the
\* wish as it is.
LEMMA EventWhileWanted ==
    ASSUME QuietInv, NEW c \in Pools,
           ClientConnectFails(c) \/ ClientLoginSucceeds(c) \/ ClientDrops(c)
    PROVE  wanted /\ wanted' = wanted /\ conn[c] # "disconnected"
BY DEF QuietInv, StoppedStaysQuiet, ClientConnectFails, ClientLoginSucceeds, ClientDrops

LEMMA ActiveStep ==
    ASSUME Retries > 0
    PROVE  IInv /\ QuietInv /\ [Next]_vars => [AP!APNext]_AP!avars
<1> SUFFICES ASSUME IInv, QuietInv, [Next]_vars PROVE [AP!APNext]_AP!avars
  OBVIOUS
<1>0. TypeOK /\ ExclusiveActive
  BY DEF IInv, SafeInv
<1>1. CASE Connect
  BY <1>1 DEF Connect, strategyVars, AP!APNext, AP!Request
<1>2. CASE Stop
  BY <1>2 DEF Stop, StopFrom, AP!APNext, AP!Halt
<1>3. ASSUME NEW S \in SUBSET Pools, Tick(S) PROVE [AP!APNext]_AP!avars
  BY <1>3 DEF Tick, AP!avars
<1>4. ASSUME NEW c \in Pools, ClientConnectFails(c) \/ ClientDrops(c)
      PROVE  [AP!APNext]_AP!avars
  <2>1. wanted' = wanted /\ conn[c] # "disconnected"
    BY <1>4, EventWhileWanted
  <2>2. active' = NoPool
    <3>1. \E f, cn, fl : OnClose(c, f, cn, fl)
      BY <1>4 DEF ClientConnectFails, ClientDrops
    <3>2. QED
      BY <1>0, <2>1, <3>1, CloseClearsActive
  <2>3. CASE active = NoPool
    BY <2>1, <2>2, <2>3 DEF AP!avars
  <2>4. CASE active # NoPool
    BY <2>1, <2>2, <2>4 DEF AP!APNext, AP!Pause
  <2>5. QED
    BY <2>3, <2>4
<1>5. ASSUME NEW c \in Pools, ClientLoginSucceeds(c) PROVE [AP!APNext]_AP!avars
  <2>1. wanted /\ wanted' = wanted
    BY <1>5, EventWhileWanted
  <2>2. conn[c] = "connecting"
    BY <1>5 DEF ClientLoginSucceeds
  <2>3. active = NoPool
    BY <1>0, <2>2, LiveClientIsActive DEF IsActive
  <2> DEFINE cn == [conn EXCEPT ![c] = "authorized"]
  <2> DEFINE fl == [failures EXCEPT ![c] = 0]
  <2>4. CASE LoginBelowMinimum(c, cn, fl)
    BY <2>1, <2>4 DEF LoginBelowMinimum, strategyVars, AP!avars
  <2>5. CASE LoginAccepted(c, cn, fl)
    <3>1. LoginWinner(c) = c
      BY <2>3 DEF LoginWinner, IsActive
    <3>2. CASE c # active
      BY <2>1, <2>3, <2>5, <3>1, <3>2 DEF LoginAccepted, AP!APNext, AP!Activate
    <3>3. CASE c = active
      BY <2>1, <2>5, <3>1, <3>3 DEF LoginAccepted, AP!avars
    <3>4. QED
      BY <3>2, <3>3
  <2>6. QED
    BY <1>5, <2>4, <2>5 DEF ClientLoginSucceeds, OnLoginSuccess
<1>6. CASE UNCHANGED vars
  BY <1>6 DEF vars, strategyVars, AP!avars
<1>7. QED
  BY <1>1, <1>2, <1>3, <1>4, <1>5, <1>6 DEF Next

\* With a non-zero retry count, FailoverStrategy keeps the listener
\* contract of ActivePool: onActive only while the owner wants a connection
\* and no pool is active, onPause when the active pool closes, and stop()
\* pauses it.  (With m_retries == 0 a deferred connect survives stop() and
\* a pool becomes active while the owner wants none.)
THEOREM FailoverRefinement ==
    ASSUME Retries > 0
    PROVE  Spec => ImplementsActivePool
<1>1. Init => AP!APInit
  BY DEF Init, AP!APInit
<1>2. Init => QuietInv
  BY DEF Init, QuietInv, StoppedStaysQuiet
<1>3. QuietInv /\ [Next]_vars => QuietInv'
  BY QuietStep
<1>4. IInv /\ QuietInv /\ [Next]_vars => [AP!APNext]_AP!avars
  BY ActiveStep
<1>5. QED
  BY <1>1, <1>2, <1>3, <1>4, Invariance, PTL DEF Spec, ImplementsActivePool, AP!APSpec
=============================================================================
