-------------------------- MODULE DonateStrategyProofs --------------------------
(***************************************************************************)
(* Proofs about the donation cycle composed with its nested strategy, for  *)
(* every number of donation pools, every choice of reachable and failing   *)
(* pools, and every bound on drops and stops.                              *)
(*                                                                         *)
(* IdleIsQuiet is not inductive alone: entering IDLE from WAIT stops the   *)
(* nested strategy with m_pendingConnect as tick() left it, and tick()'s    *)
(* connectNext() drains a pending connect only when m_pendingIndex names a *)
(* pool.  The strengthening says it always does: m_pendingIndex is below   *)
(* N, which rests on m_index and m_active being integers.                  *)
(***************************************************************************)
EXTENDS DonateStrategy, TLAPS

USE ProxyDonateAssumption, ProxyBoundAssumption, DonatePoolsAssumption,
    DonateReachableAssumption, DonateBoundsAssumption

(* The deferred connect always names a pool.                              *)
PendingInRange ==
    /\ index \in Int /\ active \in Int
    /\ pendingIndex \in Int /\ pendingIndex < N

(* The inductive invariant for IdleIsQuiet.                                *)
QuietInv == PendingInRange /\ IdleIsQuiet

(* The timer invariant is inductive as it stands: every step that arms    *)
(* m_timer enters IDLE or ACTIVE, and every step that leaves them either   *)
(* disarms it or keeps state and timer.                                    *)
LEMMA TimerStep == TimerOnlyWhenScheduled /\ [Next]_dvars => TimerOnlyWhenScheduled'
BY DEF TimerOnlyWhenScheduled, Next, dvars, TimerToWait, TimerToConnect,
   DonateTick, GraceExpires, NestedEvent, OnActive, EnterActive,
   ProxyLoginSucceeds, ProxyFails, ProxyDrops, DonateStop

(* DonateStrategy arms its one-shot timer only in IDLE and ACTIVE, so      *)
(* onTimer never hits the assert in setState and never fires in CONNECT or *)
(* WAIT, whatever the nested pools and the proxy do.                       *)
THEOREM TimerScheduled == Spec => []TimerOnlyWhenScheduled
<1>1. Init => TimerOnlyWhenScheduled
  BY DEF Init, TimerOnlyWhenScheduled
<1>2. QED
  BY <1>1, TimerStep, PTL DEF Spec

LEMMA RangeInit == Init => PendingInRange
BY DEF Init, FS!Init, PendingInRange, FS!NoPool

LEMMA RangeStep == PendingInRange /\ [Next]_dvars => PendingInRange'
<1> SUFFICES ASSUME PendingInRange, [Next]_dvars PROVE PendingInRange'
  OBVIOUS
<1> USE DEF PendingInRange
<1>1. ASSUME NEW c \in FS!Pools, NestedEvent(c) PROVE PendingInRange'
  BY <1>1 DEF NestedEvent, FS!ClientConnectFails, FS!ClientLoginSucceeds,
     FS!ClientDrops, FS!OnClose, FS!OnLoginSuccess, FS!CloseBelowMinimum,
     FS!CloseCurrentDeferred, FS!CloseOther, FS!CloseAdvance,
     FS!CloseRetryInPlace, FS!LoginBelowMinimum, FS!LoginAccepted,
     FS!LoginWinner, FS!ClearActive, FS!NoPool, FS!Pools, FS!strategyVars
<1>2. ASSUME NEW S \in SUBSET FS!Pools, NEW fire \in BOOLEAN, DonateTick(S, fire)
      PROVE PendingInRange'
  BY <1>2 DEF DonateTick, FS!Tick
<1>3. ASSUME NEW viaProxy \in BOOLEAN, TimerToConnect(viaProxy) PROVE PendingInRange'
  BY <1>3 DEF TimerToConnect, DonateConnect, FS!Connect, fsVars, FS!strategyVars
<1>4. CASE GraceExpires
  BY <1>4 DEF GraceExpires, FS!StopFrom, FS!NoPool
<1>8. CASE DonateStop
  BY <1>8 DEF DonateStop, FS!Stop, FS!StopFrom, FS!NoPool
<1>5. CASE ProxyFails \/ ProxyDrops
  BY <1>5 DEF ProxyFails, ProxyDrops, ProxyClose, FS!Connect, fsVars,
     FS!strategyVars
<1>6. CASE TimerToWait \/ ProxyLoginSucceeds \/ UNCHANGED dvars
  BY <1>6 DEF TimerToWait, ProxyLoginSucceeds, fsVars, dvars
<1>7. QED
  BY <1>1, <1>2, <1>3, <1>4, <1>5, <1>6, <1>8 DEF Next

(* In IDLE no step of a nested client or of the proxy is enabled, a tick   *)
(* finds nothing to fire and nothing to drain, and stop() keeps everything *)
(* down; the step into IDLE drains, stops and deletes everything.          *)
LEMMA QuietStep == QuietInv /\ [Next]_dvars => IdleIsQuiet'
<1> SUFFICES ASSUME PendingInRange, IdleIsQuiet, [Next]_dvars PROVE IdleIsQuiet'
  BY DEF QuietInv
<1>1. ASSUME NEW c \in FS!Pools, NestedEvent(c) PROVE IdleIsQuiet'
  <2>1. state # "IDLE"
    <3>1. conn[c] \in {"connecting", "authorized"}
      BY <1>1 DEF NestedEvent, FS!ClientConnectFails, FS!ClientLoginSucceeds,
         FS!ClientDrops
    <3>2. QED
      BY <3>1 DEF IdleIsQuiet
  <2>2. state' # "IDLE"
    BY <1>1, <2>1 DEF NestedEvent, OnActive, EnterActive
  <2>3. QED
    BY <2>2 DEF IdleIsQuiet
<1>2. ASSUME NEW S \in SUBSET FS!Pools, NEW fire \in BOOLEAN, DonateTick(S, fire)
      PROVE IdleIsQuiet'
  <2> SUFFICES ASSUME state = "IDLE" PROVE IdleIsQuiet'
    BY <1>2 DEF DonateTick, IdleIsQuiet
  <2>1. S = {}
    BY <1>2 DEF DonateTick, FS!Tick, IdleIsQuiet
  <2>2. proxy' = "none" /\ ~pendingConnect'
    BY <1>2 DEF DonateTick, ProxyTick, FS!Tick, FS!ConnectNextDrains, IdleIsQuiet
  <2>3. \A c \in FS!Pools : conn'[c] = "disconnected"
    BY <1>2, <2>1 DEF DonateTick, FS!Tick, FS!ConnectNextDrains, IdleIsQuiet
  <2>4. QED
    BY <1>2, <2>2, <2>3 DEF DonateTick, IdleIsQuiet
<1>3. CASE GraceExpires
  <2>1. ~pendingConnect'
    BY <1>3 DEF GraceExpires, FS!StopFrom, FS!ConnectNextDrains, PendingInRange
  <2>2. \A c \in FS!Pools : conn'[c] = "disconnected"
    BY <1>3 DEF GraceExpires, FS!StopFrom, FS!ClientDisconnect
  <2>3. QED
    BY <1>3, <2>1, <2>2 DEF GraceExpires, IdleIsQuiet
<1>4. CASE DonateStop
  <2>1. state' = state /\ proxy' = proxy /\ pendingConnect' = pendingConnect
    BY <1>4 DEF DonateStop, FS!Stop, FS!StopFrom, proxyVars
  <2>2. \A c \in FS!Pools : conn'[c] = "disconnected"
    BY <1>4 DEF DonateStop, FS!Stop, FS!StopFrom, FS!ClientDisconnect
  <2>3. QED
    BY <2>1, <2>2 DEF IdleIsQuiet
<1>5. CASE ProxyLoginSucceeds \/ ProxyFails \/ ProxyDrops
  <2>1. state # "IDLE"
    BY <1>5 DEF ProxyLoginSucceeds, ProxyFails, ProxyDrops, IdleIsQuiet
  <2>2. state' # "IDLE"
    BY <1>5, <2>1 DEF ProxyLoginSucceeds, ProxyFails, ProxyDrops, OnActive,
       EnterActive
  <2>3. QED
    BY <2>2 DEF IdleIsQuiet
<1>6. CASE TimerToWait \/ (\E viaProxy \in BOOLEAN : TimerToConnect(viaProxy))
  BY <1>6 DEF TimerToWait, TimerToConnect, IdleIsQuiet
<1>7. CASE UNCHANGED dvars
  BY <1>7 DEF dvars, fsVars, proxyVars, IdleIsQuiet
<1>8. QED
  BY <1>1, <1>2, <1>3, <1>4, <1>5, <1>6, <1>7 DEF Next

(* Between donation windows nothing of the donation side is alive: in     *)
(* IDLE there is no proxy, no nested client connecting, waiting or         *)
(* authorized, and no deferred connect for a later tick() to start.  It    *)
(* rests on tick() running the nested connectNext() before setState(IDLE)  *)
(* stops the nested strategy.                                              *)
THEOREM IdleQuiet == Spec => []IdleIsQuiet
<1>1. Init => QuietInv
  BY RangeInit DEF Init, FS!Init, QuietInv, IdleIsQuiet
<1>2. QuietInv /\ [Next]_dvars => QuietInv'
  BY RangeStep, QuietStep DEF QuietInv
<1>3. QED
  BY <1>1, <1>2, PTL DEF Spec, QuietInv
-----------------------------------------------------------------------------
(* Types.  Every step of DonateStrategy moves the nested strategy by one   *)
(* of its own steps (connect(), stop(), tick() or a client callback), or   *)
(* by the stop inside setState(IDLE), which differs from stop() only in    *)
(* the m_pendingConnect it leaves and in not counting as an owner's stop.  *)

(* The nested strategy's types, split as in FailoverStrategyProofs: the    *)
(* Booleans for Zenon, the data for SMT.  m_retries is 0, so a failure     *)
(* count is -1 (after a disconnect) or 0.                                  *)
NestedBool == pendingConnect \in BOOLEAN /\ wanted \in BOOLEAN

NestedHandler ==
    /\ index \in FS!Pools
    /\ active \in FS!Pools \cup {FS!NoPool}
    /\ pendingIndex \in FS!Pools
    /\ minAcceptableIndex \in FS!Pools
    /\ conn \in [FS!Pools -> FS!ClientStates]
    /\ failures \in [FS!Pools -> -1..0]

NestedData == NestedHandler /\ drops \in 0..MaxDrops /\ stops \in 0..MaxStops

LEMMA NestedSplit == FS!TypeOK <=> NestedBool /\ NestedData
BY Zenon DEF FS!TypeOK, NestedBool, NestedData, NestedHandler

LEMMA NestedHelpersTyped ==
    ASSUME NEW cn \in [FS!Pools -> FS!ClientStates], NEW fl \in [FS!Pools -> -1..0],
           NEW c \in FS!Pools, NEW S \in SUBSET FS!Pools
    PROVE  /\ FS!ClientConnect(cn, c) \in [FS!Pools -> FS!ClientStates]
           /\ FS!ClientDisconnect(cn, S) \in [FS!Pools -> FS!ClientStates]
           /\ FS!DisconnectFailures(fl, S) \in [FS!Pools -> -1..0]
           /\ FS!NextFailures(fl, c) = 0
BY DEF FS!ClientConnect, FS!ClientDisconnect, FS!DisconnectFailures,
   FS!NextFailures, FS!ClientStates

(* onClose with m_retries 0: the three branches of the deferred cascade.   *)
LEMMA NestedOnCloseTyped ==
    ASSUME NestedData, NEW c \in FS!Pools, NEW f,
           NEW cn \in [FS!Pools -> FS!ClientStates], NEW fl \in [FS!Pools -> -1..0],
           FS!OnClose(c, f, cn, fl)
    PROVE  NestedHandler'
<1> USE DEF NestedData, NestedHandler
<1>1. active' \in FS!Pools \cup {FS!NoPool}
  BY DEF FS!OnClose, FS!CloseBelowMinimum, FS!CloseCurrentDeferred,
     FS!CloseOther, FS!CloseAdvance, FS!CloseRetryInPlace, FS!ClearActive
<1>2. CASE FS!CloseBelowMinimum(c, cn, fl)
  BY <1>1, <1>2, NestedHelpersTyped DEF FS!CloseBelowMinimum
<1>3. CASE FS!CloseCurrentDeferred(c, cn, fl)
  <2>1. 0..index \in SUBSET FS!Pools
    BY DEF FS!Pools
  <2>2. (IF N - index > 1 THEN index + 1 ELSE 0) \in FS!Pools
    BY DEF FS!Pools
  <2>3. QED
    BY <1>1, <1>3, <2>1, <2>2, NestedHelpersTyped DEF FS!CloseCurrentDeferred
<1>4. CASE FS!CloseOther(c, cn, fl)
  BY <1>1, <1>4 DEF FS!CloseOther
<1>5. CASE FS!CloseAdvance(c, f, cn, fl) \/ FS!CloseRetryInPlace(c, f, cn, fl)
  BY <1>5 DEF FS!CloseAdvance, FS!CloseRetryInPlace
<1>6. QED
  BY <1>2, <1>3, <1>4, <1>5 DEF FS!OnClose

LEMMA NestedOnLoginTyped ==
    ASSUME NestedData, NEW c \in FS!Pools,
           NEW cn \in [FS!Pools -> FS!ClientStates], NEW fl \in [FS!Pools -> -1..0],
           FS!OnLoginSuccess(c, cn, fl)
    PROVE  NestedHandler'
<1> USE DEF NestedData, NestedHandler
<1>1. CASE FS!LoginBelowMinimum(c, cn, fl)
  BY <1>1, NestedHelpersTyped DEF FS!LoginBelowMinimum, FS!strategyVars
<1>2. CASE FS!LoginAccepted(c, cn, fl)
  <2>1. FS!LoginWinner(c) \in FS!Pools
    BY DEF FS!LoginWinner, FS!IsActive, FS!NoPool
  <2>2. 0 \in FS!Pools /\ FS!Pools \ {FS!LoginWinner(c)} \in SUBSET FS!Pools
    BY DEF FS!Pools
  <2>3. /\ FS!ClientDisconnect(cn, FS!Pools \ {FS!LoginWinner(c)}) \in [FS!Pools -> FS!ClientStates]
        /\ FS!DisconnectFailures(fl, FS!Pools \ {FS!LoginWinner(c)}) \in [FS!Pools -> -1..0]
    BY <2>2, NestedHelpersTyped
  <2>4. QED
    BY <1>2, <2>1, <2>2, <2>3 DEF FS!LoginAccepted
<1>3. QED
  BY <1>1, <1>2 DEF FS!OnLoginSuccess

LEMMA NestedBoolStep == NestedBool /\ [Next]_dvars => NestedBool'
<1> SUFFICES ASSUME NestedBool, [Next]_dvars PROVE NestedBool'
  OBVIOUS
<1> USE DEF NestedBool
<1>1. CASE UNCHANGED <<pendingConnect, wanted>>
  BY <1>1, Zenon
<1>2. ASSUME NEW c \in FS!Pools, NestedEvent(c) PROVE NestedBool'
  BY <1>2, Zenon DEF NestedEvent, FS!ClientConnectFails, FS!ClientLoginSucceeds,
     FS!ClientDrops, FS!OnClose, FS!CloseBelowMinimum, FS!CloseCurrentDeferred,
     FS!CloseOther, FS!CloseAdvance, FS!CloseRetryInPlace, FS!OnLoginSuccess,
     FS!LoginBelowMinimum, FS!LoginAccepted, FS!strategyVars
<1>3. CASE GraceExpires \/ DonateStop
  BY <1>3, Zenon DEF GraceExpires, DonateStop, FS!Stop, FS!StopFrom,
     FS!ConnectNextDrains
<1>4. ASSUME NEW S \in SUBSET FS!Pools, NEW fire \in BOOLEAN, DonateTick(S, fire)
      PROVE NestedBool'
  BY <1>4, Zenon DEF DonateTick, FS!Tick, FS!ConnectNextDrains
<1>5. ASSUME NEW viaProxy \in BOOLEAN, TimerToConnect(viaProxy) PROVE NestedBool'
  BY <1>5, Zenon DEF TimerToConnect, DonateConnect, FS!Connect, fsVars,
     FS!strategyVars
<1>6. CASE ProxyFails \/ ProxyDrops
  BY <1>6, Zenon DEF ProxyFails, ProxyDrops, ProxyClose, FS!Connect, fsVars,
     FS!strategyVars
<1>7. CASE TimerToWait \/ ProxyLoginSucceeds \/ UNCHANGED dvars
  BY <1>7, Zenon DEF TimerToWait, ProxyLoginSucceeds, fsVars, dvars
<1>8. QED
  BY <1>2, <1>3, <1>4, <1>5, <1>6, <1>7 DEF Next

LEMMA NestedDataStep == NestedData /\ [Next]_dvars => NestedData'
<1> SUFFICES ASSUME NestedData, [Next]_dvars PROVE NestedData'
  OBVIOUS
<1> USE DEF NestedData, NestedHandler
<1>1. CASE UNCHANGED fsVars
  BY <1>1 DEF fsVars
<1>2. CASE FS!Connect
  BY <1>2, NestedHelpersTyped DEF FS!Connect, FS!strategyVars
<1>3. ASSUME NEW S \in SUBSET FS!Pools, NEW fire \in BOOLEAN, DonateTick(S, fire)
      PROVE NestedData'
  <2> DEFINE cn == [c \in FS!Pools |-> IF c \in S THEN "connecting" ELSE conn[c]]
  <2>1. cn \in [FS!Pools -> FS!ClientStates]
    BY DEF FS!ClientStates
  <2>2. FS!ClientConnect(cn, pendingIndex) \in [FS!Pools -> FS!ClientStates]
    BY <2>1, NestedHelpersTyped
  <2>3. QED
    BY <1>3, <2>1, <2>2 DEF DonateTick, FS!Tick, FS!ConnectNextDrains
<1>4. CASE GraceExpires \/ DonateStop
  <2>1. 0 \in FS!Pools
    BY DEF FS!Pools
  <2>2. /\ FS!ClientDisconnect(conn, FS!Pools) \in [FS!Pools -> FS!ClientStates]
        /\ FS!DisconnectFailures(failures, FS!Pools) \in [FS!Pools -> -1..0]
    BY NestedHelpersTyped
  <2>3. ASSUME NEW pc, FS!StopFrom(pc) PROVE NestedHandler' /\ drops' = drops
    BY <2>1, <2>2, <2>3 DEF FS!StopFrom
  <2>4. CASE GraceExpires
    BY <2>3, <2>4 DEF GraceExpires
  <2>5. CASE DonateStop
    BY <2>3, <2>5 DEF DonateStop, FS!Stop
  <2>6. QED
    BY <1>4, <2>4, <2>5
<1>5. ASSUME NEW c \in FS!Pools, NestedEvent(c) PROVE NestedData'
  <2>1. CASE FS!ClientConnectFails(c) \/ FS!ClientDrops(c)
    <3> DEFINE f == FS!NextFailures(failures, c)
    <3>1. f = 0
      BY NestedHelpersTyped
    <3>2. [conn EXCEPT ![c] = "waiting"] \in [FS!Pools -> FS!ClientStates]
      BY DEF FS!ClientStates
    <3>3. [failures EXCEPT ![c] = f] \in [FS!Pools -> -1..0]
      BY <3>1
    <3>4. NestedHandler'
      BY <2>1, <3>2, <3>3, NestedOnCloseTyped DEF FS!ClientConnectFails, FS!ClientDrops
    <3>5. QED
      BY <2>1, <3>4 DEF FS!ClientConnectFails, FS!ClientDrops
  <2>2. CASE FS!ClientLoginSucceeds(c)
    <3>1. [conn EXCEPT ![c] = "authorized"] \in [FS!Pools -> FS!ClientStates]
      BY DEF FS!ClientStates
    <3>2. [failures EXCEPT ![c] = 0] \in [FS!Pools -> -1..0]
      OBVIOUS
    <3>3. NestedHandler'
      BY <2>2, <3>1, <3>2, NestedOnLoginTyped DEF FS!ClientLoginSucceeds
    <3>4. QED
      BY <2>2, <3>3 DEF FS!ClientLoginSucceeds
  <2>3. QED
    BY <1>5, <2>1, <2>2 DEF NestedEvent
<1>6. QED
  <2>1. ASSUME NEW viaProxy \in BOOLEAN, TimerToConnect(viaProxy) PROVE NestedData'
    BY <2>1, <1>1, <1>2 DEF TimerToConnect, DonateConnect
  <2>2. CASE ProxyFails \/ ProxyDrops
    BY <2>2, <1>1, <1>2 DEF ProxyFails, ProxyDrops, ProxyClose
  <2>3. CASE TimerToWait \/ ProxyLoginSucceeds \/ UNCHANGED dvars
    BY <2>3, <1>1 DEF TimerToWait, ProxyLoginSucceeds, dvars
  <2>4. QED
    BY <1>3, <1>4, <1>5, <2>1, <2>2, <2>3 DEF Next

(* Every step of DonateStrategy keeps the nested strategy well typed.      *)
LEMMA NestedTypeStep == FS!TypeOK /\ [Next]_dvars => FS!TypeOK'
BY NestedBoolStep, NestedDataStep, Zenon DEF FS!TypeOK, NestedBool, NestedData, NestedHandler
-----------------------------------------------------------------------------
(* DonateTypeOK.  It is not inductive by itself: a proxy's failure count   *)
(* stays below 2 only because the proxy exists only under proxyDonate      *)
(* AUTO (createProxy returns null under NONE), where onClose deletes it at *)
(* the second failure in a row.                                            *)

ProxyOnlyWhenAuto == proxy # "none" => ProxyDonate = "AUTO"

DonateRest ==
    /\ state \in States
    /\ proxy \in ProxyStates
    /\ proxyFailures \in 0..1
    /\ proxyDrops \in 0..MaxProxyDrops
    /\ ProxyOnlyWhenAuto

DonateTypeInv == DonateTypeOK /\ ProxyOnlyWhenAuto

LEMMA DonateRestStep == DonateRest /\ [Next]_dvars => DonateRest'
<1> SUFFICES ASSUME DonateRest, [Next]_dvars PROVE DonateRest'
  OBVIOUS
<1> USE DEF DonateRest, ProxyOnlyWhenAuto, States, ProxyStates
<1>1. CASE TimerToWait
  BY <1>1 DEF TimerToWait, proxyVars
<1>2. ASSUME NEW viaProxy \in BOOLEAN, TimerToConnect(viaProxy) PROVE DonateRest'
  BY <1>2 DEF TimerToConnect, DonateConnect, CreateProxy
<1>3. ASSUME NEW S \in SUBSET FS!Pools, NEW fire \in BOOLEAN, DonateTick(S, fire)
      PROVE DonateRest'
  BY <1>3 DEF DonateTick, ProxyTick
<1>4. CASE GraceExpires
  BY <1>4 DEF GraceExpires
<1>5. ASSUME NEW c \in FS!Pools, NestedEvent(c) PROVE DonateRest'
  BY <1>5 DEF NestedEvent, OnActive, EnterActive, proxyVars
<1>6. CASE ProxyLoginSucceeds
  BY <1>6 DEF ProxyLoginSucceeds, OnActive, EnterActive
<1>7. CASE ProxyFails \/ ProxyDrops
  <2>1. ProxyDonate = "AUTO" /\ proxyFailures + 1 \in 1..2
    BY <1>7 DEF ProxyFails, ProxyDrops
  <2>2. QED
    BY <1>7, <2>1 DEF ProxyFails, ProxyDrops, ProxyClose
<1>8. CASE DonateStop
  BY <1>8 DEF DonateStop, proxyVars
<1>9. CASE UNCHANGED dvars
  BY <1>9 DEF dvars, proxyVars
<1>10. QED
  BY <1>1, <1>2, <1>3, <1>4, <1>5, <1>6, <1>7, <1>8, <1>9 DEF Next

LEMMA TimerTypeStep == timer \in BOOLEAN /\ [Next]_dvars => timer' \in BOOLEAN
BY Zenon DEF Next, TimerToWait, TimerToConnect, DonateTick, GraceExpires,
   NestedEvent, OnActive, EnterActive, ProxyLoginSucceeds, ProxyFails,
   ProxyDrops, DonateStop, dvars

LEMMA DonateTypeInvInit == Init => DonateTypeInv
<1> SUFFICES ASSUME Init PROVE DonateTypeInv
  OBVIOUS
<1>1. FS!TypeOK
  <2>1. NestedBool
    BY Zenon DEF Init, FS!Init, NestedBool
  <2>2. NestedData
    <3>1. 0 \in FS!Pools
      BY DEF FS!Pools
    <3>2. conn \in [FS!Pools -> FS!ClientStates]
      BY DEF Init, FS!Init, FS!ClientStates
    <3>3. failures \in [FS!Pools -> -1..0]
      BY DEF Init, FS!Init
    <3>4. QED
      BY <3>1, <3>2, <3>3 DEF Init, FS!Init, NestedData, NestedHandler
  <2>3. QED
    BY <2>1, <2>2, NestedSplit
<1>2. QED
  BY <1>1 DEF Init, DonateTypeInv, DonateTypeOK, ProxyOnlyWhenAuto, States,
     ProxyStates

LEMMA DonateTypeInvStep == DonateTypeInv /\ [Next]_dvars => DonateTypeInv'
<1> SUFFICES ASSUME DonateTypeInv, [Next]_dvars PROVE DonateTypeInv'
  OBVIOUS
<1>1. FS!TypeOK /\ DonateRest /\ timer \in BOOLEAN
  BY Zenon DEF DonateTypeInv, DonateTypeOK, DonateRest
<1>2. FS!TypeOK' /\ DonateRest' /\ timer' \in BOOLEAN
  BY <1>1, NestedTypeStep, DonateRestStep, TimerTypeStep
<1>3. QED
  BY <1>2, Zenon DEF DonateTypeInv, DonateTypeOK, DonateRest

(* DonateTypeOK: the nested strategy (m_retries 0) stays well typed, and   *)
(* the proxy client's failure count stays below 2, because onClose deletes *)
(* the proxy at its second failure in a row and createProxy makes none     *)
(* under proxyDonate NONE.                                                  *)
THEOREM DonateTypeCorrect == Spec => []DonateTypeOK
<1>1. DonateTypeInv => DonateTypeOK
  BY DEF DonateTypeInv
<1>2. QED
  BY <1>1, DonateTypeInvInit, DonateTypeInvStep, PTL DEF Spec
=============================================================================
