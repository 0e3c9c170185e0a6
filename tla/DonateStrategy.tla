--------------------------- MODULE DonateStrategy ---------------------------
(***************************************************************************)
(* DonateStrategy (src/net/strategies/DonateStrategy.cpp): the donation    *)
(* time-multiplexer IDLE -> CONNECT -> ACTIVE -> WAIT -> IDLE, its one-shot *)
(* timer, the optional donation proxy, and the nested FailoverStrategy     *)
(* over the donation pools (constructed with retries = 0) with its         *)
(* clients.  The nested strategy is the FailoverStrategy module itself,    *)
(* instantiated over the same variables; DonateStrategy is its listener.   *)
(*                                                                         *)
(* Time is abstract: a timer that is armed may fire at any later step, and *)
(* a tick may or may not observe the end of the WAIT grace period.         *)
(***************************************************************************)
EXTENDS Naturals, Integers, FiniteSets

CONSTANTS
    N,              \* donation pools: 3 with TLS compiled in, else 2
    Reachable,      \* donation pools whose connection attempts can log in
    Failing,        \* donation pools whose connection attempts can fail
    MaxDrops,       \* bound on drops of an authorized donation client
    MaxStops,       \* bound on the owner's calls of DonateStrategy::stop()
    ProxyDonate,    \* pools.proxyDonate
    MaxProxyDrops   \* bound on drops of an authorized proxy client

ASSUME ProxyDonateAssumption == ProxyDonate \in {"NONE", "AUTO"}
ASSUME ProxyBoundAssumption == MaxProxyDrops \in Nat
\* The donation pool list is never empty (kDonateHost, and kDonateHostTls
\* when TLS is compiled in).
ASSUME DonatePoolsAssumption == N \in Nat \ {0}
\* Every donation pool either can log in or can fail, and the environment's
\* drops and the owner's stops are bounded by naturals (the nested
\* strategy's own assumptions, stated for the donation pools).
ASSUME DonateReachableAssumption ==
    /\ Reachable \subseteq 0..(N - 1)
    /\ Failing \subseteq 0..(N - 1)
    /\ Reachable \cup Failing = 0..(N - 1)
ASSUME DonateBoundsAssumption == MaxDrops \in Nat /\ MaxStops \in Nat

VARIABLES
    index, active, pendingConnect, pendingIndex, minAcceptableIndex,
    conn, failures, wanted, drops, stops,   \* the nested FailoverStrategy
    state,          \* m_state
    timer,          \* m_timer is armed
    proxy,          \* "none" (m_proxy null) or the proxy client's state
    proxyFailures,  \* the proxy client's consecutive-failure count
    proxyDrops      \* drops of the proxy so far (bounded by MaxProxyDrops)

\* m_strategy: FailoverStrategy(m_pools, 1, 0, this, true)
FS == INSTANCE FailoverStrategy WITH Retries <- 0

fsVars == <<index, active, pendingConnect, pendingIndex, minAcceptableIndex,
            conn, failures, wanted, drops, stops>>
proxyVars == <<proxy, proxyFailures, proxyDrops>>
dvars == <<fsVars, state, timer, proxyVars>>

States == {"IDLE", "CONNECT", "ACTIVE", "WAIT"}
ProxyStates == {"none", "connecting", "waiting", "authorized"}

-----------------------------------------------------------------------------
\* The constructor's setState(STATE_IDLE) from STATE_NEW: idle(0.5, 1.5)
\* arms the timer; the nested strategy and the proxy are idle.
Init ==
    /\ FS!Init
    /\ state = "IDLE"
    /\ timer = TRUE
    /\ proxy = "none"
    /\ proxyFailures = 0
    /\ proxyDrops = 0

\* Mutant: entering ACTIVE does not start the donateTime timer.
EnterActiveNoTimer ==
    /\ state' = "ACTIVE"
    /\ UNCHANGED timer

\* setState(STATE_ACTIVE): start the donateTime timer.  The listener gets
\* onActive.
EnterActive ==
    /\ state' = "ACTIVE"
    /\ timer' = TRUE

\* onActive / onLoginSuccess: return if already active, else enter ACTIVE.
OnActive ==
    \/ state = "ACTIVE" /\ UNCHANGED <<state, timer>>
    \/ state # "ACTIVE" /\ EnterActive

\* createProxy(): a proxy client when proxyDonate is not NONE and the
\* operator's strategy is active with the CONNECT extension (viaProxy),
\* else null.
CreateProxy(viaProxy) == ProxyDonate # "NONE" /\ viaProxy

\* DonateStrategy::connect() from setState(STATE_CONNECT): connect the new
\* proxy client (with no failures yet), or the nested strategy.
DonateConnect(viaProxy) ==
    IF CreateProxy(viaProxy)
      THEN /\ proxy' = "connecting"
           /\ proxyFailures' = 0
           /\ UNCHANGED <<fsVars, proxyDrops>>
      ELSE /\ proxy' = "none"
           /\ FS!Connect
           /\ UNCHANGED <<proxyFailures, proxyDrops>>

\* onTimer while ACTIVE: setState(STATE_WAIT) sets the grace deadline and
\* emits onPause.
TimerToWait ==
    /\ timer
    /\ state = "ACTIVE"
    /\ timer' = FALSE
    /\ state' = "WAIT"
    /\ UNCHANGED <<fsVars, proxyVars>>

\* Mutant: the idle timer is started as a repeating timer.
TimerToConnectRepeating(viaProxy) ==
    /\ timer
    /\ state \notin {"ACTIVE", "CONNECT"}
    /\ timer' = TRUE
    /\ state' = "CONNECT"
    /\ DonateConnect(viaProxy)

\* onTimer otherwise: setState(STATE_CONNECT) calls connect().  In CONNECT
\* itself setState returns at once (after its assert).
TimerToConnect(viaProxy) ==
    /\ timer
    /\ state \notin {"ACTIVE", "CONNECT"}
    /\ timer' = FALSE
    /\ state' = "CONNECT"
    /\ DonateConnect(viaProxy)

\* The proxy client's own tick(): an expired reconnect timer reconnects.
ProxyTick(fire) ==
    /\ proxy' = IF proxy = "waiting" /\ fire THEN "connecting" ELSE proxy
    /\ UNCHANGED <<proxyFailures, proxyDrops>>

\* DonateStrategy::tick(now) when the WAIT grace has not run out (or the
\* state is not WAIT): tick the nested strategy and the proxy.
DonateTick(S, fire) ==
    /\ FS!Tick(S)
    /\ ProxyTick(fire)
    /\ UNCHANGED <<state, timer>>

\* Mutant: leaving WAIT does not delete the proxy.
GraceExpiresKeepsProxy ==
    /\ state = "WAIT"
    /\ FS!StopFrom(IF FS!ConnectNextDrains THEN FALSE ELSE pendingConnect)
    /\ state' = "IDLE"
    /\ timer' = TRUE
    /\ UNCHANGED <<stops, proxy, proxyFailures, proxyDrops>>

\* DonateStrategy::tick(now) with state WAIT and now > m_timestamp.  The
\* nested strategy is ticked first (its connectNext() drains a deferred
\* connect), then setState(STATE_IDLE) from WAIT stops it, deletes the
\* proxy and arms the idle(0.8, 1.2) timer.
GraceExpires ==
    /\ state = "WAIT"
    /\ FS!StopFrom(IF FS!ConnectNextDrains THEN FALSE ELSE pendingConnect)
    /\ state' = "IDLE"
    /\ timer' = TRUE
    /\ proxy' = "none"
    /\ UNCHANGED <<stops, proxyFailures, proxyDrops>>

\* An event of a nested donation client, handled by the nested strategy;
\* when that emits onActive (m_active changes to a pool), DonateStrategy's
\* onActive runs in the same turn.  Its onPause does nothing.
NestedEvent(c) ==
    /\ \/ FS!ClientConnectFails(c)
       \/ FS!ClientLoginSucceeds(c)
       \/ FS!ClientDrops(c)
    /\ IF active' # active /\ active' # FS!NoPool
         THEN OnActive
         ELSE UNCHANGED <<state, timer>>
    /\ UNCHANGED proxyVars

\* The proxy client logs in: DonateStrategy::onLoginSuccess.
ProxyLoginSucceeds ==
    /\ proxy = "connecting"
    /\ proxy' = "authorized"
    /\ proxyFailures' = 0
    /\ OnActive
    /\ UNCHANGED <<fsVars, proxyDrops>>

\* Mutant: the fallback waits for a third failure.
ProxyCloseLate(f) ==
    IF f = 3 /\ ProxyDonate = "AUTO"
      THEN /\ proxy' = "none"
           /\ FS!Connect
           /\ UNCHANGED proxyFailures
      ELSE /\ proxy' = "waiting"
           /\ proxyFailures' = f
           /\ UNCHANGED fsVars

\* DonateStrategy::onClose(client, f) for the proxy: at the second failure
\* in a row (proxyDonate AUTO) the proxy is deleted and the nested
\* strategy connects directly; otherwise the proxy retries on its timer.
ProxyClose(f) ==
    IF f = 2 /\ ProxyDonate = "AUTO"
      THEN /\ proxy' = "none"
           /\ FS!Connect
           /\ UNCHANGED proxyFailures
      ELSE /\ proxy' = "waiting"
           /\ proxyFailures' = f
           /\ UNCHANGED fsVars

\* A proxy connection attempt fails.
ProxyFails ==
    /\ proxy = "connecting"
    /\ ProxyClose(proxyFailures + 1)
    /\ UNCHANGED <<state, timer, proxyDrops>>

\* An authorized proxy connection is lost.
ProxyDrops ==
    /\ proxy = "authorized"
    /\ proxyDrops < MaxProxyDrops
    /\ ProxyClose(proxyFailures + 1)
    /\ proxyDrops' = proxyDrops + 1
    /\ UNCHANGED <<state, timer>>

\* DonateStrategy::stop(), called by the owner: stop the timer and the
\* nested strategy.  m_state and the proxy are left as they are.
DonateStop ==
    /\ FS!Stop
    /\ timer' = FALSE
    /\ UNCHANGED <<state, proxyVars>>

Next ==
    \/ TimerToWait
    \/ \E viaProxy \in BOOLEAN : TimerToConnect(viaProxy)
    \/ \E S \in SUBSET FS!Pools, fire \in BOOLEAN : DonateTick(S, fire)
    \/ GraceExpires
    \/ \E c \in FS!Pools : NestedEvent(c)
    \/ ProxyLoginSucceeds
    \/ ProxyFails
    \/ ProxyDrops
    \/ DonateStop

Spec == Init /\ [][Next]_dvars

(***************************************************************************)
(* Fairness.  The event loop fires an armed timer and ticks every          *)
(* strategy forever, and time passes, so the WAIT grace runs out.  The     *)
(* nested clients end their connection attempts as in FailoverStrategy.    *)
(* The proxy client and the owner are left unconstrained.                  *)
(***************************************************************************)
Fairness ==
    /\ WF_dvars(TimerToWait)
    /\ WF_dvars(\E viaProxy \in BOOLEAN : TimerToConnect(viaProxy))
    /\ WF_dvars(GraceExpires)
    /\ WF_dvars(\E S \in SUBSET FS!Pools, fire \in BOOLEAN : DonateTick(S, fire))
    /\ \A c \in FS!Pools :
          /\ WF_dvars(\E S \in SUBSET FS!Pools, fire \in BOOLEAN : c \in S /\ DonateTick(S, fire))
          /\ c \notin Reachable => WF_dvars(FS!ClientConnectFails(c) /\ NestedEvent(c))
          /\ c \notin Failing => WF_dvars(FS!ClientLoginSucceeds(c) /\ NestedEvent(c))

FairSpec == Spec /\ Fairness

-----------------------------------------------------------------------------
(* Properties                                                              *)

\* The proxy's failure count stays below 2: the second failure in a row
\* deletes the proxy.
DonateTypeOK ==
    /\ FS!TypeOK
    /\ state \in States
    /\ timer \in BOOLEAN
    /\ proxy \in ProxyStates
    /\ proxyFailures \in 0..1
    /\ proxyDrops \in 0..MaxProxyDrops

\* Between donation windows (IDLE) nothing of the donation side is alive:
\* no proxy, no nested client connecting, waiting or connected, and no
\* deferred connect that a later tick() would start.  This rests on the
\* order inside tick(): the nested strategy's connectNext() runs before
\* setState(STATE_IDLE) stops it.
IdleIsQuiet ==
    state = "IDLE" =>
        /\ proxy = "none"
        /\ ~pendingConnect
        /\ \A c \in FS!Pools : conn[c] = "disconnected"

\* The one-shot timer is armed only in IDLE and ACTIVE, so onTimer never
\* calls setState with the current state (the assert in setState) and
\* never leaves WAIT or CONNECT.
TimerOnlyWhenScheduled == timer => state \in {"IDLE", "ACTIVE"}

\* The spec's transition table: a donation window (ACTIVE) is only ever
\* entered from CONNECT, after the idle timer fired.
DonationStartsFromConnect ==
    [][state # "ACTIVE" /\ state' = "ACTIVE" => state = "CONNECT"]_dvars

\* Every donation window ends: ACTIVE is followed by WAIT and then by IDLE,
\* where the nested strategy has been stopped.
DonationEnds == state = "ACTIVE" ~> state = "IDLE"

\* A donation attempt succeeds eventually: CONNECT leads to ACTIVE when
\* some donation pool always logs in.
DonationResumes ==
    Reachable \ Failing # {} => (state = "CONNECT" ~> state = "ACTIVE")

=============================================================================
