------------------------------ MODULE ActivePool ------------------------------
(***************************************************************************)
(* What a pool strategy promises its StrategyListener about the active     *)
(* pool, with the clients, the failover cascade and the timers abstracted  *)
(* away.  The listener sees onActive(client) when a pool becomes active    *)
(* and onPause() when it stops being active (spec, StrategyListener and    *)
(* FailoverStrategy).  The owner starts the strategy with connect() and    *)
(* ends it with stop(), which pauses it.                                   *)
(*                                                                         *)
(* The contract: a pool becomes active only while the owner wants a        *)
(* connection and only from the paused state, so the listener never sees  *)
(* two onActive without an onPause between them; stop() and a close of    *)
(* the active pool pause it.                                               *)
(***************************************************************************)
CONSTANTS Pools, NoPool

VARIABLES
    current,    \* the active pool the listener was told of, or NoPool
    requested   \* the owner's last call was connect(), not stop()

avars == <<current, requested>>

APInit ==
    /\ current = NoPool
    /\ requested = FALSE

(* connect(): the owner asks for a connection.                             *)
Request ==
    /\ requested' = TRUE
    /\ UNCHANGED current

(* stop(): the strategy is paused and no longer wanted.                    *)
Halt ==
    /\ requested' = FALSE
    /\ current' = NoPool

(* onActive(p): a pool logs in while the strategy is wanted and paused.    *)
Activate(p) ==
    /\ requested
    /\ current = NoPool
    /\ current' = p
    /\ UNCHANGED requested

(* onPause(): the active pool's connection closes.                         *)
Pause ==
    /\ current # NoPool
    /\ current' = NoPool
    /\ UNCHANGED requested

APNext ==
    \/ Request
    \/ Halt
    \/ \E p \in Pools : Activate(p)
    \/ Pause

APSpec == APInit /\ [][APNext]_avars

=============================================================================
