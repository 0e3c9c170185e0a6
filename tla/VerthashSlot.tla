----------------------------- MODULE VerthashSlot -----------------------------
(***************************************************************************)
(* What the Verthash dataset promises its callers, with the mutex, the     *)
(* allocations and the readers abstracted away: one slot that holds the    *)
(* dataset of one file or nothing.                                         *)
(*                                                                         *)
(* A Vh::init(config) call loads the file the config names: its dataFile,  *)
(* else the file it generated ("If no data file was specified, use the     *)
(* generated one", Vh.cpp), else "verthash.dat" (spec, configuration).     *)
(* Per the spec's contract of init(path): if the slot already holds that   *)
(* file the call returns and nothing changes; otherwise it releases the    *)
(* held dataset and then loads the file, which holds it or leaves the slot *)
(* empty on failure.  Readers do not take the lock, so the release and the *)
(* load are two steps they can tell apart.  A release() call empties the  *)
(* slot once, before it returns; nothing else empties it.                  *)
(***************************************************************************)
CONSTANTS Threads, Files, NoFile, DefaultFile, Configs

VARIABLES
    loaded,   \* the file whose dataset the slot holds, or NoFile
    calling,  \* the threads inside an init call
    req,      \* req[t]: the config of thread t's init call
    releasing \* the threads inside a release call

svars == <<loaded, calling, req, releasing>>

(* The config an idle thread is recorded with.                             *)
NoConfig == [gen |-> NoFile, data |-> NoFile]

(* The file an init call with config c loads.                              *)
PathFor(c) == IF c.data # NoFile THEN c.data
              ELSE IF c.gen # NoFile THEN c.gen ELSE DefaultFile

SlotInit ==
    /\ loaded = NoFile
    /\ calling = {}
    /\ req = [t \in Threads |-> NoConfig]
    /\ releasing = {}

(* A thread is in at most one call.                                        *)
Idle(t) == t \notin calling \cup releasing

(* Thread t calls init with config c.                                      *)
Invoke(t, c) ==
    /\ Idle(t)
    /\ calling' = calling \cup {t}
    /\ req' = [req EXCEPT ![t] = c]
    /\ UNCHANGED <<loaded, releasing>>

(* The call finds another file held and releases it first.                 *)
Unload(t) ==
    /\ t \in calling
    /\ loaded \notin {NoFile, PathFor(req[t])}
    /\ loaded' = NoFile
    /\ UNCHANGED <<calling, req, releasing>>

(* The call returns: the requested file was held already, or the slot was  *)
(* empty and the load either holds the file or fails.                      *)
Finish(t) ==
    /\ t \in calling
    /\ loaded \in {NoFile, PathFor(req[t])}
    /\ loaded' \in {PathFor(req[t]), loaded}
    /\ calling' = calling \ {t}
    /\ req' = [req EXCEPT ![t] = NoConfig]
    /\ UNCHANGED releasing

(* Thread t calls release().                                               *)
BeginRelease(t) ==
    /\ Idle(t)
    /\ releasing' = releasing \cup {t}
    /\ UNCHANGED <<loaded, calling, req>>

(* Thread t's release() empties the slot and returns.                      *)
Empty(t) ==
    /\ t \in releasing
    /\ loaded' = NoFile
    /\ releasing' = releasing \ {t}
    /\ UNCHANGED <<calling, req>>

SlotNext ==
    \/ \E t \in Threads, c \in Configs : Invoke(t, c)
    \/ \E t \in Threads : Unload(t) \/ Finish(t) \/ BeginRelease(t) \/ Empty(t)

SlotSpec == SlotInit /\ [][SlotNext]_svars
=============================================================================
