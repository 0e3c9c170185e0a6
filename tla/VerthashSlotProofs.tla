--------------------------- MODULE VerthashSlotProofs --------------------------
(***************************************************************************)
(* VerthashDataset implements VerthashSlot under the mapping of            *)
(* VerthashDataset (SlotLoaded, SlotCalling, SlotReq).                     *)
(*                                                                         *)
(* The argument rests on the inductive invariant of VerthashDatasetProofs: *)
(* the thread at check or load holds m_mutex alone, so while it is there   *)
(* no other thread is loading and the dataset is owned (m_info zero or     *)
(* describing a live allocation of a file); at load m_info is zero.  Then  *)
(* the free of a different file at line 51 is the slot's Unload, the      *)
(* same-file return at line 48 and the load at lines 55-63 are its Finish, *)
(* release() is its Empty, a thread reaching the mutex in init is Invoke,  *)
(* and every other step leaves the three mapped values alone.             *)
(***************************************************************************)
EXTENDS VerthashDatasetProofs, SequenceTheorems

USE FilesAssumption, CallsAssumption

SlotVars == <<SlotLoaded, SlotCalling, SlotReq, SlotReleasing>>

(* A step that keeps m_info and arg, and moves thread t between two labels *)
(* both inside or both outside init, and both inside or both outside       *)
(* release, changes none of the mapped values.                             *)
LEMMA SlotFrame ==
    ASSUME TypeInv, NEW t \in Threads, NEW lbl,
           pc' = [pc EXCEPT ![t] = lbl], info' = info, arg' = arg,
           pc[t] \in InitLabels <=> lbl \in InitLabels,
           pc[t] \in ReleaseLabels <=> lbl \in ReleaseLabels
    PROVE  UNCHANGED SlotVars
<1>1. SlotLoaded' = SlotLoaded
  BY DEF SlotLoaded
<1>2. \A u \in Threads : pc'[u] \in InitLabels <=> pc[u] \in InitLabels
  BY DEF TypeInv, VhTypeOK
<1>3. SlotCalling' = SlotCalling
  BY <1>2 DEF SlotCalling
<1>4. SlotReq' = SlotReq
  BY <1>2 DEF SlotReq
<1>5. SlotReleasing' = SlotReleasing
  <2>1. \A u \in Threads : pc'[u] \in ReleaseLabels <=> pc[u] \in ReleaseLabels
    BY DEF TypeInv, VhTypeOK
  <2>2. QED
    BY <2>1 DEF SlotReleasing
<1>6. QED
  BY <1>1, <1>3, <1>4, <1>5 DEF SlotVars

(* A step that changes no thread's label, m_info or arg is a stutter.     *)
LEMMA SlotStill ==
    ASSUME UNCHANGED <<pc, info, arg>>
    PROVE  UNCHANGED SlotVars
BY DEF SlotVars, SlotLoaded, SlotCalling, SlotReq, SlotReleasing

(* Under the lock, the dataset is owned or, at load, empty.                *)
LEMMA OwnerSeesOwned ==
    ASSUME IInv, NEW t \in Threads, pc[t] \in {"check", "release"}
    PROVE  Owned
<1>1. ~Loading
  BY DEF IInv, Loading, LockInv, LockedLabels, TypeInv, VhTypeOK
<1>2. QED
  BY <1>1 DEF IInv, OwnedInv

(* A thread that neither leaves nor enters release keeps the releasers.    *)
LEMMA ReleasingStill ==
    ASSUME TypeInv, NEW t \in Threads, NEW lbl, pc' = [pc EXCEPT ![t] = lbl],
           pc[t] \notin ReleaseLabels, lbl \notin ReleaseLabels
    PROVE  SlotReleasing' = SlotReleasing
<1>1. \A u \in Threads : pc'[u] \in ReleaseLabels <=> pc[u] \in ReleaseLabels
  BY DEF TypeInv, VhTypeOK
<1>2. QED
  BY <1>1 DEF SlotReleasing

LEMMA SlotInitStep == Init => Slot!SlotInit
BY DEF Init, Slot!SlotInit, Slot!NoConfig, SlotLoaded, SlotCalling, SlotReq,
   SlotReleasing, InitLabels, ReleaseLabels, Zero

LEMMA SlotStep == IInv /\ [Next]_vars => [Slot!SlotNext]_SlotVars
<1> SUFFICES ASSUME IInv, [Next]_vars PROVE [Slot!SlotNext]_SlotVars
  OBVIOUS
<1>0. TypeInv
  BY DEF IInv
<1> USE <1>0
<1>1. ASSUME NEW t \in Threads, NEW c \in Configs, CallVhInitGenerate(t, c)
      PROVE UNCHANGED SlotVars
  <2>1. SlotLoaded' = SlotLoaded /\ SlotCalling' = SlotCalling
    BY <1>1 DEF CallVhInitGenerate, SlotLoaded, SlotCalling, InitLabels,
       TypeInv, VhTypeOK
  <2>2. SlotReq' = SlotReq
    BY <1>1 DEF CallVhInitGenerate, SlotReq, InitLabels, TypeInv, VhTypeOK
  <2>3. SlotReleasing' = SlotReleasing
    BY <1>1, ReleasingStill DEF CallVhInitGenerate, ReleaseLabels
  <2>4. QED
    BY <2>1, <2>2, <2>3 DEF SlotVars
<1>2. ASSUME NEW t \in Threads, NEW c \in Configs, CallVhInit(t, c)
      PROVE Slot!Invoke(t, c)
  <2>1. pc[t] = "idle" /\ pc' = [pc EXCEPT ![t] = "lock"] /\ arg' = [arg EXCEPT ![t] = c]
        /\ info' = info
    BY <1>2 DEF CallVhInit, singletonVars
  <2>2. t \notin SlotCalling /\ SlotCalling' = SlotCalling \cup {t}
    BY <2>1 DEF SlotCalling, InitLabels, TypeInv, VhTypeOK
  <2>3. SlotReq' = [SlotReq EXCEPT ![t] = c]
    BY <2>1 DEF SlotReq, InitLabels, TypeInv, VhTypeOK
  <2>4. t \notin SlotReleasing /\ SlotReleasing' = SlotReleasing
    BY <2>1, ReleasingStill DEF SlotReleasing, ReleaseLabels
  <2>5. QED
    BY <2>1, <2>2, <2>3, <2>4 DEF Slot!Invoke, Slot!Idle, SlotLoaded
<1>3. ASSUME NEW t \in Threads, GenerateEnds(t)
      PROVE \/ \E c \in Configs : Slot!Invoke(t, c)
            \/ UNCHANGED SlotVars
  <2>1. pc[t] = "gen" /\ arg' = arg /\ info' = info
    BY <1>3 DEF GenerateEnds
  <2>2. CASE pc' = [pc EXCEPT ![t] = "lock"]
    <3>1. arg[t] \in Configs
      BY <2>1 DEF TypeInv, VhTypeOK, GenArg
    <3>2. t \notin SlotCalling /\ SlotCalling' = SlotCalling \cup {t}
      BY <2>1, <2>2 DEF SlotCalling, InitLabels, TypeInv, VhTypeOK
    <3>3. SlotReq' = [SlotReq EXCEPT ![t] = arg[t]]
      BY <2>1, <2>2 DEF SlotReq, InitLabels, TypeInv, VhTypeOK
    <3>4. t \notin SlotReleasing /\ SlotReleasing' = SlotReleasing
      BY <2>1, <2>2, ReleasingStill DEF SlotReleasing, ReleaseLabels
    <3>5. Slot!Invoke(t, arg[t])
      BY <2>1, <3>2, <3>3, <3>4 DEF Slot!Invoke, Slot!Idle, SlotLoaded
    <3>6. QED
      BY <3>1, <3>5
  <2>3. CASE pc' = [pc EXCEPT ![t] = "idle"]
    BY <2>1, <2>3, SlotFrame DEF InitLabels, ReleaseLabels
  <2>4. QED
    BY <1>3, <2>2, <2>3 DEF GenerateEnds
<1>4. ASSUME NEW t \in Threads,
             Acquire(t) \/ CallHash(t) \/ HashCheck(t) \/ HashArgs(t) \/ HashRun(t)
      PROVE UNCHANGED SlotVars
  BY <1>4, SlotFrame DEF Acquire, CallHash, HashCheck, HashArgs,
     HashRun, InitLabels, ReleaseLabels, singletonVars
<1>5. ASSUME NEW t \in Threads, CallVhDestroy(t) PROVE Slot!BeginRelease(t)
  <2>1. pc[t] = "idle" /\ pc' = [pc EXCEPT ![t] = "relLock"] /\ arg' = arg
        /\ info' = info
    BY <1>5 DEF CallVhDestroy, singletonVars
  <2>2. t \notin SlotReleasing /\ SlotReleasing' = SlotReleasing \cup {t}
    BY <2>1 DEF SlotReleasing, ReleaseLabels, TypeInv, VhTypeOK
  <2>3. t \notin SlotCalling /\ SlotCalling' = SlotCalling /\ SlotReq' = SlotReq
    <3>1. \A u \in Threads : pc'[u] \in InitLabels <=> pc[u] \in InitLabels
      BY <2>1 DEF InitLabels, TypeInv, VhTypeOK
    <3>2. QED
      BY <2>1, <3>1 DEF SlotCalling, SlotReq, InitLabels
  <2>4. QED
    BY <2>1, <2>2, <2>3 DEF Slot!BeginRelease, Slot!Idle, SlotLoaded
<1>6. ASSUME NEW r \in Runners,
             \/ RunnerValid(r) \/ RunnerReadSize(r) \/ RunnerReadMask(r)
             \/ RunnerCreateBuffer(r) \/ RunnerReadData(r) \/ RunnerUpload(r)
      PROVE UNCHANGED SlotVars
  BY <1>6, SlotStill DEF RunnerValid, RunnerReadSize, RunnerReadMask,
     RunnerCreateBuffer, RunnerReadData, RunnerUpload, singletonVars, threadVars
<1>7. CASE Terminating \/ UNCHANGED vars
  BY <1>7, SlotStill DEF Terminating, vars, singletonVars, threadVars
<1>8. ASSUME NEW t \in Threads, Check(t) PROVE [Slot!SlotNext]_SlotVars
  <2>0. SlotReleasing' = SlotReleasing
    BY <1>8, ReleasingStill DEF Check, ReleaseLabels
  <2>1. Owned /\ pc[t] = "check" /\ arg' = arg
    BY <1>8, OwnerSeesOwned DEF Check
  <2>2. CASE initialized /\ info.data # 0 /\ info.file = Path(t)
    <3>1. pc' = [pc EXCEPT ![t] = "idle"] /\ info' = info
      BY <1>8, <2>2 DEF Check
    <3>2. t \in SlotCalling /\ SlotCalling' = SlotCalling \ {t}
      BY <2>1, <3>1 DEF SlotCalling, InitLabels, TypeInv, VhTypeOK
    <3>3. SlotReq' = [SlotReq EXCEPT ![t] = Slot!NoConfig]
      BY <2>1, <3>1 DEF SlotReq, Slot!NoConfig, InitLabels, TypeInv, VhTypeOK
    <3>4. SlotLoaded = Slot!PathFor(SlotReq[t]) /\ SlotLoaded' = SlotLoaded
      BY <2>1, <2>2, <3>1 DEF SlotLoaded, SlotReq, Slot!PathFor, Path, InitPath,
         InitLabels
    <3>5. Slot!Finish(t)
      BY <2>0, <3>2, <3>3, <3>4 DEF Slot!Finish
    <3>6. QED
      BY <3>5 DEF Slot!SlotNext
  <2>3. CASE initialized /\ info.data # 0 /\ info.file # Path(t)
    <3>1. pc' = [pc EXCEPT ![t] = "load"] /\ info' = Zero
      BY <1>8, <2>3 DEF Check
    <3>2. info.data \in Allocs
      BY <2>3 DEF TypeInv, VhTypeOK, Info, Allocs
    <3>3. info.file \in Files
      <4>1. region[info.data].file \in Files
        <5>1. region \in Seq([size : Sizes \ {0}, file : Files])
          BY DEF TypeInv, VhTypeOK
        <5>2. info.data \in 1..Len(region)
          BY <3>2 DEF Allocs
        <5>3. region[info.data] \in [size : Sizes \ {0}, file : Files]
          BY <5>1, <5>2, ElementOfSeq
        <5>4. QED
          BY <5>3
      <4>2. info.file = region[info.data].file
        BY <2>1, <2>3 DEF Owned, Described
      <4>3. QED
        BY <4>1, <4>2
    <3>4. SlotLoaded \notin {NoFile, Slot!PathFor(SlotReq[t])}
      BY <2>1, <2>3, <3>3 DEF SlotLoaded, SlotReq, Slot!PathFor, Path, InitPath,
         InitLabels
    <3>5. SlotLoaded' = NoFile
      BY <3>1 DEF SlotLoaded, Zero
    <3>6. SlotCalling' = SlotCalling /\ SlotReq' = SlotReq
      <4>1. \A u \in Threads : pc'[u] \in InitLabels <=> pc[u] \in InitLabels
        BY <2>1, <3>1 DEF InitLabels, TypeInv, VhTypeOK
      <4>2. QED
        BY <2>1, <4>1 DEF SlotCalling, SlotReq
    <3>7. t \in SlotCalling
      BY <2>1 DEF SlotCalling, InitLabels
    <3>8. Slot!Unload(t)
      BY <2>0, <3>4, <3>5, <3>6, <3>7 DEF Slot!Unload
    <3>9. QED
      BY <3>8 DEF Slot!SlotNext
  <2>4. CASE ~(initialized /\ info.data # 0)
    <3>1. pc' = [pc EXCEPT ![t] = "load"] /\ info' = info
      BY <1>8, <2>4 DEF Check
    <3>2. QED
      BY <2>1, <3>1, SlotFrame DEF InitLabels, ReleaseLabels
  <2>5. QED
    BY <2>2, <2>3, <2>4
<1>9. ASSUME NEW t \in Threads, Load(t) PROVE [Slot!SlotNext]_SlotVars
  <2>1. pc[t] = "load" /\ pc' = [pc EXCEPT ![t] = "idle"] /\ arg' = arg
    BY <1>9 DEF Load
  <2>2. info = Zero
    BY <2>1 DEF IInv, OwnedInv, Loading
  <2>3. SlotLoaded = NoFile
    BY <2>2 DEF SlotLoaded, Zero
  <2>4. SlotLoaded' \in {Slot!PathFor(SlotReq[t]), SlotLoaded}
    <3>1. CASE Path(t) \in onDisk
      <4>1. info'.data # 0 /\ info'.file = Path(t)
        BY <1>9, <3>1 DEF Load
      <4>2. QED
        BY <2>1, <4>1 DEF SlotLoaded, SlotReq, Slot!PathFor, Path, InitPath,
           InitLabels
    <3>2. CASE Path(t) \notin onDisk
      BY <1>9, <2>3, <3>2 DEF Load, SlotLoaded, Zero
    <3>3. QED
      BY <3>1, <3>2
  <2>5. t \in SlotCalling /\ SlotCalling' = SlotCalling \ {t}
    BY <2>1 DEF SlotCalling, InitLabels, TypeInv, VhTypeOK
  <2>6. SlotReq' = [SlotReq EXCEPT ![t] = Slot!NoConfig]
    BY <2>1 DEF SlotReq, Slot!NoConfig, InitLabels, TypeInv, VhTypeOK
  <2>7. SlotReleasing' = SlotReleasing
    <3>1. \A u \in Threads : pc'[u] \in ReleaseLabels <=> pc[u] \in ReleaseLabels
      BY <2>1 DEF ReleaseLabels, TypeInv, VhTypeOK
    <3>2. QED
      BY <3>1 DEF SlotReleasing
  <2>8. Slot!Finish(t)
    BY <2>3, <2>4, <2>5, <2>6, <2>7 DEF Slot!Finish
  <2>9. QED
    BY <2>8 DEF Slot!SlotNext
<1>10. ASSUME NEW t \in Threads, Release(t) PROVE [Slot!SlotNext]_SlotVars
  <2>1. Owned /\ pc[t] = "release" /\ pc' = [pc EXCEPT ![t] = "idle"] /\ arg' = arg
    BY <1>10, OwnerSeesOwned DEF Release
  <2>2. SlotLoaded' = NoFile
    <3>1. CASE initialized
      BY <1>10, <3>1 DEF Release, SlotLoaded, Zero
    <3>2. CASE ~initialized
      <4>1. info.data = 0
        BY <2>1, <3>2 DEF Owned
      <4>2. QED
        BY <1>10, <3>2, <4>1 DEF Release, SlotLoaded
    <3>3. QED
      BY <3>1, <3>2
  <2>3. SlotCalling' = SlotCalling /\ SlotReq' = SlotReq
    <3>1. \A u \in Threads : pc'[u] \in InitLabels <=> pc[u] \in InitLabels
      BY <2>1 DEF InitLabels, TypeInv, VhTypeOK
    <3>2. QED
      BY <2>1, <3>1 DEF SlotCalling, SlotReq
  <2>4. t \in SlotReleasing /\ SlotReleasing' = SlotReleasing \ {t}
    BY <2>1 DEF SlotReleasing, ReleaseLabels, TypeInv, VhTypeOK
  <2>5. Slot!Empty(t)
    BY <2>2, <2>3, <2>4 DEF Slot!Empty
  <2>6. QED
    BY <2>5 DEF Slot!SlotNext
<1>11. QED
  BY <1>1, <1>2, <1>3, <1>4, <1>6, <1>7, <1>8, <1>9, <1>10, <1>5
  DEF Next, Slot!SlotNext

(* Verthash::init and release, run by any number of threads alongside the  *)
(* unlocked hashers and GPU uploads, implement the slot contract of the    *)
(* spec's init(path): an init of the held file changes nothing, an init of *)
(* another file first empties the slot and then holds the file its config  *)
(* names or nothing, release() empties it, and no other step touches it.   *)
THEOREM SlotRefinement == Spec => ImplementsSlot
<1>1. Init => Slot!SlotInit
  BY SlotInitStep
<1>2. IInv /\ [Next]_vars => [Slot!SlotNext]_SlotVars
  BY SlotStep
<1>3. QED
  BY <1>1, <1>2, Invariance, PTL DEF Spec, ImplementsSlot, Slot!SlotSpec,
     Slot!svars, SlotVars
=============================================================================
