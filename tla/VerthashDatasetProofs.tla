------------------------ MODULE VerthashDatasetProofs ------------------------
(***************************************************************************)
(* Proofs about VerthashDataset: the type invariant and DatasetOwned, for  *)
(* any threads, runners, files and configs.                                *)
(*                                                                         *)
(* DatasetOwned speaks only of states where m_mutex is free.  While a      *)
(* thread holds it, Verthash::init passes through a state (after the free  *)
(* at line 51, before the load at line 55) where m_initialized is still    *)
(* true but m_info is zero and every allocation is freed.  The inductive   *)
(* invariant says so, and ties the mutex to the locked labels: the owner,  *)
(* and only the owner, is in check, load or release.                       *)
(***************************************************************************)
EXTENDS VerthashDataset, TLAPS

USE FilesAssumption, CallsAssumption

LockedLabels == {"check", "load", "release"}

(* The mutex is owned exactly by the thread inside a locked section.       *)
LockInv == \A t \in Threads : pc[t] \in LockedLabels <=> lock = t

(* What m_info says of allocation a.                                       *)
Described(a) == [data |-> a, size |-> region[a].size,
                 mask |-> MaskOf(region[a].size), file |-> region[a].file]

(* The body of DatasetOwned, with a zero m_info when no dataset is held.   *)
Owned ==
    /\ initialized = (info.data # 0)
    /\ \A a \in Allocs : a \notin freed <=> a = info.data
    /\ info.data # 0 => info = Described(info.data)
    /\ info.data = 0 => info = Zero

(* Between the free and the load, nothing is held.                         *)
Loading == \E t \in Threads : pc[t] = "load"

OwnedInv ==
    /\ Loading => info = Zero /\ Allocs \subseteq freed
    /\ ~Loading => Owned

-----------------------------------------------------------------------------
(* Lemmas on the paths and sizes Verthash::init works with.                *)

LEMMA PathInFiles ==
    ASSUME NEW c \in Configs \cup {[gen |-> NoFile, data |-> NoFile]}
    PROVE  InitPath(c) \in Files
BY DEF InitPath

LEMMA FileSizeTyped ==
    ASSUME NEW f \in Files
    PROVE  /\ FileSize[f] \in Sizes \ {0}
           /\ MaskOf(FileSize[f]) \in Masks
BY DEF Sizes, Masks

LEMMA ZeroTyped == Zero \in [data : {0}, size : Sizes, mask : Masks, file : Files \cup {NoFile}]
BY DEF Zero, Sizes, Masks

(* A thread generating a data file was given a genDataFile.              *)
GenArg == \A t \in Threads : pc[t] = "gen" => arg[t].gen \in Files

(* The typing invariant the proofs carry.                                  *)
TypeInv == VhTypeOK /\ GenArg

(* The inductive invariant.                                                *)
IInv == TypeInv /\ LockInv /\ OwnedInv

(* TypeInv split into its Boolean conjunct, for Zenon, and the rest, for  *)
(* SMT.                                                                    *)
BoolTyped == initialized \in BOOLEAN

DataTyped ==
    /\ lock \in Threads \cup {NoThread}
    /\ info \in Info
    /\ region \in Seq([size : Sizes \ {0}, file : Files])
    /\ freed \subseteq Allocs
    /\ onDisk \subseteq Files
    /\ pc \in [Threads -> ThreadLabels]
    /\ arg \in [Threads -> Configs \cup {[gen |-> NoFile, data |-> NoFile]}]
    /\ calls \in [Threads -> 0..MaxCalls]
    /\ hptr \in [Threads -> 0..Len(region)] /\ hsize \in [Threads -> Sizes]
    /\ rpc \in [Runners -> RunnerLabels]
    /\ rsize \in [Runners -> Sizes] /\ rmask \in [Runners -> Masks]
    /\ rptr \in [Runners -> 0..Len(region)]
    /\ GenArg

LEMMA TypeSplit == TypeInv <=> BoolTyped /\ DataTyped
BY Zenon DEF TypeInv, VhTypeOK, BoolTyped, DataTyped

(* The type invariant holds initially and is kept by every step.           *)
LEMMA TypeInit == Init => TypeInv
<1> SUFFICES ASSUME Init PROVE BoolTyped /\ DataTyped
  BY TypeSplit
<1>1. BoolTyped
  BY Zenon DEF Init, BoolTyped
<1>2. DataTyped
  BY ZeroTyped DEF Init, DataTyped, Info, Allocs, ThreadLabels, RunnerLabels, Sizes, Masks, GenArg
<1>3. QED
  BY <1>1, <1>2

(* Only Load and Release write m_initialized, and they write TRUE or FALSE.*)
LEMMA BoolStep == BoolTyped /\ [Next]_vars => BoolTyped'
<1> SUFFICES ASSUME BoolTyped, [Next]_vars PROVE BoolTyped'
  OBVIOUS
<1>0. ASSUME NEW t \in Threads, NEW c \in Configs,
             CallVhInitGenerate(t, c) \/ CallVhInit(t, c)
      PROVE  BoolTyped'
  BY <1>0, Zenon DEF BoolTyped, singletonVars, CallVhInitGenerate, CallVhInit
<1>1. ASSUME NEW t \in Threads,
             GenerateEnds(t) \/ CallVhDestroy(t) \/ Acquire(t) \/ Check(t)
      PROVE  BoolTyped'
  BY <1>1, Zenon DEF BoolTyped, singletonVars, GenerateEnds, CallVhDestroy,
     Acquire, Check
<1>2. ASSUME NEW t \in Threads, Load(t) \/ Release(t) PROVE BoolTyped'
  BY <1>2, Zenon DEF BoolTyped, Load, Release
<1>3. ASSUME NEW t \in Threads,
             CallHash(t) \/ HashCheck(t) \/ HashArgs(t) \/ HashRun(t)
      PROVE  BoolTyped'
  BY <1>3, Zenon DEF BoolTyped, singletonVars, CallHash, HashCheck, HashArgs, HashRun
<1>4. ASSUME NEW r \in Runners,
             RunnerValid(r) \/ RunnerReadSize(r) \/ RunnerReadMask(r)
             \/ RunnerCreateBuffer(r) \/ RunnerReadData(r) \/ RunnerUpload(r)
      PROVE  BoolTyped'
  BY <1>4, Zenon DEF BoolTyped, singletonVars, RunnerValid, RunnerReadSize,
     RunnerReadMask, RunnerCreateBuffer, RunnerReadData, RunnerUpload
<1>5. CASE Terminating \/ UNCHANGED vars
  BY <1>5, Zenon DEF BoolTyped, Terminating, vars, singletonVars
<1>6. QED
  BY <1>0, <1>1, <1>2, <1>3, <1>4, <1>5 DEF Next

LEMMA DataStep == DataTyped /\ [Next]_vars => DataTyped'
<1> SUFFICES ASSUME DataTyped, [Next]_vars PROVE DataTyped'
  OBVIOUS
<1> USE DEF DataTyped, Info, Allocs, singletonVars, threadVars, runnerVars, ThreadLabels, GenArg
<1>1. ASSUME NEW t \in Threads, NEW c \in Configs, CallVhInitGenerate(t, c) PROVE DataTyped'
  <2>1. c.gen \in Files
    BY <1>1 DEF CallVhInitGenerate
  <2>2. GenArg'
    BY <1>1, <2>1 DEF CallVhInitGenerate
  <2>3. QED
    BY <1>1, <2>2, SMTT(30) DEF CallVhInitGenerate
<1>2. ASSUME NEW t \in Threads, NEW c \in Configs, CallVhInit(t, c) PROVE DataTyped'
  <2>1. UNCHANGED <<lock, initialized, info, region, freed, onDisk, hptr, hsize, runnerVars>>
    BY <1>2 DEF CallVhInit
  <2>2. pc' \in [Threads -> ThreadLabels] /\ arg' \in [Threads -> Configs \cup {[gen |-> NoFile, data |-> NoFile]}]
    BY <1>2 DEF CallVhInit
  <2>3. calls' \in [Threads -> 0..MaxCalls]
    BY <1>2 DEF CallVhInit
  <2>4. GenArg'
    BY <1>2 DEF CallVhInit
  <2>5. QED
    BY <2>1, <2>2, <2>3, <2>4
<1>3. ASSUME NEW t \in Threads, GenerateEnds(t) PROVE DataTyped'
  BY <1>3 DEF GenerateEnds
<1>4. ASSUME NEW t \in Threads, CallVhDestroy(t) PROVE DataTyped'
  <2>1. UNCHANGED <<lock, initialized, info, region, freed, onDisk, arg, hptr, hsize, runnerVars>>
    BY <1>4 DEF CallVhDestroy
  <2>2. pc' \in [Threads -> ThreadLabels]
    BY <1>4 DEF CallVhDestroy
  <2>3. calls' \in [Threads -> 0..MaxCalls]
    BY <1>4 DEF CallVhDestroy
  <2>4. GenArg'
    BY <1>4 DEF CallVhDestroy
  <2>5. QED
    BY <2>1, <2>2, <2>3, <2>4
<1>5. ASSUME NEW t \in Threads, Acquire(t) PROVE DataTyped'
  BY <1>5 DEF Acquire
<1>6. ASSUME NEW t \in Threads, Check(t) PROVE DataTyped'
  <2>1. CASE initialized /\ info.data # 0 /\ info.file = Path(t)
    <3>1. lock' = NoThread /\ pc' = [pc EXCEPT ![t] = "idle"] /\ UNCHANGED <<info, freed>>
      BY <1>6, <2>1 DEF Check
    <3>2. QED
      BY <1>6, <3>1 DEF Check
  <2>2. CASE initialized /\ info.data # 0 /\ info.file # Path(t)
    <3>1. freed' = freed \cup {info.data} /\ info' = Zero /\ pc' = [pc EXCEPT ![t] = "load"]
      BY <1>6, <2>2 DEF Check
    <3>2. UNCHANGED <<lock, initialized, region, onDisk, arg, calls, hptr, hsize, runnerVars>>
      BY <1>6, <2>2 DEF Check
    <3>3. freed' \subseteq Allocs'
      <4>1. info.data \in 1..Len(region)
        BY <2>2
      <4>2. QED
        BY <3>1, <3>2, <4>1
    <3>4. info' \in Info'
      BY <3>1, <3>2, ZeroTyped
    <3>5. pc' \in [Threads -> ThreadLabels]
      BY <3>1
    <3>6. GenArg'
      BY <3>1, <3>2
    <3>7. QED
      BY <3>2, <3>3, <3>4, <3>5, <3>6
  <2>3. CASE ~(initialized /\ info.data # 0)
    <3>1. pc' = [pc EXCEPT ![t] = "load"] /\ UNCHANGED <<lock, info, freed>>
      BY <1>6, <2>3 DEF Check
    <3>2. QED
      BY <1>6, <3>1 DEF Check
  <2>4. QED
    BY <2>1, <2>2, <2>3
<1>7. ASSUME NEW t \in Threads, Load(t) PROVE DataTyped'
  <2>1. Path(t) \in Files
    BY PathInFiles DEF Path
  <2>2. FileSize[Path(t)] \in Sizes \ {0} /\ MaskOf(FileSize[Path(t)]) \in Masks
    BY <2>1, FileSizeTyped
  <2>3. lock' = NoThread /\ pc' = [pc EXCEPT ![t] = "idle"]
        /\ UNCHANGED <<freed, onDisk, arg, calls, hptr, hsize, runnerVars>>
    BY <1>7 DEF Load
  <2>4. CASE Path(t) \in onDisk
    <3>1. /\ region' = Append(region, [size |-> FileSize[Path(t)], file |-> Path(t)])
          /\ info' = [data |-> Len(region) + 1, size |-> FileSize[Path(t)],
                      mask |-> MaskOf(FileSize[Path(t)]), file |-> Path(t)]
      BY <1>7, <2>4 DEF Load
    <3> DEFINE rec == [size |-> FileSize[Path(t)], file |-> Path(t)]
    <3>6. rec \in [size : Sizes \ {0}, file : Files]
      BY <2>1, <2>2
    <3>7. region' = Append(region, rec)
      BY <3>1
    <3>2. region' \in Seq([size : Sizes \ {0}, file : Files]) /\ Len(region') = Len(region) + 1
      BY <3>6, <3>7
    <3>8. Len(region) + 1 \in 0..Len(region')
      BY <3>2
    <3>3. info' \in Info'
      BY <3>1, <3>8, <2>1, <2>2
    <3>4. GenArg'
      BY <2>3
    <3>12. 0..Len(region) \subseteq 0..Len(region')
      BY <3>2
    <3>13. hptr' \in [Threads -> 0..Len(region')]
      BY <2>3, <3>12
    <3>14. rptr' \in [Runners -> 0..Len(region')]
      BY <2>3, <3>12
    <3>15. freed' \subseteq Allocs'
      BY <2>3, <3>12
    <3>9. /\ hptr' \in [Threads -> 0..Len(region')]
          /\ rptr' \in [Runners -> 0..Len(region')]
          /\ freed' \subseteq Allocs'
      BY <3>13, <3>14, <3>15
    <3>10. lock' \in Threads \cup {NoThread} /\ pc' \in [Threads -> ThreadLabels]
      BY <2>3
    <3>11. UNCHANGED <<onDisk, arg, calls, hsize, rpc, rsize, rmask>>
      BY <2>3
    <3>5. QED
      BY <3>2, <3>3, <3>4, <3>9, <3>10, <3>11
  <2>5. CASE Path(t) \notin onDisk
    <3>1. info' = Zero /\ region' = region
      BY <1>7, <2>5 DEF Load
    <3>2. info' \in Info'
      BY <3>1, ZeroTyped
    <3>3. GenArg'
      BY <2>3
    <3>4. QED
      BY <2>3, <3>1, <3>2, <3>3
  <2>6. QED
    BY <2>4, <2>5
<1>8. ASSUME NEW t \in Threads, Release(t) PROVE DataTyped'
  <2>1. lock' = NoThread /\ pc' = [pc EXCEPT ![t] = "idle"]
        /\ UNCHANGED <<region, onDisk, arg, calls, hptr, hsize, runnerVars>>
    BY <1>8 DEF Release
  <2>2. CASE initialized
    <3>1. freed' = freed \cup ({info.data} \ {0}) /\ info' = Zero
      BY <1>8, <2>2 DEF Release
    <3>2. freed' \subseteq Allocs'
      <4>1. {info.data} \ {0} \subseteq 1..Len(region)
        OBVIOUS
      <4>2. QED
        BY <2>1, <3>1, <4>1
    <3>3. info' \in Info'
      BY <2>1, <3>1, ZeroTyped
    <3>4. lock' \in Threads \cup {NoThread} /\ pc' \in [Threads -> ThreadLabels]
      BY <2>1
    <3>5. QED
      BY <2>1, <3>2, <3>3, <3>4
  <2>3. CASE ~initialized
    <3>1. UNCHANGED <<freed, info>>
      BY <1>8, <2>3 DEF Release
    <3>2. QED
      BY <2>1, <3>1
  <2>4. QED
    BY <2>2, <2>3
<1>9. ASSUME NEW t \in Threads,
             CallHash(t) \/ HashCheck(t) \/ HashArgs(t) \/ HashRun(t)
      PROVE DataTyped'
  <2>1. CASE CallHash(t)
    <3>1. UNCHANGED <<lock, initialized, info, region, freed, onDisk, arg, hptr, hsize, runnerVars>>
      BY <2>1 DEF CallHash
    <3>2. pc' \in [Threads -> ThreadLabels] /\ calls' \in [Threads -> 0..MaxCalls]
      BY <2>1 DEF CallHash
    <3>3. GenArg'
      BY <2>1 DEF CallHash
    <3>4. QED
      BY <3>1, <3>2, <3>3
  <2>2. CASE HashCheck(t)
    BY <2>2 DEF HashCheck
  <2>3. CASE HashArgs(t)
    BY <2>3 DEF HashArgs
  <2>4. CASE HashRun(t)
    BY <2>4 DEF HashRun
  <2>5. QED
    BY <1>9, <2>1, <2>2, <2>3, <2>4
<1>10. ASSUME NEW r \in Runners,
              \/ RunnerValid(r) \/ RunnerReadSize(r) \/ RunnerReadMask(r)
              \/ RunnerCreateBuffer(r) \/ RunnerReadData(r) \/ RunnerUpload(r)
       PROVE DataTyped'
  BY <1>10 DEF RunnerValid, RunnerReadSize, RunnerReadMask, RunnerCreateBuffer,
               RunnerReadData, RunnerUpload, RunnerLabels
<1>11. CASE Terminating \/ UNCHANGED vars
  BY <1>11 DEF Terminating, vars
<1>12. QED
  BY <1>1, <1>2, <1>3, <1>4, <1>5, <1>6, <1>7, <1>8, <1>9, <1>10, <1>11 DEF Next

LEMMA TypeStep == TypeInv /\ [Next]_vars => TypeInv'
<1> SUFFICES ASSUME TypeInv, [Next]_vars PROVE TypeInv'
  OBVIOUS
<1>1. BoolTyped'
  BY BoolStep, TypeSplit
<1>2. DataTyped'
  BY DataStep, TypeSplit
<1>3. QED
  BY <1>1, <1>2, Zenon DEF TypeInv, VhTypeOK, BoolTyped, DataTyped

(* Every reachable state is well typed.                                    *)
THEOREM VhTypeCorrect == Spec => []VhTypeOK
<1>1. Spec => []TypeInv
  BY TypeInit, TypeStep, PTL DEF Spec
<1>2. QED
  BY <1>1, PTL DEF TypeInv
-----------------------------------------------------------------------------
(* The mutex.  A step that leaves lock alone moves a thread only between   *)
(* labels on the same side of the locked section; Acquire takes a free     *)
(* lock; the steps that end a locked section give it back.                 *)

(* A step of thread t that keeps the lock and keeps t out of the locked    *)
(* section keeps LockInv.                                                  *)
LEMMA UnlockedMove ==
    ASSUME TypeInv, LockInv, NEW t \in Threads, NEW lbl,
           pc' = [pc EXCEPT ![t] = lbl], lock' = lock,
           pc[t] \notin LockedLabels, lbl \notin LockedLabels
    PROVE  LockInv'
BY DEF LockInv, TypeInv, VhTypeOK

(* Thread t, the owner, leaves the locked section and frees the lock.      *)
LEMMA UnlockMove ==
    ASSUME TypeInv, LockInv, NEW t \in Threads, NEW lbl,
           pc' = [pc EXCEPT ![t] = lbl], lock' = NoThread,
           pc[t] \in LockedLabels, lbl \notin LockedLabels
    PROVE  LockInv'
BY DEF LockInv, TypeInv, VhTypeOK

LEMMA LockStep == IInv /\ [Next]_vars => LockInv'
<1> SUFFICES ASSUME IInv, [Next]_vars PROVE LockInv'
  OBVIOUS
<1>0. TypeInv /\ LockInv
  BY DEF IInv
<1> USE <1>0 DEF LockedLabels
<1>1. ASSUME NEW t \in Threads, NEW c \in Configs,
             CallVhInitGenerate(t, c) \/ CallVhInit(t, c)
      PROVE LockInv'
  BY <1>1, UnlockedMove DEF CallVhInitGenerate, CallVhInit, singletonVars
<1>2. ASSUME NEW t \in Threads,
             GenerateEnds(t) \/ CallVhDestroy(t) \/ CallHash(t) \/ HashCheck(t)
             \/ HashArgs(t) \/ HashRun(t)
      PROVE LockInv'
  BY <1>2, UnlockedMove DEF GenerateEnds, CallVhDestroy, CallHash, HashCheck,
     HashArgs, HashRun, singletonVars
<1>3. ASSUME NEW t \in Threads, Acquire(t) PROVE LockInv'
  BY <1>3, CallsAssumption DEF Acquire, LockInv, TypeInv, VhTypeOK
<1>4. ASSUME NEW t \in Threads, Check(t) PROVE LockInv'
  <2>1. lock = t
    BY <1>4 DEF Check, LockInv
  <2>2. CASE initialized /\ info.data # 0 /\ info.file = Path(t)
    BY <1>4, <2>2, UnlockMove DEF Check
  <2>3. CASE ~(initialized /\ info.data # 0 /\ info.file = Path(t))
    <3>1. pc' = [pc EXCEPT ![t] = "load"] /\ lock' = lock
      BY <1>4, <2>3 DEF Check
    <3>2. QED
      BY <2>1, <3>1 DEF LockInv, TypeInv, VhTypeOK
  <2>4. QED
    BY <2>2, <2>3
<1>5. ASSUME NEW t \in Threads, Load(t) \/ Release(t) PROVE LockInv'
  BY <1>5, UnlockMove DEF Load, Release
<1>6. ASSUME NEW r \in Runners,
             \/ RunnerValid(r) \/ RunnerReadSize(r) \/ RunnerReadMask(r)
             \/ RunnerCreateBuffer(r) \/ RunnerReadData(r) \/ RunnerUpload(r)
      PROVE LockInv'
  BY <1>6 DEF RunnerValid, RunnerReadSize, RunnerReadMask, RunnerCreateBuffer,
     RunnerReadData, RunnerUpload, singletonVars, threadVars, LockInv
<1>7. CASE Terminating \/ UNCHANGED vars
  BY <1>7 DEF Terminating, vars, singletonVars, threadVars, LockInv
<1>8. QED
  BY <1>1, <1>2, <1>3, <1>4, <1>5, <1>6, <1>7 DEF Next
-----------------------------------------------------------------------------
(* Ownership.  Only Check (the free at line 51) and Load write the        *)
(* dataset while some thread is at load, and only the lock owner can be:   *)
(* the free empties the singleton on the way into load, the load fills it  *)
(* on the way out.                                                         *)

(* Only the lock owner can be at load.                                     *)
LEMMA LoadingOwner ==
    ASSUME TypeInv, LockInv, NEW t \in Threads, pc[t] = "load"
    PROVE  /\ lock = t
           /\ \A u \in Threads \ {t} : pc[u] # "load"
BY DEF LockInv, LockedLabels, TypeInv, VhTypeOK

(* A step that keeps the dataset and moves no thread into or out of load   *)
(* keeps OwnedInv.                                                         *)
LEMMA OwnedFrame ==
    ASSUME OwnedInv,
           UNCHANGED <<initialized, info, region, freed>>,
           Loading' <=> Loading
    PROVE  OwnedInv'
BY DEF OwnedInv, Owned, Described, Allocs, Zero

LEMMA LoadingFrame ==
    ASSUME TypeInv, NEW t \in Threads, NEW lbl,
           pc' = [pc EXCEPT ![t] = lbl], pc[t] # "load", lbl # "load"
    PROVE  Loading' <=> Loading
BY DEF Loading, TypeInv, VhTypeOK

LEMMA OwnedStep == IInv /\ [Next]_vars => OwnedInv'
<1> SUFFICES ASSUME IInv, [Next]_vars PROVE OwnedInv'
  OBVIOUS
<1>0. TypeInv /\ LockInv /\ OwnedInv
  BY DEF IInv
<1> USE <1>0
<1>1. ASSUME NEW t \in Threads, NEW c \in Configs,
             CallVhInitGenerate(t, c) \/ CallVhInit(t, c)
      PROVE OwnedInv'
  BY <1>1, LoadingFrame, OwnedFrame DEF CallVhInitGenerate, CallVhInit, singletonVars
<1>2. ASSUME NEW t \in Threads,
             GenerateEnds(t) \/ CallVhDestroy(t) \/ Acquire(t) \/ CallHash(t)
             \/ HashCheck(t) \/ HashArgs(t) \/ HashRun(t)
      PROVE OwnedInv'
  BY <1>2, LoadingFrame, OwnedFrame DEF GenerateEnds, CallVhDestroy, Acquire,
     CallHash, HashCheck, HashArgs, HashRun, singletonVars
<1>3. ASSUME NEW t \in Threads, Check(t) PROVE OwnedInv'
  <2>1. ~Loading /\ Owned
    <3>1. lock = t
      BY <1>3 DEF Check, LockInv, LockedLabels
    <3>2. \A u \in Threads : pc[u] # "load"
      BY <1>3, <3>1, CallsAssumption DEF Check, LockInv, LockedLabels
    <3>3. QED
      BY <3>2 DEF Loading, OwnedInv
  <2>2. CASE initialized /\ info.data # 0 /\ info.file = Path(t)
    <3>1. pc' = [pc EXCEPT ![t] = "idle"] /\ UNCHANGED <<initialized, info, region, freed>>
      BY <1>3, <2>2 DEF Check
    <3>2. Loading' <=> Loading
      BY <1>3, <3>1, LoadingFrame DEF Check
    <3>3. QED
      BY <3>1, <3>2, OwnedFrame
  <2>3. CASE ~(initialized /\ info.data # 0 /\ info.file = Path(t))
    <3>1. pc' = [pc EXCEPT ![t] = "load"] /\ UNCHANGED <<initialized, region>>
      BY <1>3, <2>3 DEF Check
    <3>2. Loading'
      BY <3>1 DEF Loading, TypeInv, VhTypeOK
    <3>3. info' = Zero /\ Allocs \subseteq freed'
      <4>1. CASE initialized /\ info.data # 0
        <5>1. freed' = freed \cup {info.data} /\ info' = Zero
          BY <1>3, <2>3, <4>1 DEF Check
        <5>2. \A a \in Allocs : a # info.data => a \in freed
          BY <2>1 DEF Owned
        <5>3. QED
          BY <5>1, <5>2
      <4>2. CASE ~(initialized /\ info.data # 0)
        <5>1. info.data = 0
          BY <2>1, <4>2 DEF Owned
        <5>2. UNCHANGED <<info, freed>>
          BY <1>3, <4>2 DEF Check
        <5>3. QED
          BY <2>1, <5>1, <5>2 DEF Owned, Allocs, TypeInv, VhTypeOK
      <4>3. QED
        BY <4>1, <4>2
    <3>4. QED
      BY <3>1, <3>2, <3>3 DEF OwnedInv, Allocs
  <2>4. QED
    BY <2>2, <2>3
<1>4. ASSUME NEW t \in Threads, Load(t) PROVE OwnedInv'
  <2>1. info = Zero /\ Allocs \subseteq freed
    BY <1>4 DEF Load, Loading, OwnedInv
  <2>2. pc' = [pc EXCEPT ![t] = "idle"] /\ freed' = freed
    BY <1>4 DEF Load
  <2>3. ~Loading'
    BY <1>4, <2>2, LoadingOwner DEF Load, Loading, TypeInv, VhTypeOK
  <2>4. CASE Path(t) \in onDisk
    <3> DEFINE new == [size |-> FileSize[Path(t)], file |-> Path(t)]
    <3>1. /\ region' = Append(region, new)
          /\ info' = [data |-> Len(region) + 1, size |-> FileSize[Path(t)],
                      mask |-> MaskOf(FileSize[Path(t)]), file |-> Path(t)]
          /\ initialized' = TRUE
      BY <1>4, <2>4 DEF Load
    <3>2. region \in Seq([size : Sizes \ {0}, file : Files]) /\ freed \subseteq Allocs
      BY DEF TypeInv, VhTypeOK
    <3>8. Len(region') = Len(region) + 1
      BY <3>1, <3>2
    <3>9. region'[Len(region) + 1] = new
      BY <3>1, <3>2
    <3>3. Len(region') = Len(region) + 1 /\ region'[Len(region) + 1] = new
      BY <3>8, <3>9
    <3>4. (info.data # 0 /\ info = Described(info.data))'
      BY <3>1, <3>2, <3>3 DEF Described
    <3>5. \A a \in Allocs' : a \notin freed' <=> a = info'.data
      <4>1. Allocs' = 1..(Len(region) + 1)
        BY <3>3 DEF Allocs
      <4>2. \A a \in 1..Len(region) : a \in freed
        BY <2>1 DEF Allocs
      <4>3. Len(region) + 1 \notin freed
        BY <3>2 DEF Allocs
      <4>4. QED
        BY <2>2, <3>1, <4>1, <4>2, <4>3
    <3>6. initialized' = (info'.data # 0)
      BY <3>1, <3>4
    <3>7. QED
      BY <2>3, <3>4, <3>5, <3>6 DEF OwnedInv, Owned
  <2>5. CASE Path(t) \notin onDisk
    <3>1. info' = Zero /\ initialized' = FALSE /\ region' = region
      BY <1>4, <2>5 DEF Load
    <3>2. initialized' = (info'.data # 0)
      BY <3>1 DEF Zero
    <3>3. \A a \in Allocs' : a \notin freed' <=> a = info'.data
      BY <2>1, <2>2, <3>1 DEF Zero, Allocs
    <3>4. (info.data = 0 => info = Zero)' /\ (info.data # 0 => info = Described(info.data))'
      BY <3>1 DEF Zero
    <3>5. QED
      BY <2>3, <3>2, <3>3, <3>4, Zenon DEF OwnedInv, Owned
  <2>6. QED
    BY <2>4, <2>5
<1>5. ASSUME NEW t \in Threads, Release(t) PROVE OwnedInv'
  <2>1. ~Loading /\ Owned
    <3>1. lock = t
      BY <1>5 DEF Release, LockInv, LockedLabels
    <3>2. \A u \in Threads : pc[u] # "load"
      BY <1>5, <3>1, CallsAssumption DEF Release, LockInv, LockedLabels
    <3>3. QED
      BY <3>2 DEF Loading, OwnedInv
  <2>2. pc' = [pc EXCEPT ![t] = "idle"] /\ region' = region
    BY <1>5 DEF Release
  <2>3. ~Loading'
    BY <1>5, <2>1, <2>2, LoadingFrame DEF Release
  <2>4. CASE initialized
    <3>1. freed' = freed \cup ({info.data} \ {0}) /\ info' = Zero /\ initialized' = FALSE
      BY <1>5, <2>4 DEF Release
    <3>2. info.data # 0
      BY <2>1, <2>4 DEF Owned
    <3>3. \A a \in Allocs' : a \in freed'
      BY <2>1, <2>2, <3>1, <3>2 DEF Owned, Allocs
    <3>4. info'.data = 0 /\ info' = Zero /\ initialized' = (info'.data # 0)
      BY <3>1 DEF Zero
    <3>5. Owned'
      BY <3>3, <3>4 DEF Owned, Allocs
    <3>6. QED
      BY <2>3, <3>5 DEF OwnedInv
  <2>5. CASE ~initialized
    <3>1. UNCHANGED <<freed, info, initialized>>
      BY <1>5, <2>5 DEF Release
    <3>2. Loading' <=> Loading
      BY <2>1, <2>3, Zenon
    <3>3. UNCHANGED <<initialized, info, region, freed>>
      BY <2>2, <3>1
    <3>4. QED
      BY <3>2, <3>3, OwnedFrame
  <2>6. QED
    BY <2>4, <2>5
<1>6. ASSUME NEW r \in Runners,
             \/ RunnerValid(r) \/ RunnerReadSize(r) \/ RunnerReadMask(r)
             \/ RunnerCreateBuffer(r) \/ RunnerReadData(r) \/ RunnerUpload(r)
      PROVE OwnedInv'
  <2>1. UNCHANGED <<initialized, info, region, freed, pc>>
    BY <1>6 DEF RunnerValid, RunnerReadSize, RunnerReadMask, RunnerCreateBuffer,
       RunnerReadData, RunnerUpload, singletonVars, threadVars
  <2>2. Loading' <=> Loading
    BY <2>1 DEF Loading
  <2>3. QED
    BY <2>1, <2>2, OwnedFrame
<1>7. CASE Terminating \/ UNCHANGED vars
  <2>1. UNCHANGED <<initialized, info, region, freed, pc>>
    BY <1>7 DEF Terminating, vars, singletonVars, threadVars
  <2>2. Loading' <=> Loading
    BY <2>1 DEF Loading
  <2>3. QED
    BY <2>1, <2>2, OwnedFrame
<1>8. QED
  BY <1>1, <1>2, <1>3, <1>4, <1>5, <1>6, <1>7 DEF Next
-----------------------------------------------------------------------------
LEMMA IInvInit == Init => IInv
<1> SUFFICES ASSUME Init PROVE IInv
  OBVIOUS
<1>1. TypeInv
  BY TypeInit
<1>2. LockInv
  BY CallsAssumption DEF Init, LockInv, LockedLabels
<1>3. ~Loading
  BY DEF Init, Loading
<1>4. Owned
  <2>1. info = Zero /\ info.data = 0 /\ initialized = FALSE
    BY DEF Init, Zero
  <2>2. initialized = (info.data # 0)
    BY <2>1, Zenon
  <2>3. \A a \in Allocs : a \notin freed <=> a = info.data
    BY <2>1 DEF Init, Allocs
  <2>4. QED
    BY <2>1, <2>2, <2>3 DEF Owned
<1>5. QED
  BY <1>1, <1>2, <1>3, <1>4 DEF IInv, OwnedInv

LEMMA IInvStep == IInv /\ [Next]_vars => IInv'
<1> SUFFICES ASSUME IInv, [Next]_vars PROVE IInv'
  OBVIOUS
<1>1. TypeInv'
  BY TypeStep DEF IInv
<1>2. QED
  BY <1>1, LockStep, OwnedStep DEF IInv

(* The inductive invariant holds in every reachable state.                 *)
THEOREM Invariance == Spec => []IInv
BY IInvInit, IInvStep, PTL DEF Spec

LEMMA IInvOwned == IInv => DatasetOwned
<1> SUFFICES ASSUME IInv, lock = NoThread PROVE Owned
  BY DEF DatasetOwned, Owned, Described, Allocs
<1>1. ~Loading
  BY LoadingOwner, CallsAssumption DEF IInv, Loading
<1>2. QED
  BY <1>1 DEF IInv, OwnedInv

(* Verthash::init and Verthash::release, interleaved on any number of      *)
(* threads with the unlocked readers, keep the singleton owning exactly    *)
(* one live, correctly described dataset or none whenever m_mutex is free: *)
(* no reload or failed load leaks or loses track of an allocation.         *)
THEOREM DatasetOwnedHolds == Spec => []DatasetOwned
BY Invariance, IInvOwned, PTL
-----------------------------------------------------------------------------
(* Frees.  Only Check, on its way from one file to another, and Release    *)
(* free anything.  The dataset Check frees is m_info's, and when the lock  *)
(* owner is at check no thread is at load, so m_info describes it: its     *)
(* file is the one the strcmp at line 47 found different.                  *)

(* The step form of FreedOnlyOnPathChange.                                 *)
FreedByPathChange ==
    \A a \in freed' \ freed :
        \E t \in Threads :
            \/ pc[t] = "release"
            \/ pc[t] = "check" /\ Path(t) # region[a].file

LEMMA CheckSeesOwned ==
    ASSUME IInv, NEW t \in Threads, pc[t] = "check"
    PROVE  Owned
<1>1. ~Loading
  BY DEF IInv, TypeInv, VhTypeOK, LockInv, LockedLabels, Loading
<1>2. QED
  BY <1>1 DEF IInv, OwnedInv

LEMMA FreedStep == IInv /\ [Next]_vars => FreedByPathChange
<1> SUFFICES ASSUME IInv, [Next]_vars PROVE FreedByPathChange
  OBVIOUS
<1>1. ASSUME NEW t \in Threads, Check(t) PROVE FreedByPathChange
  <2>1. CASE initialized /\ info.data # 0 /\ info.file # Path(t)
    <3>1. freed' \ freed \subseteq {info.data}
      BY <1>1, <2>1 DEF Check
    <3>2. info.file = region[info.data].file
      <4>1. Owned
        BY <1>1, CheckSeesOwned DEF Check
      <4>2. info = Described(info.data)
        BY <4>1, <2>1 DEF Owned
      <4>3. QED
        BY <4>2 DEF Described
    <3>3. QED
      BY <1>1, <2>1, <3>1, <3>2 DEF Check, FreedByPathChange
  <2>2. CASE ~(initialized /\ info.data # 0 /\ info.file # Path(t))
    BY <1>1, <2>2 DEF Check, FreedByPathChange
  <2>3. QED
    BY <2>1, <2>2
<1>2. ASSUME NEW t \in Threads, Release(t) PROVE FreedByPathChange
  BY <1>2 DEF Release, FreedByPathChange
<1>3. ASSUME NEW t \in Threads, NEW c \in Configs,
             CallVhInitGenerate(t, c) \/ CallVhInit(t, c)
      PROVE FreedByPathChange
  BY <1>3 DEF CallVhInitGenerate, CallVhInit, singletonVars, FreedByPathChange
<1>4. ASSUME NEW t \in Threads,
             \/ GenerateEnds(t) \/ CallVhDestroy(t) \/ Acquire(t) \/ Load(t)
             \/ CallHash(t) \/ HashCheck(t) \/ HashArgs(t) \/ HashRun(t)
      PROVE FreedByPathChange
  BY <1>4 DEF GenerateEnds, CallVhDestroy, Acquire, Load, CallHash, HashCheck,
     HashArgs, HashRun, singletonVars, FreedByPathChange
<1>5. ASSUME NEW r \in Runners,
             \/ RunnerValid(r) \/ RunnerReadSize(r) \/ RunnerReadMask(r)
             \/ RunnerCreateBuffer(r) \/ RunnerReadData(r) \/ RunnerUpload(r)
      PROVE FreedByPathChange
  BY <1>5 DEF RunnerValid, RunnerReadSize, RunnerReadMask, RunnerCreateBuffer,
     RunnerReadData, RunnerUpload, singletonVars, FreedByPathChange
<1>6. CASE Terminating \/ UNCHANGED vars
  BY <1>6 DEF Terminating, vars, singletonVars, FreedByPathChange
<1>7. QED
  BY <1>1, <1>2, <1>3, <1>4, <1>5, <1>6 DEF Next

(* Verthash::init frees the loaded dataset only when it is given a path    *)
(* other than the file that dataset was read from, and otherwise only      *)
(* release() frees: a re-init with the same path, concurrent with any      *)
(* readers and other inits, never drops the dataset (spec invariant 4).    *)
THEOREM FreedOnlyOnPathChangeHolds == Spec => FreedOnlyOnPathChange
<1>1. IInv /\ [Next]_vars => [FreedByPathChange]_vars
  BY FreedStep
<1>2. QED
  BY <1>1, Invariance, PTL DEF Spec, FreedOnlyOnPathChange, FreedByPathChange
====
