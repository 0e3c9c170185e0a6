------------------------ MODULE VerthashReadersProofs ------------------------
(***************************************************************************)
(* The unlocked readers of the Verthash dataset, Verthash::hash and the    *)
(* OpenCL runner's loadVerthashData, are safe when nothing is ever freed   *)
(* under them: the process uses one dataset file and never calls           *)
(* Vh::destroy.  That is the miner's own use (one verthash.dat, generated  *)
(* or given, and no caller of Vh::destroy under src/).  With two files,    *)
(* or with release(), the readers are not safe: see the run                *)
(* dataset_reload_readers.                                                 *)
(*                                                                         *)
(* ReadersUseLiveData is not inductive: a reader's later read is only     *)
(* right because the dataset it checked is still held.                     *)
(* The strengthening says that once m_info holds a dataset it keeps it     *)
(* unchanged (Check finds the same file, no Release runs, Load only runs   *)
(* from an empty m_info), that every allocation is of the one file, and    *)
(* what each reader has read so far.                                       *)
(***************************************************************************)
EXTENDS VerthashDatasetProofs

(* The miner's use of the singleton: one data file, no Vh::destroy.       *)
OneDataset == Files = {DefaultFile} /\ "destroy" \notin Ops

DSize == FileSize[DefaultFile]
DMask == MaskOf(DSize)

(* Nothing has been freed, and every allocation holds the one file.        *)
NoneFreed == freed = {}
RegionsOfD == \A a \in Allocs : region[a].size = DSize

(* A held dataset is the one file's, with its size and bitmask.            *)
HeldIsD == info.data # 0 => info.size = DSize /\ info.mask = DMask /\ info.file = DefaultFile

(* No thread is inside release().                                          *)
NoRelease == \A t \in Threads : pc[t] \notin {"relLock", "release"}

(* A hasher past isValid() saw a dataset, which is still held; at the call *)
(* it holds the dataset's pointer and size.                                *)
HashersSee ==
    \A t \in Threads :
        /\ pc[t] \in {"hashArgs", "hashRun"} => info.data # 0
        /\ pc[t] = "hashRun" => hptr[t] # 0 /\ hsize[t] = DSize

(* A runner past isValid() saw a dataset, which is still held, and what it *)
(* has read of it is the one file's size, bitmask and pointer.             *)
RunnersSee ==
    \A r \in Runners :
        /\ rpc[r] \in {"size", "mask", "alloc", "upload", "copy", "loaded"} => info.data # 0
        /\ rpc[r] \in {"mask", "alloc", "upload", "copy", "loaded"} => rsize[r] = DSize
        /\ rpc[r] \in {"alloc", "upload", "copy", "loaded"} => rmask[r] = DMask
        /\ rpc[r] \in {"copy", "loaded"} => rptr[r] # 0

RInv == IInv /\ NoneFreed /\ RegionsOfD /\ HeldIsD /\ NoRelease /\ HashersSee /\ RunnersSee
-----------------------------------------------------------------------------
USE FilesAssumption, CallsAssumption

(* With one file every init loads it.                                      *)
LEMMA PathIsD ==
    ASSUME OneDataset, TypeInv, NEW t \in Threads
    PROVE  Path(t) = DefaultFile
BY PathInFiles DEF OneDataset, Path, TypeInv, VhTypeOK

(* Once m_info holds the dataset, no step changes it: Check finds the same *)
(* file and returns, Load only runs from an empty m_info, and no Release   *)
(* runs.                                                                   *)
LEMMA HeldStays ==
    ASSUME OneDataset, RInv, [Next]_vars, info.data # 0
    PROVE  info' = info
<1>0. IInv /\ HeldIsD /\ NoRelease
  BY DEF RInv
<1>1. ASSUME NEW t \in Threads, Check(t) PROVE info' = info
  <2>1. info.file = Path(t)
    BY <1>0, PathIsD DEF HeldIsD, IInv
  <2>2. QED
    BY <1>1, <2>1 DEF Check
<1>2. ASSUME NEW t \in Threads, Load(t) PROVE FALSE
  <2>1. Loading
    BY <1>2 DEF Load, Loading
  <2>2. QED
    BY <1>0, <2>1 DEF IInv, OwnedInv, Zero
<1>3. ASSUME NEW t \in Threads, Release(t) PROVE FALSE
  BY <1>0, <1>3 DEF Release, NoRelease
<1>4. ASSUME NEW t \in Threads, NEW c \in Configs,
             CallVhInitGenerate(t, c) \/ CallVhInit(t, c)
      PROVE info' = info
  BY <1>4 DEF CallVhInitGenerate, CallVhInit, singletonVars
<1>5. ASSUME NEW t \in Threads,
             \/ GenerateEnds(t) \/ CallVhDestroy(t) \/ Acquire(t)
             \/ CallHash(t) \/ HashCheck(t) \/ HashArgs(t) \/ HashRun(t)
      PROVE info' = info
  BY <1>5 DEF GenerateEnds, CallVhDestroy, Acquire, CallHash, HashCheck,
     HashArgs, HashRun, singletonVars
<1>6. ASSUME NEW r \in Runners,
             \/ RunnerValid(r) \/ RunnerReadSize(r) \/ RunnerReadMask(r)
             \/ RunnerCreateBuffer(r) \/ RunnerReadData(r) \/ RunnerUpload(r)
      PROVE info' = info
  BY <1>6 DEF RunnerValid, RunnerReadSize, RunnerReadMask, RunnerCreateBuffer,
     RunnerReadData, RunnerUpload, singletonVars
<1>7. CASE Terminating \/ UNCHANGED vars
  BY <1>7 DEF Terminating, vars, singletonVars
<1>8. QED
  BY <1>1, <1>2, <1>3, <1>4, <1>5, <1>6, <1>7 DEF Next

(* A step of the locked side keeps what the readers have read, and moves   *)
(* no thread into or within a hash call: what a reader saw stays true if   *)
(* the dataset is kept, and if none is held no reader is past isValid().   *)
LEMMA ReadersFrame ==
    ASSUME HashersSee, RunnersSee,
           info.data # 0 => info' = info,
           \A t \in Threads : pc'[t] \in {"hashArgs", "hashRun"} => pc'[t] = pc[t],
           UNCHANGED <<hptr, hsize, runnerVars>>
    PROVE  HashersSee' /\ RunnersSee'
<1>1. CASE info.data # 0
  BY <1>1 DEF HashersSee, RunnersSee, runnerVars
<1>2. CASE info.data = 0
  BY <1>2 DEF HashersSee, RunnersSee, runnerVars
<1>3. QED
  BY <1>1, <1>2

(* The conjuncts of RInv beyond IInv.                                      *)
ReaderInv == NoneFreed /\ RegionsOfD /\ HeldIsD /\ NoRelease /\ HashersSee /\ RunnersSee

(* A step of init on the locked side that leaves the dataset alone.        *)
LEMMA InitSideStep ==
    ASSUME RInv, NEW t \in Threads,
           NEW lbl \in {"idle", "gen", "lock", "check", "load"},
           UNCHANGED <<info, region, freed, hptr, hsize, runnerVars>>,
           pc' = [pc EXCEPT ![t] = lbl],
           pc[t] \notin {"hashArgs", "hashRun"}
    PROVE  ReaderInv'
<1>1. HashersSee' /\ RunnersSee'
  BY ReadersFrame DEF RInv, IInv, TypeInv, VhTypeOK
<1>2. NoRelease'
  BY DEF RInv, NoRelease, IInv, TypeInv, VhTypeOK
<1>3. QED
  BY <1>1, <1>2 DEF RInv, ReaderInv, NoneFreed, RegionsOfD, HeldIsD, Allocs

LEMMA ReaderStep ==
    ASSUME OneDataset
    PROVE  RInv /\ [Next]_vars => ReaderInv'
<1> SUFFICES ASSUME RInv, [Next]_vars PROVE ReaderInv'
  OBVIOUS
<1>0. IInv /\ ReaderInv
  BY DEF RInv, ReaderInv
<1>1. ASSUME NEW t \in Threads, NEW c \in Configs,
             CallVhInitGenerate(t, c) \/ CallVhInit(t, c)
      PROVE ReaderInv'
  <2>1. UNCHANGED <<info, region, freed, hptr, hsize, runnerVars>>
    BY <1>1 DEF CallVhInitGenerate, CallVhInit, singletonVars
  <2>2. pc[t] \notin {"hashArgs", "hashRun"}
    BY <1>1 DEF CallVhInitGenerate, CallVhInit
  <2>3. CASE CallVhInitGenerate(t, c)
    <3>1. pc' = [pc EXCEPT ![t] = "gen"]
      BY <2>3 DEF CallVhInitGenerate
    <3>2. QED
      BY <2>1, <2>2, <3>1, InitSideStep
  <2>4. CASE CallVhInit(t, c)
    <3>1. pc' = [pc EXCEPT ![t] = "lock"]
      BY <2>4 DEF CallVhInit
    <3>2. QED
      BY <2>1, <2>2, <3>1, InitSideStep
  <2>5. QED
    BY <1>1, <2>3, <2>4
<1>2. ASSUME NEW t \in Threads, GenerateEnds(t) PROVE ReaderInv'
  <2>1. UNCHANGED <<info, region, freed, hptr, hsize, runnerVars>>
    BY <1>2 DEF GenerateEnds
  <2>2. pc[t] \notin {"hashArgs", "hashRun"}
    BY <1>2 DEF GenerateEnds
  <2>3. CASE pc' = [pc EXCEPT ![t] = "lock"]
    BY <2>1, <2>2, <2>3, InitSideStep
  <2>4. CASE pc' = [pc EXCEPT ![t] = "idle"]
    BY <2>1, <2>2, <2>4, InitSideStep
  <2>5. QED
    BY <1>2, <2>3, <2>4 DEF GenerateEnds
<1>3. ASSUME NEW t \in Threads, Acquire(t) PROVE ReaderInv'
  <2>1. pc[t] = "lock"
    BY <1>0, <1>3 DEF Acquire, ReaderInv, NoRelease
  <2>2. UNCHANGED <<info, region, freed, hptr, hsize, runnerVars>>
    BY <1>3 DEF Acquire
  <2>3. pc' = [pc EXCEPT ![t] = "check"]
    BY <1>3, <2>1 DEF Acquire
  <2>4. QED
    BY <2>1, <2>2, <2>3, InitSideStep
<1>4. ASSUME NEW t \in Threads, Check(t) PROVE ReaderInv'
  <2>1. ~(initialized /\ info.data # 0 /\ info.file # Path(t))
    BY <1>0, PathIsD DEF ReaderInv, HeldIsD, IInv
  <2>2. UNCHANGED <<info, region, freed, hptr, hsize, runnerVars>>
    BY <1>4, <2>1 DEF Check
  <2>3. pc[t] = "check"
    BY <1>4 DEF Check
  <2>4. CASE pc' = [pc EXCEPT ![t] = "idle"]
    BY <2>2, <2>3, <2>4, InitSideStep
  <2>5. CASE pc' = [pc EXCEPT ![t] = "load"]
    BY <2>2, <2>3, <2>5, InitSideStep
  <2>6. QED
    BY <1>4, <2>4, <2>5 DEF Check
<1>5. ASSUME NEW t \in Threads, Load(t) PROVE ReaderInv'
  <2>1. info = Zero
    BY <1>0, <1>5 DEF Load, IInv, OwnedInv, Loading
  <2>2. Path(t) = DefaultFile
    BY <1>0, PathIsD DEF IInv
  <2>3. region \in Seq([size : Sizes \ {0}, file : Files])
    BY <1>0 DEF IInv, TypeInv, VhTypeOK
  <2>4. ASSUME Path(t) \in onDisk PROVE RegionsOfD' /\ HeldIsD'
    <3>1. region' = Append(region, [size |-> DSize, file |-> DefaultFile])
      BY <1>5, <2>2, <2>4 DEF Load, DSize
    <3>2. RegionsOfD'
      BY <1>0, <2>3, <3>1 DEF ReaderInv, RegionsOfD, Allocs
    <3>3. info' = [data |-> Len(region) + 1, size |-> DSize, mask |-> DMask,
                   file |-> DefaultFile]
      BY <1>5, <2>2, <2>4 DEF Load, DSize, DMask
    <3>4. HeldIsD'
      BY <3>3 DEF HeldIsD
    <3>5. QED
      BY <3>2, <3>4
  <2>5. ASSUME Path(t) \notin onDisk PROVE RegionsOfD' /\ HeldIsD'
    BY <1>0, <1>5, <2>5 DEF Load, ReaderInv, RegionsOfD, HeldIsD, Zero, Allocs
  <2>6. RegionsOfD' /\ HeldIsD'
    BY <2>4, <2>5
  <2>7. HashersSee' /\ RunnersSee'
    BY <1>0, <1>5, <2>1, ReadersFrame DEF Load, ReaderInv, Zero
  <2>8. NoRelease'
    BY <1>0, <1>5 DEF Load, ReaderInv, NoRelease, IInv, TypeInv, VhTypeOK
  <2>9. QED
    BY <1>0, <1>5, <2>6, <2>7, <2>8 DEF Load, ReaderInv, NoneFreed
<1>6. ASSUME NEW t \in Threads, CallVhDestroy(t) \/ Release(t) PROVE FALSE
  BY <1>0, <1>6 DEF CallVhDestroy, Release, OneDataset, ReaderInv, NoRelease
<1>7. ASSUME NEW t \in Threads, CallHash(t) \/ HashCheck(t) \/ HashArgs(t) \/ HashRun(t)
      PROVE ReaderInv'
  <2>0. /\ pc \in [Threads -> ThreadLabels]
        /\ hptr \in [Threads -> 0..Len(region)] /\ hsize \in [Threads -> Sizes]
    BY <1>0 DEF IInv, TypeInv, VhTypeOK
  <2>1. HashersSee'
    <3>1. CASE CallHash(t)
      BY <1>0, <2>0, <3>1 DEF CallHash, IsValid, ReaderInv, HashersSee, HeldIsD,
         singletonVars
    <3>2. CASE HashCheck(t)
      BY <1>0, <2>0, <3>2 DEF HashCheck, IsValid, ReaderInv, HashersSee, HeldIsD,
         singletonVars
    <3>3. CASE HashArgs(t)
      <4>1. info.data # 0 /\ info.size = DSize
        BY <1>0, <3>3 DEF HashArgs, ReaderInv, HashersSee, HeldIsD
      <4>2. QED
        BY <1>0, <2>0, <3>3, <4>1 DEF HashArgs, ReaderInv, HashersSee,
           singletonVars
    <3>4. CASE HashRun(t)
      BY <1>0, <2>0, <3>4 DEF HashRun, IsValid, ReaderInv, HashersSee, HeldIsD,
         singletonVars
    <3>5. QED
      BY <1>7, <3>1, <3>2, <3>3, <3>4
  <2>2. NoRelease'
    BY <1>0, <1>7 DEF CallHash, HashCheck, HashArgs, HashRun, ReaderInv,
       NoRelease, IInv, TypeInv, VhTypeOK
  <2>3. QED
    BY <1>0, <1>7, <2>1, <2>2 DEF CallHash, HashCheck, HashArgs, HashRun,
       singletonVars, runnerVars, ReaderInv, NoneFreed, RegionsOfD, HeldIsD,
       RunnersSee, Allocs
<1>8. ASSUME NEW r \in Runners,
             \/ RunnerValid(r) \/ RunnerReadSize(r) \/ RunnerReadMask(r)
             \/ RunnerCreateBuffer(r) \/ RunnerReadData(r) \/ RunnerUpload(r)
      PROVE ReaderInv'
  <2>0. /\ rpc \in [Runners -> RunnerLabels] /\ rptr \in [Runners -> 0..Len(region)]
        /\ rsize \in [Runners -> Sizes] /\ rmask \in [Runners -> Masks]
    BY <1>0 DEF IInv, TypeInv, VhTypeOK
  <2>1. RunnersSee'
    <3>1. CASE RunnerValid(r)
      BY <1>0, <2>0, <3>1 DEF RunnerValid, IsValid, ReaderInv, RunnersSee, HeldIsD,
         singletonVars, runnerVars
    <3>2. CASE RunnerReadSize(r)
      <4>1. info.data # 0 /\ info.size = DSize
        BY <1>0, <3>2 DEF RunnerReadSize, ReaderInv, RunnersSee, HeldIsD
      <4>2. QED
        BY <1>0, <2>0, <3>2, <4>1 DEF RunnerReadSize, ReaderInv, RunnersSee,
           singletonVars, runnerVars
    <3>3. CASE RunnerReadMask(r)
      <4>1. info.data # 0 /\ info.mask = DMask
        BY <1>0, <3>3 DEF RunnerReadMask, ReaderInv, RunnersSee, HeldIsD
      <4>2. QED
        BY <1>0, <2>0, <3>3, <4>1 DEF RunnerReadMask, ReaderInv, RunnersSee,
           singletonVars, runnerVars
    <3>4. CASE RunnerCreateBuffer(r)
      BY <1>0, <2>0, <3>4 DEF RunnerCreateBuffer, IsValid, ReaderInv, RunnersSee, HeldIsD,
         singletonVars, runnerVars
    <3>5. CASE RunnerReadData(r)
      BY <1>0, <2>0, <3>5 DEF RunnerReadData, IsValid, ReaderInv, RunnersSee, HeldIsD,
         singletonVars, runnerVars
    <3>6. CASE RunnerUpload(r)
      BY <1>0, <2>0, <3>6 DEF RunnerUpload, IsValid, ReaderInv, RunnersSee, HeldIsD,
         singletonVars, runnerVars
    <3>7. QED
      BY <1>8, <3>1, <3>2, <3>3, <3>4, <3>5, <3>6
  <2>2. QED
    BY <1>0, <1>8, <2>1 DEF RunnerValid, RunnerReadSize, RunnerReadMask,
       RunnerCreateBuffer, RunnerReadData, RunnerUpload, singletonVars,
       threadVars, ReaderInv, NoneFreed, RegionsOfD, HeldIsD, NoRelease,
       HashersSee, Allocs
<1>9. CASE Terminating \/ UNCHANGED vars
  BY <1>0, <1>9 DEF Terminating, vars, singletonVars, threadVars, runnerVars,
     ReaderInv, NoneFreed, RegionsOfD, HeldIsD, NoRelease, HashersSee,
     RunnersSee, Allocs
<1>10. QED
  BY <1>1, <1>2, <1>3, <1>4, <1>5, <1>6, <1>7, <1>8, <1>9 DEF Next

LEMMA RInvInit == Init => RInv
<1> SUFFICES ASSUME Init PROVE RInv
  OBVIOUS
<1>1. IInv
  BY IInvInit
<1>2. ReaderInv
  BY DEF Init, ReaderInv, NoneFreed, RegionsOfD, HeldIsD, Zero, NoRelease,
     HashersSee, RunnersSee, Allocs
<1>3. QED
  BY <1>1, <1>2 DEF RInv, ReaderInv

(* The strengthened invariant holds in every reachable state of the        *)
(* miner's use of the singleton.                                           *)
THEOREM RInvariance ==
    ASSUME OneDataset
    PROVE  Spec => []RInv
<1>1. RInv /\ [Next]_vars => RInv'
  BY ReaderStep, IInvStep DEF RInv, ReaderInv
<1>2. QED
  BY <1>1, RInvInit, PTL DEF Spec

LEMMA RInvReaders == RInv => ReadersUseLiveData
<1> SUFFICES ASSUME RInv PROVE ReadersUseLiveData
  OBVIOUS
<1>0. /\ hptr \in [Threads -> 0..Len(region)]
      /\ rptr \in [Runners -> 0..Len(region)]
      /\ hsize \in [Threads -> Sizes] /\ rsize \in [Runners -> Sizes]
      /\ DSize \in Nat
  BY FileSizeTyped DEF RInv, IInv, TypeInv, VhTypeOK, DSize
<1>1. \A t \in Threads : pc[t] = "hashRun" =>
          /\ hptr[t] \in Allocs \ freed
          /\ hsize[t] <= region[hptr[t]].size
  BY <1>0 DEF RInv, NoneFreed, RegionsOfD, HashersSee, Allocs
<1>2. \A r \in Runners : rpc[r] = "copy" /\ rptr[r] # 0 =>
          /\ rptr[r] \notin freed
          /\ rsize[r] <= region[rptr[r]].size
  BY <1>0 DEF RInv, NoneFreed, RegionsOfD, RunnersSee, Allocs
<1>3. QED
  BY <1>1, <1>2 DEF ReadersUseLiveData

(* With one data file and no Vh::destroy, Verthash::hash and the runner's *)
(* upload only ever pass verthash_hash and clEnqueueWriteBuffer a live     *)
(* dataset at least as long as the size they read, although every one of  *)
(* their reads of the singleton is unlocked and other threads' inits run   *)
(* in between.                                                             *)
THEOREM ReadersUseLiveDataHolds ==
    ASSUME OneDataset
    PROVE  Spec => []ReadersUseLiveData
BY RInvariance, RInvReaders, PTL

=============================================================================
