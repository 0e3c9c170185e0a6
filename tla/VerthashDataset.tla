--------------------------- MODULE VerthashDataset ---------------------------
(***************************************************************************)
(* The Verthash dataset singleton (src/crypto/verthash/VerthashWrapper.cpp)*)
(* with its front end Vh (src/crypto/verthash/Vh.cpp) and its readers:     *)
(* Verthash::hash and the OpenCL runner's upload                           *)
(* (src/backend/opencl/runners/OclVerthashRunner.cpp).                     *)
(*                                                                         *)
(* The singleton is the one piece of state shared between threads.         *)
(* init() and release() run under m_mutex; the accessors isValid(),        *)
(* data(), dataSize() and dataMask() take no lock.  Each unlocked read of  *)
(* m_info is a step of its own, so other threads' locked steps can fall    *)
(* between a reader's check and its use.  A dataset is an allocation: a    *)
(* number into region, the record of what verthash_info_init read (its     *)
(* size and file); the bytes themselves are left out.  verthash_info_init, *)
(* verthash_info_free and verthash_generate_data_file are C code that is   *)
(* not under src/; they are modelled from the spec (load a complete file   *)
(* or fail, free, write a file).                                           *)
(***************************************************************************)
EXTENDS Naturals, Sequences, FiniteSets

CONSTANTS
    Threads,     \* threads calling Vh::init, Vh::destroy, Verthash::hash
    Runners,     \* OpenCL runners; each is called by its own worker thread
    Files,       \* data-file paths
    NoFile,      \* the empty path (an empty String, a nullptr fileName)
    NoThread,    \* m_mutex has no owner
    DefaultFile, \* kDefaultDataFile, "verthash.dat"
    FileSize,    \* FileSize[f]: length of the complete file f, in words
    OnDisk0,     \* files present and complete when the process starts
    Configs,     \* VerthashConfig values handed to Vh::init
    Ops,         \* the calls the threads make: a subset of OpNames
    MaxCalls     \* bound on calls per thread

OpNames == {"init", "destroy", "hash"}

ASSUME FilesAssumption ==
    /\ NoFile \notin Files
    /\ DefaultFile \in Files
    /\ FileSize \in [Files -> Nat \ {0}]
    /\ OnDisk0 \subseteq Files
ASSUME CallsAssumption ==
    /\ Configs \subseteq [gen : Files \cup {NoFile}, data : Files \cup {NoFile}]
    /\ Ops \subseteq OpNames
    /\ MaxCalls \in Nat
    /\ NoThread \notin Threads

(* The loader's bitmask, next_power_of_two(size) - 1 (spec, glossary).     *)
Pow2s(s) == {2^k : k \in 0..s}
MaskOf(s) == (CHOOSE p \in Pow2s(s) : p >= s /\ \A q \in Pow2s(s) : q >= s => p <= q) - 1

(* m_info after memset(&m_info, 0, ...): null data, no size, no file.      *)
Zero == [data |-> 0, size |-> 0, mask |-> 0, file |-> NoFile]

ThreadLabels == {"idle", "gen", "lock", "check", "load", "relLock", "release",
                 "hashCheck", "hashArgs", "hashRun"}
RunnerLabels == {"start", "size", "mask", "alloc", "upload", "copy", "loaded", "failed"}

VARIABLES
    lock,        \* owner of m_mutex
    initialized, \* m_initialized
    info,        \* m_info: data (an allocation, 0 for nullptr), size, mask, file
    region,      \* region[a]: size and file of allocation a
    freed,       \* allocations verthash_info_free has freed
    onDisk,      \* files complete on disk
    pc,          \* pc[t]: where thread t is
    arg,         \* arg[t]: the VerthashConfig of t's current Vh::init
    calls,       \* calls[t]: calls thread t has made
    hptr,        \* hptr[t]: m_info.data as Verthash::hash passed it
    hsize,       \* hsize[t]: m_info.dataSize as Verthash::hash passed it
    rpc,         \* rpc[r]: where runner r is in set() / loadVerthashData()
    rsize,       \* rsize[r]: m_verthashDataSize
    rmask,       \* rmask[r]: m_verthashBitmask
    rptr         \* rptr[r]: vh.data() as the upload read it

singletonVars == <<lock, initialized, info, region, freed, onDisk>>
threadVars == <<pc, arg, calls, hptr, hsize>>
runnerVars == <<rpc, rsize, rmask, rptr>>
vars == <<singletonVars, threadVars, runnerVars>>

Allocs == 1..Len(region)

(* Verthash::isValid(): data != nullptr && dataSize > 0.                   *)
IsValid == info.data # 0 /\ info.size > 0

Init ==
    /\ lock = NoThread
    /\ initialized = FALSE
    /\ info = Zero
    /\ region = <<>>
    /\ freed = {}
    /\ onDisk = OnDisk0
    /\ pc = [t \in Threads |-> "idle"]
    /\ arg = [t \in Threads |-> [gen |-> NoFile, data |-> NoFile]]
    /\ calls = [t \in Threads |-> 0]
    /\ hptr = [t \in Threads |-> 0]
    /\ hsize = [t \in Threads |-> 0]
    /\ rpc = [r \in Runners |-> "start"]
    /\ rsize = [r \in Runners |-> 0]
    /\ rmask = [r \in Runners |-> 0]
    /\ rptr = [r \in Runners |-> 0]
-----------------------------------------------------------------------------
(* Vh::init(config) (Vh.cpp 29-73), on thread t.  With a genDataFile it *)
(* first runs verthash_generate_data_file, which rewrites that file: until *)
(* it returns the file is not a complete dataset.  Then it calls           *)
(* Verthash::init with the data file, the generated file when no data file *)
(* is set, or kDefaultDataFile.                                            *)

(* Mutant: the generated file is loaded even when a data file is set (the *)
(* dataFile().isEmpty() test of line 48 dropped).                          *)
InitPathPrefersGen(c) == IF c.gen # NoFile THEN c.gen
                         ELSE IF c.data # NoFile THEN c.data ELSE DefaultFile

InitPath(c) == IF c.data # NoFile THEN c.data
               ELSE IF c.gen # NoFile THEN c.gen ELSE DefaultFile

(* The path thread t's Verthash::init call was given.                      *)
Path(t) == InitPath(arg[t])

CallVhInitGenerate(t, c) ==
    /\ pc[t] = "idle" /\ calls[t] < MaxCalls /\ "init" \in Ops
    /\ c.gen # NoFile
    /\ pc' = [pc EXCEPT ![t] = "gen"]
    /\ arg' = [arg EXCEPT ![t] = c]
    /\ calls' = [calls EXCEPT ![t] = @ + 1]
    /\ onDisk' = onDisk \ {c.gen}
    /\ UNCHANGED <<lock, initialized, info, region, freed, hptr, hsize, runnerVars>>

CallVhInit(t, c) ==
    /\ pc[t] = "idle" /\ calls[t] < MaxCalls /\ "init" \in Ops
    /\ c.gen = NoFile
    /\ pc' = [pc EXCEPT ![t] = "lock"]
    /\ arg' = [arg EXCEPT ![t] = c]
    /\ calls' = [calls EXCEPT ![t] = @ + 1]
    /\ UNCHANGED <<singletonVars, hptr, hsize, runnerVars>>

(* verthash_generate_data_file returns: 0 and a complete file, or failure  *)
(* and Vh::init returns false.                                             *)
GenerateEnds(t) ==
    /\ pc[t] = "gen"
    /\ \/ /\ onDisk' = onDisk \cup {arg[t].gen}
          /\ pc' = [pc EXCEPT ![t] = "lock"]
       \/ /\ pc' = [pc EXCEPT ![t] = "idle"]
          /\ UNCHANGED onDisk
    /\ UNCHANGED <<lock, initialized, info, region, freed, arg, calls, hptr, hsize, runnerVars>>

(* Vh::destroy() calls Verthash::release().                                *)
CallVhDestroy(t) ==
    /\ pc[t] = "idle" /\ calls[t] < MaxCalls /\ "destroy" \in Ops
    /\ pc' = [pc EXCEPT ![t] = "relLock"]
    /\ calls' = [calls EXCEPT ![t] = @ + 1]
    /\ UNCHANGED <<singletonVars, arg, hptr, hsize, runnerVars>>

(* std::lock_guard in Verthash::init and Verthash::release.                *)
Acquire(t) ==
    /\ pc[t] \in {"lock", "relLock"}
    /\ lock = NoThread
    /\ lock' = t
    /\ pc' = [pc EXCEPT ![t] = IF @ = "lock" THEN "check" ELSE "release"]
    /\ UNCHANGED <<initialized, info, region, freed, onDisk, arg, calls, hptr, hsize, runnerVars>>

(* Mutant: the strcmp at line 47 dropped, every init reloads.            *)
CheckAlwaysReloads(t) ==
    /\ pc[t] = "check"
    /\ IF initialized /\ info.data # 0
       THEN /\ freed' = freed \cup {info.data}
            /\ info' = Zero
       ELSE UNCHANGED <<info, freed>>
    /\ pc' = [pc EXCEPT ![t] = "load"]
    /\ UNCHANGED <<lock, initialized, region, onDisk, arg, calls, hptr, hsize, runnerVars>>

(* Mutant: verthash_info_free at line 51 dropped, the old dataset leaks.  *)
CheckLeaksOld(t) ==
    /\ pc[t] = "check"
    /\ IF initialized /\ info.data # 0 /\ info.file = Path(t)
       THEN /\ lock' = NoThread
            /\ pc' = [pc EXCEPT ![t] = "idle"]
            /\ UNCHANGED info
       ELSE /\ info' = Zero
            /\ pc' = [pc EXCEPT ![t] = "load"]
            /\ UNCHANGED lock
    /\ UNCHANGED <<initialized, region, freed, onDisk, arg, calls, hptr, hsize, runnerVars>>

(* Verthash::init, lines 45-53: the same file loaded returns true; a     *)
(* different one is freed and m_info zeroed before the new load.           *)
Check(t) ==
    /\ pc[t] = "check"
    /\ IF initialized /\ info.data # 0
       THEN IF info.file = Path(t)
            THEN /\ lock' = NoThread
                 /\ pc' = [pc EXCEPT ![t] = "idle"]
                 /\ UNCHANGED <<info, freed>>
            ELSE /\ freed' = freed \cup {info.data}
                 /\ info' = Zero
                 /\ pc' = [pc EXCEPT ![t] = "load"]
                 /\ UNCHANGED lock
       ELSE /\ pc' = [pc EXCEPT ![t] = "load"]
            /\ UNCHANGED <<lock, info, freed>>
    /\ UNCHANGED <<initialized, region, onDisk, arg, calls, hptr, hsize, runnerVars>>

(* Verthash::init, lines 55-63: verthash_info_init reads a complete file *)
(* into a new allocation, or fails and m_info is zeroed; the lock is       *)
(* released on return.                                                     *)
Load(t) ==
    /\ pc[t] = "load"
    /\ IF Path(t) \in onDisk
       THEN /\ region' = Append(region, [size |-> FileSize[Path(t)], file |-> Path(t)])
            /\ info' = [data |-> Len(region) + 1, size |-> FileSize[Path(t)],
                        mask |-> MaskOf(FileSize[Path(t)]), file |-> Path(t)]
            /\ initialized' = TRUE
       ELSE /\ info' = Zero
            /\ initialized' = FALSE
            /\ UNCHANGED region
    /\ lock' = NoThread
    /\ pc' = [pc EXCEPT ![t] = "idle"]
    /\ UNCHANGED <<freed, onDisk, arg, calls, hptr, hsize, runnerVars>>

(* Verthash::release, lines 68-74; freeing a null m_info.data frees     *)
(* nothing.                                                                *)
Release(t) ==
    /\ pc[t] = "release"
    /\ IF initialized
       THEN /\ freed' = freed \cup ({info.data} \ {0})
            /\ info' = Zero
            /\ initialized' = FALSE
       ELSE UNCHANGED <<freed, info, initialized>>
    /\ lock' = NoThread
    /\ pc' = [pc EXCEPT ![t] = "idle"]
    /\ UNCHANGED <<region, onDisk, arg, calls, hptr, hsize, runnerVars>>

(* Verthash::hash (lines 77-87), unlocked: the isValid() check, the      *)
(* reads of m_info.data and m_info.dataSize for the call, and the call,    *)
(* which reads the dataset through the pointer it was given.               *)
CallHash(t) ==
    /\ pc[t] = "idle" /\ calls[t] < MaxCalls /\ "hash" \in Ops
    /\ pc' = [pc EXCEPT ![t] = "hashCheck"]
    /\ calls' = [calls EXCEPT ![t] = @ + 1]
    /\ UNCHANGED <<singletonVars, arg, hptr, hsize, runnerVars>>

HashCheck(t) ==
    /\ pc[t] = "hashCheck"
    /\ pc' = [pc EXCEPT ![t] = IF IsValid THEN "hashArgs" ELSE "idle"]
    /\ UNCHANGED <<singletonVars, arg, calls, hptr, hsize, runnerVars>>

HashArgs(t) ==
    /\ pc[t] = "hashArgs"
    /\ hptr' = [hptr EXCEPT ![t] = info.data]
    /\ hsize' = [hsize EXCEPT ![t] = info.size]
    /\ pc' = [pc EXCEPT ![t] = "hashRun"]
    /\ UNCHANGED <<singletonVars, arg, calls, runnerVars>>

HashRun(t) ==
    /\ pc[t] = "hashRun"
    /\ pc' = [pc EXCEPT ![t] = "idle"]
    /\ UNCHANGED <<singletonVars, arg, calls, hptr, hsize, runnerVars>>
-----------------------------------------------------------------------------
(* OclVerthashRunner::set (lines 163-178) on runner r's worker thread.     *)
(* While m_verthashData is null it calls loadVerthashData (lines 69-117),  *)
(* whose reads of the singleton are unlocked and one step each; once the   *)
(* buffer is filled, set() never loads again.  Because set() calls the     *)
(* loader only with m_verthashData null, the "already loaded" return at    *)
(* line 78 and the release at line 83 are never taken.  A false return     *)
(* makes set() throw: the runner is "failed".                              *)

RunnerValid(r) ==
    /\ rpc[r] = "start"
    /\ rpc' = [rpc EXCEPT ![r] = IF IsValid THEN "size" ELSE "failed"]
    /\ UNCHANGED <<singletonVars, threadVars, rsize, rmask, rptr>>

RunnerReadSize(r) ==
    /\ rpc[r] = "size"
    /\ rsize' = [rsize EXCEPT ![r] = info.size]
    /\ rpc' = [rpc EXCEPT ![r] = "mask"]
    /\ UNCHANGED <<singletonVars, threadVars, rmask, rptr>>

(* Mutant: the bitmask taken as dataSize() - 1, as if the size were a     *)
(* power of two.                                                           *)
RunnerReadMaskFromSize(r) ==
    /\ rpc[r] = "mask"
    /\ rmask' = [rmask EXCEPT ![r] = info.size - 1]
    /\ rpc' = [rpc EXCEPT ![r] = "alloc"]
    /\ UNCHANGED <<singletonVars, threadVars, rsize, rptr>>

RunnerReadMask(r) ==
    /\ rpc[r] = "mask"
    /\ rmask' = [rmask EXCEPT ![r] = info.mask]
    /\ rpc' = [rpc EXCEPT ![r] = "alloc"]
    /\ UNCHANGED <<singletonVars, threadVars, rsize, rptr>>

(* clCreateBuffer of m_verthashDataSize: a zero size is an error, and the  *)
(* device may be out of memory.                                            *)
RunnerCreateBuffer(r) ==
    /\ rpc[r] = "alloc"
    /\ \/ rsize[r] > 0 /\ rpc' = [rpc EXCEPT ![r] = "upload"]
       \/ rpc' = [rpc EXCEPT ![r] = "failed"]
    /\ UNCHANGED <<singletonVars, threadVars, rsize, rmask, rptr>>

(* The vh.data() argument of clEnqueueWriteBuffer.                         *)
RunnerReadData(r) ==
    /\ rpc[r] = "upload"
    /\ rptr' = [rptr EXCEPT ![r] = info.data]
    /\ rpc' = [rpc EXCEPT ![r] = "copy"]
    /\ UNCHANGED <<singletonVars, threadVars, rsize, rmask>>

(* The blocking write copies m_verthashDataSize words from that pointer;   *)
(* a null host pointer, or any other error, releases the buffer.           *)
RunnerUpload(r) ==
    /\ rpc[r] = "copy"
    /\ \/ rptr[r] # 0 /\ rpc' = [rpc EXCEPT ![r] = "loaded"]
       \/ rpc' = [rpc EXCEPT ![r] = "failed"]
    /\ UNCHANGED <<singletonVars, threadVars, rsize, rmask, rptr>>

(* Every thread has made its calls and every runner is loaded or failed.   *)
Terminating ==
    /\ \A t \in Threads : pc[t] = "idle" /\ calls[t] = MaxCalls
    /\ \A r \in Runners : rpc[r] \in {"loaded", "failed"}
    /\ UNCHANGED vars

Next ==
    \/ \E t \in Threads :
          \/ \E c \in Configs : CallVhInitGenerate(t, c) \/ CallVhInit(t, c)
          \/ GenerateEnds(t) \/ CallVhDestroy(t) \/ Acquire(t)
          \/ Check(t) \/ Load(t) \/ Release(t)
          \/ CallHash(t) \/ HashCheck(t) \/ HashArgs(t) \/ HashRun(t)
    \/ \E r \in Runners :
          \/ RunnerValid(r) \/ RunnerReadSize(r) \/ RunnerReadMask(r)
          \/ RunnerCreateBuffer(r) \/ RunnerReadData(r) \/ RunnerUpload(r)
    \/ Terminating

Spec == Init /\ [][Next]_vars

-----------------------------------------------------------------------------
(* Properties.                                                             *)

(* The lengths and bitmasks of the files, and the zeroes of m_info after  *)
(* a memset.                                                               *)
Sizes == {0} \cup {FileSize[f] : f \in Files}
Masks == {0} \cup {MaskOf(FileSize[f]) : f \in Files}

Info == [data : 0..Len(region), size : Sizes, mask : Masks, file : Files \cup {NoFile}]

(* Every variable has its type.                                            *)
VhTypeOK ==
    /\ lock \in Threads \cup {NoThread}
    /\ initialized \in BOOLEAN
    /\ info \in Info
    /\ region \in Seq([size : Sizes \ {0}, file : Files])
    /\ freed \subseteq Allocs
    /\ onDisk \subseteq Files
    /\ pc \in [Threads -> ThreadLabels]
    /\ arg \in [Threads -> Configs \cup {[gen |-> NoFile, data |-> NoFile]}]
    /\ calls \in [Threads -> 0..MaxCalls]
    /\ hptr \in [Threads -> 0..Len(region)] /\ hsize \in [Threads -> Sizes]
    /\ rpc \in [Runners -> RunnerLabels]
    /\ rsize \in [Runners -> Sizes] /\ rmask \in [Runners -> Masks]
    /\ rptr \in [Runners -> 0..Len(region)]

(* The refinement mapping onto VerthashSlot: the slot holds m_info's file *)
(* while m_info holds an allocation; a thread is inside init from the      *)
(* moment it waits for m_mutex to its return, and inside release from    *)
(* Vh::destroy's call to the return of Verthash::release.                 *)
InitLabels == {"lock", "check", "load"}

SlotLoaded == IF info.data # 0 THEN info.file ELSE NoFile
SlotCalling == {t \in Threads : pc[t] \in InitLabels}
SlotReq == [t \in Threads |-> IF pc[t] \in InitLabels THEN arg[t]
                              ELSE [gen |-> NoFile, data |-> NoFile]]
ReleaseLabels == {"relLock", "release"}
SlotReleasing == {t \in Threads : pc[t] \in ReleaseLabels}

Slot == INSTANCE VerthashSlot WITH
    loaded <- SlotLoaded, calling <- SlotCalling, req <- SlotReq,
    releasing <- SlotReleasing

(* The singleton, its callers and its readers implement the slot: every    *)
(* step of init either keeps the dataset, drops a dataset of another file  *)
(* or installs the file the caller's config names, a release() call       *)
(* empties it once, and no reader or generation step changes it.           *)
ImplementsSlot == Slot!SlotSpec

(* A reader never uses a dataset that is not there: when Verthash::hash    *)
(* runs verthash_hash, and when a runner's clEnqueueWriteBuffer copies,    *)
(* the pointer they read is a live allocation at least as long as the     *)
(* size they read with it (a runner's null pointer is an OpenCL error).    *)
ReadersUseLiveData ==
    /\ \A t \in Threads : pc[t] = "hashRun" =>
          /\ hptr[t] \in Allocs \ freed
          /\ hsize[t] <= region[hptr[t]].size
    /\ \A r \in Runners : rpc[r] = "copy" /\ rptr[r] # 0 =>
          /\ rptr[r] \notin freed
          /\ rsize[r] <= region[rptr[r]].size

(* Outside m_mutex the singleton owns exactly one dataset or none: it is   *)
(* initialized iff m_info holds an allocation, that allocation is live and *)
(* m_info describes it, and every other allocation has been freed (no      *)
(* leak across reloads, failed loads and releases).                        *)
DatasetOwned ==
    lock = NoThread =>
        /\ initialized = (info.data # 0)
        /\ \A a \in Allocs : a \notin freed <=> a = info.data
        /\ info.data # 0 =>
              info = [data |-> info.data, size |-> region[info.data].size,
                      mask |-> MaskOf(region[info.data].size),
                      file |-> region[info.data].file]

(* init is idempotent (spec invariant 4): a dataset is freed only by       *)
(* release(), or by an init given a path other than the loaded file's.     *)
FreedOnlyOnPathChange ==
    [][\A a \in freed' \ freed :
          \E t \in Threads :
             \/ pc[t] = "release"
             \/ pc[t] = "check" /\ Path(t) # region[a].file]_vars

(* Re-init with a different path atomically swaps the region (spec        *)
(* invariant 4): the dataset goes from valid to invalid only by release(). *)
SwapIsAtomic ==
    [][IsValid /\ ~IsValid' => \E t \in Threads : pc[t] = "release"]_vars
====
