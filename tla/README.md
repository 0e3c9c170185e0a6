# TLA+ models of the pool strategies and the Verthash dataset

This directory holds TLA+ specifications of the parts of the miner in
`src/` that coordinate connections and shared state:

- the failover strategy over an ordered list of pools;
- the donation time-multiplexer built on top of it;
- the Verthash dataset singleton, its loader `Vh` and its readers (the
  hasher and the OpenCL runner).

It also holds the TLC configurations that model-check them on small instances,
and TLAPS proofs of the failover strategy's safety and of the dataset's
ownership invariant for every instance.
`PROJECT.json` lists every component, run, mutant, source mapping, finding,
hazard and theorem. This file explains them.

## The system

| Part | Source | What it does |
|---|---|---|
| FailoverStrategy | `src/base/net/stratum/strategies/FailoverStrategy.cpp` | Owns one client per pool and keeps at most one of them active. It moves down the list when the current pool fails. With `retries == 0` the next connect is deferred to `tick()` (`m_pendingConnect`, `m_pendingIndex`), and pools below `m_minAcceptableIndex` are refused while a cascade is in progress. With `retries > 0`, pool 0 is retried in place and the next pool is connected synchronously from `onClose`. |
| DonateStrategy | `src/net/strategies/DonateStrategy.cpp` | A state machine: IDLE, then CONNECT, then ACTIVE, then WAIT, then IDLE again. A one-shot timer drives it, and a 3 s grace in WAIT is observed by `tick()`. It owns a nested FailoverStrategy (retries 0) over the 2 or 3 donation pools, and optionally a proxy client that tunnels through the operator's pool. It is the nested strategy's listener: the strategy's `onActive` starts a donation window. |
| Verthash singleton | `src/crypto/verthash/VerthashWrapper.{h,cpp}` | A process-wide dataset. `init(path)` and `release()` run under `m_mutex`. `isValid()`, `data()`, `dataSize()` and `hash()` read it without the lock. |
| Vh | `src/crypto/verthash/Vh.cpp` | Startup: optionally generates a data file, then loads the configured (or generated, or default) file into the singleton. |
| OclVerthashRunner | `src/backend/opencl/runners/OclVerthashRunner.{h,cpp}` | Copies the dataset to a GPU buffer once (`set` / `loadVerthashData`) and runs the kernel. |
| VerthashConfig | `src/crypto/verthash/VerthashConfig.{h,cpp}` | Reads and writes the two path options. |

Everything in the network part runs on one event loop. Each owner call, each
timer fire and each client callback runs to completion before the next one
starts. In the model, each such handler is one step, which includes every
client method it calls. The pool clients (`IClient`/`Client`) are not under
`src/`. Their behaviour is modelled from the spec: a client is disconnected,
connecting, waiting on its own reconnect timer, or authorized. `disconnect()`
sets its failure count to -1, and a close reports the count plus one. These
definitions are marked `spec_modelled` in the map.

## Modules

### `VerthashDataset.tla`: the dataset singleton, its loaders and its readers

Unlike the strategies, the dataset is shared between threads. `init` and
`release` take `m_mutex`; the readers do not. No code under `src/` calls
`Vh::init`, `Vh::destroy` or constructs a runner, so the callers are any
number of `Threads` (each may call `Vh::init`, `Vh::destroy` or
`Verthash::hash`, at most `MaxCalls` times) and `Runners`, as the spec's
concurrency contract allows.

- **State.** `lock` (the mutex owner or `NoThread`), `initialized`
  (`m_initialized`), `info` (`m_info`: `data` is an allocation id, 0 for
  null, with `size`, `mask` and `file`), `region` (the size and file of every
  allocation ever made), `freed` (the allocations already freed) and
  `onDisk` (the files that are complete datasets).
- **Threads.** `pc` is the thread's place in its call. `Vh::init` is
  `CallVhInitGenerate` (generation started: the file is not a dataset until
  `GenerateEnds`) or `CallVhInit`, then `Acquire`, `Check` (lines 45-53: same
  file returns, a different one is freed and zeroed), `Load` (lines 55-63:
  success makes a new allocation, failure zeroes `m_info`). `Vh::destroy` is
  `Acquire` and `Release`. `Verthash::hash` is `CallHash`, `HashCheck`
  (`isValid()`), `HashArgs` (reads `m_info.data` and `dataSize`) and `HashRun`
  (uses them), each a separate unlocked step.
- **Runners.** `OclVerthashRunner::set` calls `loadVerthashData` only while
  it has no buffer: `RunnerValid`, `RunnerReadSize`, `RunnerReadMask`,
  `RunnerCreateBuffer` (may fail), `RunnerReadData` (`vh.data()`) and
  `RunnerUpload` (the blocking copy; may fail). Each `vh.` getter is its own
  unlocked read.
- **Spec-modelled.** `verthash_info_init` and `verthash_info_free` are C code
  outside `src/`; the bitmask they compute is modelled from the spec as
  `MaskOf(size)`, the least power of two not below the size, minus one.
  Generation is a step that makes its file a dataset.
- **Terminating.** When every thread and runner is done, the model stutters.

### `VerthashSlot.tla`: what the dataset promises its callers

This is the abstract specification of the singleton: one slot that holds
the dataset of one file (`loaded`) or nothing, plus the threads inside an
`init` call (`calling`), their configs (`req`) and the threads inside a
`release` call (`releasing`). `PathFor(c)` is the file a config names: its
data file, else the file it generated (the comment in `Vh.cpp`), else
`verthash.dat`. A thread is in at most one call. It has five steps:

- `Invoke`: a thread calls `init`.
- `BeginRelease`: a thread calls `release()`.
- `Unload`: the call finds another file held and releases it.
- `Finish`: the call returns, with the requested file held or the slot empty
  after a failed load. A call that finds its own file held changes nothing.
- `Empty(t)`: thread `t`'s `release()` empties the slot and returns. Only a
  thread inside `release()` can take it, once per call, so a step of `init`
  that drops the file it was asked for is not a step of the contract.

`Unload` and `Finish` are separate steps because readers take no lock and can
see the slot empty in between. The mapping in `VerthashDataset.tla` is:

- `loaded` is `m_info.file` while `m_info.data` is set, else nothing;
- `calling` is the threads at `lock`, `check` or `load`;
- `req` is their argument;
- `releasing` is the threads at `relLock` or `release`, from
  `Vh::destroy`'s call to the return of `Verthash::release`.

`ImplementsSlot` is `Slot!SlotSpec` under this mapping.


### `ActivePool.tla`: what a strategy promises its listener

This is the abstract specification of the `StrategyListener` contract about
the active pool. It has two variables: `current`, the pool the listener was
last told is active (or none), and `requested`, whether the owner's last
call was `connect()`. It has four steps:

- `Request`: `connect()`.
- `Halt`: `stop()`, which pauses the strategy.
- `Activate(p)`: `onActive(p)`, only while the owner wants a connection and
  no pool is active.
- `Pause`: `onPause()`, when the active pool closes.

So the listener never sees two `onActive` without an `onPause` between
them. The spec's `onLoginSuccess` lets pool 0 be promoted while another
pool is active. That preemption would be a direct switch, which this
contract excludes, so the refinement proof also shows the preemption is
never taken. The mapping in `FailoverStrategy.tla` is `current <- active`
and `requested <- wanted`. `ImplementsActivePool` is `AP!APSpec` under it.

### `FailoverStrategy.tla`: the strategy and its N clients

- **Constants.**
  - `N` is the number of pools.
  - `Retries` is `m_retries`.
  - `Reachable` and `Failing` say which pools can end a connection attempt
    with a login and which with a failure. Every pool is in at least one of them.
  - `MaxDrops` and `MaxStops` bound the environment's drops and the owner's
    `stop()` calls.
- **Variables.**
  - `index`, `active`, `pendingConnect`, `pendingIndex` and
    `minAcceptableIndex` are the five fields of the strategy.
  - `conn` and `failures` are the clients' states.
  - `wanted` records whether the owner's last call was `connect()` rather than `stop()`.
- **Owner actions.** `Connect` is `connect()`. `Stop` is `stop()`, via `StopFrom`.
  `Tick(S)` is `tick()`: the expired client timers `S` fire, then
  `connectNext()` runs (`ConnectNextDrains` is its guard).
- **Client events.**
  - `ClientConnectFails`, `ClientLoginSucceeds` and `ClientDrops` call the
    strategy's handlers with the client's new state.
  - The `onClose` handler is split into one operator per branch of the code:
    `CloseBelowMinimum`, `CloseCurrentDeferred`, `CloseOther`, `CloseAdvance`
    and `CloseRetryInPlace`, each starting with `ClearActive`.
  - The `onLoginSuccess` handler is split into `LoginBelowMinimum` and `LoginAccepted`
    (with `LoginWinner`).
- **Failure counts.** A close with `failures == -1`
  (an explicit disconnect) changes nothing, so it is not a step. The count a
  client reports saturates at `Retries`, because the strategy only compares it
  with `m_retries`.

### `DonateStrategy.tla`: the donation cycle composed with the nested strategy

- **Composition.** `FS == INSTANCE FailoverStrategy WITH Retries <- 0` is the
  nested strategy, over the same variables. DonateStrategy's handlers call its
  actions: `connect()` calls `FS!Connect`, `tick()` calls `FS!Tick`, and the
  end of WAIT calls `FS!StopFrom`.
- **Own variables.** `state` is `m_state`. `timer` records whether `m_timer` is armed.
  `proxy`, `proxyFailures` and `proxyDrops` describe the proxy client.
- **Time is abstract.** An armed timer may fire at any later step
  (`TimerToWait`, `TimerToConnect`). A tick in WAIT may or may not see the
  grace deadline passed (`DonateTick` or `GraceExpires`).
- **`GraceExpires`** is one call of `tick()`. The nested strategy is ticked first:
  its `connectNext()` drains a deferred connect. Then `setState(IDLE)` stops it,
  deletes the proxy and arms the idle timer.
- **`NestedEvent(c)`** is a nested client event. When it makes the nested
  strategy emit `onActive`, DonateStrategy's `onActive` runs in the same step.
- **Proxy.** `CreateProxy` and `DonateConnect` are `createProxy()` and
  `connect()`. `ProxyLoginSucceeds` is `onLoginSuccess`. `ProxyFails` and
  `ProxyDrops` lead to `onClose` via `ProxyClose`, with the fallback at the
  second failure.
- **Owner stop.** `DonateStop` is the owner's `stop()`.

The `MC*.tla` modules define the small constant sets the configurations use.

## Runs

| Run | Checks | Instance | Result |
|---|---|---|---|
| `failover_zero` | `TypeOK`, `ExclusiveActive`, `ActiveIsCurrent` | 3 pools, retries 0, every pool may fail or log in, 2 drops, 1 stop | pass |
| `failover_retry` | the same plus `StoppedStaysQuiet`, `ConnectLeadsToActive` and `ImplementsActivePool` | 4 pools, retries 2, only pool 1 logs in (and never fails), 3 drops, 1 stop | pass |
| `failover_zero_live` | `ConnectLeadsToActive` | 4 pools, only pool 1 logs in (and never fails), 4 drops, no stop | pass |
| `failover_zero_stop_quiet` | `StoppedStaysQuiet` | as `failover_zero` | violation (finding) |
| `donate_safety` | `DonateTypeOK`, `IdleIsQuiet`, `TimerOnlyWhenScheduled` | 3 donation pools (TLS build), proxy AUTO, 1 nested drop, 1 proxy drop, 1 owner stop | pass |
| `donate_live` | `DonationEnds` | as above, no owner stop | pass |
| `donate_grace_relogin` | `DonationStartsFromConnect` | 3 pools, no proxy, 1 drop | violation (finding) |
| `donate_stale_minimum` | `DonationResumes` | 3 pools that always log in, 1 drop | violation (finding) |
| `dataset_readers` | `ReadersUseLiveData` | 2 threads, 1 runner, 1 file (one config generates it), no destroy, 2 calls each | pass |
| `dataset_reload` | `VhTypeOK`, `DatasetOwned`, `FreedOnlyOnPathChange`, `ImplementsSlot` | 2 threads, 1 runner, 2 files (one generated), 4 configs, all calls, 2 calls each | pass |
| `dataset_reload_readers` | `ReadersUseLiveData` | as `dataset_reload` | violation (finding) |
| `dataset_swap` | `SwapIsAtomic` | as `dataset_reload` | violation (finding) |

### What the properties say

- **`ExclusiveActive`.** While a pool is active, its client is authorized and
  every other client is disconnected: none is connecting, and none is waiting
  on a reconnect timer. This needs the disconnect loops of `onLoginSuccess`
  and `onClose`, and the refusals below `m_minAcceptableIndex`, all at once.
- **`ActiveIsCurrent`.** `m_active` is -1 or `m_index`. A deferred connect
  must never fire under an active pool.
- **`StoppedStaysQuiet`.** After `stop()`, and until the next `connect()`, no
  client is connecting, waiting or connected.
- **`ImplementsActivePool`** (refinement). FailoverStrategy keeps the
  listener contract of `ActivePool`. It checks against `failover_retry`
  because it needs retries: with `m_retries == 0` TLC finds a pool made
  active after `stop()`, which is the same deferred connect as the
  `failover_zero_stop_quiet` finding. The mutant is a `stop()` that keeps
  `m_active`.
- **`ConnectLeadsToActive`.** After `connect()`, some pool becomes active
  (unless the owner stops), provided some pool always logs in.
- **`IdleIsQuiet`.** In IDLE there is no proxy, no live nested client and no
  deferred connect left for a later tick.
- **`TimerOnlyWhenScheduled`.** The one-shot timer is armed only in IDLE and
  ACTIVE, so the assert in `setState` cannot fire from `onTimer`.
- **`DonationEnds`.** Every ACTIVE is followed by IDLE.
- **`DonationStartsFromConnect`** and **`DonationResumes`** are the spec's
  transition table and its promised cycle.
- **`ReadersUseLiveData`.** When `hash()` calls `verthash_hash`, and when a
  runner's upload copies, the pointer it read is a live allocation at least
  as long as the size it read. Breaking it takes a reader's unlocked reads
  interleaved with another thread's locked free.
- **`DatasetOwned`.** Whenever `m_mutex` is free, `m_initialized` is true
  iff `m_info.data` is set, that allocation is the only live one, and
  `m_info` describes it. This covers leaks across path changes, failed loads
  and release.
- **`FreedOnlyOnPathChange`** (action property). A dataset is freed only by
  `release()` or by an `init` given another path (spec invariant 4,
  idempotence).
- **`ImplementsSlot`** (refinement). The singleton, with its mutex, its
  allocations and its readers, implements `VerthashSlot`. Every locked step
  is a call starting, a release of another file, a return with the
  requested file or nothing, or `release()`. The mutant makes `init` prefer
  the generated file over an explicit data file, against the comment at
  `Vh.cpp:47`.
- **`SwapIsAtomic`** (action property). The dataset goes from valid to
  invalid only by `release()`. This is the spec's "atomically swaps".

Every property of a passing run has a mutant in `PROJECT.json`. The mutant is
a plausible bug in the mapped code (a dropped loop, a missing wrap-around, an
off-by-one, a repeating timer, a proxy that is not deleted), and TLC finds
the property violated with the mutant in place.

### Bounds

- **Three pools.** This is the donation list of a TLS build. It is the
  smallest list with a middle pool, so a cascade can both advance and wrap
  around, and a lower pool can report late while a higher one is pending.
- **Four pools in the liveness runs.** A cascade there has to pass two
  failing pools before it wraps.
- **Drops and stops.** Drops (1 to 4) and stops (0 or 1) are bounded so that
  the environment cannot keep a pool failing forever, and so that every
  handler's branches are still reached. With the bounds used, every action
  and every branch fires.
- **Retries.** Retries 2 is the smallest count that has both an in-place
  retry and an advance.
- **Failure counts** saturate at the retry count, so no other bound is needed.
- **Dataset: two threads, one runner, two calls each.** Two threads are
  the least for an unlocked reader to meet a locked writer. Two calls let
  one thread load and then reload or destroy while the other hashes. Two
  files (sizes 2 and 3, masks 1 and 3) make a path change with a new size
  and mask; one of them is generated by a config, so a load can meet an
  incomplete file. The four configs in `dataset_reload` name a data file
  only (each of the two files), a generated file only, and both, so
  `PathFor` takes each of its branches. `dataset_readers` leaves out `Vh::destroy` and a second
  file. This checks that readers are safe when nothing is freed under them,
  and `dataset_reload` checks ownership with everything enabled.

### Fairness

- **Ticks and timers.** The event loop ticks every strategy forever and fires
  armed timers. So `Tick`, each waiting client's timer, the donation timer and
  the end of the WAIT grace are weakly fair.
- **Connection attempts.** An attempt always ends. A pool that cannot log in
  (not in `Reachable`) eventually fails, and a pool that cannot fail
  eventually logs in. A pool that can do both is not forced either way.
- **Unconstrained.** Drops, the owner's calls and the proxy client are not
  constrained.
- **Liveness runs without owner stop.** `DonationEnds` is checked without
  owner `stop()`. A `stop()` in ACTIVE stops the timer, and that window never
  ends (listed as a hazard).
- **Dataset runs.** These check only safety and action properties, so they
  assume no fairness. Threads stop after `MaxCalls` calls and runners after
  one load, and `Terminating` then stutters. That is why these runs check
  deadlock: every stop is a finished caller.

## Findings

1. **A stopped strategy can connect again.** `FailoverStrategy::stop()`
   leaves `m_pendingConnect` set (`FailoverStrategy.cpp:117`). A cascade
   interrupted by `stop()` connects a pool on the next `tick()`
   (`failover_zero_stop_quiet`).
2. **A drop during WAIT starts a second donation window.** In the donation
   cycle, a pool that drops during the WAIT grace is replaced by the nested
   cascade. Its login re-enters ACTIVE from WAIT
   (`DonateStrategy.cpp:197`). That starts a second full donation window,
   which the spec's table does not allow (`donate_grace_relogin`).
3. **Donation can stop resuming.** `stop()` leaves `m_minAcceptableIndex`
   raised, so the next `connect()` starts pool 0 and pool 0 is refused
   forever. The end of WAIT stops the nested strategy with the minimum still
   raised by such a drop. Every later cycle
   then stays in CONNECT, and donation never resumes
   (`donate_stale_minimum`).
4. **A reload frees the table under a reader.** `Verthash::init` with a
   different path frees `m_info.data` under `m_mutex`
   (`VerthashWrapper.cpp:51`). `Vh::destroy` does the same. But `hash()`
   (line 84) and `loadVerthashData` (`OclVerthashRunner.cpp:104`) read and
   use the pointer without the mutex. The spec's concurrency section says a
   path-change reload happens without tearing down callers
   (`dataset_reload_readers`).
   The same unlocked reads also tear the GPU copy: the runner reads the
   size (line 88) and the pointer (line 104) one at a time, so a reload in
   between uploads a longer size than the table it copies from, which
   `ReadersUseLiveData` also rejects.
5. **A path change is not an atomic swap.** `init` frees and zeroes
   `m_info` (lines 51-52) before `verthash_info_init` (line 55). Readers see
   `isValid()` false in between, and a failed load leaves no dataset at all.
   Spec invariant 4 says the region is swapped atomically (`dataset_swap`).

## Proofs

### `FailoverStrategyProofs.tla`

The theorems hold for every `N > 0`, every `Retries` in Nat, and every choice
of `Reachable` and `Failing`. The only assumptions are the module's ASSUMEs
(`NAssumption`, `RetriesAssumption`, `BoundsAssumption`).

- **`TypeCorrect`**: `Spec => []TypeOK`. The proof follows from two lemmas,
  `InitTypeOK` and `TypeStep`.
  - SMT cannot prove membership in `BOOLEAN`, and Zenon does no arithmetic.
    So `TypeOK` is split into `BoolTypeOK` (proved by Zenon, `BoolStep`) and
    `DataTypeOK` (proved by SMT, `DataStep`).
  - Each `onClose` and `onLoginSuccess` branch is a case of the lemmas
    `OnCloseTyped` and `OnLoginSuccessTyped`.
- **`Invariance`**: `Spec => []IInv`, where
  `IInv == TypeOK /\ ExclusiveActive /\ ActiveIsCurrent /\ PendingOnlyWhenInactive`.
  - `ExclusiveActive /\ ActiveIsCurrent` alone is not inductive. A tick could
    drain a deferred connect while a pool is active, and nothing in those two
    conjuncts rules that out. `PendingOnlyWhenInactive` (a deferred connect
    is pending only while no pool is active) closes the gap.
  - The argument:
    - A client that is not disconnected is the active one, if any pool is
      active (`LiveClientIsActive`).
    - So every `onClose` leaves no pool active (`CloseClearsActive`).
    - Every accepted login comes while no pool is active and makes its own
      client the winner.
    - Tick changes nothing while a pool is active.
- **`ExclusiveActiveHolds`** and **`ActiveIsCurrentHolds`** follow from
  `Invariance` by temporal logic.
- **`FailoverRefinement`**: `Retries > 0 => (Spec => ImplementsActivePool)`.
  - Each step maps to an abstract step or a stutter:
    - `Connect` is `Request`, and `Stop` is `Halt`;
    - `Tick` is a stutter, since it touches neither `m_active` nor `wanted`;
    - a close of the active pool is `Pause` (`CloseClearsActive`);
    - an accepted login that changes `m_active` is `Activate`;
    - any other client event is a stutter.
  - The step relation needs two invariants, `IInv` and `QuietInv`:
    - `IInv`'s `ExclusiveActive` makes an accepted login come while no
      pool is active. So `LoginWinner(c) = c`, and the pool-0 preemption
      never switches pools.
    - `QuietInv` (from `StoppedQuietWithRetries`) makes every client event
      come while the owner wants a connection (`EventWhileWanted`).
- **`StoppedQuietWithRetries`**: `Retries > 0 => (Spec => []StoppedStaysQuiet)`.
  - The hypothesis is the user pools' configuration: the Network builds
    their strategy with the configured retry count. With `m_retries == 0`
    (the donation strategy) the property fails, as the violation run
    `failover_zero_stop_quiet` shows. So the hypothesis is what the code
    needs, not a convenience.
  - `StoppedStaysQuiet` is not inductive. `stop()` leaves
    `m_pendingConnect` as it was, and a later `tick()` would drain it.
  - The strengthening is `QuietInv == ~pendingConnect /\ StoppedStaysQuiet`.
    With retries, no `onClose` branch raises a deferred connect, and an
    accepted login clears one (`RetryNeverDefers`). So a stopped strategy
    has nothing for `tick()` to drain, and no client event is enabled.

### `VerthashDatasetProofs.tla`

The theorems hold for any sets of threads, runners and files, any file
sizes in `Nat \ {0}`, and any `MaxCalls`. The only assumptions are
`FilesAssumption` and `CallsAssumption`.

- **`VhTypeCorrect`**: `Spec => []VhTypeOK`. As above, the typing is split
  into `BoolTyped` (proved by Zenon) and `DataTyped` (proved by SMT), with
  one case per action. `DataTyped` also carries `GenArg`: a thread that is
  generating was given a file to generate.
- **`Invariance`**: `Spec => []IInv`, where
  `IInv == TypeInv /\ LockInv /\ OwnedInv`.
  - `DatasetOwned` is not inductive. It says nothing while the lock is held,
    and `Load` starts from whatever `Check` left.
  - `LockInv` says that exactly the thread at `check`, `load` or `release`
    holds `m_mutex`. So at most one thread is in the locked section, and
    `Loading` names the lock holder.
  - `OwnedInv` says what holds during the free-then-load window: while a
    thread is at `load`, `m_info` is zero and every allocation is freed.
    Otherwise the dataset is owned, which is `DatasetOwned`'s body with a
    zero `m_info` when nothing is held.
  - The argument:
    - Unlocked steps (the hashers and runners, generation) change none of
      the singleton's state.
    - `Check` either keeps the owned dataset or frees exactly it.
    - `Load` appends one allocation and makes `m_info` describe it, or
      leaves it zero.
    - `Release` frees `m_info.data`, or nothing when it is null.
- **`DatasetOwnedHolds`**: `Spec => []DatasetOwned`. It follows from
  `Invariance`: when the lock is free, no thread is at `load`.
- **`FreedOnlyOnPathChangeHolds`**: `Spec => FreedOnlyOnPathChange`. This
  is an action property, proved from `IInv`:
  - Only `Check` and `Release` free anything.
  - `Check` frees only when `m_info` differs from the path it was given.
  - While a thread is at `check`, the freed allocation is the owned one
    that `m_info` describes (`CheckSeesOwned`), so its file is the one
    that differs from the path.

### `VerthashReadersProofs.tla`

The hypothesis of these theorems is
`OneDataset == Files = {DefaultFile} /\ "destroy" \notin Ops`: one data
file, and no call of `Vh::destroy`. This is how the miner uses the
singleton. It has one `verthash.dat`, and no code under `src/` calls
`Vh::destroy`. Without the hypothesis the readers are not safe: the
violation run `dataset_reload_readers` frees the data under a running
hasher.

- **`RInvariance`**: `Spec => []RInv`, where
  `RInv == IInv /\ NoneFreed /\ RegionsOfD /\ HeldIsD /\ NoRelease /\ HashersSee /\ RunnersSee`.
  - The reader properties are not inductive. A read is right only because
    the dataset the reader checked earlier is still held.
  - The strengthening has three parts:
    - nothing is ever freed (`NoneFreed`);
    - once `m_info` holds the one file's dataset, it keeps it (`HeldIsD`,
      `HeldStays`), because `Check` finds the same path and no thread is
      in `release()`;
    - each reader label records what the reader has read so far: the
      pointer is non-null, and the size and mask are the dataset's
      (`HashersSee`, `RunnersSee`).
- **`ReadersUseLiveDataHolds`** follows from `RInvariance` (`RInvReaders`).

### `VerthashSlotProofs.tla`

- **`SlotRefinement`**: `Spec => ImplementsSlot`, under the same
  assumptions. It is proved step by step from `IInv`:
  - `CallVhInit` is `Invoke`, and `GenerateEnds` is `Invoke` or a stutter.
  - `Check` is `Finish` (same file), `Unload` (another file, freed), or a
    stutter (nothing held).
  - `Load` is `Finish`.
  - `CallVhDestroy` is `BeginRelease`, `Acquire` at `relLock` is a
    stutter, and `Release` is `Empty`.
  - Every unlocked step and every move between unlocked labels is a stutter
    (`SlotFrame`).

  `OwnedInv` is needed, because when a thread at `check` finds `m_info`
  set, that allocation is the one the slot holds (`OwnerSeesOwned`).

### `DonateStrategyProofs.tla`

These theorems hold for every number of donation pools (`N > 0`, the
assumption `DonatePoolsAssumption`), every choice of reachable and failing
pools, and every bound.

- **`TimerScheduled`**: `Spec => []TimerOnlyWhenScheduled`. The invariant is
  inductive as it stands. Every step that arms the timer enters IDLE or
  ACTIVE. Every other step disarms it or keeps both the state and the timer.
- **`DonateTypeCorrect`**: `Spec => []DonateTypeOK`, through
  `DonateTypeInv == DonateTypeOK /\ ProxyOnlyWhenAuto`.
  - The nested strategy is typed with `m_retries` fixed at 0, so a failure
    count is -1 or 0. Its typing is proved again over the composed steps
    (`NestedBoolStep` by Zenon, `NestedDataStep` by SMT). It cannot come
    from `FailoverStrategyProofs` through an INSTANCE of that proof module,
    which tlapm 1.4.5 does not handle.
  - The proxy's bound (failures at most 1) is not inductive alone. It
    holds because a proxy exists only under proxyDonate AUTO
    (`ProxyOnlyWhenAuto`): `createProxy()` returns null under NONE. Under
    AUTO, `onClose` deletes the proxy at the second failure in a row.
  - The module also assumes `DonateReachableAssumption` and
    `DonateBoundsAssumption`. These are the nested strategy's own
    assumptions, stated for the donation pools.
- **`IdleQuiet`**: `Spec => []IdleIsQuiet`, through
  `QuietInv == PendingInRange /\ IdleIsQuiet`.
  - `IdleIsQuiet` alone is not inductive. The step into IDLE stops the
    nested strategy with `m_pendingConnect` as its `tick()` left it, and
    `connectNext()` clears a pending connect only if `m_pendingIndex < N`.
  - `PendingInRange` says it always is. `onClose` sets it to the next pool
    or wraps to 0.
  - Within IDLE, no client event and no proxy event is enabled, since there
    is nothing to connect or drop. A tick finds nothing to fire or drain,
    and `stop()` keeps everything disconnected.

Only TLC checks:

- **Liveness.** `ConnectLeadsToActive`, `DonationEnds` and `DonationResumes`
  are liveness properties. TLAPS does not handle fairness and `ENABLED`.
- **`StoppedStaysQuiet` and `ImplementsActivePool` with `m_retries == 0`.**
  Both fail there, for the same reason (the violation run
  `failover_zero_stop_quiet`), so only the retrying case is proved.
- **The readers with more than one file, or with `release()`.** There
  `ReadersUseLiveData` fails (`dataset_reload_readers`), so both reader
  properties are proved only under `OneDataset`, and are only
  model-checked without it.
- **Quantities over data.** None arise here, because the models have no
  recursive operators.

## Not modelled, and the plan

- **The GPU copy after a reload.** `set()` loads only while the runner has
  no buffer, so the size check at `OclVerthashRunner.cpp:78` is never
  reached. After a reload from another file, the GPU keeps the old data. The
  model loads a runner once, and no property yet says that the GPU copy
  follows the current file (a hazard in `PROJECT.json`). Also left out of the
  dataset model:
  - `run()`, the kernel build and the OpenCL device calls (I/O);
  - the contents of the dataset file, beyond its name and size.
- **Proofs still to do.** DonateStrategy has no refinement (below).
- **Refinement of DonateStrategy.** FailoverStrategy refines `ActivePool`
  (above), but DonateStrategy has no refinement. An abstract donation
  schedule (IDLE, then CONNECT, then ACTIVE, then WAIT, then IDLE) is what
  the spec promises. Finding 2 shows DonateStrategy does not refine it, so
  the violation run `donate_grace_relogin` stands in for the refinement.
- **`DonateStrategy::stop()` with a proxy** (`DonateStrategy.cpp:170`).
  This leaves `m_state` and the proxy alone. No code under `src/` calls it,
  so no property claims anything about it.
- **A load of a file while it is being generated** (`Vh.cpp:37`). The
  model keeps a file off disk until its generation ends, so such a load
  fails. In the code the file exists half-written and could be loaded
  incomplete. Telling the two apart needs a third file state and a
  violation run, so this hazard has no property yet.
- **A load of a file that is not on disk** (`Vh.cpp:37`). This fails in
  the model and leaves the slot empty. No property is about it beyond
  `DatasetOwned`, which it cannot break.
- **DonateStrategy data paths.** `update`, `setAlgo`, `setProxy`,
  `setParams` and `onLogin` build the login JSON and job metadata. `submit`,
  `setJob` and `setResult` forward. None of them change the state machine.
  The idle jitter and the donate and idle durations are time, which is
  abstract here.
- **VerthashConfig.** JSON reading and writing of two strings.
- **The clients' wire protocol and the OpenCL device work.** These are I/O.
