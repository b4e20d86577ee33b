# TLA+ models of the distributed course examples

This directory holds TLA+ specifications of the C++ example programs under
`src/docs/course/examples/`. Those programs build a sharded vector index on
top of USearch. The project has:

- the modules that model them;
- the TLC configurations that model-check them on small instances;
- TLAPS proofs of the failure detector's invariants, of the checkpoint
  manager's list invariants and of its refinement of an abstract
  checkpoint store, and of the load balancer's request count.

`PROJECT.json` lists:

- every component, run, mutant, finding and hazard;
- the source lines each definition models (`map`).

## The system

`distributed_examples.cpp` defines these parts:

- **ShardNode**: one `index_dense_gt` behind a mutex, with add, add_batch,
  search, size, save and load.
- **ShardingStrategy** (Hash, RoundRobin, Range): maps a key to a shard.
  `target_shards` picks the shards a search probes.
- **DistributedIndex**: owns the shards and a strategy.
  - `add` and `add_batch` route entries to shards. `add_batch` runs one
    `std::async` task per shard group.
  - `search` runs one task per target shard and merges the answers: sort by
    key, `unique`, `partial_sort` by distance, then `resize(k)`.
  - `save_all` and `load_all` loop over the shards and stop at the first
    failure.

`advanced_distributed.cpp` adds these parts:

- **FailureDetector**: add_node, heartbeat, start and stop, and a detection
  thread. Every period the thread marks each timed-out alive node as not
  alive and increments its failure count. It calls `on_failure_` when the
  count reaches 3.
- **CheckpointManager**: `create_checkpoint` saves `shard_` to
  `checkpoint_<id>` and records `size()`. `cleanup_old` keeps
  `max_checkpoints_` records and deletes the older files. `restore_latest`
  loads the newest file. A background thread creates a checkpoint every
  interval.
- **AdaptiveLoadBalancer**: per-shard atomic `active_requests`,
  `total_requests` and `avg_latency_ms` (an EMA).
  - `select_shard` takes the balancer's `mutex_` and scans for the least
    score, `active + avg/10`, using a strict `<`. It loads each shard's two
    atomics one at a time. `record_request_start` and `record_request_end`
    never take `mutex_`, so they can change the statistics between those
    loads.
  - `record_request_end` does a fetch_sub, then a load, a compute and a store
    of the EMA.
- **Tracer**: `start_span` appends a span. `finish_span` looks a span up by
  `tags["span_id"]`.
- **ProductionCluster**: ties a balancer, a detector, a tracer and the shards
  together.
  - `smart_search` selects a shard, brackets one shard search with
    `record_request_start`/`end`, and opens and finishes two spans.
  - `parallel_search` runs one such task per shard, then does the same merge
    as `DistributedIndex::search`.

Neither file compiles as written. `distributed_examples.cpp` calls its engine
with an API that is not USearch's: `init`, a batched `add(keys, vectors,
count)`, and a `search` whose result it returns as a `std::vector`.
`advanced_distributed.cpp` has these problems:

- `ShardNode` and `result_t` are not defined in it. They are the ones of
  `distributed_examples.cpp`, which the models use.
- `<map>` and `<filesystem>` are not included.
- `finish_span` calls `operator[]` on a `const` map.
- `example_03` assigns the private `shard_`.
- `ShardStats`, which holds atomics, is pushed into a vector.

The models follow the evident intent of each statement.

`optimization_examples.cpp` times loop kernels and is not modelled (see "Not
modelled"). `complete_examples.cpp` calls the USearch library directly.

## Modules

| Module | Models | State | Actions |
|---|---|---|---|
| `Sharding` | the three strategies and `target_shards` | none: pure operators | none |
| `DistributedIndex` | ShardNode, DistributedIndex, the strategy it was built with, example_05_persistence's reopening | shard contents, snapshot files, round-robin counter, `strategy`, one `pc` per client and per-call locals | Add, AddBatchStart/GroupKey/Dispatch/BatchTask/BatchReturn, SearchStart/Launch/SearchTask/Merge, SaveAllStart/Advance/Fail/SaveOk/SaveFail, LoadAllStart/LoadOk/LoadFail, Reopen |
| `FailureDetector` | FailureDetector with its clients and the steady clock | `nodes_` fields, `running_`, the thread's place and wake-up time | AddNode, Heartbeat, Start, Stop, LoopCheck, Scan, Tick |
| `CheckpointManager` | CheckpointManager, a writer to its shard, example_03's rebinding, process restarts | shard sizes, `shard_`, files, `checkpoints_`, `mutex_`, `running_`, two threads | Write, Rebind, Start, Stop, Join, LoopCheck, Wake, CallCreate, CreateSave, CreateRecord, RestoreLatest, Restart |
| `CheckpointStore` | what CheckpointManager promises (spec 3, 6, 8): an abstract list of checkpoints | the list | Create, Forget |
| `DetectorClients` | example_02_failure_detection and example_05's ProductionCluster, each run as a program beside the detector thread | FailureDetector's and ProductionCluster's state, the program and its instruction pointer, the main thread's wake-up time, the nodes the program means failed | DriverAddNode, DriverHeartbeat, DriverStart, DriverSleep, DriverFail, DriverStop, DriverJoin, DriverSearch, DriverSearchDone, Detector, Exited |
| `ProductionCluster` | AdaptiveLoadBalancer, Tracer, smart_search and the tasks of parallel_search | ShardStats, spans, `mutex_`, one `pc` per request and select_shard's loop locals | SmartStart, SelectBegin, LoadActive, LoadLatency, SelectEnd, TaskStart, RecordStart, Search, EndLoad, EndStore |

Each `MC*` module instantiates one of these for TLC. `FailureDetectorProofs`,
`CheckpointManagerProofs`, `ProductionClusterProofs`, `DistributedIndexProofs`
and `ShardingProofs` hold the proofs.

### How the models correspond to the code

**Lock scope decides action granularity.** Every ShardNode operation holds the
shard's mutex for the whole engine call, so it is one step. The tasks started
with `std::async` are separate steps. So are the iterations of the grouping,
launching and save/load loops. This lets other clients interleave wherever
the code lets them.

**The search task capture bug is kept.** The search task reads the loop
variable `shard_id` through its `[&]` capture when it runs, not when it is
launched. The model keeps that variable (`slot`) and lets tasks run late.

**Undefined behaviour in partial_sort.** With fewer distinct results than `k`,
`partial_sort(begin, begin + k, end)` is undefined behaviour. It is modelled
as the outcomes libstdc++'s heap-select can produce: stale entries or
uninitialised slots (`NoKey`) among the first places.

**Data is abstracted.** A vector is a model value with a distance to the
query. A snapshot file is the set of entries, or the size, it holds.

**Split operations in CheckpointManager.**
- `create_checkpoint` holds `mutex_` from start to end. It takes the shard's
  lock twice: once for `save`, once for `size`. So it is two steps,
  `CreateSave` and `CreateRecord`.
- A failed save throws. The exception is caught by `checkpoint_loop`, or
  reported to the user thread as a `false` return (`ret`).
- `cleanup_old` is part of `CreateRecord`.
- `Restart` is a process restart at any point, also between `CreateSave`
  and `CreateRecord`: a new manager over a fresh shard, with an empty
  `checkpoints_` (it is never persisted, spec 6) and the files left on disk.

**The abstract checkpoint store.** `CheckpointStore` is the list alone:
`Create(n)` appends a record with the id after the newest one and keeps the
newest `max_checkpoints` records; `Forget` empties it. `CheckpointManager`
instances it with the identity mapping on the list (`ImplementsStore`):
`CreateRecord` is `Create`, `Restart` is `Forget`, every other step leaves
the list alone. That `CreateSave` and `CreateRecord` act as one creation
rests on `mutex_`: it is held from the id's allocation to the push_back.

**The strategy and reopening in DistributedIndex.** The strategy is chosen in
the initial state from `Strategies` and never changes, as the constructor
takes it. `Reopen` is example_05_persistence building a new cluster over
the same files: empty shards and a round-robin counter of 0, with no call in
progress; `load_all` then reads the files back.

**Program composition in DetectorClients.** A program is a sequence of
instructions run by the main thread: example_02's add_node, start, three
rounds of heartbeats and sleeps, the "node2 failure" and a 4 s sleep, stop;
or ProductionCluster's constructor (one add_node per shard, start), its
smart_search calls (the ProductionCluster actions) and its destructor
(stop, join). The detector thread and the clock run beside it. One tick is
500 ms. Calls take microseconds, so the clock advances only while the main
thread is blocked (in sleep_for, or in the join of stop) and the detector
thread is not due: `Tick` is guarded by `MainBlocked /\ DetectorIdle`.

**The EMA.** `avg_latency_ms` is kept exactly as `num / 10^n`, where `n`
counts the updates folded in. Scores are compared as integers scaled by a
common power of ten. Double rounding is not modelled.
- `EndLoad` is the fetch_sub together with the load of `avg_latency_ms`.
  The load changes nothing. The race it takes part in, another call's
  store landing between this load and this store, stays in the model
  because `EndStore` is a step of its own.
- `EndStore` is the store.

**select_shard is one step per atomic load.** `SelectBegin` takes `mutex_`
and sets `best_shard = 0` and `best_score = DBL_MAX`. `LoadActive` loads a
shard's `active_requests`. `LoadLatency` loads its `avg_latency_ms`, computes
the score and compares it. `SelectEnd` returns and releases the lock.
`mutex_` only orders `select_shard` calls among themselves.
`RecordStart`, `EndLoad` and `EndStore` do not test it, so they interleave
with every step of a scan.

## Runs

| Run | Expect | Checks | Shows |
|---|---|---|---|
| `sharding_reference` | pass | RangesPartition, RangeShardIdIsReference | Range layout partitions `[0,total_keys)`; `shard_id` equals a closed form, up to 4 shards, `total_keys` up to 9 and keys up to 11 (empty ranges, remainders, fallback) |
| `di_pass` | pass | TypeOK, PlacementByStrategy, MergeReturnsTopK | 2 clients, 2 shards, hash or round-robin: under hash no key ever sits on a foreign shard, also through save_all/load_all with I/O failures and reopening; every search returns `min(k, distinct keys)` results in ascending distance, also when round-robin put a key on both shards |
| `di_batch_failure_dropped` | violation | AddBatchReportsFailure | an add_batch whose entry the engine refuses (a key already present) still returns `true` |
| `di_fanout_race` | violation | FanOutCoversTargets | a late search task queries the shard of a later iteration: one shard is searched twice, another not at all |
| `di_partial_sort_ub` | violation | SearchResultGenuine | with fewer distinct results than `k` the returned results can include entries no shard returned |
| `fd_pass` | pass | FailureCountAtMostOne, SuspectedOnlyAfterTimeout | `failure_count` never exceeds 1; a node is suspected only when its heartbeat is strictly older than the timeout |
| `detector_clients` | violation | HealthyNodesStayAlive | example_02 stops heartbeating every node, not only node2, so node1 and node3 are marked not alive about 1.5 s into its 4 s sleep (about 3 s into the program); the cluster of example_05 alone passes |
| `cp_pass` | pass | RetainedFilesExist, RetainedOrdered, StopReturns, ImplementsStore | with both threads creating checkpoints, failing saves, a writer, the rebinding and restarts, the retained list is short and ordered by id, every retained file exists, stop() returns under fairness, and the list behaves as the abstract CheckpointStore |
| `cp_roundtrip` | violation | RestoreRoundTrip | a write between `save` and `size` makes the recorded count differ from the file, so a successful restore does not give the recorded size |
| `cluster_pass` | pass | ActiveMatchesInFlight | 3 concurrent requests on 2 shards, with `select_shard`'s loads interleaved: `active_requests` counts the requests in flight |
| `cluster_select_stale` | violation | SelectIsLeastLoaded | a request starts on a shard after the scan loaded that shard's count, so `select_shard` returns a shard that no longer has the least score |
| `cluster_ema_lost_update` | violation | EmaCountsEveryRequest | two concurrent `record_request_end` calls on one shard lose one latency from the EMA |

Every property of a passing run has a mutant in `PROJECT.json`: a plausible bug
in the mapped code that TLC must catch under the run's own configuration.
Examples:

- the range remainder dropped;
- the round-robin modulus dropped;
- `>=` for `>` in the timeout;
- the loop test of `checkpoint_loop` ignoring `running_`;
- `create_checkpoint` without its lock_guard;
- the is_alive test dropped;
- the files of the newest records evicted;
- the next id taken from the list length;
- the fetch_sub dropped.

### Bounds and why they suffice

- **Sharding**: inputs go up to 4 shards, `total_keys` up to 9 and keys
  up to 11. This covers
  `total_keys < num_shards`, exact and inexact division, and keys past
  `total_keys`.
- **DistributedIndex**: 2 clients, 2 shards, 3 keys, 2 vectors, hash or
  round-robin, and at most 3 calls. With these, each of the following
  occurs:
  - a batch spans both shards;
  - a search overlaps an add, a save or a load;
  - `k` exceeds the number of distinct results;
  - `n_probe = 0` takes the clamp.
- **FailureDetector**:
  - A tick is 500 ms, so the 1000 ms timeout and the 1 s detection period
    are 2 ticks each.
  - 12 ticks allow four scans and more than three consecutive misses.
  - Two nodes let a heartbeat of one interleave with the scan of the other.
- **DetectorClients**: example_02 on its three nodes with its 1000 ms
  timeout (2 ticks), and the cluster of example_05 on 2 shards with 2
  searches and its 3000 ms timeout (6 ticks). The clock stops at 14 ticks,
  past the 11 ticks example_02 sleeps in total.
- **CheckpointManager**: `max_checkpoints = 2`, and 4 calls give three
  creations and one eviction. Both threads, a writer, the rebinding, I/O
  failures and restarts are enabled.
- **ProductionCluster**: 3 requests on 2 shards. So two requests can be
  inside `record_request_end` on one shard while a third selects, and a
  request can start or end between two loads of a scan. Latencies of 0 and
  2 ms make scores tie and differ.

### Fairness

Only `cp_pass` assumes fairness, for its liveness property `StopReturns`
(stop() returns). The code runs its threads on the OS scheduler and ends
every `sleep_for`, so a runnable thread eventually runs. `FairSpec` assumes
weak fairness of exactly the steps of threads the code has started:
- the background thread's loop test and wake-up (`LoopCheck`, `Wake`);
- each thread's `CreateSave` and `CreateRecord`, once it is inside
  `create_checkpoint`;
- the `join` of `stop()`.

The user's calls, the writer, the rebinding and restarts are choices of the
environment and are not forced. The other runs check safety only.

`Finished` and `Exited` actions let completed behaviours stutter, so
deadlock checking stays on in every run.

## Findings

Runs with `expect: violation`, each recorded in `PROJECT.json`:

1. **Fan-out capture race** (`distributed_examples.cpp:311`). The search
   lambda captures `shard_id` by reference.
2. **partial_sort past end** (`distributed_examples.cpp:333`, and the same
   code at `advanced_distributed.cpp:771`). With fewer results than `k` the
   call is undefined and can return garbage.
3. **Checkpoint snapshot is not atomic** (`advanced_distributed.cpp:323`).
   `save` and `size` run under two separate acquisitions of the shard lock.
4. **EMA lost update** (`advanced_distributed.cpp:449`). The load, compute
   and store are separate atomics.
5. **Stale shard selection** (`advanced_distributed.cpp:424`).
   `select_shard`'s lock does not cover the statistics it reads:
   `record_request_start` and `record_request_end` update them without it.
   The shard it returns may no longer have the least score. Spec 4.4 states
   the minimum and does not say how stale it may be under the concurrent
   calls spec 5 allows, so this is recorded as a gap in the spec.
6. **Batch failure dropped** (`distributed_examples.cpp:283`). `add_batch`
   discards what each group task's `future.get()` returns and returns
   `true`. `ShardNode::add_batch` also returns `true` whatever the engine
   did. Spec 7(b) says per-shard errors are aggregated into an overall
   failure.
7. **example_02 fails every node** (`advanced_distributed.cpp:554`). The
   program says only node2 fails, but its 4 s sleep sends no heartbeat to
   any node. With the 1000 ms timeout, node1 and node3 are marked not alive
   too.

Found by a passing run (`fd_pass`, recorded in `PROJECT.json`):

- **Unreachable failure callback** (`advanced_distributed.cpp:230`).
  `failure_count` is incremented only while `is_alive`, and the same step
  clears `is_alive`, so it never reaches 3. `FailureCountAtMostOne` holds,
  and it is proved for every instance (FailureCountBounded below).

Seen while modelling, but not given a run:

- `add` returns `true` whatever the engine did, like `add_batch`.
- `finish_span` never finds a span, because `start_span` never sets the
  `span_id` tag. No span ever gets a duration.
- The "vectorized" loop of `example_01` writes `n * d` floats into a vector
  of `n`.
- The unrolled loop of `example_01` has no remainder loop, and its
  `if (i + k < n)` guards can never be false. With `n = 1000000`, a
  multiple of 4, the program never reaches the missing tail.
- `sqrt_fast` indexes a table of `sqrt(i/256)` with `x * 16`, and 251 of its
  256 entries are zero.
- `example_04_concurrent_search` in `distributed_examples.cpp` calls one
  `std::mt19937` from 100 async tasks (a data race). It only affects query
  values.

## What is proved

`FailureDetectorProofs.tla` proves the following with TLAPS, for every set of
addresses, timeout, period and clock bound allowed by `DetectorAssumption`.

**`TypeCorrect`**, `Spec => []TypeOK`, rests on two lemmas:
- `TypeInit`;
- `TypeStep`, with one step per action. The Boolean-valued variables are
  proved by Zenon and the arithmetic by SMT.

**`FailureCountBounded`**, `Spec => []FailureCountAtMostOne` (the property
`fd_pass` checks).
- `FailureCountAtMostOne` is not inductive by itself: a scan increments the
  count of any alive node. It is proved through the inductive invariant
  `IInv == TypeOK /\ CountMatchesAlive`. `CountMatchesAlive` says an alive
  node has count 0 and a node marked not alive has count exactly 1.
- Scan increments only alive nodes and clears `is_alive` in the same step.
  AddNode and Heartbeat set `is_alive` and reset the count together. The
  other actions touch neither.
- The proof has three steps: `Init => IInv`, `IInv /\ [Next]_vars => IInv'`
  (one step per action, Scan split on whether the node is suspected), and
  `IInv => FailureCountAtMostOne`.

**`SuspicionJustified`**, `Spec => []SuspectedOnlyAfterTimeout` (also checked
by `fd_pass`).
- With `TypeOK` the property is inductive.
- AddNode and Heartbeat only mark nodes alive.
- Scan suspects only a node with `now - last > timeout`.
- Tick increases `now` and no action moves `last_heartbeat` back.

`CheckpointManagerProofs.tla` proves the following for every
`max_checkpoints`, size bound and call bound allowed by
`CheckpointAssumption`, with I/O failures, both threads, the writer, the
rebinding and restarts.

**`RetainedOrderedHolds`**, `Spec => []RetainedOrdered`, and
**`RetainedFilesExistHolds`**, `Spec => []RetainedFilesExist` (both checked
by `cp_pass`). Neither is inductive alone. The inductive invariant `IInv`
adds:
- `Sorted`: the ids increase between any two positions, not only between
  neighbours. `cleanup_old` removes the files of a prefix, and the files of
  the suffix it keeps must be different ones. Pairwise order gives that with
  no induction over the list.
- `LockDiscipline`: `mutex_` is held exactly by a thread between its save and
  its record, and that thread's id is `NextId(list)` and its file is on
  disk. So the new record's id exceeds every id in the list.
- the type of `pc` as a function.

The step proof has one lemma per group of actions:
- `QuietStep`, for the actions that leave the list, the files and `mutex_`
  alone;
- `CreateSaveStep`: save runs only with `mutex_` free, so no thread is
  between its save and its record;
- `CreateRecordStep`: the appended list is sorted, and `cleanup_old` keeps a
  suffix whose ids differ from the removed ones;
- `RestoreStep` and `RestartStep`.

The list lemmas are `RetainedLemma` (what `cleanup_old` leaves), `NewestLemma`
(it equals the abstract `Newest`) and `NextIdNat`. They rest on
`AppendProperties` and `ElementOfSeq` of `SequenceTheorems`.

**`Refinement`**, `Spec => ImplementsStore`, that is `Store!Spec` (checked by
`cp_pass` too):
- `Init` maps to the abstract `Init`.
- `RefineStep`: under `IInv`, every step is a step of the store or leaves the
  list alone. `CreateRecord` is `Create(size[target])`: `LockDiscipline`
  makes its id the abstract `Fresh(list)`, and `NewestLemma` makes its
  cleanup the abstract `Newest`. `Restart` is `Forget`.

`ProductionClusterProofs.tla` proves **`ActiveCountCorrect`**,
`Spec => []ActiveMatchesInFlight` (checked by `cluster_pass`). It holds for
every number of shards, every finite set of concurrent requests
(`IsFiniteSet(Requests)` in `ClusterAssumption`) and every set of latencies.
- The inductive invariant is `ActiveMatchesInFlight` with the types it
  needs (`CountTypes`). `active_requests` cannot be typed as a natural
  number on its own: the fetch_sub of `record_request_end` subtracts 1, and
  only the count says the counter is positive then.
- `MoveStep` covers the steps that move a request between two stages both
  inside or both outside the in-flight stages. No request changes shard
  while in flight.
- `RecordStartStep` adds the request to its shard's in-flight set
  (`FS_AddElement`). `EndLoadStep` removes it (`FS_RemoveElement`).
- The steps of `select_shard` change only its loop locals, `mutex_` and,
  at its end, the shard of a request that is not yet in flight. So they
  fall under `MoveStep`.

`DistributedIndexProofs.tla` proves three theorems for every number of
shards, set of keys, vectors, clients and call bound allowed by
`ConstantsAssumption`. They hold with engine and I/O failures and any
interleaving of the clients and their `std::async` tasks.

**`PlacementHolds`**, `Spec => []PlacementByStrategy` (checked by `di_pass`).
- The property is not inductive. A `GroupKey` step puts an entry in an
  add_batch group, and the group's task later moves it to the shard.
- The inductive invariant `IInv` adds `Placed`: under hash and range
  sharding, every add_batch group `groups[c][s]` holds only entries that
  `shard_id` routes to `s`, besides the shards and their files. `ShapeOK`
  adds the function shapes.
- `ShardIdIgnoresCounter`: hash and range sharding ignore the round-robin
  counter, so the counter value an action fetched does not matter.
- `AcceptsSubset`: the engine accepts only entries it was given.
- One lemma per kind of step:
  - `AddStep` and `BatchTaskStep` add routed entries to a shard;
  - `GroupKeyStep` adds one to a group;
  - `CopyStep` covers `SaveOk` and `LoadOk`, which copy a shard to its own
    file and back;
  - `ReopenStep` empties the shards;
  - `FrameStep` covers the rest, some of which clear a client's groups.
- No lemma needs the range of `ShardIdOf`. An update at an index outside
  the shards changes nothing.

**`TypeCorrect`**, `Spec => []TypeOK` (checked by `di_pass`).
- The inductive invariant `TInv` adds two things to `TypeOK`:
  - `BatchShape`;
  - `FiniteOK`: shards, files, groups and search answers are finite sets.
- Finiteness is needed for the merge. `Enumerate` picks a listing of the
  deduplicated answers, and only a finite set has one (`EnumerateType`, from
  `FS_NatBijection` and `FS_CountingElements`).
- `GroupKey` takes the least key of the batch. `LeastIn` shows it exists,
  with `WFMin` and `NatLessThanWellFounded`.
- `ResultsFinite` and `UnionFinite` show that the answers of a search are
  finite. Each builds a surjection from `1..n` onto the set. The library's
  `FS_Image` takes an operator parameter, which the provers cannot
  instantiate.
- `MergeType` shows every outcome of the merge is a sequence of results.
  That includes the reads past the end that yield `NoKey` slots.
- There is one lemma per action, and `TInvStep` combines them.

**`MergeReturnsTopKHolds`**, `Spec => MergeReturnsTopK`, an action property
(checked by `di_pass`).
- `DedupCardinality`: `std::unique` by key leaves as many entries as there
  are distinct keys. Mapping each entry to its key is a bijection, and
  `FS_CountingElements` counts both sets.
- `MergeTopK`: `SortedPrefix`'s outcome has length min(k, that number) and
  ascending distances.
- The theorem follows from `TInv`, which gives finite answers and a natural
  `k`, by PTL.

`ShardingProofs.tla` proves the two invariants of `sharding_reference` for
all parameters. TLC checks them up to 4 shards and 11 keys.
- **`RangesPartitionAll`** and **`RangeShardIdClosedForm`** state them for
  every `num_shards > 0`, `total_keys` and key.
- **`RangesPartitionHolds`** and **`RangeShardIdIsReferenceHolds`** derive
  `Spec => []RangesPartition` and `Spec => []RangeShardIdIsReference`.
- The argument is arithmetic on `kps = total_keys / num_shards`:
  - `DivSlice` and `SliceUnique`: with `kps > 0`, the one slice
    `[j*kps, (j+1)*kps)` holding a key is `j = key / kps`;
  - `LastStart`: `num_shards * kps <= total_keys`, so the last range starts
    at or below `total_keys`;
  - with `kps = 0`, every range but the last is empty.
- `HomeInRange`, `OnlyHome` and `NoRangePast` give the set of ranges
  holding a key: `{Home}` below `total_keys`, none past it. `shard_id`'s
  first hit is then the closed form.
- The operators have no recursion, so no induction is needed.

Some things stay with TLC:

- **Induction over data.** The provers cannot do induction over data, so
  no module declares a RECURSIVE operator. Loops are steps of their own
  (`select_shard`'s scan, the grouping and launch loops) or closed forms
  (`Sharding`). With that, every safety property of a passing run is
  proved.
- **Programs and violations.** The properties of `DetectorClients` and the
  violated properties of the other runs are model-checked only. Each
  violation is a counterexample trace, not a theorem.
- **Liveness.** Liveness and `ENABLED` are out of TLAPS's reach, so
  `StopReturns` is only model-checked.

## Not modelled

- **Timer, printing, `print_stats`, `print_trace`, `export_json`**: output
  only.
- **The other example drivers**: `DetectorClients` runs example_02 and
  example_05 as programs, and `Reopen` is example_05_persistence. The
  remaining drivers are sequential. They fill the index with random vectors,
  search and print. They only choose the instances the MC modules mirror,
  such as `max_checkpoints = 2`, and the nondeterministic clients of each
  module already cover their calls. One is `example_03_checkpoint_recovery`,
  whose create, rebind and restore sequence `CheckpointManager`'s user
  thread already makes.
- **`FailureDetector::start` on a joinable thread** (`std::terminate`).
  No driver calls `start` twice or after a `stop` that has not joined. The
  model's `Start` requires the thread to be gone.
- **`handle_node_failure`**: unreachable, by FailureCountBounded. It also
  changes no state.
- **`complete_examples.cpp`**: calls into the USearch library with
  sequential drivers. Its one concurrent example has threads that only
  search a read-only index.
- **optimization_examples.cpp**: single-threaded timing loops whose results
  are discarded, calls of the library, and `sqrt_fast`'s table lookup. They
  have no concurrency and no state a property would tell apart. The two
  defects of `example_01` are listed under "Findings" as seen while
  modelling.
- **USearch itself**: the engine is abstracted to "the `k` nearest entries;
  duplicate keys refused".

## Plan for later work

- A refinement of the merge's outcomes onto an abstract top-k specification.
- A composed cluster with a heartbeat sender, to check that a shard that
  stops heartbeating is eventually suspected, under weak fairness of the
  detector thread.
