# TLA+ models of kv-storage

This directory holds TLA+ specifications of the LSM key-value store in `src/`.
The TLC model checker checks them. Each module is translated from the C++
source, and `PROJECT.json` maps every definition to the lines it models.

## The system

`DataBase` (`src/db/data_base.cpp`) owns three parts and two daemon threads.

* **StorageBuffer** (`storage_buffer.cpp/.h`) holds two skip lists, an income
  buffer and a flush buffer, under one mutex.
  * `Add` inserts into the income buffer.
  * Once `income_size_ > buffer_size_`, and only if the flush daemon has said
    it is idle (`flush_thread_ready_`), `Add` swaps the buffers and notifies the
    flush event.
  * `Get` looks in the income buffer, then in the flush buffer.
* **StorageEngine** (`storage_engine.cpp/.h`, `file.h`) keeps the segment files.
  * `files_map_` maps a file id to its file.
  * `level_files_` lists the files of each level, ordered by lower bound.
  * `file_id_` is the last id handed out.
  * A read/write lock guards these three.
  * The constructor rebuilds the maps from the data folder.
  * `AddFile` registers a flushed level-0 file. It notifies the compaction
    event when level 0 holds more than `level0_files_number_limit_` files.
  * `Compact(level)` works as follows:
    1. It snapshots `level_files_` and checks the level against
       `limit * 10^level`.
    2. It picks the first file of the level. On level 0 it also takes the chain
       of overlapping files, and it adds the overlapping files of the next
       level.
    3. It moves a single file down (`TrivialMove`), or merges several
       (`NWayCompaction`).
    4. It replaces the inputs by the outputs (`UpdateMapAfterCompaction`).
    5. It recurses: `Compact(level); Compact(level+1)`.
  * `NWayCompaction` drops tombstones and cuts its output whenever the content
    exceeds the buffer size.
* **Event** (`event.h`) is a condition variable with no flag. A `Notify` when
  nobody waits is lost.
* **Flush daemon** (`ProcessingLoopFlushBuffer`) repeats these steps:
  1. Mark itself idle.
  2. Wait until a buffer is ready.
  3. Write it as a new level-0 file (`NewWritableFile`, `FlushBuffer`).
  4. Clear the flush buffer.
  5. Put the file's key → offset table in the LRU cache.
  6. Register the file with `AddFile`.
* **Compaction daemon** (`ProcessingLoopCompact`) waits on its event and runs
  `Compact(0)`.
* **`DataBase::Get`** tries two sources in order:
  1. The buffers.
  2. The files that may contain the key, under the read lock: level by level,
     newest first within a level. It uses the LRU index cache
     (`structure/cache.cpp`) or `LoadKeyOffset`.
* **`ShutDown`** sets `is_stop_`, notifies both events and joins both daemons.

The parts below the database are:

* **SkipList** (`structure/skip_list.h`, `random.h`) is LevelDB's skip list
  over encoded entries. Its comparator compares user keys only. An `Insert` of
  a key already present replaces the node's entry. Node heights come from a
  Lehmer generator with the fixed seed `0xdeadbeef`. Every list therefore gets
  the same height sequence: 2, 1, 1, 1, …
* **Coding** (`util/coding.cpp`) provides the varint32 and fixed32 codings that
  every entry, header and index record is written with.
* **Segment file format.** `StorageBuffer::Flush` writes:
  1. the lower and upper key records;
  2. a fixed32 `index_offset`;
  3. the entries;
  4. one index record (key, varint offset) per key, in `unordered_map`
     iteration order.

  Four functions read the format back: the `File` constructor,
  `LoadKeyOffset`, `GetValueByOffset`, and `ExtractEntry` inside
  `NWayCompaction`.
* **ReadWriteLock** (`structure/read_write_lock.h`) is StorageEngine's lock: one
  counter and one condition variable.
* **LRUCache** (`structure/cache.cpp`) is the index cache: a map plus a doubly
  linked recency list, with every method under one mutex.
* **ThreadPool** (`structure/thread_pool.h`) runs the tasks of the
  multithreaded test and of the benchmarks. It has:
  * a queue and a condition variable;
  * an unlocked `stop_requested_` flag;
  * `BlockUntilAllTaskHaveCompleted`, which polls `queue_.empty()`.
* **ConcurrentQueue** (`structure/concurrent_queue.h`) is a locked
  `std::queue` with a `size_` counter that `size()` and `empty()` read without
  the lock. The tests and the benchmark client collect task results in it.
* **The network front end.** The benchmark client (`benchmark/client_main.cpp`)
  runs rounds of `ClientTask`s on a ThreadPool. Each task sends one request
  and pushes its delay onto a ConcurrentQueue, and main drains that queue after
  each round. The server (`db/server_main.cpp`) hands each readable connection
  to a `NetworkTask`, which parses each `recv()` result as one request and calls
  `DataBase::Get` or `DataBase::Add`.

## Modules

| module | models |
|---|---|
| `KVStore` | The abstract store the database promises: a map from keys to values or `Absent`, the number of writes applied, and the number of times the store was reopened after its process died. |
| `LSMStore` | StorageBuffer, the two daemons, Event, `DataBase::Add/Get/ShutDown` and the StorageEngine bookkeeping, with the data folder on disk, a crash at any step and the constructor's recovery of the folder. |
| `RWLockSpec`, `ReadWriteLock` | The atomic reader/writer lock, and `ReadWriteLock`'s condition-variable implementation of it. |
| `LRUSpec`, `LRUCache` | The LRU order of the cache, and `LRUCache`'s pointer-level list. |
| `OrderedMap`, `SkipList` | The ordered map with an iterator that the buffers need, and the skip list's pointer structure with its exact height generator. |
| `MemoryArena` | The bump allocator `Memory` the skip list draws its entries and nodes from, as operators over an arena record. |
| `Coding`, `CodingRoundTrip` | The coding functions as operators, and their comparison with an LEB128 reference. |
| `SegmentFormat` | The byte format: the writer `Flush`/`FlushBuffer` and the four readers. |
| `ThreadPool` | `ProcessingLoop`, `AddTask`, `BlockUntilAllTaskHaveCompleted` and `Stop`. |
| `ConcurrentQueue` | `push`, `pop` and the unlocked `empty()`, as operators over the queue and `size_`. |
| `BenchmarkClient` | The composition of `ThreadPool` and `ConcurrentQueue` that `client_main` runs: rounds of tasks, Block, the drain of the delay queue, then `Stop`. |
| `RequestProtocol` | The request bytes `ClientTask::Run` encodes, and `NetworkTask::Run`'s parse of one `recv()` result. It extends `SegmentFormat` and builds its requests from that module's keys and values. |
| `MC*` | The model values and small sets each run uses. |

### LSMStore

Data is abstracted to what the properties tell apart:

* A key is an integer, in the order of its byte string.
* A value is a model value, and the tombstone is `Tomb`.
* A buffer or a segment is a key → value map.
* One encoded entry counts one unit of `income_size_` and of a merge's
  `content_size`.

How those maps are laid out in bytes is the subject of `SegmentFormat`, and how
they are kept in memory is the subject of `SkipList`.

| variables | code |
|---|---|
| `income`, `incomeSize`, `flushBuf`, `flushReady`, `flushThreadReady` | the StorageBuffer fields |
| `files`, `levels`, `fileId` | `files_map_`, `level_files_`, `file_id_` |
| `disk` | the data folder: the files on disk, by id, with their level and data |
| `cdel` | the inputs the release loop of `UpdateMapAfterCompaction` has still to unlink, in order |
| `restarts` | how often the process has died and the folder been reopened |
| `isStop` | `is_stop_` |
| `fpc`, `pending` | the flush daemon's place in its loop, and the file it has written but not yet added |
| `cpc`, `cstack`, `cset`, `couts` | the compaction daemon's place; the pending `Compact` calls (the recursion as a stack); `compact_files`; `compacted_files` |
| `rpc`, `rkey`, `rres` | each reader's phase, key and result |
| `kv`, `writes`, `rseen`, `rpath` | history: what the callers wrote; the number of `Add` calls; the values a key held while a Get ran; whether the Get's buffer lookup fell in the flush window |

There is one action per step of the code:

* `Add`.
* `GetBuffer` and `GetDisk`.
* `ShutDown`.
* The flush daemon: `FlushLoopTop`, `FlushCheck`, `FlushWait`,
  `FlushSpuriousWakeup`, `FlushOpen`, `FlushWrite`, `FlushClear` and `FlushRegister`.
* The compaction daemon: `CompactLoopTop`, `CompactWait`,
  `CompactSpuriousWakeup`, `CompactWoken`, `CompactSkip`, `CompactPick`,
  `TrivialMove`, `NWayCompaction` (`NWayOpen`, `NWayWrite`, `NWayDone`), `CompactUpdate` and `CompactUnlink`.
* `Restart`: the process dies between any two steps and a new `DataBase` is
  opened on the folder.

The data folder is a variable of its own, so that a crash can fall between
writing a file and registering it:

* `FlushOpen` is `NewWritableFile`: its `fopen` puts an empty file in the
  folder. `FlushWrite` is `FlushBuffer` up to the `fclose` in
  `StorageBuffer::Flush`, which gives the file its bytes. `FlushRegister`
  adds it to the maps.
* `TrivialMove` renames the file in the folder; `CompactUpdate` updates the
  maps.
* `NWayCompaction` writes its outputs one `FlushCompactedFile` at a time:
  `NWayOpen` opens the next one (an empty file), `NWayWrite` writes and
  closes it, and `NWayDone` ends the merge when every batch is written.
  `CompactUpdate` updates
  the maps and hands the inputs, in `compact_files` order, to the release
  loop. `CompactUnlink` unlinks them one per step.
* `Restart` drops every buffer and daemon state, and runs the constructor on
  the folder: `files` is the folder less its torn files (or the reopen
  faults, see below), `levels` any sorted order of it, and
  `fileId` its largest id. The callers' map `kv` becomes what the reopened
  store reads.

A file the crash catches between its `fopen` and its `fclose` is torn: its
bytes were still in the stdio buffer. `Torn` is the set of such files; file
bytes are abstracted, so a torn file holds no key. The reopen then takes one
of two outcomes (`file.h:63-98`):

* an empty file gives `mmap` of size 0, which fails, and `File`'s constructor
  reads the header at `MAP_FAILED`: the reopen faults (`reopenFault`);
* a file cut short after its header loads, but its index offset lies past its
  end, so none of its keys is found: the reopen leaves it out of `files`.

`fclose` puts the bytes where a process crash cannot lose them (an OS crash,
which would need `fsync`, is not modelled).

Locking is modelled like this:

* Each write-locked section of StorageEngine is one action, and so is each
  read-locked lookup. `ReadWriteLock` shows the lock gives this atomicity.
* `Event::Notify` (`WakeFlush`/`WakeCompact`) wakes a daemon only if it is in
  state `waiting`. A daemon in `presleep`, which has tested its condition but
  not yet waited, misses the notify.

`Init` is the state after the constructors:

* The data folder is the recovered `InitFiles`.
* Each level is in any `std::sort` order by lower bound. `std::sort` is not
  stable, so files with equal lower bounds may come in any order.

The LRU cache is left out of the read path. Ids are never reused and a cached
table is the file's exact table, so a lookup through it finds what the file
holds.

### ReadWriteLock

* `stat` is the code's counter.
* `pc` gives each thread's point in `ReadLock`, `WriteLock` or the unlocks, or
  its place in the condition variable's wait set.
* `NotifyOne` and `NotifyAll` move waiters out of the wait set. A woken thread
  re-runs its `while` test.
* The refinement maps each thread to `none`, `read` or `write` in `RWLockSpec`.

### LRUCache

* The state is `m`, `val`, `count`, and `nx`/`pv` for every node, with the
  `head`/`tail` sentinels.
* `DetachNode` and `InsertToFront` perform their pointer writes in the code's
  order.
* The refinement maps the list walked from `head` to `LRUSpec`'s recency
  order.

### SkipList

* Node 0 is `head_`, and node *i* is the *i*-th node allocated.
* `next[n][l]` is `next_[l]`. The other variables are `max_height_`, the
  generator's `seed_`, and the iterator's `node_`.
* `Random::Next` is computed exactly in 31-bit arithmetic. Its 46-bit product
  is split into halves.
* `FindGreaterOrEqual` is a recursive operator that also returns `prev[]`.
  Levels that the code leaves uninitialised are `Nil`.
* `Insert` takes one of two branches:
  * the overwrite branch, when an equal key is present;
  * `RandomHeight`, raising `max_height_`, and the splice loop.
* The refinement maps the level-0 list to `OrderedMap`'s map, and `node_` to
  its iterator key. A `call` history variable makes every call visible to the
  abstract specification.
* Each skip list has its own `Memory` arena (`mem`). `Insert` allocates the
  encoded entry with `Allocate` (what `StorageBuffer::Add` does before it
  calls `Insert`), and a new node with `AllocateAligned`. The history `regions`
  records every region handed out. Key and value sizes are constants, chosen
  so that entries of 10 and 1972 bytes take every path: the bump, a fresh
  4096-byte block for a small request, and a dedicated block for a request
  above a quarter block.

### Coding and SegmentFormat

* A byte string is a sequence of numbers in 0..255. A position counts the bytes
  before it.
* Shifts keep `uint32_t` semantics (`Shl32`).
* Each state of `SegmentFormat` holds two things:
  * one content a buffer or a merge can flush: pairs in strictly increasing key
    order, over three byte-string keys and four values;
  * one iteration order of `key_offset`.

  The values are the empty value, a short one, the tombstone's bytes, and a
  130-byte value whose length needs a two-byte varint.
* `File` is the byte string `FlushBuffer` writes for that state.

### ThreadPool

* The pool's fields are `stop`, `queue` and `cur` (`tid_to_task_`).
* `wpc` holds each worker's point in `ProcessingLoop`, and `mpc` holds the
  caller's progress: AddTask*, Block, Stop.
* `added`, `completed` and `dropped` are history variables.
* Each section under `mutex_` is one action. The unlocked read of
  `stop_requested_` at the loop's top, and `Stop`'s unlocked write of it, are
  actions of their own.

### BenchmarkClient and ConcurrentQueue

* `cq` and `csize` are `timedelay_queue`'s `queue_` and `size_`. `cpc` is
  main's point after Block (the drain loop), and `round` is the test round.
* `ClientRunTask` is the pool's `RunTask` together with the task's `push`:
  `ClientTask::Run` ends with the push, and its socket traffic changes no
  modelled state. The delay stands for the task that pushed it.
* `push` and `pop` each run under the queue's lock and are one step. `empty()`
  is read without the lock, but only main reads it and only main pops. A read
  in the middle of a worker's push therefore sees what a read before it sees.
* The assert at line 216 is compiled out (an `NDEBUG` build) and changes no
  state.

### RequestProtocol

* `buffer_recv` is the received bytes followed by what the buffer held before.
  A client connection carries one request, so that is uninitialised stack
  memory: a choice among `StaleFills`.
* `ParseRequest` follows `NetworkTask::Run` branch by branch. It returns the
  DataBase call it makes, or `exit` for each `exit(1)`. The size checks compare
  `message_size - (p - buffer_recv)`, a signed 64-bit value, with a `uint32_t`
  size that widens to it (`Remaining`).

## Runs

| run | expect | what it shows |
|---|---|---|
| `lsm_core` | pass | `TypeOK`, `NoEmptySegment` and `LevelsDisjoint` hold; `KVRefinement` holds from this folder, whose deepest level is 1 (`tomb_resurrect` shows it fails when a deeper level holds the key); and `RestartRecoversCommitted`: a crash at any step outside the merge's unlink loop loses nothing silently. Every torn file is one a daemon was writing, and a reopen that does not fault reads every key as the running store held it on disk. Starts from a folder whose level 0 is one file over its limit, with 2 writes and one crash. |
| `lsm_reads` | pass | `GetLinearizableOutsideFlushWindow`: a Get outside the flush window returns a value its key held while it ran; the action property `NoSwapWhileDraining`: no swap replaces a flush buffer still to be flushed. From an empty folder, with 4 writes. |
| `get_stale_read` | violation | `GetLinearizable`: a Get between `ClearFlushBuffer` and `AddFile` misses a completed write. |
| `tomb_resurrect` | violation | `KVRefinement`, from a folder with a level-2 file: a merge into level 1 drops the tombstone, and the old value comes back. |
| `flush_lost_wakeup` | violation | `FlushEventuallyRuns`: `Add`'s notify lands before the flush daemon waits and is lost. |
| `crash_resurrect` | violation | `RestartRecoversDurable`: a crash inside the merge's unlink loop leaves an older level-0 delete on disk that hides the merged value. |
| `rwlock` | pass | `TypeOK`; `RWLockRefinement`; `NoLostWakeup`. Three threads. |
| `lru` | pass | `TypeOK`; `ListWellFormed`; `LRURefinement`. Capacity 2, three ids, so evictions happen. |
| `skiplist` | pass | `TypeOK`; `LevelsSorted` (every level sorted, nested, nil-terminated, and `max_height_` exact); `RandomIsLehmer`; `OrderedMapRefinement`; `AllocationsDisjoint` (every region the arena hands out lies in one of its blocks, no two overlap, and `blocks_memory_` is the blocks' total); `NodesAligned` (every node is at a multiple of 8). Four inserts. |
| `segment` | pass | The four coding properties (`EncodeMatchesLEB128`, `VarintLengthMatches`, `DecodeInvertsEncode`, `TruncatedRejected`), plus `BoundsParsed`, `EntryStreamMatches` and `IndexLocatesValues`. Two request properties are checked over the same keys and values. `ServerParsesClientRequests`: a whole request is parsed into exactly the call the client asked for. `PartialRequestRejected`: every strict prefix of a request, followed by any stale bytes, ends in `exit(1)` and never in a DataBase call. |
| `threadpool` | pass | On `MCBenchmarkClient`: `ClientTypeOK`; `EachTaskOnce` (a task is in exactly one place); `EveryTaskCompletes`; `PopOnNonEmpty` (main's drain pops only from a non-empty queue while late tasks still push). Two workers, two rounds with two tasks and then one. |
| `threadpool_stop_hang` | violation | `StopCompletes`: `Stop`'s notify_all misses a worker between its stop test and `cv_.wait`, and the join hangs. |

`KVRefinement` maps the store to `KVStore`:

* What a key reads as is `View(k)`. It consults the buffers, then the file that
  is written but not yet added, then the levels.
* `applied` maps to `writes`, and `opened` to `restarts`.
* `KVStore`'s `Reopen` lets the map change to anything: what a reopen gives
  back is stated by the restart properties below, not by the refinement.

Every flush, swap, move, merge and `AddFile` must therefore leave every view
unchanged, and every `Add` must change exactly its key.

The restart properties compare, at the `Restart` step, what each key reads as
after the constructor with `DurableLookup(k)`: what the running store held on
disk for it (its levels, under the flush file written but not yet added).

* `RestartRecoversDurable` asks this of every crash whose reopen does not
  fault. It fails (`crash_resurrect`).
* `RestartRecoversCommitted` asks, of a crash outside the release loop with
  no orphan file in the folder, that every torn file is one being written
  when the crash came, and that a reopen that does not fault reads every key
  back. It holds (`lsm_core`). So the flush order (write, clear, add), the
  rename before the map update, and closing each merge output before the
  inputs are unlinked lose nothing silently. They are not crash-safe: a
  crash while a file is open leaves a torn file, and if that file is empty
  the reopen faults. Only a store that reopens is covered.

The runs follow the store up to its reopen (`CONSTRAINT BeforeReopen`): what a
store opened on a folder does next is what every run starting from
`InitFiles` checks.

The coding properties are checked on two sets of values:

* 0..300;
* the values around every power of two from 2^7 to 2^30, and the top of TLC's
  integer range.

The lengths of the current state's entries are checked too. TLC evaluates the
constant part once.

### Bounds

* **LSM.** The settings are:
  * two keys;
  * two values plus `Tomb` (one value in `lsm_core`, where a put and a
    delete are still told apart);
  * `BufferSize = 1`, so the second entry swaps;
  * `Level0Limit = 1`, so a second level-0 file compacts;
  * 2 to 4 writes;
  * at most one crash.

  `lsm_core` starts from `Level0AtLimit`: a folder left by a run that died
  after an `AddFile` put a second file on level 0 and before the compaction
  it notified, with a key-1 file and a delete of key 2 on level 0 and key 2
  on level 1. Either a spurious wakeup or the flush of the 2 writes starts
  `Compact(0)`, which moves the key-1 file down on its own and leaves the
  delete alone on level 0, exactly at its limit, for the next `Compact(0)` to
  skip: the boundary of the `<=` test at `storage_engine.cpp:155`. A flushed
  key-2 write then merges with the delete and the level-1 file. The crash can
  fall at every step of both. `crash_resurrect` starts from `Level0Backlog`,
  with a third level-0 file (a newer key-2 file over the delete), so that its
  merge has inputs to unlink in an order that matters. `lsm_reads` starts
  from an empty folder with 4 writes.

  That is enough for:
  * two swaps and two flushed level-0 files;
  * a trivial move and a merge with a level-1 file, with their unlink loop;
  * level-0 chains and bound tests over overlapping and disjoint files.
* **SkipList.** The seeded generator gives the first new node height 2, so the
  runs cover:
  * searches that descend from level 1;
  * raising `max_height_`;
  * the `prev[i] = head_` branch;
  * the overwrite branch.

  A height of 3 first appears at the 17th new node, out of reach of an
  exhaustive run. The invariants do not depend on the height values.
* **Segment.** The values cover the empty value, the tombstone, a value of the
  tombstone's length, and a two-byte varint length. Keys differ in length and
  share a prefix.
* **ThreadPool.** Two workers and two tasks are enough for a notify_one to meet
  a busy worker, and for a spurious wakeup beside a notify. The benchmark
  client adds a second round with one task. A first-round task can then still
  run, and push its delay, while main drains the queue in either round.
* **RequestProtocol.** The requests are every order over every pair of the
  segment state. They include a key whose size varint is followed by a
  two-byte value-size varint (the 130-byte value). Every prefix length is
  tried. The stale bytes are zeros, a small varint that would fit, and a run of
  continuation bytes.

Each property of a passing run has a mutant in `PROJECT.json`. A mutant is a
plausible bug in a mapped definition, and TLC finds it under the run's own
configuration.

## Fairness

* **LSM daemons, lock steps, pool workers.** The LSM daemons (in
  `flush_lost_wakeup`, the one LSM run with a liveness property), the lock's
  own steps and the pool's workers get weak fairness. They are OS threads that run
  whenever they can.
* **Callers.** The pool's caller (`CallBlock` to `StopJoin`) gets weak fairness,
  because the test and the benchmarks run it to the end. The benchmark client's
  main, which drains the queue between rounds, gets weak fairness as well. The callers `Add`,
  `Get` and `ShutDown` of the store get none.
* **Spurious wakeups and crashes.** These get no fairness.

A daemon blocked in `Wait` after a lost notify has no enabled step. The
liveness violations are therefore real hangs, not artefacts of missing
fairness.

## Findings

* **Lost notifies (`flush_lost_wakeup`).** `Event` keeps no flag, so a
  `Notify` that arrives before `Wait` is lost. The same window exists in
  `ShutDown`, where the join hangs, and in `AddFile`'s compaction notify. These
  are recorded as hazards.
* **Stale read (`get_stale_read`).** A Get in the window between
  `ClearFlushBuffer` and `AddFile` misses a completed write.
* **Value lost to a crash in the unlink loop (`crash_resurrect`).** The
  release loop of `UpdateMapAfterCompaction` unlinks the merge's inputs in
  `compact_files` order: the level's files first, newest first on level 0
  (`AddFile` puts a newer file before an older one with the same lower bound),
  then the next level's files. Suppose the process dies after the newer
  level-0 file with key 2 = a is unlinked, and before the older file with the
  delete of key 2 is. The reopened store then finds that delete on level 0,
  above the merged output on level 1, and reads key 2 as not found. Unlinking
  the inputs oldest first would make every prefix of the loop safe.
* **Tombstone dropped (`tomb_resurrect`).** A merge into a non-bottom level drops
  the tombstone, and an older value in a deeper level comes back.
* **Lost stop notify (`threadpool_stop_hang`).** `ThreadPool::Stop` writes
  `stop_requested_` and notifies without `mutex_`, so the notify can be lost
  and `join` hangs.

Noted without a run of their own:

* **Tombstone returned.** A Get of a deleted key returns the tombstone with
  status 0, where `spec.md` says not-found. The unit tests write deletes
  only as a `Put` of `TombValue` (`src/unit-tests/db_operation_task.h:51`) and
  never read a deleted key back. `GetNeverReturnsTomb` states the spec's rule, and any Get of a
  deleted key violates it.
* **A failed unlink.** `compact_file->Delete()` failing is only logged. The
  input stays in the folder and is loaded again on the next open, with the
  effect the crash in the unlink loop has.

* **`BlockUntilAllTaskHaveCompleted`** returns as soon as `queue_` is empty,
  while popped tasks are still running. In `BenchmarkClient`, TLC reaches the
  state where Block returns with both first-round tasks running and
  `timedelay_queue.size()` is 0. So the assert at `client_main.cpp:216`
  (`size() == TEST_NUM`) fails in a debug build. In a release build, delays
  pushed after the drain are counted in the next round's average. The modelled
  build compiles the assert out; `PopOnNonEmpty` shows that the drain stays
  safe.
* **A request split by TCP.** `NetworkTask::Run` treats every `recv()` result
  as a whole request. `PartialRequestRejected` shows that a cut request never
  reaches DataBase, but it ends in `exit(1)`, which stops the whole server.
* **The index offset.** Flush writes `index_offset` as the absolute file
  position of the index (header + 4 + data size). All readers take it that
  way. `spec.md` section 6 calls it the offset from the start of the entries.
* **Flush's debug assertion** starts from `prev = "00000"`. In a debug build it
  aborts on a smallest key that sorts below it.
* **LRU promotion.** `LRUCache::Get` promotes a segment only on a key hit.
  `spec.md` 4.6 promotes it on every lookup of a cached segment.
* **Segment index for a zero offset.** `DataBase::Get` uses offset 0 as
  "not found". `IndexLocatesValues` shows that no entry starts at offset 0.

## Not modelled

* **What a crash does to the files.** A torn file is empty or holds no
  reachable key; a file cut short inside its index, with some keys readable,
  is not told apart, since file bytes are abstracted. An OS crash before the
  page cache reaches the disk is not modelled.
* **File-system failures.** `rename`, `fopen` and `remove` results are ignored
  (or only logged) by the code and are not modelled. A failing unlink doubles
  the folder states per merge input, which puts `lsm_core` out of its time
  bound.
* **What a reopened store does next.** The runs stop at the reopen. A store
  opened on a folder is what every run starting from `InitFiles` checks.
* **`file_id_` overflow.** This needs 2^31 files, out of TLC's reach, and
  is not listed as a hazard.
* **The 64-bit codings.** The store does not use them.
* **The socket plumbing of the front ends.** This covers the server's
  `main` (bind, listen, epoll, accept) and `db_benchmark_main`, and it covers
  the CPU and memory monitors. These are process and timing I/O. Each client
  connection carries one request, and the server's handling of it is modelled
  in `RequestProtocol`.
* **The logger and plain types.**
* **Unused skip-list functions.** `Contains`, `Prev`, `SeekToLast`,
  `FindLessThan` and `FindLast` have no caller.
