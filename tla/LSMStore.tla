------------------------------ MODULE LSMStore ------------------------------
(***************************************************************************)
(* The DataBase of src/db: the write buffer (StorageBuffer), the flush     *)
(* daemon and compaction daemon (the DataBase::ProcessingLoop loops), Events *)
(* and the segment bookkeeping of StorageEngine, with foreground writers   *)
(* and readers.                                                            *)
(*                                                                         *)
(* Data is abstracted: a key is a number (the order of keys is the order   *)
(* of their byte strings), a value a model value, and every encoded entry  *)
(* counts as one unit of size.  A segment file is its level and its        *)
(* key -> value map; its lower/upper bounds are the least/greatest key.    *)
(* The LRU index cache is left out here: it maps a file id to that file's  *)
(* exact key -> offset table and ids are never reused, so a lookup through *)
(* it finds what a lookup in the file finds (see LRUCache.tla).            *)
(* The engine's read/write lock is implicit: every section that holds the  *)
(* write lock is one action, and so is every read-locked lookup.           *)
(***************************************************************************)
EXTENDS Integers, Sequences, FiniteSets, SequencesExt, FiniteSetsExt, Functions, TLC

CONSTANTS
    Keys,           \* user keys, a finite set of integers (byte order)
    Vals,           \* user values
    Tomb,           \* Constant::TombValue
    Absent,         \* the abstract value of a missing or deleted key
    NotFound,       \* a Get that returns status -1
    Readers,        \* foreground threads issuing Get
    BufferSize,     \* StorageBuffer::buffer_size_, in entries
    Level0Limit,    \* StorageEngine::level0_files_number_limit_
    InitFiles,      \* the data folder the StorageEngine constructor reads:
                    \* file id -> [level, data] (names "{level}_{id}")
    MaxWrites,      \* bound: the number of Add calls the callers make
    MaxRestarts     \* bound: the number of times the process dies and the
                    \* store is opened again on its data folder

ASSUME /\ Keys \subseteq Int /\ Keys # {}
       /\ {Tomb, Absent, NotFound} \cap Vals = {}
       /\ BufferSize \in Nat /\ Level0Limit \in Nat \ {0}
       /\ MaxWrites \in Nat /\ MaxRestarts \in Nat

VARIABLES
    income,           \* income_buffer_: key -> value (Tomb for a delete)
    incomeSize,       \* income_size_
    flushBuf,         \* flush_buffer_: key -> value, empty when nullptr
    flushReady,       \* flush_buffer_ready_
    flushThreadReady, \* flush_thread_ready_
    isStop,           \* DataBase::is_stop_
    files,            \* files_map_: file id -> [level, data]
    levels,           \* level_files_: level -> ids, ordered by lower bound
    fileId,           \* file_id_: the last id handed out
    fpc,              \* where the flush daemon is in its loop
    pending,          \* the file the flush daemon wrote and has not added
    cpc,              \* where the compaction daemon is in its loop
    cstack,           \* pending Compact(level) calls, innermost first
    cset,             \* compact_files chosen by the current Compact call
    couts,            \* compacted_files: written, not yet in the maps
    cwriting,         \* the output FlushCompactedFile has opened and not
                      \* yet closed (-1: none)
    rpc, rkey, rres,  \* each reader: phase, key asked for, result
    rseen,            \* history: values the key had while the Get ran
    rpath,            \* history: how the Get went: "normal", "window" (its
                      \* buffer lookup fell between ClearFlushBuffer and
                      \* AddFile) or "stopped" (is_stop_ was set)
    kv,               \* history: the map the callers have written
    writes,           \* the number of Add calls so far (bounded by MaxWrites)
    disk,             \* the data folder: file id -> [level, data] on disk
    cdel,             \* compact_files UpdateMapAfterCompaction has still to
                      \* unlink, in order
    restarts,         \* the number of restarts so far (bounded by MaxRestarts)
    reopenFault       \* the last reopen died in File's constructor

bufVars == <<income, incomeSize, flushBuf, flushReady, flushThreadReady>>
engVars == <<files, levels, fileId, disk>>
vars == <<bufVars, engVars, isStop, fpc, pending, cpc, cstack, cset, couts, cwriting, cdel, restarts, reopenFault,
          rpc, rkey, rres, rseen, rpath, kv, writes>>

----------------------------------------------------------------------------
(* Helpers on segment files: File::LowerBound / File::UpperBound.         *)

LowerBound(f) == Min(DOMAIN f.data)
UpperBound(f) == Max(DOMAIN f.data)

Lo(id) == LowerBound(files[id])
Hi(id) == UpperBound(files[id])

\* level_files_[l], which std::map creates empty on first use.
LevelSeq(lv, l) == IF l \in DOMAIN lv THEN lv[l] ELSE <<>>

\* The insertion loops of AddFile and UpdateMapAfterCompaction: before the
\* first file whose lower bound is not smaller than the new file's.
InsertByLowerBound(lv, fs, id) ==
    LET s   == LevelSeq(lv, fs[id].level)
        pos == IF \E i \in 1..Len(s) : ~(LowerBound(fs[id]) > LowerBound(fs[s[i]]))
               THEN Min({i \in 1..Len(s) : ~(LowerBound(fs[id]) > LowerBound(fs[s[i]]))})
               ELSE Len(s) + 1
    IN  [l \in DOMAIN lv \cup {fs[id].level} |->
            IF l = fs[id].level THEN InsertAt(s, pos, id) ELSE lv[l]]

\* Get on a key -> value map, and the view of a file as such a map.
Has(m, k) == k \in DOMAIN m

----------------------------------------------------------------------------
(* The read path.                                                         *)

\* StorageEngine::GetContainsFiles: the files of any level whose
\* [lower, upper] holds the key.
ContainsFiles(k) ==
    {id \in UNION {Range(levels[l]) : l \in DOMAIN levels} : Lo(id) <= k /\ k <= Hi(id)}

\* The loop of DataBase::Get over them, level by level and newest (largest
\* id) first within a level: the first file whose key -> offset table (from
\* the cache or LoadKeyOffset) has the key gives the value (GetValueByOffset).
DiskLookup(k) ==
    LET hits == {id \in ContainsFiles(k) : Has(files[id].data, k)}
        first(id) == \A o \in hits : \/ files[id].level < files[o].level
                                     \/ files[id].level = files[o].level /\ id >= o
    IN  IF hits = {} THEN NotFound ELSE files[CHOOSE id \in hits : first(id)].data[k]

\* Mutant: the flush buffer is looked at before the income buffer.
BufferLookupFlushFirst(k) ==
    IF Has(flushBuf, k) THEN flushBuf[k]
    ELSE IF Has(income, k) THEN income[k]
    ELSE NotFound

\* StorageBuffer::Get: the income buffer, then the flush buffer.
BufferLookup(k) ==
    IF Has(income, k) THEN income[k]
    ELSE IF Has(flushBuf, k) THEN flushBuf[k]
    ELSE NotFound

\* What a Get result means to the caller: the tombstone means deleted.
AbsOf(x) == IF x \in Vals THEN x ELSE Absent

----------------------------------------------------------------------------
(* Compaction helpers (StorageEngine::Compact and its callees).           *)

LevelLimit(l) == Level0Limit * 10 ^ l

\* FindOverlapFilesLevel0 from index i on: <<files taken, upper bound>>.
RECURSIVE Level0Chain(_, _, _)
Level0Chain(s, i, ub) ==
    IF i > Len(s) \/ ~(Lo(s[i]) <= ub) THEN <<{}, ub>>
    ELSE LET r == Level0Chain(s, i + 1, IF Hi(s[i]) > ub THEN Hi(s[i]) ELSE ub)
         IN  <<{s[i]} \cup r[1], r[2]>>

\* Mutant: files that only touch the bounds are not taken.
OverlapFilesOpen(s, lb, ub) == {id \in Range(s) : Lo(id) < ub /\ Hi(id) > lb}

\* FindOverlapFilesBasedOnBound over the next level.
OverlapFiles(s, lb, ub) == {id \in Range(s) : Lo(id) <= ub /\ Hi(id) >= lb}

\* The compaction set for a level that is over its limit.
CompactFiles(l) ==
    LET s     == levels[l]
        chain == IF l = 0 THEN Level0Chain(s, 2, Hi(s[1])) ELSE <<{}, Hi(s[1])>>
    IN  {s[1]} \cup chain[1] \cup OverlapFiles(LevelSeq(levels, l + 1), Lo(s[1]), chain[2])

\* The entries NWayCompaction extracts from its input files.
Entries(ids) == UNION {{[key |-> k, level |-> files[id].level, id |-> id,
                         val |-> files[id].data[k]] : k \in DOMAIN files[id].data} : id \in ids}

\* Mutant: on a tie in key and level the older file wins.
PQCmpOldestFirst(a, b) ==
    \/ a.key > b.key
    \/ a.key = b.key /\ (a.level > b.level \/ (a.level = b.level /\ a.id > b.id))

\* priority_queue_cmp: a ranks below b in the max-heap.
PQCmp(a, b) ==
    \/ a.key > b.key
    \/ a.key = b.key /\ (a.level > b.level \/ (a.level = b.level /\ a.id < b.id))

\* The first entry popped for key k: the only one no other ranks above.
Popped(es, k) ==
    CHOOSE e \in {x \in es : x.key = k} : \A y \in {x \in es : x.key = k} : ~PQCmp(e, y)

\* The NWayCompaction loop: entries pop in ascending key order; of the
\* entries of one key only the first popped is looked at, and it is written
\* out unless it is a tombstone.
MergedData(ids) ==
    LET es == Entries(ids)
        m  == [k \in {e.key : e \in es} |-> Popped(es, k).val]
    IN  [k \in {x \in DOMAIN m : m[x] # Tomb} |-> m[k]]

\* A finite set of integers in ascending order.
RECURSIVE Ascending(_)
Ascending(S) == IF S = {} THEN <<>> ELSE <<Min(S)>> \o Ascending(S \ {Min(S)})

\* Mutant: the last batch is flushed even when it is empty.
SplitContentEmptyTail(data) ==
    LET ks    == Ascending(DOMAIN data)
        width == BufferSize + 1
        n     == Len(ks) \div width + 1
    IN  [j \in 1..n |->
            [k \in {ks[i] : i \in (j - 1) * width + 1 .. IF j * width < Len(ks) THEN j * width
                                                          ELSE Len(ks)} |-> data[k]]]

\* Cutting the written entries into output files: content is flushed (by
\* FlushCompactedFile) as soon as its size exceeds the buffer size, and what
\* is left at the end makes a last file.  With unit-size entries the j-th
\* output holds the j-th run of BufferSize + 1 keys.
SplitContent(data) ==
    LET ks    == Ascending(DOMAIN data)
        width == BufferSize + 1
        n     == (Len(ks) + BufferSize) \div width
    IN  [j \in 1..n |->
            [k \in {ks[i] : i \in (j - 1) * width + 1 .. IF j * width < Len(ks) THEN j * width
                                                          ELSE Len(ks)} |-> data[k]]]

\* UpdateMapAfterCompaction: drop the input files from their levels and
\* from files_map_, then insert the outputs (in creation order) by lower bound.
RECURSIVE InsertAll(_, _, _)
InsertAll(lv, fs, ids) ==
    IF ids = <<>> THEN lv ELSE InsertAll(InsertByLowerBound(lv, fs, Head(ids)), fs, Tail(ids))

UpdateMapAfterCompaction(outs, olds) ==
    LET fs  == outs @@ Restrict(files, DOMAIN files \ olds)
        lv  == [l \in DOMAIN levels |-> SelectSeq(levels[l], LAMBDA id : id \notin olds)]
    IN  /\ files' = fs
        /\ levels' = InsertAll(lv, fs, Ascending(DOMAIN outs))

----------------------------------------------------------------------------
(* Event (event.h): Notify wakes the thread blocked in Wait if there is   *)
(* one.  Event keeps no flag, so a Notify with nobody waiting is lost.     *)

WakeFlush   == IF fpc = "waiting" THEN "check" ELSE fpc
WakeCompact == IF cpc = "waiting" THEN "woken" ELSE cpc

EmptyMap == [k \in {} |-> Tomb]
NoFiles == [id \in {} |-> [level |-> 0, data |-> EmptyMap]]
NoPending == [id |-> -1, data |-> EmptyMap]

\* The StorageEngine constructor on data folder fs: each file goes to the
\* level its name gives, each level is std::sort-ed by lower bound (files
\* with equal lower bounds in any order), and file_id_ (initially -1) is
\* the largest id.
\* Every order of ids std::sort can leave by lower bound: a file with the
\* least lower bound first, then an order of the rest.
RECURSIVE SortedByLowerBound(_, _)
SortedByLowerBound(fs, ids) ==
    IF ids = {} THEN {<<>>}
    ELSE UNION {{<<id>> \o s : s \in SortedByLowerBound(fs, ids \ {id})} :
                id \in {i \in ids : \A j \in ids : LowerBound(fs[i]) <= LowerBound(fs[j])}}

\* level_files_ for the levels in lvls, each level sorted on its own.
RECURSIVE SortedLevels(_, _)
SortedLevels(fs, lvls) ==
    IF lvls = {} THEN {[l \in {} |-> <<>>]}
    ELSE LET l == CHOOSE x \in lvls : TRUE
         IN  {(l :> s) @@ rest : s \in SortedByLowerBound(fs, {id \in DOMAIN fs : fs[id].level = l}),
                                 rest \in SortedLevels(fs, lvls \ {l})}

RecoveredLevels(fs) == SortedLevels(fs, {fs[id].level : id \in DOMAIN fs})

LastId(fs) == IF DOMAIN fs = {} THEN -1 ELSE Max(DOMAIN fs)

\* A fresh DataBase: an empty StorageBuffer, the StorageEngine constructor
\* on the data folder, both daemons at the top of their loops, no reader.
Init ==
    /\ income = EmptyMap /\ incomeSize = 0
    /\ flushBuf = EmptyMap /\ flushReady = FALSE /\ flushThreadReady = FALSE
    /\ isStop = FALSE
    /\ disk = InitFiles /\ files = InitFiles
    /\ levels \in RecoveredLevels(InitFiles)
    /\ fileId = LastId(InitFiles)
    /\ fpc = "top" /\ pending = NoPending
    /\ cpc = "top" /\ cstack = <<>> /\ cset = {} /\ couts = NoFiles /\ cwriting = -1 /\ cdel = <<>>
    /\ rpc = [r \in Readers |-> "idle"] /\ rkey = [r \in Readers |-> Min(Keys)]
    /\ rres = [r \in Readers |-> NotFound] /\ rseen = [r \in Readers |-> {}]
    /\ rpath = [r \in Readers |-> "normal"]
    /\ kv = [k \in Keys |-> AbsOf(DiskLookup(k))] /\ writes = 0 /\ restarts = 0 /\ reopenFault = FALSE

----------------------------------------------------------------------------
(* Foreground writers and readers.                                        *)

\* Bound on the callers: MaxWrites Add calls, none after a restart.
CallerWrites == writes < MaxWrites /\ restarts = 0

\* Mutant: a Delete reaches the buffer as the caller's "absent" value
\* instead of Constant::TombValue.
AddDeleteAsAbsent(k, v) ==
    /\ CallerWrites /\ writes' = writes + 1
    /\ LET inc  == (k :> AbsOf(v)) @@ income
           size == incomeSize + 1
       IN  IF size > BufferSize /\ flushThreadReady
           THEN /\ income' = EmptyMap /\ incomeSize' = 0
                /\ flushBuf' = inc /\ flushReady' = TRUE
                /\ flushThreadReady' = FALSE
                /\ fpc' = WakeFlush
           ELSE /\ income' = inc /\ incomeSize' = size
                /\ UNCHANGED <<flushBuf, flushReady, flushThreadReady, fpc>>
    /\ kv' = [kv EXCEPT ![k] = AbsOf(v)]
    /\ rseen' = [r \in Readers |->
                    IF rpc[r] = "disk" /\ rkey[r] = k THEN rseen[r] \cup {AbsOf(v)}
                    ELSE rseen[r]]
    /\ UNCHANGED <<isStop, engVars, pending, cpc, cstack, cset, couts, cwriting, cdel, restarts, reopenFault, rpc, rkey, rres, rpath>>

\* Mutant: the swap does not wait for the flush daemon to be idle.
AddIgnoreFlushThreadReady(k, v) ==
    /\ CallerWrites /\ writes' = writes + 1
    /\ LET inc  == (k :> v) @@ income
           size == incomeSize + 1
       IN  IF size > BufferSize
           THEN /\ income' = EmptyMap /\ incomeSize' = 0
                /\ flushBuf' = inc /\ flushReady' = TRUE
                /\ flushThreadReady' = FALSE
                /\ fpc' = WakeFlush
           ELSE /\ income' = inc /\ incomeSize' = size
                /\ UNCHANGED <<flushBuf, flushReady, flushThreadReady, fpc>>
    /\ kv' = [kv EXCEPT ![k] = AbsOf(v)]
    /\ rseen' = [r \in Readers |->
                    IF rpc[r] = "disk" /\ rkey[r] = k THEN rseen[r] \cup {AbsOf(v)}
                    ELSE rseen[r]]
    /\ UNCHANGED <<isStop, engVars, pending, cpc, cstack, cset, couts, cwriting, cdel, restarts, reopenFault, rpc, rkey, rres, rpath>>

\* DataBase::Add (a Delete is a Put of the tombstone) and StorageBuffer::Add
\* with SwapBuffer and the flush notify: one critical section of mutex_.
Add(k, v) ==
    /\ CallerWrites /\ writes' = writes + 1
    /\ LET inc  == (k :> v) @@ income
           size == incomeSize + 1
       IN  IF size > BufferSize /\ flushThreadReady
           THEN /\ income' = EmptyMap /\ incomeSize' = 0
                /\ flushBuf' = inc /\ flushReady' = TRUE
                /\ flushThreadReady' = FALSE
                /\ fpc' = WakeFlush
           ELSE /\ income' = inc /\ incomeSize' = size
                /\ UNCHANGED <<flushBuf, flushReady, flushThreadReady, fpc>>
    /\ kv' = [kv EXCEPT ![k] = AbsOf(v)]
    /\ rseen' = [r \in Readers |->
                    IF rpc[r] = "disk" /\ rkey[r] = k THEN rseen[r] \cup {AbsOf(v)}
                    ELSE rseen[r]]
    /\ UNCHANGED <<isStop, engVars, pending, cpc, cstack, cset, couts, cwriting, cdel, restarts, reopenFault, rpc, rkey, rres, rpath>>

\* DataBase::Get up to and including StorageBuffer::Get.
GetBuffer(r, k) ==
    /\ rpc[r] \in {"idle", "done"}
    /\ rkey' = [rkey EXCEPT ![r] = k]
    /\ rseen' = [rseen EXCEPT ![r] = {kv[k]}]
    /\ rpath' = [rpath EXCEPT ![r] = IF isStop THEN "stopped"
                                     ELSE IF fpc = "register" THEN "window" ELSE "normal"]
    /\ IF isStop \/ BufferLookup(k) # NotFound
       THEN /\ rpc' = [rpc EXCEPT ![r] = "done"]
            /\ rres' = [rres EXCEPT ![r] = IF isStop THEN NotFound ELSE BufferLookup(k)]
       ELSE rpc' = [rpc EXCEPT ![r] = "disk"] /\ UNCHANGED rres
    /\ UNCHANGED <<bufVars, engVars, isStop, fpc, pending, cpc, cstack, cset, couts, cwriting, cdel, restarts, reopenFault, kv, writes>>

\* The rest of DataBase::Get, under the engine's read lock.
GetDisk(r) ==
    /\ rpc[r] = "disk"
    /\ rpc' = [rpc EXCEPT ![r] = "done"]
    /\ rres' = [rres EXCEPT ![r] = DiskLookup(rkey[r])]
    /\ UNCHANGED <<bufVars, engVars, isStop, fpc, pending, cpc, cstack, cset, couts, cwriting, cdel, restarts, reopenFault, rkey, rseen, rpath, kv, writes>>

\* DataBase::ShutDown: set is_stop_ and notify both events (the joins
\* follow).
ShutDown ==
    /\ ~isStop
    /\ isStop' = TRUE
    /\ fpc' = WakeFlush
    /\ cpc' = WakeCompact
    /\ UNCHANGED <<bufVars, engVars, pending, cstack, cset, couts, cwriting, cdel, restarts, reopenFault, rpc, rkey, rres, rseen, rpath, kv, writes>>

----------------------------------------------------------------------------
(* The flush daemon, DataBase::ProcessingLoopFlushBuffer.                 *)

fUnchanged == <<income, incomeSize, isStop, cstack, cset, couts, cwriting, cdel, restarts, reopenFault, rpc, rkey, rres, rseen, rpath, kv, writes>>

\* while (!is_stop_) { SetFlushThreadIdle(); ...
FlushLoopTop ==
    /\ fpc = "top"
    /\ IF isStop THEN fpc' = "done" /\ UNCHANGED flushThreadReady
       ELSE fpc' = "check" /\ flushThreadReady' = TRUE
    /\ UNCHANGED <<flushBuf, flushReady, engVars, pending, cpc>> /\ UNCHANGED fUnchanged

\* while (!FlushBufferReady() && !is_stop_) Wait(); if (is_stop_) break;
FlushCheck ==
    /\ fpc = "check"
    /\ fpc' = IF isStop THEN "done" ELSE IF flushReady THEN "write" ELSE "presleep"
    /\ UNCHANGED <<flushBuf, flushReady, flushThreadReady, engVars, pending, cpc>>
    /\ UNCHANGED fUnchanged

\* Event::Wait: the thread blocks on the condition variable.
FlushWait ==
    /\ fpc = "presleep"
    /\ fpc' = "waiting"
    /\ UNCHANGED <<flushBuf, flushReady, flushThreadReady, engVars, pending, cpc>>
    /\ UNCHANGED fUnchanged

\* condition_variable::wait may return without a notify.
FlushSpuriousWakeup ==
    /\ fpc = "waiting"
    /\ fpc' = "check"
    /\ UNCHANGED <<flushBuf, flushReady, flushThreadReady, engVars, pending, cpc>>
    /\ UNCHANGED fUnchanged

\* NewWritableFile: takes the next id (file_id_ under mutex_) and fopen
\* creates "0_{id}", empty, in the data folder.
FlushOpen ==
    /\ fpc = "write"
    /\ fileId' = fileId + 1
    /\ pending' = [id |-> fileId + 1, data |-> EmptyMap]
    /\ disk' = disk @@ ((fileId + 1) :> [level |-> 0, data |-> EmptyMap])
    /\ fpc' = "flushing"
    /\ UNCHANGED <<flushBuf, flushReady, flushThreadReady, files, levels, cpc>>
    /\ UNCHANGED fUnchanged

\* FlushBuffer: the flush buffer's entries are written to the file, which
\* StorageBuffer::Flush then fcloses.
FlushWrite ==
    /\ fpc = "flushing"
    /\ pending' = [pending EXCEPT !.data = flushBuf]
    /\ disk' = [disk EXCEPT ![pending.id] = [level |-> 0, data |-> flushBuf]]
    /\ fpc' = "clear"
    /\ UNCHANGED <<flushBuf, flushReady, flushThreadReady, files, levels, fileId, cpc>>
    /\ UNCHANGED fUnchanged

\* ClearFlushBuffer.
FlushClear ==
    /\ fpc = "clear"
    /\ flushReady' = FALSE
    /\ flushBuf' = EmptyMap
    /\ fpc' = "register"
    /\ UNCHANGED <<flushThreadReady, engVars, pending, cpc>> /\ UNCHANGED fUnchanged

\* cache_->Set (see the module header) and StorageEngine::AddFile, which
\* notifies the compaction event when level 0 holds too many files.
FlushRegister ==
    /\ fpc = "register"
    /\ LET fs == files @@ (pending.id :> [level |-> 0, data |-> pending.data])
           lv == InsertByLowerBound(levels, fs, pending.id)
       IN  /\ files' = fs /\ levels' = lv
           /\ cpc' = IF Len(lv[0]) > Level0Limit THEN WakeCompact ELSE cpc
    /\ fpc' = "top" /\ pending' = NoPending
    /\ UNCHANGED <<flushBuf, flushReady, flushThreadReady, fileId, disk>> /\ UNCHANGED fUnchanged

----------------------------------------------------------------------------
(* The compaction daemon, DataBase::ProcessingLoopCompact, running        *)
(* StorageEngine::Compact(0).  The recursion Compact(level);              *)
(* Compact(level + 1) is the stack cstack of levels still to visit.       *)

cUnchanged == <<bufVars, isStop, fpc, pending, restarts, reopenFault, rpc, rkey, rres, rseen, rpath, kv, writes>>

\* while (!is_stop_) { event_compact_.Wait(); ...
CompactLoopTop ==
    /\ cpc = "top"
    /\ cpc' = IF isStop THEN "done" ELSE "presleep"
    /\ UNCHANGED <<engVars, cstack, cset, couts, cwriting, cdel>> /\ UNCHANGED cUnchanged

CompactWait ==
    /\ cpc = "presleep"
    /\ cpc' = "waiting"
    /\ UNCHANGED <<engVars, cstack, cset, couts, cwriting, cdel>> /\ UNCHANGED cUnchanged

CompactSpuriousWakeup ==
    /\ cpc = "waiting"
    /\ cpc' = "woken"
    /\ UNCHANGED <<engVars, cstack, cset, couts, cwriting, cdel>> /\ UNCHANGED cUnchanged

\* ... if (is_stop_) break; Compact(0); }
CompactWoken ==
    /\ cpc = "woken"
    /\ IF isStop THEN cpc' = "done" /\ UNCHANGED cstack
       ELSE cpc' = "compact" /\ cstack' = <<0>>
    /\ UNCHANGED <<engVars, cset, couts, cwriting, cdel>> /\ UNCHANGED cUnchanged

\* Compact(level) on a level within its limit returns at once.
CompactSkip ==
    /\ cpc = "compact"
    /\ Len(LevelSeq(levels, Head(cstack))) <= LevelLimit(Head(cstack))
    /\ cstack' = Tail(cstack)
    /\ cpc' = IF Tail(cstack) = <<>> THEN "top" ELSE "compact"
    /\ UNCHANGED <<engVars, cset, couts, cwriting, cdel>> /\ UNCHANGED cUnchanged

\* Compact(level) over its limit: the snapshot of level_files_ taken under
\* the read lock and the choice of compact_files from it.
CompactPick ==
    /\ cpc = "compact"
    /\ Len(LevelSeq(levels, Head(cstack))) > LevelLimit(Head(cstack))
    /\ cset' = CompactFiles(Head(cstack))
    /\ cpc' = "apply"
    /\ UNCHANGED <<engVars, cstack, couts, cwriting, cdel>> /\ UNCHANGED cUnchanged

\* TrivialMove: the single file gets the next id (file_id_ under mutex_) and
\* is renamed into the next level.
TrivialMove ==
    /\ cpc = "apply"
    /\ Cardinality(cset) = 1
    /\ LET x == CHOOSE x \in cset : TRUE
           moved == (fileId + 1) :> [level |-> files[x].level + 1, data |-> files[x].data]
       IN  /\ couts' = moved
           /\ disk' = moved @@ Restrict(disk, DOMAIN disk \ {x})
    /\ fileId' = fileId + 1
    /\ cpc' = "update"
    /\ UNCHANGED <<files, levels, cstack, cset, cwriting, cdel>> /\ UNCHANGED cUnchanged

\* The merge's batches in key order: the content NWayCompaction hands to
\* FlushCompactedFile each time it exceeds the buffer size, and the rest.
CompactBatches == SplitContent(MergedData(cset))

\* The next-level file the k-th batch becomes.
CompactOutput(k) == [level |-> Head(cstack) + 1, data |-> CompactBatches[k]]

\* FlushCompactedFile, first half: NewWritableFile takes the next id
\* (file_id_ under mutex_, shared with the flush daemon) and fopen creates
\* the file, empty, in the data folder.
NWayOpen ==
    /\ cpc = "apply"
    /\ Cardinality(cset) > 1
    /\ Cardinality(DOMAIN couts) < Len(CompactBatches)
    /\ fileId' = fileId + 1 /\ cwriting' = fileId + 1
    /\ disk' = disk @@ ((fileId + 1) :> [level |-> Head(cstack) + 1, data |-> EmptyMap])
    /\ cpc' = "writing"
    /\ UNCHANGED <<files, levels, cstack, cset, couts, cdel>> /\ UNCHANGED cUnchanged

\* Mutant: Flush without its fclose: the batch stays in the stream's
\* buffer and the file in the folder stays empty.
NWayWriteUnclosed ==
    /\ cpc = "writing"
    /\ couts' = couts @@ (cwriting :> CompactOutput(Cardinality(DOMAIN couts) + 1))
    /\ cwriting' = -1 /\ cpc' = "apply"
    /\ UNCHANGED <<files, levels, fileId, disk, cstack, cset, cdel>> /\ UNCHANGED cUnchanged

\* FlushCompactedFile, second half: StorageBuffer::Flush writes the batch
\* and fcloses the file, and NWayCompaction opens it (new File) as the
\* next of compacted_files.
NWayWrite ==
    /\ cpc = "writing"
    /\ LET f == CompactOutput(Cardinality(DOMAIN couts) + 1)
       IN  /\ couts' = couts @@ (cwriting :> f)
           /\ disk' = [disk EXCEPT ![cwriting] = f]
    /\ cwriting' = -1 /\ cpc' = "apply"
    /\ UNCHANGED <<files, levels, fileId, cstack, cset, cdel>> /\ UNCHANGED cUnchanged

\* The merge loop is over once every batch is in a file.
NWayDone ==
    /\ cpc = "apply"
    /\ Cardinality(cset) > 1
    /\ Cardinality(DOMAIN couts) = Len(CompactBatches)
    /\ cpc' = "update"
    /\ UNCHANGED <<engVars, cstack, cset, couts, cwriting, cdel>> /\ UNCHANGED cUnchanged

\* NWayCompaction: the merge of the input files into new next-level files,
\* one fopen..fclose per batch, so that a crash can fall inside a write.
NWayCompaction == NWayOpen \/ NWayWrite \/ NWayDone

\* compact_files in the order Compact collected them: the files of the
\* level (s[1] and the level-0 chain), then the next level's overlaps.
CompactFilesInOrder(l) ==
    SelectSeq(LevelSeq(levels, l), LAMBDA id : id \in cset)
        \o SelectSeq(LevelSeq(levels, l + 1), LAMBDA id : id \in cset)

\* UpdateMapAfterCompaction's map update under the write lock (called from
\* TrivialMove, or from Compact after NWayCompaction); after WriteUnlock the
\* inputs of a merge (need_remove_file) are unlinked one by one.  Compact
\* then goes on with Compact(level); Compact(level + 1).
CompactUpdate ==
    /\ cpc = "update"
    /\ UpdateMapAfterCompaction(couts, cset)
    /\ cstack' = <<Head(cstack), Head(cstack) + 1>> \o Tail(cstack)
    /\ LET rel == IF Cardinality(cset) > 1 THEN CompactFilesInOrder(Head(cstack)) ELSE <<>>
       IN  /\ cdel' = rel
           /\ cpc' = IF rel = <<>> THEN "compact" ELSE "release"
    /\ cset' = {} /\ couts' = NoFiles
    /\ UNCHANGED <<fileId, disk, cwriting>> /\ UNCHANGED cUnchanged

\* One turn of the release loop: compact_file->Delete() unlinks the file
\* and the File object is deleted.  (Delete() failing, which the loop only
\* logs, is not modelled; see the README.)
CompactUnlink ==
    /\ cpc = "release"
    /\ disk' = Restrict(disk, DOMAIN disk \ {Head(cdel)})
    /\ cdel' = Tail(cdel)
    /\ cpc' = IF Tail(cdel) = <<>> THEN "compact" ELSE "release"
    /\ UNCHANGED <<files, levels, fileId, cstack, cset, couts, cwriting>> /\ UNCHANGED cUnchanged

----------------------------------------------------------------------------
(* A crash and restart.                                                   *)

\* The files of folder fs whose fclose never ran: a crash fell between their
\* fopen and their fclose, and the folder holds a prefix of their bytes.
Torn(fs) == {id \in DOMAIN fs : fs[id].data = EmptyMap}

\* The process dies between any two steps (spec 7: the write buffers are
\* not journalled), and a new DataBase is opened on the same folder: the
\* StorageEngine constructor makes a File of every file in it.  A torn
\* file whose prefix is empty (always so while its bytes fit in the
\* stream's buffer) has size 0: mmap fails and the constructor parses the
\* header at MAP_FAILED, so the reopen dies (file.h:80-88).  A torn file
\* whose prefix holds its header (a larger file) loads with its bounds, but
\* its index_offset lies past its end and LoadKeyOffset finds no key in it,
\* so no lookup ever hits it: the model leaves it out of files.  (After a
\* reopen that dies nothing runs; the runs stop at a reopen.)  Otherwise
\* Init's state with the files now on disk.  The callers' map becomes what
\* the reopened store reads.  Bound: the callers write no more after a
\* restart; the daemons go on flushing nothing and compacting the folder.
Restart ==
    /\ restarts < MaxRestarts /\ restarts' = restarts + 1
    /\ \/ Torn(disk) # {} /\ reopenFault' = TRUE
       \/ reopenFault' = FALSE
    /\ income' = EmptyMap /\ incomeSize' = 0
    /\ flushBuf' = EmptyMap /\ flushReady' = FALSE /\ flushThreadReady' = FALSE
    /\ isStop' = FALSE
    /\ LET whole == Restrict(disk, DOMAIN disk \ Torn(disk))
       IN  /\ files' = whole
           /\ levels' \in RecoveredLevels(whole)
    /\ fileId' = LastId(disk)
    /\ fpc' = "top" /\ pending' = NoPending
    /\ cpc' = "top" /\ cstack' = <<>> /\ cset' = {} /\ couts' = NoFiles /\ cwriting' = -1
    /\ cdel' = <<>>
    /\ rpc' = [r \in Readers |-> "idle"] /\ rkey' = [r \in Readers |-> Min(Keys)]
    /\ rres' = [r \in Readers |-> NotFound] /\ rseen' = [r \in Readers |-> {}]
    /\ rpath' = [r \in Readers |-> "normal"]
    /\ kv' = [k \in Keys |-> AbsOf(DiskLookup(k)')]
    /\ UNCHANGED <<disk, writes>>

----------------------------------------------------------------------------

FlushThread ==
    FlushLoopTop \/ FlushCheck \/ FlushWait \/ FlushOpen \/ FlushWrite \/ FlushClear
    \/ FlushRegister

CompactThread ==
    CompactLoopTop \/ CompactWait \/ CompactWoken \/ CompactSkip \/ CompactPick
    \/ TrivialMove \/ NWayCompaction \/ CompactUpdate \/ CompactUnlink

Next ==
    \/ \E k \in Keys, v \in Vals \cup {Tomb} : Add(k, v)
    \/ \E r \in Readers, k \in Keys : GetBuffer(r, k)
    \/ \E r \in Readers : GetDisk(r)
    \/ ShutDown
    \/ FlushThread \/ FlushSpuriousWakeup
    \/ CompactThread \/ CompactSpuriousWakeup
    \/ Restart

Spec == Init /\ [][Next]_vars

\* The two daemons are OS threads: each keeps running while it can.  The
\* callers (Add, Get, ShutDown) and spurious wakeups are not assumed to happen.
FairSpec == Spec /\ WF_vars(FlushThread) /\ WF_vars(CompactThread)

----------------------------------------------------------------------------
(* Properties.                                                            *)

IsEntryMap(m) == DOMAIN m \subseteq Keys /\ Range(m) \subseteq Vals \cup {Tomb}

\* Type invariant: buffers and files hold entry maps, levels list only
\* registered files, and each thread is at a point of its loop.
TypeOK ==
    /\ IsEntryMap(income) /\ IsEntryMap(flushBuf)
    /\ incomeSize \in 0..MaxWrites /\ writes \in 0..MaxWrites
    /\ flushReady \in BOOLEAN /\ flushThreadReady \in BOOLEAN /\ isStop \in BOOLEAN
    /\ \A id \in DOMAIN files : files[id].level \in Nat /\ IsEntryMap(files[id].data)
    /\ \A id \in DOMAIN couts : couts[id].level \in Nat /\ IsEntryMap(couts[id].data)
    /\ \A l \in DOMAIN levels : \A i \in 1..Len(levels[l]) : levels[l][i] \in DOMAIN files
    /\ fpc \in {"top", "check", "presleep", "waiting", "write", "flushing", "clear", "register", "done"}
    /\ cpc \in {"top", "presleep", "waiting", "woken", "compact", "apply", "writing", "update", "release", "done"}
    /\ \A id \in DOMAIN disk : disk[id].level \in Nat /\ IsEntryMap(disk[id].data)
    /\ cdel \in Seq(Nat) /\ restarts \in 0..MaxRestarts
    /\ cwriting \in {-1} \cup Nat /\ reopenFault \in BOOLEAN
    /\ cset \subseteq DOMAIN files
    /\ rpc \in [Readers -> {"idle", "disk", "done"}]
    /\ kv \in [Keys -> Vals \cup {Absent}]

\* What a Get would find for k if the flush daemon's written but not yet
\* added file were already visible: buffers, that file, then the levels.
View(k) ==
    LET buf == BufferLookup(k)
    IN  IF buf # NotFound THEN buf
    ELSE IF fpc = "register" /\ Has(pending.data, k) THEN pending.data[k]
    ELSE DiskLookup(k)

\* StorageBuffer::Flush takes the file's bounds from content.front() and
\* content.back(): every segment file written, by the flush daemon (which
\* flushes only a buffer that Add swapped out) or by NWayCompaction (which
\* flushes its last batch only if it is not empty), holds an entry.
NoEmptySegment ==
    /\ \A id \in DOMAIN files : files[id].data # EmptyMap
    /\ fpc \in {"clear", "register"} => pending.data # EmptyMap
    /\ \A id \in DOMAIN couts : couts[id].data # EmptyMap

\* Levels >= 1 are kept non-overlapping and in key order by Compact and
\* UpdateMapAfterCompaction: every file ends before the next one starts.
\* (A restart in the middle of a merge reloads its inputs beside its
\* outputs, so this holds of a store that has not been restarted.)
LevelsDisjoint ==
    restarts = 0 =>
    \A l \in DOMAIN levels \ {0} : \A i \in 1..Len(levels[l]) - 1 :
        Hi(levels[l][i]) < Lo(levels[l][i + 1])

\* StorageBuffer::Add swaps only when the flush daemon has said it is idle;
\* a step never replaces a flush buffer that is still waiting to be flushed.
NoSwapWhileDraining ==
    [][flushReady => (flushBuf' = flushBuf \/ ~flushReady')]_vars

\* The store implements KVStore: each Add changes what the data says for
\* its key to its value and nothing else, and no swap, flush, trivial move,
\* N-way merge (priority_queue_cmp, tombstone dropping, level-0 fan-in) or
\* AddFile during a compaction changes what any key reads as.
KV == INSTANCE KVStore WITH store <- [k \in Keys |-> AbsOf(View(k))], applied <- writes, opened <- restarts
KVRefinement == KV!Spec

\* What the running store keeps in its data folder for k: its level files
\* as a Get reads them, under the flush file written but not yet added.
DurableLookup(k) ==
    IF fpc \in {"clear", "register"} /\ Has(pending.data, k) THEN pending.data[k]
    ELSE DiskLookup(k)

\* A restart reads back exactly what the store held on disk: every key
\* reads, after the constructor has reloaded the folder, as the running
\* store read it from its files (spec 7 loses only the write buffers; spec
\* 8: a deleted key stays not-found after flushes and compactions).
RestartRecoversDurable ==
    [][restarts' > restarts /\ ~reopenFault' =>
         \A k \in Keys : AbsOf(DiskLookup(k)') = AbsOf(DurableLookup(k))]_vars

\* The files a daemon has fopen-ed and not yet fclose-d.
Writing == (IF fpc = "flushing" THEN {pending.id} ELSE {}) \cup (IF cpc = "writing" THEN {cwriting} ELSE {})

\* The files in the data folder that the running store no longer tracks:
\* not in files_map_, not the flush file being written or added, not a
\* compaction output being written or added and not an input still to be
\* unlinked.  Only a failed compact_file->Delete() leaves one.
Orphans == DOMAIN disk \ (DOMAIN files \cup {pending.id} \cup DOMAIN couts \cup Writing \cup Range(cdel))

\* A crash outside the unlink loop of a merge, with every unlink so far
\* successful, loses nothing silently: whichever step of a flush (file
\* opened, written, buffer cleared, file added), a trivial move (renamed,
\* maps updated) or an N-way merge (each output opened and written, maps
\* updated) the process dies in, the only torn files in the folder are the
\* ones whose write the crash cut short (so a reopen that dies in File's
\* constructor dies on such a file), and a reopen that succeeds reads every
\* key as the running store read it from its files.  This is what closing
\* every file before it is registered, writing the outputs before
\* UpdateMapAfterCompaction and unlinking the inputs only after it buy.
RestartRecoversCommitted ==
    [][restarts' > restarts /\ cpc # "release" /\ Orphans = {} =>
         /\ Torn(disk) \subseteq Writing
         /\ ~reopenFault' => \A k \in Keys : AbsOf(DiskLookup(k)') = AbsOf(DurableLookup(k))]_vars

\* Once a buffer has been swapped out for flushing, the flush daemon
\* eventually writes and clears it (unless the database is shut down).
FlushEventuallyRuns == (flushReady /\ ~isStop) ~> (~flushReady \/ isStop)

\* A Get returns a value the key held at some moment while it ran (spec
\* 5: every data path is consulted, so a Get after an Add sees it).
GetLinearizable ==
    \A r \in Readers : rpc[r] = "done" /\ rpath[r] # "stopped" => AbsOf(rres[r]) \in rseen[r]

\* Outside that window Gets are linearizable: through swaps, flushes,
\* trivial moves, N-way merges and AddFile during a compaction, a Get
\* whose buffer lookup did not fall between ClearFlushBuffer and AddFile
\* returns a value the key held while it ran.
GetLinearizableOutsideFlushWindow ==
    \A r \in Readers : rpc[r] = "done" /\ rpath[r] = "normal" => AbsOf(rres[r]) \in rseen[r]

\* Spec 8, delete visibility: a Get of a deleted key reports not-found; it
\* never hands the tombstone back as a value.
GetNeverReturnsTomb == \A r \in Readers : rpc[r] = "done" => rres[r] # Tomb

=============================================================================
