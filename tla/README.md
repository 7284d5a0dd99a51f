# A TLA+ verification of TalusDB

TalusDB is an embedded key-value store with a log, memtables and levels of
sorted tables. This directory models its core in TLA+, checks the models with
TLC and proves the properties of the write path and of the skip list with TLAPS. `PROJECT.json` is
the machine-readable side: components, runs, mutants, the map from definitions
to source lines, findings, hazards and theorems. Paths below are relative to the
repository's root.

## 1. The system

| Part | Source | What it does | Here |
|---|---|---|---|
| Write path | `src/db/db_impl.cc` | writer queue, group commit, waiting for room, switch of memtable and log | `WritePath` |
| Background thread | `src/db/db_impl.cc` | flush of the immutable memtable, compactions, removal of files | `WritePath`, `Durability`, `Compaction` |
| Open and recovery | `src/db/db_impl.cc`, `version_set.cc` | NewDB, MANIFEST, replay of logs | `Durability` |
| Versions | `src/db/version_set.cc` | files of each level, picking a compaction, lookups | `Versions`, `Compaction` |
| Snapshots | `src/db/snapshot.h` | sequence numbers that compactions respect | `Compaction` |
| Database iterator | `src/db/db_iter.cc` | user keys out of internal entries | `DBIter`, `Cursor` |
| Iterators | `src/table/marger.cc`, `two_level_iterator.cc` | merging, index over data | `Table` |
| Tables | `src/table/table*.cc`, `filter_block.cc`, `src/db/builder.cc` | blocks, index, filters | `Table` |
| Blocks, keys | `src/table/block*.cc`, `src/db/dbformat.cc`, `src/util/comparator.cc` | prefix compression, restart points, separators | `Blocks` |
| Log files | `src/db/log_writer.cc`, `log_reader.cc`, `src/util/env.cc` | records in fragments in blocks, behind the buffer of a file | `LogFormat` |
| Table cache | `src/db/table_cache.cc`, `src/util/cache.cc`, `src/util/env.cc` | open tables, LRU, reference counts, limits on mappings and descriptors | `TableCache` |
| Skip list | `src/db/skiplist.h` | lock-free reads beside one writer | `SkipList` |
| Environment | `src/util/env.cc` | files, locks, background queue | what `Durability`, `LogFormat` and `TableCache` need of it |
| Batches, edits, names | `write_batch.cc`, `version_edit.cc`, `filename.cc` | encodings | their effects only |
| Repair | `src/db/repair.cc` | makes tables of logs and a new MANIFEST | `Repair` |
| Coding, CRC, arena, dump, C bindings, benchmark | `src/util`, `src/db/c.cc`, `dumpfile.cc`, `benchmarks` | no protocol | not modelled |

A write goes through the queue, the log and the memtable; the background thread
turns a full memtable into a table, records it in the MANIFEST and removes the
log; compactions merge tables downwards. A read goes through the memtables and
the levels of a version it holds on to. Each module takes one of these
interactions with the detail its properties need, and abstracts the others.

## 2. Modules

**WritePath** (`DBImpl::Write`, `BuildBatchGroup`, `MakeRoomForWrite`,
`MaybeScheduleCompaction`, `BackgroundCall`, `CompactMemTable`, `~DBImpl`).
What DBImpl does with the mutex held and without waiting is one action; every
unlocked step (append, sync, one insertion, building a table, writing the
MANIFEST, merging) is an action of its own. `writers`, `pc`, `done`, `mem`,
`imm`, `log`, `lastSeq`, `l0`, `scheduled`, `bgError` are the members of DBImpl
with similar names. Waits are sets of threads, with spurious wakeups. A batch
is its number of entries; 0 is the null batch that forces a flush. Any I/O may
fail. `MCWritePath` adds symmetry.

**Durability** (`DB::Open`, `NewDB`, `Recover`, `RecoverLogFile`,
`LogAndApply`, `SetCurrentFile`, `RemoveObsoleteFiles`, and the flush,
compaction and write steps that touch files). Log, table and MANIFEST files
have their content and the part of it an fsync covered. The process crashes
between any two steps or inside an append; the machine's crash also loses what
was not synced. The file system is external: fsync of a new file makes its
directory entry durable, directory operations become durable in order, and a
renamed file that was not synced, as CURRENT is, may turn out empty.

**Repair** extends `Durability` with `RepairDB`: `FindFiles`, `ConvertLogToTable`
for each log and its move to `lost/`, the archiving of the old MANIFESTs and the
rename that makes the new descriptor `MANIFEST-000001`. It runs on a database that
is down or did not open, may fail or die between any two of these steps, and is
then run again before the database is opened. The members of the Repairer live in
variables of `Durability` that are idle while no database is open: `next`,
`toReplay`, `vfiles` and `victims`. A log is moved to `lost/` also when
`ConvertLogToTable` failed for it; the variable `lost` keeps the entries that are
nowhere else then.

**Versions** holds the pure algorithms of `version_set.cc`
(`GetOverlappingInputs`, `PickLevelForMemTableOutput`, `PickCompaction`,
`SetupOtherInputs`, `AddBoundaryInputs`, `IsBaseLevelForKey`,
`ShouldStopBefore`, `Version::Get`) and the drop rule of `DoCompactionWork`.
**Compaction** is the state machine over them: writes, deletions, snapshots,
flushes, compactions by size, by seeks and by request. A compaction is two
steps, its choice and its installation; writers, snapshots and its own flushes
come between. A call of `CompactRangeAtLevel` arms its request again after every
round and returns when no background call is scheduled. `MCCompaction` names
levels' limits and manual ranges.

**Blocks**, **Table** and **DBIter** follow the read path from bytes to user
keys. User keys are sequences of small numbers, so that shared prefixes,
separators and successors are computed as in the code. A table's filter is the
set of its keys plus false positives. Iterators are values; `Move` is one call.
**Cursor** is the abstract specification: a cursor on a sorted map. `DBIter`
implements it (`IsCursor`), with the mapping `at <- <<Key, Value>>` if valid. Both
have a history variable `call` with the last call and, for a step, the position
it started from, so a `Next` of `DBIter` has to be the cursor's `Next` and not some
other move of it. Sizes of blocks count the bytes of keys that prefix compression
leaves, so blocks differ in length: in some tables two of them share a filter, in
some a long one makes the next skip one. `MCDBIter` builds the databases.

**LogFormat** is `log::Writer` and `log::Reader` on a file of cells, each of
which knows its fragment: a crash keeps a prefix, a damage marks a cell, and the
checksum is taken to detect it. Between the Writer and the file is the buffer of
`PosixWritableFile`: a crash loses what the buffer holds, and what `Append` writes
past it goes to the file at once. **TableCache** is one shard of the LRU cache
with its hash table, under threads that run `FindTable`, `Release`, `Evict` and
`Prune`. Opening a table takes a mapping or a descriptor from the two `Limiter`s of
`PosixEnv` in two atomic steps, as `NewRandomAccessFile` does, and the deleter of
the last reference gives it back. `MCTableCache` gives the hash function, the
charges, the limits and the symmetry.

**SkipList** is `Insert` with one step per atomic store and the iterator with one
step per load, under the memory model of C++. There is one writer, so the stores
have one order, `hist`; a reader knows a prefix of it and may load any store to a
location that its knowledge does not overwrite. Only an acquire load of a release
store extends that knowledge, and so does the mutex under which a reader takes the
memtable (`published`). One reader stands for all of them, since readers store
nothing. A random height is any height.

**WritePathProofs** and **WritePathVisible**, which extends it, hold the theorems
about `WritePath`, **SkipListProofs** those about `SkipList`.

A definition named `Mut...` is a plausible mistake in the definition below it.
For each property of each passing run `PROJECT.json` names one such mistake that
makes TLC report that property.

## 3. Runs

Times are with two workers and coverage statistics. Deadlock is checked in
`write_path`, `dbiter`, `table_cache` and `skip_list`; elsewhere the bounds end the
behaviours.

| Run | Module, cfg | Bounds | Shows |
|---|---|---|---|
| `write_path` | `MCWritePath`, `WritePathSafety` | 3 threads, 4 calls, null batches and batches of 2, stop trigger 2 | one leader, unique sequence numbers, atomic batches, acknowledged writes visible, log covers memtables, sync honoured, a flusher for every imm, level 0 bounded, stable snapshots |
| `write_liveness` | `WritePath`, `WritePathLiveness` | 2 threads, 3 calls, stop trigger 1 | every Write returns, the destructor's wait ends |
| `crash_recovery` | `Durability`, `DurabilityCrash` | 2 writes, 9 file numbers, 1 crash, 1 reader | no acknowledged write lost by a process crash, no synced one by a machine crash; the MANIFEST is always readable, and Open reports corruption only where a machine crash emptied CURRENT; tables of the MANIFEST and of readers exist; fresh numbers |
| `faults` | `Repair`, `DurabilityFaults` | 2 writes, 7 file numbers, 1 crash, 2 repairs, all errors, reuse_logs | no acknowledged write lost and fresh numbers, when file operations fail without leaving bytes and when `RepairDB` is run, interrupted and run again; excepted are the entries of a log that `RepairDB` could not convert |
| `torn_log` | `Durability`, `DurabilityTornLog` | 2 writes, failed appends leave bytes | violation: see findings |
| `compaction` | `MCCompaction`, `CompactionSafety` | 2 keys, 4 writes, 4 levels with limits that are reached, 1 snapshot | reads equal reads of the full history, levels disjoint, newer above older, valid inputs |
| `manual_compaction` | `MCCompaction`, `CompactionManual` | 3 keys, 5 writes, no deletions, 4 levels, requests for levels 0 and 1 | reads are correct under manual compactions as long as levels are disjoint; compactions settle and requests return |
| `manual_gap` | `MCCompaction`, `CompactionManualGap` | 3 keys, 5 writes, 4 levels | violation: see findings |
| `dbiter` | `MCDBIter`, `DBIter` | histories of 3 entries over 2 keys in every layout, and larger ones, at every snapshot | the iterator is a cursor; its direction invariant; table lookups are exact |
| `log_format` | `LogFormat`, `LogFormat` | blocks of 7, headers of 3, a file buffer of 3, 3 records of 0 to 9 bytes, 1 crash, 1 damage | an intact log is read back; of a damaged one nothing is invented and little lost |
| `table_cache` | `MCTableCache`, `TableCache` | 2 threads, 3 keys, 5 insertions, capacities 0 and 2, charges 1 and 2, 1 mapping, 1 descriptor | references, hash table, lists and usage agree; no more mappings or descriptors than allowed, and none forgotten; an insertion evicts |
| `skip_list` | `SkipList`, `SkipList` | 3 keys, 2 levels | a reader follows no unset link and misses no key inserted before its call; between insertions every level is sorted |

Why the bounds suffice to be of interest: three threads give a leader, a
follower in its group and one that arrives meanwhile, and four calls let a
thread come back; a stop trigger of 2 makes writers wait for a compaction while
a flush adds a file. Two writes and one crash cover a crash at every step of a
flush and of a compaction with a nested flush, and a second recovery after it;
each open uses up to three file numbers (with 10 numbers the run has 2.3 million
states, takes five minutes and passes as well). Two keys and four writes split the
entries of one key over two files and two levels under a deletion and a
snapshot; three keys and five writes are the least that let a flush fall into the
gap between two inputs of a manual compaction. Record lengths are those at which a fragment ends before, at and
behind the end of a block and of a header, and the buffer is smaller than a
header and than most payloads. Three keys and two levels let an insertion go
before, between and behind nodes of both heights while the list grows. A
second repair meets everything an interrupted first one leaves; repairs come after
the last crash, since a death of the Repairer is a step of its own (`RepairFails`).
Every named bound is a guard: it
ends a behaviour and enables nothing.

What the runs do not reach: `WritePath` starts with an empty level 0, while a
recovered database may start with more tables there than `kL0_StopWritesTrigger`
(`RecoverLogFile` writes them without asking), so `L0Bounded` is about what writes
add. `faults` has no torn appends; what these do is a finding (`torn_log`) and an
observation below.

### Fairness

`write_liveness` assumes strong fairness of each client thread and of the
background thread. A step that locks the mutex is enabled again and again
while others lock and unlock it, so weak fairness would let a mutex starve a
thread for ever; POSIX mutexes are not FIFO, but the wait queue of the database
is, and a thread that competes for a mutex again and again gets it in practice.
That a merge ends (`BgCompacted`) needs its own fairness because the merge loop
may be interrupted by any number of flushes. `manual_compaction` assumes weak
fairness of the one background thread of `Env::Schedule`, with its enabling
condition written out as `Scheduled`, and of a caller that is woken. The last
level has room for all writes there (`RoomyLast`), so that no pick is stopped by
the assertion of section 4. No fairness is assumed of callers, crashes
or errors.

## 4. Findings

* **A write behind a torn log record is lost** (`torn_log`). After an append that
  fails half way `bg_error_` is not set (only a failed sync sets it), the next
  write returns OK, and recovery drops its record.
* **A manual compaction and a flush can make a level overlap** (`manual_gap`). A
  manual compaction's inputs may leave a gap between their ranges; a flush in the
  middle of it puts a memtable into that gap one level down, where the output
  that spans the gap arrives next. `Builder` asserts the opposite. From then on
  reads may miss the flushed entry; `ReadsUntilOverlap` shows, in a run that
  includes such flushes, that they are correct before.

Observations without a run of their own. The first is reproduced by checking
`ForcedFlush` of `WritePath` with three threads and three calls, the next two by
other values of the constants; the two after these are part of the runs.

* A forced flush can return without flushing. A null batch that joins another
  writer's group (`db_impl.cc:658`) returns OK with the group; the memtable was
  neither switched nor flushed. The test
  `ForcedMemTableFlushBuildsRecoverableTable` expects a table file, and has
  one thread.
* `Errors = {"manifest"}` with `TornWrites`: a torn MANIFEST tail that a nested
  flush leaves is appended to by the compaction around it, and the database does
  not open (`Openable`).
* `ReuseLogs` with `TornWrites`: appending to a recovered log with a torn tail
  loses what is appended (`ProcessCrashSafe`); with `MachineCrashes`: the reused
  log's old records were never synced.
* CURRENT's temporary file is not synced before the rename (`filename.cc:105-120`),
  so a machine crash may leave CURRENT empty, and `Open` then reports corruption.
  `crash_recovery` includes this: `Openable` says that nothing else makes `Open`
  report corruption, `MachineCrashSafe` that the MANIFEST which CURRENT should
  name still leads to every synced write. Common file systems write such files at
  the rename.
* `Finalize` scores the last level too (`version_set.cc:911`). In `compaction` the
  last level reaches its limit, `PickCompaction`'s
  `assert(level + 1 < config::kNumLevels)` fails for it, and without assertions it
  would read behind the array of levels; the model stops the background thread
  there. To see it, check that no full level is the last one. The limit of level 6
  is about a terabyte.
* `RepairDB` returns OK although it could not convert a log: the error is logged,
  the log moves to `lost/` (`repair.cc:125-130`), and its acknowledged writes are
  not in the database. `RepairKeeps` and `RestServed` except exactly these entries
  (`lost`). The log file itself is kept in `lost/`.
* `log::Reader` with an offset inside a record's fragments reports a missing
  start on an intact log; no caller passes an offset.
* `Repair` with `Openable`: for a directory without logs and tables
  `next_file_number_` of the Repairer stays 1, so the next `DB::Open` gives its new
  MANIFEST the number 1 and writes it over the one it has just read. If that write
  fails, the database does not open again. No write is lost: there is none.
* `RepairDB` interrupted after it moved a log to `lost/` and before CURRENT is
  written leaves the old MANIFEST, or none, and a table that MANIFEST does not name.
  `Repair` assumes that the repair is run again, which finds that table; an `Open`
  instead would remove it (`RemoveObsoleteFiles`).
* After a repair all tables are in level 0 under their old numbers, and a reader
  takes the largest number for the newest. The output of a compaction has a larger
  number than a table flushed while it ran, although its entries are older.
  `repair.cc` promises to recover data, not the order of versions, so no
  property is stated.
* `PosixEnv::LockFile` opens LOCK before it asks the table of locks, and closes the
  second descriptor when it refuses. POSIX ends all locks of a process on a file
  when the process closes any descriptor of it, so the refusal ends the lock that
  other processes see. `UnlockFile` likewise closes its descriptor after it left the
  table. Within one process the table alone excludes a second open. This rests on
  the semantics of fcntl, which is outside the code, and is not modelled.
* A switch of memtables closes the old log without a sync, and a later write with
  `sync` syncs the new log only. A machine crash may thus lose an unsynced write
  before a synced one; `options.h` promises nothing else.

## 5. Proofs

### The write path

`WritePathProofs` and `WritePathVisible` prove, for any set of threads, any number of calls, any batch sizes and any triggers with
`0 < L0Compaction <= L0Slowdown <= L0Stop` (the assumption `ConstantsAssumption` of
`WritePath`):

| Theorem | Statement |
|---|---|
| `TypeCorrect` | `Spec => []TypeOK` |
| `LeaderIsUnique` | `Spec => []SingleLeader` |
| `SequencesAreUnique` | `Spec => []UniqueSequences` |
| `LogCovers` | `Spec => []LogCoversMemtables` |
| `SnapshotsAreStable` | `Spec => SnapshotsStable`, an action property |
| `LevelZeroIsBounded` | `Spec => []L0Bounded` |
| `ImmIsFlushed` | `Spec => []ImmHasFlusher` |
| `SyncIsHonoured` | `Spec => []SyncHonoured` |
| `BatchesAreAtomic` | `Spec => []BatchesAtomic` |
| `AckedIsVisible` | `Spec => []AckedVisible` |

The argument has five layers.

* `Shape`: types, `QueueInv` (the queue holds, once each, exactly the threads
  whose call is neither done nor over), `SingleLeader`, `GroupInv` (the group is a
  non-empty prefix of the queue, and k counts insertions) and `InputsInv`.
  `SingleLeader` alone is not inductive: that a woken writer may lead only when
  it is the front needs that nobody else is past the wait, and that leaving
  removes exactly the group, none of whose members appears twice.
* `DataInv` on top of `Shape`: entries lie at most k past `lastSeq`, which is
  why the next sequence number is new, and the group about to be inserted is in
  the log, which is why the memtable is covered. `SnapshotsStable` follows
  step by step from it.
* `BgInv`: a memtable is switched out only while level 0 has room for its
  table, so the flush that comes later stays within the trigger; and each
  action that creates `imm` or ends a background call schedules the next.
* `SyncInv`: a group with a sync call has a sync leader, and what such a leader
  inserts was covered by its fsync.
* `CallInv`, `OpsInv`, `PendingInv` and `VisibleInv`: the batch of a group is made of
  its writers' whole batches, the entries past `lastSeq` are its first k, and a call
  shows nothing while it waits and all its entries once its leader reported OK. That
  `LastSequence()` moves over whole batches then follows by counting the positions
  of a call in the group's batch, which map one to one to its entries.

Each layer has a lemma per action or family of actions; the theorems combine
them with PTL. What the queue needs of sequences (a concatenation, a part, an
appended element) is stated once, in lemmas named `Seq...`.

### The skip list

`SkipListProofs` proves, for any number of keys and of levels (`SkipListAssumption`: both positive):

| Theorem | Statement |
|---|---|
| `LinksAreInitialised` | `Spec => []LinksInitialised` |
| `LookupsAreExact` | `Spec => []LookupsExact` |
| `ListIsSorted` | `Spec => []ListSorted` |

None of the three is inductive: what a reader may load depends on stores long
past. The invariant `Inv` therefore speaks of the whole order of stores.

* `Successors`: the value of a link is, at every moment until the link is stored
  again, the next key of its level. A reader that knows the first `seen` stores
  loads a value that is valid at `seen` or a later one, and neither skips a key
  linked at `seen`. This is why stale loads lose nothing.
* `Initialised`, `RelaxedFirst` and `Nested`: a node's links are stored before it is
  linked, relaxed stores only concern nodes not yet linked, and a node linked on a
  level is linked on all below. Together they say that a reader who comes to a
  node, or goes down from it, knows a store to the link it loads next.
* `WriterInv`: `prev[l]` is the node after which the new key belongs, on each level
  still to be linked, and levels at or above the height are empty. A reader that
  sees an old or a new height is correct for this reason.
* `ReaderInv`: the reader stands on a node it knows, before its target.

Assumed: stores of one thread to different places may become visible in any order
except as release and acquire order them; loads of one place never go backwards.

### Only model-checked

Liveness, which under fairness is out of the prover's reach, and everything about
Durability and Repair, Compaction, the read path, the log format and the cache.
`Blocks`, `Table`, `DBIter` and `LogFormat` are recursive algorithms, whose results for
every input would need induction over data.

## 6. What is left out

* Corrupt keys, checksums' collisions, compression, and I/O errors on the read
  path: an error there ends the operation and changes no shared state.
* The encodings of batches, edits, handles and names.
* The block cache, which the code has an option for and does not use.
* Memory: arena, slices, lifetimes other than the references of `TableCache` and
  the pinned versions of `Durability`.
* `RepairTable`, the salvage of tables with damaged blocks: no fault of the model
  damages a table, and what a damaged one still yields is a matter of its bytes.
* The table of file locks, the logger, directory listing and plain reads of
  `PosixEnv`; a model of the locks would be one of fcntl (section 4).
* The components marked `not_modelled` in `PROJECT.json`: byte encodings, CRC,
  arena, dump tool, C bindings and benchmark. They are functions of their
  arguments or conversions, with no state that another part sees.

## 7. Plan

1. An abstract store (a map with a sequence of acknowledged batches and
   snapshots) that `Compaction` implements, and a prefix property of synced writes
   across crashes that `Durability` implements.
2. Proofs: the numbering invariant of `Durability` (`NumbersFresh`), lemmas about the
   drop rule and the boundary files of `Versions`, `CacheExact` and `RefsExact` of
   `TableCache`.
3. `PosixEnv`: the lock table over a model of fcntl, with several processes, and
   the background queue.
4. `WriteBatch` and `VersionEdit` as encodings over small alphabets.
