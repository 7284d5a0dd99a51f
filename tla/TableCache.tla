----------------------------- MODULE TableCache -----------------------------
(***************************************************************************)
(* The cache of open tables and the threads that use it: one shard of      *)
(* ShardedLRUCache with its hash table, TableCache::FindTable, Get,        *)
(* NewIterator and Evict, and the limits of PosixEnv on the files that are *)
(* mapped or keep a descriptor (src/src/util/cache.cc, util/env.cc,        *)
(* db/table_cache.cc).                                                     *)
(*                                                                         *)
(* The methods of LRUCache hold its mutex and are one step.  FindTable     *)
(* does not: between its Lookup and its Insert it opens the table, and     *)
(* other threads may look up, insert, evict and release meanwhile.  A      *)
(* Limiter has no lock: its two atomic operations are two steps.  A key    *)
(* is a file number.  Shards share nothing but the code; one is modelled.  *)
(***************************************************************************)
EXTENDS Integers, Sequences, FiniteSets, SequencesExt, FiniteSetsExt

CONSTANTS
    Threads,
    Keys,         \* file numbers
    Hash,         \* the hash of each key
    Capacities,   \* values of capacity_
    Charge,       \* the charge of the entry of each key
    InitLength,   \* the least length of the hash table, a power of 2
    MaxInserts,   \* bound on the number of inserts
    MaxAcquires   \* [mmap, fd]: MaxMmaps() and MaxOpenFiles()

ASSUME TableCacheAssumption ==
    /\ Hash \in [Keys -> Nat] /\ Capacities \subseteq Nat /\ Charge \in [Keys -> Nat]
    /\ InitLength \in Nat \ {0} /\ MaxInserts \in Nat
    /\ MaxAcquires \in [{"mmap", "fd"} -> Nat]

VARIABLES
    cap,      \* capacity_
    cache,    \* the LRUCache, see NewCache
    allowed,  \* acquires_allowed_ of mmap_limiter_ and of fd_limiter_
    user      \* for each thread [pc, key, handle, file]: "idle", "missed" key,
              \* opening its file, "opened" it, or "using" the handle for key

vars == <<cap, cache, allowed, user>>

-----------------------------------------------------------------------------
(* LRUCache.  heap is the sequence of all LRUHandles ever allocated, each    *)
(* [key, charge, file, refs, inCache, freed]; lru is the list, oldest first, *)
(* and inUse the other, whose order does not matter; list is the array of the chains of the HandleTable.  The    *)
(* file of a table is a mapping ("mmap"), a descriptor ("fd"), or is opened  *)
(* for each read ("none").                                                   *)

NewCache ==
    [heap |-> <<>>, lru |-> <<>>, inUse |-> {}, usage |-> 0,
     list |-> [i \in 1..InitLength |-> <<>>], elems |-> 0]

\* HandleTable: the chain of a key, and the handle of the key in it.
Chain(list, key) == (Hash[key] % Len(list)) + 1

FindPointer(c, key) == {h \in Range(c.list[Chain(c.list, key)]) : c.heap[h].key = key}

RECURSIVE LengthFor(_, _)
LengthFor(length, elems) == IF length < elems THEN LengthFor(2 * length, elems) ELSE length

\* Resize moves the chains, one after the other, to the heads of the new ones.
Resize(c) ==
    LET n   == LengthFor(InitLength, c.elems)
        all == FlattenSeq(c.list)
    IN  [c EXCEPT !.list = [i \in 1..n |->
            Reverse(SelectSeq(all, LAMBDA h : (Hash[c.heap[h].key] % n) + 1 = i))]]

\* More handles than chains.
Crowded(c) == c.elems > Len(c.list)

\* HandleTable::Insert: the handle takes the place of an old one of its key.
TableInsert(c, h) ==
    LET key == c.heap[h].key
        i   == Chain(c.list, key)
        old == FindPointer(c, key)
        new == [c EXCEPT !.list[i] = IF old = {} THEN Append(@, h)
                                     ELSE [j \in DOMAIN @ |-> IF @[j] \in old THEN h ELSE @[j]],
                         !.elems = IF old = {} THEN @ + 1 ELSE @]
    IN  IF Crowded(new) THEN Resize(new) ELSE new

MutRemoveChain(c, key) ==
    [c EXCEPT !.list[Chain(c.list, key)] = <<>>,
              !.elems = @ - Cardinality(FindPointer(c, key))]
TableRemove(c, key) ==
    [c EXCEPT !.list[Chain(c.list, key)] = SelectSeq(@, LAMBDA h : h \notin FindPointer(c, key)),
              !.elems = @ - Cardinality(FindPointer(c, key))]

Ref(c, h) ==
    LET moves == c.heap[h].refs = 1 /\ c.heap[h].inCache
    IN  [c EXCEPT !.heap[h].refs = @ + 1,
                  !.lru = IF moves THEN Remove(@, h) ELSE @,
                  !.inUse = IF moves THEN @ \cup {h} ELSE @]

\* A handle without references is deleted, and its table with it.
FreedHandle == [key |-> 0, charge |-> 0, file |-> "none", refs |-> 0, inCache |-> FALSE,
                freed |-> TRUE]

MutFreeEarly(c, h) ==
    LET refs  == c.heap[h].refs - 1
        moves == refs = 1 /\ c.heap[h].inCache
    IN  [c EXCEPT !.heap[h].refs = refs,
                  !.heap[h].freed = ~c.heap[h].inCache,
                  !.lru = IF moves THEN Append(@, h) ELSE @,
                  !.inUse = IF moves THEN @ \ {h} ELSE @]
Unref(c, h) ==
    LET refs  == c.heap[h].refs - 1
        moves == refs = 1 /\ c.heap[h].inCache
    IN  [c EXCEPT !.heap[h] = IF refs = 0 THEN FreedHandle ELSE [@ EXCEPT !.refs = refs],
                  !.lru = IF moves THEN Append(@, h) ELSE @,
                  !.inUse = IF moves THEN @ \ {h} ELSE @]

\* What a step of the cache from c to d gives back to a limiter: the files of
\* the handles it frees (DeleteEntry).
ReleasedBy(c, d, limiter) ==
    Cardinality({h \in DOMAIN c.heap :
        ~c.heap[h].freed /\ d.heap[h].freed /\ c.heap[h].file = limiter})

\* FinishErase of the handle in H, if there is one.
FinishErase(c, H) ==
    IF H = {} THEN c
    ELSE LET h == CHOOSE h \in H : TRUE
         IN  Unref([c EXCEPT !.heap[h].inCache = FALSE, !.usage = @ - c.heap[h].charge,
                             !.lru = Remove(@, h), !.inUse = @ \ {h}], h)

Erase(c, key) == FinishErase(TableRemove(c, key), FindPointer(c, key))

MutEvictOne(c, limit) ==
    IF c.usage > limit /\ c.lru # <<>> THEN Erase(c, c.heap[Head(c.lru)].key) ELSE c

\* The loop that evicts while more than limit is used.
RECURSIVE EvictDownTo(_, _)
EvictDownTo(c, limit) ==
    IF c.usage > limit /\ c.lru # <<>>
      THEN EvictDownTo(Erase(c, c.heap[Head(c.lru)].key), limit) ELSE c

\* The rest of Insert for a new handle that is cached.
Cached(c, h) ==
    FinishErase(TableInsert([c EXCEPT !.inUse = @ \cup {h}, !.usage = @ + c.heap[h].charge], h),
                FindPointer(c, c.heap[h].key))

LRUInsert(c, key, file) ==
    LET h   == Len(c.heap) + 1
        new == [c EXCEPT !.heap = Append(@,
                    [key |-> key, charge |-> Charge[key], file |-> file,
                     refs |-> IF cap > 0 THEN 2 ELSE 1, inCache |-> cap > 0, freed |-> FALSE])]
    IN  EvictDownTo(IF cap > 0 THEN Cached(new, h) ELSE new, cap)

\* Prune: the loop ends when lru_ is empty.
LRUPrune(c) == EvictDownTo(c, -1)

-----------------------------------------------------------------------------
(* The threads *)

Idler == [pc |-> "idle", key |-> 0, handle |-> 0, file |-> "none"]

Init ==
    /\ cap \in Capacities
    /\ cache = NewCache
    /\ allowed = MaxAcquires
    /\ user = [t \in Threads |-> Idler]

Idle(t) == user' = [user EXCEPT ![t] = Idler]
Uses(t, key, h) ==
    user' = [user EXCEPT ![t] = [Idler EXCEPT !.pc = "using", !.key = key, !.handle = h]]
Go(t, pc, file) == user' = [user EXCEPT ![t].pc = pc, ![t].file = file]

\* A step of the cache; the files of freed handles are closed or unmapped.
CacheStep(new) ==
    /\ cache' = new
    /\ allowed' = [l \in DOMAIN allowed |-> allowed[l] + ReleasedBy(cache, new, l)]
    /\ UNCHANGED cap

\* FindTable looks the table up.
Lookup(t, key) ==
    /\ user[t].pc = "idle"
    /\ \/ \E h \in FindPointer(cache, key) : CacheStep(Ref(cache, h)) /\ Uses(t, key, h)
       \/ /\ FindPointer(cache, key) = {}
          /\ user' = [user EXCEPT ![t] = [Idler EXCEPT !.pc = "missed", !.key = key]]
          /\ UNCHANGED <<cap, cache, allowed>>

\* Limiter::Acquire takes one, whether or not there is one, and looks at what
\* there was.
Acquire(limiter) == allowed' = [allowed EXCEPT ![limiter] = @ - 1]
MutFreeAtZero(limiter) == allowed[limiter] >= 0
Free(limiter) == allowed[limiter] > 0

\* Acquire puts back what there was not; Limiter::Release.
GiveBack(limiter) == allowed' = [allowed EXCEPT ![limiter] = @ + 1]

\* NewRandomAccessFile, with the file open: may it be mapped?
AcquireMmap(t) ==
    /\ user[t].pc = "missed"
    /\ Acquire("mmap")
    /\ Go(t, IF Free("mmap") THEN "map" ELSE "noMmap", "none")
    /\ UNCHANGED <<cap, cache>>

NoMmap(t) ==
    /\ user[t].pc = "noMmap"
    /\ GiveBack("mmap")
    /\ Go(t, "descriptor", "none")
    /\ UNCHANGED <<cap, cache>>

\* mmap succeeds or the file is empty.
MapFile(t) ==
    /\ user[t].pc = "map"
    /\ Go(t, "opened", "mmap") \/ Go(t, "descriptor", "mmap")
    /\ UNCHANGED <<cap, cache, allowed>>

\* The constructor of PosixRandomAccessFile.  For an empty file the right to
\* map it is given back behind it.
AcquireFd(t) ==
    /\ user[t].pc = "descriptor"
    /\ allowed' = [mmap |-> allowed.mmap + IF user[t].file = "mmap" THEN 1 ELSE 0,
                   fd |-> allowed.fd - 1]
    /\ IF Free("fd") THEN Go(t, "opened", "fd") ELSE Go(t, "noFd", "none")
    /\ UNCHANGED <<cap, cache>>

NoFd(t) ==
    /\ user[t].pc = "noFd"
    /\ GiveBack("fd")
    /\ Go(t, "opened", "none")
    /\ UNCHANGED <<cap, cache>>

\* FindTable has opened the table after a miss.
Insert(t) ==
    /\ user[t].pc = "opened" /\ Len(cache.heap) < MaxInserts
    /\ CacheStep(LRUInsert(cache, user[t].key, user[t].file))
    /\ Uses(t, user[t].key, Len(cache.heap) + 1)

\* The file cannot be opened or mapped, or the table cannot be read; errors
\* are not cached, and the file is closed.
OpenFails(t) ==
    /\ user[t].pc \in {"missed", "map", "opened"}
    /\ \/ /\ user[t].pc = "map" \/ user[t].file = "mmap"
          /\ GiveBack("mmap")
       \/ /\ user[t].file = "fd"
          /\ GiveBack("fd")
       \/ /\ user[t].pc # "map" /\ user[t].file = "none"
          /\ UNCHANGED allowed
    /\ Idle(t)
    /\ UNCHANGED <<cap, cache>>

\* The end of Get, or of an iterator (UnrefEntry).
Release(t) ==
    /\ user[t].pc = "using"
    /\ CacheStep(Unref(cache, user[t].handle))
    /\ Idle(t)

\* Evict, when an obsolete table is removed.
Evict(key) == CacheStep(Erase(cache, key)) /\ UNCHANGED user

Prune == CacheStep(LRUPrune(cache)) /\ UNCHANGED user

Open(t) == AcquireMmap(t) \/ NoMmap(t) \/ MapFile(t) \/ AcquireFd(t) \/ NoFd(t)

Next ==
    \/ \E t \in Threads :
          Open(t) \/ Insert(t) \/ OpenFails(t) \/ Release(t) \/ \E k \in Keys : Lookup(t, k)
    \/ \E k \in Keys : Evict(k)
    \/ Prune

Spec == Init /\ [][Next]_vars

-----------------------------------------------------------------------------
(* Properties *)

Handles == DOMAIN cache.heap
InTable == UNION {Range(cache.list[i]) : i \in DOMAIN cache.list}
InCache == {h \in Handles : cache.heap[h].inCache}

\* The references to a handle are the threads that use it and the cache, and it
\* is freed when there are none: no thread uses a table that was closed, though
\* it was evicted, replaced by another thread's copy or pushed out, and no table
\* stays open that nobody uses and the cache has given up.
RefsExact ==
    \A h \in Handles :
        LET users == {t \in Threads : user[t].pc = "using" /\ user[t].handle = h}
        IN  /\ cache.heap[h].refs = Cardinality(users) + IF h \in InCache THEN 1 ELSE 0
            /\ cache.heap[h].freed <=> cache.heap[h].refs = 0
            /\ \A t \in users : cache.heap[h].key = user[t].key

\* The cached handles are those in the hash table, each once and in the chain
\* where FindPointer looks for it, no two with one key, and elems_ counts them.
\* lru_ holds those no thread uses and in_use_ the others, so that only tables
\* nobody uses are pushed out; usage_ is what all are charged, and a capacity
\* of 0 turns caching off.
CacheExact ==
    /\ InTable = InCache /\ cache.elems = Cardinality(InCache)
    /\ \A h \in InCache : h \in FindPointer(cache, cache.heap[h].key)
    /\ \A g, h \in InCache : cache.heap[g].key = cache.heap[h].key => g = h
    /\ Len(FlattenSeq(cache.list)) = Cardinality(InCache)
    /\ Range(cache.lru) = {h \in InCache : cache.heap[h].refs = 1}
    /\ Len(cache.lru) = Cardinality(Range(cache.lru))
    /\ cache.inUse = {h \in InCache : cache.heap[h].refs > 1}
    /\ cache.usage = FoldSet(LAMBDA h, n : n + cache.heap[h].charge, 0, InCache)
    /\ cap = 0 => InCache = {}

\* What a limiter still allows, the files of its kind that are open and the
\* threads that are trying make up its maximum: none is leaked by an error, an
\* eviction or a replaced handle, and never are more files mapped, or more
\* descriptors kept, than it allows.
Trying(limiter) ==
    {t \in Threads : user[t].pc \in IF limiter = "mmap" THEN {"map", "noMmap"} ELSE {"noFd"}}
Holding(limiter) ==
    {t \in Threads : user[t].pc \in {"descriptor", "opened"} /\ user[t].file = limiter}
OpenFiles(limiter) == {h \in Handles : ~cache.heap[h].freed /\ cache.heap[h].file = limiter}

LimitsExact ==
    \A l \in DOMAIN allowed :
        LET n == Cardinality(Holding(l)) + Cardinality(OpenFiles(l))
        IN  /\ allowed[l] + n + Cardinality(Trying(l)) = MaxAcquires[l]
            /\ n <= MaxAcquires[l]

\* After an insert the cache is within its capacity or all it holds is in use:
\* tables pinned by readers may take it over its limit, nothing else.
InsertEvicts ==
    [][Len(cache'.heap) > Len(cache.heap) => cache'.usage <= cap \/ cache'.lru = <<>>]_vars
=============================================================================
