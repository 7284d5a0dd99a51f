------------------------------ MODULE SkipList ------------------------------
(***************************************************************************)
(* The skip list under a memtable (src/db/skiplist.h): one writer inserts  *)
(* with a few atomic stores while readers walk the list without a lock.    *)
(*                                                                         *)
(* There is one writer, so all stores have an order: hist is the sequence  *)
(* of them.  A reader knows a prefix of hist, the stores 1..seen, which    *)
(* happened before its next step.  A load may return any store to its      *)
(* location that no store known to the reader overwrites, so a reader may  *)
(* see a late store and not the ones before it.  A load-acquire that       *)
(* returns a store-release makes every store up to that one known.         *)
(* Readers store nothing, so one of them stands for all.                   *)
(***************************************************************************)
EXTENDS Integers, Sequences

CONSTANTS
    MaxKey,      \* the keys are 1..MaxKey
    kMaxHeight   \* levels of the list (12 in the code)

ASSUME SkipListAssumption == MaxKey \in Nat \ {0} /\ kMaxHeight \in Nat \ {0}

Key == 1..MaxKey
Level == 0..kMaxHeight - 1

\* A node is named by its key; head_ (HeadNode) sorts before and a null pointer after
\* every key, as the comparisons of the code treat them.
HeadNode == 0
Nil == MaxKey + 1
Node == {HeadNode} \cup Key
Link == Node \cup {Nil}

\* max_height_ is recorded as one more word of head_.
HeightSlot == kMaxHeight

VARIABLES
    hist,        \* every atomic store so far, in the writer's order
    published,   \* what the writer had stored when it last released the mutex
    inserted,    \* keys whose Insert returned
    wpc, wkey, wx, wlevel, prev, wheight,             \* the locals of Insert
    rpc, op, target, x, level, seen, hseen, since, ret, node  \* the reader

memory == <<hist, published, inserted>>
writer == <<wpc, wkey, wx, wlevel, prev, wheight>>
reader == <<rpc, op, target, x, level, seen, hseen, since, ret, node>>
vars == <<memory, writer, reader>>

Store(n, l, v, release) == [n |-> n, l |-> l, v |-> v, release |-> release]

-----------------------------------------------------------------------------
(* Memory *)

At(i, n, l) == hist[i].n = n /\ hist[i].l = l

\* The stores to (n, l) that a load may return when 1..known happened before it.
Readable(n, l, known) ==
    {i \in DOMAIN hist : At(i, n, l) /\ \A j \in i + 1..known : ~At(j, n, l)}

\* What the writer itself reads: the last store.
Last(n, l) == hist[CHOOSE i \in Readable(n, l, Len(hist)) : TRUE].v

\* The keys that the stores 1..t link at level l.
Keys(l, t) == {k \in Key : \E i \in 1..t : hist[i].l = l /\ hist[i].v = k}

GetMaxHeight == Last(HeadNode, HeightSlot)

\* Mutant: the loop steps over a node with the key itself.
MutPastEqual(key, n) == n # Nil /\ n <= key

KeyIsAfterNode(key, n) == n # Nil /\ n < key

-----------------------------------------------------------------------------
(* The writer: Insert *)

InsertCall(k) ==
    /\ wpc = "idle"
    /\ k \notin inserted
    /\ wpc' = "find"
    /\ wkey' = k
    /\ wx' = HeadNode
    /\ wlevel' = GetMaxHeight - 1
    /\ prev' = [l \in Level |-> Nil]
    /\ UNCHANGED <<wheight, memory, reader>>

\* One round of the loop of FindGreaterOrEqual(key, prev).
InsertFind ==
    /\ wpc = "find"
    /\ LET next == Last(wx, wlevel) IN
       IF KeyIsAfterNode(wkey, next)
       THEN wx' = next /\ UNCHANGED <<wpc, wlevel, prev>>
       ELSE /\ prev' = [prev EXCEPT ![wlevel] = wx]
            /\ wpc' = IF wlevel = 0 THEN "height" ELSE "find"
            /\ wlevel' = IF wlevel = 0 THEN 0 ELSE wlevel - 1
            /\ wx' = IF wlevel = 0 THEN HeadNode ELSE wx
    /\ UNCHANGED <<wkey, wheight, memory, reader>>

\* Mutant: max_height_ keeps its old value when the list grows.
MutHeightNotStored(h) ==
    /\ wpc = "height"
    /\ wheight' = h
    /\ prev' = [l \in Level |-> IF l \in GetMaxHeight..h - 1 THEN HeadNode ELSE prev[l]]
    /\ wpc' = "set"
    /\ UNCHANGED <<hist, wkey, wx, wlevel, published, inserted, reader>>

\* RandomHeight, the predecessors on new levels, and the relaxed store.
InsertHeight(h) ==
    /\ wpc = "height"
    /\ wheight' = h
    /\ IF h > GetMaxHeight
       THEN /\ prev' = [l \in Level |-> IF l \in GetMaxHeight..h - 1 THEN HeadNode ELSE prev[l]]
            /\ hist' = Append(hist, Store(HeadNode, HeightSlot, h, FALSE))
       ELSE UNCHANGED <<prev, hist>>
    /\ wpc' = "set"
    /\ UNCHANGED <<wkey, wx, wlevel, published, inserted, reader>>

\* x->NoBarrier_SetNext(i, prev[i]->NoBarrier_Next(i))
InsertSetNext ==
    /\ wpc = "set"
    /\ hist' = Append(hist, Store(wkey, wlevel, Last(prev[wlevel], wlevel), FALSE))
    /\ wpc' = "link"
    /\ UNCHANGED <<wkey, wx, wlevel, prev, wheight, published, inserted, reader>>

\* Mutant: the node is linked with a relaxed store.
MutRelaxedLink ==
    /\ wpc = "link"
    /\ hist' = Append(hist, Store(prev[wlevel], wlevel, wkey, FALSE))
    /\ IF wlevel + 1 < wheight
       THEN wpc' = "set" /\ wlevel' = wlevel + 1 /\ UNCHANGED <<wkey, prev, wheight, inserted>>
       ELSE /\ inserted' = inserted \cup {wkey}
            /\ wpc' = "idle" /\ wkey' = Nil /\ wlevel' = 0 /\ wheight' = 1
            /\ prev' = [l \in Level |-> Nil]
    /\ UNCHANGED <<wx, published, reader>>

\* prev[i]->SetNext(i, x), and the next round or the return.
InsertLink ==
    /\ wpc = "link"
    /\ hist' = Append(hist, Store(prev[wlevel], wlevel, wkey, TRUE))
    /\ IF wlevel + 1 < wheight
       THEN wpc' = "set" /\ wlevel' = wlevel + 1 /\ UNCHANGED <<wkey, prev, wheight, inserted>>
       ELSE /\ inserted' = inserted \cup {wkey}
            /\ wpc' = "idle" /\ wkey' = Nil /\ wlevel' = 0 /\ wheight' = 1
            /\ prev' = [l \in Level |-> Nil]
    /\ UNCHANGED <<wx, published, reader>>

\* The writing thread releases the database's mutex after its batch.
Publish ==
    /\ wpc = "idle"
    /\ published' = Len(hist)
    /\ UNCHANGED <<hist, inserted, writer, reader>>

-----------------------------------------------------------------------------
(* The reader *)

Larger(a, b) == IF a < b THEN b ELSE a

\* The reader took the memtable under the mutex and builds an Iterator on it.
NewIterator ==
    /\ rpc = "idle"
    /\ seen' = Larger(seen, published)
    /\ op' = "New"
    /\ node' = Nil
    /\ target' = Nil
    /\ ret' = Nil
    /\ since' = seen'
    /\ UNCHANGED <<rpc, x, level, hseen, memory, writer>>

\* A load-acquire of (n, l) that returns the store i.
Acquire(i) == seen' = IF hist[i].release THEN Larger(seen, i) ELSE seen

\* The start of FindGreaterOrEqual, FindLessThan and FindLast: the relaxed
\* load of max_height_ teaches nothing, but it may not go back in time.
Find(o, key) ==
    /\ rpc = "idle"
    /\ \E i \in Readable(HeadNode, HeightSlot, Larger(seen, hseen)) :
          /\ level' = hist[i].v - 1
          /\ hseen' = i
    /\ rpc' = "find"
    /\ op' = o
    /\ target' = key
    /\ x' = HeadNode
    /\ since' = seen
    /\ ret' = Nil
    /\ UNCHANGED <<seen, node, memory, writer>>

Seek(key) == Find("Seek", key)
SeekToLast == Find("SeekToLast", Nil)
Prev == node \in Key /\ Find("Prev", node)
Contains(key) == Find("Contains", key)

\* Does the loop go on along its level?  FindGreaterOrEqual and FindLessThan
\* ask for a key before the target, FindLast for any node.
Advances(next) == IF op = "SeekToLast" THEN next # Nil ELSE KeyIsAfterNode(target, next)

\* What the call returns, and where it leaves the iterator.
Return(next) ==
    /\ ret' = IF op \in {"Seek", "Contains"} THEN next ELSE x
    /\ node' = CASE op = "Contains" -> node
                 [] op = "Seek" -> next
                 [] OTHER -> IF x = HeadNode THEN Nil ELSE x

\* One round of the loop of FindGreaterOrEqual, FindLessThan or FindLast.
FindStep ==
    /\ rpc = "find"
    /\ \E i \in Readable(x, level, seen) :
          /\ Acquire(i)
          /\ LET next == hist[i].v IN
             IF Advances(next)
             THEN x' = next /\ UNCHANGED <<rpc, level, ret, node>>
             ELSE IF level = 0
             THEN rpc' = "idle" /\ Return(next) /\ x' = HeadNode /\ UNCHANGED level
             ELSE level' = level - 1 /\ UNCHANGED <<rpc, x, ret, node>>
    /\ UNCHANGED <<op, target, hseen, since, memory, writer>>

\* SeekToFirst and Next are one load of a link of level 0.
Follow(o, n) ==
    /\ rpc = "idle"
    /\ \E i \in Readable(n, 0, seen) :
          Acquire(i) /\ ret' = hist[i].v /\ node' = hist[i].v
    /\ op' = o
    /\ target' = n
    /\ since' = seen
    /\ UNCHANGED <<rpc, x, level, hseen, memory, writer>>

SeekToFirst == Follow("SeekToFirst", HeadNode)
Next_ == node \in Key /\ Follow("Next", node)

-----------------------------------------------------------------------------
\* The constructor: a null link of head_ on every level, and height 1.
Init ==
    /\ hist = [i \in 1..kMaxHeight + 1 |->
                 IF i <= kMaxHeight THEN Store(HeadNode, i - 1, Nil, TRUE)
                                    ELSE Store(HeadNode, HeightSlot, 1, FALSE)]
    /\ published = kMaxHeight + 1
    /\ inserted = {}
    /\ wpc = "idle" /\ wkey = Nil /\ wx = HeadNode /\ wlevel = 0 /\ wheight = 1
    /\ prev = [l \in Level |-> Nil]
    /\ rpc = "idle" /\ op = "New" /\ target = Nil /\ x = HeadNode /\ level = 0
    /\ seen = kMaxHeight + 1 /\ hseen = 0 /\ since = kMaxHeight + 1
    /\ ret = Nil /\ node = Nil

WriterStep ==
    \/ \E k \in Key : InsertCall(k)
    \/ InsertFind
    \/ \E h \in 1..kMaxHeight : InsertHeight(h)
    \/ InsertSetNext
    \/ InsertLink
    \/ Publish

ReaderStep ==
    \/ NewIterator
    \/ \E k \in Key : Seek(k) \/ Contains(k)
    \/ SeekToFirst
    \/ SeekToLast
    \/ Next_
    \/ Prev
    \/ FindStep

Next == WriterStep \/ ReaderStep

Spec == Init /\ [][Next]_vars

-----------------------------------------------------------------------------
(* Properties *)

\* skiplist.h, Insert and Next: a link is only ever loaded by a reader that
\* knows a store to it.  A node is reached through a release store that comes
\* after the relaxed stores of its own links, on this level and on all below.
LinksInitialised ==
    /\ rpc = "find" => \E i \in 1..seen : At(i, x, level)
    /\ node \in Key => \E i \in 1..seen : At(i, node, 0)

\* skiplist.h, FindGreaterOrEqual, FindLessThan, FindLast and Next: a call
\* misses no key whose insertion happened before it, on whatever levels and
\* at whatever heights it met insertions under way, and it ends on the
\* right side of its target.
LookupsExact ==
    rpc = "idle" =>
      /\ ret \in Keys(0, Len(hist)) \cup {HeadNode, Nil}
      /\ op \in {"Seek", "Contains"} =>
            ret >= target /\ \A k \in Keys(0, since) : k >= target => k >= ret
      /\ op \in {"SeekToFirst", "Next"} =>
            ret > target /\ \A k \in Keys(0, since) : k > target => k >= ret
      /\ op \in {"SeekToLast", "Prev"} =>
            ret < target /\ \A k \in Keys(0, since) : k < target => k <= ret

\* skiplist.h, Insert: between insertions every level is a sorted chain of
\* its keys, each level is a part of the one below, level 0 has all keys,
\* and no level at or above max_height_ has any.
ListSorted ==
    wpc = "idle" =>
      /\ Keys(0, Len(hist)) = inserted
      /\ \A l \in Level :
           LET K == Keys(l, Len(hist)) IN
           /\ l > 0 => K \subseteq Keys(l - 1, Len(hist))
           /\ l >= GetMaxHeight => K = {}
           /\ \A n \in K \cup {HeadNode} :
                /\ Last(n, l) \in K \cup {Nil}
                /\ Last(n, l) > n
                /\ \A k \in K : k > n => k >= Last(n, l)
=============================================================================
