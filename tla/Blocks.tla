------------------------------- MODULE Blocks -------------------------------
(***************************************************************************)
(* Keys, BlockBuilder and Block::Iter (src/src/db/dbformat.cc,             *)
(* src/src/util/comparator.cc, src/src/table/block_build.cc, block.cc).    *)
(*                                                                         *)
(* A user key is a sequence of bytes; an internal key is its user key      *)
(* followed by one element, the tag 2 * sequence + type, where type 1 is a *)
(* value and 0 a deletion.  The elements are small numbers.  An offset in  *)
(* a block is the position of an entry; the offset restarts_, where the    *)
(* entries end, is one more than their number.  An entry keeps its prefix  *)
(* compression: the length it shares with the key before and the rest.     *)
(*                                                                         *)
(* An iterator is a record; its field kind selects the class.              *)
(***************************************************************************)
EXTENDS Integers, Sequences, SequencesExt, FiniteSetsExt

CONSTANTS MaxByte,               \* stands for the byte 0xff
          MaxTag,                \* PackSequenceAndType(kMaxSequenceNumber, kValueTypeForSeek)
          BlockRestartInterval   \* options.block_restart_interval, of data blocks

ASSUME BlocksAssumption ==
    MaxByte \in Nat /\ MaxTag \in Nat /\ BlockRestartInterval \in Nat \ {0}

UserKey(key) == Front(key)
Tag(key) == Last(key)
Sequence(key) == Tag(key) \div 2
IsValue(key) == Tag(key) % 2 = 1
SeekKey(user, seq) == Append(user, 2 * seq + 1)

\* BytewiseComparatorImpl::Compare(a, b) < 0.
UserBefore(a, b) ==
    \E i \in 1..Len(b) :
        /\ \A j \in 1..(i - 1) : j <= Len(a) /\ a[j] = b[j]
        /\ i > Len(a) \/ a[i] < b[i]

\* InternalKeyComparator::Compare(a, b) < 0.
Before(a, b) ==
    \/ UserBefore(UserKey(a), UserKey(b))
    \/ UserKey(a) = UserKey(b) /\ Tag(a) > Tag(b)

\* The length of the longest common prefix.
Shared(a, b) ==
    Max({n \in 0..Min({Len(a), Len(b)}) : SubSeq(a, 1, n) = SubSeq(b, 1, n)})

\* BytewiseComparatorImpl::FindShortestSeparator.
UserSeparator(start, limit) ==
    LET d == Shared(start, limit) + 1
    IN  IF /\ d <= Len(start) /\ d <= Len(limit)
           /\ start[d] < MaxByte /\ start[d] + 1 < limit[d]
          THEN Append(SubSeq(start, 1, d - 1), start[d] + 1)
          ELSE start

\* BytewiseComparatorImpl::FindShortSuccessor.
UserSuccessor(key) ==
    LET small == {i \in DOMAIN key : key[i] # MaxByte}
    IN  IF small = {} THEN key
        ELSE LET i == Min(small) IN Append(SubSeq(key, 1, i - 1), key[i] + 1)

\* A shortened user key replaces a key only if it is shorter and larger.
Shortened(key, user) ==
    IF Len(user) < Len(UserKey(key)) /\ UserBefore(UserKey(key), user)
      THEN Append(user, MaxTag) ELSE key

FindShortestSeparator(start, limit) ==
    Shortened(start, UserSeparator(UserKey(start), UserKey(limit)))
FindShortSuccessor(key) == Shortened(key, UserSuccessor(UserKey(key)))

-----------------------------------------------------------------------------
(* BlockBuilder. *)

\* A builder whose options say block_restart_interval = interval.
EmptyBlock(interval) ==
    [entries |-> <<>>, restarts |-> <<1>>, counter |-> 0, last |-> <<>>,
     interval |-> interval]

\* BlockBuilder::Add.
BlockAdd(b, key, val) ==
    LET restart == b.counter >= b.interval
        shared  == IF restart THEN 0 ELSE Shared(b.last, key)
        entry   == [shared |-> shared, rest |-> SubSeq(key, shared + 1, Len(key)),
                    val |-> val]
    IN  [b EXCEPT !.entries = Append(@, entry),
                  !.restarts = IF restart THEN Append(@, Len(b.entries) + 1) ELSE @,
                  !.counter = IF restart THEN 1 ELSE @ + 1,
                  !.last = key]

\* CurrentSizeEstimate: the bytes of keys that prefix compression leaves.
CurrentSizeEstimate(b) == FoldLeft(LAMBDA n, e : n + Len(e.rest), 0, b.entries)

\* Finish: what a reader finds of the block.
FinishBlock(b) == [entries |-> b.entries, restarts |-> b.restarts]

-----------------------------------------------------------------------------
(* Block::Iter.  nxt is NextEntryOffset(), the end of value_; ri counts     *)
(* restart points from 0.                                                   *)

Limit(it) == Len(it.block.entries) + 1
NumRestarts(it) == Len(it.block.restarts)
GetRestartPoint(it, index) == it.block.restarts[index + 1]

NewBlockIter(block) ==
    [kind |-> "block", block |-> block, cur |-> Len(block.entries) + 1,
     ri |-> Len(block.restarts), key |-> <<>>, val |-> 0, nxt |-> 0]

BlockValid(it) == it.cur < Limit(it)

SeekToRestartPoint(it, index) ==
    [it EXCEPT !.key = <<>>, !.ri = index, !.nxt = GetRestartPoint(it, index)]

\* ParseNextKey; it fails iff the result is not Valid().
ParseNextKey(it) ==
    IF it.nxt >= Limit(it)
      THEN [it EXCEPT !.cur = Limit(it), !.ri = NumRestarts(it)]
      ELSE LET e == it.block.entries[it.nxt]
               passed == {r \in (it.ri + 1)..(NumRestarts(it) - 1) :
                              GetRestartPoint(it, r) < it.nxt}
           IN  [it EXCEPT !.cur = it.nxt, !.nxt = it.nxt + 1, !.val = e.val,
                          !.key = SubSeq(it.key, 1, e.shared) \o e.rest,
                          !.ri = Max({it.ri} \cup passed)]

\* The key stored in full at a restart point.
RestartKey(it, index) == it.block.entries[GetRestartPoint(it, index)].rest

\* The binary search of Seek in the restart array.
RECURSIVE LastRestartBefore(_, _, _, _)
LastRestartBefore(it, target, left, right) ==
    IF left >= right THEN left
    ELSE LET mid == (left + right + 1) \div 2
         IN  IF Before(RestartKey(it, mid), target)
               THEN LastRestartBefore(it, target, mid, right)
               ELSE LastRestartBefore(it, target, left, mid - 1)

\* The linear search of Seek.
RECURSIVE ParseUntil(_, _)
ParseUntil(it, target) ==
    LET p == ParseNextKey(it)
    IN  IF ~BlockValid(p) \/ ~Before(p.key, target) THEN p ELSE ParseUntil(p, target)

BlockSeek(it, target) ==
    LET below == BlockValid(it) /\ Before(it.key, target)
        above == BlockValid(it) /\ Before(target, it.key)
        left  == LastRestartBefore(it, target, IF below THEN it.ri ELSE 0,
                                   IF above THEN it.ri ELSE NumRestarts(it) - 1)
    IN  IF BlockValid(it) /\ it.key = target THEN it
        ELSE IF below /\ left = it.ri THEN ParseUntil(it, target)
        ELSE ParseUntil(SeekToRestartPoint(it, left), target)

\* ParseNextKey repeated until the next entry starts at offset end.
RECURSIVE ParseUpTo(_, _)
ParseUpTo(it, end) ==
    LET p == ParseNextKey(it)
    IN  IF BlockValid(p) /\ p.nxt < end THEN ParseUpTo(p, end) ELSE p

BlockSeekToFirst(it) == ParseNextKey(SeekToRestartPoint(it, 0))
BlockSeekToLast(it) ==
    ParseUpTo(SeekToRestartPoint(it, NumRestarts(it) - 1), Limit(it))

RestartsBefore(it, original) == {r \in 0..it.ri : GetRestartPoint(it, r) < original}

BlockPrev(it) ==
    LET restarts == RestartsBefore(it, it.cur)
    IN  IF restarts = {}
          THEN [it EXCEPT !.cur = Limit(it), !.ri = NumRestarts(it)]
          ELSE ParseUpTo(SeekToRestartPoint(it, Max(restarts)), it.cur)
=============================================================================
