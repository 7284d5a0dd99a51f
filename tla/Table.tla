-------------------------------- MODULE Table --------------------------------
(***************************************************************************)
(* Tables and the iterators of the read path: TableBuilder with its filter *)
(* block, Table::InternalGet, TwoLevelIterator, MergingIterator and the    *)
(* iterators over a memtable and over the files of a level                 *)
(* (src/src/table, src/src/db/memtable.cc, src/src/db/version_set.cc).     *)
(*                                                                         *)
(* A block handle is the number of the block in its table.  Block sizes    *)
(* count the bytes of their keys, and the offset of a block the sizes of   *)
(* the blocks before it with one byte of trailer each.  A filter is the    *)
(* set of user keys it was made of; it also matches FalsePositives.        *)
(* Compression, checksums and I/O errors are left out: blocks are read as  *)
(* they were written.                                                      *)
(***************************************************************************)
EXTENDS Blocks

CONSTANTS BlockSize,       \* options.block_size
          FilterBase,      \* kFilterBase
          FalsePositives   \* user keys every filter matches that has a key

ASSUME TableAssumption == BlockSize \in Nat \ {0} /\ FilterBase \in Nat \ {0}

-----------------------------------------------------------------------------
(* FilterBlockBuilder: filters and the keys of the next one.                *)

NoFilter == [filters |-> <<>>, keys |-> {}]

GenerateFilter(f) == [filters |-> Append(f.filters, f.keys), keys |-> {}]

MutStartAtNext(f, offset) ==
    IF offset \div FilterBase >= Len(f.filters) THEN GenerateFilter(f) ELSE f

RECURSIVE StartBlock(_, _)
StartBlock(f, offset) ==
    IF offset \div FilterBase > Len(f.filters)
      THEN StartBlock(GenerateFilter(f), offset) ELSE f

AddKey(f, key) == [f EXCEPT !.keys = @ \cup {UserKey(key)}]

FinishFilter(f) == IF f.keys = {} THEN f.filters ELSE GenerateFilter(f).filters

KeyMayMatch(filters, offset, key) ==
    LET index == offset \div FilterBase
    IN  index < Len(filters) =>
            /\ filters[index + 1] # {}
            /\ UserKey(key) \in filters[index + 1] \cup FalsePositives

-----------------------------------------------------------------------------
(* TableBuilder. *)

NewTable ==
    [data |-> EmptyBlock(BlockRestartInterval), index |-> EmptyBlock(1),
     blocks |-> <<>>, offsets |-> <<>>, offset |-> 0, pending |-> FALSE,
     last |-> <<>>, filter |-> NoFilter]

Flush(t) ==
    IF t.data.entries = <<>> THEN t
    ELSE LET end == t.offset + CurrentSizeEstimate(t.data) + 1
         IN  [t EXCEPT !.blocks = Append(@, FinishBlock(t.data)),
                       !.offsets = Append(@, t.offset),
                       !.offset = end, !.data = EmptyBlock(BlockRestartInterval),
                       !.pending = TRUE, !.filter = StartBlock(@, end)]

\* The index entry of the block that was written last.
AddIndex(t, key) ==
    [t EXCEPT !.index = BlockAdd(@, key, Len(t.blocks)), !.pending = FALSE]

TableAdd(t, key, val) ==
    LET u == IF t.pending THEN AddIndex(t, FindShortestSeparator(t.last, key)) ELSE t
        v == [u EXCEPT !.filter = AddKey(@, key), !.last = key,
                       !.data = BlockAdd(@, key, val)]
    IN  IF CurrentSizeEstimate(v.data) >= BlockSize THEN Flush(v) ELSE v

\* Finish: what a reader finds of the table.
FinishTable(t) ==
    LET u == Flush(t)
        v == IF u.pending THEN AddIndex(u, FindShortSuccessor(u.last)) ELSE u
    IN  [index |-> FinishBlock(v.index), blocks |-> v.blocks, offsets |-> v.offsets,
         filters |-> FinishFilter(v.filter)]

\* BuildTable: the table of a sequence of entries [key, val].
RECURSIVE AddAll(_, _)
AddAll(t, es) ==
    IF es = <<>> THEN t ELSE AddAll(TableAdd(t, Head(es).key, Head(es).val), Tail(es))

BuildTable(es) == FinishTable(AddAll(NewTable, es))

\* Table::InternalGet: the entry handed to the callback, or none.
InternalGet(t, k) ==
    LET i == BlockSeek(NewBlockIter(t.index), k)
        b == BlockSeek(NewBlockIter(t.blocks[i.val]), k)
    IN  IF BlockValid(i) /\ KeyMayMatch(t.filters, t.offsets[i.val], k) /\ BlockValid(b)
          THEN <<[key |-> b.key, val |-> b.val]>> ELSE <<>>

-----------------------------------------------------------------------------
(* Iterators.  Move(it, op) is it after op, one of <<"first">>, <<"last">>, *)
(* <<"next">>, <<"prev">> and <<"seek", key>>.                              *)

RECURSIVE Move(_, _)

Null == [kind |-> "null"]

\* An iterator over a sorted sequence of entries: MemTableIterator, and
\* LevelFileNumIterator, whose keys are the files' largest keys.
NewListIter(es) == [kind |-> "list", es |-> es, pos |-> Len(es) + 1]

FirstAtOrAfter(es, key) ==
    Min({i \in DOMAIN es : ~Before(es[i].key, key)} \cup {Len(es) + 1})

ListMove(it, op) ==
    LET end == Len(it.es) + 1
    IN  [it EXCEPT !.pos =
            CASE op[1] = "first" -> 1
              [] op[1] = "last"  -> IF it.es = <<>> THEN end ELSE Len(it.es)
              [] op[1] = "next"  -> @ + 1
              [] op[1] = "prev"  -> IF @ = 1 THEN end ELSE @ - 1
              [] op[1] = "seek"  -> FirstAtOrAfter(it.es, op[2])]

BlockMove(it, op) ==
    CASE op[1] = "first" -> BlockSeekToFirst(it)
      [] op[1] = "last"  -> BlockSeekToLast(it)
      [] op[1] = "next"  -> ParseNextKey(it)
      [] op[1] = "prev"  -> BlockPrev(it)
      [] op[1] = "seek"  -> BlockSeek(it, op[2])

RECURSIVE Valid(_)
Valid(it) ==
    CASE it.kind = "null"  -> FALSE
      [] it.kind = "list"  -> it.pos \in DOMAIN it.es
      [] it.kind = "block" -> BlockValid(it)
      [] it.kind = "two"   -> Valid(it.data)
      [] it.kind = "merge" -> it.current # 0

\* Key() and Value() of a valid iterator.
RECURSIVE Entry(_)
Entry(it) ==
    CASE it.kind = "list"  -> it.es[it.pos]
      [] it.kind = "block" -> [key |-> it.key, val |-> it.val]
      [] it.kind = "two"   -> Entry(it.data)
      [] it.kind = "merge" -> Entry(it.children[it.current])

\* TwoLevelIterator: source gives the new data iterator of each handle.
NewTwoLevelIter(index, source) ==
    [kind |-> "two", index |-> index, source |-> source, data |-> Null, handle |-> 0]

InitDataBlock(it) ==
    IF ~Valid(it.index) THEN [it EXCEPT !.data = Null]
    ELSE LET h == Entry(it.index).val
         IN  IF it.data # Null /\ h = it.handle THEN it
             ELSE [it EXCEPT !.data = it.source[h], !.handle = h]

MoveData(it, op) == IF it.data = Null THEN it ELSE [it EXCEPT !.data = Move(@, op)]

\* SkipEmptyDataBlocksForward ("next", "first") and Backward ("prev", "last").
RECURSIVE SkipEmpty(_, _, _)
SkipEmpty(it, step, enter) ==
    IF Valid(it.data) THEN it
    ELSE IF ~Valid(it.index) THEN [it EXCEPT !.data = Null]
    ELSE SkipEmpty(MoveData(InitDataBlock([it EXCEPT !.index = Move(@, step)]), enter),
                   step, enter)

SkipEmptyDataBlocks(it, op) ==
    IF op[1] \in {"last", "prev"}
      THEN SkipEmpty(it, <<"prev">>, <<"last">>)
      ELSE SkipEmpty(it, <<"next">>, <<"first">>)

TwoLevelMove(it, op) ==
    LET here == IF op[1] \in {"next", "prev"} THEN it
                ELSE InitDataBlock([it EXCEPT !.index = Move(@, op)])
    IN  SkipEmptyDataBlocks(MoveData(here, op), op)

\* MergingIterator.
Children(it) == {i \in DOMAIN it.children : Valid(it.children[i])}
ChildKey(it, i) == Entry(it.children[i]).key

FindSmallest(it) ==
    [it EXCEPT !.current =
        IF Children(it) = {} THEN 0
        ELSE CHOOSE i \in Children(it) :
                 \A j \in Children(it) \ {i} : Before(ChildKey(it, i), ChildKey(it, j))]

FindLargest(it) ==
    [it EXCEPT !.current =
        IF Children(it) = {} THEN 0
        ELSE CHOOSE i \in Children(it) :
                 \A j \in Children(it) \ {i} : Before(ChildKey(it, j), ChildKey(it, i))]

\* A child that is not the current one, after a change of direction at key.
Behind(child, key) ==
    LET c == Move(child, <<"seek", key>>)
    IN  IF Valid(c) /\ Entry(c).key = key THEN Move(c, <<"next">>) ELSE c

MutAheadNoLast(child, key) ==
    LET c == Move(child, <<"seek", key>>) IN IF Valid(c) THEN Move(c, <<"prev">>) ELSE c
Ahead(child, key) ==
    LET c == Move(child, <<"seek", key>>)
    IN  IF Valid(c) THEN Move(c, <<"prev">>) ELSE Move(c, <<"last">>)

\* The children after op on the current one, the others turned if needed.
Turned(it, op, forward, Place(_, _)) ==
    [it EXCEPT !.forward = forward,
               !.children = [i \in DOMAIN @ |->
                    IF i = it.current THEN Move(@[i], op)
                    ELSE IF it.forward # forward THEN Place(@[i], ChildKey(it, it.current))
                    ELSE @[i]]]

MergeMove(it, op) ==
    CASE op[1] = "next" -> FindSmallest(Turned(it, op, TRUE, Behind))
      [] op[1] = "prev" -> FindLargest(Turned(it, op, FALSE, Ahead))
      [] OTHER ->
           LET m == [it EXCEPT !.children = [i \in DOMAIN @ |-> Move(@[i], op)],
                               !.forward = op[1] # "last"]
           IN  IF op[1] = "last" THEN FindLargest(m) ELSE FindSmallest(m)

Move(it, op) ==
    CASE it.kind = "list"  -> ListMove(it, op)
      [] it.kind = "block" -> BlockMove(it, op)
      [] it.kind = "two"   -> TwoLevelMove(it, op)
      [] it.kind = "merge" -> MergeMove(it, op)

-----------------------------------------------------------------------------

\* Table::NewIterator.
NewTableIter(t) ==
    NewTwoLevelIter(NewBlockIter(t.index),
                    [h \in DOMAIN t.blocks |-> NewBlockIter(t.blocks[h])])

\* Version::NewConcatenatingIterator: files is a sequence of [table, largest].
NewLevelIter(files) ==
    NewTwoLevelIter(
        NewListIter([i \in DOMAIN files |-> [key |-> files[i].largest, val |-> i]]),
        [i \in DOMAIN files |-> NewTableIter(files[i].table)])

NewMergingIter(children) ==
    IF Len(children) = 1 THEN children[1]
    ELSE [kind |-> "merge", children |-> children, current |-> 0, forward |-> TRUE]
=============================================================================
