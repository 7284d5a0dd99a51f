------------------------------ MODULE Versions ------------------------------
(***************************************************************************)
(* The algorithms on a version, the files of each level: overlap, lookup,  *)
(* the level of a flushed memtable, the choice of a compaction, and what a *)
(* compaction writes (src/src/db/version_set.cc, and the drop rule of      *)
(* DBImpl::DoCompactionWork).                                              *)
(*                                                                         *)
(* An entry is an internal key [key, seq, del].  A file is [num, ents,     *)
(* smallest, largest] and as large as it has entries; a version maps each  *)
(* level to a set of files, which the code keeps sorted by smallest key.   *)
(***************************************************************************)
EXTENDS Integers, FiniteSets, Sequences, FiniteSetsExt, SequencesExt

CONSTANTS
    NumLevels,               \* config::kNumLevels
    MaxMemCompactLevel,      \* config::kMaxMemCompactLevel
    L0_CompactionTrigger,    \* config::kL0_CompactionTrigger
    MaxFileSize,             \* options.max_file_size
    MaxGrandParentOverlap,   \* MaxGrandParentOverlapBytes
    ExpandedSizeLimit,       \* ExpandedCompactionByteSizeLimit
    MaxBytes                 \* MaxBytesForLevel

Levels == 0..(NumLevels - 1)

ASSUME VersionsAssumption ==
    /\ NumLevels \in Nat \ {0, 1}
    /\ MaxMemCompactLevel \in Levels
    /\ L0_CompactionTrigger \in Nat \ {0} /\ MaxFileSize \in Nat \ {0}
    /\ MaxGrandParentOverlap \in Nat /\ ExpandedSizeLimit \in Nat
    /\ MaxBytes \in [Levels -> Nat \ {0}]

\* InternalKeyComparator: keys ascending, then sequence numbers descending.
KeyBefore(a, b) == a.key < b.key \/ (a.key = b.key /\ a.seq > b.seq)

\* A set as a sequence in the order op.
SortedBy(S, op(_, _)) ==
    [i \in 1..Cardinality(S) |-> CHOOSE x \in S : Cardinality({y \in S : op(y, x)}) = i - 1]

SmallestKey(ents) == CHOOSE e \in ents : \A o \in ents : o = e \/ KeyBefore(e, o)
LargestKey(ents) == CHOOSE e \in ents : \A o \in ents : o = e \/ KeyBefore(o, e)

\* FileMetaData of a new table.
NewFile(num, ents) ==
    [num |-> num, ents |-> ents, smallest |-> SmallestKey(ents), largest |-> LargestKey(ents)]

\* VersionSet::Builder::BySmallestKey, the order of the files of a level.
FileBefore(f, g) ==
    \/ KeyBefore(f.smallest, g.smallest)
    \/ f.smallest = g.smallest /\ f.num < g.num

Sorted(files) == SortedBy(files, FileBefore)

\* The entries of a set of files; TotalFileSize (no two files share an entry).
Entries(files) == UNION {f.ents : f \in files}
TotalFileSize(files) == Cardinality(Entries(files))

\* GetRange
RangeStart(files) == SmallestKey({f.smallest : f \in files})
RangeLimit(files) == LargestKey({f.largest : f \in files})

-----------------------------------------------------------------------------
(* Overlap *)

\* Neither AfterFile nor BeforeFile.
Overlaps(f, begin, end) == begin <= f.largest.key /\ f.smallest.key <= end

MutOverlapsBehind(v, level, begin, end) ==
    IF level = 0 THEN \E f \in v[0] : Overlaps(f, begin, end)
    ELSE LET behind == {f \in v[level] : begin < f.largest.key}
         IN  behind # {} /\ Sorted(behind)[1].smallest.key <= end

\* SomeFileOverlapsRange; on a sorted level its binary search finds the first
\* file that ends at or behind begin.
OverlapInLevel(v, level, begin, end) ==
    IF level = 0 THEN \E f \in v[0] : Overlaps(f, begin, end)
    ELSE LET behind == {f \in v[level] : begin <= f.largest.key}
         IN  behind # {} /\ Sorted(behind)[1].smallest.key <= end

\* GetOverlappingInputs.  At level 0 a file that reaches out of the range
\* extends it and the search starts again: the least set of files that holds
\* every file overlapping the range of its members and of the request.
GetOverlappingInputs(v, level, begin, end) ==
    LET Closed(S) ==
            LET lo == Min({begin} \cup {f.smallest.key : f \in S})
                hi == Max({end} \cup {f.largest.key : f \in S})
            IN  \A f \in v[0] : Overlaps(f, lo, hi) => f \in S
    IN  IF level > 0
          THEN {f \in v[level] : Overlaps(f, begin, end)}
          ELSE CHOOSE S \in SUBSET v[0] :
                  Closed(S) /\ \A T \in SUBSET v[0] : Closed(T) => S \subseteq T

-----------------------------------------------------------------------------
(* Lookup *)

\* Of a table or a memtable: the newest entry of the key at or below seq.
Visible(ents, key, seq) == {e \in ents : e.key = key /\ e.seq <= seq}
Newest(ents) == CHOOSE e \in ents : \A o \in ents : o.seq <= e.seq

NewestFirst(f, g) == f.num > g.num

\* FindFile: the first file of the level that ends at or behind the key.
FindFile(files, ikey) ==
    LET s == SelectSeq(Sorted(files), LAMBDA f : ~KeyBefore(f.largest, ikey))
    IN  IF s = <<>> THEN {} ELSE {s[1]}

\* ForEachOverlapping: the files that are searched for a key, in order, each
\* with its level.
ForEachOverlapping(v, key, seq) ==
    LET ikey == [key |-> key, seq |-> seq, del |-> FALSE]
        level0 == SortedBy({f \in v[0] : Overlaps(f, key, key)}, NewestFirst)
        File(level) == {f \in FindFile(v[level], ikey) : f.smallest.key <= key}
        deeper == SelectSeq([i \in 1..(NumLevels - 1) |-> i], LAMBDA l : File(l) # {})
    IN  [i \in 1..Len(level0) |-> [level |-> 0, file |-> level0[i]]]
        \o [i \in 1..Len(deeper) |->
              [level |-> deeper[i], file |-> CHOOSE f \in File(deeper[i]) : TRUE]]

\* What a search of the sources, one after the other, finds: the sequence
\* number of the value, or 0 (NotFound, also behind a deletion).
Search(sources, key, seq) ==
    LET hits == {i \in DOMAIN sources : Visible(sources[i], key, seq) # {}}
        e == Newest(Visible(sources[Min(hits)], key, seq))
    IN  IF hits = {} \/ e.del THEN 0 ELSE e.seq

-----------------------------------------------------------------------------
(* Building the next version *)

\* The deepest level for a file over a range that has no overlap at level 0.
DeepestLevel(v, begin, end) ==
    LET Stop(level) ==
            \/ level = MaxMemCompactLevel
            \/ OverlapInLevel(v, level + 1, begin, end)
            \/ /\ level + 2 < NumLevels
               /\ TotalFileSize(GetOverlappingInputs(v, level + 2, begin, end))
                    > MaxGrandParentOverlap
    IN  Min({level \in 0..MaxMemCompactLevel : Stop(level)})

MutBesideLevel0(v, begin, end) == DeepestLevel(v, begin, end)

\* Version::PickLevelForMemTableOutput
PickLevelForMemTableOutput(v, begin, end) ==
    IF OverlapInLevel(v, 0, begin, end) THEN 0 ELSE DeepestLevel(v, begin, end)

\* Finalize: the level with the largest score, the first of equals.  The code
\* compares quotients; the fractions are compared crosswise here.
Finalize(v) ==
    LET Size(level) == IF level = 0 THEN Cardinality(v[0]) ELSE TotalFileSize(v[level])
        Limit(level) == IF level = 0 THEN L0_CompactionTrigger ELSE MaxBytes[level]
        best == CHOOSE b \in Levels : \A l \in Levels :
                   /\ Size(l) * Limit(b) <= Size(b) * Limit(l)
                   /\ l < b => Size(l) * Limit(b) < Size(b) * Limit(l)
    IN  [level |-> best, full |-> Size(best) >= Limit(best)]

-----------------------------------------------------------------------------
(* Choosing the inputs of a compaction *)

MutNoBoundary(files, inputs) == inputs

\* AddBoundaryInputs: files that go on with the user key that ends the inputs.
AddBoundaryInputs(files, inputs) ==
    LET Boundary(S) ==
            LET end == RangeLimit(S)
                T == {f \in files : KeyBefore(end, f.smallest) /\ f.smallest.key = end.key}
            IN  IF T = {} THEN {} ELSE {CHOOSE f \in T : f.smallest = RangeStart(T)}
        Grown[n \in 0..Cardinality(files)] ==
            IF n = 0 THEN inputs ELSE Grown[n - 1] \cup Boundary(Grown[n - 1])
    IN  IF inputs = {} THEN {} ELSE Grown[Cardinality(files)]

\* GetOverlappingInputs over the range of some files.
OverlappingFiles(v, level, files) ==
    GetOverlappingInputs(v, level, RangeStart(files).key, RangeLimit(files).key)

\* Inputs at a level with the files of the next level they overlap.
WithOverlap(v, level, in0) ==
    [in0 |-> in0,
     in1 |-> AddBoundaryInputs(v[level + 1], OverlappingFiles(v, level + 1, in0))]

\* More inputs at the level are taken if they add none at the next level.
Expanded(old, new) ==
    IF /\ old.in1 # {}
       /\ Cardinality(new.in0) > Cardinality(old.in0)
       /\ TotalFileSize(old.in1) + TotalFileSize(new.in0) < ExpandedSizeLimit
       /\ Cardinality(new.in1) = Cardinality(old.in1)
      THEN new ELSE old

Expand(v, level, c) ==
    Expanded(c, WithOverlap(v, level, AddBoundaryInputs(v[level],
                                          OverlappingFiles(v, level, c.in0 \cup c.in1))))

\* The compaction with its grandparents and the new compact pointer.
WithParents(v, level, c) ==
    [level |-> level, in0 |-> c.in0, in1 |-> c.in1,
     parents |-> IF level + 2 < NumLevels THEN OverlappingFiles(v, level + 2, c.in0 \cup c.in1)
                                          ELSE {},
     pointer |-> RangeLimit(c.in0)]

\* SetupOtherInputs: the inputs of both levels, from the first inputs.
SetupOtherInputs(v, level, inputs) ==
    WithParents(v, level,
        Expand(v, level, WithOverlap(v, level, AddBoundaryInputs(v[level], inputs))))

\* PickCompaction by size: the first file behind the compact pointer.
PickBySize(v, pointer, level) ==
    LET behind == SelectSeq(Sorted(v[level]),
                            LAMBDA f : pointer[level] = <<>> \/ KeyBefore(pointer[level][1], f.largest))
        f == IF behind = <<>> THEN Sorted(v[level])[1] ELSE behind[1]
    IN  {f}

\* The rest of PickCompaction.
PickFrom(v, level, files) ==
    SetupOtherInputs(v, level, IF level = 0 THEN OverlappingFiles(v, 0, files) ELSE files)

\* CompactRange: of a deeper level no more files than reach the size limit.
RangeInputs(v, level, begin, end) ==
    LET s == Sorted(GetOverlappingInputs(v, level, begin, end))
        full == {i \in 1..Len(s) : TotalFileSize({s[j] : j \in 1..i}) >= MaxFileSize}
        n == IF level = 0 \/ full = {} THEN Len(s) ELSE Min(full)
    IN  {s[i] : i \in 1..n}

\* IsTrivialMove
IsTrivialMove(c) ==
    /\ Cardinality(c.in0) = 1 /\ c.in1 = {}
    /\ TotalFileSize(c.parents) <= MaxGrandParentOverlap

-----------------------------------------------------------------------------
(* What a compaction writes *)

\* IsBaseLevelForKey: no level below the output level may hold the key.
IsBaseLevelForKey(v, level, key) ==
    \A l \in (level + 2)..(NumLevels - 1) : \A f \in v[l] : ~Overlaps(f, key, key)

MutDropShadowed(e, ents, snapshot, base) ==
    \/ \E o \in ents : o.key = e.key /\ o.seq > e.seq
    \/ e.del /\ e.seq <= snapshot /\ base

\* The drop rule.  last_sequence_for_key is that of the next newer entry of
\* the key among the inputs.
Dropped(e, ents, snapshot, base) ==
    \/ \E o \in ents : o.key = e.key /\ o.seq > e.seq /\ o.seq <= snapshot
    \/ e.del /\ e.seq <= snapshot /\ base

\* The merge loop over the sorted inputs: where an output file ends, because
\* of its size or of the grandparents it overlaps (ShouldStopBefore).
Outputs(c, v, snapshot) ==
    LET ents == Entries(c.in0 \cup c.in1)
        parents == Sorted(c.parents)
        Start == [outs |-> <<>>, cur |-> {}, index |-> 0, seen |-> FALSE, overlapped |-> 0]
        Step(st, e) ==
            LET passed == {i \in (st.index + 1)..Len(parents) :
                              \A j \in (st.index + 1)..i : KeyBefore(parents[j].largest, e)}
                over == st.overlapped + IF st.seen THEN TotalFileSize({parents[i] : i \in passed}) ELSE 0
                stop == over > MaxGrandParentOverlap
                closed == stop /\ st.cur # {}
                outs == IF closed THEN Append(st.outs, st.cur) ELSE st.outs
                cur == IF closed THEN {} ELSE st.cur
                drop == Dropped(e, ents, snapshot, IsBaseLevelForKey(v, c.level, e.key))
                added == IF drop THEN cur ELSE cur \cup {e}
                full == ~drop /\ Cardinality(added) >= MaxFileSize
            IN  [outs |-> IF full THEN Append(outs, added) ELSE outs,
                 cur |-> IF full THEN {} ELSE added,
                 index |-> st.index + Cardinality(passed),
                 seen |-> TRUE,
                 overlapped |-> IF stop THEN 0 ELSE over]
        end == FoldLeft(Step, Start, SortedBy(ents, KeyBefore))
    IN  IF end.cur = {} THEN end.outs ELSE Append(end.outs, end.cur)

=============================================================================
