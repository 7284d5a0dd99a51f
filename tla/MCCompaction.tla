---------------------------- MODULE MCCompaction ----------------------------
(* Instances of Compaction for TLC. *)
EXTENDS Compaction

\* The size limits of the levels: each is reached, the last one's too.
SmallLevels == [level \in Levels |-> IF level < NumLevels - 1 THEN 2 ELSE 3]

\* The last level has room for all writes.
RoomyLast == [level \in Levels |-> IF level < NumLevels - 1 THEN level + 2 ELSE MaxSeq + 1]

\* No level is ever full.
LargeLevels == [level \in Levels |-> 100]

NoRanges == {}
LowLevels == [level : {0, 1}, begin : {0}, end : {MaxKey + 1}]
LevelOne == [level : {1}, begin : {0}, end : {MaxKey + 1}]
=============================================================================
