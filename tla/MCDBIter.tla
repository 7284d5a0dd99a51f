------------------------------ MODULE MCDBIter ------------------------------
(* Instances of DBIter for TLC. *)
EXTENDS DBIter

CONSTANT NumEntries   \* bound: writes of a small database

\* User keys; 4 plays the byte 0xff.
A == <<1, 1>>
B == <<1, 3>>
C == <<3, 2>>
D == <<4, 4>>
MCFalsePositives == {B}
MCTargets == {A, B, C, D, <<2>>}

\* The database after the history h of writes <<user key, type>>: the first
\* cut[1] of them have been compacted into level 1, A in a file of its own, and
\* the next ones up to cut[2] flushed into a table.
DatabaseOf(h, cut) ==
    LET Written(from, to) ==
            {[key |-> Append(h[s][1], 2 * s + h[s][2]), val |-> s] : s \in from..to}
        deep == Written(1, cut[1])
        low  == {e \in deep : UserKey(e.key) = A}
    IN  [mem |-> Written(cut[2] + 1, Len(h)),
         l0 |-> IF cut[1] = cut[2] THEN <<>> ELSE <<Written(cut[1] + 1, cut[2])>>,
         l1 |-> SelectSeq(<<low, deep \ low>>, LAMBDA p : p # {})]

Cuts(n) == {c \in (0..n) \X (0..n) : c[1] <= c[2]}

\* Every history of NumEntries writes to two keys.
Small == {DatabaseOf(h, cut) : h \in [1..NumEntries -> {A, B} \X {0, 1}],
                               cut \in Cuts(NumEntries)}

\* A longer one, so that tables have several blocks and blocks restart points.
Long == <<<<A, 1>>, <<B, 1>>, <<C, 1>>, <<A, 0>>, <<B, 1>>, <<D, 1>>, <<A, 1>>, <<C, 0>>,
          <<B, 0>>, <<A, 1>>>>
Large == {DatabaseOf(Long, cut) : cut \in {<<0, 10>>, <<10, 10>>, <<5, 8>>, <<8, 9>>}}

\* A table whose first two blocks share a filter, and whose second one is so
\* long that the third skips a filter.
Uneven == DatabaseOf(<<<<A, 1>>, <<B, 1>>, <<B, 0>>, <<B, 1>>, <<C, 1>>, <<D, 1>>>>, <<0, 6>>)

MCDatabases == Small \cup Large \cup {Uneven}
=============================================================================
