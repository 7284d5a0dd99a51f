---------------------------- MODULE MCTableCache ----------------------------
(* Instances of TableCache for TLC. *)
EXTENDS TableCache

\* Keys 1 and 3 are in one chain until the hash table has four.
MCHash == [k \in Keys |-> IF k = 2 THEN 0 ELSE k]

\* Keys of different charges.
MCCharge == [k \in Keys |-> IF k = 3 THEN 2 ELSE 1]

MCMaxAcquires == [mmap |-> 1, fd |-> 1]

Symmetry == Permutations(Threads)
=============================================================================
