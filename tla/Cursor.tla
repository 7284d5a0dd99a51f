------------------------------- MODULE Cursor -------------------------------
(***************************************************************************)
(* What an Iterator on the database promises: a cursor on a fixed map from *)
(* user keys to values, the database as the snapshot sees it.              *)
(***************************************************************************)
EXTENDS Blocks

CONSTANT Targets   \* user keys one may seek

VARIABLES view,    \* function from the user keys that exist to their values
          at,      \* <<>>, or <<key, value>> if the cursor is at a key
          call     \* the last call, and where a step started

\* The cursor at the first (last) of the keys in S, or nowhere.
First(S) ==
    IF S = {} THEN <<>>
    ELSE LET k == CHOOSE k \in S : \A o \in S \ {k} : UserBefore(k, o) IN <<k, view[k]>>
Final(S) ==
    IF S = {} THEN <<>>
    ELSE LET k == CHOOSE k \in S : \A o \in S \ {k} : UserBefore(o, k) IN <<k, view[k]>>

Init == at = <<>> /\ call = <<>>

SeekToFirst ==
    /\ call' = <<"first">>
    /\ at' = First(DOMAIN view)
    /\ UNCHANGED view
SeekToLast ==
    /\ call' = <<"last">>
    /\ at' = Final(DOMAIN view)
    /\ UNCHANGED view
Seek(target) ==
    /\ call' = <<"seek", target>>
    /\ at' = First({k \in DOMAIN view : ~UserBefore(k, target)})
    /\ UNCHANGED view
Next ==
    /\ at # <<>>
    /\ call' = <<"next", at>>
    /\ at' = First({k \in DOMAIN view : UserBefore(at[1], k)})
    /\ UNCHANGED view
Prev ==
    /\ at # <<>>
    /\ call' = <<"prev", at>>
    /\ at' = Final({k \in DOMAIN view : UserBefore(k, at[1])})
    /\ UNCHANGED view

Step == SeekToFirst \/ SeekToLast \/ Next \/ Prev \/ \E t \in Targets : Seek(t)
Spec == Init /\ [][Step]_<<view, at, call>>
=============================================================================
