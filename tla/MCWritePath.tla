---------------------------- MODULE MCWritePath ----------------------------
(* WritePath for TLC: symmetric client threads, and a step for the state in *)
(* which every bounded call has returned, so that any other state without a *)
(* successor is a deadlock.                                                 *)
EXTENDS WritePath, TLC

Symmetry == Permutations(Threads)

Quiescent ==
    /\ Len(calls) = MaxCalls \/ shutting
    /\ \A t \in Threads : pc[t] = "idle"
    /\ ~scheduled
    /\ UNCHANGED vars

MCNext == Next \/ Quiescent
MCSpec == Init /\ [][MCNext]_vars
=============================================================================
