-------------------------- MODULE WritePathVisible --------------------------
(***************************************************************************)
(* What a reader sees at LastSequence() is whole batches, and every batch  *)
(* whose Write returned OK is among them.                                  *)
(***************************************************************************)
EXTENDS WritePathProofs, FiniteSetTheorems

\* The entries of call i that a reader at LastSequence() sees.
Visible(i) == {e \in Entries : e.id = i /\ e.seq <= lastSeq}

\* Where call c's entries are in the batch of the group.
Positions(c) == {j \in DOMAIN group.ops : group.ops[j] = c}

\* Two threads inside Write execute two calls, and neither has returned.
CallInv ==
    /\ \A t, u \in Threads :
          pc[t] # "idle" /\ pc[u] # "idle" /\ call[t] = call[u] => t = u
    /\ \A t \in Threads : pc[t] # "idle" => calls[call[t]].result = "none"

\* The batch of the group is made of the whole batches of its writers; it is
\* inserted to its end, or, after an error, not at all.
OpsInv ==
    \A t \in Threads : pc[t] \in Committing =>
        /\ \A m \in 1..group.n :
              Cardinality(Positions(call[writers[m]])) = Size(writers[m])
        /\ \A j \in DOMAIN group.ops :
              \E m \in 1..group.n : group.ops[j] = call[writers[m]]
        /\ pc[t] = "insert" => group.status = "ok"
        /\ pc[t] = "finish" =>
              group.k = IF group.status = "ok" THEN Len(group.ops) ELSE 0

\* The entries past LastSequence() are the first k of the group's batch.
PendingInv ==
    /\ \A e \in Entries : e.id \in DOMAIN calls
    /\ \A e \in Entries : e.seq > lastSeq => e.id = group.ops[e.seq - lastSeq]
    /\ \A j \in 1..group.k : [seq |-> lastSeq + j, id |-> group.ops[j]] \in Entries

\* A call that waits shows nothing; one its leader reported OK shows its batch.
VisibleInv ==
    /\ \A t \in Threads : pc[t] # "idle" /\ done[t] = "no" => Visible(call[t]) = {}
    /\ \A t \in Threads : pc[t] # "idle" /\ done[t] = "ok" =>
          Cardinality(Visible(call[t])) = Size(t)
    /\ BatchesAtomic
    /\ AckedVisible

-----------------------------------------------------------------------------
(* Calls *)

\* The result of a call is set when its thread leaves Write.
LEMMA ReturnCalls ==
    ASSUME Shape, CallInv, NEW t \in Threads, pc[t] # "idle", NEW r,
           calls' = [calls EXCEPT ![call[t]].result = r],
           \A u \in Threads : /\ pc'[u] = IF u = t THEN "idle" ELSE pc[u]
                              /\ call'[u] = IF u = t THEN 0 ELSE call[u]
    PROVE  CallInv'
<1>1. \A u \in Threads : pc[u] # "idle" => call[u] \in DOMAIN calls
  BY Zenon DEF Shape, QueueInv
<1>2. \A i \in DOMAIN calls : i # call[t] => calls'[i] = calls[i]
  BY Zenon
<1>3. \A u \in Threads : u # t /\ pc[u] # "idle" => call[u] # call[t]
  BY Zenon DEF CallInv
<1>4. \A u \in Threads : pc'[u] # "idle" => calls'[call'[u]].result = "none"
  BY <1>1, <1>2, <1>3 DEF CallInv
<1> QED BY <1>4 DEF CallInv

\* A new call is not one of those under way.
LEMMA EnqueueCalls ==
    ASSUME Shape, CallInv, NEW t \in Threads, NEW size \in BatchSizes, NEW sync \in BOOLEAN,
           Enqueue(t, size, sync)
    PROVE  CallInv'
<1> DEFINE new == [size |-> size, sync |-> sync, result |-> "none",
                   acked |-> IF size = 0 THEN Acked ELSE {}]
<1>1. /\ calls \in Seq(Call) /\ Len(calls) \in Nat /\ DOMAIN calls = 1..Len(calls)
      /\ \A u \in Threads : pc[u] # "idle" => call[u] \in DOMAIN calls
  BY Zenon, SeqIsFunction DEF Shape, TypeOK, QueueTypes, QueueInv
<1>2. calls' = Append(calls, new) /\ pc[t] = "idle"
  BY Zenon DEF Enqueue
<1>3. new.result = "none"
  BY Zenon
<1> HIDE DEF new
<1>4. calls'[Len(calls) + 1] = new /\ \A i \in DOMAIN calls : calls'[i] = calls[i]
  BY <1>1, <1>2
<1>5. \A u \in Threads : /\ u # t => pc'[u] = pc[u] /\ call'[u] = call[u]
                         /\ u = t => call'[u] = Len(calls) + 1
  BY Zenon DEF Enqueue, Shape, TypeOK, QueueTypes
<1>6. Len(calls) + 1 \notin DOMAIN calls
  BY <1>1
<1>7. \A u \in Threads : u # t /\ pc'[u] # "idle" => call'[u] \in DOMAIN calls
  BY Zenon, <1>1, <1>5
<1>8. \A u \in Threads : pc'[u] # "idle" => calls'[call'[u]].result = "none"
  BY <1>3, <1>4, <1>5, <1>7 DEF CallInv
<1>9. ASSUME NEW u \in Threads, NEW v \in Threads, pc'[u] # "idle", pc'[v] # "idle",
             call'[u] = call'[v]
      PROVE  u = v
  <2>1. CASE u # t /\ v # t
    BY Zenon, <1>5, <1>9, <2>1 DEF CallInv
  <2>2. CASE u = t \/ v = t
    BY Zenon, <1>5, <1>6, <1>7, <1>9, <2>2
  <2> QED BY Zenon, <2>1, <2>2
<1> QED BY Zenon, <1>8, <1>9 DEF CallInv

\* A step of Write either keeps every thread inside or outside with its call,
\* or it is the end of one call, or the start of one.
LEMMA CallsOfStep ==
    ASSUME Shape, [Next]_vars
    PROVE  \/ /\ UNCHANGED <<calls, call, done, writers>>
              /\ \A u \in Threads : pc'[u] = "idle" <=> pc[u] = "idle"
           \/ \E t \in Threads, size \in BatchSizes, sync \in BOOLEAN : Enqueue(t, size, sync)
           \/ \E t \in Threads : WakeUp(t) /\ done[t] # "no"
           \/ \E t \in Threads, s \in {"ok", "err"} :
                 /\ pc[t] \in Leading \ Committing /\ Leave(t, 1, s)
                 /\ s = "ok" => pc[t] = "flushwait" \/ IsNull(t)
                 /\ UNCHANGED <<group, dataVars>>
           \/ \E t \in Threads : Finish(t)
<1>1. ASSUME NEW t \in Threads, WakeUp(t), done[t] = "no"
      PROVE  /\ UNCHANGED <<calls, call, done, writers>>
             /\ \A u \in Threads : pc'[u] = "idle" <=> pc[u] = "idle"
  BY Zenon, <1>1 DEF WakeUp, Shape, TypeOK, QueueTypes
<1>2. ASSUME NEW t \in Threads,
             \/ RoomDelay(t) \/ RoomDelayed(t) \/ RoomWait(t) \/ RoomWaited(t)
             \/ GroupAbsorb(t) \/ GroupDone(t) \/ InsertInto(t) \/ SpuriousWakeup(t)
             \/ \E ok \in BOOLEAN : RoomSwitch(t, ok)
      PROVE  /\ UNCHANGED <<calls, call, done, writers>>
             /\ \A u \in Threads : pc'[u] = "idle" <=> pc[u] = "idle"
  BY Zenon, <1>2 DEF RoomDelay, RoomDelayed, RoomWait, RoomWaited, GroupAbsorb, GroupDone, InRoom,
              InsertInto, SpuriousWakeup, RoomSwitch, writeVars, Shape, TypeOK, QueueTypes
<1>3. ASSUME NEW t \in Threads, NEW ok \in BOOLEAN, AddRecord(t, ok) \/ SyncLog(t, ok)
      PROVE  /\ UNCHANGED <<calls, call, done, writers>>
             /\ \A u \in Threads : pc'[u] = "idle" <=> pc[u] = "idle"
  BY Zenon, <1>3 DEF AddRecord, SyncLog, AfterAddRecord, Shape, TypeOK, QueueTypes
<1>4. ASSUME NEW t \in Threads, RoomError(t) \/ RoomSwitchFails(t)
      PROVE  /\ pc[t] \in Leading \ Committing /\ Leave(t, 1, "err")
             /\ UNCHANGED <<group, dataVars>>
  BY Zenon, <1>4 DEF RoomError, RoomSwitchFails, InRoom, Leading, Locations, Committing
<1>5. ASSUME NEW t \in Threads, RoomEnough(t)
      PROVE  \/ /\ UNCHANGED <<calls, call, done, writers>>
                /\ \A u \in Threads : pc'[u] = "idle" <=> pc[u] = "idle"
             \/ /\ pc[t] \in Leading \ Committing /\ Leave(t, 1, "ok") /\ IsNull(t)
                /\ UNCHANGED <<group, dataVars>>
  BY Zenon, <1>5 DEF RoomEnough, InRoom, Leading, Locations, Committing, Shape, TypeOK, QueueTypes
<1>6. ASSUME NEW t \in Threads, FlushWaited(t)
      PROVE  \/ /\ UNCHANGED <<calls, call, done, writers>>
                /\ \A u \in Threads : pc'[u] = "idle" <=> pc[u] = "idle"
             \/ /\ pc[t] \in Leading \ Committing /\ pc[t] = "flushwait"
                /\ \E s \in {"ok", "err"} : Leave(t, 1, s)
                /\ UNCHANGED <<group, dataVars>>
  BY Zenon, <1>6 DEF FlushWaited, Leading, Locations, Committing
<1>7. CASE UNCHANGED vars \/ Background \/ Close
  <2>1. UNCHANGED <<calls, call, writers, done, pc>>
    BY Zenon, <1>7 DEF vars, writeVars, Background, BgStart, BgBuild, BgApply, BgRemove,
                BgCompactImm, BgCompacted, BgInstall, Close
  <2> QED BY Zenon, <2>1
<1> QED BY <1>1, <1>2, <1>3, <1>4, <1>5, <1>6, <1>7 DEF Next, Client

\* The locations and calls after a leader left.
LEMMA AfterLeave ==
    ASSUME Shape, NEW t \in Threads, NEW n, NEW s, Leave(t, n, s)
    PROVE  /\ calls' = [calls EXCEPT ![call[t]].result = s]
           /\ \A u \in Threads : /\ pc'[u] = IF u = t THEN "idle" ELSE pc[u]
                                 /\ call'[u] = IF u = t THEN 0 ELSE call[u]
                                 /\ done'[u] = IF \E j \in 2..n : u = writers[j]
                                                 THEN s ELSE done[u]
BY DEF Leave, Shape, TypeOK, QueueTypes

\* Every step keeps the calls under way apart.
LEMMA CallStep ==
    ASSUME Shape, CallInv, [Next]_vars
    PROVE  CallInv'
<1>1. CASE /\ UNCHANGED <<calls, call, done, writers>>
           /\ \A u \in Threads : pc'[u] = "idle" <=> pc[u] = "idle"
  BY Zenon, <1>1 DEF CallInv
<1>2. ASSUME NEW t \in Threads, WakeUp(t), done[t] # "no" PROVE CallInv'
  <2>1. /\ calls' = [calls EXCEPT ![call[t]].result = done[t]]
        /\ \A u \in Threads : /\ pc'[u] = IF u = t THEN "idle" ELSE pc[u]
                              /\ call'[u] = IF u = t THEN 0 ELSE call[u]
    BY Zenon, <1>2 DEF WakeUp, Shape, TypeOK, QueueTypes
  <2>2. pc[t] # "idle"
    BY Zenon, <1>2 DEF WakeUp
  <2> QED BY Zenon, <2>1, <2>2, ReturnCalls
<1>3. ASSUME NEW t \in Threads, NEW n, NEW s, pc[t] \in Leading, Leave(t, n, s)
      PROVE  CallInv'
  <2>1. pc[t] # "idle"
    BY Zenon, <1>3 DEF Leading
  <2>2. /\ calls' = [calls EXCEPT ![call[t]].result = s]
        /\ \A u \in Threads : /\ pc'[u] = IF u = t THEN "idle" ELSE pc[u]
                              /\ call'[u] = IF u = t THEN 0 ELSE call[u]
    BY <1>3, AfterLeave
  <2> QED BY Zenon, <2>1, <2>2, ReturnCalls
<1>4. ASSUME NEW t \in Threads, Finish(t) PROVE CallInv'
  <2>1. pc[t] \in Leading
    BY Zenon, <1>4 DEF Finish, Leading, Locations
  <2> QED BY Zenon, <1>3, <1>4, <2>1 DEF Finish
<1> QED BY Zenon, <1>1, <1>2, <1>3, <1>4, EnqueueCalls, CallsOfStep

-----------------------------------------------------------------------------
(* The batch of the group *)

\* Steps that keep the group, its writers and their calls.
LEMMA OpsKept ==
    ASSUME OpsInv, group' = group,
           \A u \in Threads : pc'[u] \in Committing =>
              /\ pc[u] \in Committing
              /\ pc'[u] \in {"insert", "finish"} => pc'[u] = pc[u]
              /\ \A m \in 1..group.n :
                    /\ call'[writers'[m]] = call[writers[m]]
                    /\ calls'[call[writers[m]]].size = calls[call[writers[m]]].size
    PROVE  OpsInv'
<1>1. \A c : Positions(c)' = Positions(c)
  BY Zenon DEF Positions
<1> SUFFICES ASSUME NEW u \in Threads, pc'[u] \in Committing
             PROVE  /\ \A m \in 1..group.n :
                          Cardinality(Positions(call[writers[m]])') = Size(writers[m])'
                    /\ \A j \in DOMAIN group.ops :
                          \E m \in 1..group.n : group.ops[j] = call'[writers'[m]]
                    /\ pc'[u] = "insert" => group.status = "ok"
                    /\ pc'[u] = "finish" =>
                          group.k = IF group.status = "ok" THEN Len(group.ops) ELSE 0
  BY Zenon DEF OpsInv
<1>2. ASSUME NEW m \in 1..group.n
      PROVE  Cardinality(Positions(call[writers[m]])') = Size(writers[m])'
  <2>1. Positions(call[writers[m]])' = Positions(call[writers[m]])
    BY Zenon, <1>1 DEF Positions
  <2>2. Size(writers[m])' = Size(writers[m])
    BY Zenon DEF Size
  <2> QED BY Zenon, <2>1, <2>2 DEF OpsInv
<1>3. \A j \in DOMAIN group.ops : \E m \in 1..group.n : group.ops[j] = call'[writers'[m]]
  BY DEF OpsInv
<1> QED BY Zenon, <1>2, <1>3 DEF OpsInv

\* The leader's own batch opens the group.
LEMMA OpsOpen ==
    ASSUME Shape, NEW t \in Threads, RoomEnough(t), ~IsNull(t)
    PROVE  OpsInv'
<1>1. pc[t] = "room" /\ pc[t] \in Leading /\ pc[t] # "idle" /\ writers[1] = t
  BY Zenon DEF RoomEnough, InRoom, Leading, Locations, Shape, SingleLeader
<1>2. /\ UNCHANGED <<calls, call, writers>>
      /\ \A u \in Threads : pc'[u] = IF u = t THEN "group" ELSE pc[u]
      /\ group' = [n |-> 1, ops |-> [j \in 1..Size(t) |-> call[t]], size |-> Size(t),
                    status |-> "ok", k |-> 0]
  BY Zenon DEF RoomEnough, NoGroup, Shape, TypeOK, QueueTypes
<1>3. Size(t) \in Nat
  BY Zenon, <1>1, CallOf
<1>4. /\ group'.n = 1 /\ DOMAIN group'.ops = 1..Size(t)
      /\ \A j \in 1..Size(t) : group'.ops[j] = call[t]
  BY Zenon, <1>2
<1>5. Positions(call[t])' = 1..Size(t)
  <2>1. Positions(call[t])' = {j \in DOMAIN group'.ops : group'.ops[j] = call[t]}
    BY Zenon, <1>2 DEF Positions
  <2> QED BY Zenon, <1>4, <2>1
<1>6. Cardinality(1..Size(t)) = Size(t)
  BY <1>3, FS_Interval
<1>7. \A m \in 1..group'.n : m = 1
  BY <1>4
<1>8. \A u \in Threads : pc'[u] \in Committing => u = t
  BY Zenon, <1>1, <1>2, OneLeader DEF Shape, Leading, Locations, Committing
<1>9. Positions(call[writers[1]])' = 1..Size(t) /\ Size(writers[1])' = Size(t)
  BY Zenon, <1>1, <1>2, <1>5 DEF Positions, Size
<1>10. \A m \in 1..group'.n : Cardinality(Positions(call[writers[m]])') = Size(writers[m])'
  BY Zenon, <1>6, <1>7, <1>9
<1>11. \A j \in DOMAIN group'.ops : \E m \in 1..group'.n : group'.ops[j] = call'[writers'[m]]
  BY <1>1, <1>2, <1>4
<1> QED BY Zenon, <1>2, <1>8, <1>10, <1>11 DEF OpsInv

\* Appending n copies of x, which o lacks: x has n positions, the others keep theirs.
LEMMA AppendedPositions ==
    ASSUME NEW o \in Seq(Calls), NEW c \in Seq(Calls), NEW x, NEW n \in Nat,
           Len(c) = n, \A j \in 1..n : c[j] = x, \A j \in DOMAIN o : o[j] # x,
           NEW q, q = o \o c
    PROVE  /\ \A j : j \in DOMAIN q /\ q[j] = x <=> j \in (Len(o) + 1)..(Len(o) + n)
           /\ \A y, j : y # x => (j \in DOMAIN q /\ q[j] = y <=> j \in DOMAIN o /\ o[j] = y)
           /\ \A j \in DOMAIN q : q[j] = x \/ \E i \in DOMAIN o : q[j] = o[i]
<1>1. Len(o) \in Nat /\ DOMAIN o = 1..Len(o)
  BY Zenon, SeqIsFunction
<1>2. /\ q \in Seq(Calls) /\ Len(q) = Len(o) + n
      /\ \A i \in 1..(Len(o) + n) : q[i] = IF i <= Len(o) THEN o[i] ELSE c[i - Len(o)]
  BY Zenon, SeqConcat
<1>3. DOMAIN q = 1..(Len(o) + n)
  BY Zenon, <1>2, SeqIsFunction
<1>4. \A i \in 1..Len(o) : i \in DOMAIN q /\ q[i] = o[i]
  <2> TAKE i \in 1..Len(o)
  <2>1. i \in 1..(Len(o) + n) /\ i <= Len(o)
    BY <1>1
  <2> QED BY Zenon, <1>2, <1>3, <2>1
<1>5. \A i \in (Len(o) + 1)..(Len(o) + n) : i \in DOMAIN q /\ q[i] = x
  <2> TAKE i \in (Len(o) + 1)..(Len(o) + n)
  <2>1. i \in 1..(Len(o) + n) /\ ~(i <= Len(o)) /\ i - Len(o) \in 1..n
    BY <1>1
  <2> QED BY Zenon, <1>2, <1>3, <2>1
<1>6. \A i : i \in DOMAIN q <=> i \in 1..Len(o) \/ i \in (Len(o) + 1)..(Len(o) + n)
  BY <1>1, <1>3
<1>7. \A j : j \in DOMAIN q /\ q[j] = x <=> j \in (Len(o) + 1)..(Len(o) + n)
  BY <1>1, <1>4, <1>5, <1>6
<1>8. \A y, j : y # x => (j \in DOMAIN q /\ q[j] = y <=> j \in DOMAIN o /\ o[j] = y)
  BY Zenon, <1>1, <1>4, <1>5, <1>6
<1>9. \A j \in DOMAIN q : q[j] = x \/ \E i \in DOMAIN o : q[j] = o[i]
  BY <1>1, <1>4, <1>5, <1>6
<1> QED BY Zenon, <1>7, <1>8, <1>9

\* A writer that joins adds its whole batch.
LEMMA OpsJoin ==
    ASSUME Shape, CallInv, OpsInv, NEW t \in Threads, GroupAbsorb(t)
    PROVE  OpsInv'
<1>10. /\ QueueTypes /\ QueueInv /\ GroupInv /\ LeaderTypes
       /\ writers \in Seq(Threads) /\ Len(writers) \in Nat /\ DOMAIN writers = 1..Len(writers)
  BY Zenon, SeqIsFunction DEF Shape, TypeOK, QueueTypes
<1> DEFINE f == writers[group.n + 1]
           c == [j \in 1..Size(f) |-> call[f]]
<1>1. /\ pc[t] = "group" /\ pc[t] \in Leading /\ pc[t] \in Committing /\ pc' = pc
      /\ UNCHANGED <<calls, call, writers>>
  BY Zenon DEF GroupAbsorb, Leading, Locations, Committing
<1>2. /\ group.n \in 1..Len(writers) /\ group.n < Len(writers)
      /\ group.ops \in Seq(Calls)
  BY Zenon, <1>1, <1>10 DEF GroupAbsorb, Joins, GroupInv, LeaderTypes
<1>3. \A m \in 1..(group.n + 1) : m \in DOMAIN writers /\ writers[m] \in Threads
                                  /\ pc[writers[m]] # "idle"
  <2> TAKE m \in 1..(group.n + 1)
  <2>1. m \in DOMAIN writers
    BY <1>2, <1>10
  <2>2. writers[m] \in Threads
    BY Zenon, <1>10, <2>1, SeqElement
  <2> QED BY Zenon, <1>10, <2>1, <2>2 DEF QueueInv
<1>4. f \in Threads /\ pc[f] # "idle" /\ group.n + 1 \in DOMAIN writers
  <2>1. group.n + 1 \in 1..(group.n + 1)
    BY <1>2
  <2> QED BY Zenon, <1>3, <2>1
<1>5. Size(f) \in Nat /\ call[f] \in Calls
  BY Zenon, <1>4, CallOf
<1>6. group' = [group EXCEPT !.n = group.n + 1, !.size = group.size + Size(f),
                             !.ops = group.ops \o c]
  BY Zenon DEF GroupAbsorb, Follower
<1>7. c \in Seq(Calls) /\ Len(c) = Size(f) /\ \A j \in 1..Size(f) : c[j] = call[f]
  BY Zenon, <1>5, ConstantSeq
<1>8. \A m \in 1..group.n : call[writers[m]] # call[f]
  <2> TAKE m \in 1..group.n
  <2>1. m \in 1..(group.n + 1) /\ m # group.n + 1
    BY <1>2
  <2>2. writers[m] # f
    BY Zenon, <1>3, <1>4, <1>10, <2>1 DEF QueueInv
  <2> QED BY Zenon, <1>3, <1>4, <2>1, <2>2 DEF CallInv
<1> HIDE DEF f, c
<1>9. group'.n = group.n + 1 /\ group'.ops = group.ops \o c
  BY Zenon, <1>6, <1>10 DEF LeaderTypes
<1>11. \A j \in DOMAIN group.ops : \E m \in 1..group.n : group.ops[j] = call[writers[m]]
  BY Zenon, <1>1 DEF OpsInv
<1>12. \A j \in DOMAIN group.ops : group.ops[j] # call[f]
  BY <1>8, <1>11
<1>13. /\ {j \in DOMAIN group'.ops : group'.ops[j] = call[f]} =
             (Len(group.ops) + 1)..(Len(group.ops) + Size(f))
       /\ \A y : y # call[f] => {j \in DOMAIN group'.ops : group'.ops[j] = y} =
                                {j \in DOMAIN group.ops : group.ops[j] = y}
       /\ \A j \in DOMAIN group'.ops :
             group'.ops[j] = call[f] \/ \E i \in DOMAIN group.ops : group'.ops[j] = group.ops[i]
  <2> DEFINE q == group'.ops
  <2>1. q = group.ops \o c
    BY Zenon, <1>9
  <2> HIDE DEF q
  <2>2. /\ \A j : j \in DOMAIN q /\ q[j] = call[f] <=>
                  j \in (Len(group.ops) + 1)..(Len(group.ops) + Size(f))
        /\ \A y, j : y # call[f] =>
              (j \in DOMAIN q /\ q[j] = y <=> j \in DOMAIN group.ops /\ group.ops[j] = y)
        /\ \A j \in DOMAIN q : q[j] = call[f] \/ \E i \in DOMAIN group.ops : q[j] = group.ops[i]
    <3> DEFINE o == group.ops
               x == call[f]
               n == Size(f)
    <3>1. /\ o \in Seq(Calls) /\ c \in Seq(Calls) /\ n \in Nat /\ Len(c) = n
          /\ \A j \in 1..n : c[j] = x
          /\ \A j \in DOMAIN o : o[j] # x
          /\ q = o \o c
      BY Zenon, <1>2, <1>5, <1>7, <1>12, <2>1
    <3> HIDE DEF o, x, n
    <3>2. /\ \A j : j \in DOMAIN q /\ q[j] = x <=> j \in (Len(o) + 1)..(Len(o) + n)
          /\ \A y, j : y # x => (j \in DOMAIN q /\ q[j] = y <=> j \in DOMAIN o /\ o[j] = y)
          /\ \A j \in DOMAIN q : q[j] = x \/ \E i \in DOMAIN o : q[j] = o[i]
      BY ONLY <3>1, AppendedPositions
    <3> QED BY <3>2 DEF o, x, n
  <2>3. {j \in DOMAIN q : q[j] = call[f]} = (Len(group.ops) + 1)..(Len(group.ops) + Size(f))
    BY Zenon, <2>2
  <2>4. \A y : y # call[f] => {j \in DOMAIN q : q[j] = y} =
                              {j \in DOMAIN group.ops : group.ops[j] = y}
    BY <2>2
  <2> QED BY Zenon, <2>2, <2>3, <2>4 DEF q
<1>14. \A m : /\ Positions(call[writers[m]])' =
                    {j \in DOMAIN group'.ops : group'.ops[j] = call[writers[m]]}
              /\ Size(writers[m])' = Size(writers[m])
  BY Zenon, <1>1 DEF Positions, Size
<1>15. Cardinality((Len(group.ops) + 1)..(Len(group.ops) + Size(f))) = Size(f)
  <2>1. Len(group.ops) \in Nat
    BY Zenon, <1>2, SeqIsFunction
  <2> DEFINE a == Len(group.ops) + 1
             b == Len(group.ops) + Size(f)
  <2>2. a \in Int /\ b \in Int /\ b - a + 1 = Size(f) /\ (a > b => Size(f) = 0)
    BY <1>5, <2>1
  <2> HIDE DEF a, b
  <2>3. Cardinality(a..b) = IF a > b THEN 0 ELSE b - a + 1
    BY Zenon, <2>2, FS_Interval
  <2>4. Cardinality(a..b) = Size(f)
    BY Zenon, <2>2, <2>3
  <2> QED BY Zenon, <2>4 DEF a, b
<1>16. ASSUME NEW m \in 1..group'.n
       PROVE  Cardinality(Positions(call[writers[m]])') = Size(writers[m])'
  <2>1. CASE m \in 1..group.n
    <3>1. Positions(call[writers[m]])' = {j \in DOMAIN group.ops : group.ops[j] = call[writers[m]]}
      BY Zenon, <1>8, <1>13, <1>14, <2>1
    <3>2. Positions(call[writers[m]])' = Positions(call[writers[m]])
      BY Zenon, <3>1 DEF Positions
    <3> QED BY <1>1, <1>14, <2>1, <3>2 DEF OpsInv
  <2>2. CASE m = group.n + 1
    <3>1. writers[m] = f
      BY <2>2 DEF f
    <3> QED BY Zenon, <1>13, <1>14, <1>15, <3>1
  <2>3. m \in 1..group.n \/ m = group.n + 1
    BY <1>2, <1>9
  <2> QED BY Zenon, <2>1, <2>2, <2>3
<1>17. ASSUME NEW j \in DOMAIN group'.ops
       PROVE  \E m \in 1..group'.n : group'.ops[j] = call'[writers'[m]]
  <2>1. group.n + 1 \in 1..group'.n /\ 1..group.n \subseteq 1..group'.n
    BY <1>2, <1>9
  <2>2. CASE group'.ops[j] = call[f]
    BY Zenon, <1>1, <2>1, <2>2 DEF f
  <2>3. CASE \E i \in DOMAIN group.ops : group'.ops[j] = group.ops[i]
    BY Zenon, <1>1, <1>11, <2>1, <2>3
  <2> QED BY Zenon, <1>13, <2>2, <2>3
<1>18. \A u \in Threads : pc'[u] \in Committing => pc'[u] = "group"
  BY <1>1, OneLeader DEF Shape, Leading, Locations, Committing
<1> QED BY Zenon, <1>16, <1>17, <1>18 DEF OpsInv

\* The record, the fsync and the insertions keep the batch; an error ends the
\* commit before the first insertion.
LEMMA OpsCommit ==
    ASSUME Shape, OpsInv, NEW t \in Threads, NEW ok \in BOOLEAN,
           AddRecord(t, ok) \/ SyncLog(t, ok) \/ InsertInto(t)
    PROVE  OpsInv'
<1>1. /\ pc[t] \in Leading /\ pc[t] \in Committing
      /\ \A u \in Threads : u # t => pc'[u] = pc[u]
      /\ UNCHANGED <<calls, call, writers>>
  BY Zenon DEF AddRecord, SyncLog, InsertInto, Leading, Locations, Committing,
         Shape, TypeOK, QueueTypes
<1>2. group'.n = group.n /\ group'.ops = group.ops
  BY Zenon DEF AddRecord, SyncLog, InsertInto, Shape, TypeOK, LeaderTypes
<1>3. \A u \in Threads : pc'[u] \in Committing => u = t
  BY Zenon, <1>1, OneLeader DEF Shape, Leading, Locations, Committing
<1>4. \A m : /\ Positions(call[writers[m]])' = Positions(call[writers[m]])
             /\ Size(writers[m])' = Size(writers[m])
  BY Zenon, <1>1, <1>2 DEF Positions, Size
<1>5. /\ pc'[t] = "insert" => group'.status = "ok"
      /\ pc'[t] = "finish" =>
            group'.k = IF group'.status = "ok" THEN Len(group'.ops) ELSE 0
  <2>1. CASE AddRecord(t, ok)
    <3>1. /\ pc'[t] = AfterAddRecord(t, ok) /\ group'.status = AddStatus(ok)
          /\ group'.k = group.k /\ pc[t] = "log"
      BY Zenon, <2>1 DEF AddRecord, Shape, TypeOK, QueueTypes, LeaderTypes
    <3>2. group.k = 0
      BY Zenon, <1>1, <3>1 DEF Shape, GroupInv
    <3> QED BY Zenon, <3>1, <3>2 DEF AfterAddRecord, AddStatus
  <2>2. CASE SyncLog(t, ok)
    <3>1. /\ pc'[t] = IF ok THEN "insert" ELSE "finish"
          /\ group'.status = IF ok THEN "ok" ELSE "syncerr"
          /\ group'.k = group.k /\ pc[t] = "sync"
      BY Zenon, <2>2 DEF SyncLog, Shape, TypeOK, QueueTypes, LeaderTypes
    <3>2. group.k = 0
      BY Zenon, <1>1, <3>1 DEF Shape, GroupInv
    <3> QED BY Zenon, <3>1, <3>2
  <2>3. CASE InsertInto(t)
    <3>1. /\ pc[t] = "insert" /\ group'.status = group.status /\ group'.k = group.k + 1
          /\ pc'[t] = IF group.k + 1 = Len(group.ops) THEN "finish" ELSE "insert"
      BY Zenon, <2>3 DEF InsertInto, Shape, TypeOK, QueueTypes, LeaderTypes
    <3>2. group.status = "ok"
      BY Zenon, <1>1, <3>1 DEF OpsInv
    <3> QED BY Zenon, <1>2, <3>1, <3>2
  <2> QED BY Zenon, <2>1, <2>2, <2>3
<1>6. \A m \in 1..group'.n : Cardinality(Positions(call[writers[m]])') = Size(writers[m])'
  BY <1>1, <1>2, <1>4 DEF OpsInv
<1>7. \A j \in DOMAIN group'.ops : \E m \in 1..group'.n : group'.ops[j] = call'[writers'[m]]
  BY SMTT(30), <1>1, <1>2 DEF OpsInv
<1> QED BY <1>3, <1>5, <1>6, <1>7 DEF OpsInv

\* A call that is entered or returned does not touch the calls of the group.
LEMMA OpsQueue ==
    ASSUME Shape, OpsInv, NEW t \in Threads,
           \/ \E size \in BatchSizes, sync \in BOOLEAN : Enqueue(t, size, sync)
           \/ WakeUp(t) /\ done[t] # "no"
    PROVE  OpsInv'
<1>1. /\ calls \in Seq(Call) /\ Len(calls) \in Nat /\ DOMAIN calls = 1..Len(calls)
      /\ writers \in Seq(Threads) /\ Len(writers) \in Nat /\ DOMAIN writers = 1..Len(writers)
  BY Zenon, SeqIsFunction DEF Shape, TypeOK, QueueTypes
<1>2. /\ group' = group
      /\ \A u \in Threads : u # t => pc'[u] = pc[u] /\ call'[u] = call[u]
      /\ pc'[t] \notin Committing
  BY Zenon DEF Enqueue, WakeUp, Shape, TypeOK, QueueTypes, Committing
<1>3. \A i \in 1..Len(writers) : writers'[i] = writers[i]
  <2>1. CASE writers' = Append(writers, t)
    BY <1>1, <2>1, SeqAppend
  <2>2. CASE writers' = writers
    BY Zenon, <2>2
  <2> QED BY Zenon, <2>1, <2>2 DEF Enqueue, WakeUp
<1>4. \A i \in DOMAIN calls : calls'[i].size = calls[i].size
  <2>1. CASE WakeUp(t) /\ done[t] # "no"
    <3>1. call[t] \in DOMAIN calls /\ calls' = [calls EXCEPT ![call[t]].result = done[t]]
      BY Zenon, <2>1 DEF WakeUp, Shape, QueueInv
    <3> QED BY Zenon, <3>1, ResultSet
  <2>2. ASSUME NEW size \in BatchSizes, NEW sync \in BOOLEAN, Enqueue(t, size, sync)
        PROVE  \A i \in DOMAIN calls : calls'[i] = calls[i]
    BY <1>1, <2>2 DEF Enqueue
  <2> QED BY Zenon, <2>1, <2>2
<1>5. pc[t] = "idle" \/ (pc[t] = "queued" /\ done[t] # "no")
  BY Zenon DEF Enqueue, WakeUp
<1>6. ASSUME NEW u \in Threads, pc'[u] \in Committing, NEW m \in 1..group.n
      PROVE  /\ call'[writers'[m]] = call[writers[m]]
             /\ calls'[call[writers[m]]].size = calls[call[writers[m]]].size
  <2>1. u # t /\ pc[u] \in Committing
    BY Zenon, <1>2, <1>6
  <2>2. m \in 1..Len(writers)
    <3>1. group.n \in 1..Len(writers)
      BY Zenon, <2>1 DEF Shape, GroupInv
    <3> QED BY <1>1, <3>1
  <2>3. PICK w \in Threads : w = writers[m] /\ w = writers'[m] /\ pc[w] # "idle" /\ done[w] = "no"
    BY <1>1, <1>3, <2>2, SeqElement DEF Shape, QueueInv
  <2>4. w # t /\ call[w] \in DOMAIN calls
    BY Zenon, <1>5, <2>3 DEF Shape, QueueInv
  <2> QED BY Zenon, <1>2, <1>4, <2>3, <2>4
<1> QED BY Zenon, <1>2, <1>6, OpsKept

\* Every step keeps the group's batch whole.
LEMMA OpsStep ==
    ASSUME Shape, CallInv, OpsInv, [Next]_vars
    PROVE  OpsInv'
<1>1. ASSUME NEW t \in Threads, NEW n \in 1..Len(writers), NEW s \in {"ok", "err"},
             pc[t] \in Leading, Leave(t, n, s)
      PROVE  OpsInv'
  <2>1. \A u \in Threads : pc'[u] \notin Leading
    BY Zenon, <1>1, LeaderLeaves DEF Shape, TypeOK
  <2> QED BY Zenon, <2>1 DEF OpsInv, Leading, Locations, Committing
<1>2. ASSUME UNCHANGED <<calls, call, writers, group>>,
             \A u \in Threads : pc'[u] \in Committing =>
                /\ pc[u] \in Committing
                /\ pc'[u] \in {"insert", "finish"} => pc'[u] = pc[u]
      PROVE  OpsInv'
  BY Zenon, <1>2, OpsKept
<1>3. ASSUME NEW t \in Threads,
             \/ WakeUp(t) /\ done[t] = "no"
             \/ RoomDelay(t) \/ RoomDelayed(t) \/ RoomWait(t) \/ RoomWaited(t)
             \/ RoomEnough(t) /\ IsNull(t) /\ hasImm
             \/ GroupDone(t) \/ SpuriousWakeup(t)
             \/ \E ok \in BOOLEAN : RoomSwitch(t, ok)
      PROVE  OpsInv'
  <2>1. UNCHANGED <<calls, call, writers, group>>
    BY Zenon, <1>3 DEF WakeUp, RoomDelay, RoomDelayed, RoomWait, RoomWaited, RoomEnough,
                GroupDone, SpuriousWakeup, RoomSwitch, writeVars
  <2>2. \A u \in Threads : pc'[u] \in Committing =>
                /\ pc[u] \in Committing
                /\ pc'[u] \in {"insert", "finish"} => pc'[u] = pc[u]
    BY Zenon, <1>3 DEF WakeUp, RoomDelay, RoomDelayed, RoomWait, RoomWaited, RoomEnough,
                GroupDone, SpuriousWakeup, RoomSwitch, writeVars, Committing, Shape,
                TypeOK, QueueTypes
  <2> QED BY <1>2, <2>1, <2>2
<1>4. ASSUME NEW t \in Threads,
             \/ RoomError(t) \/ RoomSwitchFails(t)
             \/ RoomEnough(t) /\ IsNull(t) /\ ~hasImm
             \/ FlushWaited(t) /\ \E s \in {"ok", "err"} : Leave(t, 1, s)
      PROVE  OpsInv'
  <2>1. pc[t] \in Leading
    BY <1>4 DEF RoomError, RoomSwitchFails, RoomEnough, FlushWaited, InRoom, Leading, Locations
  <2>2. 1 \in 1..Len(writers)
    BY <2>1, SeqEmpty DEF Shape, TypeOK, QueueTypes, SingleLeader
  <2>3. \E s \in {"ok", "err"} : Leave(t, 1, s)
    BY Zenon, <1>4 DEF RoomError, RoomSwitchFails, RoomEnough
  <2> QED BY Zenon, <1>1, <2>1, <2>2, <2>3
<1>5. ASSUME NEW t \in Threads, FlushWaited(t) PROVE OpsInv'
  <2>1. \/ UNCHANGED <<calls, call, writers, group, pc>>
        \/ \E s \in {"ok", "err"} : Leave(t, 1, s)
    BY Zenon, <1>5 DEF FlushWaited
  <2> QED BY Zenon, <1>2, <1>4, <1>5, <2>1
<1>6. ASSUME NEW t \in Threads, Finish(t) PROVE OpsInv'
  <2>1. pc[t] \in Leading /\ group.n \in 1..Len(writers)
    BY Zenon, <1>6 DEF Finish, Leading, Locations, Committing, Shape, GroupInv
  <2>2. \E s \in {"ok", "err"} : Leave(t, group.n, s)
    BY Zenon, <1>6 DEF Finish
  <2> QED BY Zenon, <1>1, <2>1, <2>2
<1>7. ASSUME NEW t \in Threads, Client(t) PROVE OpsInv'
  BY Zenon, <1>3, <1>4, <1>5, <1>6, <1>7, OpsOpen, OpsJoin, OpsCommit, OpsQueue DEF Client
<1>8. CASE UNCHANGED vars \/ Background \/ Close
  <2>1. UNCHANGED <<calls, call, writers, group, pc>>
    BY Zenon, <1>8 DEF vars, writeVars, Background, BgStart, BgBuild, BgApply, BgRemove,
                BgCompactImm, BgCompacted, BgInstall, Close
  <2> QED BY Zenon, <1>2, <2>1
<1> QED BY <1>3, <1>7, <1>8, OpsQueue DEF Next

-----------------------------------------------------------------------------
(* The entries past LastSequence() *)

\* Only InsertInto and Finish change what is inserted of the group.
LEMMA InsertedKept ==
    ASSUME Shape, [Next]_vars
    PROVE  \/ group'.k = group.k /\ (group'.ops = group.ops \/ group.k = 0)
           \/ \E t \in Threads : InsertInto(t) \/ Finish(t)
<1>1. ASSUME NEW t \in Threads, RoomEnough(t), ~IsNull(t)
      PROVE  group'.k = group.k /\ group.k = 0
  <2>1. group'.k = 0
    BY Zenon, <1>1 DEF RoomEnough, NoGroup
  <2>2. group.k = 0
    BY Zenon, <1>1, NoGroupYet DEF RoomEnough, InRoom, Leading, Locations, Committing
  <2> QED BY Zenon, <2>1, <2>2
<1>2. ASSUME NEW t \in Threads, GroupAbsorb(t)
      PROVE  group'.k = group.k /\ group.k = 0
  <2>1. group'.k = group.k
    BY Zenon, <1>2 DEF GroupAbsorb, Shape, TypeOK, LeaderTypes
  <2>2. group.k = 0
    BY Zenon, <1>2 DEF GroupAbsorb, Shape, GroupInv, Committing
  <2> QED BY <2>1, <2>2
<1>3. ASSUME NEW t \in Threads, NEW ok \in BOOLEAN, AddRecord(t, ok) \/ SyncLog(t, ok)
      PROVE  group'.k = group.k /\ group'.ops = group.ops
  BY Zenon, <1>3 DEF AddRecord, SyncLog, Shape, TypeOK, LeaderTypes
<1>4. ASSUME NEW t \in Threads,
             \/ WakeUp(t)
             \/ RoomError(t) \/ RoomDelay(t) \/ RoomDelayed(t)
             \/ RoomEnough(t) /\ IsNull(t)
             \/ RoomWait(t) \/ RoomWaited(t) \/ FlushWaited(t) \/ RoomSwitchFails(t)
             \/ GroupDone(t) \/ SpuriousWakeup(t)
             \/ \E ok \in BOOLEAN : RoomSwitch(t, ok)
             \/ \E size \in BatchSizes, sync \in BOOLEAN : Enqueue(t, size, sync)
      PROVE  group' = group
  BY Zenon, <1>4 DEF WakeUp, RoomError, RoomDelay, RoomDelayed, RoomEnough, RoomWait, RoomWaited,
              FlushWaited, RoomSwitchFails, GroupDone, SpuriousWakeup, RoomSwitch, Enqueue,
              writeVars
<1>5. CASE UNCHANGED vars \/ Background \/ Close
  <2>1. group' = group
    BY Zenon, <1>5 DEF vars, writeVars, Background, BgStart, BgBuild, BgApply, BgRemove,
                BgCompactImm, BgCompacted, BgInstall, Close
  <2> QED BY Zenon, <2>1
<1>6. ASSUME NEW t \in Threads, Client(t)
      PROVE  \/ group'.k = group.k /\ (group'.ops = group.ops \/ group.k = 0)
             \/ InsertInto(t) \/ Finish(t)
  <2>1. CASE RoomEnough(t) \/ GroupAbsorb(t)
    BY <1>1, <1>2, <1>4, <2>1
  <2>2. CASE \E ok \in BOOLEAN : AddRecord(t, ok) \/ SyncLog(t, ok)
    BY Zenon, <1>3, <2>2
  <2>3. CASE \/ WakeUp(t)
             \/ RoomError(t) \/ RoomDelay(t) \/ RoomDelayed(t)
             \/ RoomWait(t) \/ RoomWaited(t) \/ FlushWaited(t) \/ RoomSwitchFails(t)
             \/ GroupDone(t)
             \/ \E ok \in BOOLEAN : RoomSwitch(t, ok)
    <3>1. group' = group
      BY Zenon, <1>4, <2>3
    <3> QED BY Zenon, <3>1
  <2> QED BY Zenon, <1>6, <2>1, <2>2, <2>3 DEF Client
<1>7. ASSUME NEW t \in Threads,
             \/ SpuriousWakeup(t)
             \/ \E size \in BatchSizes, sync \in BOOLEAN : Enqueue(t, size, sync)
      PROVE  group'.k = group.k /\ group'.ops = group.ops
  <2>1. group' = group
    BY Zenon, <1>4, <1>7
  <2> QED BY Zenon, <2>1
<1> QED BY <1>5, <1>6, <1>7 DEF Next

\* Calls are never forgotten and keep their size.
LEMMA CallsKept ==
    ASSUME Shape, [Next]_vars
    PROVE  /\ DOMAIN calls \subseteq DOMAIN calls'
           /\ \A i \in DOMAIN calls : calls'[i].size = calls[i].size
<1>1. calls \in Seq(Call) /\ Len(calls) \in Nat /\ DOMAIN calls = 1..Len(calls)
  BY Zenon, SeqIsFunction DEF Shape, TypeOK, QueueTypes
<1>2. CASE calls' = calls
  BY Zenon, <1>2
<1>3. ASSUME NEW t \in Threads, NEW size \in BatchSizes, NEW sync \in BOOLEAN,
             Enqueue(t, size, sync)
      PROVE  /\ DOMAIN calls \subseteq DOMAIN calls'
             /\ \A i \in DOMAIN calls : calls'[i].size = calls[i].size
  <2>1. \E new : calls' = Append(calls, new)
    BY Zenon, <1>3 DEF Enqueue
  <2> QED BY <1>1, <2>1
<1>4. ASSUME NEW c \in DOMAIN calls, NEW r, calls' = [calls EXCEPT ![c].result = r]
      PROVE  /\ DOMAIN calls \subseteq DOMAIN calls'
             /\ \A i \in DOMAIN calls : calls'[i].size = calls[i].size
  BY <1>4, ResultSet
<1>5. ASSUME NEW t \in Threads, WakeUp(t), done[t] # "no"
      PROVE  /\ call[t] \in DOMAIN calls
             /\ \E r : calls' = [calls EXCEPT ![call[t]].result = r]
  BY Zenon, <1>5 DEF WakeUp, Shape, QueueInv
<1>6. ASSUME NEW t \in Threads, pc[t] \in Leading, NEW n, NEW s, Leave(t, n, s)
      PROVE  /\ call[t] \in DOMAIN calls
             /\ \E r : calls' = [calls EXCEPT ![call[t]].result = r]
  BY Zenon, <1>6 DEF Leave, Shape, QueueInv, Leading
<1>7. ASSUME NEW t \in Threads, Finish(t)
      PROVE  /\ call[t] \in DOMAIN calls
             /\ \E r : calls' = [calls EXCEPT ![call[t]].result = r]
  <2>1. pc[t] \in Leading
    BY Zenon, <1>7 DEF Finish, Leading, Locations
  <2> QED BY Zenon, <1>6, <1>7, <2>1 DEF Finish
<1> QED BY Zenon, <1>2, <1>3, <1>4, <1>5, <1>6, <1>7, CallsOfStep

\* The calls of the group are calls.
LEMMA OpsAreCalls ==
    ASSUME Shape, OpsInv, NEW t \in Threads, pc[t] \in Committing
    PROVE  \A j \in DOMAIN group.ops : group.ops[j] \in DOMAIN calls
<1>1. group.n \in 1..Len(writers) /\ writers \in Seq(Threads) /\ Len(writers) \in Nat
      /\ DOMAIN writers = 1..Len(writers)
  BY SeqIsFunction DEF Shape, GroupInv, TypeOK, QueueTypes
<1>2. \A m \in 1..group.n : m \in DOMAIN writers
  BY <1>1
<1>3. \A m \in 1..group.n : writers[m] \in Threads /\ pc[writers[m]] # "idle"
  BY Zenon, <1>1, <1>2, SeqElement DEF Shape, QueueInv
<1>4. \A m \in 1..group.n : call[writers[m]] \in DOMAIN calls
  BY Zenon, <1>3 DEF Shape, QueueInv
<1> QED BY Zenon, <1>4 DEF OpsInv

\* Every step keeps the entries past LastSequence() the first k of the group's.
LEMMA PendingStep ==
    ASSUME Shape, DataInv, OpsInv, PendingInv, [Next]_vars
    PROVE  PendingInv'
<1>1. /\ group.k \in Nat /\ lastSeq \in Nat /\ Len(group.ops) \in Nat
      /\ group.k <= Len(group.ops) /\ DOMAIN group.ops = 1..Len(group.ops)
  BY Zenon, SeqIsFunction DEF Shape, TypeOK, LeaderTypes, DataTypes, GroupInv
<1>2. \A f \in Entries : f.seq \in Nat /\ f.seq <= lastSeq + group.k
  BY Zenon DEF Shape, TypeOK, DataTypes, Entries, Entry, DataInv
<1>3. \A i \in DOMAIN calls : i \in DOMAIN calls'
  BY Zenon, CallsKept
<1>4. ASSUME Entries' = Entries, lastSeq' = lastSeq, group'.k = group.k,
             group'.ops = group.ops \/ group.k = 0
      PROVE  PendingInv'
  <2>1. CASE group'.ops = group.ops
    BY Zenon, <1>3, <1>4, <2>1 DEF PendingInv
  <2>2. CASE group.k = 0
    <3>1. \A f \in Entries : ~(f.seq > lastSeq)
      BY <1>1, <1>2, <2>2
    <3>2. 1..group'.k = {}
      BY <1>4, <2>2
    <3> QED BY Zenon, <1>3, <1>4, <3>1, <3>2 DEF PendingInv
  <2> QED BY Zenon, <1>4, <2>1, <2>2
<1>5. ASSUME NEW t \in Threads, Finish(t) PROVE PendingInv'
  <2>1. Entries' = Entries /\ lastSeq' = lastSeq + Len(group.ops) /\ group'.k = 0
    BY Zenon, <1>5 DEF Finish, Entries, GroupCount, NoGroup
  <2>2. \A f \in Entries : ~(f.seq > lastSeq')
    BY <1>1, <1>2, <2>1
  <2>3. 1..group'.k = {}
    BY <2>1
  <2> QED BY <1>3, <2>1, <2>2, <2>3 DEF PendingInv
<1>6. ASSUME NEW t \in Threads, InsertInto(t) PROVE PendingInv'
  <2> DEFINE e == [seq |-> lastSeq + (group.k + 1), id |-> group.ops[group.k + 1]]
  <2>1. /\ Entries' = Entries \cup {e} /\ lastSeq' = lastSeq
        /\ pc[t] = "insert" /\ group' = [group EXCEPT !.k = group.k + 1]
    <3>1. FirstSequence + group.k = lastSeq + (group.k + 1)
      BY <1>1 DEF FirstSequence
    <3> QED BY Zenon, <1>6, <3>1 DEF InsertInto, Entries
  <2>2. group'.k = group.k + 1 /\ group'.ops = group.ops
    BY Zenon, <2>1 DEF Shape, TypeOK, LeaderTypes
  <2>3. e.seq = lastSeq + (group.k + 1) /\ e.id = group.ops[group.k + 1]
    BY Zenon
  <2>4. e.seq - lastSeq = group.k + 1
    BY <1>1, <2>3
  <2>5. e.id \in DOMAIN calls
    <3>1. group.k + 1 \in DOMAIN group.ops /\ pc[t] \in Committing
      BY <1>1, <2>1 DEF Shape, GroupInv, Committing
    <3> QED BY Zenon, <2>3, <3>1, OpsAreCalls
  <2>6. \A f \in Entries' : f.id \in DOMAIN calls'
    BY Zenon, <1>3, <2>1, <2>5 DEF PendingInv
  <2>7. \A f \in Entries' : f.seq > lastSeq' => f.id = group'.ops[f.seq - lastSeq']
    BY <2>1, <2>2, <2>3, <2>4 DEF PendingInv
  <2>8. ASSUME NEW j \in 1..group'.k
        PROVE  [seq |-> lastSeq' + j, id |-> group'.ops[j]] \in Entries'
    <3>1. j \in 1..group.k \/ j = group.k + 1
      BY <1>1, <2>2
    <3>2. CASE j \in 1..group.k
      BY <2>1, <2>2, <3>2 DEF PendingInv
    <3>3. CASE j = group.k + 1
      BY <2>1, <2>2, <3>3
    <3> QED BY Zenon, <3>1, <3>2, <3>3
  <2> QED BY Zenon, <2>6, <2>7, <2>8 DEF PendingInv
<1> QED BY Zenon, <1>4, <1>5, <1>6, EntriesKept, InsertedKept

-----------------------------------------------------------------------------
(* What a reader sees *)

\* A step that does not move LastSequence() changes nothing a reader sees.
LEMMA SameVisible ==
    ASSUME Shape, DataInv, [Next]_vars, lastSeq' = lastSeq
    PROVE  \A i : Visible(i)' = Visible(i)
<1>1. lastSeq \in Nat
  BY Zenon DEF Shape, TypeOK, DataTypes
<1> QED BY <1>1, EntriesStep DEF Visible

\* VisibleInv in terms of what each call shows in the next state.
LEMMA VisibleNext ==
    ASSUME \A u \in Threads : \A i : pc'[u] # "idle" /\ i = call'[u] =>
              /\ done'[u] = "no" => Visible(i)' = {}
              /\ done'[u] = "ok" => Cardinality(Visible(i)') = calls'[i].size,
           \A i \in DOMAIN calls' : Cardinality(Visible(i)') \in {0, calls'[i].size},
           \A i \in Acked' : Cardinality(Visible(i)') = calls'[i].size
    PROVE  VisibleInv'
<1>1. BatchesAtomic' /\ AckedVisible'
  BY Zenon DEF BatchesAtomic, AckedVisible, Visible
<1>2. \A u \in Threads : pc'[u] # "idle" /\ done'[u] = "no" => Visible(call[u])' = {}
  BY Zenon DEF Visible
<1>3. \A u \in Threads : pc'[u] # "idle" /\ done'[u] = "ok" =>
         Cardinality(Visible(call[u])') = Size(u)'
  BY Zenon DEF Visible, Size
<1> QED BY Zenon, <1>1, <1>2, <1>3 DEF VisibleInv

\* What VisibleInv says of this state, call by call.
LEMMA VisibleNow ==
    ASSUME VisibleInv
    PROVE  /\ \A u \in Threads : \A i : pc[u] # "idle" /\ i = call[u] =>
                 /\ done[u] = "no" => Visible(i) = {}
                 /\ done[u] = "ok" => Cardinality(Visible(i)) = calls[i].size
           /\ \A i \in DOMAIN calls : Cardinality(Visible(i)) \in {0, calls[i].size}
           /\ \A i \in Acked : Cardinality(Visible(i)) = calls[i].size
BY DEF VisibleInv, BatchesAtomic, AckedVisible, Visible, Size

\* The calls under way have not returned.
LEMMA NotAcked ==
    ASSUME CallInv, NEW u \in Threads, pc[u] # "idle"
    PROVE  call[u] \notin Acked
BY Zenon DEF CallInv, Acked

\* A group leaves: it shows its batches when its status is OK, and what its
\* leader tells the others of the group is the truth.
LEMMA VisibleLeave ==
    ASSUME Shape, CallInv, VisibleInv, NEW t \in Threads, pc[t] \in Leading,
           NEW n \in 1..Len(writers), NEW s \in {"ok", "err"}, Leave(t, n, s),
           \A i : (\A m \in 1..n : i # call[writers[m]]) => Visible(i)' = Visible(i),
           \A m \in 1..n : \A i : i = call[writers[m]] =>
              /\ Cardinality(Visible(i)') \in {0, calls[i].size}
              /\ s = "ok" => Cardinality(Visible(i)') = calls[i].size
    PROVE  VisibleInv'
<1>1. /\ calls' = [calls EXCEPT ![call[t]].result = s]
      /\ \A u \in Threads : /\ pc'[u] = IF u = t THEN "idle" ELSE pc[u]
                            /\ call'[u] = IF u = t THEN 0 ELSE call[u]
                            /\ done'[u] = IF \E j \in 2..n : u = writers[j]
                                            THEN s ELSE done[u]
  BY AfterLeave
<1>2. call[t] \in DOMAIN calls /\ writers[1] = t /\ 1 \in 1..n
  BY DEF Shape, QueueInv, SingleLeader, Leading
<1>3. /\ DOMAIN calls' = DOMAIN calls
      /\ \A i \in DOMAIN calls : calls'[i].size = calls[i].size
      /\ Acked' \subseteq Acked \cup {i \in {call[t]} : s = "ok"}
  BY Zenon, <1>1, <1>2, ResultSet
<1>4. Len(writers) \in Nat /\ DOMAIN writers = 1..Len(writers) /\ writers \in Seq(Threads)
  BY Zenon, SeqIsFunction DEF Shape, TypeOK, QueueTypes
<1>5. ASSUME NEW m \in 1..n
      PROVE  /\ writers[m] \in Threads /\ pc[writers[m]] # "idle"
             /\ done[writers[m]] = "no" /\ call[writers[m]] \in DOMAIN calls
  <2>1. m \in DOMAIN writers
    BY <1>4
  <2>2. writers[m] \in Threads
    BY Zenon, <1>4, <2>1, SeqElement
  <2> QED BY Zenon, <2>1, <2>2 DEF Shape, QueueInv
<1>6. ASSUME NEW u \in Threads, pc[u] # "idle", \A m \in 1..n : u # writers[m],
             NEW i, i = call[u]
      PROVE  Visible(i)' = Visible(i)
  BY Zenon, <1>5, <1>6 DEF CallInv
<1>7. ASSUME NEW u \in Threads, NEW i, pc'[u] # "idle", i = call'[u]
      PROVE  /\ done'[u] = "no" => Visible(i)' = {}
             /\ done'[u] = "ok" => Cardinality(Visible(i)') = calls'[i].size
  <2>1. u # t /\ pc[u] # "idle" /\ i = call[u] /\ i \in DOMAIN calls
    BY <1>1, <1>7 DEF Shape, QueueInv
  <2>2. CASE \E j \in 2..n : u = writers[j]
    <3>1. PICK m \in 1..n : u = writers[m]
      BY <2>2
    <3>2. done'[u] = s
      BY Zenon, <1>1, <2>2
    <3>3. s = "ok" => Cardinality(Visible(i)') = calls[i].size
      BY Zenon, <2>1, <3>1
    <3> QED BY Zenon, <1>3, <2>1, <3>2, <3>3
  <2>3. CASE ~ \E j \in 2..n : u = writers[j]
    <3>1. \A m \in 1..n : m = 1 \/ m \in 2..n
      OBVIOUS
    <3>2. \A m \in 1..n : u # writers[m]
      BY Zenon, <1>2, <2>1, <2>3, <3>1
    <3>3. Visible(i)' = Visible(i) /\ done'[u] = done[u]
      BY Zenon, <1>1, <1>6, <2>1, <2>3, <3>2
    <3> QED BY SMTT(30), <1>3, <2>1, <3>3, VisibleNow
  <2> QED BY Zenon, <2>2, <2>3
<1>8. ASSUME NEW i \in DOMAIN calls'
      PROVE  Cardinality(Visible(i)') \in {0, calls'[i].size}
  <2>1. CASE \A m \in 1..n : i # call[writers[m]]
    BY Zenon, <1>3, <2>1, VisibleNow
  <2>2. CASE \E m \in 1..n : i = call[writers[m]]
    BY <1>3, <2>2
  <2> QED BY Zenon, <2>1, <2>2
<1>9. ASSUME NEW i \in Acked'
      PROVE  Cardinality(Visible(i)') = calls'[i].size
  <2>1. CASE i \in Acked
    <3>1. \A m \in 1..n : i # call[writers[m]]
      BY Zenon, <1>5, <2>1, NotAcked
    <3>2. i \in DOMAIN calls
      BY Zenon, <2>1 DEF Acked
    <3> QED BY <1>3, <2>1, <3>1, <3>2, VisibleNow
  <2>2. CASE i = call[t] /\ s = "ok"
    BY Zenon, <1>2, <1>3, <2>2
  <2> QED BY Zenon, <1>3, <2>1, <2>2
<1> QED BY Zenon, <1>7, <1>8, <1>9, VisibleNext

\* A new call shows nothing yet.
LEMMA VisibleEnqueue ==
    ASSUME Shape, DataInv, PendingInv, VisibleInv, [Next]_vars, NEW t \in Threads,
           NEW size \in BatchSizes, NEW sync \in BOOLEAN, Enqueue(t, size, sync)
    PROVE  VisibleInv'
<1> DEFINE new == [size |-> size, sync |-> sync, result |-> "none",
                   acked |-> IF size = 0 THEN Acked ELSE {}]
           c == Len(calls) + 1
<1>1. /\ calls \in Seq(Call) /\ Len(calls) \in Nat /\ DOMAIN calls = 1..Len(calls)
      /\ \A u \in Threads : pc[u] # "idle" => call[u] \in DOMAIN calls
  BY Zenon, SeqIsFunction DEF Shape, TypeOK, QueueTypes, QueueInv
<1>2. calls' = Append(calls, new) /\ lastSeq' = lastSeq
  BY Zenon DEF Enqueue, dataVars
<1>3. new.result = "none"
  BY Zenon
<1> HIDE DEF new
<1>4. /\ calls'[c] = new /\ DOMAIN calls' = 1..c
      /\ \A i \in DOMAIN calls : calls'[i] = calls[i]
  BY <1>1, <1>2
<1>5. /\ \A i : i \in DOMAIN calls' <=> i \in DOMAIN calls \/ i = c
      /\ c \notin DOMAIN calls
  BY <1>1, <1>4
<1> HIDE DEF c
<1>6. \A u \in Threads : /\ u # t => pc'[u] = pc[u] /\ call'[u] = call[u] /\ done'[u] = done[u]
                         /\ u = t => call'[u] = c /\ done'[u] = "no"
  BY Zenon DEF Enqueue, Shape, TypeOK, QueueTypes, c
<1>7. \A i : Visible(i)' = Visible(i)
  BY Zenon, <1>2, SameVisible
<1>8. Visible(c) = {}
  BY Zenon, <1>5 DEF Visible, PendingInv
<1>9. ASSUME NEW u \in Threads, NEW i, pc'[u] # "idle", i = call'[u]
      PROVE  /\ done'[u] = "no" => Visible(i)' = {}
             /\ done'[u] = "ok" => Cardinality(Visible(i)') = calls'[i].size
  <2>1. CASE u = t
    BY <1>6, <1>7, <1>8, <1>9, <2>1
  <2>2. CASE u # t
    <3>1. pc[u] # "idle" /\ i = call[u] /\ done'[u] = done[u] /\ calls'[i] = calls[i]
      BY Zenon, <1>1, <1>4, <1>6, <1>9, <2>2
    <3> QED BY <1>7, <3>1, VisibleNow
  <2> QED BY Zenon, <2>1, <2>2
<1>10. \A i \in DOMAIN calls' : Cardinality(Visible(i)') \in {0, calls'[i].size}
  BY <1>4, <1>5, <1>7, <1>8, VisibleNow, FS_EmptySet
<1>11. \A i \in Acked' : i \in Acked /\ calls'[i] = calls[i]
  BY Zenon, <1>3, <1>4, <1>5 DEF Acked
<1>12. \A i \in Acked' : Cardinality(Visible(i)') = calls'[i].size
  BY Zenon, <1>7, <1>11, VisibleNow
<1> QED BY <1>9, <1>10, <1>12, VisibleNext

\* A follower returns what its leader reported.
LEMMA VisibleReturn ==
    ASSUME Shape, DataInv, VisibleInv, [Next]_vars, NEW t \in Threads,
           WakeUp(t), done[t] # "no"
    PROVE  VisibleInv'
<1>1. /\ calls' = [calls EXCEPT ![call[t]].result = done[t]]
      /\ \A u \in Threads : /\ pc'[u] = IF u = t THEN "idle" ELSE pc[u]
                            /\ call'[u] = IF u = t THEN 0 ELSE call[u]
      /\ done' = done /\ lastSeq' = lastSeq /\ pc[t] = "queued"
  BY Zenon DEF WakeUp, dataVars, Shape, TypeOK, QueueTypes
<1>2. call[t] \in DOMAIN calls
  BY Zenon, <1>1 DEF Shape, QueueInv
<1>3. /\ DOMAIN calls' = DOMAIN calls
      /\ \A i \in DOMAIN calls : calls'[i].size = calls[i].size
      /\ Acked' \subseteq Acked \cup {i \in {call[t]} : done[t] = "ok"}
  BY Zenon, <1>1, <1>2, ResultSet
<1>4. \A i : Visible(i)' = Visible(i)
  BY Zenon, <1>1, SameVisible
<1>5. ASSUME NEW u \in Threads, NEW i, pc'[u] # "idle", i = call'[u]
      PROVE  /\ done'[u] = "no" => Visible(i)' = {}
             /\ done'[u] = "ok" => Cardinality(Visible(i)') = calls'[i].size
  <2>1. u # t /\ pc[u] # "idle" /\ i = call[u] /\ i \in DOMAIN calls
    BY Zenon, <1>1, <1>5 DEF Shape, QueueInv
  <2> QED BY <1>1, <1>3, <1>4, <2>1, VisibleNow
<1>6. \A i \in DOMAIN calls' : Cardinality(Visible(i)') \in {0, calls'[i].size}
  BY Zenon, <1>3, <1>4, VisibleNow
<1>7. ASSUME NEW i \in Acked'
      PROVE  Cardinality(Visible(i)') = calls'[i].size
  <2>1. CASE i \in Acked
    BY Zenon, <1>3, <1>4, <2>1, VisibleNow DEF Acked
  <2>2. CASE i = call[t] /\ done[t] = "ok"
    <3>1. Cardinality(Visible(i)) = calls[i].size
      BY <1>1, <2>2, VisibleNow
    <3> QED BY Zenon, <1>2, <1>3, <1>4, <2>2, <3>1
  <2> QED BY Zenon, <1>3, <2>1, <2>2
<1> QED BY Zenon, <1>5, <1>6, <1>7, VisibleNext

\* A writer that leaves alone is in error or wrote nothing.
LEMMA VisibleAlone ==
    ASSUME Shape, DataInv, SyncInv, CallInv, VisibleInv, [Next]_vars,
           NEW t \in Threads, NEW s \in {"ok", "err"},
           pc[t] \in Leading \ Committing, Leave(t, 1, s),
           s = "ok" => pc[t] = "flushwait" \/ IsNull(t), UNCHANGED dataVars
    PROVE  VisibleInv'
<1>1. writers[1] = t /\ 1 \in 1..Len(writers) /\ pc[t] # "idle" /\ 1 \in DOMAIN writers
  BY SeqEmpty, SeqIsFunction DEF Shape, TypeOK, QueueTypes, SingleLeader, Leading
<1>2. \A i : Visible(i)' = Visible(i)
  <2>1. lastSeq' = lastSeq
    BY Zenon DEF dataVars
  <2> QED BY Zenon, <2>1, SameVisible
<1>3. done[t] = "no" /\ (s = "ok" => calls[call[t]].size = 0)
  BY Zenon, <1>1 DEF Shape, QueueInv, SyncInv, IsNull, Size
<1>4. \A i : i = call[t] => Cardinality(Visible(i)') = 0
  BY Zenon, <1>1, <1>2, <1>3, VisibleNow, FS_EmptySet
<1>5. \A m \in 1..1 : m = 1
  OBVIOUS
<1>6. \A m \in 1..1 : \A i : i = call[writers[m]] =>
         /\ Cardinality(Visible(i)') \in {0, calls[i].size}
         /\ s = "ok" => Cardinality(Visible(i)') = calls[i].size
  BY Zenon, <1>1, <1>3, <1>4, <1>5
<1> QED BY Zenon, <1>1, <1>2, <1>6, VisibleLeave

\* LastSequence() moves over the group: each of its calls shows its whole batch,
\* or, after an error, still nothing.
LEMMA VisibleFinish ==
    ASSUME Shape, DataInv, CallInv, OpsInv, PendingInv, VisibleInv,
           NEW t \in Threads, Finish(t)
    PROVE  VisibleInv'
<1> DEFINE s == IF group.status = "ok" THEN "ok" ELSE "err"
           N == Len(group.ops)
<1>1. /\ pc[t] = "finish" /\ pc[t] \in Leading /\ pc[t] \in Committing
      /\ Leave(t, group.n, s) /\ s \in {"ok", "err"}
      /\ Entries' = Entries /\ lastSeq' = lastSeq + N
  BY Zenon DEF Finish, Leading, Locations, Committing, Entries, GroupCount
<1>2. /\ group.n \in 1..Len(writers) /\ writers \in Seq(Threads) /\ Len(writers) \in Nat
      /\ DOMAIN writers = 1..Len(writers)
  BY <1>1, SeqIsFunction DEF Shape, GroupInv, TypeOK, QueueTypes
<1>3. /\ group.k \in Nat /\ lastSeq \in Nat /\ N \in Nat /\ group.k <= N
      /\ DOMAIN group.ops = 1..N
  BY Zenon, SeqIsFunction DEF Shape, TypeOK, LeaderTypes, DataTypes, GroupInv
<1>4. \A f \in Entries : f.seq \in Nat /\ f.seq <= lastSeq + group.k
  BY Zenon DEF Shape, TypeOK, DataTypes, Entries, Entry, DataInv
<1>5. group.k = IF s = "ok" THEN N ELSE 0
  BY Zenon, <1>1 DEF OpsInv
<1>6. ASSUME NEW m \in 1..group.n
      PROVE  /\ writers[m] \in Threads /\ pc[writers[m]] # "idle" /\ done[writers[m]] = "no"
             /\ Cardinality(Positions(call[writers[m]])) = calls[call[writers[m]]].size
  <2>1. m \in DOMAIN writers
    BY <1>2
  <2>2. writers[m] \in Threads
    BY Zenon, <1>2, <2>1, SeqElement
  <2> QED BY <1>1, <2>1, <2>2 DEF Shape, QueueInv, OpsInv, Size
<1> HIDE DEF s, N
<1>7. \A i : Visible(i)' = {e \in Entries : e.id = i}
  <2>1. \A e \in Entries : e.seq <= lastSeq'
    BY <1>1, <1>3, <1>4
  <2>2. \A i : Visible(i)' = {e \in Entries' : e.id = i /\ e.seq <= lastSeq'}
    BY Zenon DEF Visible
  <2> QED BY Zenon, <1>1, <2>1, <2>2
<1>8. ASSUME NEW i, \A m \in 1..group.n : i # call[writers[m]]
      PROVE  Visible(i)' = Visible(i)
  <2>1. ASSUME NEW e \in Entries, e.id = i PROVE e.seq <= lastSeq
    <3> SUFFICES ASSUME e.seq > lastSeq PROVE FALSE
      BY <1>3, <1>4
    <3>1. i = group.ops[e.seq - lastSeq] /\ e.seq - lastSeq \in DOMAIN group.ops
      <4>1. i = group.ops[e.seq - lastSeq]
        BY Zenon, <2>1 DEF PendingInv
      <4>2. e.seq \in Nat /\ e.seq <= lastSeq + group.k
        BY Zenon, <1>4
      <4>3. e.seq - lastSeq \in 1..N
        BY <1>3, <4>2
      <4> QED BY Zenon, <1>3, <4>1, <4>3
    <3> QED BY <1>1, <1>8, <3>1 DEF OpsInv
  <2> QED BY Zenon, <1>7, <2>1 DEF Visible
<1>9. ASSUME NEW m \in 1..group.n, NEW i, i = call[writers[m]]
      PROVE  /\ Cardinality(Visible(i)') \in {0, calls[i].size}
             /\ s = "ok" => Cardinality(Visible(i)') = calls[i].size
  <2>1. Visible(i) = {}
    BY Zenon, <1>6, <1>9, VisibleNow
  <2>2. \A e \in Entries : e.id = i => e.seq > lastSeq
    BY <1>3, <1>4, <2>1 DEF Visible
  <2>3. CASE s # "ok"
    <3>1. {e \in Entries : e.id = i} = {}
      BY <1>3, <1>4, <1>5, <2>2, <2>3
    <3> QED BY Zenon, <1>7, <2>3, <3>1, FS_EmptySet
  <2>4. CASE s = "ok"
    <3>1. \A j : j \in Positions(i) <=> j \in 1..N /\ group.ops[j] = i
      BY <1>3 DEF Positions
    <3>2. Positions(i) \in SUBSET Nat /\ IsFiniteSet(Positions(i))
      <4>1. Positions(i) \subseteq 1..N
        BY Zenon, <3>1
      <4>2. IsFiniteSet(1..N)
        BY <1>3, FS_Interval
      <4> QED BY <1>3, <4>1, <4>2, FS_Subset
    <3>3. ASSUME NEW j \in Positions(i)
          PROVE  [seq |-> lastSeq + j, id |-> i] \in Entries
      BY Zenon, <1>5, <2>4, <3>1 DEF PendingInv
    <3>4. ASSUME NEW e \in Entries, e.id = i
          PROVE  \E j \in Positions(i) : e = [seq |-> lastSeq + j, id |-> i]
      <4>1. e.seq > lastSeq /\ e.seq \in Nat /\ e.seq <= lastSeq + N
        BY Zenon, <1>4, <1>5, <2>2, <2>4, <3>4
      <4>2. e.seq - lastSeq \in 1..N /\ lastSeq + (e.seq - lastSeq) = e.seq
        BY <1>3, <4>1
      <4>3. e.seq - lastSeq \in Positions(i)
        BY Zenon, <3>1, <3>4, <4>1, <4>2 DEF PendingInv
      <4>4. e = [seq |-> e.seq, id |-> e.id]
        BY Zenon DEF Shape, TypeOK, DataTypes, Entries, Entry
      <4> QED BY Zenon, <3>4, <4>2, <4>3, <4>4
    <3>5. \A e : e \in Visible(i)' <=> \E j \in Positions(i) : e = [seq |-> lastSeq + j, id |-> i]
      BY <1>7, <3>3, <3>4
    <3>6. Cardinality(Visible(i)') = Cardinality(Positions(i))
      <4> DEFINE S == Positions(i)
                 T == Visible(i)'
                 f == [j \in S |-> [seq |-> lastSeq + j, id |-> i]]
      <4>1. f \in [S -> T] /\ \A e \in T : \E j \in S : f[j] = e
        BY Zenon, <3>5
      <4>2. ASSUME NEW j \in S, NEW l \in S, f[j] = f[l] PROVE j = l
        <5>1. f[j].seq = lastSeq + j /\ f[l].seq = lastSeq + l
          BY Zenon
        <5>2. lastSeq + j = lastSeq + l /\ j \in Nat /\ l \in Nat
          BY Zenon, <3>2, <4>2, <5>1
        <5> QED BY <1>3, <5>2
      <4> HIDE DEF f, S, T
      <4>3. f \in Bijection(S, T)
        BY <4>1, <4>2 DEF Bijection, Injection, Surjection, IsInjective
      <4>4. ExistsBijection(S, T)
        BY Zenon, <4>3 DEF ExistsBijection
      <4>5. Cardinality(T) = Cardinality(S)
        BY <3>2, <4>4, FS_Bijection DEF S
      <4> QED BY Zenon, <4>5 DEF S, T
    <3> QED BY Zenon, <1>6, <1>9, <3>6
  <2> QED BY Zenon, <2>3, <2>4
<1> QED BY <1>1, <1>2, <1>8, <1>9, VisibleLeave

\* Every step keeps the batches readers see whole.
LEMMA VisibleStep ==
    ASSUME Shape, DataInv, SyncInv, CallInv, OpsInv, PendingInv, VisibleInv, [Next]_vars
    PROVE  VisibleInv'
<1>1. CASE /\ UNCHANGED <<calls, call, done, writers>>
           /\ \A u \in Threads : pc'[u] = "idle" <=> pc[u] = "idle"
           /\ lastSeq' = lastSeq
  <2>1. \A i : Visible(i)' = Visible(i)
    BY Zenon, <1>1, SameVisible
  <2>2. Acked' = Acked
    BY Zenon, <1>1 DEF Acked
  <2>3. \A u \in Threads : \A i : pc'[u] # "idle" /\ i = call'[u] =>
           /\ done'[u] = "no" => Visible(i)' = {}
           /\ done'[u] = "ok" => Cardinality(Visible(i)') = calls'[i].size
    BY Zenon, <1>1, <2>1, VisibleNow
  <2>4. \A i \in DOMAIN calls' : Cardinality(Visible(i)') \in {0, calls'[i].size}
    BY <1>1, <2>1, VisibleNow
  <2>5. \A i \in Acked' : Cardinality(Visible(i)') = calls'[i].size
    BY Zenon, <1>1, <2>1, <2>2, VisibleNow
  <2> QED BY <2>3, <2>4, <2>5, VisibleNext
<1>2. CASE \E t \in Threads : Finish(t)
  BY <1>2, VisibleFinish
<1>3. CASE ~ \E t \in Threads : Finish(t)
  <2>1. lastSeq' = lastSeq
    BY <1>3, EntriesKept DEF InsertInto
  <2> QED BY Zenon, <1>1, <1>3, <2>1, CallsOfStep, VisibleEnqueue, VisibleReturn, VisibleAlone
<1> QED BY Zenon, <1>2, <1>3

\* The invariant of what readers see, with all it rests on.
ReaderInv == CallInv /\ OpsInv /\ PendingInv /\ VisibleInv

\* A new database shows nothing and has acknowledged nothing.
LEMMA ReaderInit == Init => ReaderInv
<1> SUFFICES ASSUME Init PROVE ReaderInv
  BY Zenon
<1>1. \A t \in Threads : pc[t] = "idle"
  BY Zenon DEF Init
<1>2. DOMAIN calls = {} /\ Acked = {} /\ Entries = {} /\ group.k = 0
  BY SeqEmpty DEF Init, Acked, Entries, NoGroup
<1>3. 1..group.k = {}
  BY <1>2
<1>4. PendingInv
  BY Zenon, <1>2, <1>3 DEF PendingInv
<1>5. VisibleInv
  BY Zenon, <1>1, <1>2 DEF VisibleInv, BatchesAtomic, AckedVisible
<1> QED BY Zenon, <1>1, <1>4, <1>5 DEF ReaderInv, CallInv, OpsInv, Committing

\* Every step keeps it.
LEMMA ReaderStep == Shape /\ DataInv /\ SyncInv /\ ReaderInv /\ [Next]_vars => ReaderInv'
BY CallStep, OpsStep, PendingStep, VisibleStep DEF ReaderInv

\* A group commit is atomic for readers: at LastSequence() a reader sees of every
\* call of Write all the entries or none, however InsertInto's insertions
\* interleave with the reads, the switch of memtables and the flush.
THEOREM BatchesAreAtomic == Spec => []BatchesAtomic
<1>1. ReaderInv => BatchesAtomic
  BY Zenon DEF ReaderInv, VisibleInv
<1> QED BY <1>1, ShapeInit, ShapeStep, DataInit, DataStep, SyncInit, SyncStep, ReaderInit,
           ReaderStep, PTL DEF Spec

\* A call of Write that returned OK, to the leader of its group or to a follower,
\* is visible at LastSequence() with all its entries.
THEOREM AckedIsVisible == Spec => []AckedVisible
<1>1. ReaderInv => AckedVisible
  BY Zenon DEF ReaderInv, VisibleInv
<1> QED BY <1>1, ShapeInit, ShapeStep, DataInit, DataStep, SyncInit, SyncStep, ReaderInit,
           ReaderStep, PTL DEF Spec

=============================================================================
