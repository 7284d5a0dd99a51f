-------------------------- MODULE WritePathProofs ---------------------------
(***************************************************************************)
(* Theorems about WritePath, for any number of threads, calls and batch    *)
(* sizes and any triggers.  First the shape of its state: the types, and a *)
(* writer queue that holds each waiting call once and has one leader, its  *)
(* first writer.  Then what rests on it: sequence numbers are unique,      *)
(* snapshots are stable, the log covers the memtables, level 0 stays       *)
(* within the stop trigger, an immutable memtable always has a background  *)
(* call to flush it, and a write with options.sync that returned OK was    *)
(* covered by an fsync, whichever writer of its group led.                 *)
(***************************************************************************)
EXTENDS WritePath, Integers, TLAPS

\* The locations of a leader between BuildBatchGroup and the end of Write.
Committing == {"group", "log", "sync", "insert", "finish"}

\* writers_ holds, once each, the threads whose call is neither done nor over.
QueueInv ==
    /\ \A i, j \in DOMAIN writers : writers[i] = writers[j] => i = j
    /\ \A i \in DOMAIN writers :
          pc[writers[i]] # "idle" /\ done[writers[i]] = "no"
    /\ \A t \in Threads : pc[t] # "idle" /\ done[t] = "no" =>
          \E i \in DOMAIN writers : writers[i] = t
    /\ \A t \in Threads : pc[t] # "idle" => call[t] \in DOMAIN calls

\* The group is a non-empty part of the queue, and k counts the entries that
\* were inserted; without a group k is 0.
GroupInv ==
    /\ group.k <= Len(group.ops)
    /\ \A t \in Threads : pc[t] \in Committing =>
          /\ group.n \in 1..Len(writers)
          /\ Len(group.ops) > 0
          /\ pc[t] \in {"group", "log", "sync"} => group.k = 0
          /\ pc[t] = "insert" => group.k < Len(group.ops)
    /\ (\A t \in Threads : pc[t] \notin Committing) => group.k = 0

\* A compaction's inputs are still in level 0 until it installs its results.
InputsInv == inputs <= l0

Shape == TypeOK /\ QueueInv /\ SingleLeader /\ GroupInv /\ InputsInv

-----------------------------------------------------------------------------
(* The queue *)

\* Facts about sequences that the proofs below cite.
\* A sequence is a function on the positions up to its length.
LEMMA SeqIsFunction ==
    ASSUME NEW S, NEW s \in Seq(S)
    PROVE  Len(s) \in Nat /\ DOMAIN s = 1..Len(s) /\ s \in [1..Len(s) -> S]
  OBVIOUS

\* Its elements are in the set it is over.
LEMMA SeqElement ==
    ASSUME NEW S, NEW s \in Seq(S), NEW i \in 1..Len(s)
    PROVE  s[i] \in S
  OBVIOUS

\* The empty sequence is the one of length 0.
LEMMA SeqEmpty ==
    ASSUME NEW S
    PROVE  /\ << >> \in Seq(S) /\ Len(<< >>) = 0
           /\ \A s \in Seq(S) : s # << >> => Len(s) \in Nat \ {0}
  OBVIOUS

\* Assigning an element leaves the others.
LEMMA SeqExcept ==
    ASSUME NEW S, NEW s \in Seq(S), NEW k \in 1..Len(s), NEW e \in S
    PROVE  LET t == [s EXCEPT ![k] = e] IN
           /\ t \in Seq(S) /\ Len(t) = Len(s)
           /\ \A i \in 1..Len(s) : t[i] = IF i = k THEN e ELSE s[i]
  OBVIOUS

\* What Append returns.
LEMMA SeqAppend ==
    ASSUME NEW S, NEW s \in Seq(S), NEW e \in S
    PROVE  /\ Append(s, e) \in Seq(S) /\ Append(s, e) # << >>
           /\ Len(Append(s, e)) = Len(s) + 1 /\ Append(s, e)[Len(s) + 1] = e
           /\ \A i \in 1..Len(s) : Append(s, e)[i] = s[i]
  OBVIOUS

\* What the concatenation of two sequences is.
LEMMA SeqConcat ==
    ASSUME NEW S, NEW s \in Seq(S), NEW t \in Seq(S)
    PROVE  /\ s \o t \in Seq(S) /\ Len(s \o t) = Len(s) + Len(t)
           /\ \A i \in 1..Len(s) + Len(t) :
                 (s \o t)[i] = IF i <= Len(s) THEN s[i] ELSE t[i - Len(s)]
  OBVIOUS

\* What SubSeq cuts out of a sequence.
LEMMA SeqPart ==
    ASSUME NEW S, NEW s \in Seq(S), NEW m \in 1..Len(s) + 1, NEW n \in 0..Len(s)
    PROVE  /\ SubSeq(s, m, n) \in Seq(S)
           /\ Len(SubSeq(s, m, n)) = IF m <= n THEN n - m + 1 ELSE 0
           /\ \A i \in 1..n - m + 1 : SubSeq(s, m, n)[i] = s[m + i - 1]
  OBVIOUS

\* A leader that goes on leading leaves the queue as it is.
LEMMA LeaderMoves ==
    ASSUME QueueTypes, QueueInv, SingleLeader,
           NEW t \in Threads, pc[t] \in Leading,
           NEW l \in Leading, pc' = [pc EXCEPT ![t] = l],
           UNCHANGED <<calls, call, writers, done>>
    PROVE  QueueInv' /\ SingleLeader'
BY DEF QueueTypes, QueueInv, SingleLeader, Leading, Locations

\* Two threads are never both past the wait for their turn.
LEMMA OneLeader ==
    ASSUME SingleLeader, NEW t \in Threads, NEW u \in Threads,
           pc[t] \in Leading, pc[u] \in Leading
    PROVE  t = u
BY Zenon DEF SingleLeader

\* What is left of a sequence after its first n elements.
LEMMA RestOfSeq ==
    ASSUME NEW S, NEW q \in Seq(S), NEW n \in 1..Len(q)
    PROVE  /\ SubSeq(q, n + 1, Len(q)) \in Seq(S)
           /\ Len(SubSeq(q, n + 1, Len(q))) = Len(q) - n
           /\ \A i \in 1..Len(SubSeq(q, n + 1, Len(q))) :
                 SubSeq(q, n + 1, Len(q))[i] = q[n + i]
<1>1. n + 1 \in Int /\ Len(q) \in Int /\ Len(q) \in Nat
  BY SeqIsFunction
<1>2. \A i \in (n + 1)..Len(q) : q[i] \in S
  BY <1>1, SeqElement
<1>3. /\ SubSeq(q, n + 1, Len(q)) \in Seq(S)
      /\ Len(SubSeq(q, n + 1, Len(q))) =
            IF n + 1 <= Len(q) THEN Len(q) - (n + 1) + 1 ELSE 0
      /\ \A i \in 1..(Len(q) - (n + 1) + 1) :
            SubSeq(q, n + 1, Len(q))[i] = q[n + 1 + i - 1]
  BY <1>1, <1>2, SeqPart
<1>4. Len(SubSeq(q, n + 1, Len(q))) = Len(q) - n
  BY <1>1, <1>3
<1>5. ASSUME NEW i \in 1..Len(SubSeq(q, n + 1, Len(q)))
      PROVE  SubSeq(q, n + 1, Len(q))[i] = q[n + i]
  <2>1. i \in 1..(Len(q) - (n + 1) + 1) /\ n + 1 + i - 1 = n + i
    BY <1>1, <1>4
  <2> QED BY Zenon, <1>3, <2>1
<1> QED BY Zenon, <1>3, <1>4, <1>5

\* A leader that leaves with the first n writers leaves a queue of writers that
\* wait, none of which leads yet.
LEMMA LeaderLeaves ==
    ASSUME QueueTypes, QueueInv, SingleLeader,
           NEW t \in Threads, pc[t] \in Leading,
           NEW n \in 1..Len(writers), NEW s \in {"ok", "err"},
           Leave(t, n, s)
    PROVE  QueueTypes' /\ QueueInv' /\ SingleLeader'
           /\ \A u \in Threads : pc'[u] \notin Leading
<1> DEFINE rest == SubSeq(writers, n + 1, Len(writers))
           popped == {writers[j] : j \in 2..n}
<1>1. writers # <<>> /\ writers[1] = t /\ DOMAIN writers = 1..Len(writers)
      /\ Len(writers) \in Nat
  BY DEF SingleLeader, QueueTypes
<1>2. call[t] \in 1..Len(calls) /\ calls[call[t]] \in Call
  <2>1. call[t] \in DOMAIN calls
    BY Zenon DEF QueueInv, Leading
  <2>2. calls \in Seq(Call)
    BY Zenon DEF QueueTypes
  <2> QED BY Zenon, <2>1, <2>2, SeqElement, SeqIsFunction
<1>3. calls' \in Seq(Call) /\ Len(calls') = Len(calls) /\ DOMAIN calls' = DOMAIN calls
  <2>1. [calls[call[t]] EXCEPT !.result = s] \in Call
    BY Zenon, <1>2 DEF Call
  <2>2. calls' = [calls EXCEPT ![call[t]] = [calls[call[t]] EXCEPT !.result = s]]
    BY Zenon DEF Leave
  <2> QED BY <1>2, <2>1, <2>2, SeqExcept DEF QueueTypes
<1>12. writers' = rest
  BY Zenon DEF Leave
<1>7. done' = [u \in Threads |-> IF u \in popped THEN s ELSE done[u]]
  BY Zenon DEF Leave
<1>4. /\ rest \in Seq(Threads)
      /\ Len(rest) = Len(writers) - n
      /\ DOMAIN rest = 1..Len(rest)
      /\ \A i \in 1..Len(rest) : rest[i] = writers[n + i]
  <2>1. rest \in Seq(Threads) /\ Len(rest) = Len(writers) - n
        /\ \A i \in 1..Len(rest) : rest[i] = writers[n + i]
    BY Zenon, RestOfSeq DEF QueueTypes
  <2> QED BY Zenon, <2>1, SeqIsFunction
<1>5. \A u \in Threads : pc'[u] = IF u = t THEN "idle" ELSE pc[u]
  BY Zenon DEF Leave, QueueTypes
<1>6. \A u \in Threads : pc'[u] \notin Leading
  BY Zenon, <1>1, <1>5, OneLeader DEF Leading
<1>11. \A v : v \in popped <=> \E j \in 2..n : v = writers[j]
  BY Zenon
<1> HIDE DEF rest, popped
<1>8. QueueTypes'
  <2>1. done' \in [Threads -> {"no", "ok", "err"}]
    BY Zenon, <1>7 DEF QueueTypes
  <2>4. pc' \in [Threads -> Locations]
    BY Zenon DEF Leave, QueueTypes, Locations
  <2>2. call' \in [Threads -> 0..MaxCalls]
    BY ConstantsAssumption DEF Leave, QueueTypes
  <2>3. cvWait' \subseteq Threads /\ mutex' \in Threads \cup {NoThread}
    BY Zenon DEF Leave, QueueTypes
  <2> QED BY Zenon, <1>3, <1>4, <1>12, <2>1, <2>2, <2>3, <2>4 DEF QueueTypes
<1>9. QueueInv'
  <2>1. \A i, j \in DOMAIN writers' : writers'[i] = writers'[j] => i = j
    <3> SUFFICES ASSUME NEW i \in 1..Len(rest), NEW j \in 1..Len(rest),
                        rest[i] = rest[j]
                 PROVE  i = j
      BY Zenon, <1>4, <1>12
    <3>1. n + i \in DOMAIN writers /\ n + j \in DOMAIN writers
      BY <1>1, <1>4
    <3>2. writers[n + i] = writers[n + j]
      BY Zenon, <1>4
    <3> QED BY <3>1, <3>2 DEF QueueInv
  <2>2. ASSUME NEW i \in DOMAIN writers'
        PROVE  pc'[writers'[i]] # "idle" /\ done'[writers'[i]] = "no"
    <3>1. i \in 1..Len(rest) /\ n + i \in 1..Len(writers) /\ n + i > n
      BY <1>1, <1>4, <1>12
    <3>4. writers'[i] = writers[n + i] /\ writers[n + i] \in Threads
      BY <1>1, <1>4, <1>12, <3>1 DEF QueueTypes
    <3>2. writers[n + i] # t
      BY <1>1, <3>1 DEF QueueInv
    <3>3. writers[n + i] \notin popped
      BY <1>1, <1>11, <3>1 DEF QueueInv
    <3> QED BY <1>1, <1>5, <1>7, <3>1, <3>2, <3>3, <3>4 DEF QueueInv
  <2>3. ASSUME NEW u \in Threads, pc'[u] # "idle", done'[u] = "no"
        PROVE  \E i \in DOMAIN writers' : writers'[i] = u
    <3>1. u # t /\ u \notin popped /\ pc[u] # "idle" /\ done[u] = "no"
      BY Zenon, <1>5, <1>7, <2>3
    <3>2. PICK i \in DOMAIN writers : writers[i] = u
      BY Zenon, <3>1 DEF QueueInv
    <3>3. i > n
      BY <1>1, <1>11, <3>1, <3>2
    <3>4. i - n \in 1..Len(rest) /\ rest[i - n] = u
      BY <1>1, <1>4, <3>2, <3>3
    <3> QED BY Zenon, <1>4, <1>12, <3>4
  <2>4. \A u \in Threads : pc'[u] # "idle" => call'[u] \in DOMAIN calls'
    BY Zenon, <1>3, <1>5 DEF QueueInv, Leave, QueueTypes
  <2> QED BY Zenon, <2>1, <2>2, <2>3, <2>4 DEF QueueInv
<1>10. SingleLeader'
  BY Zenon, <1>6 DEF SingleLeader
<1> QED BY Zenon, <1>6, <1>8, <1>9, <1>10

\* A call enters the queue at its end, or leads when the queue was empty.
LEMMA WriterEnters ==
    ASSUME Shape, NEW t \in Threads, NEW size \in BatchSizes, NEW sync \in BOOLEAN,
           Enqueue(t, size, sync)
    PROVE  QueueTypes' /\ QueueInv' /\ SingleLeader' /\ GroupInv'
<1> USE DEF Shape, TypeOK
<1> DEFINE new == [size |-> size, sync |-> sync, result |-> "none",
                   acked |-> IF size = 0 THEN Acked ELSE {}]
           l == IF writers = <<>> THEN "room" ELSE "queued"
<1>1. Len(calls) \in Nat /\ DOMAIN calls = 1..Len(calls) /\ Len(calls) + 1 \in Calls
  BY ConstantsAssumption, SeqIsFunction DEF QueueTypes, Enqueue, Calls
<1>2. new \in Call
  BY <1>1, ConstantsAssumption DEF Call, Acked, Calls
<1> HIDE DEF new
<1>3. calls' = Append(calls, new)
  BY Zenon DEF Enqueue, new
<1>4. /\ calls' \in Seq(Call) /\ Len(calls') = Len(calls) + 1
      /\ DOMAIN calls' = 1..(Len(calls) + 1)
  BY <1>2, <1>3, SeqAppend, SeqIsFunction DEF QueueTypes
<1>5. /\ writers' = Append(writers, t) /\ writers' \in Seq(Threads)
      /\ Len(writers) \in Nat /\ DOMAIN writers = 1..Len(writers)
      /\ Len(writers') = Len(writers) + 1 /\ DOMAIN writers' = 1..(Len(writers) + 1)
      /\ \A i \in 1..Len(writers) : writers'[i] = writers[i]
      /\ writers'[Len(writers) + 1] = t
  <2>1. writers \in Seq(Threads) /\ writers' = Append(writers, t)
    BY Zenon DEF QueueTypes, Enqueue
  <2> QED BY <2>1, SeqAppend, SeqIsFunction
<1>6. /\ pc' = [pc EXCEPT ![t] = l] /\ call' = [call EXCEPT ![t] = Len(calls) + 1]
      /\ done' = [done EXCEPT ![t] = "no"] /\ pc[t] = "idle"
  BY Zenon DEF Enqueue
<1>7. \A i \in DOMAIN writers : writers[i] \in Threads /\ writers[i] # t
  BY <1>6 DEF QueueInv, QueueTypes
<1>8. \A u \in Threads : /\ u # t => pc'[u] = pc[u] /\ done'[u] = done[u] /\ call'[u] = call[u]
                         /\ u = t => pc'[u] = l /\ done'[u] = "no" /\ call'[u] = Len(calls) + 1
  BY Zenon, <1>6 DEF QueueTypes
<1>9. QueueTypes'
  <2>1. pc' \in [Threads -> Locations] /\ done' \in [Threads -> {"no", "ok", "err"}]
    BY Zenon, <1>6 DEF QueueTypes, Locations
  <2>2. call' \in [Threads -> 0..MaxCalls]
    BY <1>1, <1>6, ConstantsAssumption DEF QueueTypes, Calls
  <2>3. cvWait' \subseteq Threads /\ mutex' \in Threads \cup {NoThread}
    BY Zenon DEF QueueTypes, Enqueue, Lead
  <2>4. Len(calls') <= MaxCalls
    BY <1>1, <1>4, ConstantsAssumption DEF Calls
  <2> QED BY Zenon, <1>4, <1>5, <2>1, <2>2, <2>3, <2>4 DEF QueueTypes
<1>10. QueueInv'
  <2>1. \A i, j \in DOMAIN writers' : writers'[i] = writers'[j] => i = j
    <3> SUFFICES ASSUME NEW i \in 1..(Len(writers) + 1), NEW j \in 1..(Len(writers) + 1),
                        writers'[i] = writers'[j]
                 PROVE  i = j
      BY Zenon, <1>5
    <3>1. CASE i \in DOMAIN writers /\ j \in DOMAIN writers
      BY Zenon, <1>5, <3>1 DEF QueueInv
    <3>2. CASE ~(i \in DOMAIN writers /\ j \in DOMAIN writers)
      BY <1>5, <1>7, <3>2
    <3> QED BY Zenon, <3>1, <3>2
  <2>2. \A i \in DOMAIN writers' : pc'[writers'[i]] # "idle" /\ done'[writers'[i]] = "no"
    <3> SUFFICES ASSUME NEW i \in 1..(Len(writers) + 1)
                 PROVE  pc'[writers'[i]] # "idle" /\ done'[writers'[i]] = "no"
      BY Zenon, <1>5
    <3>1. CASE i \in DOMAIN writers
      BY <1>5, <1>7, <1>8, <3>1 DEF QueueInv
    <3>2. CASE i = Len(writers) + 1
      BY Zenon, <1>5, <1>8, <3>2
    <3> QED BY <1>5, <3>1, <3>2
  <2>3. ASSUME NEW u \in Threads, pc'[u] # "idle", done'[u] = "no"
        PROVE  \E i \in DOMAIN writers' : writers'[i] = u
    <3>1. CASE u = t
      BY <1>5, <3>1
    <3>2. CASE u # t
      <4>1. PICK i \in DOMAIN writers : writers[i] = u
        BY <1>8, <2>3, <3>2 DEF QueueInv
      <4> QED BY <1>5, <4>1
    <3> QED BY Zenon, <3>1, <3>2
  <2>4. \A u \in Threads : pc'[u] # "idle" => call'[u] \in DOMAIN calls'
    BY <1>1, <1>4, <1>8 DEF QueueInv
  <2> QED BY Zenon, <2>1, <2>2, <2>3, <2>4 DEF QueueInv
<1>11. SingleLeader'
  <2> SUFFICES ASSUME NEW u \in Threads, pc'[u] \in Leading
               PROVE  writers' # <<>> /\ writers'[1] = u
    BY Zenon DEF SingleLeader
  <2>1. CASE writers = <<>>
    <3>1. u = t
      BY Zenon, <1>8, <2>1 DEF SingleLeader
    <3> QED BY <1>5, <2>1, <3>1
  <2>2. CASE writers # <<>>
    <3>1. u # t
      BY Zenon, <1>8, <2>2 DEF Leading
    <3>2. writers[1] = u
      BY Zenon, <1>8, <3>1 DEF SingleLeader
    <3>3. 1 \in 1..Len(writers)
      BY <1>5, <2>2, SeqEmpty DEF QueueTypes
    <3> QED BY <1>5, <3>2, <3>3
  <2> QED BY Zenon, <2>1, <2>2
<1>12. GroupInv'
  <2>1. group' = group
    BY Zenon DEF Enqueue
  <2>2. \A u \in Threads : pc'[u] \in Committing <=> pc[u] \in Committing /\ u # t
    BY <1>6, <1>8 DEF Committing
  <2>3. pc[t] \notin Committing
    BY Zenon, <1>6 DEF Committing
  <2>4. ASSUME NEW u \in Threads, pc'[u] \in Committing
        PROVE  /\ group.n \in 1..Len(writers')
               /\ Len(group.ops) > 0
               /\ pc'[u] \in {"group", "log", "sync"} => group.k = 0
               /\ pc'[u] = "insert" => group.k < Len(group.ops)
    <3>1. pc[u] \in Committing /\ pc'[u] = pc[u]
      BY Zenon, <1>8, <2>2, <2>4
    <3>2. group.n \in 1..Len(writers)
      BY Zenon, <3>1 DEF GroupInv
    <3> QED BY <1>5, <3>1, <3>2 DEF GroupInv
  <2>5. (\A u \in Threads : pc'[u] \notin Committing) => group.k = 0
    BY Zenon, <2>2, <2>3 DEF GroupInv
  <2> QED BY Zenon, <2>1, <2>4, <2>5 DEF GroupInv
<1> QED BY Zenon, <1>9, <1>10, <1>11, <1>12

\* A thread that takes the lead sets the locals of MakeRoomForWrite.
LEMMA LeadRoom ==
    ASSUME NEW t, NEW size, Lead(t, size)
    PROVE  room' \in [force : BOOLEAN, delay : BOOLEAN]
<1>1. (size = 0) \in BOOLEAN /\ (size # 0) \in BOOLEAN
  BY Zenon
<1> DEFINE a == size = 0
           b == size # 0
<1>2. room' = [force |-> a, delay |-> b]
  BY Zenon DEF Lead
<1> HIDE DEF a, b
<1>3. a \in BOOLEAN /\ b \in BOOLEAN
  BY Zenon, <1>1 DEF a, b
<1> QED BY Zenon, <1>2, <1>3

\* A waiting writer returns, takes the lead or waits again.
LEMMA WriterWakes ==
    ASSUME Shape, NEW t \in Threads, WakeUp(t)
    PROVE  QueueTypes' /\ QueueInv' /\ SingleLeader' /\ GroupInv'
<1> USE DEF Shape, TypeOK
<1>1. pc[t] = "queued" /\ writers' = writers /\ done' = done /\ group' = group
  BY Zenon DEF WakeUp
<1>2. Len(writers) \in Nat /\ DOMAIN writers = 1..Len(writers)
  BY Zenon, SeqIsFunction DEF QueueTypes
<1>3. call[t] \in 1..Len(calls) /\ calls[call[t]] \in Call /\ DOMAIN calls = 1..Len(calls)
  <2>1. call[t] \in DOMAIN calls
    BY Zenon, <1>1 DEF QueueInv
  <2> QED BY Zenon, <2>1, SeqIsFunction, SeqElement DEF QueueTypes
<1>4. CASE done[t] # "no"
  <2>1. /\ calls' = [calls EXCEPT ![call[t]].result = done[t]]
        /\ pc' = [pc EXCEPT ![t] = "idle"] /\ call' = [call EXCEPT ![t] = 0]
        /\ mutex' = mutex /\ cvWait' = cvWait
    BY Zenon, <1>4 DEF WakeUp
  <2>2. calls' \in Seq(Call) /\ Len(calls') = Len(calls) /\ DOMAIN calls' = DOMAIN calls
    <3>1. done[t] \in {"ok", "err"}
      BY Zenon, <1>4 DEF QueueTypes
    <3>2. [calls[call[t]] EXCEPT !.result = done[t]] \in Call
      BY Zenon, <1>3, <3>1 DEF Call
    <3>3. calls' = [calls EXCEPT ![call[t]] = [calls[call[t]] EXCEPT !.result = done[t]]]
      BY Zenon, <2>1
    <3> QED BY <1>3, <3>2, <3>3, SeqExcept DEF QueueTypes
  <2>3. \A u \in Threads : pc'[u] = IF u = t THEN "idle" ELSE pc[u]
    BY Zenon, <2>1 DEF QueueTypes
  <2>4. \A i \in DOMAIN writers : writers[i] # t /\ writers[i] \in Threads
    BY <1>4 DEF QueueInv, QueueTypes
  <2>5. QueueTypes'
    <3>1. call' \in [Threads -> 0..MaxCalls] /\ pc' \in [Threads -> Locations]
      BY <2>1, ConstantsAssumption DEF QueueTypes, Locations
    <3> QED BY Zenon, <1>1, <2>1, <2>2, <3>1 DEF QueueTypes
  <2>6. QueueInv'
    BY Zenon, <1>1, <2>1, <2>2, <2>3, <2>4 DEF QueueInv, QueueTypes
  <2>7. SingleLeader'
    BY Zenon, <1>1, <2>3 DEF SingleLeader, Leading
  <2>8. GroupInv'
    BY Zenon, <1>1, <2>3 DEF GroupInv, Committing
  <2> QED BY Zenon, <2>5, <2>6, <2>7, <2>8
<1>5. CASE done[t] = "no" /\ MyTurn(t)
  <2>1. /\ calls' = calls /\ pc' = [pc EXCEPT ![t] = "room"] /\ call' = call
        /\ mutex' = t /\ cvWait' = cvWait
    BY Zenon, <1>5 DEF WakeUp, Lead
  <2>2. \A u \in Threads : pc'[u] = IF u = t THEN "room" ELSE pc[u]
    BY Zenon, <2>1 DEF QueueTypes
  <2>3. writers # <<>> /\ writers[1] = t
    BY <1>1, <1>2, <1>5 DEF QueueInv, MyTurn, QueueTypes
  <2>4. QueueTypes'
    BY Zenon, <1>1, <2>1 DEF QueueTypes, Locations
  <2>5. QueueInv'
    BY <1>1, <1>5, <2>1, <2>2 DEF QueueInv, QueueTypes
  <2>6. SingleLeader'
    BY Zenon, <1>1, <2>2, <2>3 DEF SingleLeader, Leading
  <2>7. GroupInv'
    BY Zenon, <1>1, <2>2 DEF GroupInv, Committing
  <2> QED BY Zenon, <2>4, <2>5, <2>6, <2>7
<1>6. CASE done[t] = "no" /\ ~MyTurn(t)
  <2>1. UNCHANGED <<mutex, calls, pc, call>> /\ cvWait' = cvWait \cup {t}
    BY Zenon, <1>6 DEF WakeUp
  <2> QED
    BY Zenon, <1>1, <2>1 DEF QueueTypes, QueueInv, SingleLeader, GroupInv
<1> QED BY Zenon, <1>4, <1>5, <1>6

-----------------------------------------------------------------------------
(* Shape is inductive *)

\* A leader that is not committing has no group.
LEMMA NoGroupYet ==
    ASSUME Shape, NEW t \in Threads, pc[t] \in Leading \ Committing
    PROVE  group.k = 0 /\ \A u \in Threads : pc[u] \notin Committing
<1>1. \A u \in Threads : pc[u] \notin Committing
  BY Zenon, OneLeader DEF Shape, Leading, Locations, Committing
<1> QED BY Zenon, <1>1 DEF Shape, GroupInv

\* A leader that does not commit and moves, or leaves, without touching the
\* group: the group stays empty.
LEMMA NoGroupMove ==
    ASSUME Shape, NEW t \in Threads, pc[t] \in Leading \ Committing,
           \A u \in Threads : pc'[u] \in Committing => pc[u] \in Committing,
           UNCHANGED group
    PROVE  GroupInv'
<1>1. group.k = 0 /\ \A u \in Threads : pc'[u] \notin Committing
  BY Zenon, NoGroupYet
<1> QED BY Zenon, <1>1 DEF GroupInv, Shape

\* The queue's part of Shape for a leader that moves on with or without the
\* mutex.
LEMMA LeaderSteps ==
    ASSUME Shape, NEW t \in Threads, pc[t] \in Leading,
           NEW l \in Leading, pc' = [pc EXCEPT ![t] = l],
           mutex' \in Threads \cup {NoThread},
           UNCHANGED <<calls, call, writers, done, cvWait>>
    PROVE  /\ QueueTypes' /\ QueueInv' /\ SingleLeader'
           /\ \A u \in Threads : pc'[u] = IF u = t THEN l ELSE pc[u]
<1>1. QueueInv' /\ SingleLeader'
  BY Zenon, LeaderMoves DEF Shape, TypeOK
<1>2. QueueTypes'
  BY Zenon DEF Shape, TypeOK, QueueTypes, Leading
<1> QED BY Zenon, <1>1, <1>2 DEF Shape, TypeOK, QueueTypes

\* A branch of MakeRoomForWrite that keeps the lead keeps the shape of the queue.
LEMMA RoomShape ==
    ASSUME Shape, NEW t \in Threads,
           \/ RoomDelay(t) \/ RoomDelayed(t) \/ RoomWait(t) \/ RoomWaited(t)
           \/ \E ok \in BOOLEAN : RoomSwitch(t, ok)
    PROVE  Shape'
<1> USE DEF Shape, TypeOK
<1>1. pc[t] \in Leading \ Committing
  BY Zenon DEF RoomDelay, RoomDelayed, RoomWait, RoomWaited, RoomSwitch, InRoom,
         Leading, Locations, Committing
<1>2. \E l \in Leading \ Committing : pc' = [pc EXCEPT ![t] = l]
  <2>1. CASE RoomDelay(t)
    BY Zenon, <2>1 DEF RoomDelay, Leading, Locations, Committing
  <2>2. CASE RoomDelayed(t)
    BY Zenon, <2>2 DEF RoomDelayed, Leading, Locations, Committing
  <2>3. CASE RoomWait(t)
    BY Zenon, <2>3 DEF RoomWait, Leading, Locations, Committing
  <2>4. CASE RoomWaited(t)
    BY Zenon, <2>4 DEF RoomWaited, Leading, Locations, Committing
  <2>5. ASSUME NEW ok \in BOOLEAN, RoomSwitch(t, ok)
        PROVE  \E l \in Leading \ Committing : pc' = [pc EXCEPT ![t] = l]
    <3>1. pc' = [pc EXCEPT ![t] = "room"]
      BY Zenon, <2>5 DEF RoomSwitch, InRoom, QueueTypes
    <3> QED BY Zenon, <3>1 DEF Leading, Locations, Committing
  <2> QED BY Zenon, <2>1, <2>2, <2>3, <2>4, <2>5
<1>3. mutex' \in Threads \cup {NoThread} /\ UNCHANGED <<calls, call, writers, done, cvWait, group>>
  BY Zenon DEF RoomDelay, RoomDelayed, RoomWait, RoomWaited, RoomSwitch, QueueTypes
<1>4. /\ QueueTypes' /\ QueueInv' /\ SingleLeader'
      /\ \A u \in Threads : pc'[u] \in Committing => pc[u] \in Committing
  BY Zenon, <1>1, <1>2, <1>3, LeaderSteps
<1>5. GroupInv'
  BY Zenon, <1>1, <1>3, <1>4, NoGroupMove
<1>6. LeaderTypes'
  BY Zenon, <1>3 DEF RoomDelay, RoomDelayed, RoomWait, RoomWaited, RoomSwitch, LeaderTypes
<1>7. DataTypes' /\ BgTypes' /\ InputsInv'
  <2>1. CASE UNCHANGED <<dataVars, bgVars>>
    BY Zenon, <2>1 DEF DataTypes, BgTypes, InputsInv, dataVars, bgVars
  <2>2. ASSUME NEW ok \in BOOLEAN, RoomSwitch(t, ok)
        PROVE  DataTypes' /\ BgTypes' /\ InputsInv'
    BY Zenon, <2>2 DEF RoomSwitch, DataTypes, BgTypes, InputsInv, Schedule
  <2> QED BY Zenon, <2>1, <2>2 DEF RoomDelay, RoomDelayed, RoomWait, RoomWaited
<1> QED BY Zenon, <1>4, <1>5, <1>6, <1>7

\* A writer that leaves alone (an error, a null batch) keeps the shape.
LEMMA LeaveShape ==
    ASSUME Shape, NEW t \in Threads,
           \/ RoomError(t) \/ RoomSwitchFails(t) \/ FlushWaited(t)
           \/ RoomEnough(t) /\ IsNull(t)
    PROVE  Shape'
<1> USE DEF Shape, TypeOK
<1>1. pc[t] \in Leading \ Committing
  BY Zenon DEF RoomError, RoomSwitchFails, FlushWaited, RoomEnough, InRoom, Leading,
         Locations, Committing
<1>2. 1 \in 1..Len(writers)
  BY <1>1, SeqEmpty DEF SingleLeader, QueueTypes
<1>3. UNCHANGED <<room, group, dataVars, bgVars>> /\ bgWait' \subseteq Threads
  BY Zenon DEF RoomError, RoomSwitchFails, FlushWaited, RoomEnough, LeaderTypes
<1>4. LeaderTypes' /\ DataTypes' /\ BgTypes' /\ InputsInv'
  BY Zenon, <1>3 DEF LeaderTypes, DataTypes, BgTypes, InputsInv, dataVars, bgVars
<1>5. CASE \E s \in {"ok", "err"} : Leave(t, 1, s)
  <2>1. /\ QueueTypes' /\ QueueInv' /\ SingleLeader'
        /\ \A u \in Threads : pc'[u] \notin Leading
    BY Zenon, <1>1, <1>2, <1>5, LeaderLeaves
  <2>2. GroupInv'
    BY Zenon, <1>1, <1>3, <2>1, NoGroupMove DEF Leading, Locations, Committing
  <2> QED BY Zenon, <1>4, <2>1, <2>2
<1>6. CASE ~\E s \in {"ok", "err"} : Leave(t, 1, s)
  <2>1. pc' = [pc EXCEPT ![t] = "flushwait"]
    BY Zenon, <1>6 DEF RoomError, RoomSwitchFails, FlushWaited, RoomEnough, QueueTypes
  <2>2. mutex' \in Threads \cup {NoThread} /\ UNCHANGED <<calls, call, writers, done, cvWait>>
    BY Zenon, <1>6 DEF RoomError, RoomSwitchFails, FlushWaited, RoomEnough, QueueTypes
  <2>3. /\ QueueTypes' /\ QueueInv' /\ SingleLeader'
        /\ \A u \in Threads : pc'[u] = IF u = t THEN "flushwait" ELSE pc[u]
    BY Zenon, <1>1, <2>1, <2>2, LeaderSteps DEF Leading, Locations
  <2>4. GroupInv'
    BY Zenon, <1>1, <1>3, <2>3, NoGroupMove DEF Committing
  <2> QED BY Zenon, <1>4, <2>3, <2>4
<1> QED BY Zenon, <1>5, <1>6

\* Where the calls of a thread's batch are in a group: a constant sequence.
LEMMA ConstantSeq ==
    ASSUME NEW n \in Nat, NEW c \in Calls
    PROVE  /\ [j \in 1..n |-> c] \in Seq(Calls)
           /\ Len([j \in 1..n |-> c]) = n
           /\ \A j \in 1..n : [i \in 1..n |-> c][j] = c
OBVIOUS

\* The size and the sync option of a call under way.
LEMMA CallOf ==
    ASSUME Shape, NEW t \in Threads, pc[t] # "idle"
    PROVE  /\ call[t] \in Calls /\ call[t] \in DOMAIN calls
           /\ Size(t) \in Nat /\ IsSync(t) \in BOOLEAN
<1>1. call[t] \in DOMAIN calls /\ DOMAIN calls = 1..Len(calls) /\ Len(calls) \in Nat
  BY Zenon, SeqIsFunction DEF Shape, TypeOK, QueueTypes, QueueInv
<1>2. calls[call[t]] \in Call
  BY Zenon, <1>1, SeqElement DEF Shape, TypeOK, QueueTypes
<1>3. call[t] \in Calls
  BY <1>1, ConstantsAssumption DEF Shape, TypeOK, QueueTypes, Calls
<1> QED BY Zenon, <1>1, <1>2, <1>3 DEF Call, Size, IsSync

\* BuildBatchGroup keeps the group a non-empty prefix of the queue.
LEMMA BuildGroupShape ==
    ASSUME Shape, NEW t \in Threads,
           \/ RoomEnough(t) /\ ~IsNull(t)
           \/ GroupAbsorb(t) \/ GroupDone(t)
    PROVE  Shape'
<1> USE DEF Shape, TypeOK
<1>1. pc[t] \in Leading /\ pc[t] # "idle"
  BY Zenon DEF RoomEnough, GroupAbsorb, GroupDone, InRoom, Leading, Locations
<1>2. DataTypes' /\ BgTypes' /\ InputsInv'
  BY Zenon DEF RoomEnough, GroupAbsorb, GroupDone, DataTypes, BgTypes, InputsInv,
         dataVars, bgVars
<1>3. mutex' \in Threads \cup {NoThread} /\ UNCHANGED <<calls, call, writers, done, cvWait, bgWait, room>>
  BY Zenon DEF RoomEnough, GroupAbsorb, GroupDone, QueueTypes
<1>4. Len(writers) \in Nat /\ DOMAIN writers = 1..Len(writers) /\ writers # <<>>
      /\ 1 \in 1..Len(writers)
  BY <1>1, SeqIsFunction, SeqEmpty DEF QueueTypes, SingleLeader
<1>5. CASE RoomEnough(t) /\ ~IsNull(t)
  <2>1. pc' = [pc EXCEPT ![t] = "group"]
    BY Zenon, <1>5 DEF RoomEnough
  <2>2. /\ QueueTypes' /\ QueueInv' /\ SingleLeader'
        /\ \A u \in Threads : pc'[u] = IF u = t THEN "group" ELSE pc[u]
    BY Zenon, <1>1, <1>3, <2>1, LeaderSteps DEF Leading, Locations
  <2>3. Size(t) \in Nat \ {0} /\ call[t] \in Calls
    BY Zenon, <1>1, <1>5, CallOf DEF IsNull
  <2>4. group' = [n |-> 1, ops |-> [j \in 1..Size(t) |-> call[t]], size |-> Size(t),
                  status |-> "ok", k |-> 0]
    BY Zenon, <1>5 DEF RoomEnough, NoGroup
  <2>5. LeaderTypes'
    <3> DEFINE o == [j \in 1..Size(t) |-> call[t]]
    <3>1. o \in Seq(Calls)
      BY Zenon, <2>3, ConstantSeq
    <3> HIDE DEF o
    <3>2. group' = [n |-> 1, ops |-> o, size |-> Size(t), status |-> "ok", k |-> 0]
      BY Zenon, <2>4 DEF o
    <3> QED BY Zenon, <1>3, <2>3, <3>1, <3>2 DEF LeaderTypes
  <2>6. group'.n \in 1..Len(writers') /\ Len(group'.ops) > 0 /\ group'.k = 0
    BY <1>3, <1>4, <2>3, <2>4, ConstantSeq
  <2>7. GroupInv'
    BY <2>2, <2>5, <2>6 DEF GroupInv, Committing, LeaderTypes
  <2> QED BY Zenon, <1>2, <2>2, <2>5, <2>7
<1>6. CASE GroupAbsorb(t)
  <2> DEFINE f == writers[group.n + 1]
  <2>1. pc[t] = "group" /\ group.n \in 1..Len(writers) /\ group.n < Len(writers)
        /\ group.k = 0 /\ Len(group.ops) > 0 /\ group.ops \in Seq(Calls)
    BY Zenon, <1>6 DEF GroupAbsorb, Joins, GroupInv, Committing, LeaderTypes
  <2>2. f \in Threads /\ pc[f] # "idle"
    <3>1. group.n + 1 \in DOMAIN writers
      BY <1>4, <2>1
    <3> QED BY <3>1 DEF QueueInv, QueueTypes
  <2>3. Size(f) \in Nat /\ call[f] \in Calls
    BY Zenon, <2>2, CallOf
  <2> HIDE DEF f
  <2>4. group' = [group EXCEPT !.n = group.n + 1, !.size = group.size + Size(f),
                    !.ops = group.ops \o [j \in 1..Size(f) |-> call[f]]]
    BY Zenon, <1>6 DEF GroupAbsorb, Follower, f
  <2>5. /\ group.ops \o [j \in 1..Size(f) |-> call[f]] \in Seq(Calls)
        /\ Len(group.ops \o [j \in 1..Size(f) |-> call[f]]) = Len(group.ops) + Size(f)
    BY <2>1, <2>3, SeqConcat, ConstantSeq
  <2>6. group'.ops = group.ops \o [j \in 1..Size(f) |-> call[f]]
        /\ group'.n = group.n + 1 /\ group'.k = group.k
    BY Zenon, <2>4 DEF LeaderTypes
  <2>7. LeaderTypes'
    <3> DEFINE o == group.ops \o [j \in 1..Size(f) |-> call[f]]
    <3>1. o \in Seq(Calls)
      BY Zenon, <2>5
    <3> HIDE DEF o
    <3>2. group' = [group EXCEPT !.n = group.n + 1, !.size = group.size + Size(f),
                      !.ops = o]
      BY Zenon, <2>4 DEF o
    <3>3. group.n + 1 \in Nat /\ group.size + Size(f) \in Nat
      BY <2>3 DEF LeaderTypes
    <3>4. group' \in [n : Nat, ops : Seq(Calls), size : Nat,
                      status : {"ok", "err", "syncerr"}, k : Nat]
      BY Zenon, <3>1, <3>2, <3>3 DEF LeaderTypes
    <3> QED BY Zenon, <1>3, <3>4 DEF LeaderTypes
  <2>8. pc' = pc /\ mutex' = mutex
    BY Zenon, <1>6 DEF GroupAbsorb
  <2>9. QueueTypes' /\ QueueInv' /\ SingleLeader'
    BY Zenon, <1>3, <2>8 DEF QueueTypes, QueueInv, SingleLeader
  <2>10. group'.n \in 1..Len(writers') /\ Len(group'.ops) > 0 /\ group'.k = 0
    <3>1. Len(group.ops) \in Nat
      BY Zenon, <2>1, SeqIsFunction
    <3> QED BY <1>3, <1>4, <2>1, <2>3, <2>5, <2>6, <3>1
  <2>11. GroupInv'
    <3>1. \A u \in Threads : pc[u] \in Committing => u = t
      BY Zenon, <1>1, OneLeader DEF Leading, Locations, Committing
    <3>2. group'.k <= Len(group'.ops)
      BY <2>7, <2>10 DEF LeaderTypes
    <3> QED BY Zenon, <2>1, <2>8, <2>10, <3>1, <3>2 DEF GroupInv
  <2> QED BY Zenon, <1>2, <2>7, <2>9, <2>11
<1>7. CASE GroupDone(t)
  <2>1. pc[t] = "group" /\ pc' = [pc EXCEPT ![t] = "log"] /\ group' = group
    BY Zenon, <1>7 DEF GroupDone
  <2>2. /\ QueueTypes' /\ QueueInv' /\ SingleLeader'
        /\ \A u \in Threads : pc'[u] = IF u = t THEN "log" ELSE pc[u]
    BY ZenonT(40), <1>1, <1>3, <2>1, LeaderSteps DEF Leading, Locations
  <2>3. GroupInv'
    BY Zenon, <1>3, <2>1, <2>2 DEF GroupInv, Committing
  <2>4. LeaderTypes'
    BY Zenon, <1>3, <2>1 DEF LeaderTypes
  <2> QED BY Zenon, <1>2, <2>2, <2>3, <2>4
<1> QED BY Zenon, <1>5, <1>6, <1>7

\* AddRecord, Sync and InsertInto keep the group and count its entries.
LEMMA CommitShape ==
    ASSUME Shape, NEW t \in Threads,
           \/ \E ok \in BOOLEAN : AddRecord(t, ok) \/ SyncLog(t, ok)
           \/ InsertInto(t)
    PROVE  Shape'
<1> DEFINE G == [n : Nat, ops : Seq(Calls), size : Nat,
                 status : {"ok", "err", "syncerr"}, k : Nat]
<1>10. /\ QueueTypes /\ LeaderTypes /\ DataTypes /\ BgTypes
       /\ QueueInv /\ SingleLeader /\ GroupInv /\ InputsInv
  BY Zenon DEF Shape, TypeOK
<1>1. pc[t] \in {"log", "sync", "insert"} /\ pc[t] \in Leading /\ pc[t] \in Committing
  BY Zenon DEF AddRecord, SyncLog, InsertInto, Leading, Locations, Committing
<1>2. UNCHANGED <<mutex, cvWait, bgWait, calls, call, writers, done, room, bgVars>>
  BY Zenon DEF AddRecord, SyncLog, InsertInto
<1>11. mutex' \in Threads \cup {NoThread}
  BY Zenon, <1>2, <1>10 DEF QueueTypes
<1>3. BgTypes' /\ InputsInv'
  BY Zenon, <1>2, <1>10 DEF BgTypes, InputsInv, bgVars
<1>4. /\ group \in G /\ group.ops \in Seq(Calls) /\ Len(group.ops) \in Nat
      /\ DOMAIN group.ops = 1..Len(group.ops)
      /\ group.n \in 1..Len(writers) /\ Len(group.ops) > 0
      /\ group.k \in Nat
  <2>1. group \in G /\ group.ops \in Seq(Calls) /\ group.k \in Nat
    BY Zenon, <1>10 DEF LeaderTypes
  <2> QED BY Zenon, <1>1, <1>10, <2>1, SeqIsFunction DEF GroupInv
<1>5. GroupCalls \subseteq Calls
  BY <1>4 DEF GroupCalls
<1>6. \A u \in Threads : pc[u] \in Committing => u = t
  BY Zenon, <1>1, <1>10, OneLeader DEF Leading, Locations, Committing
<1>7. CASE \E ok \in BOOLEAN : AddRecord(t, ok)
  <2>1. PICK ok \in BOOLEAN : AddRecord(t, ok)
    BY Zenon, <1>7
  <2>2. /\ pc[t] = "log" /\ group' = [group EXCEPT !.status = AddStatus(ok)]
        /\ pc' = [pc EXCEPT ![t] = AfterAddRecord(t, ok)]
    BY Zenon, <2>1 DEF AddRecord
  <2>3. AfterAddRecord(t, ok) \in {"finish", "sync", "insert"} /\ AddStatus(ok) \in {"ok", "err"}
    BY Zenon DEF AfterAddRecord, AddStatus
  <2>9. AfterAddRecord(t, ok) \in Leading
    BY Zenon, <2>3 DEF Leading, Locations
  <2>10. \A u \in Threads : pc'[u] = IF u = t THEN AfterAddRecord(t, ok) ELSE pc[u]
    BY Zenon, <1>10, <2>2 DEF QueueTypes
  <2>4. QueueTypes' /\ QueueInv' /\ SingleLeader'
    BY Zenon, <1>1, <1>2, <1>11, <2>2, <2>9, LeaderSteps
  <2>8. group.k = 0
    BY Zenon, <1>10, <2>2 DEF GroupInv, Committing
  <2>5. group' \in G /\ group'.k = 0 /\ group'.n = group.n /\ group'.ops = group.ops
    BY Zenon, <1>4, <2>2, <2>3, <2>8
  <2>6. GroupInv'
    BY <1>2, <1>4, <1>6, <2>3, <2>10, <2>5 DEF GroupInv, Committing
  <2>7. DataTypes' /\ LeaderTypes'
    BY Zenon, <1>2, <1>5, <1>10, <2>1, <2>5 DEF AddRecord, DataTypes, LeaderTypes
  <2> QED BY Zenon, <1>3, <2>4, <2>6, <2>7 DEF Shape, TypeOK
<1>8. CASE \E ok \in BOOLEAN : SyncLog(t, ok)
  <2>1. PICK ok \in BOOLEAN : SyncLog(t, ok)
    BY Zenon, <1>8
  <2> DEFINE l == IF ok THEN "insert" ELSE "finish"
  <2>2. /\ pc[t] = "sync" /\ pc' = [pc EXCEPT ![t] = l]
        /\ group' = [group EXCEPT !.status = IF ok THEN "ok" ELSE "syncerr"]
    BY Zenon, <2>1 DEF SyncLog
  <2>3. l \in {"finish", "insert"}
    BY Zenon
  <2> HIDE DEF l
  <2>9. l \in Leading
    BY Zenon, <2>3 DEF Leading, Locations
  <2>10. \A u \in Threads : pc'[u] = IF u = t THEN l ELSE pc[u]
    BY Zenon, <1>10, <2>2 DEF QueueTypes
  <2>4. QueueTypes' /\ QueueInv' /\ SingleLeader'
    BY Zenon, <1>1, <1>2, <1>11, <2>2, <2>9, LeaderSteps
  <2>8. group.k = 0
    BY Zenon, <1>10, <2>2 DEF GroupInv, Committing
  <2>5. group' \in G /\ group'.k = 0 /\ group'.n = group.n /\ group'.ops = group.ops
    BY Zenon, <1>4, <2>2, <2>8
  <2>6. GroupInv'
    BY <1>2, <1>4, <1>6, <2>3, <2>10, <2>5 DEF GroupInv, Committing
  <2>7. DataTypes' /\ LeaderTypes'
    BY Zenon, <1>2, <1>10, <2>1, <2>5 DEF SyncLog, DataTypes, LeaderTypes
  <2> QED BY Zenon, <1>3, <2>4, <2>6, <2>7 DEF Shape, TypeOK
<1>9. CASE InsertInto(t)
  <2> DEFINE l == IF group.k + 1 = Len(group.ops) THEN "finish" ELSE "insert"
  <2>1. /\ pc[t] = "insert" /\ pc' = [pc EXCEPT ![t] = l]
        /\ group' = [group EXCEPT !.k = group.k + 1]
    BY Zenon, <1>9 DEF InsertInto
  <2>2. group.k < Len(group.ops)
    BY Zenon, <1>10, <2>1 DEF GroupInv, Committing
  <2>3. l \in {"finish", "insert"} /\ (l = "insert" => group.k + 1 < Len(group.ops))
    BY <1>4, <2>2
  <2> HIDE DEF l
  <2>9. l \in Leading
    BY Zenon, <2>3 DEF Leading, Locations
  <2>10. \A u \in Threads : pc'[u] = IF u = t THEN l ELSE pc[u]
    BY Zenon, <1>10, <2>1 DEF QueueTypes
  <2>4. QueueTypes' /\ QueueInv' /\ SingleLeader'
    BY Zenon, <1>1, <1>2, <1>11, <2>1, <2>9, LeaderSteps
  <2>5. /\ group' \in G /\ group'.k = group.k + 1 /\ group'.n = group.n
        /\ group'.ops = group.ops
    BY <1>4, <2>1
  <2>6. GroupInv'
    BY <1>2, <1>4, <1>6, <2>2, <2>3, <2>10, <2>5 DEF GroupInv, Committing
  <2>7. [seq |-> FirstSequence + group.k, id |-> group.ops[group.k + 1]] \in Entry
    <3>1. group.k + 1 \in 1..Len(group.ops)
      BY <1>4, <2>2
    <3>2. group.ops[group.k + 1] \in Calls
      BY Zenon, <1>4, <3>1, SeqElement
    <3>3. FirstSequence + group.k \in Nat
      BY <1>4, <1>10 DEF FirstSequence, DataTypes
    <3> QED BY Zenon, <3>2, <3>3 DEF Entry
  <2>8. DataTypes' /\ LeaderTypes'
    BY Zenon, <1>2, <1>9, <1>10, <2>5, <2>7 DEF InsertInto, DataTypes, LeaderTypes
  <2> QED BY Zenon, <1>3, <2>4, <2>6, <2>8 DEF Shape, TypeOK
<1> QED BY Zenon, <1>7, <1>8, <1>9

\* A finished group leaves no group behind.
LEMMA FinishShape ==
    ASSUME Shape, NEW t \in Threads, Finish(t)
    PROVE  Shape'
<1> USE DEF Shape, TypeOK
<1>1. pc[t] \in Leading /\ pc[t] \in Committing
  BY Zenon DEF Finish, Leading, Locations, Committing
<1>2. group.n \in 1..Len(writers) /\ group.ops \in Seq(Calls) /\ Len(group.ops) \in Nat
  BY Zenon, <1>1, SeqIsFunction DEF GroupInv, LeaderTypes
<1>3. \E s \in {"ok", "err"} : Leave(t, group.n, s)
  BY Zenon DEF Finish
<1>4. /\ QueueTypes' /\ QueueInv' /\ SingleLeader'
      /\ \A u \in Threads : pc'[u] \notin Leading
  BY Zenon, <1>1, <1>2, <1>3, LeaderLeaves
<1>5. group' = NoGroup /\ room' = room /\ bgWait' \subseteq Threads
  BY Zenon DEF Finish, LeaderTypes
<1>6. LeaderTypes'
  BY Zenon, <1>5, SeqEmpty DEF LeaderTypes, NoGroup
<1>7. GroupInv'
  <2>1. group'.k = 0 /\ Len(group'.ops) = 0
    BY Zenon, <1>5 DEF NoGroup
  <2> QED BY <1>4, <2>1 DEF GroupInv, Leading, Locations, Committing
<1>8. DataTypes' /\ BgTypes' /\ InputsInv'
  BY <1>2 DEF Finish, DataTypes, BgTypes, InputsInv, GroupCount
<1> QED BY Zenon, <1>4, <1>6, <1>7, <1>8

\* A step that leaves the writers alone keeps their part of Shape.
LEMMA WritersUnchanged ==
    ASSUME Shape, UNCHANGED <<mutex, writeVars>>,
           cvWait' \subseteq Threads, bgWait' \subseteq Threads
    PROVE  QueueTypes' /\ QueueInv' /\ SingleLeader' /\ LeaderTypes' /\ GroupInv'
BY Zenon DEF Shape, TypeOK, QueueTypes, QueueInv, SingleLeader, LeaderTypes, GroupInv,
       writeVars

\* MaybeScheduleCompaction's decision is a Boolean.
LEMMA ScheduleBoolean ==
    ASSUME NEW a, NEW b, NEW c, NEW d
    PROVE  Schedule(a, b, c, d) \in BOOLEAN
BY Zenon DEF Schedule

\* The end of the background call.
LEMMA ReturnTypes ==
    ASSUME NEW a, NEW b, NEW c, BgReturn(a, b, c)
    PROVE  bgpc' = "idle" /\ inputs' = 0 /\ scheduled' \in BOOLEAN
BY Zenon, ScheduleBoolean DEF BgReturn

\* The end of CompactMemTable.
LEMMA ResumeTypes ==
    ASSUME Shape, NEW a, NEW b, NEW c, BgResume(a, b, c)
    PROVE  bgpc' \in BgLocations /\ inputs' \in {0, inputs} /\ scheduled' \in BOOLEAN
BY Zenon, ReturnTypes DEF BgResume, BgLocations, Shape, TypeOK, BgTypes

\* The background thread does not touch the queue of writers.
LEMMA BackgroundShape ==
    ASSUME Shape, Background
    PROVE  Shape'
<1> USE DEF Shape, TypeOK
<1>1. UNCHANGED <<mutex, writeVars>> /\ cvWait' \subseteq Threads /\ bgWait' \subseteq Threads
  BY Zenon DEF Background, BgStart, BgRemove, BgCompactImm, BgBuild, BgApply, BgCompacted,
         BgInstall, BgResume, BgReturn, QueueTypes, LeaderTypes
<1>2. QueueTypes' /\ QueueInv' /\ SingleLeader' /\ LeaderTypes' /\ GroupInv'
  BY Zenon, <1>1, WritersUnchanged
<1> USE DEF BgTypes, InputsInv, BgLocations
<1>10. SUFFICES DataTypes' /\ BgTypes' /\ InputsInv'
  BY Zenon, <1>2
<1>11. DataTypes' \/ \E ok \in BOOLEAN : BgApply(ok)
  BY Zenon DEF Background, BgStart, BgRemove, BgCompactImm, BgBuild, BgCompacted, BgInstall,
         DataTypes, dataVars
<1>12. (\E ok \in BOOLEAN : BgApply(ok)) => DataTypes'
  BY Zenon DEF BgApply, ImmKept, DataTypes
<1> HIDE DEF Shape, TypeOK
<1>13. l0 \in Nat /\ inputs \in Nat /\ inputs <= l0 /\ shutting \in BOOLEAN
       /\ bgError \in BOOLEAN /\ scheduled \in BOOLEAN /\ bgpc \in BgLocations
  BY Zenon DEF Shape, TypeOK
<1>3. CASE BgStart
  <2>1. /\ inputs' \in {0, inputs, l0} /\ bgpc' \in BgLocations /\ scheduled' \in BOOLEAN
        /\ UNCHANGED <<l0, bgError, shutting>>
    BY Zenon, <1>3, <1>13, ReturnTypes DEF BgStart
  <2> QED BY <1>3, <1>11, <1>12, <1>13, <2>1
<1>4. CASE BgRemove
  <2>1. /\ inputs' \in {0, inputs} /\ bgpc' \in BgLocations /\ scheduled' \in BOOLEAN
        /\ UNCHANGED <<l0, bgError, shutting>>
    BY Zenon, <1>4, ResumeTypes DEF BgRemove
  <2> QED BY <1>11, <1>12, <1>13, <2>1
<1>5. CASE BgCompactImm
  BY Zenon, <1>5, <1>11, <1>12, <1>13 DEF BgCompactImm
<1>6. ASSUME NEW ok \in BOOLEAN, BgBuild(ok)
      PROVE  DataTypes' /\ BgTypes' /\ InputsInv'
  <2>1. inputs' \in {0, inputs} /\ bgpc' \in BgLocations /\ scheduled' \in BOOLEAN
    BY Zenon, <1>6, <1>13, ResumeTypes DEF BgBuild
  <2>2. bgError' \in BOOLEAN /\ UNCHANGED <<l0, shutting>>
    BY Zenon, <1>6, <1>13 DEF BgBuild
  <2> QED BY <1>11, <1>12, <1>13, <2>1, <2>2
<1>7. ASSUME NEW ok \in BOOLEAN, BgApply(ok)
      PROVE  DataTypes' /\ BgTypes' /\ InputsInv'
  <2>1. inputs' \in {0, inputs} /\ bgpc' \in BgLocations /\ scheduled' \in BOOLEAN
    BY Zenon, <1>7, <1>13, ResumeTypes DEF BgApply
  <2>2. bgError' \in BOOLEAN /\ UNCHANGED shutting
    BY Zenon, <1>7, <1>13 DEF BgApply
  <2>3. l0' \in {l0, l0 + 1}
    BY Zenon, <1>7 DEF BgApply
  <2> QED BY <1>7, <1>12, <1>13, <2>1, <2>2, <2>3
<1>8. ASSUME NEW ok \in BOOLEAN, BgCompacted(ok)
      PROVE  DataTypes' /\ BgTypes' /\ InputsInv'
  <2>1. inputs' \in {0, inputs} /\ bgpc' \in BgLocations /\ scheduled' \in BOOLEAN
    BY Zenon, <1>8, <1>13, ReturnTypes DEF BgCompacted
  <2>2. bgError' \in BOOLEAN /\ UNCHANGED <<l0, shutting>>
    BY Zenon, <1>8, <1>13 DEF BgCompacted
  <2> QED BY <1>11, <1>12, <1>13, <2>1, <2>2
<1>9. ASSUME NEW ok \in BOOLEAN, BgInstall(ok)
      PROVE  DataTypes' /\ BgTypes' /\ InputsInv'
  <2>1. inputs' = 0 /\ bgpc' \in BgLocations /\ scheduled' \in BOOLEAN
    BY Zenon, <1>9, <1>13, ReturnTypes DEF BgInstall
  <2>2. bgError' \in BOOLEAN /\ UNCHANGED shutting
    BY Zenon, <1>9, <1>13 DEF BgInstall
  <2>3. l0' \in Nat
    BY <1>9, <1>13 DEF BgInstall, Removed
  <2> QED BY <1>11, <1>12, <1>13, <2>1, <2>2, <2>3
<1> QED BY Zenon, <1>3, <1>4, <1>5, <1>6, <1>7, <1>8, <1>9 DEF Background

\* Every step of a client thread keeps the shape.
LEMMA ClientShape ==
    ASSUME Shape, NEW t \in Threads, Client(t)
    PROVE  Shape'
<1>1. CASE WakeUp(t)
  <2>1. DataTypes' /\ BgTypes' /\ InputsInv'
    BY Zenon, <1>1 DEF Shape, TypeOK, WakeUp, DataTypes, BgTypes, InputsInv, dataVars, bgVars
  <2>2. room' \in [force : BOOLEAN, delay : BOOLEAN]
    BY Zenon, <1>1, LeadRoom DEF WakeUp, Shape, TypeOK, LeaderTypes
  <2>3. LeaderTypes'
    BY Zenon, <1>1, <2>2 DEF WakeUp, Shape, TypeOK, LeaderTypes
  <2> QED BY Zenon, <1>1, <2>1, <2>3, WriterWakes DEF Shape, TypeOK
<1>2. CASE RoomEnough(t)
  BY Zenon, <1>2, LeaveShape, BuildGroupShape
<1> QED BY Zenon, <1>1, <1>2, RoomShape, LeaveShape, BuildGroupShape, CommitShape,
           FinishShape DEF Client

\* The state after Open has the shape.
LEMMA ShapeInit == Init => Shape
<1> SUFFICES ASSUME Init PROVE Shape
  BY Zenon
<1>1. TypeOK
  <2>1. QueueTypes
    BY ConstantsAssumption, SeqEmpty DEF Init, QueueTypes, Locations
  <2>2. LeaderTypes
    BY Zenon, SeqEmpty DEF Init, LeaderTypes, NoGroup
  <2>3. DataTypes /\ BgTypes
    BY Zenon DEF Init, DataTypes, BgTypes, BgLocations
  <2> QED BY Zenon, <2>1, <2>2, <2>3 DEF TypeOK
<1>2. QueueInv /\ SingleLeader /\ GroupInv /\ InputsInv
  BY SMTT(40) DEF Init, QueueInv, SingleLeader, GroupInv, InputsInv, NoGroup, Leading, Committing
<1> QED BY Zenon, <1>1, <1>2 DEF Shape

\* Every step of the write path keeps the shape.
LEMMA ShapeStep == Shape /\ [Next]_vars => Shape'
<1> SUFFICES ASSUME Shape, [Next]_vars PROVE Shape'
  BY Zenon
<1>1. ASSUME NEW t \in Threads, NEW size \in BatchSizes, NEW sync \in BOOLEAN,
             Enqueue(t, size, sync)
      PROVE  Shape'
  <2>1. DataTypes' /\ BgTypes' /\ InputsInv'
    BY Zenon, <1>1 DEF Shape, TypeOK, Enqueue, DataTypes, BgTypes, InputsInv, dataVars, bgVars
  <2>2. room' \in [force : BOOLEAN, delay : BOOLEAN]
    BY Zenon, <1>1, LeadRoom DEF Enqueue, Shape, TypeOK, LeaderTypes
  <2>3. LeaderTypes'
    BY Zenon, <1>1, <2>2 DEF Enqueue, Shape, TypeOK, LeaderTypes
  <2> QED BY Zenon, <1>1, <2>1, <2>3, WriterEnters DEF Shape, TypeOK
<1>2. ASSUME NEW t \in Threads, Client(t) PROVE Shape'
  BY Zenon, <1>2, ClientShape
<1>3. ASSUME NEW t \in Threads, SpuriousWakeup(t) PROVE Shape'
  <2>1. UNCHANGED <<mutex, writeVars>> /\ cvWait' \subseteq Threads /\ bgWait' \subseteq Threads
    BY Zenon, <1>3 DEF SpuriousWakeup, Shape, TypeOK, QueueTypes, LeaderTypes
  <2>2. DataTypes' /\ BgTypes' /\ InputsInv'
    BY Zenon, <1>3 DEF SpuriousWakeup, Shape, TypeOK, DataTypes, BgTypes, InputsInv,
                dataVars, bgVars
  <2> QED BY Zenon, <2>1, <2>2, WritersUnchanged DEF Shape, TypeOK
<1>4. CASE Background
  BY Zenon, <1>4, BackgroundShape
<1>5. CASE Close
  <2>1. UNCHANGED <<mutex, writeVars>> /\ cvWait' \subseteq Threads /\ bgWait' \subseteq Threads
    BY Zenon, <1>5 DEF Close, Shape, TypeOK, QueueTypes, LeaderTypes
  <2>2. DataTypes' /\ BgTypes' /\ InputsInv'
    BY Zenon, <1>5 DEF Close, Shape, TypeOK, DataTypes, BgTypes, InputsInv, dataVars
  <2> QED BY Zenon, <2>1, <2>2, WritersUnchanged DEF Shape, TypeOK
<1>6. CASE UNCHANGED vars
  <2>1. UNCHANGED <<mutex, writeVars>> /\ cvWait' \subseteq Threads /\ bgWait' \subseteq Threads
    BY Zenon, <1>6 DEF vars, Shape, TypeOK, QueueTypes, LeaderTypes
  <2>2. DataTypes' /\ BgTypes' /\ InputsInv'
    BY Zenon, <1>6 DEF vars, Shape, TypeOK, DataTypes, BgTypes, InputsInv, dataVars, bgVars
  <2> QED BY Zenon, <2>1, <2>2, WritersUnchanged DEF Shape, TypeOK
<1> QED BY Zenon, <1>1, <1>2, <1>3, <1>4, <1>5, <1>6 DEF Next

\* The state of the write path keeps its types.
THEOREM TypeCorrect == Spec => []TypeOK
<1>1. Shape => TypeOK
  BY Zenon DEF Shape
<1> QED BY <1>1, ShapeInit, ShapeStep, PTL DEF Spec

\* DBImpl::Write has one leader at a time, the front of writers_.
THEOREM LeaderIsUnique == Spec => []SingleLeader
<1>1. Shape => SingleLeader
  BY Zenon DEF Shape
<1> QED BY <1>1, ShapeInit, ShapeStep, PTL DEF Spec

-----------------------------------------------------------------------------

\* Entries are at most k past LastSequence(), and the group about to be
\* inserted is in the log.
DataInv ==
    /\ ~hasImm => imm = {}
    /\ \A e \in Entries : e.seq <= lastSeq + group.k
    /\ UniqueSequences
    /\ LogCoversMemtables
    /\ \A t \in Threads : pc[t] \in {"sync", "insert"} => GroupCalls \subseteq log

\* A memtable is switched out only while level 0 has room for its table.
BgInv ==
    /\ bgpc \in {"build", "apply"} => hasImm
    /\ hasImm => l0 < L0Stop
    /\ L0Bounded
    /\ ImmHasFlusher

-----------------------------------------------------------------------------
(* DataInv is inductive *)

\* A step that changes neither the data nor k keeps DataInv when no thread gets
\* to the part of the commit after AddRecord.
LEMMA DataUnchanged ==
    ASSUME DataInv, UNCHANGED dataVars, group'.k = group.k,
           \A u \in Threads : pc'[u] \in {"sync", "insert"} =>
              pc[u] \in {"sync", "insert"} /\ group' = group
    PROVE  DataInv'
<1>1. Entries' = Entries /\ UNCHANGED <<log, immLog, mem, imm, hasImm, lastSeq>>
  BY Zenon DEF Entries, dataVars
<1>2. \A u \in Threads : pc'[u] \in {"sync", "insert"} => GroupCalls' \subseteq log'
  BY Zenon, <1>1 DEF DataInv, GroupCalls
<1> QED BY Zenon, <1>1, <1>2 DEF DataInv, UniqueSequences, LogCoversMemtables

\* Where a thread can get to without changing the data.
LEMMA DataStill ==
    ASSUME Shape, DataInv, NEW t \in Threads,
           \/ WakeUp(t)
           \/ RoomError(t) \/ RoomDelay(t) \/ RoomDelayed(t) \/ RoomEnough(t)
           \/ RoomWait(t) \/ RoomWaited(t) \/ FlushWaited(t) \/ RoomSwitchFails(t)
           \/ GroupAbsorb(t) \/ GroupDone(t)
           \/ SpuriousWakeup(t)
           \/ \E size \in BatchSizes, sync \in BOOLEAN : Enqueue(t, size, sync)
    PROVE  DataInv'
<1>1. UNCHANGED dataVars
  BY Zenon DEF WakeUp, RoomError, RoomDelay, RoomDelayed, RoomEnough, RoomWait, RoomWaited,
         FlushWaited, RoomSwitchFails, GroupAbsorb, GroupDone, SpuriousWakeup, Enqueue
<1>2. \A u \in Threads : pc'[u] \in {"sync", "insert"} => pc[u] = pc'[u]
  BY Zenon DEF WakeUp, RoomError, RoomDelay, RoomDelayed, RoomEnough, RoomWait, RoomWaited,
         FlushWaited, RoomSwitchFails, GroupAbsorb, GroupDone, SpuriousWakeup, Enqueue,
         Leave, writeVars, Shape, TypeOK, QueueTypes
<1>3. CASE group' = group
  BY Zenon, <1>1, <1>2, <1>3, DataUnchanged
<1>4. CASE group' # group
  <2>1. \/ GroupAbsorb(t) /\ pc[t] = "group"
        \/ RoomEnough(t) /\ pc[t] = "room"
    BY Zenon, <1>4 DEF WakeUp, RoomError, RoomDelay, RoomDelayed, RoomEnough, RoomWait,
                RoomWaited, FlushWaited, RoomSwitchFails, GroupAbsorb, GroupDone,
                SpuriousWakeup, Enqueue, writeVars, InRoom
  <2>2. \A u \in Threads : pc[u] \notin {"sync", "insert"}
    BY Zenon, <2>1, OneLeader DEF Shape, Leading, Locations
  <2>3. group'.k = group.k
    <3>1. CASE GroupAbsorb(t)
      BY Zenon, <3>1 DEF GroupAbsorb, Shape, TypeOK, LeaderTypes
    <3>2. CASE RoomEnough(t) /\ pc[t] = "room"
      <4>1. group.k = 0
        BY Zenon, <3>2, NoGroupYet DEF Leading, Locations, Committing
      <4>2. group'.k = 0
        BY Zenon, <1>4, <3>2 DEF RoomEnough, NoGroup
      <4> QED BY Zenon, <4>1, <4>2
    <3> QED BY Zenon, <2>1, <3>1, <3>2
  <2> QED BY Zenon, <1>1, <1>2, <2>2, <2>3, DataUnchanged
<1> QED BY Zenon, <1>3, <1>4

\* The switch of log and memtable moves both together.
LEMMA DataSwitch ==
    ASSUME Shape, DataInv, NEW t \in Threads, NEW ok \in BOOLEAN, RoomSwitch(t, ok)
    PROVE  DataInv'
<1>1. imm = {}
  BY Zenon DEF RoomSwitch, MustWait, DataInv
<1>2. /\ log' = {} /\ immLog' = log /\ mem' = {} /\ imm' = mem /\ hasImm' = TRUE
      /\ UNCHANGED <<tables, lastSeq, group, pc>>
  BY Zenon DEF RoomSwitch
<1>3. Entries' = Entries
  BY Zenon, <1>1, <1>2 DEF Entries
<1>4. \A u \in Threads : pc'[u] \notin {"sync", "insert"}
  BY Zenon, <1>2, OneLeader DEF RoomSwitch, InRoom, Shape, Leading, Locations
<1> QED BY Zenon, <1>2, <1>3, <1>4 DEF DataInv, UniqueSequences, LogCoversMemtables

\* AddRecord and Sync put the group in the log before it is inserted.
LEMMA DataLog ==
    ASSUME Shape, DataInv, NEW t \in Threads, NEW ok \in BOOLEAN,
           AddRecord(t, ok) \/ SyncLog(t, ok)
    PROVE  DataInv'
<1>1. UNCHANGED <<immLog, mem, imm, hasImm, tables, lastSeq>> /\ Entries' = Entries
  BY Zenon DEF AddRecord, SyncLog, Entries
<1>2. group'.k = group.k /\ group'.ops = group.ops
  BY Zenon DEF AddRecord, SyncLog, Shape, TypeOK, LeaderTypes
<1>3. log \subseteq log' /\ GroupCalls' = GroupCalls
  BY <1>2 DEF AddRecord, SyncLog, GroupCalls
<1>4. ASSUME NEW u \in Threads, pc'[u] \in {"sync", "insert"}
      PROVE  GroupCalls \subseteq log'
  <2>1. u = t
    BY Zenon, <1>4, OneLeader DEF AddRecord, SyncLog, Shape, TypeOK, QueueTypes, Leading,
                           Locations
  <2>2. CASE AddRecord(t, ok)
    BY Zenon, <1>4, <2>1, <2>2 DEF AddRecord, AfterAddRecord, Shape, TypeOK, QueueTypes
  <2>3. CASE SyncLog(t, ok)
    BY Zenon, <1>3, <2>3 DEF SyncLog, DataInv
  <2> QED BY Zenon, <2>2, <2>3
<1> QED BY Zenon, <1>1, <1>2, <1>3, <1>4 DEF DataInv, UniqueSequences, LogCoversMemtables

\* InsertInto gives each entry the next unused sequence number.
LEMMA DataInsert ==
    ASSUME Shape, DataInv, NEW t \in Threads, InsertInto(t)
    PROVE  DataInv'
<1> DEFINE e == [seq |-> FirstSequence + group.k, id |-> group.ops[group.k + 1]]
<1>1. /\ mem' = mem \cup {e} /\ UNCHANGED <<log, immLog, imm, hasImm, tables, lastSeq>>
      /\ pc[t] = "insert" /\ group' = [group EXCEPT !.k = group.k + 1]
  BY Zenon DEF InsertInto
<1>2. e.seq = lastSeq + 1 + group.k /\ e.id = group.ops[group.k + 1]
  BY Zenon DEF FirstSequence
<1> HIDE DEF e
<1>3. /\ group.k \in Nat /\ lastSeq \in Nat /\ group.ops \in Seq(Calls)
      /\ group'.k = group.k + 1 /\ group'.ops = group.ops
  BY Zenon, <1>1 DEF Shape, TypeOK, LeaderTypes, DataTypes
<1>4. Entries' = Entries \cup {e}
  BY Zenon, <1>1 DEF Entries
<1>5. \A f \in Entries : f.seq \in Nat /\ f.seq <= lastSeq + group.k
  BY Zenon DEF Shape, TypeOK, DataTypes, Entries, Entry, DataInv
<1>6. \A f \in Entries' : f.seq <= lastSeq' + group'.k
  BY <1>1, <1>2, <1>3, <1>4, <1>5
<1>7. UniqueSequences'
  <2>1. \A f \in Entries : f.seq # e.seq
    BY <1>2, <1>3, <1>5
  <2> QED BY Zenon, <1>4, <2>1 DEF UniqueSequences, DataInv
<1>8. e.id \in log
  <2>1. group.k + 1 \in DOMAIN group.ops
    <3>1. group.k < Len(group.ops)
      BY Zenon, <1>1 DEF Shape, GroupInv, Committing
    <3>2. Len(group.ops) \in Nat /\ DOMAIN group.ops = 1..Len(group.ops)
      BY Zenon, <1>3, SeqIsFunction
    <3> QED BY <1>3, <3>1, <3>2
  <2> QED BY Zenon, <1>1, <1>2, <2>1 DEF DataInv, GroupCalls
<1>9. LogCoversMemtables'
  BY Zenon, <1>1, <1>8 DEF LogCoversMemtables, DataInv
<1>10. \A u \in Threads : pc'[u] \in {"sync", "insert"} => GroupCalls' \subseteq log'
  <2>1. GroupCalls' = GroupCalls /\ GroupCalls \subseteq log
    BY Zenon, <1>1, <1>3 DEF GroupCalls, DataInv
  <2> QED BY Zenon, <1>1, <2>1
<1> QED BY Zenon, <1>1, <1>6, <1>7, <1>9, <1>10 DEF DataInv

\* LastSequence() advances over exactly the group's entries.
LEMMA DataFinish ==
    ASSUME Shape, DataInv, NEW t \in Threads, Finish(t)
    PROVE  DataInv'
<1>1. /\ UNCHANGED <<log, immLog, mem, imm, hasImm, tables>> /\ Entries' = Entries
      /\ lastSeq' = lastSeq + Len(group.ops) /\ group' = NoGroup
      /\ pc[t] = "finish" /\ pc' = [pc EXCEPT ![t] = "idle"]
  BY Zenon DEF Finish, Entries, GroupCount, Leave
<1>2. group.k <= Len(group.ops) /\ Len(group.ops) \in Nat /\ lastSeq \in Nat
      /\ group.k \in Nat
  BY Zenon, SeqIsFunction DEF Shape, GroupInv, TypeOK, LeaderTypes, DataTypes
<1>3. \A f \in Entries : f.seq \in Nat /\ f.seq <= lastSeq + group.k
  BY Zenon DEF Shape, TypeOK, DataTypes, Entries, Entry, DataInv
<1>4. \A f \in Entries' : f.seq <= lastSeq' + group'.k
  BY <1>1, <1>2, <1>3 DEF NoGroup
<1>5. \A u \in Threads : pc'[u] \notin {"sync", "insert"}
  BY Zenon, <1>1, OneLeader DEF Shape, TypeOK, QueueTypes, Leading, Locations
<1> QED BY Zenon, <1>1, <1>4, <1>5 DEF DataInv, UniqueSequences, LogCoversMemtables

\* A flush moves imm_ into the tables, or leaves it with its log.
LEMMA DataBackground ==
    ASSUME Shape, DataInv, Background \/ Close
    PROVE  DataInv'
<1>1. UNCHANGED writeVars
  BY Zenon DEF Background, Close, BgStart, BgRemove, BgCompactImm, BgBuild, BgApply,
         BgCompacted, BgInstall
<1>2. CASE UNCHANGED dataVars
  BY Zenon, <1>1, <1>2, DataUnchanged DEF writeVars
<1>3. ASSUME NEW ok \in BOOLEAN, BgApply(ok) PROVE DataInv'
  <2>1. UNCHANGED <<log, mem, lastSeq, pc, group>>
    BY Zenon, <1>1, <1>3 DEF BgApply, writeVars
  <2>2. CASE ok
    <3>1. /\ tables' = tables \cup imm /\ imm' = {} /\ hasImm' = FALSE
          /\ Entries' = Entries
      BY Zenon, <1>3, <2>1, <2>2 DEF BgApply, ImmKept, Entries
    <3> QED BY Zenon, <2>1, <3>1 DEF DataInv, UniqueSequences, LogCoversMemtables, GroupCalls
  <2>3. CASE ~ok
    <3>1. UNCHANGED <<tables, imm, immLog, hasImm>> /\ Entries' = Entries
      BY Zenon, <1>3, <2>1, <2>3 DEF BgApply, ImmKept, Entries
    <3> QED BY Zenon, <2>1, <3>1 DEF DataInv, UniqueSequences, LogCoversMemtables, GroupCalls
  <2> QED BY Zenon, <2>2, <2>3
<1> QED
  BY Zenon, <1>2, <1>3 DEF Background, Close, BgStart, BgRemove, BgCompactImm, BgBuild,
                    BgCompacted, BgInstall

\* Every step keeps the data invariant.
LEMMA DataStep == Shape /\ DataInv /\ [Next]_vars => DataInv'
<1> SUFFICES ASSUME Shape, DataInv, [Next]_vars PROVE DataInv'
  BY Zenon
<1>1. ASSUME NEW t \in Threads, Client(t) PROVE DataInv'
  BY Zenon, <1>1, DataStill, DataSwitch, DataLog, DataInsert, DataFinish DEF Client
<1>2. CASE UNCHANGED vars
  BY Zenon, <1>2, DataUnchanged DEF vars, writeVars
<1> QED BY Zenon, <1>1, <1>2, DataStill, DataBackground DEF Next

\* A new database has no entries.
LEMMA DataInit == Init => DataInv
BY Zenon DEF Init, DataInv, Entries, UniqueSequences, LogCoversMemtables, NoGroup

\* No two entries of the database share a sequence number.
THEOREM SequencesAreUnique == Spec => []UniqueSequences
<1>1. DataInv => UniqueSequences
  BY Zenon DEF DataInv
<1> QED BY <1>1, ShapeInit, ShapeStep, DataInit, DataStep, PTL DEF Spec

\* Write-ahead rule: the log files cover the memtables.
THEOREM LogCovers == Spec => []LogCoversMemtables
<1>1. DataInv => LogCoversMemtables
  BY Zenon DEF DataInv
<1> QED BY <1>1, ShapeInit, ShapeStep, DataInit, DataStep, PTL DEF Spec

\* Only InsertInto adds entries and only Finish moves LastSequence(); the switch
\* and the flush move entries between the memtables and the tables.
LEMMA EntriesKept ==
    ASSUME DataInv, [Next]_vars
    PROVE  \/ Entries' = Entries /\ lastSeq' = lastSeq
           \/ \E t \in Threads : InsertInto(t) \/ Finish(t)
<1>1. CASE UNCHANGED dataVars
  BY Zenon, <1>1 DEF dataVars, Entries
<1>2. ASSUME NEW t \in Threads, NEW ok \in BOOLEAN, RoomSwitch(t, ok)
      PROVE  Entries' = Entries /\ lastSeq' = lastSeq
  BY Zenon, <1>2 DEF RoomSwitch, MustWait, DataInv, Entries
<1>3. ASSUME NEW t \in Threads, NEW ok \in BOOLEAN, AddRecord(t, ok) \/ SyncLog(t, ok)
      PROVE  Entries' = Entries /\ lastSeq' = lastSeq
  BY Zenon, <1>3 DEF AddRecord, SyncLog, Entries
<1>6. ASSUME NEW ok \in BOOLEAN, BgApply(ok)
      PROVE  Entries' = Entries /\ lastSeq' = lastSeq
  BY Zenon, <1>6 DEF BgApply, ImmKept, Entries
<1>7. ASSUME NEW t \in Threads, Client(t)
      PROVE  \/ UNCHANGED dataVars
             \/ \E ok \in BOOLEAN : RoomSwitch(t, ok) \/ AddRecord(t, ok) \/ SyncLog(t, ok)
             \/ InsertInto(t) \/ Finish(t)
  BY Zenon, <1>7 DEF Client, WakeUp, RoomError, RoomDelay, RoomDelayed, RoomEnough, RoomWait,
              RoomWaited, FlushWaited, RoomSwitchFails, GroupAbsorb, GroupDone
<1>8. Background => UNCHANGED dataVars \/ \E ok \in BOOLEAN : BgApply(ok)
  BY Zenon DEF Background, BgStart, BgRemove, BgCompactImm, BgBuild, BgCompacted, BgInstall
<1>9. ASSUME NEW t \in Threads,
             \/ SpuriousWakeup(t)
             \/ \E size \in BatchSizes, sync \in BOOLEAN : Enqueue(t, size, sync)
      PROVE  UNCHANGED dataVars
  BY Zenon, <1>9 DEF SpuriousWakeup, Enqueue
<1>10. Close => UNCHANGED dataVars
  BY Zenon DEF Close
<1>11. UNCHANGED vars => UNCHANGED dataVars
  BY Zenon DEF vars
<1> QED
  BY Zenon, <1>1, <1>2, <1>3, <1>6, <1>7, <1>8, <1>9, <1>10, <1>11 DEF Next

\* A step changes the entries only by inserting one past LastSequence().
LEMMA EntriesStep ==
    ASSUME Shape, DataInv, [Next]_vars
    PROVE  \/ Entries' = Entries
           \/ \E e : e.seq > lastSeq /\ e.seq \in Nat /\ Entries' = Entries \cup {e}
<1>1. ASSUME NEW t \in Threads, InsertInto(t)
      PROVE  \E e : e.seq > lastSeq /\ e.seq \in Nat /\ Entries' = Entries \cup {e}
  <2> DEFINE e == [seq |-> FirstSequence + group.k, id |-> group.ops[group.k + 1]]
  <2>1. Entries' = Entries \cup {e}
    BY Zenon, <1>1 DEF InsertInto, Entries
  <2>2. e.seq > lastSeq /\ e.seq \in Nat
    BY DEF FirstSequence, Shape, TypeOK, LeaderTypes, DataTypes
  <2> QED BY Zenon, <2>1, <2>2
<1>2. ASSUME NEW t \in Threads, Finish(t)
      PROVE  Entries' = Entries
  BY Zenon, <1>2 DEF Finish, Entries
<1> QED BY Zenon, <1>1, <1>2, EntriesKept

\* What is visible at a sequence number stays what it was: the insertions of a
\* group commit happen past LastSequence(), the switch and the flush only move
\* entries.
THEOREM SnapshotsAreStable == Spec => SnapshotsStable
<1>1. Shape /\ DataInv /\ [Next]_vars => [VisibleKept]_vars
  <2> SUFFICES ASSUME Shape, DataInv, [Next]_vars PROVE VisibleKept
    BY Zenon
  <2>1. lastSeq \in Nat
    BY Zenon DEF Shape, TypeOK, DataTypes
  <2> QED BY <2>1, EntriesStep DEF VisibleKept
<1> QED BY <1>1, ShapeInit, ShapeStep, DataInit, DataStep, PTL DEF Spec, SnapshotsStable

-----------------------------------------------------------------------------
(* The background thread and level 0 *)

\* Every step keeps level 0 bounded and imm_ with a scheduled flush.
LEMMA BgStep == Shape /\ BgInv /\ [Next]_vars => BgInv'
<1> SUFFICES ASSUME Shape, BgInv, [Next]_vars PROVE BgInv'
  BY Zenon
<1> USE DEF BgInv, L0Bounded, ImmHasFlusher
<1>1. /\ l0 \in Nat /\ inputs \in Nat /\ inputs <= l0 /\ L0Stop \in Nat
      /\ hasImm \in BOOLEAN /\ scheduled \in BOOLEAN /\ bgError \in BOOLEAN
  BY Zenon, ConstantsAssumption DEF Shape, TypeOK, BgTypes, DataTypes, InputsInv
<1>2. CASE UNCHANGED <<hasImm, l0, scheduled, bgpc, bgError, shutting>>
  BY Zenon, <1>2
<1>3. ASSUME NEW t \in Threads, NEW ok \in BOOLEAN, RoomSwitch(t, ok)
      PROVE  BgInv'
  <2>1. /\ hasImm' = TRUE /\ l0' = l0 /\ bgpc' = bgpc /\ shutting' = shutting
        /\ bgError' = ~ok /\ scheduled' = Schedule(scheduled, TRUE, l0, ~ok)
        /\ ~hasImm /\ ~(l0 >= L0Stop)
    BY Zenon, <1>3 DEF RoomSwitch, MustWait
  <2>2. ~bgError' /\ ~shutting' => scheduled'
    BY Zenon, <2>1 DEF Schedule
  <2>3. hasImm' /\ l0' < L0Stop /\ l0' <= L0Stop
    BY <1>1, <2>1
  <2> QED BY Zenon, <2>2, <2>3
<1>4. ASSUME NEW t \in Threads, Finish(t)
      PROVE  BgInv'
  BY Zenon, <1>4 DEF Finish
<1>5. CASE Close
  BY Zenon, <1>5 DEF Close, dataVars
<1>6. CASE BgStart
  BY Zenon, <1>6 DEF BgStart, BgReturn, Schedule, dataVars
<1>7. CASE BgRemove
  BY Zenon, <1>7 DEF BgRemove, BgResume, BgReturn, Schedule, dataVars
<1>8. CASE BgCompactImm
  BY Zenon, <1>8 DEF BgCompactImm, dataVars
<1>9. ASSUME NEW ok \in BOOLEAN, BgBuild(ok) PROVE BgInv'
  BY Zenon, <1>9 DEF BgBuild, BgResume, BgReturn, Schedule, dataVars
<1>10. ASSUME NEW ok \in BOOLEAN, BgApply(ok) PROVE BgInv'
  <2>1. CASE ok
    <3>1. hasImm' = FALSE /\ l0' \in {l0, l0 + 1} /\ hasImm /\ l0 < L0Stop
      BY Zenon, <1>10, <2>1 DEF BgApply
    <3>2. bgpc' \in {"remove", "compact", "idle"}
      BY Zenon, <1>10, <2>1 DEF BgApply, BgResume, BgReturn
    <3> QED BY <1>1, <3>1, <3>2
  <2>2. CASE ~ok
    <3>1. UNCHANGED <<hasImm, l0>> /\ bgError' = TRUE /\ bgpc' \in {"compact", "idle"}
      BY Zenon, <1>10, <2>2 DEF BgApply, BgResume, BgReturn
    <3> QED BY Zenon, <3>1
  <2> QED BY Zenon, <2>1, <2>2
<1>11. ASSUME NEW ok \in BOOLEAN, BgCompacted(ok) PROVE BgInv'
  <2>1. UNCHANGED <<hasImm, l0, shutting>> /\ bgpc' \in {"install", "idle"}
        /\ (bgError => bgError')
    BY Zenon, <1>11 DEF BgCompacted, BgReturn, dataVars
  <2>2. bgError' \/ scheduled' = scheduled
    BY Zenon, <1>11 DEF BgCompacted, BgReturn
  <2> QED BY Zenon, <1>1, <2>1, <2>2
<1>12. ASSUME NEW ok \in BOOLEAN, BgInstall(ok) PROVE BgInv'
  <2>1. hasImm' = hasImm /\ shutting' = shutting /\ (bgError => bgError')
        /\ bgpc' \in {"remove", "idle"}
    BY Zenon, <1>12 DEF BgInstall, BgReturn, dataVars
  <2>2. l0' <= l0 /\ l0' \in Nat
    BY <1>1, <1>12 DEF BgInstall, Removed
  <2>3. bgError' \/ scheduled' = scheduled
    BY Zenon, <1>12 DEF BgInstall, BgReturn
  <2> QED BY <1>1, <2>1, <2>2, <2>3
<1>13. ASSUME NEW t \in Threads,
              \/ Client(t) \/ SpuriousWakeup(t)
              \/ \E size \in BatchSizes, sync \in BOOLEAN : Enqueue(t, size, sync)
       PROVE  \/ UNCHANGED <<hasImm, l0, scheduled, bgpc, bgError, shutting>>
              \/ Finish(t) \/ \E ok \in BOOLEAN : RoomSwitch(t, ok)
  BY Zenon, <1>13 DEF Client, WakeUp, RoomError, RoomDelay, RoomDelayed, RoomEnough, RoomWait,
               RoomWaited, FlushWaited, RoomSwitchFails, GroupAbsorb, GroupDone,
               AddRecord, SyncLog, InsertInto, SpuriousWakeup, Enqueue, dataVars, bgVars
<1>14. CASE UNCHANGED vars
  BY Zenon, <1>14 DEF vars, dataVars, bgVars
<1> QED
  BY Zenon, <1>2, <1>3, <1>4, <1>5, <1>6, <1>7, <1>8, <1>9, <1>10, <1>11, <1>12, <1>13,
     <1>14 DEF Next, Background

\* A new database has no immutable memtable and no level-0 file.
LEMMA BgInit == Init => BgInv
<1> SUFFICES ASSUME Init PROVE BgInv
  BY Zenon
<1>1. hasImm = FALSE /\ bgpc = "idle" /\ l0 = 0
  BY Zenon DEF Init
<1>2. 0 <= L0Stop
  BY ConstantsAssumption
<1> QED BY Zenon, <1>1, <1>2 DEF BgInv, L0Bounded, ImmHasFlusher

\* Level 0 never holds more files than the stop trigger.
THEOREM LevelZeroIsBounded == Spec => []L0Bounded
<1>1. BgInv => L0Bounded
  BY Zenon DEF BgInv
<1> QED BY <1>1, ShapeInit, ShapeStep, BgInit, BgStep, PTL DEF Spec

\* A background call is scheduled whenever imm_ exists and no error was recorded.
THEOREM ImmIsFlushed == Spec => []ImmHasFlusher
<1>1. BgInv => ImmHasFlusher
  BY Zenon DEF BgInv
<1> QED BY <1>1, ShapeInit, ShapeStep, BgInit, BgStep, PTL DEF Spec

-----------------------------------------------------------------------------
(* Sync writes *)

\* The leader of a group with a sync call is sync, and what it inserts, or has
\* reported to be done, was covered by its fsync.
SyncInv ==
    /\ \A t \in Threads : pc[t] \in Committing =>
          \A j \in 1..group.n :
             /\ IsSync(writers[j]) => IsSync(t)
             /\ Size(writers[j]) > 0 => call[writers[j]] \in GroupCalls
    /\ \A t \in Threads :
          /\ pc[t] = "insert" \/ (pc[t] = "finish" /\ group.status = "ok")
          /\ IsSync(t)
          => GroupCalls \subseteq synced
    /\ \A t \in Threads :
          pc[t] # "idle" /\ done[t] = "ok" /\ IsSync(t) /\ Size(t) > 0 =>
             call[t] \in synced
    /\ \A t \in Threads : pc[t] = "flushwait" => Size(t) = 0
    /\ SyncHonoured

\* A step in which nobody joins, starts or ends a commit.
LEMMA SyncUnchanged ==
    ASSUME Shape, SyncInv, UNCHANGED <<calls, call, writers, done, synced, group>>,
           \A u \in Threads :
              /\ pc'[u] \in Committing => pc[u] \in Committing
              /\ pc'[u] \in {"insert", "finish"} => pc'[u] = pc[u]
              /\ pc'[u] # "idle" => pc[u] # "idle"
              /\ pc'[u] = "flushwait" => Size(u) = 0
    PROVE  SyncInv'
<1>1. GroupCalls' = GroupCalls /\ Acked' = Acked /\ SyncHonoured'
  BY Zenon DEF GroupCalls, Acked, SyncInv, SyncHonoured
<1>2. \A u : Size(u)' = Size(u) /\ IsSync(u)' = IsSync(u)
  BY Zenon DEF Size, IsSync
<1>3. \A j : Size(writers[j])' = Size(writers[j]) /\ IsSync(writers[j])' = IsSync(writers[j])
  BY Zenon DEF Size, IsSync
<1>4. \A u \in Threads : pc'[u] \in Committing =>
         \A j \in 1..group'.n :
            /\ IsSync(writers[j])' => IsSync(u)'
            /\ Size(writers[j])' > 0 => call'[writers'[j]] \in GroupCalls'
  BY Zenon, <1>1, <1>2, <1>3 DEF SyncInv
<1>5. \A u \in Threads :
         (pc'[u] = "insert" \/ (pc'[u] = "finish" /\ group'.status = "ok")) /\ IsSync(u)'
         => GroupCalls' \subseteq synced'
  BY Zenon, <1>1, <1>2 DEF SyncInv
<1>6. \A u \in Threads :
         pc'[u] # "idle" /\ done'[u] = "ok" /\ IsSync(u)' /\ Size(u)' > 0 => call'[u] \in synced'
  BY Zenon, <1>2 DEF SyncInv
<1>7. \A u \in Threads : pc'[u] = "flushwait" => Size(u)' = 0
  BY Zenon, <1>2
<1> QED BY Zenon, <1>1, <1>4, <1>5, <1>6, <1>7 DEF SyncInv

\* Steps that neither build, commit nor end a group keep the sync invariant.
LEMMA SyncStill ==
    ASSUME Shape, SyncInv, NEW t \in Threads,
           \/ WakeUp(t) /\ done[t] = "no"
           \/ RoomDelay(t) \/ RoomDelayed(t) \/ RoomWait(t) \/ RoomWaited(t)
           \/ FlushWaited(t) /\ pc' = pc /\ calls' = calls
           \/ RoomEnough(t) /\ IsNull(t) /\ hasImm
           \/ GroupDone(t) \/ SpuriousWakeup(t)
           \/ \E ok \in BOOLEAN : RoomSwitch(t, ok)
    PROVE  SyncInv'
<1>1. UNCHANGED <<calls, call, synced, group, writers, done>>
  BY Zenon DEF WakeUp, RoomDelay, RoomDelayed, RoomWait, RoomWaited, RoomEnough,
         GroupDone, SpuriousWakeup, RoomSwitch, FlushWaited, Leave, writeVars, dataVars,
         Shape, TypeOK, QueueTypes
<1>2. \A u \in Threads :
         /\ pc'[u] \in Committing => pc[u] \in Committing
         /\ pc'[u] \in {"insert", "finish"} => pc'[u] = pc[u]
         /\ pc'[u] # "idle" => pc[u] # "idle"
  BY Zenon DEF WakeUp, RoomDelay, RoomDelayed, RoomWait, RoomWaited, RoomEnough, InRoom,
         GroupDone, SpuriousWakeup, RoomSwitch, FlushWaited, writeVars, Committing,
         Shape, TypeOK, QueueTypes
<1>3. \A u \in Threads : pc'[u] = "flushwait" => Size(u) = 0
  BY Zenon DEF WakeUp, RoomDelay, RoomDelayed, RoomWait, RoomWaited, RoomEnough, IsNull,
         GroupDone, SpuriousWakeup, RoomSwitch, FlushWaited, writeVars,
         Shape, TypeOK, QueueTypes, SyncInv
<1> QED BY Zenon, <1>1, <1>2, <1>3, SyncUnchanged

\* Setting the result of a call: what is acknowledged afterwards.
LEMMA ResultSet ==
    ASSUME Shape, NEW c \in DOMAIN calls, NEW r,
           calls' = [calls EXCEPT ![c].result = r]
    PROVE  /\ DOMAIN calls' = DOMAIN calls
           /\ \A i \in DOMAIN calls : /\ calls'[i].size = calls[i].size
                                      /\ calls'[i].sync = calls[i].sync
           /\ Acked' \subseteq Acked \cup {i \in {c} : r = "ok"}
<1>1. \A i \in DOMAIN calls : calls[i] \in Call
  BY Zenon, SeqElement, SeqIsFunction DEF Shape, TypeOK, QueueTypes
<1>2. DOMAIN calls' = DOMAIN calls
  BY Zenon
<1>3. \A i \in DOMAIN calls : calls'[i] = IF i = c THEN [calls[i] EXCEPT !.result = r] ELSE calls[i]
  BY Zenon
<1>4. \A i \in DOMAIN calls : /\ calls'[i].size = calls[i].size
                               /\ calls'[i].sync = calls[i].sync
                               /\ calls'[i].result = IF i = c THEN r ELSE calls[i].result
  BY Zenon, <1>1, <1>3 DEF Call
<1> QED BY Zenon, <1>2, <1>4 DEF Acked

\* A group leaves: its calls are reported done only if they were synced.
LEMMA SyncLeave ==
    ASSUME Shape, SyncInv, NEW t \in Threads, pc[t] \in Leading,
           NEW n \in 1..Len(writers), NEW s \in {"ok", "err"},
           Leave(t, n, s), synced' = synced,
           s = "ok" => \A j \in 1..n : IsSync(writers[j]) /\ Size(writers[j]) > 0 =>
                          call[writers[j]] \in synced
    PROVE  SyncInv'
<1> DEFINE popped == {writers[j] : j \in 2..n}
<1>1. /\ \A u \in Threads : pc'[u] = IF u = t THEN "idle" ELSE pc[u]
      /\ \A u \in Threads : call'[u] = IF u = t THEN 0 ELSE call[u]
      /\ \A u \in Threads : done'[u] = IF u \in popped THEN s ELSE done[u]
      /\ calls' = [calls EXCEPT ![call[t]].result = s]
  BY Zenon DEF Leave, Shape, TypeOK, QueueTypes
<1>2. call[t] \in DOMAIN calls /\ writers[1] = t
  BY Zenon DEF Shape, QueueInv, SingleLeader, Leading
<1>3. /\ DOMAIN calls' = DOMAIN calls
      /\ \A i \in DOMAIN calls : /\ calls'[i].size = calls[i].size
                                 /\ calls'[i].sync = calls[i].sync
      /\ Acked' \subseteq Acked \cup {i \in {call[t]} : s = "ok"}
  BY Zenon, <1>1, <1>2, ResultSet
<1>4. \A u \in Threads : pc'[u] \notin Committing /\ pc'[u] # "flushwait"
  <2>1. \A u \in Threads : pc'[u] \notin Leading
    BY Zenon, LeaderLeaves DEF Shape, TypeOK
  <2> QED BY Zenon, <2>1, <1>1 DEF Leading, Locations, Committing
<1>5. ASSUME NEW u \in Threads, pc'[u] # "idle", done'[u] = "ok", IsSync(u)', Size(u)' > 0
      PROVE  call'[u] \in synced'
  <2>1. u # t /\ pc[u] # "idle" /\ call'[u] = call[u]
    BY Zenon, <1>1, <1>5
  <2>2. call[u] \in DOMAIN calls
    BY Zenon, <2>1 DEF Shape, QueueInv
  <2>3. IsSync(u) /\ Size(u) > 0
    BY Zenon, <1>3, <1>5, <2>1, <2>2 DEF IsSync, Size
  <2>4. CASE u \in popped
    BY <1>1, <1>5, <2>1, <2>3, <2>4
  <2>5. CASE u \notin popped
    BY Zenon, <1>1, <1>5, <2>1, <2>3, <2>5 DEF SyncInv
  <2> QED BY Zenon, <2>4, <2>5
<1>6. SyncHonoured'
  <2> SUFFICES ASSUME NEW i \in Acked', calls'[i].sync, calls'[i].size > 0
               PROVE  i \in synced
    BY Zenon DEF SyncHonoured
  <2>1. CASE i \in Acked
    BY Zenon, <1>3, <2>1 DEF Acked, SyncInv, SyncHonoured
  <2>2. CASE i = call[t] /\ s = "ok"
    <3>1. IsSync(t) /\ Size(t) > 0
      BY Zenon, <1>2, <1>3, <2>2 DEF IsSync, Size
    <3>2. 1 \in 1..n
      OBVIOUS
    <3>3. call[writers[1]] \in synced
      BY Zenon, <1>2, <2>2, <3>1, <3>2
    <3> QED BY Zenon, <1>2, <2>2, <3>3
  <2>3. i \in Acked \/ i \in {x \in {call[t]} : s = "ok"}
    BY Zenon, <1>3
  <2>4. i \in Acked \/ (i = call[t] /\ s = "ok")
    BY Zenon, <2>3
  <2> QED BY Zenon, <2>1, <2>2, <2>4
<1> QED BY Zenon, <1>4, <1>5, <1>6 DEF SyncInv, Committing

\* A writer that leaves alone is in error or wrote nothing.
LEMMA SyncLeaveAlone ==
    ASSUME Shape, SyncInv, NEW t \in Threads,
           \/ RoomError(t) \/ RoomSwitchFails(t)
           \/ RoomEnough(t) /\ IsNull(t) /\ ~hasImm
           \/ FlushWaited(t) /\ \E s \in {"ok", "err"} : Leave(t, 1, s)
    PROVE  SyncInv'
<1>1. pc[t] \in Leading /\ writers[1] = t /\ 1 \in 1..Len(writers)
  <2>1. pc[t] \in Leading
    BY Zenon DEF RoomError, RoomSwitchFails, RoomEnough, FlushWaited, InRoom, Leading, Locations
  <2> QED BY <2>1, SeqEmpty DEF Shape, TypeOK, QueueTypes, SingleLeader
<1>2. synced' = synced
  BY Zenon DEF RoomError, RoomSwitchFails, RoomEnough, FlushWaited, dataVars
<1>3. \/ Leave(t, 1, "err")
      \/ Size(t) = 0 /\ \E s \in {"ok", "err"} : Leave(t, 1, s)
  BY Zenon DEF RoomError, RoomSwitchFails, RoomEnough, FlushWaited, IsNull, SyncInv
<1>4. CASE Leave(t, 1, "err")
  BY Zenon, <1>1, <1>2, <1>4, SyncLeave
<1>5. ASSUME Size(t) = 0, NEW s \in {"ok", "err"}, Leave(t, 1, s)
      PROVE  SyncInv'
  <2>2. \A j \in 1..1 : j = 1
    OBVIOUS
  <2>1. \A j \in 1..1 : ~(Size(writers[j]) > 0)
    <3>1. ~(0 > 0)
      OBVIOUS
    <3> QED BY Zenon, <1>1, <1>5, <2>2, <3>1
  <2> QED BY Zenon, <1>1, <1>2, <1>5, <2>1, SyncLeave
<1> QED BY Zenon, <1>3, <1>4, <1>5

\* What Append keeps and adds.
LEMMA Appended ==
    ASSUME NEW S, NEW q \in Seq(S), NEW e \in S, NEW r, r = Append(q, e)
    PROVE  /\ DOMAIN r = 1..(Len(q) + 1)
           /\ \A i \in 1..Len(q) : r[i] = q[i]
           /\ r[Len(q) + 1] = e
BY SeqAppend, SeqIsFunction

\* A new call has not been reported and does not change the other calls.
LEMMA SyncEnqueue ==
    ASSUME Shape, SyncInv, NEW t \in Threads, NEW size \in BatchSizes, NEW sync \in BOOLEAN,
           Enqueue(t, size, sync)
    PROVE  SyncInv'
<1>13. QueueTypes /\ QueueInv /\ GroupInv /\ calls \in Seq(Call) /\ writers \in Seq(Threads)
  BY Zenon DEF Shape, TypeOK, QueueTypes
<1> DEFINE new == [size |-> size, sync |-> sync, result |-> "none",
                   acked |-> IF size = 0 THEN Acked ELSE {}]
<1>1. Len(calls) \in Nat /\ DOMAIN calls = 1..Len(calls) /\ Len(calls) < MaxCalls
  BY Zenon, <1>13, SeqIsFunction DEF Enqueue
<1>2. /\ calls' = Append(calls, new) /\ writers' = Append(writers, t)
      /\ synced' = synced /\ group' = group /\ pc[t] = "idle"
  BY Zenon DEF Enqueue, dataVars
<1>3. new.result = "none" /\ new \in Call
  <2>1. DOMAIN calls \subseteq Calls
    <3>1. MaxCalls \in Nat
      BY Zenon, ConstantsAssumption
    <3> QED BY ONLY <1>1, <3>1 DEF Calls
  <2>2. Acked \subseteq Calls
    BY Zenon, <2>1 DEF Acked
  <2>3. size \in Nat
    BY Zenon, ConstantsAssumption
  <2> QED BY Zenon, <2>2, <2>3 DEF Call
<1> HIDE DEF new
<1>4. /\ DOMAIN calls' = 1..(Len(calls) + 1)
      /\ \A i \in DOMAIN calls : calls'[i] = calls[i]
      /\ calls'[Len(calls) + 1] = new
  <2>1. calls \in Seq(Call) /\ new \in Call /\ calls' = Append(calls, new)
    BY Zenon, <1>2, <1>3, <1>13
  <2>2. /\ DOMAIN calls' = 1..(Len(calls) + 1)
        /\ \A i \in 1..Len(calls) : calls'[i] = calls[i]
        /\ calls'[Len(calls) + 1] = new
    BY ONLY <2>1, Appended
  <2> QED BY Zenon, <1>1, <2>2
<1>5. Acked' = Acked
  <2>1. \A i : i \in DOMAIN calls' <=> i \in DOMAIN calls \/ i = Len(calls) + 1
    BY <1>1, <1>4
  <2>2. \A i : i \in Acked' <=> i \in Acked
    BY Zenon, <1>3, <1>4, <2>1 DEF Acked
  <2> QED BY Zenon, <2>2
<1>6. /\ \A u \in Threads : u # t => pc'[u] = pc[u] /\ done'[u] = done[u] /\ call'[u] = call[u]
      /\ pc'[t] \in {"room", "queued"} /\ done'[t] = "no"
  BY Zenon, <1>13 DEF Enqueue, QueueTypes
<1>7. \A u \in Threads : u # t /\ pc[u] # "idle" => Size(u)' = Size(u) /\ IsSync(u)' = IsSync(u)
  <2>1. \A u \in Threads : u # t /\ pc[u] # "idle" => call[u] \in DOMAIN calls
    BY Zenon, <1>13 DEF QueueInv
  <2> QED BY Zenon, <1>4, <1>6, <2>1 DEF Size, IsSync
<1>8. ASSUME NEW u \in Threads, pc'[u] \in Committing, NEW j \in 1..group.n
      PROVE  /\ IsSync(writers[j])' => IsSync(u)'
             /\ Size(writers[j])' > 0 => call'[writers'[j]] \in GroupCalls'
  <2>1. u # t /\ pc[u] \in Committing /\ pc[u] # "idle"
    BY Zenon, <1>6, <1>8 DEF Committing
  <2>2. j \in DOMAIN writers /\ writers'[j] = writers[j]
    <3>1. group.n \in 1..Len(writers)
      BY Zenon, <1>13, <2>1 DEF GroupInv
    <3>2. Len(writers) \in Nat /\ DOMAIN writers = 1..Len(writers)
      BY Zenon, <1>13, SeqIsFunction
    <3>3. j \in 1..Len(writers)
      BY <1>8, <3>1, <3>2
    <3>4. \A i \in 1..Len(writers) : writers'[i] = writers[i]
      BY <1>2, <1>13, Appended
    <3> QED BY Zenon, <3>2, <3>3, <3>4
  <2>3. PICK w \in Threads : w = writers[j] /\ pc[w] # "idle" /\ w # t
    <3>1. writers[j] \in Threads /\ pc[writers[j]] # "idle"
      BY SMTT(30), <1>13, <2>2 DEF QueueInv
    <3> QED BY Zenon, <1>2, <3>1
  <2>4. /\ IsSync(w)' = IsSync(w) /\ Size(w)' = Size(w)
        /\ IsSync(u)' = IsSync(u) /\ call'[w] = call[w]
        /\ GroupCalls' = GroupCalls
    BY Zenon, <1>2, <1>6, <1>7, <2>1, <2>3 DEF GroupCalls
  <2>5. (IsSync(w) => IsSync(u)) /\ (Size(w) > 0 => call[w] \in GroupCalls)
    BY Zenon, <2>1, <2>3 DEF SyncInv
  <2>6. IsSync(writers[j])' = IsSync(w)' /\ Size(writers[j])' = Size(w)'
    BY Zenon, <2>2, <2>3 DEF IsSync, Size
  <2> QED BY Zenon, <2>2, <2>3, <2>4, <2>5, <2>6
<1>9. \A u \in Threads :
         (pc'[u] = "insert" \/ (pc'[u] = "finish" /\ group'.status = "ok")) /\ IsSync(u)'
         => GroupCalls' \subseteq synced'
  <2>1. GroupCalls' = GroupCalls
    BY Zenon, <1>2 DEF GroupCalls
  <2> SUFFICES ASSUME NEW u \in Threads, IsSync(u)',
                      pc'[u] = "insert" \/ (pc'[u] = "finish" /\ group'.status = "ok")
               PROVE  GroupCalls \subseteq synced
    BY Zenon, <1>2, <2>1
  <2>2. u # t /\ pc'[u] = pc[u] /\ pc[u] # "idle" /\ IsSync(u)
    BY Zenon, <1>6, <1>7
  <2> QED BY Zenon, <1>2, <2>2 DEF SyncInv
<1>10. \A u \in Threads :
          pc'[u] # "idle" /\ done'[u] = "ok" /\ IsSync(u)' /\ Size(u)' > 0 => call'[u] \in synced'
  BY Zenon, <1>2, <1>6, <1>7 DEF SyncInv
<1>11. \A u \in Threads : pc'[u] = "flushwait" => Size(u)' = 0
  BY Zenon, <1>6, <1>7 DEF SyncInv
<1>12. SyncHonoured'
  <2>1. \A i \in Acked : i \in DOMAIN calls /\ calls'[i] = calls[i]
    BY Zenon, <1>4 DEF Acked
  <2> QED BY Zenon, <1>2, <1>5, <2>1 DEF SyncHonoured, SyncInv
<1> QED BY Zenon, <1>2, <1>8, <1>9, <1>10, <1>11, <1>12 DEF SyncInv, IsSync, Size

\* A follower returns what its leader reported of the whole group.
LEMMA SyncReturn ==
    ASSUME Shape, SyncInv, NEW t \in Threads, WakeUp(t), done[t] # "no"
    PROVE  SyncInv'
<1>1. /\ calls' = [calls EXCEPT ![call[t]].result = done[t]]
      /\ pc[t] = "queued" /\ UNCHANGED <<writers, done, group, synced>>
      /\ \A u \in Threads : /\ pc'[u] = IF u = t THEN "idle" ELSE pc[u]
                            /\ call'[u] = IF u = t THEN 0 ELSE call[u]
  BY Zenon DEF WakeUp, dataVars, Shape, TypeOK, QueueTypes
<1>2. call[t] \in DOMAIN calls
  BY Zenon, <1>1 DEF Shape, QueueInv
<1>3. /\ DOMAIN calls' = DOMAIN calls
      /\ \A i \in DOMAIN calls : /\ calls'[i].size = calls[i].size
                                 /\ calls'[i].sync = calls[i].sync
      /\ Acked' \subseteq Acked \cup {i \in {call[t]} : done[t] = "ok"}
  BY Zenon, <1>1, <1>2, ResultSet
<1>4. \A u \in Threads : u # t /\ pc[u] # "idle" => Size(u)' = Size(u) /\ IsSync(u)' = IsSync(u)
  BY Zenon, <1>1, <1>3 DEF Size, IsSync, Shape, QueueInv
<1>5. ASSUME NEW u \in Threads, pc'[u] \in Committing, NEW j \in 1..group.n
      PROVE  /\ IsSync(writers[j])' => IsSync(u)'
             /\ Size(writers[j])' > 0 => call'[writers[j]] \in GroupCalls'
  <2>1. u # t /\ pc[u] \in Committing /\ pc[u] # "idle"
    BY Zenon, <1>1, <1>5 DEF Committing
  <2>2. j \in DOMAIN writers
    <3>1. group.n \in 1..Len(writers)
      BY Zenon, <2>1 DEF Shape, GroupInv
    <3> QED BY <3>1, SeqIsFunction DEF Shape, TypeOK, QueueTypes
  <2>3. writers[j] \in Threads /\ pc[writers[j]] # "idle" /\ writers[j] # t
    BY <1>1, <2>2 DEF Shape, QueueInv, TypeOK, QueueTypes
  <2>4. /\ IsSync(writers[j])' = IsSync(writers[j]) /\ Size(writers[j])' = Size(writers[j])
        /\ IsSync(u)' = IsSync(u) /\ call'[writers[j]] = call[writers[j]]
        /\ GroupCalls' = GroupCalls
    <3>1. IsSync(writers[j])' = calls'[call'[writers[j]]].sync
          /\ Size(writers[j])' = calls'[call'[writers[j]]].size
      BY Zenon, <1>1 DEF IsSync, Size
    <3>2. call'[writers[j]] = call[writers[j]] /\ call[writers[j]] \in DOMAIN calls
      BY Zenon, <1>1, <2>3 DEF Shape, QueueInv
    <3> QED BY <1>1, <1>3, <1>4, <2>1, <2>3, <3>1, <3>2 DEF GroupCalls, IsSync, Size
  <2> QED BY Zenon, <2>1, <2>4 DEF SyncInv
<1>6. \A u \in Threads :
         (pc'[u] = "insert" \/ (pc'[u] = "finish" /\ group'.status = "ok")) /\ IsSync(u)'
         => GroupCalls' \subseteq synced'
  BY <1>1, <1>4 DEF SyncInv, GroupCalls
<1>7. \A u \in Threads :
         pc'[u] # "idle" /\ done'[u] = "ok" /\ IsSync(u)' /\ Size(u)' > 0 => call'[u] \in synced'
  BY Zenon, <1>1, <1>4 DEF SyncInv
<1>8. \A u \in Threads : pc'[u] = "flushwait" => Size(u)' = 0
  BY Zenon, <1>1, <1>4 DEF SyncInv
<1>9. SyncHonoured'
  <2> SUFFICES ASSUME NEW i \in Acked', calls'[i].sync, calls'[i].size > 0
               PROVE  i \in synced
    BY Zenon, <1>1 DEF SyncHonoured
  <2>1. CASE i \in Acked
    BY Zenon, <1>3, <2>1 DEF Acked, SyncInv, SyncHonoured
  <2>2. CASE i = call[t] /\ done[t] = "ok"
    BY Zenon, <1>1, <1>2, <1>3, <2>2 DEF IsSync, Size, SyncInv
  <2> QED BY Zenon, <1>3, <2>1, <2>2
<1> QED BY Zenon, <1>1, <1>5, <1>6, <1>7, <1>8, <1>9 DEF SyncInv, IsSync, Size

\* A step of the leader of a group only has to keep what SyncInv says of it.
LEMMA SyncLeader ==
    ASSUME Shape, SyncInv, NEW t \in Threads, pc[t] \in Leading,
           UNCHANGED <<calls, call, writers, done>>, synced \subseteq synced',
           \A u \in Threads : u # t => pc'[u] = pc[u],
           pc'[t] \in Committing,
           \A j \in 1..group'.n :
              /\ IsSync(writers[j]) => IsSync(t)
              /\ Size(writers[j]) > 0 => call[writers[j]] \in GroupCalls',
           /\ pc'[t] = "insert" \/ (pc'[t] = "finish" /\ group'.status = "ok")
           /\ IsSync(t)
           => GroupCalls' \subseteq synced'
    PROVE  SyncInv'
<1>1. \A u : Size(u)' = Size(u) /\ IsSync(u)' = IsSync(u)
  BY Zenon DEF Size, IsSync
<1>2. \A u \in Threads : u # t => pc'[u] \in {"idle", "queued"}
  BY Zenon, OneLeader DEF Shape, TypeOK, QueueTypes, Leading
<1>3. Acked' = Acked /\ SyncHonoured'
  BY Zenon DEF Acked, SyncInv, SyncHonoured
<1>4. \A u \in Threads :
         pc'[u] # "idle" /\ done'[u] = "ok" /\ IsSync(u)' /\ Size(u)' > 0 => call'[u] \in synced'
  <2>1. \A u \in Threads : pc'[u] # "idle" => pc[u] # "idle"
    BY Zenon DEF Leading
  <2> QED BY Zenon, <1>1, <2>1 DEF SyncInv
<1>5. \A u \in Threads : pc'[u] = "flushwait" => Size(u)' = 0
  BY Zenon, <1>2 DEF Committing
<1>6. \A u \in Threads : pc'[u] \in Committing =>
         \A j \in 1..group'.n :
            /\ IsSync(writers[j])' => IsSync(u)'
            /\ Size(writers[j])' > 0 => call'[writers'[j]] \in GroupCalls'
  <2>1. \A j \in 1..group'.n : IsSync(writers[j])' = IsSync(writers[j])
                               /\ Size(writers[j])' = Size(writers[j])
    BY Zenon DEF Size, IsSync
  <2> QED BY Zenon, <1>1, <1>2, <2>1 DEF Committing
<1>7. \A u \in Threads :
         (pc'[u] = "insert" \/ (pc'[u] = "finish" /\ group'.status = "ok")) /\ IsSync(u)'
         => GroupCalls' \subseteq synced'
  BY Zenon, <1>1, <1>2
<1> QED BY Zenon, <1>3, <1>4, <1>5, <1>6, <1>7 DEF SyncInv, Size, IsSync

\* The leader's own batch opens the group.
LEMMA SyncRoomEnough ==
    ASSUME Shape, SyncInv, NEW t \in Threads, RoomEnough(t), ~IsNull(t)
    PROVE  SyncInv'
<1>1. pc[t] = "room" /\ pc[t] \in Leading /\ pc[t] # "idle" /\ writers[1] = t
  BY Zenon DEF RoomEnough, InRoom, Leading, Locations, Shape, SingleLeader
<1>2. /\ UNCHANGED <<calls, call, writers, done, synced>>
      /\ pc' = [pc EXCEPT ![t] = "group"]
      /\ group' = [n |-> 1, ops |-> [j \in 1..Size(t) |-> call[t]], size |-> Size(t),
                    status |-> "ok", k |-> 0]
  BY Zenon DEF RoomEnough, dataVars, NoGroup
<1>3. Size(t) \in Nat \ {0} /\ call[t] \in Calls
  BY Zenon, <1>1, CallOf DEF IsNull
<1>4. call[t] \in GroupCalls'
  <2>1. group'.ops = [j \in 1..Size(t) |-> call[t]]
    BY Zenon, <1>2
  <2>3. 1 \in 1..Size(t)
    BY <1>3
  <2>2. 1 \in DOMAIN group'.ops /\ group'.ops[1] = call[t]
    BY Zenon, <2>1, <2>3
  <2> QED BY Zenon, <2>2 DEF GroupCalls
<1>5. group'.n = 1 /\ \A u \in Threads : pc'[u] = IF u = t THEN "group" ELSE pc[u]
  BY Zenon, <1>2 DEF Shape, TypeOK, QueueTypes
<1>6. \A j \in 1..group'.n : writers[j] = t
  <2>1. writers[1] = t
    BY Zenon, <1>1
  <2>2. \A j \in 1..1 : j = 1
    OBVIOUS
  <2> QED BY ONLY Zenon, <1>5, <2>1, <2>2
<1>7. \A j \in 1..group'.n :
         /\ IsSync(writers[j]) => IsSync(t)
         /\ Size(writers[j]) > 0 => call[writers[j]] \in GroupCalls'
  BY Zenon, <1>4, <1>6
<1>8. /\ pc'[t] = "group" /\ pc'[t] \in Committing
      /\ \A u \in Threads : u # t => pc'[u] = pc[u]
  BY Zenon, <1>5 DEF Committing
<1> QED BY Zenon, <1>1, <1>2, <1>7, <1>8, SyncLeader

\* Appending calls to a group's entries keeps the calls it holds and adds theirs.
LEMMA AppendedCalls ==
    ASSUME NEW o \in Seq(Calls), NEW c \in Seq(Calls), NEW x, NEW n \in Nat,
           Len(c) = n, \A j \in 1..n : c[j] = x
    PROVE  /\ {o[j] : j \in DOMAIN o} \subseteq {(o \o c)[j] : j \in DOMAIN (o \o c)}
           /\ n > 0 => x \in {(o \o c)[j] : j \in DOMAIN (o \o c)}
<1>1. Len(o) \in Nat /\ DOMAIN o = 1..Len(o)
  BY Zenon, SeqIsFunction
<1>2. /\ o \o c \in Seq(Calls) /\ Len(o \o c) = Len(o) + n
      /\ \A i \in 1..(Len(o) + n) :
            (o \o c)[i] = IF i <= Len(o) THEN o[i] ELSE c[i - Len(o)]
  BY Zenon, SeqConcat
<1> DEFINE q == o \o c
<1>3. DOMAIN q = 1..(Len(o) + n)
  BY Zenon, <1>2, SeqIsFunction
<1> HIDE DEF q
<1>4. \A j \in DOMAIN o : j \in DOMAIN q /\ q[j] = o[j]
  <2> TAKE j \in DOMAIN o
  <2>1. j \in 1..(Len(o) + n) /\ j <= Len(o)
    BY <1>1
  <2> QED BY Zenon, <1>2, <1>3, <2>1 DEF q
<1>5. n > 0 => Len(o) + n \in DOMAIN q /\ q[Len(o) + n] = x
  <2> HAVE n > 0
  <2>1. /\ Len(o) + n \in 1..(Len(o) + n) /\ ~(Len(o) + n <= Len(o))
        /\ (Len(o) + n) - Len(o) = n /\ n \in 1..n
    BY <1>1
  <2>2. q[Len(o) + n] = c[(Len(o) + n) - Len(o)]
    BY Zenon, <1>2, <2>1 DEF q
  <2>3. c[(Len(o) + n) - Len(o)] = c[n]
    BY Zenon, <2>1
  <2> QED BY Zenon, <1>3, <2>1, <2>2, <2>3
<1>6. /\ {o[j] : j \in DOMAIN o} \subseteq {q[j] : j \in DOMAIN q}
      /\ n > 0 => x \in {q[j] : j \in DOMAIN q}
  BY Zenon, <1>4, <1>5
<1> QED BY Zenon, <1>6 DEF q

\* A writer that joins the group is no more sync than its leader.
LEMMA SyncAbsorb ==
    ASSUME Shape, SyncInv, NEW t \in Threads, GroupAbsorb(t)
    PROVE  SyncInv'
<1>10. /\ QueueTypes /\ QueueInv /\ GroupInv /\ LeaderTypes
       /\ writers \in Seq(Threads) /\ Len(writers) \in Nat /\ DOMAIN writers = 1..Len(writers)
  BY Zenon, SeqIsFunction DEF Shape, TypeOK, QueueTypes
<1> DEFINE f == writers[group.n + 1]
           c == [j \in 1..Size(f) |-> call[f]]
<1>1. /\ pc[t] = "group" /\ pc[t] \in Leading /\ pc' = pc
      /\ UNCHANGED <<calls, call, writers, done, synced>>
  BY Zenon DEF GroupAbsorb, dataVars, Leading, Locations
<1>2. /\ group.n \in 1..Len(writers) /\ group.n < Len(writers)
      /\ group.ops \in Seq(Calls)
      /\ IsSync(f) => IsSync(t)
  BY Zenon, <1>1, <1>10 DEF GroupAbsorb, Joins, Follower, GroupInv, Committing, LeaderTypes
<1>3. f \in Threads /\ pc[f] # "idle"
  <2>1. group.n + 1 \in DOMAIN writers
    BY <1>2, <1>10
  <2>2. f \in Threads
    BY <1>10, <2>1 DEF f
  <2>3. pc[f] # "idle"
    BY Zenon, <1>10, <2>1 DEF QueueInv, f
  <2> QED
    BY Zenon, <2>2, <2>3
<1>4. Size(f) \in Nat /\ call[f] \in Calls
  BY Zenon, <1>3, CallOf
<1>5. /\ group' = [group EXCEPT !.n = group.n + 1, !.size = group.size + Size(f),
                                !.ops = group.ops \o c]
  BY Zenon DEF GroupAbsorb, Follower
<1>6. c \in Seq(Calls) /\ Len(c) = Size(f) /\ \A j \in 1..Size(f) : c[j] = call[f]
  BY Zenon, <1>4, ConstantSeq
<1> HIDE DEF f, c
<1>7. group'.n = group.n + 1 /\ group'.ops = group.ops \o c
  BY Zenon, <1>5, <1>10 DEF LeaderTypes
<1>8. GroupCalls \subseteq GroupCalls' /\ (Size(f) > 0 => call[f] \in GroupCalls')
  <2>1. /\ {group.ops[j] : j \in DOMAIN group.ops}
             \subseteq {(group.ops \o c)[j] : j \in DOMAIN (group.ops \o c)}
        /\ Size(f) > 0 => call[f] \in {(group.ops \o c)[j] : j \in DOMAIN (group.ops \o c)}
    BY Zenon, <1>2, <1>4, <1>6, AppendedCalls
  <2>2. GroupCalls' = {(group.ops \o c)[j] : j \in DOMAIN (group.ops \o c)}
    BY Zenon, <1>7 DEF GroupCalls
  <2> QED BY Zenon, <2>1, <2>2 DEF GroupCalls
<1>9. \A j \in 1..group'.n :
          /\ IsSync(writers[j]) => IsSync(t)
          /\ Size(writers[j]) > 0 => call[writers[j]] \in GroupCalls'
  <2> TAKE j \in 1..group'.n
  <2>1. CASE j \in 1..group.n
    BY Zenon, <1>1, <1>8, <2>1 DEF SyncInv, Committing
  <2>2. CASE j = group.n + 1
    <3>1. writers[j] = f
      BY Zenon, <2>2 DEF f
    <3> QED BY Zenon, <1>2, <1>8, <3>1
  <2>3. j \in 1..(group.n + 1) /\ group.n \in Nat
    BY <1>2, <1>7
  <2>4. j \in 1..group.n \/ j = group.n + 1
    BY <2>3
  <2> QED BY Zenon, <2>1, <2>2, <2>4
<1> QED BY Zenon, <1>1, <1>9, SyncLeader DEF Committing

\* The record, the fsync and the insertions of a group.
LEMMA SyncCommit ==
    ASSUME Shape, DataInv, SyncInv, NEW t \in Threads, NEW ok \in BOOLEAN,
           AddRecord(t, ok) \/ SyncLog(t, ok) \/ InsertInto(t)
    PROVE  SyncInv'
<1>1. /\ pc[t] \in Leading /\ pc[t] \in Committing /\ pc'[t] \in Committing
      /\ \A u \in Threads : u # t => pc'[u] = pc[u]
      /\ UNCHANGED <<calls, call, writers, done>>
  BY Zenon DEF AddRecord, SyncLog, InsertInto, AfterAddRecord, Leading, Locations, Committing,
         Shape, TypeOK, QueueTypes
<1>2. group'.n = group.n /\ group'.ops = group.ops
  BY Zenon DEF AddRecord, SyncLog, InsertInto, Shape, TypeOK, LeaderTypes
<1>3. GroupCalls' = GroupCalls
  BY Zenon, <1>2 DEF GroupCalls
<1>4. synced \subseteq synced'
  BY Zenon DEF AddRecord, SyncLog, InsertInto
<1>5. \A j \in 1..group'.n :
         /\ IsSync(writers[j]) => IsSync(t)
         /\ Size(writers[j]) > 0 => call[writers[j]] \in GroupCalls'
  BY Zenon, <1>1, <1>2, <1>3 DEF SyncInv
<1>6. ASSUME pc'[t] = "insert" \/ (pc'[t] = "finish" /\ group'.status = "ok"), IsSync(t)
      PROVE  GroupCalls' \subseteq synced'
  <2>1. CASE AddRecord(t, ok)
    <3>1. pc'[t] = AfterAddRecord(t, ok) /\ group'.status = AddStatus(ok)
      BY Zenon, <2>1 DEF AddRecord, Shape, TypeOK, QueueTypes, LeaderTypes
    <3> QED BY Zenon, <1>6, <3>1 DEF AfterAddRecord, AddStatus
  <2>2. CASE SyncLog(t, ok)
    <3>1. /\ pc'[t] = IF ok THEN "insert" ELSE "finish"
          /\ group'.status = IF ok THEN "ok" ELSE "syncerr"
      BY Zenon, <2>2 DEF SyncLog, Shape, TypeOK, QueueTypes, LeaderTypes
    <3>2. ok
      BY Zenon, <1>6, <3>1
    <3>3. GroupCalls \subseteq log /\ log \subseteq synced'
      BY Zenon, <2>2, <3>2 DEF SyncLog, DataInv
    <3> QED BY Zenon, <1>3, <3>3
  <2>3. CASE InsertInto(t)
    <3>1. pc[t] = "insert" /\ synced' = synced
      BY Zenon, <2>3 DEF InsertInto
    <3> QED BY Zenon, <1>3, <1>6, <3>1 DEF SyncInv
  <2> QED BY Zenon, <2>1, <2>2, <2>3
<1> QED BY Zenon, <1>1, <1>4, <1>5, <1>6, SyncLeader

\* The group leaves with the status of its leader.
LEMMA SyncFinish ==
    ASSUME Shape, SyncInv, NEW t \in Threads, Finish(t)
    PROVE  SyncInv'
<1> DEFINE s == IF group.status = "ok" THEN "ok" ELSE "err"
<1>1. /\ pc[t] = "finish" /\ pc[t] \in Leading /\ synced' = synced
      /\ Leave(t, group.n, s) /\ s \in {"ok", "err"}
  BY Zenon DEF Finish, Leading, Locations
<1>2. group.n \in 1..Len(writers)
  BY Zenon, <1>1 DEF Shape, GroupInv, Committing
<1>3. s = "ok" => \A j \in 1..group.n : IsSync(writers[j]) /\ Size(writers[j]) > 0 =>
                    call[writers[j]] \in synced
  BY Zenon, <1>1 DEF SyncInv, Committing
<1> HIDE DEF s
<1> QED BY Zenon, <1>1, <1>2, <1>3, SyncLeave

\* Every step keeps the sync invariant.
LEMMA SyncStep == Shape /\ DataInv /\ SyncInv /\ [Next]_vars => SyncInv'
<1> SUFFICES ASSUME Shape, DataInv, SyncInv, [Next]_vars PROVE SyncInv'
  BY Zenon
<1>1. ASSUME NEW t \in Threads, FlushWaited(t) PROVE SyncInv'
  <2>1. \/ pc' = pc /\ calls' = calls
        \/ \E s \in {"ok", "err"} : Leave(t, 1, s)
    BY Zenon, <1>1 DEF FlushWaited
  <2> QED BY Zenon, <1>1, <2>1, SyncStill, SyncLeaveAlone
<1>2. ASSUME NEW t \in Threads, RoomEnough(t) PROVE SyncInv'
  BY Zenon, <1>2, SyncStill, SyncLeaveAlone, SyncRoomEnough
<1>3. ASSUME NEW t \in Threads, WakeUp(t) PROVE SyncInv'
  BY Zenon, <1>3, SyncStill, SyncReturn
<1>4. ASSUME NEW t \in Threads, Client(t) PROVE SyncInv'
  BY Zenon, <1>1, <1>2, <1>3, <1>4, SyncStill, SyncLeaveAlone, SyncAbsorb, SyncCommit, SyncFinish
     DEF Client
<1>5. CASE UNCHANGED vars \/ Background \/ Close
  <2>1. UNCHANGED <<calls, call, writers, done, synced, group, pc>>
    BY Zenon, <1>5 DEF vars, writeVars, dataVars, Background, BgStart, BgBuild, BgApply, BgRemove,
                BgCompactImm, BgCompacted, BgInstall, Close
  <2> QED BY Zenon, <2>1, SyncUnchanged DEF SyncInv
<1> QED BY Zenon, <1>4, <1>5, SyncStill, SyncEnqueue DEF Next

\* Nothing is acknowledged at the start.
LEMMA SyncInit == Init => SyncInv
<1> SUFFICES ASSUME Init PROVE SyncInv
  BY Zenon
<1>1. \A t \in Threads : pc[t] = "idle"
  BY Zenon DEF Init
<1>2. Acked = {}
  BY SeqEmpty DEF Init, Acked
<1> QED BY Zenon, <1>1, <1>2 DEF SyncInv, SyncHonoured, Committing

\* A call with options.sync that returned OK was covered by an fsync.
THEOREM SyncIsHonoured == Spec => []SyncHonoured
<1>1. SyncInv => SyncHonoured
  BY Zenon DEF SyncInv
<1> QED BY <1>1, ShapeInit, ShapeStep, DataInit, DataStep, SyncInit, SyncStep, PTL DEF Spec

=============================================================================
