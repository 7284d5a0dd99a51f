----------------------------- MODULE WritePath -----------------------------
(***************************************************************************)
(* DBImpl's write path (src/src/db/db_impl.cc): the queue of writers, the  *)
(* group commit, MakeRoomForWrite with its waits, the switch of log and    *)
(* memtable, and the one background thread that flushes imm_ and compacts  *)
(* level 0.                                                                *)
(*                                                                         *)
(* Everything DBImpl does while it holds mutex_ without waiting is one     *)
(* action, guarded by mutex = NoThread.  Only the loops of                 *)
(* MakeRoomForWrite and BuildBatchGroup take several actions with the      *)
(* mutex held; there mutex names the thread that holds it.  The code that  *)
(* runs unlocked (AddRecord, Sync, InsertInto entry by entry, BuildTable,  *)
(* the MANIFEST write, file removal, the merge loop) is split into         *)
(* actions other threads interleave with.  Condition variables are wait    *)
(* sets, with spurious wakeups.                                            *)
(*                                                                         *)
(* Abstractions: a batch is its number of entries, 0 standing for the null *)
(* batch that forces a flush; an entry is its sequence number and the call *)
(* that wrote it; sizes count entries.  Compactions are those of level 0,  *)
(* the only ones MakeRoomForWrite waits for.  A failed AddRecord leaves    *)
(* nothing in the log.                                                     *)
(*                                                                         *)
(* A definition named Mut... is a plausible mistake in the definition that *)
(* follows it; the mutation runs put it in that definition's place.        *)
(***************************************************************************)
EXTENDS Naturals, Sequences, FiniteSets

CONSTANTS Threads,       \* client threads calling DBImpl::Write
          NoThread,      \* mutex_ is free
          MaxCalls,      \* bound: number of calls of Write
          BatchSizes,    \* entries of a batch (0: Write(options, nullptr))
          WriteBuffer,   \* options_.write_buffer_size
          SmallBatch,    \* 128 << 10 in BuildBatchGroup
          LargeGroup,    \* 1 << 20 in BuildBatchGroup
          L0Compaction,  \* config::kL0_CompactionTrigger
          L0Slowdown,    \* config::kL0SlowdownWritesTrigger
          L0Stop         \* config::kL0_StopWritesTrigger

ASSUME ConstantsAssumption ==
    /\ NoThread \notin Threads
    /\ MaxCalls \in Nat
    /\ BatchSizes \subseteq Nat
    /\ {WriteBuffer, SmallBatch, LargeGroup, L0Compaction, L0Slowdown, L0Stop}
         \subseteq Nat
    /\ 0 < L0Compaction
    /\ L0Compaction <= L0Slowdown
    /\ L0Slowdown <= L0Stop

VARIABLES
    mutex,     \* holder of mutex_ between two actions, or NoThread
    calls,     \* calls of Write so far: [size, sync, result, acked]
    pc,        \* where each client thread is
    call,      \* the call a thread is executing
    writers,   \* writers_, the queue of Writers (by thread)
    done,      \* Writer::done and Writer::status, set by the group's leader
    cvWait,    \* threads blocked in their Writer::cv
    bgWait,    \* threads blocked in background_work_finished_signal_
    room,      \* locals of MakeRoomForWrite: [force, delay]
    group,     \* BuildBatchGroup's result and the leader's progress
    log,       \* calls whose record is in the current log file
    immLog,    \* calls whose record is in the log file of imm_
    synced,    \* calls whose record an fsync of its file has covered
    mem,       \* entries of mem_
    imm,       \* entries of imm_
    hasImm,    \* imm_ != nullptr
    tables,    \* entries in table files of the current version
    lastSeq,   \* VersionSet::last_sequence_
    l0,        \* number of level-0 files of the current version
    scheduled, \* background_compaction_scheduled_
    bgpc,      \* where the background thread is
    inputs,    \* level-0 inputs of the compaction in progress (0: none)
    bgError,   \* ~bg_error_.Ok()
    shutting   \* shutting_down_

writeVars == <<calls, pc, call, writers, done, room, group>>
dataVars  == <<log, immLog, synced, mem, imm, hasImm, tables, lastSeq>>
bgVars    == <<l0, scheduled, bgpc, inputs, bgError, shutting>>
vars == <<mutex, cvWait, bgWait, writeVars, dataVars, bgVars>>

Calls == 1..MaxCalls
Entry == [seq : Nat, id : Calls]
Call == [size : Nat, sync : BOOLEAN, result : {"none", "ok", "err"},
         acked : SUBSET Calls]
NoGroup == [n |-> 0, ops |-> <<>>, size |-> 0, status |-> "ok", k |-> 0]

Locations == {"idle", "queued", "room", "sleep", "roomwait", "group",
              "log", "sync", "insert", "finish", "flushwait"}
BgLocations == {"idle", "build", "apply", "remove", "compact", "install"}

\* The locations of the thread at the front of the queue that is past the
\* wait for its turn.
Leading == Locations \ {"idle", "queued"}

Init ==
    /\ mutex = NoThread
    /\ calls = <<>>
    /\ pc = [t \in Threads |-> "idle"]
    /\ call = [t \in Threads |-> 0]
    /\ writers = <<>>
    /\ done = [t \in Threads |-> "no"]
    /\ cvWait = {} /\ bgWait = {}
    /\ room = [force |-> FALSE, delay |-> FALSE]
    /\ group = NoGroup
    /\ log = {} /\ immLog = {} /\ synced = {}
    /\ mem = {} /\ imm = {} /\ hasImm = FALSE /\ tables = {}
    /\ lastSeq = 0 /\ l0 = 0
    /\ scheduled = FALSE /\ bgpc = "idle" /\ inputs = 0
    /\ bgError = FALSE /\ shutting = FALSE

-----------------------------------------------------------------------------
(* Helpers *)

Size(t) == calls[call[t]].size
IsSync(t) == calls[call[t]].sync
IsNull(t) == Size(t) = 0

Acked == {i \in DOMAIN calls : calls[i].result = "ok"}

\* MaybeScheduleCompaction: whether a background call is scheduled
\* afterwards, given what the caller has just assigned.
Schedule(sched, hasImm_, l0_, err) ==
    sched \/ (~shutting /\ ~err /\ (hasImm_ \/ l0_ >= L0Compaction))

\* The writer signalled when a group has left: the new front of the queue.
MutNoNewFront(rest) == {}
NewFront(rest) == IF rest = <<>> THEN {} ELSE {rest[1]}

\* The end of Write: the leader pops the n writers of its group, hands its
\* status to the others, signals them, and signals the new front.
\* A follower's call returns when it wakes up (WakeUp).
Leave(t, n, status) ==
    LET popped == {writers[j] : j \in 2..n}
        rest == SubSeq(writers, n + 1, Len(writers))
    IN  /\ writers' = rest
        /\ done' = [u \in Threads |-> IF u \in popped THEN status ELSE done[u]]
        /\ cvWait' = cvWait \ (popped \cup NewFront(rest))
        /\ calls' = [calls EXCEPT ![call[t]].result = status]
        /\ pc' = [pc EXCEPT ![t] = "idle"]
        /\ call' = [call EXCEPT ![t] = 0]
        /\ mutex' = NoThread

\* A thread whose turn it is enters MakeRoomForWrite with the mutex held.
Lead(t, size) ==
    /\ mutex' = t
    /\ room' = [force |-> size = 0, delay |-> size # 0]

-----------------------------------------------------------------------------
(* The client threads *)

\* DBImpl::Write up to the first wait.
Enqueue(t, size, sync) ==
    /\ mutex = NoThread /\ pc[t] = "idle" /\ ~shutting
    /\ Len(calls) < MaxCalls
    /\ calls' = Append(calls, [size |-> size, sync |-> sync, result |-> "none",
                               acked |-> IF size = 0 THEN Acked ELSE {}])
    /\ call' = [call EXCEPT ![t] = Len(calls) + 1]
    /\ writers' = Append(writers, t)
    /\ done' = [done EXCEPT ![t] = "no"]
    /\ IF writers = <<>>
         THEN /\ Lead(t, size)
              /\ pc' = [pc EXCEPT ![t] = "room"]
              /\ UNCHANGED cvWait
         ELSE /\ pc' = [pc EXCEPT ![t] = "queued"]
              /\ cvWait' = cvWait \cup {t}
              /\ UNCHANGED <<mutex, room>>
    /\ UNCHANGED <<bgWait, group, dataVars, bgVars>>

\* The condition of the loop around writer.cv.Wait() for a thread not yet done.
MutAlwaysMyTurn(t) == TRUE
MyTurn(t) == writers[1] = t

\* The loop around writer.cv.Wait(): return, take the lead or wait again.
WakeUp(t) ==
    /\ mutex = NoThread /\ pc[t] = "queued" /\ t \notin cvWait
    /\ \/ /\ done[t] # "no"
          /\ calls' = [calls EXCEPT ![call[t]].result = done[t]]
          /\ pc' = [pc EXCEPT ![t] = "idle"]
          /\ call' = [call EXCEPT ![t] = 0]
          /\ UNCHANGED <<mutex, room, cvWait>>
       \/ /\ done[t] = "no" /\ MyTurn(t)
          /\ Lead(t, Size(t))
          /\ pc' = [pc EXCEPT ![t] = "room"]
          /\ UNCHANGED <<calls, call, cvWait>>
       \/ /\ done[t] = "no" /\ ~MyTurn(t)
          /\ cvWait' = cvWait \cup {t}
          /\ UNCHANGED <<calls, call, pc, mutex, room>>
    /\ UNCHANGED <<bgWait, writers, done, group, dataVars, bgVars>>

\* std::condition_variable::wait may return without a signal.
SpuriousWakeup(t) ==
    /\ t \in cvWait \cup bgWait
    /\ cvWait' = cvWait \ {t}
    /\ bgWait' = bgWait \ {t}
    /\ UNCHANGED <<mutex, writeVars, dataVars, bgVars>>

-----------------------------------------------------------------------------
(* MakeRoomForWrite: one action per branch of its loop, in the code's order *)

InRoom(t) == mutex = t /\ pc[t] = "room"
Delayed == room.delay /\ l0 >= L0Slowdown
Enough == ~room.force /\ Cardinality(mem) <= WriteBuffer
MutMustWaitForImm == hasImm
MustWait == hasImm \/ l0 >= L0Stop

\* The background error ends the write; only the leader is popped.
RoomError(t) ==
    /\ InRoom(t) /\ bgError
    /\ Leave(t, 1, "err")
    /\ UNCHANGED <<bgWait, room, group, dataVars, bgVars>>

\* SleepForMicroseconds with the mutex released, once per write.
RoomDelay(t) ==
    /\ InRoom(t) /\ ~bgError /\ Delayed
    /\ mutex' = NoThread
    /\ pc' = [pc EXCEPT ![t] = "sleep"]
    /\ UNCHANGED <<cvWait, bgWait, calls, call, writers, done, room, group,
                   dataVars, bgVars>>

RoomDelayed(t) ==
    /\ mutex = NoThread /\ pc[t] = "sleep"
    /\ mutex' = t
    /\ room' = [room EXCEPT !.delay = FALSE]
    /\ pc' = [pc EXCEPT ![t] = "room"]
    /\ UNCHANGED <<cvWait, bgWait, calls, call, writers, done, group, dataVars,
                   bgVars>>

\* Room in mem_: a batch goes on to BuildBatchGroup (group holds the leader's
\* own batch), a null batch waits until imm_ is flushed.
RoomEnough(t) ==
    /\ InRoom(t) /\ ~bgError /\ ~Delayed /\ Enough
    /\ \/ /\ ~IsNull(t)
          /\ pc' = [pc EXCEPT ![t] = "group"]
          /\ group' = [NoGroup EXCEPT !.n = 1, !.size = Size(t),
                                      !.ops = [j \in 1..Size(t) |-> call[t]]]
          /\ UNCHANGED <<mutex, cvWait, bgWait, calls, call, writers, done>>
       \/ /\ IsNull(t) /\ hasImm
          /\ pc' = [pc EXCEPT ![t] = "flushwait"]
          /\ bgWait' = bgWait \cup {t}
          /\ mutex' = NoThread
          /\ UNCHANGED <<cvWait, calls, call, writers, done, group>>
       \/ /\ IsNull(t) /\ ~hasImm
          /\ Leave(t, 1, "ok")
          /\ UNCHANGED <<bgWait, group>>
    /\ UNCHANGED <<room, dataVars, bgVars>>

\* Wait for the background thread: imm_ is still there, or level 0 is full.
RoomWait(t) ==
    /\ InRoom(t) /\ ~bgError /\ ~Delayed /\ ~Enough /\ MustWait
    /\ mutex' = NoThread
    /\ bgWait' = bgWait \cup {t}
    /\ pc' = [pc EXCEPT ![t] = "roomwait"]
    /\ UNCHANGED <<cvWait, calls, call, writers, done, room, group, dataVars,
                   bgVars>>

RoomWaited(t) ==
    /\ mutex = NoThread /\ pc[t] = "roomwait" /\ t \notin bgWait
    /\ mutex' = t
    /\ pc' = [pc EXCEPT ![t] = "room"]
    /\ UNCHANGED <<cvWait, bgWait, calls, call, writers, done, room, group,
                   dataVars, bgVars>>

\* A new log file and a new memtable; closed says whether the old log file
\* closes without an error (an error is recorded, the switch goes on).
RoomSwitch(t, closed) ==
    /\ InRoom(t) /\ ~bgError /\ ~Delayed /\ ~Enough /\ ~MustWait
    /\ log' = {} /\ immLog' = log
    /\ mem' = {} /\ imm' = mem /\ hasImm' = TRUE
    /\ room' = [room EXCEPT !.force = FALSE]
    /\ bgError' = ~closed
    /\ bgWait' = IF closed THEN bgWait ELSE {}
    /\ scheduled' = Schedule(scheduled, TRUE, l0, ~closed)
    /\ UNCHANGED <<mutex, cvWait, calls, pc, call, writers, done, group, synced,
                   tables, lastSeq, l0, bgpc, inputs, shutting>>

\* NewWritableFile fails: the write fails, nothing is switched.
RoomSwitchFails(t) ==
    /\ InRoom(t) /\ ~bgError /\ ~Delayed /\ ~Enough /\ ~MustWait
    /\ Leave(t, 1, "err")
    /\ UNCHANGED <<bgWait, room, group, dataVars, bgVars>>

\* The end of a null batch's wait for imm_.
FlushWaited(t) ==
    /\ mutex = NoThread /\ pc[t] = "flushwait" /\ t \notin bgWait
    /\ \/ /\ hasImm /\ ~bgError /\ ~shutting
          /\ bgWait' = bgWait \cup {t}
          /\ UNCHANGED <<mutex, cvWait, calls, pc, call, writers, done>>
       \/ /\ ~hasImm \/ bgError \/ shutting
          /\ Leave(t, 1, IF hasImm /\ bgError THEN "err" ELSE "ok")
          /\ UNCHANGED bgWait
    /\ UNCHANGED <<room, group, dataVars, bgVars>>

-----------------------------------------------------------------------------
(* BuildBatchGroup, and the leader's unlocked work *)

Follower == writers[group.n + 1]
MaxGroup(size) == IF size <= SmallBatch THEN size + SmallBatch ELSE LargeGroup

MutJoinsAnySync(t) ==
    /\ group.n < Len(writers)
    /\ IsNull(Follower) \/ group.size + Size(Follower) <= MaxGroup(Size(t))

\* The loop goes on to the next writer: a sync writer does not join a
\* non-sync leader, a null batch always fits.
Joins(t) ==
    /\ group.n < Len(writers)
    /\ ~(IsSync(Follower) /\ ~IsSync(t))
    /\ IsNull(Follower) \/ group.size + Size(Follower) <= MaxGroup(Size(t))

GroupAbsorb(t) ==
    /\ mutex = t /\ pc[t] = "group" /\ Joins(t)
    /\ group' = [group EXCEPT
                   !.n = @ + 1,
                   !.size = @ + Size(Follower),
                   !.ops = @ \o [j \in 1..Size(Follower) |-> call[Follower]]]
    /\ UNCHANGED <<mutex, cvWait, bgWait, calls, pc, call, writers, done, room,
                   dataVars, bgVars>>

GroupDone(t) ==
    /\ mutex = t /\ pc[t] = "group" /\ ~Joins(t)
    /\ mutex' = NoThread
    /\ pc' = [pc EXCEPT ![t] = "log"]
    /\ UNCHANGED <<cvWait, bgWait, calls, call, writers, done, room, group,
                   dataVars, bgVars>>

GroupCalls == {group.ops[j] : j \in DOMAIN group.ops}

\* What the leader does next, and the status of the group, after AddRecord:
\* the sync and the insertion happen only after a success.
MutInsertAnyway(t, ok) == IF IsSync(t) /\ ok THEN "sync" ELSE "insert"
AfterAddRecord(t, ok) ==
    IF ~ok THEN "finish" ELSE IF IsSync(t) THEN "sync" ELSE "insert"
MutLostStatus(ok) == "ok"
AddStatus(ok) == IF ok THEN "ok" ELSE "err"

\* log_->AddRecord of the whole group.
AddRecord(t, ok) ==
    /\ pc[t] = "log"
    /\ log' = IF ok THEN log \cup GroupCalls ELSE log
    /\ group' = [group EXCEPT !.status = AddStatus(ok)]
    /\ pc' = [pc EXCEPT ![t] = AfterAddRecord(t, ok)]
    /\ UNCHANGED <<mutex, cvWait, bgWait, calls, call, writers, done, room, immLog,
                   synced, mem, imm, hasImm, tables, lastSeq, bgVars>>

\* logfile_->Sync() covers every record of the current log file.
SyncLog(t, ok) ==
    /\ pc[t] = "sync"
    /\ synced' = IF ok THEN synced \cup log ELSE synced
    /\ group' = [group EXCEPT !.status = IF ok THEN "ok" ELSE "syncerr"]
    /\ pc' = [pc EXCEPT ![t] = IF ok THEN "insert" ELSE "finish"]
    /\ UNCHANGED <<mutex, cvWait, bgWait, calls, call, writers, done, room, log,
                   immLog, mem, imm, hasImm, tables, lastSeq, bgVars>>

\* SetSequence: the sequence number of the group's first entry; Count: how far
\* LastSequence() advances over the group.
MutFirstSequenceTooLow == lastSeq
FirstSequence == lastSeq + 1
MutCountOfWriters == group.n
GroupCount == Len(group.ops)

\* InsertInto adds the entries one by one, in the order of the group.
InsertInto(t) ==
    /\ pc[t] = "insert"
    /\ mem' = mem \cup {[seq |-> FirstSequence + group.k,
                         id |-> group.ops[group.k + 1]]}
    /\ group' = [group EXCEPT !.k = @ + 1]
    /\ pc' = [pc EXCEPT ![t] = IF group.k + 1 = Len(group.ops)
                                 THEN "finish" ELSE "insert"]
    /\ UNCHANGED <<mutex, cvWait, bgWait, calls, call, writers, done, room, log,
                   immLog, synced, imm, hasImm, tables, lastSeq, bgVars>>

\* Back under the mutex: a failed sync is recorded, LastSequence() advances
\* over the group whether or not the write succeeded, the group leaves.
Finish(t) ==
    /\ mutex = NoThread /\ pc[t] = "finish"
    /\ bgError' = (bgError \/ group.status = "syncerr")
    /\ bgWait' = IF group.status = "syncerr" /\ ~bgError THEN {} ELSE bgWait
    /\ lastSeq' = lastSeq + GroupCount
    /\ group' = NoGroup
    /\ Leave(t, group.n, IF group.status = "ok" THEN "ok" ELSE "err")
    /\ UNCHANGED <<room, log, immLog, synced, mem, imm, hasImm, tables, l0,
                   scheduled, bgpc, inputs, shutting>>

-----------------------------------------------------------------------------
(* The background thread *)

MutBgReturnForgetful(hasImm_, l0_, err) ==
    /\ bgpc' = "idle"
    /\ inputs' = 0
    /\ scheduled' = FALSE
    /\ bgWait' = {}

MutBgReturnStillScheduled(hasImm_, l0_, err) ==
    /\ bgpc' = "idle"
    /\ inputs' = 0
    /\ scheduled' = (shutting \/ Schedule(FALSE, hasImm_, l0_, err))
    /\ bgWait' = {}

\* The end of BackgroundCall: reschedule if there is work, signal everyone.
BgReturn(hasImm_, l0_, err) ==
    /\ bgpc' = "idle"
    /\ inputs' = 0
    /\ scheduled' = Schedule(FALSE, hasImm_, l0_, err)
    /\ bgWait' = {}

\* The end of CompactMemTable: back into the merge loop of DoCompactionWork,
\* which signals everyone, or to the end of the background call.
BgResume(hasImm_, l0_, err) ==
    \/ /\ inputs > 0
       /\ bgpc' = "compact"
       /\ bgWait' = {}
       /\ UNCHANGED <<inputs, scheduled>>
    \/ /\ inputs = 0
       /\ BgReturn(hasImm_, l0_, err)

\* BackgroundCall and the choice BackgroundCompaction makes.
BgStart ==
    /\ mutex = NoThread /\ scheduled /\ bgpc = "idle"
    /\ \/ /\ shutting \/ bgError
          /\ BgReturn(hasImm, l0, bgError)
       \/ /\ ~shutting /\ ~bgError /\ hasImm
          /\ bgpc' = "build"
          /\ UNCHANGED <<bgWait, inputs, scheduled>>
       \/ /\ ~shutting /\ ~bgError /\ ~hasImm /\ l0 >= L0Compaction
          /\ bgpc' = "compact"
          /\ inputs' = l0
          /\ UNCHANGED <<bgWait, scheduled>>
       \/ /\ ~shutting /\ ~bgError /\ ~hasImm /\ l0 < L0Compaction
          /\ BgReturn(hasImm, l0, bgError)
    /\ UNCHANGED <<mutex, cvWait, writeVars, dataVars, l0, bgError, shutting>>

\* WriteLevel0Table: BuildTable ran unlocked.
BgBuild(ok) ==
    /\ mutex = NoThread /\ bgpc = "build"
    /\ bgError' = (bgError \/ ~ok)
    /\ \/ /\ ok
          /\ bgpc' = "apply"
          /\ UNCHANGED <<bgWait, inputs, scheduled>>
       \/ /\ ~ok
          /\ BgResume(hasImm, l0, TRUE)
    /\ UNCHANGED <<mutex, cvWait, writeVars, dataVars, l0, shutting>>

\* imm_ after LogAndApply: dropped only when the edit was applied.
MutImmDropped(ok) == {}
ImmKept(ok) == IF ok THEN {} ELSE imm

\* The rest of CompactMemTable after the MANIFEST write: the table of a
\* non-empty imm_ joins level 0 or, as PickLevelForMemTableOutput decides, a
\* deeper level.  RemoveObsoleteFiles returns at once after an error.
BgApply(ok) ==
    /\ mutex = NoThread /\ bgpc = "apply"
    /\ bgError' = (bgError \/ ~ok)
    /\ \/ /\ ok
          /\ tables' = tables \cup imm
          /\ immLog' = {} /\ hasImm' = FALSE
          /\ l0' \in IF imm = {} THEN {l0} ELSE {l0, l0 + 1}
          /\ \/ /\ ~bgError
                /\ bgpc' = "remove"
                /\ UNCHANGED <<bgWait, inputs, scheduled>>
             \/ /\ bgError
                /\ BgResume(FALSE, l0', TRUE)
       \/ /\ ~ok
          /\ BgResume(hasImm, l0, TRUE)
          /\ UNCHANGED <<tables, immLog, hasImm, l0>>
    /\ imm' = ImmKept(ok)
    /\ UNCHANGED <<mutex, cvWait, writeVars, log, synced, mem, lastSeq, shutting>>

\* RemoveObsoleteFiles has the mutex again.
BgRemove ==
    /\ mutex = NoThread /\ bgpc = "remove"
    /\ BgResume(hasImm, l0, bgError)
    /\ UNCHANGED <<mutex, cvWait, writeVars, dataVars, l0, bgError, shutting>>

\* DoCompactionWork sees has_imm_ between two keys.
BgCompactImm ==
    /\ mutex = NoThread /\ bgpc = "compact" /\ hasImm /\ ~shutting
    /\ bgpc' = "build"
    /\ UNCHANGED <<mutex, cvWait, bgWait, writeVars, dataVars, l0, scheduled,
                   inputs, bgError, shutting>>

\* The end of the merge loop; shutting down makes it an error.
BgCompacted(ok) ==
    /\ mutex = NoThread /\ bgpc = "compact"
    /\ ok => ~shutting
    /\ bgError' = (bgError \/ ~ok)
    /\ \/ /\ ok
          /\ bgpc' = "install"
          /\ UNCHANGED <<bgWait, inputs, scheduled>>
       \/ /\ ~ok
          /\ BgReturn(hasImm, l0, TRUE)
    /\ UNCHANGED <<mutex, cvWait, writeVars, dataVars, l0, shutting>>

\* How many of the inputs leave level 0 (the inputs of a compaction of level 0
\* are a non-empty set of its files).
MutRemovedTwice == 1..(inputs + 1)
Removed == 1..inputs

\* InstallCompactionResults: some of the level-0 inputs, at least one, leave
\* level 0; then RemoveObsoleteFiles.
BgInstall(ok) ==
    /\ mutex = NoThread /\ bgpc = "install"
    /\ bgError' = (bgError \/ ~ok)
    /\ l0' \in IF ok THEN {l0 - k : k \in Removed} ELSE {l0}
    /\ \/ /\ ok /\ ~bgError
          /\ bgpc' = "remove" /\ inputs' = 0
          /\ UNCHANGED <<bgWait, scheduled>>
       \/ /\ ~ok \/ bgError
          /\ BgReturn(hasImm, l0', TRUE)
    /\ UNCHANGED <<mutex, cvWait, writeVars, dataVars, shutting>>

\* ~DBImpl, called when no client is inside the database; the wait for the
\* background call is the property CloseReturns.
Close ==
    /\ mutex = NoThread /\ ~shutting
    /\ \A t \in Threads : pc[t] = "idle"
    /\ shutting' = TRUE
    /\ UNCHANGED <<mutex, cvWait, bgWait, writeVars, dataVars, l0, scheduled,
                   bgpc, inputs, bgError>>

-----------------------------------------------------------------------------
Client(t) ==
    \/ WakeUp(t)
    \/ RoomError(t) \/ RoomDelay(t) \/ RoomDelayed(t) \/ RoomEnough(t)
    \/ RoomWait(t) \/ RoomWaited(t) \/ FlushWaited(t)
    \/ \E ok \in BOOLEAN : RoomSwitch(t, ok) \/ AddRecord(t, ok) \/ SyncLog(t, ok)
    \/ RoomSwitchFails(t)
    \/ GroupAbsorb(t) \/ GroupDone(t) \/ InsertInto(t) \/ Finish(t)

Background ==
    \/ BgStart \/ BgRemove \/ BgCompactImm
    \/ \E ok \in BOOLEAN :
          BgBuild(ok) \/ BgApply(ok) \/ BgCompacted(ok) \/ BgInstall(ok)

Next ==
    \/ \E t \in Threads :
          \/ \E size \in BatchSizes, sync \in BOOLEAN : Enqueue(t, size, sync)
          \/ Client(t)
          \/ SpuriousWakeup(t)
    \/ Background
    \/ Close

Spec == Init /\ [][Next]_vars

\* Every thread inside the database keeps running, and so does the background
\* thread of Env::Schedule.  Fairness is strong because a step that locks
\* mutex_ is enabled only while the mutex is free: a thread waiting for a mutex
\* that is released again and again gets it.  The merge loop of a compaction
\* ends because its input is finite, however often it stops to flush imm_:
\* fairness of BgCompacted.  No client has to call, nothing forces a spurious
\* wakeup.
Fairness ==
    /\ SF_vars(Background)
    /\ SF_vars(\E ok \in BOOLEAN : BgCompacted(ok))
    /\ \A t \in Threads : SF_vars(Client(t))

FairSpec == Spec /\ Fairness

-----------------------------------------------------------------------------
(* Properties *)

QueueTypes ==
    /\ mutex \in Threads \cup {NoThread}
    /\ calls \in Seq(Call)
    /\ Len(calls) <= MaxCalls
    /\ pc \in [Threads -> Locations]
    /\ call \in [Threads -> 0..MaxCalls]
    /\ writers \in Seq(Threads)
    /\ done \in [Threads -> {"no", "ok", "err"}]
    /\ cvWait \subseteq Threads

LeaderTypes ==
    /\ bgWait \subseteq Threads
    /\ room \in [force : BOOLEAN, delay : BOOLEAN]
    /\ group \in [n : Nat, ops : Seq(Calls), size : Nat,
                  status : {"ok", "err", "syncerr"}, k : Nat]

DataTypes ==
    /\ log \subseteq Calls /\ immLog \subseteq Calls /\ synced \subseteq Calls
    /\ mem \subseteq Entry /\ imm \subseteq Entry /\ tables \subseteq Entry
    /\ hasImm \in BOOLEAN /\ lastSeq \in Nat

BgTypes ==
    /\ l0 \in Nat /\ inputs \in Nat
    /\ bgpc \in BgLocations
    /\ scheduled \in BOOLEAN /\ bgError \in BOOLEAN /\ shutting \in BOOLEAN

\* Types of the state of DBImpl that Write and the background thread share; in
\* particular NumLevelFiles(0) never falls below zero although a flush changes
\* it in the middle of a compaction.
TypeOK == QueueTypes /\ LeaderTypes /\ DataTypes /\ BgTypes

Entries == mem \cup imm \cup tables

\* The queue serialises writers: a thread past the wait for its turn is the
\* front of writers_, so no two threads are ever in the unlocked part of Write
\* that appends to log_ and inserts into mem_ without the mutex (the
\* single-writer rule SkipList::Insert relies on).
SingleLeader ==
    \A t \in Threads : pc[t] \in Leading => writers # <<>> /\ writers[1] = t

\* No two entries share a sequence number: every InternalKey that SkipList's
\* insert asserts to be new is new.
UniqueSequences ==
    \A e, f \in Entries : e.seq = f.seq => e = f

\* What a reader can see at LastSequence() is whole batches: of every call
\* either no entry or all of them, although InsertInto adds them one by one
\* and a group commit mixes the batches of several callers.
BatchesAtomic ==
    \A i \in DOMAIN calls :
        LET seen == {e \in Entries : e.id = i /\ e.seq <= lastSeq}
        IN  Cardinality(seen) \in {0, calls[i].size}

\* A call that returned OK has all its entries visible at LastSequence().
AckedVisible ==
    \A i \in Acked :
        Cardinality({e \in Entries : e.id = i /\ e.seq <= lastSeq}) = calls[i].size

\* Write-ahead rule: every entry of mem_ (imm_) is in a record of the log file
\* that was the current one when its memtable was, so a crash before the flush
\* loses nothing that was logged.
LogCoversMemtables ==
    /\ {e.id : e \in mem} \subseteq log
    /\ {e.id : e \in imm} \subseteq immLog

\* A call with options.sync that returned OK was covered by an fsync, also when
\* another thread's group carried it.
SyncHonoured ==
    \A i \in Acked : calls[i].sync /\ calls[i].size > 0 => i \in synced

\* An immutable memtable never waits for nobody: without a background error a
\* background call is scheduled as long as imm_ exists.
ImmHasFlusher ==
    hasImm /\ ~bgError /\ ~shutting => scheduled

\* MakeRoomForWrite's stop trigger bounds level 0 although the count is only
\* tested when a memtable is switched and a flush adds a file later.
L0Bounded == l0 <= L0Stop

VisibleKept ==
    {e \in Entries' : e.seq <= lastSeq} = {e \in Entries : e.seq <= lastSeq}

\* What a snapshot sees never changes: a step adds no entry at or below the
\* LastSequence() of before the step, and loses none.
SnapshotsStable == [][VisibleKept]_vars

\* Every call of Write returns, whatever the interleaving of the other writers
\* and of the background thread and whichever I/O fails.
WritesReturn ==
    \A t \in Threads : pc[t] # "idle" ~> pc[t] = "idle"

\* ~DBImpl's wait for the background thread ends.
CloseReturns == shutting ~> shutting /\ ~scheduled

\* Write(options, nullptr) that returned OK has moved everything acknowledged
\* before the call into table files, as the test
\* ForcedMemTableFlushBuildsRecoverableTable expects.  It does not hold: a null
\* batch may join another writer's group (README, section 4).
ForcedFlush ==
    \A i \in Acked :
        calls[i].size = 0 => \A e \in mem \cup imm : e.id \notin calls[i].acked

=============================================================================
