----------------------------- MODULE Durability -----------------------------
(***************************************************************************)
(* What of a database is on disk, and what a crash leaves of it: log       *)
(* files, table files, MANIFEST and CURRENT, as DB::Open, DBImpl::Write,   *)
(* the background thread and VersionSet::LogAndApply create, append to,    *)
(* sync, rename and remove them (src/src/db/db_impl.cc, version_set.cc,    *)
(* builder.cc, filename.cc; src/src/util/env.cc).                          *)
(*                                                                         *)
(* pc is the thread that maintains the files: first the one in DB::Open,   *)
(* then the background thread; they never run at the same time.  The       *)
(* writer at the front of the queue and the readers interleave with it.    *)
(* The process may crash between any two steps and in the middle of an     *)
(* append, leaving a torn record; a crash of the machine also loses what   *)
(* no fsync covered.                                                       *)
(*                                                                         *)
(* Abstractions: a write is one record with one sequence number, and a     *)
(* table is the set of sequence numbers in it.  A compaction merges its    *)
(* inputs into new tables and drops nothing; levels and trivial moves,     *)
(* which change no set of files, belong to another module.  A log that is  *)
(* replayed fills one table.  A reader of a log drops everything behind a  *)
(* torn record (the code resumes at the next 32K block).                   *)
(*                                                                         *)
(* The file system is external: fsync of a new file makes its directory    *)
(* entry durable, and directory operations become durable in their order.  *)
(* A renamed file that was not synced may turn out empty.                  *)
(*                                                                         *)
(* A definition named Mut... is a plausible mistake in the definition that *)
(* follows it; the mutation runs put it in that definition's place.        *)
(***************************************************************************)
EXTENDS Naturals, Sequences, FiniteSets

CONSTANTS MaxFile,       \* bound: file numbers
          MaxSeq,        \* bound: sequence numbers
          MaxCrash,      \* bound: crashes
          MaxReaders,    \* bound: versions pinned by readers
          ReuseLogs,     \* options_.reuse_logs
          TornWrites,    \* a crash or an error in an append leaves a torn record
          MachineCrashes,\* the machine may crash, not only the process
          Errors         \* operations that may fail: a subset of ErrorKinds

ErrorKinds == {"log", "logsync", "close", "table", "manifest", "open"}

ASSUME DurabilityAssumption ==
    /\ MaxFile \in Nat /\ MaxSeq \in Nat /\ MaxCrash \in Nat /\ MaxReaders \in Nat
    /\ {ReuseLogs, TornWrites, MachineCrashes} \subseteq BOOLEAN
    /\ Errors \subseteq ErrorKinds

VARIABLES
    logFiles,   \* numbers of the log files
    logs,       \* their content: [recs, safe, tail]
    tables,     \* numbers of the table files
    content,    \* their entries
    manifests,  \* numbers of the MANIFEST files
    man,        \* their content: [recs, safe, tail]
    current,    \* the MANIFEST that CURRENT names (0: no CURRENT)
    durCurrent, \* the one it names after a crash of the machine, at worst
    currentOk,  \* CURRENT has its content
    pc,         \* where the thread in Open, or the background thread, is
    up,         \* Open has returned OK
    next,       \* VersionSet::next_file_number_
    mNum,       \* VersionSet::manifest_file_number_
    desc,       \* descriptor_log_ != nullptr
    vfiles,     \* table files of the current version
    vlog,       \* VersionSet::log_number_
    lastSeq,    \* VersionSet::last_sequence_
    logNum,     \* logfile_number_ (0: none yet)
    mem,        \* entries of mem_
    imm,        \* entries of imm_
    hasImm,     \* imm_ != nullptr
    writer,     \* the write between AddRecord and its end: [seq, sync]
    toReplay,   \* log files Recover has still to replay
    pending,    \* pending_outputs_
    out,        \* the table a flush is writing
    comp,       \* the compaction in progress: [in, left, outs, base, stage]
    edit,       \* the VersionEdit in LogAndApply: [add, del, log, next, last]
    victims,    \* files RemoveObsoleteFiles has still to remove
    held,       \* versions pinned by readers
    bgErr,      \* ~bg_error_.Ok()
    acked,      \* writes that returned OK and no crash of the machine lost
    ackedSync,  \* writes with options.sync that returned OK
    lost,       \* writes that only a log file RepairDB put into lost/ holds
    crashes

disk == <<logFiles, logs, tables, content, manifests, man, current, durCurrent,
          currentOk>>
numbers == <<next, mNum, desc, vfiles, vlog, lastSeq, logNum>>
memory == <<mem, imm, hasImm>>
work == <<toReplay, pending, out, comp, edit, victims>>
promises == <<acked, ackedSync, lost>>
vars == <<disk, pc, up, numbers, memory, writer, work, held, bgErr, promises,
          crashes>>

Num == 1..MaxFile
Seqs == 1..MaxSeq

EmptyLog == [recs |-> {}, safe |-> {}, tail |-> "clean"]
NoManifest == [recs |-> <<>>, safe |-> 0, tail |-> "clean"]
NoComp == [in |-> {}, left |-> {}, outs |-> {}, base |-> {}, stage |-> "none"]
NoEdit == [add |-> {}, del |-> {}, log |-> 0, next |-> 0, last |-> 0]
NoWrite == [seq |-> 0, sync |-> FALSE]

\* The record NewDB writes: what a MANIFEST says is kept cumulatively.
Start == [files |-> {}, log |-> 0, next |-> 2, last |-> 0]

\* What a process without a DBImpl has in memory.
NoDBImpl ==
    /\ up' = FALSE
    /\ next' = 0 /\ mNum' = 0 /\ desc' = FALSE /\ vfiles' = {} /\ vlog' = 0
    /\ lastSeq' = 0 /\ logNum' = 0
    /\ mem' = {} /\ imm' = {} /\ hasImm' = FALSE
    /\ writer' = NoWrite
    /\ toReplay' = {} /\ pending' = {} /\ out' = 0 /\ comp' = NoComp
    /\ edit' = NoEdit /\ victims' = {}
    /\ held' = {} /\ bgErr' = FALSE

Down == pc' = "down" /\ NoDBImpl

Init ==
    /\ logFiles = {} /\ logs = [n \in Num |-> EmptyLog]
    /\ tables = {} /\ content = [n \in Num |-> {}]
    /\ manifests = {} /\ man = [n \in Num |-> NoManifest]
    /\ current = 0 /\ durCurrent = 0 /\ currentOk = TRUE
    /\ pc = "down" /\ up = FALSE
    /\ next = 0 /\ mNum = 0 /\ desc = FALSE /\ vfiles = {} /\ vlog = 0
    /\ lastSeq = 0 /\ logNum = 0
    /\ mem = {} /\ imm = {} /\ hasImm = FALSE
    /\ writer = NoWrite
    /\ toReplay = {} /\ pending = {} /\ out = 0 /\ comp = NoComp
    /\ edit = NoEdit /\ victims = {}
    /\ held = {} /\ bgErr = FALSE
    /\ acked = {} /\ ackedSync = {} /\ lost = {} /\ crashes = 0

-----------------------------------------------------------------------------
(* Helpers *)

Largest(S) == CHOOSE x \in S : \A y \in S : y <= x
Smallest(S) == CHOOSE x \in S : \A y \in S : x <= y
Max2(a, b) == IF a < b THEN b ELSE a

\* The tail an interrupted or failed append leaves.
Torn(tail) == IF TornWrites /\ tail = "clean" THEN {"clean", "torn"} ELSE {tail}

\* The last state a MANIFEST describes.
LastState(m) == m.recs[Len(m.recs)]

\* A record behind a torn one is not read again.
AddRecord(f, s) ==
    IF f.tail = "clean" THEN [f EXCEPT !.recs = @ \cup {s}] ELSE f

\* A record behind a torn one makes a MANIFEST corrupt.
AddState(m, r) ==
    IF m.tail = "clean" THEN [m EXCEPT !.recs = Append(@, r)]
                        ELSE [m EXCEPT !.tail = "bad"]

\* VersionSet::MarkFileNumberUsed
MutMarkNothing(n) == next
MarkFileNumberUsed(n) == Max2(next, n + 1)

-----------------------------------------------------------------------------
(* DB::Open *)

\* DBImpl::NewDB up to the sync of MANIFEST-1 (and of the directory).
NewDB ==
    /\ pc = "down" /\ current = 0
    /\ manifests' = manifests \cup {1}
    /\ man' = [man EXCEPT ![1] = [recs |-> <<Start>>, safe |-> 1, tail |-> "clean"]]
    /\ durCurrent' = current
    /\ pc' = "newdb"
    /\ UNCHANGED <<logFiles, logs, tables, content, current, currentOk, up, numbers,
                   memory, writer, work, held, bgErr, promises, crashes>>

\* SetCurrentFile at the end of NewDB.
NewDBCurrent ==
    /\ pc = "newdb"
    /\ current' = 1 /\ currentOk' = TRUE
    /\ pc' = "recover"
    /\ UNCHANGED <<logFiles, logs, tables, content, manifests, man, durCurrent, up,
                   numbers, memory, writer, work, held, bgErr, promises, crashes>>

\* Files of the version that Recover misses: a file of any type with the
\* number will do.
Missing(files) == files \ (tables \cup logFiles \cup manifests)

\* VersionSet::Recover cannot make a version of MANIFEST c.
Damaged(c) ==
    IF c \notin manifests \/ man[c].tail = "bad" \/ man[c].recs = <<>>
      THEN TRUE
      ELSE Missing(LastState(man[c]).files) # {}

Unreadable(c) == ~currentOk \/ Damaged(c)

\* The log files Recover replays.
LogsToReplay(r) == {n \in logFiles : n >= r.log}

\* The MANIFEST the next edit goes to: the one read, if ReuseManifest takes
\* it, or a new one.
ManifestNumber(reuse, r) == IF reuse THEN current ELSE r.next

\* VersionSet::Recover with ReuseManifest, and DBImpl::Recover up to the
\* replay of the log files.
Recover(reuse) ==
    /\ pc \in {"down", "recover"} /\ current # 0
    /\ reuse => ReuseLogs
    /\ \/ /\ Unreadable(current)
          /\ pc' = "broken"
          /\ UNCHANGED <<numbers, toReplay>>
       \/ /\ ~Unreadable(current)
          /\ LET r == LastState(man[current]) IN
             /\ vfiles' = r.files /\ vlog' = r.log /\ lastSeq' = r.last
             /\ next' = r.next + 1
             /\ mNum' = ManifestNumber(reuse, r)
             /\ toReplay' = LogsToReplay(r)
             /\ mNum' \in Num
          /\ desc' = reuse
          /\ pc' = "replay"
          /\ UNCHANGED logNum
    /\ UNCHANGED <<disk, up, memory, writer, pending, out, comp, edit, victims, held,
                   bgErr, promises, crashes>>

\* LastSequence() after the replay of the records r.
Replayed(r) == Largest(r \cup {lastSeq})

\* The memtable that goes on with a log file whose records are r.
MutEmptyMem(r) == {}
ReusedMem(r) == r

\* RecoverLogFile for the oldest log file: its records become a table, or the
\* last log file goes on as the current one.
ReplayLog(reuse) ==
    /\ pc = "replay" /\ toReplay # {}
    /\ LET n == Smallest(toReplay)
           r == logs[n].recs
       IN  /\ toReplay' = toReplay \ {n}
           /\ lastSeq' = Replayed(r)
           /\ \/ /\ reuse /\ ReuseLogs /\ toReplay = {n}
                 /\ mem' = ReusedMem(r) /\ logNum' = n
                 /\ next' = MarkFileNumberUsed(n)
                 /\ UNCHANGED <<tables, content, edit>>
              \/ /\ ~reuse /\ r # {} /\ next \in Num
                 /\ tables' = tables \cup {next}
                 /\ content' = [content EXCEPT ![next] = r]
                 /\ edit' = [edit EXCEPT !.add = @ \cup {next}]
                 /\ next' = Max2(next + 1, MarkFileNumberUsed(n))
                 /\ UNCHANGED <<mem, logNum>>
              \/ /\ ~reuse /\ r = {}
                 /\ next' = MarkFileNumberUsed(n)
                 /\ UNCHANGED <<tables, content, edit, mem, logNum>>
    /\ UNCHANGED <<logFiles, logs, manifests, man, current, durCurrent, currentOk, pc,
                   up, mNum, desc, vfiles, vlog, imm, hasImm, writer, pending, out,
                   comp, victims, held, bgErr, promises, crashes>>

\* The edit of LogAndApply, completed under the mutex.
Complete(add, del, log, nxt) ==
    [add |-> add, del |-> del, log |-> log, next |-> nxt, last |-> lastSeq]

\* What RemoveObsoleteFiles keeps of the table files.
MutLiveWithoutReaders(files, pending_, base) == pending_ \cup files \cup base
Live(files, pending_, base) == pending_ \cup files \cup base \cup UNION held

ObsoleteLogs(log) == {n \in logFiles : n < log}

MutManifestsUpTo(m) == {n \in manifests : n <= m}
ObsoleteManifests(m) == {n \in manifests : n < m}

MayRemove == ~bgErr

\* RemoveObsoleteFiles under the mutex.
Obsolete(files, log, m, pending_, base) ==
    IF MayRemove
      THEN {<<"log", n>> : n \in ObsoleteLogs(log)}
           \cup {<<"manifest", n>> : n \in ObsoleteManifests(m)}
           \cup {<<"table", n>> : n \in tables \ Live(files, pending_, base)}
      ELSE {}

\* The rest of Open before LogAndApply: a new log file unless the last one
\* goes on.  NewWritableFile truncates a file that exists.
OpenLog ==
    /\ pc = "replay" /\ toReplay = {}
    /\ \/ /\ logNum = 0 /\ next \in Num
          /\ logFiles' = logFiles \cup {next}
          /\ logs' = [logs EXCEPT ![next] = EmptyLog]
          /\ logNum' = next /\ next' = next + 1
       \/ /\ logNum # 0
          /\ UNCHANGED <<logFiles, logs, logNum, next>>
    /\ \/ /\ ~desc \/ edit.add # {}
          /\ edit' = Complete(edit.add, {}, logNum', next')
          /\ pc' = "append"
          /\ UNCHANGED victims
       \/ /\ desc /\ edit.add = {}
          /\ victims' = Obsolete(vfiles, vlog, mNum, {}, {})
          /\ pc' = "remove"
          /\ UNCHANGED edit
    /\ UNCHANGED <<tables, content, manifests, man, current, durCurrent, currentOk, up,
                   mNum, desc, vfiles, vlog, lastSeq, memory, writer, toReplay, pending,
                   out, comp, held, bgErr, promises, crashes>>

-----------------------------------------------------------------------------
(* VersionSet::LogAndApply, and RemoveObsoleteFiles behind it.  It runs for *)
(* Open (~up), for a compaction (stage "apply") or for a flush.             *)

Compacting == comp.stage # "none"
ApplyingCompaction == comp.stage = "apply"

\* Where the background thread goes after a flush: back into DoCompactionWork
\* or to the end of the background call.
AfterFlush == IF Compacting THEN "merge" ELSE "idle"

RecordBackgroundError == bgErr' = TRUE

\* CleanupCompaction, at the end of a background call.
CleanupCompaction ==
    /\ pending' = pending \ comp.outs
    /\ comp' = NoComp
    /\ pc' = "idle"

\* LogAndApply returns an error.  A flush and a compaction record it in
\* bg_error_; imm_ stays, and the compaction's outputs are given up.
ApplyFails ==
    /\ IF ~up THEN Down
       ELSE /\ RecordBackgroundError
            /\ IF ApplyingCompaction
                 THEN CleanupCompaction
                 ELSE pc' = AfterFlush /\ UNCHANGED <<pending, comp>>
            /\ edit' = NoEdit
            /\ UNCHANGED <<up, numbers, memory, writer, toReplay, out, victims, held>>
    /\ UNCHANGED <<promises, crashes>>

\* Builder::Apply and SaveTo: the version the edit makes of the files.
Applied(files) == (files \ edit.del) \cup edit.add

\* The files a MANIFEST describes before the edit; a new one begins with
\* those of the current version (WriteSnapshot).
Described == IF desc THEN LastState(man[mNum]).files ELSE vfiles

\* AddRecord of the edit, behind WriteSnapshot in a new MANIFEST.
ManifestAppend ==
    /\ pc = "append"
    /\ LET r == [files |-> Applied(Described), log |-> edit.log,
                 next |-> edit.next, last |-> edit.last]
       IN  man' = [man EXCEPT ![mNum] = AddState(IF desc THEN @ ELSE NoManifest, r)]
    /\ manifests' = manifests \cup {mNum}
    /\ pc' = "sync"
    /\ UNCHANGED <<logFiles, logs, tables, content, current, durCurrent, currentOk, up,
                   numbers, memory, writer, work, held, bgErr, promises, crashes>>

\* AddRecord or Sync fails; a new MANIFEST is removed.
ManifestFails ==
    /\ "manifest" \in Errors /\ pc \in {"append", "sync", "current"}
    /\ \/ /\ ~desc
          /\ manifests' = manifests \ {mNum}
          /\ man' = [man EXCEPT ![mNum] = NoManifest]
       \/ /\ desc /\ pc = "append"
          /\ \E t \in Torn(man[mNum].tail) : man' = [man EXCEPT ![mNum].tail = t]
          /\ UNCHANGED manifests
       \/ /\ desc /\ pc = "sync"
          /\ UNCHANGED <<manifests, man>>
    /\ ApplyFails
    /\ UNCHANGED <<logFiles, logs, tables, content, current, durCurrent, currentOk>>

\* Whether the edit that was applied is that of a flush.
MutAnyInstall == up
ImmFlushed == up /\ ~ApplyingCompaction

\* AppendVersion and what the caller does next: a flush drops imm_, a
\* compaction gives up its pending output and its input version, and both
\* go on to RemoveObsoleteFiles.
Install ==
    LET files == Applied(vfiles)
        pend == IF ApplyingCompaction THEN pending \ comp.outs ELSE pending
        base == IF ApplyingCompaction THEN {} ELSE comp.base
    IN  /\ vfiles' = files /\ vlog' = edit.log
        /\ imm' = IF ImmFlushed THEN {} ELSE imm
        /\ hasImm' = (hasImm /\ ~ImmFlushed)
        /\ pending' = pend
        /\ comp' = IF ApplyingCompaction THEN NoComp ELSE comp
        /\ edit' = NoEdit
        /\ victims' = Obsolete(files, edit.log, mNum, pend, base)
        /\ pc' = "remove"
        /\ UNCHANGED <<up, next, mNum, lastSeq, logNum, mem, writer, toReplay, out,
                       held, bgErr, promises, crashes>>

\* Sync of the MANIFEST and, before it, of the directory.
ManifestSync ==
    /\ pc = "sync"
    /\ man' = [man EXCEPT ![mNum].safe = Len(man[mNum].recs)]
    /\ durCurrent' = current
    /\ \/ /\ desc /\ Install
          /\ UNCHANGED desc
       \/ /\ ~desc
          /\ pc' = "current"
          /\ UNCHANGED <<up, numbers, memory, writer, work, held, bgErr, promises,
                         crashes>>
    /\ UNCHANGED <<logFiles, logs, tables, content, manifests, current, currentOk>>

\* SetCurrentFile: the temporary file is written, not synced, and renamed.
SetCurrentFile ==
    /\ pc = "current"
    /\ current' = mNum /\ currentOk' = TRUE
    /\ desc' = TRUE
    /\ Install
    /\ UNCHANGED <<logFiles, logs, tables, content, manifests, man, durCurrent>>

\* RemoveFile of one obsolete file, without the mutex.
RemoveFile ==
    /\ pc = "remove"
    /\ \E v \in victims :
          /\ victims' = victims \ {v}
          /\ LET n == v[2] IN
             \/ /\ v[1] = "log"
                /\ logFiles' = logFiles \ {n}
                /\ logs' = [logs EXCEPT ![n] = EmptyLog]
                /\ UNCHANGED <<tables, content, manifests, man>>
             \/ /\ v[1] = "table"
                /\ tables' = tables \ {n}
                /\ content' = [content EXCEPT ![n] = {}]
                /\ UNCHANGED <<logFiles, logs, manifests, man>>
             \/ /\ v[1] = "manifest"
                /\ manifests' = manifests \ {n}
                /\ man' = [man EXCEPT ![n] = NoManifest]
                /\ UNCHANGED <<logFiles, logs, tables, content>>
    /\ durCurrent' = current
    /\ UNCHANGED <<current, currentOk, pc, up, numbers, memory, writer, toReplay,
                   pending, out, comp, edit, held, bgErr, promises, crashes>>

\* The end of Open, of a flush or of a compaction.
Removed ==
    /\ pc = "remove" /\ victims = {}
    /\ up' = TRUE
    /\ pc' = AfterFlush
    /\ UNCHANGED <<disk, numbers, memory, writer, work, held, bgErr, promises, crashes>>

\* Open fails before LogAndApply (a table or the new log file cannot be
\* written); what it wrote stays.
OpenFails ==
    /\ "open" \in Errors /\ pc \in {"newdb", "recover", "replay"}
    /\ Down
    /\ UNCHANGED <<disk, promises, crashes>>

-----------------------------------------------------------------------------
(* The writer at the front of the queue *)

CanWrite == up /\ writer = NoWrite /\ ~bgErr

\* log_->AddRecord; the sequence number is used up even when it fails.
WriteLog(sync) ==
    /\ CanWrite /\ lastSeq < MaxSeq
    /\ logs' = [logs EXCEPT ![logNum] = AddRecord(@, lastSeq + 1)]
    /\ writer' = [seq |-> lastSeq + 1, sync |-> sync]
    /\ UNCHANGED <<logFiles, tables, content, manifests, man, current, durCurrent,
                   currentOk, pc, up, numbers, memory, work, held, bgErr, promises,
                   crashes>>

\* AddRecord fails: nothing is inserted, and the error is not remembered.
WriteLogFails ==
    /\ "log" \in Errors
    /\ CanWrite /\ lastSeq < MaxSeq
    /\ \E t \in Torn(logs[logNum].tail) : logs' = [logs EXCEPT ![logNum].tail = t]
    /\ lastSeq' = lastSeq + 1
    /\ UNCHANGED <<logFiles, tables, content, manifests, man, current, durCurrent,
                   currentOk, pc, up, next, mNum, desc, vfiles, vlog, logNum, memory,
                   writer, work, held, bgErr, promises, crashes>>

\* The rest of Write: the sync if one was asked for, the insertion into mem_,
\* LastSequence(), and the return.
MutNoSync(f) == f
SyncLog(f) == [f EXCEPT !.safe = f.recs]

WriteFinish ==
    /\ writer # NoWrite
    /\ logs' = IF writer.sync THEN [logs EXCEPT ![logNum] = SyncLog(@)] ELSE logs
    /\ mem' = mem \cup {writer.seq}
    /\ lastSeq' = writer.seq
    /\ acked' = acked \cup {writer.seq}
    /\ lost' = lost \ {writer.seq}
    /\ ackedSync' = IF writer.sync THEN ackedSync \cup {writer.seq} ELSE ackedSync
    /\ writer' = NoWrite
    /\ UNCHANGED <<logFiles, tables, content, manifests, man, current, durCurrent,
                   currentOk, pc, up, next, mNum, desc, vfiles, vlog, logNum, imm,
                   hasImm, work, held, bgErr, crashes>>

WriteSyncFails ==
    /\ "logsync" \in Errors /\ writer.sync
    /\ lastSeq' = writer.seq
    /\ writer' = NoWrite
    /\ RecordBackgroundError
    /\ UNCHANGED <<disk, pc, up, next, mNum, desc, vfiles, vlog, logNum, memory, work,
                   held, promises, crashes>>

\* MakeRoomForWrite switches to a new log file and a new memtable; an error in
\* closing the old log file is recorded.
Switch(closed) ==
    /\ CanWrite /\ ~hasImm /\ next \in Num
    /\ closed \/ "close" \in Errors
    /\ logFiles' = logFiles \cup {next}
    /\ logs' = [logs EXCEPT ![next] = EmptyLog]
    /\ logNum' = next /\ next' = next + 1
    /\ mem' = {} /\ imm' = mem /\ hasImm' = TRUE
    /\ bgErr' = ~closed
    /\ UNCHANGED <<tables, content, manifests, man, current, durCurrent, currentOk, pc,
                   up, mNum, desc, vfiles, vlog, lastSeq, writer, work, held, promises,
                   crashes>>

\* A reader refers to the current version, and lets go of it.
Pin ==
    /\ up /\ Cardinality(held) < MaxReaders
    /\ held' = held \cup {vfiles}
    /\ UNCHANGED <<disk, pc, up, numbers, memory, writer, work, bgErr, promises, crashes>>

Unpin ==
    /\ \E v \in held : held' = held \ {v}
    /\ UNCHANGED <<disk, pc, up, numbers, memory, writer, work, bgErr, promises, crashes>>

-----------------------------------------------------------------------------
(* The background thread *)

\* CompactMemTable, from BackgroundCompaction or from the middle of
\* DoCompactionWork (which does not look at bg_error_).
FlushStart ==
    /\ hasImm /\ next \in Num
    /\ (pc = "idle" /\ ~bgErr) \/ pc = "merge"
    /\ out' = next /\ next' = next + 1
    /\ pending' = pending \cup {next}
    /\ pc' = "build"
    /\ UNCHANGED <<disk, up, mNum, desc, vfiles, vlog, lastSeq, logNum, memory, writer,
                   toReplay, comp, edit, victims, held, bgErr, promises, crashes>>

\* The log number a flush records: what is older has been flushed.
MutLogAfterThis == next
FlushedLog == logNum

\* BuildTable, the new file's sync included; an empty imm_ leaves no file.
FlushBuild ==
    /\ pc = "build"
    /\ pending' = pending \ {out}
    /\ \/ /\ imm # {}
          /\ tables' = tables \cup {out}
          /\ content' = [content EXCEPT ![out] = imm]
          /\ edit' = Complete({out}, {}, FlushedLog, next)
       \/ /\ imm = {}
          /\ edit' = Complete({}, {}, FlushedLog, next)
          /\ UNCHANGED <<tables, content>>
    /\ out' = 0
    /\ pc' = "append"
    /\ UNCHANGED <<logFiles, logs, manifests, man, current, durCurrent, currentOk, up,
                   numbers, memory, writer, toReplay, comp, victims, held, bgErr,
                   promises, crashes>>

\* BuildTable fails; imm_ stays for the next open to recover from its log file.
FlushFails ==
    /\ "table" \in Errors /\ pc = "build"
    /\ pending' = pending \ {out}
    /\ out' = 0
    /\ RecordBackgroundError
    /\ pc' = AfterFlush
    /\ UNCHANGED <<disk, up, numbers, memory, writer, toReplay, comp, edit, victims,
                   held, promises, crashes>>

\* PickCompaction or CompactRange: some files of the current version, which
\* the compaction refers to.
CompactStart(in) ==
    /\ pc = "idle" /\ up /\ ~bgErr /\ ~hasImm
    /\ comp' = [in |-> in, left |-> UNION {content[f] : f \in in}, outs |-> {},
                base |-> vfiles, stage |-> "merge"]
    /\ pc' = "merge"
    /\ UNCHANGED <<disk, up, numbers, memory, writer, toReplay, pending, out, edit,
                   victims, held, bgErr, promises, crashes>>

\* The output's number stays in pending_outputs_ until the compaction is over.
MutNotPending(n) == pending
PendingOutput(n) == pending \cup {n}

\* OpenCompactionOutputFile and FinishCompactionOutputFile: the next output
\* takes some of the entries that are left.  The merge loop may stop between
\* two outputs, and behind the last one, to flush imm_.
CompactOutput(entries) ==
    /\ pc = "merge" /\ next \in Num
    /\ pending' = PendingOutput(next)
    /\ tables' = tables \cup {next}
    /\ content' = [content EXCEPT ![next] = entries]
    /\ comp' = [comp EXCEPT !.outs = @ \cup {next}, !.left = @ \ entries]
    /\ next' = next + 1
    /\ UNCHANGED <<logFiles, logs, manifests, man, current, durCurrent, currentOk, pc,
                   up, mNum, desc, vfiles, vlog, lastSeq, logNum, memory, writer,
                   toReplay, out, edit, victims, held, bgErr, promises, crashes>>

\* The log number of an edit that does not set one.
KeptLog == vlog

\* InstallCompactionResults.
CompactInstall ==
    /\ pc = "merge" /\ comp.left = {}
    /\ comp' = [comp EXCEPT !.stage = "apply"]
    /\ edit' = Complete(comp.outs, comp.in, KeptLog, next)
    /\ pc' = "append"
    /\ UNCHANGED <<disk, up, numbers, memory, writer, toReplay, pending, out, victims,
                   held, bgErr, promises, crashes>>

CompactFails ==
    /\ "table" \in Errors /\ pc = "merge"
    /\ CleanupCompaction
    /\ RecordBackgroundError
    /\ UNCHANGED <<disk, up, numbers, memory, writer, toReplay, out, edit, victims, held,
                   promises, crashes>>

-----------------------------------------------------------------------------
(* Crashes *)

\* What Open makes of the disk: the state in the first k records of MANIFEST
\* c, or a new database, and the entries of its tables and newer log files,
\* of which the records in file(n) are left.
StateAt(c, k) == IF k = 0 THEN Start ELSE man[c].recs[k]
Found(r, file(_)) ==
    UNION {content[f] : f \in r.files \cap tables}
    \cup UNION {file(n) : n \in {k \in logFiles : k >= r.log}}

AllRecords(n) == logs[n].recs
SafeRecords(n) == logs[n].safe

\* The numbers of records of MANIFEST c that a crash of the machine may leave.
Prefixes(c) == IF c = 0 THEN {0} ELSE man[c].safe .. Len(man[c].recs)

\* The process dies, or the DBImpl is deleted, at any point: in the middle of
\* an append to the log or to the MANIFEST at worst.
ProcessCrash ==
    /\ pc # "down" /\ pc # "broken" /\ crashes < MaxCrash
    /\ crashes' = crashes + 1
    /\ \/ /\ up
          /\ \E t \in Torn(logs[logNum].tail) : logs' = [logs EXCEPT ![logNum].tail = t]
       \/ ~up /\ UNCHANGED logs
    /\ \/ /\ pc = "append" /\ desc
          /\ \E t \in Torn(man[mNum].tail) : man' = [man EXCEPT ![mNum].tail = t]
       \/ (pc # "append" \/ ~desc) /\ UNCHANGED man
    /\ Down
    /\ UNCHANGED <<logFiles, tables, content, manifests, current, durCurrent, currentOk,
                   promises>>

\* The machine dies: of every log file a prefix is left that holds what was
\* synced, likewise of the MANIFEST; the last rename of CURRENT may be undone,
\* and CURRENT, which SetCurrentFile does not sync, may be empty.
MachineCrash ==
    /\ MachineCrashes
    /\ pc # "down" /\ pc # "broken" /\ crashes < MaxCrash
    /\ crashes' = crashes + 1
    /\ \E kept \in [logFiles -> 0..MaxSeq] :
          logs' = [n \in Num |->
                     IF n \notin logFiles THEN EmptyLog
                     ELSE LET r == logs[n].safe \cup {s \in logs[n].recs : s <= kept[n]}
                          IN  [recs |-> r, safe |-> r,
                               tail |-> IF TornWrites /\ r # logs[n].recs THEN "torn"
                                                                          ELSE logs[n].tail]]
    /\ \E c \in {current, durCurrent} :
          /\ current' = c /\ durCurrent' = c
          /\ currentOk' \in IF c = 0 THEN {currentOk} ELSE {currentOk, FALSE}
          /\ \E k \in Prefixes(c) :
                /\ man' = [n \in Num |->
                             IF n = c THEN [man[n] EXCEPT !.recs = SubSeq(@, 1, k), !.safe = k]
                             ELSE [man[n] EXCEPT !.safe = Len(man[n].recs)]]
                /\ acked' = acked \cap Found(StateAt(c, k), LAMBDA n : logs'[n].recs)
    /\ Down
    /\ UNCHANGED <<logFiles, tables, content, manifests, ackedSync, lost>>

-----------------------------------------------------------------------------
Open ==
    \/ NewDB \/ NewDBCurrent \/ OpenLog \/ OpenFails
    \/ \E reuse \in BOOLEAN : Recover(reuse) \/ ReplayLog(reuse)

LogAndApply ==
    ManifestAppend \/ ManifestFails \/ ManifestSync \/ SetCurrentFile

Write ==
    \/ \E b \in BOOLEAN : WriteLog(b) \/ Switch(b)
    \/ WriteLogFails \/ WriteFinish \/ WriteSyncFails

Background ==
    \/ FlushStart \/ FlushBuild \/ FlushFails
    \/ \E in \in SUBSET vfiles \ {{}} : CompactStart(in)
    \/ \E entries \in SUBSET comp.left \ {{}} : CompactOutput(entries)
    \/ CompactInstall \/ CompactFails

Next ==
    \/ Open \/ LogAndApply \/ RemoveFile \/ Removed
    \/ Write \/ Pin \/ Unpin
    \/ Background
    \/ ProcessCrash \/ MachineCrash

Spec == Init /\ [][Next]_vars

-----------------------------------------------------------------------------
(* Properties *)

\* A write that returned OK survives the death of the process at any point:
\* between the switch of the log, the table of a flush, the MANIFEST record,
\* CURRENT and the removal of what became obsolete.
ProcessCrashSafe ==
    acked \subseteq Found(StateAt(current, Largest(Prefixes(current))), AllRecords)

\* A write with options.sync that returned OK survives a crash of the machine,
\* whatever of the unsynced bytes it leaves: the MANIFEST that CURRENT was made
\* to name leads to it, also where CURRENT itself has become empty.
MachineCrashSafe ==
    \A c \in {current, durCurrent} : \A k \in Prefixes(c) :
       ackedSync \subseteq Found(StateAt(c, k), SafeRecords)

\* Open finds the tables its MANIFEST names, after any crash.
TablesFound ==
    \A c \in {current, durCurrent} : \A k \in Prefixes(c) :
       StateAt(c, k).files \subseteq tables

\* At every step, and so after every crash, the MANIFEST that CURRENT was made
\* to name is one that Recover can read: it exists, no record of it is corrupt,
\* and no table it names is missing.  Open reports corruption in one case only:
\* a crash of the machine emptied CURRENT itself, which SetCurrentFile renames
\* without a sync (filename.cc:105-120).
Openable ==
    /\ current # 0 => ~Damaged(current)
    /\ pc = "broken" => ~currentOk

\* An open database serves every write it acknowledged, also after recovery.
NothingForgotten ==
    up => acked \subseteq mem \cup imm \cup UNION {content[f] : f \in vfiles}

\* The files of a version that a reader or the compaction in progress refers
\* to are not removed under it.
PinnedFilesExist ==
    up => \A v \in held \cup {comp.base} : v \subseteq tables

\* After recovery the numbers given out are new: a sequence number is above
\* those of all entries that can be read, and NewFileNumber never returns the
\* number of a file that is needed: no table of the version or of a compaction,
\* no log file that holds an entry.
NumbersFresh ==
    /\ up => \A s \in mem \cup imm \cup UNION {content[f] : f \in vfiles} : s <= lastSeq
    /\ up \/ (pc = "replay" /\ toReplay = {}) =>
          /\ \A n \in vfiles \cup pending \cup UNION held : n < next
          /\ \A n \in logFiles : n >= vlog => n < next
          /\ mNum < next

=============================================================================
