------------------------------- MODULE Repair -------------------------------
(***************************************************************************)
(* RepairDB (src/db/repair.cc) on a database that is not open: every log   *)
(* file becomes a table and moves to lost/, every table is scanned, and a  *)
(* new MANIFEST-1 names all tables.  The MANIFEST and CURRENT there were   *)
(* are not read.  The repair may fail or die between any two steps and is  *)
(* then run again, as often as it takes to return OK, before the database  *)
(* is opened.                                                              *)
(*                                                                         *)
(* The database is not open, so the Repairer's members live in variables   *)
(* that are idle then: next_file_number_, logs_, table_numbers_ and        *)
(* manifests_ are next, toReplay, vfiles and victims, logNum is the log    *)
(* file it has converted and not archived, and bgErr says that             *)
(* ConvertLogToTable failed for it.  pc is "unrepaired" after a repair     *)
(* that did not return OK.  Left out: tables whose entries are damaged     *)
(* (RepairTable), since no fault of this model damages a table.            *)
(***************************************************************************)
EXTENDS Durability

CONSTANT MaxRepairs    \* bound: calls of RepairDB, of which one may return OK

ASSUME RepairAssumption == MaxRepairs \in Nat

Repairing == pc \in {"repair", "repairCurrent"}

\* next_file_number_ of FindFiles: descriptor files do not count.
NextFileNumber == Largest(tables \cup logFiles \cup {0}) + 1

\* Bound: repairs come after the last crash, and crashes counts them too.
FindFiles ==
    /\ \/ pc \in {"down", "broken"} /\ crashes = MaxCrash
       \/ pc = "unrepaired"
    /\ crashes < MaxCrash + MaxRepairs
    /\ logFiles \cup tables \cup manifests # {}
    /\ crashes' = crashes + 1
    /\ next' = NextFileNumber
    /\ toReplay' = logFiles
    /\ vfiles' = tables
    /\ victims' = {<<"manifest", n>> : n \in manifests}
    /\ pc' = "repair"
    /\ UNCHANGED <<disk, up, mNum, desc, vlog, lastSeq, logNum, memory, writer, pending,
                   out, comp, edit, held, bgErr, promises>>

\* The entries ConvertLogToTable reads of a log file.
Converted(n) == logs[n].recs

\* table_numbers_ with the table of a log file.
MutNotListed == vfiles
WithTable == vfiles \cup {next}

\* For the log files in the order of the directory: the table is built, there
\* is nothing to build, BuildTable fails, or NewSequentialFile fails, which
\* uses up no file number.
ConvertLogToTable(n) ==
    /\ pc = "repair" /\ logNum = 0
    /\ \/ /\ Converted(n) # {} /\ next \in Num
          /\ next' = next + 1
          /\ tables' = tables \cup {next}
          /\ content' = [content EXCEPT ![next] = Converted(n)]
          /\ vfiles' = WithTable
          /\ UNCHANGED bgErr
       \/ /\ Converted(n) = {} /\ next \in Num
          /\ next' = next + 1
          /\ UNCHANGED <<tables, content, vfiles, bgErr>>
       \/ /\ "table" \in Errors /\ Converted(n) # {} /\ next \in Num
          /\ next' = next + 1
          /\ bgErr' = TRUE
          /\ UNCHANGED <<tables, content, vfiles>>
       \/ /\ "open" \in Errors
          /\ bgErr' = TRUE
          /\ UNCHANGED <<next, tables, content, vfiles>>
    /\ logNum' = n
    /\ UNCHANGED <<logFiles, logs, manifests, man, current, durCurrent, currentOk, pc, up,
                   mNum, desc, vlog, lastSeq, memory, writer, work, held, promises, crashes>>

\* The entries that go with a log file: all that no table holds, if its
\* conversion failed.
GivenUp == IF bgErr THEN logs[logNum].recs \ UNION {content[n] : n \in vfiles} ELSE {}

\* ArchiveFile of the log file, also when its conversion failed.
ArchiveLog ==
    /\ pc = "repair" /\ logNum # 0
    /\ lost' = lost \cup GivenUp
    /\ bgErr' = FALSE
    /\ logFiles' = logFiles \ {logNum}
    /\ logs' = [logs EXCEPT ![logNum] = EmptyLog]
    /\ toReplay' = toReplay \ {logNum}
    /\ logNum' = 0
    /\ UNCHANGED <<tables, content, manifests, man, current, durCurrent, currentOk, pc, up,
                   next, mNum, desc, vfiles, vlog, lastSeq, memory, writer, pending, out,
                   comp, edit, victims, held, acked, ackedSync, crashes>>

\* ScanTable of every table gives its largest sequence number.
MutNoSequence == 0
MaxSequence == Largest(UNION {content[n] : n \in vfiles} \cup {0})

\* The edit of WriteDescriptor.
Descriptor == [files |-> vfiles, log |-> 0, next |-> next, last |-> MaxSequence]

\* WriteDescriptor writes a temporary file, not synced, moves the old
\* MANIFEST files away, and renames.
ArchiveManifest ==
    /\ pc = "repair" /\ toReplay = {}
    /\ \E v \in victims :
          /\ victims' = victims \ {v}
          /\ manifests' = manifests \ {v[2]}
          /\ man' = [man EXCEPT ![v[2]] = NoManifest]
    /\ UNCHANGED <<logFiles, logs, tables, content, current, durCurrent, currentOk, pc, up,
                   numbers, memory, writer, toReplay, pending, out, comp, edit, held, bgErr,
                   promises, crashes>>

RenameDescriptor ==
    /\ pc = "repair" /\ toReplay = {} /\ victims = {}
    /\ manifests' = manifests \cup {1}
    /\ man' = [man EXCEPT ![1] = [recs |-> <<Descriptor>>, safe |-> 0, tail |-> "clean"]]
    /\ pc' = "repairCurrent"
    /\ UNCHANGED <<logFiles, logs, tables, content, current, durCurrent, currentOk, up,
                   numbers, memory, writer, work, held, bgErr, promises, crashes>>

\* SetCurrentFile, and RepairDB returns OK.
RepairDone ==
    /\ pc = "repairCurrent"
    /\ current' = 1 /\ currentOk' = TRUE
    /\ Down
    /\ UNCHANGED <<logFiles, logs, tables, content, manifests, man, durCurrent, promises,
                   crashes>>

\* A step of WriteDescriptor fails, or the process dies.
RepairFails ==
    /\ Repairing
    /\ pc' = "unrepaired" /\ NoDBImpl
    /\ UNCHANGED <<disk, promises, crashes>>

-----------------------------------------------------------------------------
RepairNext ==
    \/ Next
    \/ FindFiles \/ ArchiveLog \/ ArchiveManifest
    \/ \E n \in toReplay : ConvertLogToTable(n)
    \/ RenameDescriptor \/ RepairDone \/ RepairFails

RepairSpec == Init /\ [][RepairNext]_vars

-----------------------------------------------------------------------------
(* Properties *)

\* Whatever becomes of the MANIFEST and of earlier repairs, the tables and log
\* files of the directory hold every write that returned OK, so that RepairDB
\* can find it; and once RepairDB has returned OK, or was never needed, Open
\* finds it.  The exception is what RepairDB gives up: ConvertLogFilesToTables
\* ignores an error of ConvertLogToTable and moves the log file to lost/
\* (repair.cc:122-132), and RepairDB returns OK without its entries.
RepairKeeps ==
    /\ acked \ lost \subseteq UNION {content[n] : n \in tables}
                               \cup UNION {logs[n].recs : n \in logFiles}
    /\ ~Repairing /\ pc \notin {"unrepaired", "broken"} =>
          acked \ lost \subseteq
             Found(StateAt(current, Largest(Prefixes(current))), AllRecords)

\* Whichever write to a file failed, and whether the last log file and MANIFEST
\* go on or not, an open database serves every write it acknowledged, except
\* what a repair has left in lost/.
RestServed ==
    up => acked \ lost \subseteq mem \cup imm \cup UNION {content[f] : f \in vfiles}
=============================================================================
