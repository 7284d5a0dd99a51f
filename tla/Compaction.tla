----------------------------- MODULE Compaction -----------------------------
(***************************************************************************)
(* How entries move through the memtables and the levels: writes and       *)
(* deletions, snapshots, the switch and the flush of the memtable, and     *)
(* compactions by size, by seeks and by request, as the background thread  *)
(* runs them (src/src/db/db_impl.cc: BackgroundCompaction,                 *)
(* DoCompactionWork, CompactMemTable; src/src/db/version_set.cc).          *)
(*                                                                         *)
(* A compaction is two steps: it chooses its inputs and its smallest       *)
(* snapshot under the mutex, and it installs its outputs.  Between them    *)
(* writers and snapshots go on, and the compaction itself may flush imm_.  *)
(* What it writes depends on what it chose at the first step alone.        *)
(*                                                                         *)
(* A batch is one entry.  Snapshots at one sequence number are one.        *)
(* I/O errors, the log and the MANIFEST are in WritePath and Durability.   *)
(***************************************************************************)
EXTENDS Versions

CONSTANTS
    MaxKey,         \* user keys are 1..MaxKey
    MaxSeq,         \* bound on the number of writes
    Deletions,      \* the kinds of writes: TRUE is a deletion
    MaxSnapshots,   \* bound on the snapshots held at a time
    MaxSeeks,       \* bound on the times a file runs out of seeks
    ManualRanges    \* the calls of CompactRangeAtLevel: [level, begin, end]

Keys == 1..MaxKey
Seqs == 1..MaxSeq

ASSUME CompactionAssumption ==
    /\ MaxKey \in Nat \ {0} /\ MaxSeq \in Nat /\ MaxSnapshots \in Nat /\ MaxSeeks \in Nat
    /\ ManualRanges \subseteq [level : 0..(NumLevels - 2), begin : Int, end : Int]
    /\ Deletions \subseteq BOOLEAN

VARIABLES
    mem,        \* mem_
    imm,        \* imm_, empty when there is none
    version,    \* versions_->current(): the files of each level
    next,       \* next_file_number_
    pointer,    \* compact_pointer_: <<>> or <<key>> for each level
    seek,       \* file_to_compact_ with its level: <<>> or <<[level, file]>>
    snapshots,  \* the sequence numbers in snapshots_
    comp,       \* the compaction at work: <<>> or <<compaction>>
    manual,     \* a call of CompactRangeAtLevel: <<>> or <<[level, begin, end, armed,
                \* done]>>, armed while manual_compaction_ points to it
    hist,       \* every entry ever written
    seeks       \* the number of seek compactions asked for

vars == <<mem, imm, version, next, pointer, seek, snapshots, comp, manual, hist, seeks>>

LastSequence == Cardinality(hist)

Init ==
    /\ mem = {} /\ imm = {} /\ hist = {}
    /\ version = [level \in Levels |-> {}]
    /\ next = 1
    /\ pointer = [level \in Levels |-> <<>>]
    /\ seek = <<>> /\ comp = <<>> /\ manual = <<>>
    /\ snapshots = {}
    /\ seeks = 0

-----------------------------------------------------------------------------
(* Users *)

Write(key, del) ==
    /\ LastSequence < MaxSeq
    /\ LET e == [key |-> key, seq |-> LastSequence + 1, del |-> del]
       IN  mem' = mem \cup {e} /\ hist' = hist \cup {e}
    /\ UNCHANGED <<imm, version, next, pointer, seek, snapshots, comp, manual, seeks>>

\* MakeRoomForWrite freezes the memtable.
Switch ==
    /\ mem # {} /\ imm = {}
    /\ imm' = mem /\ mem' = {}
    /\ UNCHANGED <<version, next, pointer, seek, snapshots, comp, manual, hist, seeks>>

GetSnapshot ==
    /\ Cardinality(snapshots) < MaxSnapshots
    /\ snapshots' = snapshots \cup {LastSequence}
    /\ UNCHANGED <<mem, imm, version, next, pointer, seek, comp, manual, hist, seeks>>

ReleaseSnapshot ==
    /\ \E s \in snapshots : snapshots' = snapshots \ {s}
    /\ UNCHANGED <<mem, imm, version, next, pointer, seek, comp, manual, hist, seeks>>

MutSeekLast(key) ==
    /\ seek = <<>> /\ seeks < MaxSeeks
    /\ \E s \in snapshots \cup {LastSequence} :
          LET files == ForEachOverlapping(version, key, s)
          IN  Len(files) > 1 /\ seek' = <<Last(files)>>
    /\ seeks' = seeks + 1
    /\ UNCHANGED <<mem, imm, version, next, pointer, snapshots, comp, manual, hist>>

\* UpdateStats, from a Get or a sampled read that had to look into a second
\* file: the first file has used up its seeks.
Seek(key) ==
    /\ seek = <<>> /\ seeks < MaxSeeks
    /\ \E s \in snapshots \cup {LastSequence} :
          LET files == ForEachOverlapping(version, key, s)
          IN  Len(files) > 1 /\ seek' = <<files[1]>>
    /\ seeks' = seeks + 1
    /\ UNCHANGED <<mem, imm, version, next, pointer, snapshots, comp, manual, hist>>

NewManual(m) ==
    [level |-> m.level, begin |-> m.begin, end |-> m.end, armed |-> TRUE, done |-> FALSE]

MutRequestOnce ==
    /\ manual = <<>>
    /\ \E m \in ManualRanges : manual' = <<NewManual(m)>>
    /\ UNCHANGED <<mem, imm, version, next, pointer, seek, snapshots, comp, hist, seeks>>

\* CompactRangeAtLevel: a new call, or one that goes on after a round.
RequestManual ==
    /\ \/ /\ manual = <<>>
          /\ \E m \in ManualRanges : manual' = <<NewManual(m)>>
       \/ /\ manual # <<>> /\ ~manual[1].armed /\ ~manual[1].done
          /\ manual' = <<[manual[1] EXCEPT !.armed = TRUE]>>
    /\ UNCHANGED <<mem, imm, version, next, pointer, seek, snapshots, comp, hist, seeks>>

-----------------------------------------------------------------------------
(* The background thread *)

\* file_to_compact_ of a new version.
NewStats == <<>>

\* next_file_number_ after n new files.
NewFileNumbers(n) == next + n

\* CompactMemTable, also from within DoCompactionWork.
Flush ==
    /\ imm # {}
    /\ LET level == PickLevelForMemTableOutput(version, SmallestKey(imm).key, LargestKey(imm).key)
       IN  version' = [version EXCEPT ![level] = @ \cup {NewFile(next, imm)}]
    /\ next' = NewFileNumbers(1)
    /\ imm' = {} /\ seek' = NewStats
    /\ UNCHANGED <<mem, pointer, snapshots, comp, manual, hist, seeks>>

SmallestSnapshot == IF snapshots = {} THEN LastSequence ELSE Min(snapshots)

\* The file numbers of the inputs, deleted at their levels, and the outputs.
ApplyEdit(c, outs) ==
    [version EXCEPT ![c.level] = @ \ c.in0, ![c.level + 1] = (@ \ c.in1) \cup outs]

\* The start of DoCompactionWork, with the version it refers to.
StartWork(c, isManual) ==
    comp' = <<[c |-> c, base |-> version, snapshot |-> SmallestSnapshot, manual |-> isManual]>>

\* PickCompaction: a compaction by size or by seeks, if one is needed.  Its
\* assertion that there is a next level ends the process when the level that
\* Finalize found full is the last one.
Picked ==
    LET score == Finalize(version)
    IN  IF ~score.full THEN {PickFrom(version, s.level, {s.file}) : s \in Range(seek)}
        ELSE IF score.level + 1 = NumLevels THEN {}
        ELSE {PickFrom(version, score.level, PickBySize(version, pointer, score.level))}

Armed == manual # <<>> /\ manual[1].armed

NeedsCompaction == Finalize(version).full \/ seek # <<>>

\* background_compaction_scheduled_: MaybeScheduleCompaction found work.
Scheduled == imm # {} \/ comp # <<>> \/ Armed \/ NeedsCompaction

\* BackgroundCompaction without a request.  A trivial move is applied at once.
Automatic ==
    /\ comp = <<>> /\ imm = {} /\ ~Armed
    /\ \E c \in Picked :
       /\ pointer' = [pointer EXCEPT ![c.level] = <<c.pointer>>]
       /\ \/ /\ IsTrivialMove(c)
             /\ version' = ApplyEdit(c, c.in0)
             /\ seek' = NewStats
             /\ UNCHANGED comp
          \/ /\ ~IsTrivialMove(c)
             /\ StartWork(c, FALSE)
             /\ UNCHANGED <<version, seek>>
    /\ UNCHANGED <<mem, imm, next, snapshots, manual, hist, seeks>>

\* BackgroundCompaction with a request, which is done when nothing is left to
\* compact and otherwise goes on behind the last input.
Manual ==
    /\ comp = <<>> /\ imm = {} /\ Armed
    /\ \E m \in Range(manual) : \E inputs \in {RangeInputs(version, m.level, m.begin, m.end)} :
          \/ /\ inputs = {}
             /\ manual' = <<[m EXCEPT !.armed = FALSE, !.done = TRUE]>>
             /\ UNCHANGED <<pointer, comp>>
          \/ /\ inputs # {}
             /\ \E c \in {SetupOtherInputs(version, m.level, inputs)} :
                   /\ pointer' = [pointer EXCEPT ![m.level] = <<c.pointer>>]
                   /\ manual' = <<[m EXCEPT !.begin = Last(Sorted(c.in0)).largest.key]>>
                   /\ StartWork(c, TRUE)
    /\ UNCHANGED <<mem, imm, version, next, seek, snapshots, hist, seeks>>

\* The end of DoCompactionWork: InstallCompactionResults.
Install ==
    /\ comp # <<>>
    /\ \E w \in Range(comp) : \E outs \in {Outputs(w.c, w.base, w.snapshot)} :
          /\ version' = ApplyEdit(w.c, {NewFile(next + i - 1, outs[i]) : i \in DOMAIN outs})
          /\ next' = NewFileNumbers(Len(outs))
    /\ manual' = IF comp[1].manual THEN <<[manual[1] EXCEPT !.armed = FALSE]>> ELSE manual
    /\ comp' = <<>> /\ seek' = NewStats
    /\ UNCHANGED <<mem, imm, pointer, snapshots, hist, seeks>>

\* CompactRangeAtLevel returns, once no background call is scheduled.
ManualReturns ==
    /\ manual # <<>> /\ manual[1].done /\ ~Scheduled
    /\ manual' = <<>>
    /\ UNCHANGED <<mem, imm, version, next, pointer, seek, snapshots, comp, hist, seeks>>

Background == Flush \/ Automatic \/ Manual \/ Install

Next ==
    \/ \E key \in Keys : Seek(key) \/ \E del \in Deletions : Write(key, del)
    \/ Switch \/ GetSnapshot \/ ReleaseSnapshot \/ RequestManual \/ ManualReturns
    \/ Background

Spec == Init /\ [][Next]_vars

\* The background thread is scheduled whenever there is work for it: this is
\* WF_vars(Background), with its ENABLED written as Scheduled and its step as
\* the changes that only the background thread makes.  The caller of
\* CompactRangeAtLevel is woken at the end of every background call.
BackgroundStep == version' # version \/ comp' # comp \/ (Armed /\ ~Armed')
GoOn == manual # <<>> /\ (RequestManual \/ ManualReturns)
FairSpec == Spec /\ ([]<>~Scheduled \/ []<><<BackgroundStep>>_vars) /\ WF_vars(GoOn)

-----------------------------------------------------------------------------
(* Properties *)

\* DBImpl::Get: the memtables, then the files of the version.
Get(key, seq) ==
    LET files == ForEachOverlapping(version, key, seq)
    IN  Search(<<mem, imm>> \o [i \in DOMAIN files |-> files[i].file.ents], key, seq)

\* Get answers from the newest entry at or below its snapshot that was ever
\* written, for every snapshot that is held and for the present, whatever
\* flushes and compactions have moved, merged, split or dropped.
ReadsCorrect ==
    \A key \in Keys : \A seq \in snapshots \cup {LastSequence} :
       Get(key, seq) = Search(<<hist>>, key, seq)

\* The files of a level below 0 do not overlap (Builder::SaveTo checks it).
LevelsDisjoint ==
    \A level \in Levels \ {0} : \A f, g \in version[level] :
       f = g \/ KeyBefore(f.largest, g.smallest) \/ KeyBefore(g.largest, f.smallest)

\* As long as the files of each level are disjoint, which Builder::SaveTo
\* checks, reads stay correct: through manual compactions, whose inputs
\* CompactRange trims, and through flushes in the middle of them.  What breaks
\* a read first is a step that makes two files of a level overlap.
ReadsUntilOverlap ==
    LevelsDisjoint => ReadsCorrect

\* Of one key, what is in a level is newer than what is in a deeper one, and
\* at level 0 what is in a younger file is newer: a search may stop at a hit.
NewerAbove ==
    \A l1, l2 \in Levels : \A f \in version[l1], g \in version[l2] :
       l1 < l2 \/ (l1 = 0 /\ l2 = 0 /\ f.num > g.num) =>
          \A e \in f.ents, o \in g.ents : e.key = o.key => e.seq > o.seq

\* A compaction by seeks has a level to write to, and the inputs of every
\* compaction are files of the current version until it is installed, although
\* flushes in between replace that version.  (A compaction by size may have no
\* level to write to: Finalize scores the last level too.)
CompactionValid ==
    /\ seek # <<>> => seek[1].level + 1 < NumLevels
    /\ comp # <<>> => /\ comp[1].c.in0 \subseteq version[comp[1].c.level]
                      /\ comp[1].c.in1 \subseteq version[comp[1].c.level + 1]

\* Every manual compaction ends, and once writers, readers and callers of
\* manual compactions rest so does the background thread: compactions do not
\* set each other off for ever.
Settles ==
    /\ []<>(manual = <<>>)
    /\ <>[](manual = <<>>) => <>[](imm = {} /\ comp = <<>> /\ ~NeedsCompaction)

=============================================================================
