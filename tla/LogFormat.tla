----------------------------- MODULE LogFormat ------------------------------
(***************************************************************************)
(* The format of the write-ahead log and the MANIFEST: log::Writer cuts    *)
(* records into fragments that fit into blocks, log::Reader puts them      *)
(* together again and skips what is damaged (src/src/db/log_writer.cc,     *)
(* log_reader.cc, log_format.h).  The Writer appends to a                  *)
(* PosixWritableFile, which has a buffer (src/src/util/env.cc).            *)
(*                                                                         *)
(* A byte of the file is [frag, at]: byte number at of the fragment with   *)
(* its header.  A fragment is [rec, from, len, type]: the bytes from + 1   *)
(* to from + len of record rec.  Filler and damaged bytes have a fragment  *)
(* of their own.  The checksum tells a fragment that is all there from     *)
(* anything else.  Where a header is not intact the length and type read   *)
(* from it are arbitrary; on every path the reader then drops the buffer.  *)
(***************************************************************************)
EXTENDS Integers, Sequences, FiniteSets, SequencesExt, FiniteSetsExt

CONSTANTS
    BlockSize,    \* kBlockSize
    HeaderSize,   \* kHeaderSize
    BufferSize,   \* kWritableFileBufferSize
    Lengths,      \* lengths of records
    MaxRecords,   \* bound on the number of records
    MaxCrashes,   \* bound on crashes of the writer
    MaxDamage     \* bound on damaged bytes

ASSUME LogFormatAssumption ==
    /\ HeaderSize \in Nat \ {0} /\ BlockSize \in Nat /\ BlockSize > HeaderSize
    /\ BufferSize \in Nat \ {0}
    /\ Lengths \cup {MaxRecords, MaxCrashes, MaxDamage} \subseteq Nat

VARIABLES
    file,      \* the bytes of the file
    offset,    \* block_offset_ of the Writer
    records,   \* for each call of AddRecord [len, first, last, ok]: the length of
               \* its record, its bytes in the file, and whether it returned OK
    crashes,   \* number of crashes so far
    damage,    \* number of damaged bytes
    spoiled    \* where fragments begin that a crash cut or damage hit

vars == <<file, offset, records, crashes, damage, spoiled>>

Init ==
    /\ file = <<>> /\ offset = 0 /\ records = <<>>
    /\ crashes = 0 /\ damage = 0 /\ spoiled = {}

-----------------------------------------------------------------------------
(* PosixWritableFile: [data, buf], the bytes written to the file and buf_ *)

WriteUnbuffered(f, bytes) == [f EXCEPT !.data = @ \o bytes]

FlushBuffer(f) == [WriteUnbuffered(f, f.buf) EXCEPT !.buf = <<>>]

\* Append fills the buffer.  What does not fit goes, when the buffer has been
\* written, into the empty buffer or, if it is as large, straight to the file.
AppendBytes(f, bytes) ==
    LET n    == Min({Len(bytes), BufferSize - Len(f.buf)})
        full == [f EXCEPT !.buf = @ \o SubSeq(bytes, 1, n)]
        rest == SubSeq(bytes, n + 1, Len(bytes))
    IN  IF rest = <<>> THEN full
        ELSE IF Len(rest) < BufferSize THEN [FlushBuffer(full) EXCEPT !.buf = rest]
        ELSE WriteUnbuffered(FlushBuffer(full), rest)

-----------------------------------------------------------------------------
(* Writer *)

Filler == [rec |-> 0, from |-> 0, len |-> 0, type |-> "zero"]
Damaged == [rec |-> 0, from |-> 0, len |-> 0, type |-> "damaged"]

\* EmitPhysicalRecord appends the header and the bytes of a fragment, and
\* flushes.
Emitted(frag, from, to) == [i \in 1..(to - from) |-> [frag |-> frag, at |-> from + i]]
EmitPhysicalRecord(f, frag) ==
    FlushBuffer(AppendBytes(AppendBytes(f, Emitted(frag, 0, HeaderSize)),
                            Emitted(frag, HeaderSize, HeaderSize + frag.len)))

\* No header fits into the rest of the block.
Full(off) == BlockSize - off < HeaderSize

Trailer(off) ==
    [i \in 1..(IF Full(off) THEN BlockSize - off ELSE 0) |-> [frag |-> Filler, at |-> 1]]

MutNeverFull(begin, end) == IF begin THEN "first" ELSE IF end THEN "last" ELSE "middle"
Type(begin, end) ==
    IF begin /\ end THEN "full" ELSE IF begin THEN "first" ELSE IF end THEN "last" ELSE "middle"

\* The loop of AddRecord: what it makes of the file f from the byte from + 1 of
\* the record on, at offset off of a block.
RECURSIVE Fragments(_, _, _, _, _, _)
Fragments(f, rec, length, from, begin, off) ==
    LET at    == IF Full(off) THEN 0 ELSE off
        avail == BlockSize - at - HeaderSize
        len   == Min({length - from, avail})
        end   == length - from = len
        g     == EmitPhysicalRecord(AppendBytes(f, Trailer(off)),
                     [rec |-> rec, from |-> from, len |-> len, type |-> Type(begin, end)])
    IN  IF end THEN g ELSE Fragments(g, rec, length, from + len, FALSE, at + HeaderSize + len)

\* The bytes that the next record of this length adds to the file.
NewBytes(length) ==
    Fragments([data |-> <<>>, buf |-> <<>>], Len(records) + 1, length, 0, TRUE, offset).data

\* block_offset_ after n > 0 bytes.
NewOffset(n) == ((offset + n - 1) % BlockSize) + 1

Record(length, bytes, isOk) ==
    [len |-> length, first |-> Len(file) + Len(Trailer(offset)) + 1,
     last |-> Len(file) + Len(bytes), ok |-> isOk]

AddRecord(length) ==
    /\ Len(records) < MaxRecords
    /\ LET bytes == NewBytes(length)
       IN  /\ file' = file \o bytes
           /\ offset' = NewOffset(Len(bytes))
           /\ records' = Append(records, Record(length, bytes, TRUE))
    /\ UNCHANGED <<crashes, damage, spoiled>>

\* The process dies in AddRecord with a part of the bytes in the file; the next
\* process goes on with a Writer(dest, dest_length).
Crash(length) ==
    /\ crashes < MaxCrashes /\ Len(records) < MaxRecords
    /\ LET bytes == NewBytes(length)
       IN  \E n \in 0..(Len(bytes) - 1) :
              /\ file' = file \o SubSeq(bytes, 1, n)
              /\ records' = Append(records, Record(length, SubSeq(bytes, 1, n), FALSE))
              /\ spoiled' = IF n = 0 \/ bytes[n + 1].at = 1 THEN spoiled
                            ELSE spoiled \cup {Len(file) + n + 1 - bytes[n].at}
    /\ offset' = Len(file') % BlockSize
    /\ crashes' = crashes + 1
    /\ UNCHANGED damage

\* A byte of the file is changed.
Corrupt ==
    /\ damage < MaxDamage
    /\ \E i \in DOMAIN file :
          /\ file[i].frag # Damaged
          /\ file' = [file EXCEPT ![i] = [frag |-> Damaged, at |-> 1]]
          /\ spoiled' = spoiled \cup {i + 1 - file[i].at}
    /\ damage' = damage + 1
    /\ UNCHANGED <<offset, records, crashes>>

Next == Corrupt \/ \E length \in Lengths : AddRecord(length) \/ Crash(length)

Spec == Init /\ [][Next]_vars

-----------------------------------------------------------------------------
(* Reader.  A reader is [initial, pos, buf, eof, resync, type, frag, start,  *)
(* within, scratch, out]: initial_offset_, end_of_buffer_offset_, buffer_,   *)
(* eof_, resyncing_; the type and bytes of the physical record it is at;     *)
(* in_fragmented_record, scratch, and the records it has returned.           *)

\* The Reader after SkipToInitialBlock.
NewReader(initial) ==
    LET at == initial % BlockSize
    IN  [initial |-> initial,
         pos |-> initial - at + IF at > BlockSize - (HeaderSize - 1) THEN BlockSize ELSE 0,
         buf |-> <<>>, eof |-> FALSE, resync |-> initial > 0, type |-> "zero", frag |-> <<>>,
         within |-> FALSE, scratch |-> <<>>, out |-> <<>>]

\* The first n bytes are those of a fragment.
Intact(buf, n) == \A i \in 1..n : buf[i] = [frag |-> buf[1].frag, at |-> i]

Payload(frag) == [i \in 1..frag.len |-> <<frag.rec, frag.from + i>>]

Dropped(r, type) == [r EXCEPT !.buf = <<>>, !.type = type, !.frag = <<>>]

RECURSIVE ReadPhysicalRecord(_)
ReadPhysicalRecord(r) ==
    IF Len(r.buf) < HeaderSize
      THEN IF r.eof THEN Dropped(r, "eof")
           ELSE LET chunk == SubSeq(file, r.pos + 1, Min({r.pos + BlockSize, Len(file)}))
                IN  ReadPhysicalRecord([r EXCEPT !.buf = chunk, !.pos = @ + Len(chunk),
                                                 !.eof = Len(chunk) < BlockSize])
    ELSE LET f == r.buf[1].frag
             n == HeaderSize + f.len
             rest == SubSeq(r.buf, n + 1, Len(r.buf))
         IN  IF ~Intact(r.buf, HeaderSize) THEN Dropped(r, "bad")
             ELSE IF n > Len(r.buf) THEN Dropped(r, IF r.eof THEN "eof" ELSE "bad")
             ELSE IF ~Intact(r.buf, n) THEN Dropped(r, "bad")
             ELSE IF r.pos - Len(rest) - n < r.initial
               THEN [r EXCEPT !.buf = rest, !.type = "bad", !.frag = <<>>]
             ELSE [r EXCEPT !.buf = rest, !.type = f.type, !.frag = Payload(f)]

MutKeepScratch(r) == r
\* What ReadRecord does at a bad record.
GiveUp(r) == [r EXCEPT !.within = FALSE, !.scratch = <<>>]

Returned(r, bytes) ==
    [r EXCEPT !.out = Append(@, bytes), !.within = FALSE, !.scratch = <<>>]

\* The switch of ReadRecord on a physical record that is not kEof.
Assemble(r) ==
    CASE r.type = "full"   -> Returned(r, r.frag)
      [] r.type = "first"  -> [r EXCEPT !.within = TRUE, !.scratch = r.frag]
      [] r.type = "middle" -> IF r.within THEN [r EXCEPT !.scratch = @ \o r.frag] ELSE r
      [] r.type = "last"   -> IF r.within THEN Returned(r, r.scratch \o r.frag) ELSE r
      [] r.type = "bad"    -> GiveUp(r)

Resynced(r) == [r EXCEPT !.resync = r.type = "middle"]

\* ReadRecord called until it returns false.
RECURSIVE ReadFrom(_)
ReadFrom(r) ==
    LET p == ReadPhysicalRecord(r)
    IN  IF p.type = "eof" THEN p.out
        ELSE IF p.resync /\ p.type \in {"middle", "last"} THEN ReadFrom(Resynced(p))
        ELSE ReadFrom(Assemble([p EXCEPT !.resync = FALSE]))

Read(initial) == ReadFrom(NewReader(initial))

-----------------------------------------------------------------------------
(* Properties *)

Extent(r) == records[r].first..records[r].last
Bytes(r) == [i \in 1..records[r].len |-> <<r, i>>]

\* The records in the set S, in order.
Contents(S) ==
    LET ids == SelectSeq([i \in DOMAIN records |-> i], LAMBDA r : r \in S)
    IN  [i \in DOMAIN ids |-> Bytes(ids[i])]

Acknowledged == {r \in DOMAIN records : records[r].ok}

\* A log that no crash cut and nothing damaged is read back as it was written,
\* from its beginning, and from any other offset on all records that begin at
\* or behind it: fragments, fillers and empty fragments lose nothing.
ReadsBack ==
    crashes = 0 /\ damage = 0 =>
        \A o \in 0..Len(file) :
            Read(o) = Contents({r \in DOMAIN records : records[r].first > o})

\* Whatever was cut or damaged, each record that is read is all of one record
\* AddRecord returned OK for, and they come in the order they were written:
\* ReadRecord never joins pieces of two records.  A record is lost only if it
\* has bytes in a block behind a place in the same block that was cut or
\* damaged: the reader is in step again at the next block.
LossBounded ==
    \E S \in SUBSET Acknowledged :
        /\ Read(0) = Contents(S)
        /\ \A r \in Acknowledged \ S : \E q \in Extent(r), s \in spoiled :
              s <= q /\ (s - 1) \div BlockSize = (q - 1) \div BlockSize
=============================================================================
