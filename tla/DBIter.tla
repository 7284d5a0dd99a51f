------------------------------- MODULE DBIter -------------------------------
(***************************************************************************)
(* An iterator on the database (src/src/db/db_iter.cc) over the merged     *)
(* internal iterator of the memtable, the level-0 tables and a level of    *)
(* disjoint tables.  It must behave as a cursor on what its snapshot sees, *)
(* in both directions and across changes of direction.                     *)
(*                                                                         *)
(* Left out: read sampling (ParseKey's calls of RecordReadSample, which    *)
(* Compaction models), corrupt keys and I/O errors.  A value is a number.  *)
(***************************************************************************)
EXTENDS Table

CONSTANTS Databases,  \* contents: [mem, l0, l1], sets of entries and sequences of sets
          Targets     \* user keys to seek

VARIABLES db,         \* the contents, fixed
          snapshot,   \* sequence_
          iter,       \* iter_, the internal iterator
          forward,    \* direction_ = kForward
          valid,      \* valid_
          savedKey,   \* saved_key_
          savedVal,   \* saved_value_
          view,       \* history: what the snapshot sees, fixed
          call        \* history: the last call, and where Next or Prev started

vars == <<db, snapshot, iter, forward, valid, savedKey, savedVal, view, call>>

\* The entries of a set in the order of their keys.
Sorted(S) ==
    [i \in 1..Cardinality(S) |->
        CHOOSE e \in S : Cardinality({o \in S : Before(o.key, e.key)}) = i - 1]

TableOf(S) == BuildTable(Sorted(S))
FileOf(S) == [table |-> TableOf(S), largest |-> Last(Sorted(S)).key]

\* Version::AddIterators: one per level-0 table and one for the level below.
AddIterators(d) ==
    [i \in DOMAIN d.l0 |-> NewTableIter(TableOf(d.l0[i]))]
    \o (IF d.l1 = <<>> THEN <<>>
        ELSE <<NewLevelIter([i \in DOMAIN d.l1 |-> FileOf(d.l1[i])])>>)

NewInternalIterator(d) ==
    NewMergingIter(<<NewListIter(Sorted(d.mem))>> \o AddIterators(d))

Contents(d) == d.mem \cup UNION {d.l0[i] : i \in DOMAIN d.l0}
                      \cup UNION {d.l1[i] : i \in DOMAIN d.l1}

\* The newest entry of a user key in S at or below seq, if there is one.
NewestOf(S, user, seq) ==
    {e \in S : /\ UserKey(e.key) = user /\ Sequence(e.key) <= seq
               /\ \A o \in S : UserKey(o.key) = user /\ Sequence(o.key) <= seq
                                   => Tag(o.key) <= Tag(e.key)}

\* The database as a snapshot at seq sees it.
View(S, seq) ==
    LET visible == {e \in S : e \in NewestOf(S, UserKey(e.key), seq) /\ IsValue(e.key)}
    IN  [u \in {UserKey(e.key) : e \in visible} |->
            (CHOOSE e \in visible : UserKey(e.key) = u).val]

Init ==
    /\ db \in Databases
    /\ snapshot \in {0} \cup {Sequence(e.key) : e \in Contents(db)}
    /\ view = View(Contents(db), snapshot)
    /\ iter = NewInternalIterator(db)
    /\ forward = TRUE /\ valid = FALSE /\ savedKey = <<>> /\ savedVal = 0
    /\ call = <<>>

-----------------------------------------------------------------------------
(* The state of a DBIter is a record [iter, forward, valid, skey, sval].    *)

This == [iter |-> iter, forward |-> forward, valid |-> valid,
         skey |-> savedKey, sval |-> savedVal]

\* Key() and Value(); Position is what the caller sees.
Key == IF forward THEN UserKey(Entry(iter).key) ELSE savedKey
Value == IF forward THEN Entry(iter).val ELSE savedVal
Position == IF valid THEN <<Key, Value>> ELSE <<>>

\* The call c leaves the DBIter in the state d.
Become(c, d) ==
    /\ call' = c
    /\ iter' = d.iter /\ forward' = d.forward /\ valid' = d.valid
    /\ savedKey' = d.skey /\ savedVal' = d.sval
    /\ UNCHANGED <<db, snapshot, view>>

Moved(d, op) == [d EXCEPT !.iter = Move(@, op)]
Seen(d) == Sequence(Entry(d.iter).key) <= snapshot
User(d) == UserKey(Entry(d.iter).key)

MutHiddenBefore(user, skip) == UserBefore(user, skip)
Hidden(user, skip) == ~UserBefore(skip, user)

RECURSIVE FindNextUserEntry(_, _)
FindNextUserEntry(d, skipping) ==
    IF ~Valid(d.iter) THEN [d EXCEPT !.skey = <<>>, !.valid = FALSE]
    ELSE IF ~Seen(d) THEN FindNextUserEntry(Moved(d, <<"next">>), skipping)
    ELSE IF ~IsValue(Entry(d.iter).key)
      THEN FindNextUserEntry(Moved([d EXCEPT !.skey = User(d)], <<"next">>), TRUE)
    ELSE IF skipping /\ Hidden(User(d), d.skey)
      THEN FindNextUserEntry(Moved(d, <<"next">>), skipping)
    ELSE [d EXCEPT !.skey = <<>>, !.valid = TRUE]

\* The end of a scan backwards that found nothing.
Exhausted(d) == [d EXCEPT !.valid = FALSE, !.skey = <<>>, !.sval = 0, !.forward = TRUE]

\* FindPrevUserEntry; value says whether the saved entry is a value.
RECURSIVE FindPrevUserEntry(_, _)
FindPrevUserEntry(d, value) ==
    IF ~Valid(d.iter) \/ (Seen(d) /\ value /\ UserBefore(User(d), d.skey))
      THEN IF value THEN [d EXCEPT !.valid = TRUE] ELSE Exhausted(d)
    ELSE IF ~Seen(d) THEN FindPrevUserEntry(Moved(d, <<"prev">>), value)
    ELSE IF IsValue(Entry(d.iter).key)
      THEN FindPrevUserEntry(Moved([d EXCEPT !.skey = User(d), !.sval = Entry(d.iter).val],
                                   <<"prev">>), TRUE)
    ELSE FindPrevUserEntry(Moved([d EXCEPT !.skey = <<>>, !.sval = 0], <<"prev">>), FALSE)

Seek(target) ==
    LET d == [This EXCEPT !.forward = TRUE, !.sval = 0, !.skey = SeekKey(target, snapshot),
                          !.iter = Move(@, <<"seek", SeekKey(target, snapshot)>>)]
    IN  Become(<<"seek", target>>,
               IF Valid(d.iter) THEN FindNextUserEntry(d, FALSE)
               ELSE [d EXCEPT !.valid = FALSE])

SeekToFirst ==
    LET d == Moved([This EXCEPT !.forward = TRUE, !.sval = 0], <<"first">>)
    IN  Become(<<"first">>,
               IF Valid(d.iter) THEN FindNextUserEntry(d, FALSE)
               ELSE [d EXCEPT !.valid = FALSE])

SeekToLast ==
    Become(<<"last">>,
           FindPrevUserEntry(Moved([This EXCEPT !.forward = FALSE, !.sval = 0], <<"last">>),
                             FALSE))

Next ==
    /\ valid
    /\ LET turn == IF Valid(iter) THEN <<"next">> ELSE <<"first">>
           d == IF forward THEN Moved([This EXCEPT !.skey = User(This)], <<"next">>)
                ELSE Moved([This EXCEPT !.forward = TRUE], turn)
       IN  Become(<<"next", Position>>,
                  IF Valid(d.iter) THEN FindNextUserEntry(d, TRUE)
                  ELSE [d EXCEPT !.valid = FALSE, !.skey = <<>>])

\* Prev's scan to before the entries of saved_key_.
RECURSIVE BeforeSaved(_)
BeforeSaved(d) ==
    LET p == Moved(d, <<"prev">>)
    IN  IF Valid(p.iter) /\ ~UserBefore(User(p), p.skey) THEN BeforeSaved(p) ELSE p

Prev ==
    /\ valid
    /\ LET d == IF forward THEN BeforeSaved([This EXCEPT !.skey = User(This)]) ELSE This
       IN  Become(<<"prev", Position>>,
                  IF forward /\ ~Valid(d.iter)
                    THEN [d EXCEPT !.valid = FALSE, !.skey = <<>>, !.sval = 0]
                    ELSE FindPrevUserEntry([d EXCEPT !.forward = FALSE], FALSE))

Step == SeekToFirst \/ SeekToLast \/ Next \/ Prev \/ \E t \in Targets : Seek(t)
Spec == Init /\ [][Step]_vars

-----------------------------------------------------------------------------

Abstract == INSTANCE Cursor WITH at <- Position

\* DBIter is a cursor on the keys and values its snapshot sees: a Next takes it
\* to the next key of a sorted map, a Prev to the one before, a seek to the
\* first key at or behind its target, and each of them to no key where the map
\* has none.  This holds whatever sequence of seeks, steps and turns led there,
\* whichever tables and blocks the entries are in, and although deletions and
\* newer entries lie between.  The history variable call ties each call of
\* DBIter to the same call of the cursor, made from the same position.
IsCursor == Abstract!Spec

\* The comment on Direction (db_iter.cc:33-36): moving forward the internal
\* iterator is at the entry that yields Key() and Value(); moving backwards it
\* is before all entries of Key(), with nothing the snapshot sees in between.
DirectionHolds ==
    valid =>
        IF forward
          THEN Valid(iter) /\ Entry(iter) \in NewestOf(Contents(db), Key, snapshot)
          ELSE /\ Valid(iter) => UserBefore(UserKey(Entry(iter).key), savedKey)
               /\ \A e \in Contents(db) :
                      /\ UserBefore(UserKey(e.key), savedKey)
                      /\ ~Valid(iter) \/ Before(Entry(iter).key, e.key)
                      => Sequence(e.key) > snapshot

\* SaveValue: what a lookup of user keeps of the entries handed to it.
SaveValue(user, got) == {got[i] : i \in {i \in DOMAIN got : UserKey(got[i].key) = user}}

\* Table::InternalGet with SaveValue finds the newest entry of a user key at
\* or below a sequence number in every table, and nothing if there is none:
\* index separators, filters and restart points lose no entry.
TableGetCorrect ==
    ~valid => \A S \in {db.l0[i] : i \in DOMAIN db.l0} \cup {db.l1[i] : i \in DOMAIN db.l1} :
        \A u \in Targets, s \in {Sequence(e.key) : e \in S} :
            NewestOf(S, u, s) = SaveValue(u, InternalGet(TableOf(S), SeekKey(u, s)))

=============================================================================
