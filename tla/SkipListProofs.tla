--------------------------- MODULE SkipListProofs ---------------------------
(***************************************************************************)
(* The inductive invariant of the skip list, why the constructor, every    *)
(* step of Insert and every step of a reader preserve it, and the          *)
(* theorems, for any number of keys and levels.                            *)
(*                                                                         *)
(* The heart of the argument is Successors: the value of every store to a  *)
(* link of level l is the next key on that level, at every moment until    *)
(* the link is stored again.  A reader that knows 1..seen may load a value *)
(* that is valid at seen, or a later one: both skip no key that is linked  *)
(* at seen.  RelaxedFirst, Initialised and Nested say why a reader that    *)
(* meets a node knows its links.                                           *)
(***************************************************************************)
EXTENDS SkipList, TLAPS

StoreSet == [n : Node, l : 0..kMaxHeight, v : Nat, release : BOOLEAN]

\* Nothing up to t stores again what the store i did.
Latest(i, t) == \A j \in i + 1..t : ~At(j, hist[i].n, hist[i].l)

Linked(l, t) == Keys(l, t) \cup {HeadNode}

\* v is the next of the keys K after n, or null.
Succ(n, v, K) == v > n /\ v \in K \cup {Nil} /\ \A k \in K : k > n => k >= v

Successors ==
    \A t \in 1..Len(hist) : \A i \in 1..t :
      hist[i].l \in Level /\ Latest(i, t)
        => Succ(hist[i].n, hist[i].v, Keys(hist[i].l, t))

Initialised ==
    \A l \in Level : \A t \in 1..Len(hist) : \A k \in Keys(l, t) : \E i \in 1..t : At(i, k, l)

RelaxedFirst ==
    \A i \in 1..Len(hist) :
      hist[i].l \in Level /\ ~hist[i].release => hist[i].n \notin Linked(hist[i].l, i)

Nested ==
    \A l, m \in Level : m < l => \A t \in 1..Len(hist) : Keys(l, t) \subseteq Keys(m, t)

HasLast ==
    \A l \in 0..kMaxHeight : \A n \in IF l = HeightSlot THEN {HeadNode} ELSE Linked(l, Len(hist)) :
      \E i \in 1..Len(hist) : At(i, n, l) /\ Latest(i, Len(hist))

Typed ==
    /\ hist \in Seq(StoreSet)
    /\ Len(hist) > kMaxHeight
    /\ \A l \in Level : At(l + 1, HeadNode, l)
    /\ \A i \in 1..Len(hist) :
         hist[i].l = HeightSlot => hist[i].n = HeadNode /\ hist[i].v \in 1..kMaxHeight

MemInv == Typed /\ Successors /\ Initialised /\ RelaxedFirst /\ Nested /\ HasLast

\* prev[l] is the node after which the new key belongs.
PrevOK(l) ==
    /\ prev[l] \in Linked(l, Len(hist))
    /\ prev[l] < wkey
    /\ Last(prev[l], l) > wkey

\* Only linked nodes and the one about to be linked have links.
Owners ==
    \A i \in 1..Len(hist) :
      hist[i].l \in Level =>
        \/ hist[i].n \in Linked(hist[i].l, Len(hist))
        \/ wpc = "link" /\ wlevel = hist[i].l /\ wkey = hist[i].n

WriterInv ==
    /\ wpc \in {"idle", "find", "height", "set", "link"}
    /\ inserted \subseteq Key
    /\ prev \in [Level -> Link]
    /\ \A l \in Level : l >= GetMaxHeight => Keys(l, Len(hist)) = {}
    /\ wpc \in {"idle", "find", "height"} => inserted = Keys(0, Len(hist))
    /\ wpc # "idle" => wkey \in Key \ inserted
    /\ wpc = "find" =>
         /\ wlevel \in 0..GetMaxHeight - 1
         /\ wx \in Linked(wlevel, Len(hist))
         /\ wx < wkey
         /\ \A l \in wlevel + 1..GetMaxHeight - 1 : PrevOK(l)
    /\ wpc = "height" => wlevel = 0 /\ \A l \in 0..GetMaxHeight - 1 : PrevOK(l)
    /\ wpc \in {"set", "link"} =>
         /\ wheight \in 1..GetMaxHeight
         /\ wlevel \in 0..wheight - 1
         /\ \A l \in wlevel..wheight - 1 : PrevOK(l)
         /\ \A l \in Level : wkey \in Keys(l, Len(hist)) <=> l < wlevel
         /\ Keys(0, Len(hist)) \ {wkey} = inserted
    /\ wpc = "link" => At(Len(hist), wkey, wlevel)
    /\ Owners

ReaderInv ==
    /\ rpc \in {"idle", "find"}
    /\ published \in 1..Len(hist)
    /\ hseen \in 0..Len(hist)
    /\ seen \in 1..Len(hist) /\ seen > kMaxHeight
    /\ since \in 1..seen
    /\ target \in Link
    /\ op = "SeekToLast" => target = Nil
    /\ rpc = "find" => /\ op \in {"Seek", "Contains", "SeekToLast", "Prev"}
                       /\ level \in Level /\ x \in Linked(level, seen) /\ x < target
    /\ node \in Link
    /\ node \in Key => node \in Keys(0, seen)

Inv == MemInv /\ WriterInv /\ ReaderInv /\ LookupsExact

-----------------------------------------------------------------------------
(* Memory *)

\* The value of a link is the value of the one store nobody overwrote.
LEMMA LastIs ==
    ASSUME Typed, NEW n, NEW l, NEW i \in 1..Len(hist), At(i, n, l), Latest(i, Len(hist))
    PROVE  Last(n, l) = hist[i].v
<1>1. Readable(n, l, Len(hist)) = {i}
  BY DEF Typed, Readable, At, Latest
<1> QED
  BY Zenon, <1>1 DEF Last

\* A load returns a link's successor at some moment at or after seen, and
\* whatever is loaded from a linked node was stored with release if late.
LEMMA LoadIs ==
    ASSUME MemInv, NEW known \in 1..Len(hist), NEW l \in Level,
           NEW n \in Linked(l, known), NEW i \in Readable(n, l, known)
    PROVE  /\ i \in 1..Len(hist)
           /\ LET t == Larger(known, i) IN
              /\ t \in known..Len(hist)
              /\ Succ(n, hist[i].v, Keys(l, t))
              /\ i > known => hist[i].release
<1>1. i \in 1..Len(hist) /\ At(i, n, l)
  BY DEF MemInv, Typed, Readable
<1>2. CASE i <= known
  <2>1. Latest(i, known)
    BY Zenon, <1>1 DEF Readable, Latest, At
  <2> QED
    BY <1>1, <1>2, <2>1 DEF MemInv, Successors, Larger, At
<1>3. CASE i > known
  <2>1. Latest(i, i)
    BY <1>1 DEF Latest
  <2>2. Succ(n, hist[i].v, Keys(l, i))
    BY <1>1, <2>1 DEF MemInv, Successors, At
  <2>3. n \in Linked(l, i)
    BY <1>1, <1>3 DEF Linked, Keys
  <2>4. hist[i].release
    BY Zenon, <1>1, <2>3 DEF MemInv, RelaxedFirst, At
  <2> QED
    BY <1>1, <1>3, <2>2, <2>4 DEF Larger
<1> QED
  BY <1>1, <1>2, <1>3

\* The current value of a link of a linked node.
LEMMA LastSucc ==
    ASSUME MemInv, NEW l \in Level, NEW n \in Linked(l, Len(hist))
    PROVE  Succ(n, Last(n, l), Keys(l, Len(hist)))
<1>0. l \in 0..kMaxHeight /\ l # HeightSlot /\ Len(hist) \in 1..Len(hist)
  BY SkipListAssumption DEF Level, HeightSlot, MemInv, Typed
<1>1. PICK i \in 1..Len(hist) : At(i, n, l) /\ Latest(i, Len(hist))
  BY Zenon, <1>0 DEF MemInv, HasLast
<1>2. Last(n, l) = hist[i].v
  BY Zenon, <1>1, LastIs DEF MemInv
<1> QED
  BY Zenon, <1>0, <1>1, <1>2 DEF MemInv, Successors, At

LEMMA HeightIs ==
    ASSUME MemInv
    PROVE  GetMaxHeight \in 1..kMaxHeight
<1>0. HeightSlot \in 0..kMaxHeight
  BY SkipListAssumption DEF HeightSlot
<1>1. PICK i \in 1..Len(hist) : At(i, HeadNode, HeightSlot) /\ Latest(i, Len(hist))
  BY Zenon, <1>0 DEF MemInv, HasLast
<1>2. GetMaxHeight = hist[i].v
  BY Zenon, <1>1, LastIs DEF MemInv, GetMaxHeight
<1> QED
  BY Zenon, <1>1, <1>2 DEF MemInv, Typed, At

-----------------------------------------------------------------------------
(* One more store *)

LEMMA Appended ==
    ASSUME hist \in Seq(StoreSet), NEW s \in StoreSet, hist' = Append(hist, s)
    PROVE  /\ hist' \in Seq(StoreSet)
           /\ Len(hist') = Len(hist) + 1 /\ Len(hist) \in Nat
           /\ \A i \in 1..Len(hist) : hist'[i] = hist[i]
           /\ hist'[Len(hist) + 1] = s
  OBVIOUS

\* What a store changes in the keys of a level.
LEMMA KeysAppend ==
    ASSUME hist \in Seq(StoreSet), NEW s \in StoreSet, hist' = Append(hist, s), NEW l
    PROVE  /\ \A t \in 0..Len(hist) : Keys(l, t)' = Keys(l, t)
           /\ Keys(l, Len(hist))' = Keys(l, Len(hist)) \cup {k \in Key : s.l = l /\ s.v = k}
<1>0. /\ Len(hist') = Len(hist) + 1 /\ Len(hist) \in Nat
      /\ \A i \in 1..Len(hist) : hist'[i] = hist[i]
      /\ hist'[Len(hist) + 1] = s
  BY Zenon, Appended
<1>1. ASSUME NEW t \in 0..Len(hist)
      PROVE  Keys(l, t)' = Keys(l, t)
  <2>1. \A i \in 1..t : hist'[i] = hist[i]
    BY <1>0
  <2> QED
    BY Zenon, <2>1 DEF Keys
<1>2. ASSUME NEW k \in Key
      PROVE  k \in Keys(l, Len(hist))' <=> k \in Keys(l, Len(hist)) \/ (s.l = l /\ s.v = k)
  BY <1>0 DEF Keys
<1>3. Keys(l, Len(hist))' \subseteq Key /\ Keys(l, Len(hist)) \subseteq Key
  BY Zenon DEF Keys
<1> QED
  BY Zenon, <1>1, <1>2, <1>3

\* A store leaves every other location's current value alone.
LEMMA LastAppend ==
    ASSUME MemInv, NEW s \in StoreSet, hist' = Append(hist, s), Typed',
           NEW l \in 0..kMaxHeight,
           NEW n \in IF l = HeightSlot THEN {HeadNode} ELSE Linked(l, Len(hist)),
           s.n # n \/ s.l # l
    PROVE  Last(n, l)' = Last(n, l)
<1>0. /\ Len(hist') = Len(hist) + 1 /\ Len(hist) \in Nat
      /\ \A i \in 1..Len(hist) : hist'[i] = hist[i]
      /\ hist'[Len(hist) + 1] = s
  BY Zenon, Appended DEF MemInv, Typed
<1>1. PICK i \in 1..Len(hist) : At(i, n, l) /\ Latest(i, Len(hist))
  BY Zenon DEF MemInv, HasLast
<1>2. Last(n, l) = hist[i].v
  BY Zenon, <1>1, LastIs DEF MemInv
<1>3. \A j \in 1..Len(hist) : At(j, n, l)' <=> At(j, n, l)
  BY Zenon, <1>0 DEF At
<1>4. \A j : j = Len(hist) + 1 => ~At(j, n, l)'
  BY Zenon, <1>0 DEF At
<1>5. DOMAIN hist' = 1..Len(hist) + 1
  BY <1>0 DEF Typed
<1>6. \A j \in i + 1..Len(hist) : ~At(j, n, l)
  BY Zenon, <1>1 DEF Latest, At
<1>7. \A j \in 1..Len(hist) + 1 : At(j, n, l)' => j \in 1..i
  BY <1>0, <1>1, <1>3, <1>4, <1>6
<1>8. At(i, n, l)'
  BY Zenon, <1>1, <1>3
<1>9. Readable(n, l, Len(hist))' = {i}
  BY <1>0, <1>5, <1>7, <1>8 DEF Readable
<1> QED
  BY Zenon, <1>0, <1>2, <1>9 DEF Last

\* The keys of level l once s is stored.
KeysWith(s, l) == Keys(l, Len(hist)) \cup {k \in Key : s.l = l /\ s.v = k}

\* What a store must satisfy to keep the memory sound.
Fits(s) ==
    /\ s.l = HeightSlot => s.n = HeadNode /\ s.v \in 1..kMaxHeight
    /\ s.l \in Level =>
         /\ Succ(s.n, s.v, KeysWith(s, s.l))
         /\ \A i \in 1..Len(hist) :
              hist[i].l = s.l /\ hist[i].n # s.n /\ Latest(i, Len(hist))
                => Succ(hist[i].n, hist[i].v, KeysWith(s, s.l))
         /\ ~s.release => s.n \notin KeysWith(s, s.l) \cup {HeadNode}
         /\ s.v \in Key =>
              /\ \A m \in Level : m < s.l => s.v \in Keys(m, Len(hist))
              /\ \E i \in 1..Len(hist) : At(i, s.v, s.l) /\ Latest(i, Len(hist))

LEMMA MemStep ==
    ASSUME MemInv, NEW s \in StoreSet, Fits(s), hist' = Append(hist, s)
    PROVE  MemInv'
<1>0. /\ hist' \in Seq(StoreSet)
      /\ Len(hist') = Len(hist) + 1 /\ Len(hist) \in Nat
      /\ \A i \in 1..Len(hist) : hist'[i] = hist[i]
      /\ hist'[Len(hist) + 1] = s
  BY Zenon, Appended DEF MemInv, Typed
<1>T. PICK T \in Nat : T = Len(hist) + 1
  BY <1>0
<1>N. Len(hist) \in 1..Len(hist) /\ \A l \in Level : l + 1 \in 1..Len(hist)
  BY <1>0, SkipListAssumption DEF MemInv, Typed, Level
<1>K. ASSUME NEW l
      PROVE  /\ \A t \in 1..Len(hist) : Keys(l, t)' = Keys(l, t)
             /\ \A t : t = T => Keys(l, t)' = KeysWith(s, l)
  <2>1. /\ \A t \in 0..Len(hist) : Keys(l, t)' = Keys(l, t)
        /\ Keys(l, Len(hist))' = KeysWith(s, l)
    BY Zenon, KeysAppend DEF MemInv, Typed, KeysWith
  <2> QED
    BY <2>1, <1>0, <1>T
<1>A. /\ \A i \in 1..Len(hist) : \A n, l : At(i, n, l)' <=> At(i, n, l)
      /\ \A i : i = T => \A n, l : At(i, n, l)' <=> s.n = n /\ s.l = l
  BY Zenon, <1>0, <1>T DEF At
<1>L. /\ \A t \in 1..Len(hist) : \A i \in 1..t : Latest(i, t)' <=> Latest(i, t)
      /\ \A i \in 1..Len(hist) : \A t : t = T =>
           (Latest(i, t)' <=> Latest(i, Len(hist)) /\ ~(s.n = hist[i].n /\ s.l = hist[i].l))
  <2>1. ASSUME NEW t \in 1..Len(hist), NEW i \in 1..t
        PROVE  Latest(i, t)' <=> Latest(i, t)
    <3>1. hist'[i] = hist[i] /\ \A j \in i + 1..t : hist'[j] = hist[j]
      BY <1>0
    <3> QED
      BY Zenon, <3>1 DEF Latest, At
  <2>2. ASSUME NEW t, t = T, NEW i \in 1..Len(hist)
        PROVE  Latest(i, t)' <=> Latest(i, Len(hist)) /\ ~(s.n = hist[i].n /\ s.l = hist[i].l)
    BY <1>0, <1>T, <2>2 DEF Latest, At
  <2> QED
    BY Zenon, <2>1, <2>2
<1>1. Typed'
  <2>2. \A l \in Level : At(l + 1, HeadNode, l)'
    BY Zenon, <1>N, <1>A DEF MemInv, Typed
  <2> QED
    BY <1>0, <1>T, <2>2, SkipListAssumption DEF MemInv, Typed, Fits
<1>2. Successors'
  <2> SUFFICES ASSUME NEW t \in 1..T, NEW i \in 1..t,
                      hist'[i].l \in Level, Latest(i, t)'
               PROVE  Succ(hist'[i].n, hist'[i].v, Keys(hist[i].l, t)')
    BY Zenon, <1>0, <1>T DEF Successors, Succ, Nil, Level
  <2>1. CASE t \in 1..Len(hist)
    <3>1. i \in 1..Len(hist)
      BY <2>1
    <3>2. hist'[i] = hist[i] /\ Latest(i, t)
      BY Zenon, <2>1, <3>1, <1>0, <1>L
    <3>3. Keys(hist[i].l, t)' = Keys(hist[i].l, t)
      BY Zenon, <2>1, <3>2, <1>K
    <3> QED
      BY Zenon, <2>1, <3>2, <3>3 DEF MemInv, Successors
  <2>2. CASE t = T /\ i = T
    BY <2>2, <1>0, <1>T, <1>K DEF Fits
  <2>3. CASE t = T /\ i \in 1..Len(hist)
    <3>1. Latest(i, Len(hist)) /\ ~(s.n = hist[i].n /\ s.l = hist[i].l) /\ hist'[i] = hist[i]
      BY Zenon, <2>3, <1>0, <1>T, <1>L
    <3>2. Keys(hist[i].l, t)' = KeysWith(s, hist[i].l)
      BY <2>3, <1>K
    <3>3. CASE s.l = hist[i].l
      BY Zenon, <2>3, <3>1, <3>2, <3>3 DEF Fits
    <3>4. CASE s.l # hist[i].l
      <4>1. KeysWith(s, hist[i].l) = Keys(hist[i].l, Len(hist))
        BY Zenon, <3>4 DEF KeysWith, Keys
      <4>2. Len(hist) \in 1..Len(hist)
        BY <2>3, <1>0, <1>T
      <4> QED
        BY Zenon, <2>3, <3>1, <3>2, <4>1, <4>2 DEF MemInv, Successors
    <3> QED
      BY Zenon, <3>3, <3>4
  <2> QED
    BY <2>1, <2>2, <2>3, <1>0, <1>T
<1>3. Initialised'
  <2> SUFFICES ASSUME NEW l \in Level, NEW t \in 1..T, NEW k \in Keys(l, t)'
               PROVE  \E i \in 1..t : At(i, k, l)'
    BY Zenon, <1>0, <1>T DEF Initialised, Level
  <2>1. CASE t \in 1..Len(hist)
    <3>1. Keys(l, t)' = Keys(l, t)
      BY Zenon, <2>1, <1>K
    <3>2. PICK i \in 1..t : At(i, k, l)
      BY Zenon, <2>1, <3>1 DEF MemInv, Initialised
    <3> QED
      BY <2>1, <3>2, <1>0, <1>A
  <2>2. CASE t = T
    <3>1. k \in Keys(l, Len(hist)) \/ (k \in Key /\ s.l = l /\ s.v = k)
      BY Zenon, <2>2, <1>K DEF KeysWith
    <3>2. \E i \in 1..Len(hist) : At(i, k, l)
      BY Zenon, <3>1, <1>N DEF MemInv, Initialised, Fits
    <3> QED
      BY <2>2, <3>2, <1>0, <1>T, <1>A
  <2> QED
    BY <2>1, <2>2, <1>0, <1>T
<1>4. RelaxedFirst'
  <2> SUFFICES ASSUME NEW i \in 1..T, hist'[i].l \in Level, ~hist'[i].release
               PROVE  hist'[i].n \notin Linked(hist[i].l, i)'
    BY Zenon, <1>0, <1>T DEF RelaxedFirst, Level, Linked
  <2>1. CASE i \in 1..Len(hist)
    <3>1. hist'[i] = hist[i] /\ Keys(hist[i].l, i)' = Keys(hist[i].l, i)
      BY Zenon, <2>1, <1>0, <1>K
    <3> QED
      BY Zenon, <2>1, <3>1 DEF MemInv, RelaxedFirst, Linked
  <2>2. CASE i = T
    BY Zenon, <2>2, <1>0, <1>T, <1>K DEF Fits, Linked
  <2> QED
    BY <2>1, <2>2, <1>0, <1>T
<1>5. Nested'
  <2> SUFFICES ASSUME NEW l \in Level, NEW m \in Level, m < l, NEW t \in 1..T
               PROVE  Keys(l, t)' \subseteq Keys(m, t)'
    BY Zenon, <1>0, <1>T DEF Nested, Level
  <2>1. CASE t \in 1..Len(hist)
    BY <2>1, <1>K DEF MemInv, Nested
  <2>2. CASE t = T
    <3>2. Keys(l, Len(hist)) \subseteq Keys(m, Len(hist))
      BY Zenon, <1>N DEF MemInv, Nested
    <3>3. KeysWith(s, l) \subseteq KeysWith(s, m)
      BY Zenon, <3>2 DEF Fits, KeysWith
    <3> QED
      BY Zenon, <2>2, <3>3, <1>K
  <2> QED
    BY <2>1, <2>2, <1>0, <1>T
<1>6. HasLast'
  <2> SUFFICES ASSUME NEW l \in 0..kMaxHeight,
                      NEW n \in IF l = HeightSlot THEN {HeadNode} ELSE Linked(l, Len(hist))'
               PROVE  \E i \in 1..T : At(i, n, l)' /\ \A t : t = T => Latest(i, t)'
    BY Zenon, <1>0, <1>T DEF HasLast, HeightSlot
  <2>1. CASE s.n = n /\ s.l = l
    <3>1. \A t : t = T => At(T, n, l)' /\ Latest(T, t)'
      BY <2>1, <1>0, <1>T DEF At, Latest
    <3> QED
      BY <3>1, <1>0, <1>T
  <2>2. CASE ~(s.n = n /\ s.l = l)
    <3>1. PICK i \in 1..Len(hist) : At(i, n, l) /\ Latest(i, Len(hist))
      <4>1. CASE n \in IF l = HeightSlot THEN {HeadNode} ELSE Linked(l, Len(hist))
        BY Zenon, <4>1 DEF MemInv, HasLast
      <4>2. CASE ~(n \in IF l = HeightSlot THEN {HeadNode} ELSE Linked(l, Len(hist)))
        <5>1. Linked(l, Len(hist))' = KeysWith(s, l) \cup {HeadNode}
          BY Zenon, <1>0, <1>T, <1>K DEF Linked
        <5>2. l # HeightSlot /\ n \in Key /\ s.l = l /\ s.v = n
          BY Zenon, <4>2, <5>1 DEF Linked, KeysWith
        <5>3. l \in Level
          BY <5>2, SkipListAssumption DEF Level, HeightSlot
        <5> QED
          BY Zenon, <5>2, <5>3 DEF Fits
      <4> QED
        BY Zenon, <4>1, <4>2
    <3>2. \A t : t = T => Latest(i, t)'
      BY Zenon, <2>2, <3>1, <1>L DEF At
    <3> QED
      BY <3>1, <3>2, <1>0, <1>T, <1>A
  <2> QED
    BY Zenon, <2>1, <2>2
<1> QED
  BY Zenon, <1>1, <1>2, <1>3, <1>4, <1>5, <1>6 DEF MemInv

-----------------------------------------------------------------------------
(* The initial state *)

LEMMA InitInv == Init => Inv
<1> SUFFICES ASSUME Init PROVE Inv
  BY Zenon
<1>0. kMaxHeight \in Nat \ {0} /\ MaxKey \in Nat \ {0}
  BY Zenon, SkipListAssumption
<1>1. \A i \in 1..kMaxHeight + 1 :
        hist[i] = IF i <= kMaxHeight THEN Store(HeadNode, i - 1, Nil, TRUE)
                                     ELSE Store(HeadNode, HeightSlot, 1, FALSE)
  BY Zenon DEF Init
<1>2. hist \in Seq(StoreSet) /\ Len(hist) = kMaxHeight + 1
  <2>1. hist \in [1..kMaxHeight + 1 -> StoreSet]
    BY <1>0 DEF Init, StoreSet, Store, Node, Nil, HeadNode, HeightSlot
  <2> QED
    BY <1>0, <2>1
<1>3. \A i \in 1..kMaxHeight + 1 :
        /\ hist[i].l = i - 1 /\ hist[i].n = HeadNode
        /\ i <= kMaxHeight => hist[i].v = Nil /\ hist[i].release
        /\ i = kMaxHeight + 1 => hist[i].v = 1
  <2> SUFFICES ASSUME NEW i \in 1..kMaxHeight + 1
               PROVE  /\ hist[i].l = i - 1 /\ hist[i].n = HeadNode
                      /\ i <= kMaxHeight => hist[i].v = Nil /\ hist[i].release
                      /\ i = kMaxHeight + 1 => hist[i].v = 1
    BY Zenon
  <2>1. CASE i <= kMaxHeight
    <3>1. hist[i] = Store(HeadNode, i - 1, Nil, TRUE)
      BY Zenon, <1>1, <2>1
    <3> QED
      BY <1>0, <2>1, <3>1 DEF Store
  <2>2. CASE i = kMaxHeight + 1
    <3>0. ~(i <= kMaxHeight)
      BY <1>0, <2>2
    <3>1. hist[i] = Store(HeadNode, HeightSlot, 1, FALSE)
      BY Zenon, <1>0, <1>1, <2>2, <3>0
    <3> QED
      BY <1>0, <2>2, <3>1 DEF Store, HeightSlot
  <2> QED
    BY <1>0, <2>1, <2>2
<1>4. \A l \in Level : \A t \in 1..Len(hist) : Keys(l, t) = {}
  <2> SUFFICES ASSUME NEW l \in Level, NEW t \in 1..Len(hist), NEW k \in Key,
                      NEW i \in 1..t, hist[i].l = l, hist[i].v = k
               PROVE  FALSE
    BY Zenon DEF Keys
  <2>1. i \in 1..kMaxHeight
    BY <1>0, <1>2, <1>3 DEF Level
  <2> QED
    BY <1>0, <1>3, <2>1 DEF Key, Nil
<1>5. Typed
  BY <1>0, <1>2, <1>3 DEF Typed, At, Level, HeightSlot
<1>6. Successors
  <2> SUFFICES ASSUME NEW t \in 1..Len(hist), NEW i \in 1..t, hist[i].l \in Level
               PROVE  Succ(hist[i].n, hist[i].v, Keys(hist[i].l, t))
    BY Zenon DEF Successors
  <2>1. hist[i].v = Nil /\ hist[i].n = HeadNode
    BY <1>0, <1>2, <1>3 DEF Level
  <2> QED
    BY <1>0, <1>4, <2>1 DEF Succ, Nil, HeadNode
<1>7. Initialised /\ Nested
  BY Zenon, <1>4 DEF Initialised, Nested
<1>8. RelaxedFirst
  BY <1>0, <1>2, <1>3 DEF RelaxedFirst, Level
<1>9. HasLast
  <2> SUFFICES ASSUME NEW l \in 0..kMaxHeight,
                      NEW n \in IF l = HeightSlot THEN {HeadNode} ELSE Linked(l, Len(hist))
               PROVE  \E i \in 1..Len(hist) : At(i, n, l) /\ Latest(i, Len(hist))
    BY Zenon DEF HasLast
  <2>1. n = HeadNode
    <3>1. CASE l = HeightSlot
      BY Zenon, <3>1
    <3>2. CASE l # HeightSlot
      <4>1. l \in Level /\ Len(hist) \in 1..Len(hist)
        BY <1>0, <1>2, <3>2 DEF Level, HeightSlot
      <4> QED
        BY Zenon, <1>4, <3>2, <4>1 DEF Linked
    <3> QED
      BY Zenon, <3>1, <3>2
  <2>2. l + 1 \in 1..Len(hist) /\ At(l + 1, n, l)
    BY <1>0, <1>2, <1>3, <2>1 DEF At
  <2>3. Latest(l + 1, Len(hist))
    BY <1>0, <1>2, <1>3, <2>2 DEF Latest, At
  <2> QED
    BY Zenon, <2>2, <2>3
<1>10. MemInv
  BY Zenon, <1>5, <1>6, <1>7, <1>8, <1>9 DEF MemInv
<1>11. Keys(0, Len(hist)) = {} /\ \A l \in Level : Keys(l, Len(hist)) = {}
  BY <1>0, <1>2, <1>4 DEF Level
<1>12. WriterInv
  BY Zenon, <1>0, <1>2, <1>3, <1>11 DEF Init, WriterInv, Owners, Linked, Link
<1>13. ReaderInv
  BY <1>0, <1>2 DEF Init, ReaderInv, Link, Nil, Key
<1>14. LookupsExact
  BY Zenon DEF Init, LookupsExact
<1> QED
  BY Zenon, <1>10, <1>12, <1>13, <1>14 DEF Inv

-----------------------------------------------------------------------------
(* The writer *)

LEMMA MemUnchanged ==
    ASSUME Inv, UNCHANGED hist
    PROVE  MemInv'
<1>1. /\ \A i, n, l : At(i, n, l)' <=> At(i, n, l)
      /\ \A l, t : Keys(l, t)' = Keys(l, t)
  BY Zenon DEF At, Keys
<1>2. \A i, t : Latest(i, t)' <=> Latest(i, t)
  BY Zenon DEF Latest, At
<1>3. \A l, t : Linked(l, t)' = Linked(l, t)
  BY Zenon, <1>1 DEF Linked
<1>4. Typed'
  BY Zenon, <1>1 DEF Inv, MemInv, Typed
<1>5. Successors'
  BY Zenon, <1>1, <1>2 DEF Inv, MemInv, Successors
<1>6. Initialised' /\ Nested'
  BY Zenon, <1>1 DEF Inv, MemInv, Initialised, Nested
<1>7. RelaxedFirst'
  BY Zenon, <1>3 DEF Inv, MemInv, RelaxedFirst
<1>8. HasLast'
  BY Zenon, <1>1, <1>2, <1>3 DEF Inv, MemInv, HasLast
<1> QED
  BY Zenon, <1>4, <1>5, <1>6, <1>7, <1>8 DEF MemInv

LEMMA ReaderUnchanged ==
    ASSUME Inv, UNCHANGED <<hist, published, reader>>
    PROVE  ReaderInv' /\ LookupsExact'
<1>1. \A l, t : Keys(l, t)' = Keys(l, t) /\ Linked(l, t)' = Linked(l, t)
  BY Zenon DEF Keys, Linked
<1>2. ReaderInv'
  BY Zenon, <1>1 DEF Inv, ReaderInv, reader
<1>3. LookupsExact'
  BY Zenon, <1>1 DEF Inv, LookupsExact, reader
<1> QED
  BY Zenon, <1>2, <1>3

\* No insertion disturbs a call of the reader.
LEMMA ReaderStable ==
    ASSUME Inv, NEW s \in StoreSet, hist' = Append(hist, s),
           UNCHANGED <<published, reader>>
    PROVE  ReaderInv' /\ LookupsExact'
<1>1. Len(hist') = Len(hist) + 1 /\ Len(hist) \in Nat
  BY Zenon, Appended DEF Inv, MemInv, Typed
<1>2. \A l : \A t \in 0..Len(hist) : Keys(l, t)' = Keys(l, t)
  BY Zenon, KeysAppend DEF Inv, MemInv, Typed
<1>3. Keys(0, Len(hist)) \subseteq Keys(0, Len(hist))'
  BY Zenon, KeysAppend DEF Inv, MemInv, Typed
<1>4. Keys(0, since)' = Keys(0, since) /\ Keys(0, seen)' = Keys(0, seen)
  BY <1>1, <1>2 DEF Inv, ReaderInv, reader
<1>5. Linked(level, seen)' = Linked(level, seen)
  BY <1>1, <1>2 DEF Inv, ReaderInv, reader, Linked
<1>6. ReaderInv'
  BY <1>1, <1>4, <1>5 DEF Inv, ReaderInv, reader
<1>7. LookupsExact'
  BY Zenon, <1>3, <1>4 DEF Inv, LookupsExact, reader
<1> QED
  BY Zenon, <1>6, <1>7

\* The keys of a level are keys of level 0, so the new key is on none.
LEMMA NewKey ==
    ASSUME MemInv, WriterInv, wpc \in {"find", "height"}, NEW l \in Level
    PROVE  wkey \in Key /\ wkey \notin Keys(l, Len(hist))
<1>1. Len(hist) \in 1..Len(hist) /\ 0 \in Level
  BY SkipListAssumption DEF MemInv, Typed, Level
<1>2. Keys(l, Len(hist)) \subseteq Keys(0, Len(hist))
  BY <1>1 DEF MemInv, Nested, Level
<1> QED
  BY Zenon, <1>2 DEF WriterInv

LEMMA CallInv ==
    ASSUME Inv, NEW k \in Key, InsertCall(k)
    PROVE  Inv'
<1>1. GetMaxHeight \in 1..kMaxHeight
  BY Zenon, HeightIs DEF Inv
<1>2. UNCHANGED <<hist, inserted, published, reader>>
  BY Zenon DEF InsertCall, memory
<1>3. MemInv' /\ ReaderInv' /\ LookupsExact'
  BY Zenon, <1>2, MemUnchanged, ReaderUnchanged
<1>4. \A l, t : Keys(l, t)' = Keys(l, t)
  BY Zenon, <1>2 DEF Keys
<1>5. GetMaxHeight' = GetMaxHeight
  BY Zenon, <1>2 DEF GetMaxHeight, Last, Readable, At
<1>6. Owners'
  BY Zenon, <1>2, <1>4 DEF Inv, WriterInv, Owners, InsertCall, Linked
<1>7. WriterInv'
  <2>1. /\ wpc = "idle" /\ wpc' = "find" /\ wkey' = k /\ k \notin inserted
        /\ wx' = HeadNode /\ wlevel' = GetMaxHeight - 1
        /\ prev' \in [Level -> Link]
    BY Zenon DEF InsertCall, Link
  <2>2. HeadNode < k
    BY DEF HeadNode, Key
  <2>3. wlevel' \in 0..GetMaxHeight - 1 /\ wlevel' + 1..GetMaxHeight - 1 = {}
    BY <1>1, <2>1
  <2> QED
    BY Zenon, <1>1, <1>2, <1>4, <1>5, <1>6, <2>1, <2>2, <2>3 DEF Inv, WriterInv, Linked
<1> QED
  BY Zenon, <1>3, <1>7 DEF Inv

LEMMA FindInv ==
    ASSUME Inv, InsertFind
    PROVE  Inv'
<1> DEFINE next == Last(wx, wlevel)
<1>0. kMaxHeight \in Nat \ {0} /\ MaxKey \in Nat \ {0}
  BY Zenon, SkipListAssumption
<1>1. GetMaxHeight \in 1..kMaxHeight
  BY Zenon, HeightIs DEF Inv
<1>2. UNCHANGED <<hist, inserted, published, reader, wkey>>
  BY Zenon DEF InsertFind, memory
<1>3. MemInv' /\ ReaderInv' /\ LookupsExact'
  BY Zenon, <1>2, MemUnchanged, ReaderUnchanged
<1>4. /\ \A l, t : Keys(l, t)' = Keys(l, t) /\ Linked(l, t)' = Linked(l, t)
      /\ \A l, n : Last(n, l)' = Last(n, l)
      /\ Len(hist') = Len(hist)
  BY <1>2 DEF Keys, Linked, Last, Readable, At
<1>5. GetMaxHeight' = GetMaxHeight
  BY Zenon, <1>4 DEF GetMaxHeight
<1>6. /\ wpc = "find" /\ wlevel \in 0..GetMaxHeight - 1 /\ wlevel \in Level
      /\ wx \in Linked(wlevel, Len(hist)) /\ wx < wkey /\ wkey \in Key
      /\ \A l \in wlevel + 1..GetMaxHeight - 1 : PrevOK(l)
  BY <1>0, <1>1 DEF InsertFind, Inv, WriterInv, Level
<1>7. Succ(wx, next, Keys(wlevel, Len(hist)))
  BY Zenon, <1>6, LastSucc DEF Inv
<1>8. wkey \notin Keys(wlevel, Len(hist))
  BY Zenon, <1>6, NewKey DEF Inv
<1>9. Owners' <=> wpc' # "link" /\ Owners
  BY Zenon, <1>2, <1>4, <1>6 DEF Owners, InsertFind
<1>10. CASE KeyIsAfterNode(wkey, next)
  <2>1. wx' = next /\ UNCHANGED <<wpc, wlevel, prev>>
    BY Zenon, <1>10 DEF InsertFind
  <2>2. next \in Linked(wlevel, Len(hist)) /\ next < wkey
    BY Zenon, <1>7, <1>10 DEF Succ, KeyIsAfterNode, Linked
  <2>3. \A l \in wlevel + 1..GetMaxHeight - 1 : PrevOK(l)'
    BY Zenon, <1>2, <1>4, <1>6, <2>1 DEF PrevOK
  <2>4. Owners'
    BY Zenon, <1>6, <1>9, <2>1 DEF Inv, WriterInv
  <2>5. WriterInv'
    BY Zenon, <1>1, <1>2, <1>4, <1>5, <1>6, <2>1, <2>2, <2>3, <2>4 DEF Inv, WriterInv
  <2> QED
    BY Zenon, <1>3, <2>5 DEF Inv
<1>11. CASE ~KeyIsAfterNode(wkey, next)
  <2>1. /\ prev' = [prev EXCEPT ![wlevel] = wx]
        /\ wpc' = IF wlevel = 0 THEN "height" ELSE "find"
        /\ wlevel' = IF wlevel = 0 THEN 0 ELSE wlevel - 1
        /\ wx' = IF wlevel = 0 THEN HeadNode ELSE wx
    BY Zenon, <1>11 DEF InsertFind
  <2>2. next > wkey
    BY <1>0, <1>6, <1>7, <1>8, <1>11 DEF Succ, KeyIsAfterNode, Nil, Key, Keys
  <2>3. \A l \in wlevel..GetMaxHeight - 1 : PrevOK(l)'
    <3> SUFFICES ASSUME NEW l \in wlevel..GetMaxHeight - 1
                 PROVE  PrevOK(l)'
      BY Zenon
    <3>1. l \in Level /\ prev \in [Level -> Link]
      BY <1>0, <1>1, <1>6 DEF Level, Inv, WriterInv
    <3>2. CASE l = wlevel
      <4>1. prev'[l] = wx
        BY Zenon, <2>1, <3>1, <3>2
      <4> QED
        BY Zenon, <1>2, <1>4, <1>6, <2>2, <3>2, <4>1 DEF PrevOK
    <3>3. CASE l # wlevel
      <4>1. prev'[l] = prev[l] /\ l \in wlevel + 1..GetMaxHeight - 1
        BY <1>6, <2>1, <3>1, <3>3
      <4> QED
        BY Zenon, <1>2, <1>4, <1>6, <4>1 DEF PrevOK
    <3> QED
      BY Zenon, <3>2, <3>3
  <2>4. prev' \in [Level -> Link] /\ wpc' \in {"find", "height"}
    BY Zenon, <1>6, <2>1 DEF Inv, WriterInv, Link, Linked, Node, Keys
  <2>5. Owners'
    BY Zenon, <1>9, <2>4 DEF Inv, WriterInv
  <2>6. CASE wlevel = 0
    BY Zenon, <1>1, <1>2, <1>4, <1>5, <1>6, <2>1, <2>3, <2>4, <2>5, <2>6, <1>3 DEF Inv, WriterInv
  <2>7. CASE wlevel # 0
    <3>1. wlevel - 1 \in Level /\ Len(hist) \in 1..Len(hist)
      BY <1>0, <1>6, <2>7 DEF Level, Inv, MemInv, Typed
    <3>2. wx \in Linked(wlevel - 1, Len(hist))
      BY <1>6, <3>1 DEF Inv, MemInv, Nested, Linked, Level
    <3>3. wlevel' = wlevel - 1 /\ wlevel' + 1 = wlevel /\ wpc' = "find" /\ wx' = wx
      BY <1>6, <2>1, <2>7
    <3>4. WriterInv'
      BY <1>1, <1>2, <1>4, <1>5, <1>6, <2>3, <2>4, <2>5, <2>7, <3>2, <3>3 DEF Inv, WriterInv
    <3> QED
      BY Zenon, <1>3, <3>4 DEF Inv
  <2> QED
    BY Zenon, <2>6, <2>7
<1> QED
  BY Zenon, <1>10, <1>11

\* What the writer relies on, beside the location it stores to.
LEMMA WriterFrame ==
    ASSUME Inv, NEW s \in StoreSet, Fits(s), hist' = Append(hist, s)
    PROVE  /\ MemInv'
           /\ \A l \in Level : Keys(l, Len(hist))' = KeysWith(s, l)
           /\ \A l \in Level : \A n \in Linked(l, Len(hist)) :
                ~(s.n = n /\ s.l = l) => Last(n, l)' = Last(n, l)
           /\ s.l \in Level => GetMaxHeight' = GetMaxHeight
           /\ Len(hist') = Len(hist) + 1 /\ Len(hist) \in Nat
           /\ \A i \in 1..Len(hist) : hist'[i] = hist[i]
           /\ hist'[Len(hist) + 1] = s
<1>1. MemInv'
  BY Zenon, MemStep DEF Inv
<1>2. \A l \in Level : Keys(l, Len(hist))' = KeysWith(s, l)
  BY Zenon, KeysAppend DEF Inv, MemInv, Typed, KeysWith
<1>3. ASSUME NEW l \in Level, NEW n \in Linked(l, Len(hist)), ~(s.n = n /\ s.l = l)
      PROVE  Last(n, l)' = Last(n, l)
  <2>1. l \in 0..kMaxHeight /\ l # HeightSlot
    BY SkipListAssumption DEF Level, HeightSlot
  <2> QED
    BY Zenon, <1>1, <1>3, <2>1, LastAppend DEF Inv, MemInv
<1>4. ASSUME s.l \in Level
      PROVE  GetMaxHeight' = GetMaxHeight
  <2>1. HeightSlot \in 0..kMaxHeight /\ s.l # HeightSlot
    BY <1>4, SkipListAssumption DEF Level, HeightSlot
  <2> QED
    BY Zenon, <1>1, <2>1, LastAppend DEF Inv, MemInv, GetMaxHeight
<1> QED
  BY Zenon, <1>1, <1>2, <1>3, <1>4, Appended DEF Inv, MemInv, Typed

LEMMA HeightInv ==
    ASSUME Inv, NEW h \in 1..kMaxHeight, InsertHeight(h)
    PROVE  Inv'
<1>0. kMaxHeight \in Nat \ {0} /\ MaxKey \in Nat \ {0}
  BY Zenon, SkipListAssumption
<1>1. GetMaxHeight \in 1..kMaxHeight
  BY Zenon, HeightIs DEF Inv
<1>2. /\ wpc = "height" /\ wpc' = "set" /\ wheight' = h
      /\ UNCHANGED <<wkey, wx, wlevel, published, inserted, reader>>
  BY Zenon DEF InsertHeight
<1>3. /\ wlevel = 0 /\ wkey \in Key \ inserted /\ inserted = Keys(0, Len(hist))
      /\ \A l \in 0..GetMaxHeight - 1 : PrevOK(l)
      /\ \A l \in Level : wkey \notin Keys(l, Len(hist))
      /\ prev \in [Level -> Link] /\ Owners
      /\ \A l \in Level : l >= GetMaxHeight => Keys(l, Len(hist)) = {}
  BY Zenon, <1>2, NewKey DEF Inv, WriterInv
<1>4. 0 \in Level /\ \A l \in 0..h - 1 : l \in Level
  BY <1>0 DEF Level
<1>5. CASE h > GetMaxHeight
  <2> DEFINE s == Store(HeadNode, HeightSlot, h, FALSE)
  <2>1. /\ hist' = Append(hist, s)
        /\ prev' = [l \in Level |-> IF l \in GetMaxHeight..h - 1 THEN HeadNode ELSE prev[l]]
    BY Zenon, <1>5 DEF InsertHeight
  <2>2. s \in StoreSet /\ s.n = HeadNode /\ s.l = HeightSlot /\ s.v = h /\ s.l \notin Level
    BY <1>0 DEF Store, StoreSet, Node, HeightSlot, Level
  <2>3. Fits(s)
    BY Zenon, <2>2 DEF Fits
  <2> HIDE DEF s
  <2>4. /\ MemInv'
        /\ \A l \in Level : Keys(l, Len(hist))' = KeysWith(s, l)
        /\ \A l \in Level : \A n \in Linked(l, Len(hist)) : Last(n, l)' = Last(n, l)
        /\ Len(hist') = Len(hist) + 1 /\ Len(hist) \in Nat
        /\ \A i \in 1..Len(hist) : hist'[i] = hist[i]
        /\ hist'[Len(hist) + 1] = s
    BY Zenon, <2>1, <2>2, <2>3, WriterFrame
  <2>5. ReaderInv' /\ LookupsExact'
    BY Zenon, <1>2, <2>1, <2>2, ReaderStable
  <2>6. \A l \in Level : /\ Keys(l, Len(hist))' = Keys(l, Len(hist))
                         /\ Linked(l, Len(hist))' = Linked(l, Len(hist))
    BY Zenon, <2>2, <2>4 DEF KeysWith, Linked
  <2>7. GetMaxHeight' = h
    <3>1. At(Len(hist), HeadNode, HeightSlot)' /\ Latest(Len(hist), Len(hist))'
      BY <2>2, <2>4 DEF At, Latest
    <3>2. Len(hist') \in 1..Len(hist')
      BY <2>4
    <3>3. Readable(HeadNode, HeightSlot, Len(hist))' = {Len(hist')}
      BY <2>4, <3>1, <3>2 DEF Readable, At, MemInv, Typed
    <3> QED
      BY Zenon, <2>2, <2>4, <3>3 DEF GetMaxHeight, Last
  <2>8. \A l \in 0..h - 1 : PrevOK(l)'
    <3> SUFFICES ASSUME NEW l \in 0..h - 1
                 PROVE  PrevOK(l)'
      BY Zenon
    <3>1. CASE l < GetMaxHeight
      <4>1. PrevOK(l) /\ prev'[l] = prev[l] /\ l \in Level
        BY <1>1, <1>3, <1>4, <2>1, <3>1
      <4> QED
        BY Zenon, <1>2, <2>4, <2>6, <4>1 DEF PrevOK
    <3>2. CASE l >= GetMaxHeight
      <4>1. prev'[l] = HeadNode /\ l \in Level /\ Keys(l, Len(hist)) = {}
        BY <1>1, <1>3, <1>4, <2>1, <3>2
      <4>2. Last(HeadNode, l) = Nil /\ HeadNode \in Linked(l, Len(hist))
        BY Zenon, <4>1, LastSucc DEF Inv, Succ, Linked
      <4>3. HeadNode < wkey /\ wkey < Nil
        BY <1>0, <1>3 DEF Key, HeadNode, Nil
      <4> QED
        BY Zenon, <1>2, <2>4, <2>6, <4>1, <4>2, <4>3 DEF PrevOK
    <3> QED
      BY <1>1, <3>1, <3>2
  <2>9. Owners'
    <3> SUFFICES ASSUME NEW i \in 1..Len(hist) + 1, hist'[i].l \in Level
                 PROVE  hist'[i].n \in Linked(hist[i].l, Len(hist))'
      BY Zenon, <2>4 DEF Owners
    <3>1. i \in 1..Len(hist) /\ hist'[i] = hist[i]
      BY <2>2, <2>4
    <3>2. hist[i].n \in Linked(hist[i].l, Len(hist))
      BY Zenon, <1>2, <1>3, <3>1 DEF Owners
    <3> QED
      BY Zenon, <2>6, <3>1, <3>2
  <2>10. prev' \in [Level -> Link]
    BY Zenon, <1>3, <2>1 DEF Link, Node
  <2>11. \A l \in Level : l >= h => Keys(l, Len(hist))' = {}
    BY <1>1, <1>3, <1>5, <2>6 DEF Level
  <2>12. WriterInv'
    BY <1>0, <1>2, <1>3, <1>4, <2>6, <2>7, <2>8, <2>9, <2>10, <2>11 DEF Inv, WriterInv, Level
  <2> QED
    BY Zenon, <2>4, <2>5, <2>12 DEF Inv
<1>6. CASE ~(h > GetMaxHeight)
  <2>1. UNCHANGED <<prev, hist>>
    BY Zenon, <1>6 DEF InsertHeight
  <2>2. MemInv' /\ ReaderInv' /\ LookupsExact'
    BY Zenon, <1>2, <2>1, MemUnchanged, ReaderUnchanged
  <2>3. /\ \A l, t : Keys(l, t)' = Keys(l, t) /\ Linked(l, t)' = Linked(l, t)
        /\ \A l, n : Last(n, l)' = Last(n, l)
        /\ GetMaxHeight' = GetMaxHeight
    BY <2>1 DEF Keys, Linked, Last, Readable, At, GetMaxHeight
  <2>4. \A l \in 0..h - 1 : PrevOK(l)'
    BY <1>1, <1>2, <1>3, <1>6, <2>1, <2>3 DEF PrevOK
  <2>5. Owners'
    BY Zenon, <1>2, <1>3, <2>1, <2>3 DEF Owners
  <2>6. WriterInv'
    BY <1>0, <1>1, <1>2, <1>3, <1>4, <1>6, <2>1, <2>3, <2>4, <2>5 DEF Inv, WriterInv, Level
  <2> QED
    BY Zenon, <2>2, <2>6 DEF Inv
<1> QED
  BY Zenon, <1>5, <1>6

\* Where Insert stands when it stores to level wlevel.
LEMMA AtLevel ==
    ASSUME Inv, wpc \in {"set", "link"}
    PROVE  /\ GetMaxHeight \in 1..kMaxHeight
           /\ wheight \in 1..GetMaxHeight /\ wlevel \in 0..wheight - 1 /\ wlevel \in Level
           /\ \A l \in wlevel..wheight - 1 : l \in Level /\ PrevOK(l)
           /\ prev[wlevel] \in Linked(wlevel, Len(hist)) /\ prev[wlevel] < wkey
           /\ wkey \in Key \ inserted /\ wkey \notin Keys(wlevel, Len(hist))
           /\ Succ(prev[wlevel], Last(prev[wlevel], wlevel), Keys(wlevel, Len(hist)))
           /\ Last(prev[wlevel], wlevel) > wkey
           /\ Len(hist) \in 1..Len(hist)
<1>0. kMaxHeight \in Nat \ {0}
  BY Zenon, SkipListAssumption
<1>1. GetMaxHeight \in 1..kMaxHeight
  BY Zenon, HeightIs DEF Inv
<1>2. /\ wheight \in 1..GetMaxHeight /\ wlevel \in 0..wheight - 1 /\ wlevel \in Level
      /\ \A l \in wlevel..wheight - 1 : l \in Level /\ PrevOK(l)
  BY <1>0, <1>1 DEF Inv, WriterInv, Level
<1>3. PrevOK(wlevel)
  BY <1>1, <1>2
<1>4. wkey \in Key \ inserted /\ wkey \notin Keys(wlevel, Len(hist))
  BY <1>2 DEF Inv, WriterInv, Level
<1>5. Succ(prev[wlevel], Last(prev[wlevel], wlevel), Keys(wlevel, Len(hist)))
  BY Zenon, <1>2, <1>3, LastSucc DEF PrevOK, Inv
<1>6. Len(hist) \in 1..Len(hist)
  BY <1>0 DEF Inv, MemInv, Typed
<1> QED
  BY Zenon, <1>1, <1>2, <1>3, <1>4, <1>5, <1>6 DEF PrevOK

LEMMA SetNextInv ==
    ASSUME Inv, InsertSetNext
    PROVE  Inv'
<1> DEFINE p == prev[wlevel]
           v == Last(p, wlevel)
           s == Store(wkey, wlevel, v, FALSE)
           K == Keys(wlevel, Len(hist))
<1>0. kMaxHeight \in Nat \ {0} /\ MaxKey \in Nat \ {0}
  BY Zenon, SkipListAssumption
<1>1. /\ wpc = "set" /\ wpc' = "link" /\ hist' = Append(hist, s)
      /\ UNCHANGED <<wkey, wx, wlevel, prev, wheight, published, inserted, reader>>
  BY Zenon DEF InsertSetNext
<1>2. /\ wheight \in 1..GetMaxHeight /\ wlevel \in 0..wheight - 1 /\ wlevel \in Level
      /\ \A l \in wlevel..wheight - 1 : l \in Level /\ PrevOK(l)
      /\ p \in Linked(wlevel, Len(hist)) /\ p < wkey
      /\ wkey \in Key \ inserted /\ wkey \notin K
      /\ Succ(p, v, K) /\ v > wkey
      /\ Len(hist) \in 1..Len(hist)
  BY Zenon, <1>1, AtLevel
<1>3. v \in K \cup {Nil} /\ K \subseteq Key
  BY Zenon, <1>2 DEF Succ, Keys
<1>4. s \in StoreSet /\ s.n = wkey /\ s.l = wlevel /\ s.v = v /\ s.release = FALSE
  BY <1>0, <1>2, <1>3 DEF Store, StoreSet, Node, Level, Key, Nil
<1> HIDE DEF s
<1>5. \A l \in Level : KeysWith(s, l) = Keys(l, Len(hist))
  <2>1. v \in Key => v \in K
    BY <1>0, <1>3 DEF Nil, Key
  <2>2. ASSUME NEW l \in Level, NEW k \in Key, s.l = l, s.v = k
        PROVE  k \in Keys(l, Len(hist))
    BY Zenon, <1>4, <2>1, <2>2
  <2> QED
    BY Zenon, <2>2 DEF KeysWith
<1>6. Fits(s)
  <2>1. Succ(s.n, s.v, KeysWith(s, s.l))
    <3>1. \A k \in K : k > wkey => k >= v
      BY <1>0, <1>2, <1>3 DEF Succ, Linked, Key, HeadNode
    <3> QED
      BY Zenon, <1>2, <1>3, <1>4, <1>5, <3>1 DEF Succ
  <2>2. \A i \in 1..Len(hist) :
          hist[i].l = s.l /\ hist[i].n # s.n /\ Latest(i, Len(hist))
            => Succ(hist[i].n, hist[i].v, KeysWith(s, s.l))
    BY Zenon, <1>2, <1>4, <1>5 DEF Inv, MemInv, Successors
  <2>3. s.n \notin KeysWith(s, s.l) \cup {HeadNode}
    BY <1>2, <1>4, <1>5 DEF HeadNode, Key
  <2>4. s.v \in Key => /\ \A m \in Level : m < s.l => s.v \in Keys(m, Len(hist))
                       /\ \E i \in 1..Len(hist) : At(i, s.v, s.l) /\ Latest(i, Len(hist))
    <3> SUFFICES ASSUME v \in Key
                 PROVE  /\ \A m \in Level : m < wlevel => v \in Keys(m, Len(hist))
                        /\ \E i \in 1..Len(hist) : At(i, v, wlevel) /\ Latest(i, Len(hist))
      BY Zenon, <1>4
    <3>1. v \in K
      BY <1>0, <1>3 DEF Nil, Key
    <3>2. wlevel \in 0..kMaxHeight /\ wlevel # HeightSlot
      BY <1>0, <1>2 DEF Level, HeightSlot
    <3> QED
      BY Zenon, <1>2, <3>1, <3>2 DEF Inv, MemInv, Nested, HasLast, Linked
  <2>5. s.l # HeightSlot
    BY <1>0, <1>2, <1>4 DEF Level, HeightSlot
  <2> QED
    BY Zenon, <2>1, <2>2, <2>3, <2>4, <2>5 DEF Fits
<1>7. /\ MemInv'
      /\ \A l \in Level : Keys(l, Len(hist))' = KeysWith(s, l)
      /\ \A l \in Level : \A n \in Linked(l, Len(hist)) :
           ~(s.n = n /\ s.l = l) => Last(n, l)' = Last(n, l)
      /\ GetMaxHeight' = GetMaxHeight
      /\ Len(hist') = Len(hist) + 1 /\ Len(hist) \in Nat
      /\ \A i \in 1..Len(hist) : hist'[i] = hist[i]
      /\ hist'[Len(hist) + 1] = s
  BY Zenon, <1>1, <1>2, <1>4, <1>6, WriterFrame
<1>8. ReaderInv' /\ LookupsExact'
  BY Zenon, <1>1, <1>4, ReaderStable
<1>9. \A l \in Level : /\ Keys(l, Len(hist))' = Keys(l, Len(hist))
                       /\ Linked(l, Len(hist))' = Linked(l, Len(hist))
  BY Zenon, <1>5, <1>7 DEF Linked
<1>10. \A l \in wlevel..wheight - 1 : PrevOK(l)'
  <2> SUFFICES ASSUME NEW l \in wlevel..wheight - 1
               PROVE  PrevOK(l)'
    BY Zenon
  <2>0. l \in Level /\ PrevOK(l)
    BY Zenon, <1>2
  <2>1. l \in Level /\ PrevOK(l) /\ prev[l] # wkey
    <3>1. prev[l] \in Int /\ prev[l] < wkey
      BY <2>0 DEF PrevOK, Linked, Keys, Key, HeadNode
    <3>2. wkey \in Int
      BY <1>2 DEF Key
    <3> QED
      BY <2>0, <3>1, <3>2
  <2>2. Last(prev[l], l)' = Last(prev[l], l)
    BY Zenon, <1>1, <1>4, <1>7, <2>1 DEF PrevOK
  <2> QED
    BY Zenon, <1>1, <1>9, <2>1, <2>2 DEF PrevOK
<1>11. Owners'
  <2> SUFFICES ASSUME NEW i \in 1..Len(hist) + 1, hist'[i].l \in Level
               PROVE  \/ hist'[i].n \in Linked(hist[i].l, Len(hist))'
                      \/ wlevel = hist'[i].l /\ wkey = hist'[i].n
    BY Zenon, <1>1, <1>7 DEF Owners
  <2>1. CASE i = Len(hist) + 1
    BY Zenon, <1>4, <1>7, <2>1
  <2>2. CASE i \in 1..Len(hist)
    <3>1. hist'[i] = hist[i] /\ hist[i].n \in Linked(hist[i].l, Len(hist))
      BY Zenon, <1>1, <1>7, <2>2 DEF Inv, WriterInv, Owners
    <3> QED
      BY Zenon, <1>9, <3>1
  <2> QED
    BY <1>7, <2>1, <2>2
<1>12. At(Len(hist), wkey, wlevel)'
  BY Zenon, <1>1, <1>4, <1>7 DEF At
<1>13. 0 \in Level
  BY <1>0 DEF Level
<1>14. WriterInv'
  BY Zenon, <1>1, <1>2, <1>7, <1>9, <1>10, <1>11, <1>12, <1>13 DEF Inv, WriterInv
<1> QED
  BY Zenon, <1>7, <1>8, <1>14 DEF Inv

LEMMA LinkInv ==
    ASSUME Inv, InsertLink
    PROVE  Inv'
<1> DEFINE p == prev[wlevel]
           s == Store(p, wlevel, wkey, TRUE)
           K == Keys(wlevel, Len(hist))
<1>0. kMaxHeight \in Nat \ {0} /\ MaxKey \in Nat \ {0}
  BY Zenon, SkipListAssumption
<1>1. /\ wpc = "link" /\ hist' = Append(hist, s)
      /\ UNCHANGED <<wx, published, reader>>
  BY Zenon DEF InsertLink
<1>2. /\ GetMaxHeight \in 1..kMaxHeight
      /\ wheight \in 1..GetMaxHeight /\ wlevel \in 0..wheight - 1 /\ wlevel \in Level
      /\ \A l \in wlevel..wheight - 1 : l \in Level /\ PrevOK(l)
      /\ p \in Linked(wlevel, Len(hist)) /\ p < wkey
      /\ wkey \in Key \ inserted /\ wkey \notin K
      /\ Succ(p, Last(p, wlevel), K) /\ Last(p, wlevel) > wkey
      /\ Len(hist) \in 1..Len(hist)
  BY Zenon, <1>1, AtLevel
<1>3. K \subseteq Key /\ p \in Node
  BY Zenon, <1>2 DEF Keys, Linked, Node
<1>4. s \in StoreSet /\ s.n = p /\ s.l = wlevel /\ s.v = wkey /\ s.release
  BY <1>0, <1>2, <1>3 DEF Store, StoreSet, Level, Key
<1> HIDE DEF s
<1>5. /\ KeysWith(s, wlevel) = K \cup {wkey}
      /\ \A l \in Level : l # wlevel => KeysWith(s, l) = Keys(l, Len(hist))
  BY Zenon, <1>2, <1>4 DEF KeysWith, Keys
<1>6. Fits(s)
  <2>1. Succ(p, wkey, K \cup {wkey})
    <3>1. \A k \in K : k > p => k >= wkey
      BY <1>0, <1>2, <1>3 DEF Succ, Key, Nil
    <3> QED
      BY <1>2, <3>1 DEF Succ, Key
  <2>2. ASSUME NEW i \in 1..Len(hist), hist[i].l = wlevel, hist[i].n # p, Latest(i, Len(hist))
        PROVE  Succ(hist[i].n, hist[i].v, K \cup {wkey})
    <3>1. Succ(hist[i].n, hist[i].v, K)
      BY Zenon, <1>2, <2>2 DEF Inv, MemInv, Successors
    <3>2. hist[i].n \in K \cup {HeadNode, wkey}
      BY Zenon, <1>2, <2>2 DEF Inv, WriterInv, Owners, Linked
    <3>3. wkey > hist[i].n => wkey >= hist[i].v
      <4> SUFFICES ASSUME wkey > hist[i].n, ~(wkey >= hist[i].v)
                   PROVE  FALSE
        BY Zenon
      <4>1. hist[i].n \in Int /\ hist[i].v \in Int /\ wkey \in Int /\ p \in Int
        BY SMTT(30), <1>0, <1>2, <1>3, <3>1, <3>2 DEF Succ, Key, Nil, Node, HeadNode
      <4>2. CASE hist[i].n < p
        <5>1. p \in K
          BY <1>2, <1>3, <3>2, <4>1, <4>2 DEF Linked, Key, HeadNode
        <5>2. p >= hist[i].v
          BY Zenon, <3>1, <4>1, <4>2, <5>1 DEF Succ
        <5> QED
          BY <1>2, <4>1, <5>2
      <4>3. CASE hist[i].n > p
        <5>1. hist[i].n \in K
          BY <1>2, <1>3, <3>2, <4>1, <4>3 DEF Linked, Key, HeadNode
        <5>2. Last(p, wlevel) \in Int
          BY <1>0, <1>2, <1>3 DEF Succ, Key, Nil
        <5> QED
          BY <1>2, <4>1, <4>3, <5>1, <5>2 DEF Succ
      <4> QED
        BY <2>2, <4>1, <4>2, <4>3
    <3> QED
      BY Zenon, <3>1, <3>3 DEF Succ
  <2>3. s.v \in Key => /\ \A m \in Level : m < s.l => s.v \in Keys(m, Len(hist))
                       /\ \E i \in 1..Len(hist) : At(i, s.v, s.l) /\ Latest(i, Len(hist))
    <3>1. \A m \in Level : m < wlevel => wkey \in Keys(m, Len(hist))
      BY Zenon, <1>1 DEF Inv, WriterInv
    <3>2. At(Len(hist), wkey, wlevel) /\ Latest(Len(hist), Len(hist))
      BY SMTT(30), <1>1, <1>2 DEF Inv, WriterInv, Latest
    <3> QED
      BY Zenon, <1>2, <1>4, <3>1, <3>2
  <2>4. s.l # HeightSlot
    BY <1>0, <1>2, <1>4 DEF Level, HeightSlot
  <2> QED
    BY Zenon, <1>4, <1>5, <2>1, <2>2, <2>3, <2>4 DEF Fits
<1>7. /\ MemInv'
      /\ \A l \in Level : Keys(l, Len(hist))' = KeysWith(s, l)
      /\ \A l \in Level : \A n \in Linked(l, Len(hist)) :
           ~(s.n = n /\ s.l = l) => Last(n, l)' = Last(n, l)
      /\ GetMaxHeight' = GetMaxHeight
      /\ Len(hist') = Len(hist) + 1 /\ Len(hist) \in Nat
      /\ \A i \in 1..Len(hist) : hist'[i] = hist[i]
      /\ hist'[Len(hist) + 1] = s
  BY Zenon, <1>1, <1>2, <1>4, <1>6, WriterFrame
<1>8. ReaderInv' /\ LookupsExact'
  BY Zenon, <1>1, <1>4, ReaderStable
<1>9. /\ \A l \in Level : Keys(l, Len(hist))' =
           IF l = wlevel THEN Keys(l, Len(hist)) \cup {wkey} ELSE Keys(l, Len(hist))
      /\ \A l \in Level : Linked(l, Len(hist)) \subseteq Linked(l, Len(hist))'
      /\ wkey \in Linked(wlevel, Len(hist))' \/ wlevel' # wlevel
  BY Zenon, <1>2, <1>5, <1>7 DEF Linked
<1>10. \A i \in 1..Len(hist) + 1 :
         hist'[i].l \in Level => hist'[i].n \in Linked(hist[i].l, Len(hist))'
  <2> SUFFICES ASSUME NEW i \in 1..Len(hist) + 1, hist'[i].l \in Level
               PROVE  hist'[i].n \in Linked(hist[i].l, Len(hist))'
    BY Zenon
  <2>1. CASE i = Len(hist) + 1
    <3>1. hist'[i] = s
      BY Zenon, <1>7, <2>1
    <3> QED
      BY Zenon, <1>2, <1>4, <1>9, <3>1
  <2>2. CASE i \in 1..Len(hist)
    <3>1. hist'[i] = hist[i]
      BY Zenon, <1>7, <2>2
    <3>2. hist[i].n \in Linked(hist[i].l, Len(hist)) \/ (wlevel = hist[i].l /\ wkey = hist[i].n)
      BY Zenon, <2>2, <3>1 DEF Inv, WriterInv, Owners
    <3>3. CASE hist[i].n \in Linked(hist[i].l, Len(hist))
      BY Zenon, <1>9, <3>1, <3>3
    <3>4. CASE wlevel = hist[i].l /\ wkey = hist[i].n
      <4>1. \A l \in Level : l = wlevel => wkey \in Linked(l, Len(hist))'
        BY Zenon, <1>9 DEF Linked
      <4> QED
        BY Zenon, <3>1, <3>4, <4>1
    <3> QED
      BY Zenon, <3>2, <3>3, <3>4
  <2> QED
    BY SMTT(30), <1>7, <2>1, <2>2
<1>11. 0 \in Level
  BY <1>0 DEF Level
<1>12. \A l \in Level : l >= GetMaxHeight => Keys(l, Len(hist))' = {}
  BY <1>0, <1>2, <1>9 DEF Inv, WriterInv, Level
<1>13. \A l \in Level : wkey \in Keys(l, Len(hist)) <=> l < wlevel
  BY Zenon, <1>1 DEF Inv, WriterInv
<1>14. CASE wlevel + 1 < wheight
  <2>1. wpc' = "set" /\ wlevel' = wlevel + 1 /\ UNCHANGED <<wkey, prev, wheight, inserted>>
    BY Zenon, <1>14 DEF InsertLink
  <2>2. \A l \in wlevel + 1..wheight - 1 : PrevOK(l)'
    <3> SUFFICES ASSUME NEW l \in wlevel + 1..wheight - 1
                 PROVE  PrevOK(l)'
      BY Zenon
    <3>1. l \in Level /\ PrevOK(l) /\ l # wlevel
      BY <1>2
    <3>2. Last(prev[l], l)' = Last(prev[l], l)
      BY Zenon, <1>4, <1>7, <2>1, <3>1 DEF PrevOK
    <3> QED
      BY Zenon, <1>9, <2>1, <3>1, <3>2 DEF PrevOK
  <2>3. Owners'
    BY Zenon, <1>7, <1>10 DEF Owners
  <2>4. \A l \in Level : wkey \in Keys(l, Len(hist))' <=> l < wlevel + 1
    BY <1>2, <1>9, <1>13 DEF Level
  <2>5. (Keys(0, Len(hist)) \ {wkey})' = inserted
    BY Zenon, <1>1, <1>9, <1>11, <2>1 DEF Inv, WriterInv
  <2>6. /\ wheight' \in 1..GetMaxHeight' /\ wlevel' \in 0..wheight' - 1
        /\ \A l \in wlevel'..wheight' - 1 : PrevOK(l)'
        /\ \A l \in Level : wkey' \in Keys(l, Len(hist))' <=> l < wlevel'
    BY SMTT(30), <1>2, <1>7, <1>14, <2>1, <2>2, <2>4
  <2>7. /\ inserted' \subseteq Key /\ prev' \in [Level -> Link] /\ wkey' \in Key \ inserted'
    BY Zenon, <1>2, <2>1 DEF Inv, WriterInv
  <2>8. /\ \A l \in Level : l >= GetMaxHeight' => Keys(l, Len(hist))' = {}
        /\ (Keys(0, Len(hist)) \ {wkey})' = inserted'
    BY Zenon, <1>7, <1>12, <2>1, <2>5
  <2>9. WriterInv'
    BY Zenon, <2>1, <2>3, <2>6, <2>7, <2>8 DEF WriterInv
  <2> QED
    BY Zenon, <1>7, <1>8, <2>9 DEF Inv
<1>15. CASE ~(wlevel + 1 < wheight)
  <2>1. /\ wpc' = "idle" /\ inserted' = inserted \cup {wkey}
        /\ prev' = [l \in Level |-> Nil]
    BY Zenon, <1>15 DEF InsertLink
  <2>2. Owners'
    BY Zenon, <1>7, <1>10 DEF Owners
  <2>3. Keys(0, Len(hist))' = inserted \cup {wkey}
    <3>1. Keys(0, Len(hist)) \ {wkey} = inserted
      BY Zenon, <1>1 DEF Inv, WriterInv
    <3>2. wkey \in Keys(0, Len(hist))'
      BY <1>2, <1>9, <1>11, <1>13
    <3> QED
      BY Zenon, <1>9, <1>11, <3>1, <3>2
  <2>4. prev' \in [Level -> Link]
    BY Zenon, <2>1 DEF Link
  <2>5. inserted' \subseteq Key
    BY Zenon, <1>2, <2>1 DEF Inv, WriterInv
  <2>6. WriterInv'
    BY Zenon, <1>7, <1>12, <2>1, <2>2, <2>3, <2>4, <2>5 DEF WriterInv
  <2> QED
    BY Zenon, <1>7, <1>8, <2>6 DEF Inv
<1> QED
  BY Zenon, <1>14, <1>15

LEMMA WriterUnchanged ==
    ASSUME Inv, UNCHANGED <<hist, inserted, writer>>
    PROVE  MemInv' /\ WriterInv'
<1>1. /\ \A l, t : Keys(l, t)' = Keys(l, t) /\ Linked(l, t)' = Linked(l, t)
      /\ \A l, n : Last(n, l)' = Last(n, l)
      /\ GetMaxHeight' = GetMaxHeight
      /\ \A i, n, l : At(i, n, l)' <=> At(i, n, l)
  BY DEF Keys, Linked, Last, Readable, At, GetMaxHeight
<1>2. UNCHANGED <<wpc, wkey, wx, wlevel, prev, wheight>>
  BY Zenon DEF writer
<1>3. \A l : PrevOK(l)' <=> PrevOK(l)
  BY Zenon, <1>1, <1>2 DEF PrevOK
<1>4. Owners'
  BY Zenon, <1>1, <1>2 DEF Inv, WriterInv, Owners
<1>5. WriterInv'
  BY Zenon, <1>1, <1>2, <1>3, <1>4 DEF Inv, WriterInv
<1> QED
  BY Zenon, <1>5, MemUnchanged

LEMMA PublishInv ==
    ASSUME Inv, Publish
    PROVE  Inv'
<1>1. UNCHANGED <<hist, inserted, writer, reader>> /\ published' = Len(hist)
  BY Zenon DEF Publish
<1>2. MemInv' /\ WriterInv'
  BY Zenon, <1>1, WriterUnchanged
<1>3. \A l, t : Keys(l, t)' = Keys(l, t) /\ Linked(l, t)' = Linked(l, t)
  BY Zenon, <1>1 DEF Keys, Linked
<1>4. ReaderInv'
  BY <1>1, <1>3, SkipListAssumption DEF Inv, MemInv, Typed, ReaderInv, reader
<1>5. LookupsExact'
  BY Zenon, <1>1, <1>3 DEF Inv, LookupsExact, reader
<1> QED
  BY Zenon, <1>2, <1>4, <1>5 DEF Inv

-----------------------------------------------------------------------------
(* The reader *)

\* A load from a node the reader knows to be linked: the value is the
\* successor at the time the reader knows of afterwards.
LEMMA AcquireIs ==
    ASSUME Inv, NEW l \in Level, NEW n \in Linked(l, seen), NEW i \in Readable(n, l, seen),
           Acquire(i)
    PROVE  /\ seen' \in seen..Len(hist)
           /\ Succ(n, hist[i].v, Keys(l, seen'))
           /\ \A m : \A t \in 0..seen : Keys(m, t) \subseteq Keys(m, seen')
           /\ \A m : Keys(m, seen') \subseteq Keys(m, Len(hist))
           /\ \A m : Keys(m, seen') \subseteq Key
<1>1. seen \in 1..Len(hist)
  BY Zenon DEF Inv, ReaderInv
<1>2. /\ i \in 1..Len(hist)
      /\ Larger(seen, i) \in seen..Len(hist)
      /\ Succ(n, hist[i].v, Keys(l, Larger(seen, i)))
      /\ i > seen => hist[i].release
  BY Zenon, <1>1, LoadIs DEF Inv
<1>3. seen' = Larger(seen, i)
  BY Zenon, <1>1, <1>2 DEF Acquire, Larger
<1>4. \A m : \A t \in 0..seen : Keys(m, t) \subseteq Keys(m, seen')
  BY <1>1, <1>2, <1>3 DEF Keys
<1>5. \A m : Keys(m, seen') \subseteq Keys(m, Len(hist)) /\ Keys(m, seen') \subseteq Key
  BY <1>1, <1>2, <1>3 DEF Keys
<1> QED
  BY Zenon, <1>2, <1>3, <1>4, <1>5

LEMMA NewIteratorInv ==
    ASSUME Inv, NewIterator
    PROVE  Inv'
<1>1. /\ UNCHANGED <<hist, inserted, writer, published, rpc, x, level, hseen>>
      /\ rpc = "idle" /\ seen' = Larger(seen, published) /\ op' = "New" /\ node' = Nil
      /\ target' = Nil /\ ret' = Nil /\ since' = seen'
  BY Zenon DEF NewIterator, memory
<1>2. MemInv' /\ WriterInv'
  BY Zenon, <1>1, WriterUnchanged
<1>3. seen' \in 1..Len(hist) /\ seen' > kMaxHeight
  BY <1>1, SkipListAssumption DEF Larger, Inv, ReaderInv
<1>4. Nil \in Link /\ Nil \notin Key
  BY SkipListAssumption DEF Link, Nil, Key
<1>5. ReaderInv'
  BY <1>1, <1>3, <1>4 DEF Inv, MemInv, Typed, ReaderInv
<1>6. LookupsExact'
  BY Zenon, <1>1 DEF LookupsExact
<1> QED
  BY Zenon, <1>2, <1>5, <1>6 DEF Inv

LEMMA CallFindInv ==
    ASSUME Inv, NEW o \in {"Seek", "Contains", "SeekToLast", "Prev"}, NEW key \in Key \cup {Nil},
           o = "SeekToLast" => key = Nil, Find(o, key)
    PROVE  Inv'
<1>0. kMaxHeight \in Nat \ {0} /\ MaxKey \in Nat \ {0}
  BY Zenon, SkipListAssumption
<1>1. /\ UNCHANGED <<hist, inserted, writer, published, seen, node>>
      /\ rpc' = "find" /\ op' = o /\ target' = key /\ x' = HeadNode /\ since' = seen
  BY Zenon DEF Find, memory
<1>2. MemInv' /\ WriterInv'
  BY Zenon, <1>1, WriterUnchanged
<1>3. PICK i \in Readable(HeadNode, HeightSlot, Larger(seen, hseen)) :
        level' = hist[i].v - 1 /\ hseen' = i
  BY Zenon DEF Find
<1>4. i \in 1..Len(hist) /\ level' \in Level /\ hseen' \in 0..Len(hist)
  BY <1>0, <1>3 DEF Inv, MemInv, Typed, Readable, At, Level
<1>5. target' \in Link /\ x' \in Linked(level, seen)' /\ x' < target'
  BY <1>0, <1>1 DEF Link, Node, Linked, Key, Nil, HeadNode
<1>6. Keys(0, seen)' = Keys(0, seen)
  BY Zenon, <1>1 DEF Keys
<1>7. ReaderInv'
  BY <1>1, <1>4, <1>5, <1>6 DEF Inv, ReaderInv
<1>8. LookupsExact'
  BY Zenon, <1>1 DEF LookupsExact
<1> QED
  BY Zenon, <1>2, <1>7, <1>8 DEF Inv

LEMMA FollowInv ==
    ASSUME Inv, NEW o \in {"SeekToFirst", "Next"}, NEW n \in Linked(0, seen), Follow(o, n)
    PROVE  Inv'
<1>0. kMaxHeight \in Nat \ {0} /\ MaxKey \in Nat \ {0} /\ 0 \in Level
  BY SkipListAssumption DEF Level
<1>1. /\ UNCHANGED <<hist, inserted, writer, published, rpc, x, level, hseen>>
      /\ rpc = "idle" /\ op' = o /\ target' = n /\ since' = seen
  BY Zenon DEF Follow, memory
<1>2. MemInv' /\ WriterInv'
  BY Zenon, <1>1, WriterUnchanged
<1>3. PICK i \in Readable(n, 0, seen) : Acquire(i) /\ ret' = hist[i].v /\ node' = hist[i].v
  BY Zenon DEF Follow
<1>4. /\ seen' \in seen..Len(hist)
      /\ Succ(n, ret', Keys(0, seen'))
      /\ Keys(0, seen) \subseteq Keys(0, seen')
      /\ Keys(0, seen') \subseteq Keys(0, Len(hist))
      /\ Keys(0, seen') \subseteq Key
  <2>1. seen \in 0..seen
    BY DEF Inv, ReaderInv
  <2> QED
    BY Zenon, <1>0, <1>3, <2>1, AcquireIs
<1>5. /\ Keys(0, since)' = Keys(0, seen) /\ Keys(0, seen)' = Keys(0, seen')
      /\ Keys(0, Len(hist))' = Keys(0, Len(hist))
  BY Zenon, <1>1 DEF Keys
<1>6. target' \in Link /\ node' \in Link /\ (node' \in Key => node' \in Keys(0, seen'))
  BY SMTT(30), <1>0, <1>1, <1>3, <1>4 DEF Link, Node, Linked, Keys, Succ, Nil, Key
<1>7. ReaderInv'
  BY SMTT(30), <1>0, <1>1, <1>4, <1>5, <1>6 DEF Inv, ReaderInv
<1>8. LookupsExact'
  BY Zenon, <1>1, <1>4, <1>5 DEF LookupsExact, Succ
<1> QED
  BY Zenon, <1>2, <1>7, <1>8 DEF Inv

LEMMA FindStepInv ==
    ASSUME Inv, FindStep
    PROVE  Inv'
<1>0. kMaxHeight \in Nat \ {0} /\ MaxKey \in Nat \ {0} /\ 0 \in Level
  BY SkipListAssumption DEF Level
<1>1. /\ UNCHANGED <<hist, inserted, writer, published, op, target, hseen, since>>
      /\ rpc = "find"
  BY Zenon DEF FindStep, memory
<1>2. MemInv' /\ WriterInv'
  BY Zenon, <1>1, WriterUnchanged
<1>3. PICK i \in Readable(x, level, seen) :
        /\ Acquire(i)
        /\ LET next == hist[i].v IN
           IF Advances(next)
           THEN x' = next /\ UNCHANGED <<rpc, level, ret, node>>
           ELSE IF level = 0
           THEN rpc' = "idle" /\ Return(next) /\ x' = HeadNode /\ UNCHANGED level
           ELSE level' = level - 1 /\ UNCHANGED <<rpc, x, ret, node>>
  BY Zenon DEF FindStep
<1> DEFINE next == hist[i].v
<1>4. /\ op \in {"Seek", "Contains", "SeekToLast", "Prev"}
      /\ level \in Level /\ x \in Linked(level, seen) /\ x < target
      /\ seen \in 1..Len(hist) /\ seen > kMaxHeight /\ since \in 1..seen /\ target \in Link
      /\ op = "SeekToLast" => target = Nil
      /\ node \in Link /\ (node \in Key => node \in Keys(0, seen))
  BY Zenon, <1>1 DEF Inv, ReaderInv
<1>5. /\ seen' \in seen..Len(hist)
      /\ Succ(x, next, Keys(level, seen'))
      /\ \A m : Keys(m, seen) \subseteq Keys(m, seen')
      /\ Keys(0, since) \subseteq Keys(0, seen')
      /\ Keys(0, seen') \subseteq Keys(0, Len(hist))
      /\ \A m : Keys(m, seen') \subseteq Key
  <2>1. seen \in 0..seen /\ since \in 0..seen
    BY <1>4
  <2> QED
    BY Zenon, <1>3, <1>4, <2>1, AcquireIs
<1>6. /\ \A l : Keys(l, seen)' = Keys(l, seen') /\ Linked(l, seen)' = Linked(l, seen')
      /\ Keys(0, since)' = Keys(0, since)
      /\ Keys(0, Len(hist))' = Keys(0, Len(hist))
  BY Zenon, <1>1 DEF Keys, Linked
<1>7. /\ seen' \in 1..Len(hist) /\ seen' > kMaxHeight /\ since' \in 1..seen'
      /\ x \in Linked(level, seen')
      /\ node \in Key => node \in Keys(0, seen')
  BY <1>0, <1>1, <1>4, <1>5 DEF Linked
<1>8. x \in Int /\ target \in Int /\ next \in Int /\ Nil \notin Key /\ Nil \in Int
  BY SMTT(30), <1>0, <1>4, <1>5 DEF Linked, Keys, Key, HeadNode, Nil, Link, Node, Succ
<1>9. CASE Advances(next)
  <2>1. x' = next /\ UNCHANGED <<rpc, level, ret, node>>
    BY Zenon, <1>3, <1>9
  <2>2. next # Nil /\ next < target
    BY SMTT(30), <1>0, <1>4, <1>5, <1>8, <1>9 DEF Advances, KeyIsAfterNode, Succ, Nil, Key
  <2>3. next \in Linked(level, seen')
    BY Zenon, <1>5, <2>2 DEF Succ, Linked
  <2>4. Linked(level, seen)' = Linked(level, seen')
    BY Zenon, <1>6, <2>1
  <2>5. ReaderInv'
    BY Zenon, <1>1, <1>4, <1>6, <1>7, <2>1, <2>2, <2>3, <2>4 DEF Inv, ReaderInv
  <2>6. LookupsExact'
    BY Zenon, <1>1, <2>1 DEF LookupsExact
  <2> QED
    BY Zenon, <1>2, <2>5, <2>6 DEF Inv
<1>10. CASE ~Advances(next) /\ level = 0
  <2>1. rpc' = "idle" /\ Return(next) /\ UNCHANGED level
    BY Zenon, <1>3, <1>10
  <2>2. /\ ret' = IF op \in {"Seek", "Contains"} THEN next ELSE x
        /\ node' = CASE op = "Contains" -> node
                     [] op = "Seek" -> next
                     [] OTHER -> IF x = HeadNode THEN Nil ELSE x
    BY Zenon, <2>1 DEF Return
  <2>3. next >= target
    BY <1>0, <1>4, <1>8, <1>10 DEF Advances, KeyIsAfterNode, Link, Node, Key, HeadNode, Nil
  <2>4. \A k \in Keys(0, since) : k > x => k >= next
    BY Zenon, <1>5, <1>10 DEF Succ
  <2>5. \A k \in Keys(0, since) : k \in Int
    BY SMTT(30) DEF Keys, Key
  <2>6. /\ next \in Keys(0, Len(hist)) \cup {Nil}
        /\ x \in Keys(0, Len(hist)) \cup {HeadNode}
    BY Zenon, <1>5, <1>7, <1>10 DEF Succ, Linked
  <2>7. LookupsExact'
    <3>1. CASE op \in {"Seek", "Contains"}
      <4>1. ret' = next
        BY Zenon, <2>2, <3>1
      <4>2. \A k \in Keys(0, since) : k >= target => k >= next
        BY <1>4, <1>8, <2>4, <2>5
      <4> QED
        BY Zenon, <1>1, <1>6, <2>3, <2>6, <3>1, <4>1, <4>2 DEF LookupsExact
    <3>2. CASE op \in {"SeekToLast", "Prev"}
      <4>1. ret' = x
        BY Zenon, <2>2, <3>2
      <4>2. \A k \in Keys(0, since) : k < target => k <= x
        BY <1>8, <2>3, <2>4, <2>5
      <4> QED
        BY Zenon, <1>1, <1>4, <1>6, <2>6, <3>2, <4>1, <4>2 DEF LookupsExact
    <3> QED
      BY Zenon, <1>4, <3>1, <3>2
  <2>8. node' \in Link /\ (node' \in Key => node' \in Keys(0, seen'))
    <3>1. next \in Link /\ (next \in Key => next \in Keys(0, seen'))
      BY Zenon, <1>5, <1>8, <1>10 DEF Succ, Link, Node
    <3>2. x \in Link /\ (x \in Key => x \in Keys(0, seen'))
      BY <1>5, <1>7, <1>10 DEF Linked, Link, Node, Key, HeadNode
    <3>3. Nil \in Link
      BY Zenon DEF Link
    <3>4. node' \in {node, next, Nil, x}
      BY Zenon, <1>4, <2>2
    <3> QED
      BY Zenon, <1>4, <1>7, <1>8, <3>1, <3>2, <3>3, <3>4
  <2>9. ReaderInv'
    BY Zenon, <1>1, <1>4, <1>6, <1>7, <2>1, <2>8 DEF Inv, ReaderInv
  <2> QED
    BY Zenon, <1>2, <2>7, <2>9 DEF Inv
<1>11. CASE ~Advances(next) /\ level # 0
  <2>1. level' = level - 1 /\ UNCHANGED <<rpc, x, ret, node>>
    BY Zenon, <1>3, <1>11
  <2>2. level - 1 \in Level /\ level - 1 < level
    BY <1>0, <1>4, <1>11 DEF Level
  <2>3. Keys(level, seen') \subseteq Keys(level - 1, seen')
    BY Zenon, <1>4, <1>7, <2>2 DEF Inv, MemInv, Nested
  <2>4. x \in Linked(level - 1, seen')
    BY Zenon, <1>7, <2>3 DEF Linked
  <2>5. Linked(level, seen)' = Linked(level - 1, seen')
    BY Zenon, <1>6, <2>1
  <2>6. ReaderInv'
    BY Zenon, <1>1, <1>4, <1>6, <1>7, <2>1, <2>2, <2>4, <2>5 DEF Inv, ReaderInv
  <2>7. LookupsExact'
    BY Zenon, <1>1, <2>1 DEF LookupsExact
  <2> QED
    BY Zenon, <1>2, <2>6, <2>7 DEF Inv
<1> QED
  BY Zenon, <1>9, <1>10, <1>11

-----------------------------------------------------------------------------
(* The theorems *)

LEMMA NextInv == Inv /\ [Next]_vars => Inv'
<1> SUFFICES ASSUME Inv, [Next]_vars PROVE Inv'
  BY Zenon
<1>1. ASSUME NEW k \in Key, InsertCall(k) PROVE Inv'
  BY Zenon, <1>1, CallInv
<1>2. CASE InsertFind
  BY Zenon, <1>2, FindInv
<1>3. ASSUME NEW h \in 1..kMaxHeight, InsertHeight(h) PROVE Inv'
  BY Zenon, <1>3, HeightInv
<1>4. CASE InsertSetNext
  BY Zenon, <1>4, SetNextInv
<1>5. CASE InsertLink
  BY Zenon, <1>5, LinkInv
<1>6. CASE Publish
  BY Zenon, <1>6, PublishInv
<1>7. CASE NewIterator
  BY Zenon, <1>7, NewIteratorInv
<1>8. ASSUME NEW k \in Key, Seek(k) \/ Contains(k) PROVE Inv'
  BY Zenon, <1>8, CallFindInv DEF Seek, Contains
<1>9. CASE SeekToFirst
  <2>1. HeadNode \in Linked(0, seen)
    BY Zenon DEF Linked
  <2> QED
    BY Zenon, <1>9, <2>1, FollowInv DEF SeekToFirst
<1>10. CASE SeekToLast
  BY Zenon, <1>10, CallFindInv DEF SeekToLast
<1>11. CASE Next_
  <2>1. node \in Linked(0, seen)
    BY Zenon, <1>11 DEF Next_, Inv, ReaderInv, Linked
  <2> QED
    BY Zenon, <1>11, <2>1, FollowInv DEF Next_
<1>12. CASE Prev
  BY Zenon, <1>12, CallFindInv DEF Prev
<1>13. CASE FindStep
  BY Zenon, <1>13, FindStepInv
<1>14. CASE UNCHANGED vars
  <2>1. UNCHANGED <<hist, inserted, published, writer, reader>>
    BY Zenon, <1>14 DEF vars, memory
  <2> QED
    BY Zenon, <2>1, WriterUnchanged, ReaderUnchanged DEF Inv
<1> QED
  BY Zenon, <1>1, <1>2, <1>3, <1>4, <1>5, <1>6, <1>7, <1>8, <1>9, <1>10, <1>11, <1>12, <1>13, <1>14
  DEF Next, WriterStep, ReaderStep

\* Every lookup and every move of an iterator returns the right node with
\* respect to all keys whose insertion happened before the call, whatever
\* insertions run beside it and however the memory delays their stores
\* (FindGreaterOrEqual, FindLessThan, FindLast and Next of skiplist.h).
THEOREM LookupsAreExact == Spec => []LookupsExact
<1>1. Inv => LookupsExact
  BY Zenon DEF Inv
<1> QED
  BY <1>1, InitInv, NextInv, PTL DEF Spec

\* A reader never loads a link whose first store it does not know of
\* (Node::Next against NoBarrier_SetNext in Insert).
THEOREM LinksAreInitialised == Spec => []LinksInitialised
<1>1. Inv => LinksInitialised
  <2> SUFFICES ASSUME Inv PROVE LinksInitialised
    BY Zenon
  <2>0. /\ seen \in 1..Len(hist) /\ 0 \in Level
        /\ \A l \in Level : l + 1 \in 1..seen /\ At(l + 1, HeadNode, l)
    BY SkipListAssumption DEF Inv, ReaderInv, MemInv, Typed, Level
  <2>1. ASSUME NEW l \in Level, NEW n \in Keys(l, seen)
        PROVE  \E i \in 1..seen : At(i, n, l)
    BY Zenon, <2>0 DEF Inv, MemInv, Initialised
  <2>2. ASSUME rpc = "find"
        PROVE  \E i \in 1..seen : At(i, x, level)
    BY Zenon, <2>0, <2>1, <2>2 DEF Inv, ReaderInv, Linked
  <2> QED
    BY Zenon, <2>0, <2>1, <2>2 DEF Inv, ReaderInv, LinksInitialised
<1> QED
  BY <1>1, InitInv, NextInv, PTL DEF Spec

\* Between insertions every level is the sorted chain of its keys and a part
\* of the level below, and level 0 has every inserted key (Insert).
THEOREM ListIsSorted == Spec => []ListSorted
<1>1. Inv => ListSorted
  <2> SUFFICES ASSUME Inv, wpc = "idle"
               PROVE  /\ Keys(0, Len(hist)) = inserted
                      /\ \A l \in Level :
                           LET K == Keys(l, Len(hist)) IN
                           /\ l > 0 => K \subseteq Keys(l - 1, Len(hist))
                           /\ l >= GetMaxHeight => K = {}
                           /\ \A n \in K \cup {HeadNode} :
                                /\ Last(n, l) \in K \cup {Nil}
                                /\ Last(n, l) > n
                                /\ \A k \in K : k > n => k >= Last(n, l)
    BY Zenon DEF ListSorted
  <2>1. Keys(0, Len(hist)) = inserted /\ Len(hist) \in 1..Len(hist)
    BY SMTT(30), SkipListAssumption DEF Inv, WriterInv, MemInv, Typed
  <2>2. ASSUME NEW l \in Level, l > 0
        PROVE  Keys(l, Len(hist)) \subseteq Keys(l - 1, Len(hist))
    <3>1. l - 1 \in Level /\ l - 1 < l
      BY <2>2, SkipListAssumption DEF Level
    <3> QED
      BY Zenon, <2>1, <3>1 DEF Inv, MemInv, Nested
  <2>3. \A l \in Level : l >= GetMaxHeight => Keys(l, Len(hist)) = {}
    BY Zenon DEF Inv, WriterInv
  <2>4. ASSUME NEW l \in Level, NEW n \in Keys(l, Len(hist)) \cup {HeadNode}
        PROVE  Succ(n, Last(n, l), Keys(l, Len(hist)))
    BY Zenon, LastSucc DEF Inv, Linked
  <2> QED
    BY Zenon, <2>1, <2>2, <2>3, <2>4 DEF Succ
<1> QED
  BY <1>1, InitInv, NextInv, PTL DEF Spec

=============================================================================
