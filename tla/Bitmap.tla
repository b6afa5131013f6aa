------------------------------- MODULE Bitmap -------------------------------
(****************************************************************************)
(* MySparseBitVector (bitmap.h): a list of elements, each an index and the  *)
(* bits it holds (numbers below ElementSize), and CurrElementIter, where    *)
(* the last search ended. An iterator is the position it points at, the     *)
(* length plus one for end(); CurrElementIter, which outlives insertions    *)
(* and removals, is kept as the index of its element, END for end().        *)
(*                                                                          *)
(* Four members that nothing in the repository calls, and no build of it    *)
(* therefore contains, are left out: operator>>=, clear_range, set_range    *)
(* (their masks have 32 bits for words of 64) and operator&=.               *)
(****************************************************************************)
EXTENDS Integers, FiniteSets, SequencesExt

CONSTANTS
    ElementSize,  \* bits of an element,
    WORDSZ,       \* and of a word (BITWORD_SIZE)
    Bits,         \* bound: the bits set
    MaxCount,     \* bound: how many of them at a time
    Others,       \* bound: the right-hand sides, as sets of bits
    none          \* the value of a void operation

ASSUME SizesAssumption ==
    /\ WORDSZ \in Nat \ {0}
    /\ ElementSize \in Nat \ {0} /\ ElementSize % WORDSZ = 0
ASSUME BitsAssumption ==
    Bits \subseteq Nat /\ Others \subseteq SUBSET Bits /\ \A R \in Others : IsFiniteSet(R)

VARIABLES els, cur, ret
vars == <<els, cur, ret>>

END == -1
Word(w) == w * WORDSZ .. (w + 1) * WORDSZ - 1

IndexAt(s, p) == IF p > Len(s) THEN END ELSE s[p].idx
PosOf(s, c) == IF c = END THEN Len(s) + 1 ELSE CHOOSE p \in DOMAIN s : s[p].idx = c

Element(i, B) == [idx |-> i, bits |-> B]
Elements == [idx : Nat, bits : SUBSET (0..ElementSize - 1)]
Lists == Seq(Elements)
Pairs == Lists \X Lists

\* The operations of one element on another with the same index.
unionWith(e, f) == [e EXCEPT !.bits = @ \cup f.bits]
intersectWithComplement(e, f) == [e EXCEPT !.bits = @ \ f.bits]
intersects(e, f) == e.bits \cap f.bits # {}

\* The first bit, and the first from curr on.
find_first(e) == Min(e.bits)
find_next(e, curr) == Min({b \in e.bits : b >= curr} \cup {ElementSize})

Contents(s) == UNION {{e.idx * ElementSize + b : b \in e.bits} : e \in ToSet(s)}

\* FindLowerBound in a list that is not empty: backwards it stops at the begin,
\* whose index may be smaller than i.
\* The mutant searches forwards only.
FindLowerBound_Forwards(s, c, i) ==
    LET start == IF c = END THEN Len(s) ELSE PosOf(s, c)
    IN  Min({Len(s) + 1} \cup {p \in start..Len(s) : s[p].idx >= i})
FindLowerBound(s, c, i) ==
    LET start == IF c = END THEN Len(s) ELSE PosOf(s, c)
    IN  IF s[start].idx = i THEN start
        ELSE IF s[start].idx > i
          THEN Max({1} \cup {p \in 1..start : s[p].idx <= i})
          ELSE Min({Len(s) + 1} \cup {p \in start..Len(s) : s[p].idx >= i})

\* Is element i at the position found?
Found(s, p, i) == p <= Len(s) /\ s[p].idx = i

\* The list and the cursor after set(n) and reset(n).
SetBit(s, c, n) ==
    LET i == n \div ElementSize
        b == n % ElementSize
        p == FindLowerBound(s, c, i)
    IN  IF s = <<>> THEN <<Element(i, {b})>>
        ELSE IF Found(s, p, i) THEN [s EXCEPT ![p].bits = @ \cup {b}]
        ELSE InsertAt(s, IF p <= Len(s) /\ s[p].idx < i THEN p + 1 ELSE p, Element(i, {b}))

\* Mutant: the element stays when its last bit goes.
ResetBit_KeepsEmpty(s, c, n) ==
    LET i == n \div ElementSize
        p == FindLowerBound(s, c, i)
    IN  IF ~Found(s, p, i) THEN [els |-> s, cur |-> IndexAt(s, p)]
        ELSE [els |-> [s EXCEPT ![p].bits = @ \ {n % ElementSize}], cur |-> i]

ResetBit(s, c, n) ==
    LET i == n \div ElementSize
        p == FindLowerBound(s, c, i)
        rest == s[p].bits \ {n % ElementSize}
    IN  IF ~Found(s, p, i) THEN [els |-> s, cur |-> IndexAt(s, p)]
        ELSE IF rest # {} THEN [els |-> [s EXCEPT ![p].bits = rest], cur |-> i]
        ELSE [els |-> RemoveAt(s, p), cur |-> IndexAt(s, p + 1)]

TestBit(s, c, n) ==
    LET i == n \div ElementSize
        p == FindLowerBound(s, c, i)
    IN  Found(s, p, i) /\ n % ElementSize \in s[p].bits

----------------------------------------------------------------------------
\* The loops over two lists

Union(s, t) ==
    LET union[l \in Pairs] ==
          IF l[2] = <<>> THEN l[1]
          ELSE IF l[1] = <<>> \/ Head(l[1]).idx > Head(l[2]).idx
            THEN <<Head(l[2])>> \o union[<<l[1], Tail(l[2])>>]
          ELSE IF Head(l[1]).idx = Head(l[2]).idx
            THEN <<unionWith(Head(l[1]), Head(l[2]))>> \o union[<<Tail(l[1]), Tail(l[2])>>]
          ELSE <<Head(l[1])>> \o union[<<Tail(l[1]), l[2]>>]
    IN  union[<<s, t>>]

NonEmpty(e) == IF e.bits = {} THEN <<>> ELSE <<e>>

\* intersectWithComplement, in place or into a third bitmap.
Difference(s, t) ==
    LET rest[l \in Pairs] ==
          IF l[1] = <<>> \/ l[2] = <<>> THEN l[1]
          ELSE IF Head(l[1]).idx > Head(l[2]).idx THEN rest[<<l[1], Tail(l[2])>>]
          ELSE IF Head(l[1]).idx = Head(l[2]).idx
            THEN NonEmpty(intersectWithComplement(Head(l[1]), Head(l[2])))
                   \o rest[<<Tail(l[1]), Tail(l[2])>>]
          ELSE <<Head(l[1])>> \o rest[<<Tail(l[1]), l[2]>>]
    IN  rest[<<s, t>>]

Intersects(s, t) ==
    LET meet[l \in Pairs] ==
          IF l[1] = <<>> \/ l[2] = <<>> THEN FALSE
          ELSE IF Head(l[1]).idx > Head(l[2]).idx THEN meet[<<l[1], Tail(l[2])>>]
          ELSE IF Head(l[1]).idx = Head(l[2]).idx
            THEN intersects(Head(l[1]), Head(l[2])) \/ meet[<<Tail(l[1]), Tail(l[2])>>]
          ELSE meet[<<Tail(l[1]), l[2]>>]
    IN  meet[<<s, t>>]

----------------------------------------------------------------------------
\* The iterator: p is Iter, n is BitNumber, both that of the next bit set.
BitsFrom(s, p, n) ==
    LET bits[l \in (DOMAIN s) \X Nat] ==
          LET e == s[l[1]]
              at == l[2] % ElementSize
              b == (l[2] + 1) % ElementSize
              inWord == {x \in e.bits \cap Word(at \div WORDSZ) : x > at}
              next == find_next(e, b)
              here == e.idx * ElementSize
          IN  <<l[2]>> \o
                (IF inWord # {} THEN bits[<<l[1], here + Min(inWord)>>]
                 ELSE IF next # ElementSize /\ b # 0 THEN bits[<<l[1], here + next>>]
                 ELSE IF l[1] = Len(s) THEN <<>>
                 ELSE bits[<<l[1] + 1,
                             s[l[1] + 1].idx * ElementSize + find_first(s[l[1] + 1])>>])
    IN  bits[<<p, n>>]

FindFirst(s) == IF s = <<>> THEN -1 ELSE Head(s).idx * ElementSize + find_first(Head(s))

BitCount[s \in Lists] ==
    IF s = <<>> THEN 0 ELSE Cardinality(Head(s).bits) + BitCount[Tail(s)]

\* A bitmap that holds S, as set() builds it.
Build(S) == FoldSet(LAMBDA n, s : SetBit(s, END, n), <<>>, S)

----------------------------------------------------------------------------
\* The operations: the new list and cursor, the operation and its value.
Become(s, c, op, v) == els' = s /\ cur' = c /\ ret' = <<op, v>>
Begin(s) == IndexAt(s, 1)
Answer(op, v) == Become(els, cur, op, v)

idle == <<>>
Init == els = <<>> /\ cur = END /\ ret = idle

\* The cursor moves in test(), too.
Moved(n) == IF els = <<>> THEN cur ELSE IndexAt(els, FindLowerBound(els, cur, n \div ElementSize))
Has(n) == els # <<>> /\ TestBit(els, cur, n)

Test(n) == Become(els, Moved(n), "test", Has(n))

Reset(n) ==
    IF els = <<>> THEN Answer("reset", none)
    ELSE \E r \in {ResetBit(els, cur, n)} : Become(r.els, r.cur, "reset", none)

Set(n) == Become(SetBit(els, cur, n), n \div ElementSize, "set", none)

TestAndSet(n) ==
    IF Has(n) THEN Become(els, Moved(n), "test_and_set", FALSE)
    ELSE Become(SetBit(els, Moved(n), n), n \div ElementSize, "test_and_set", TRUE)

\* operator|=, intersectWithComplement
OrWith(t) == IF t = <<>> THEN Answer("or", FALSE)
             ELSE \E s \in {Union(els, t)} : Become(s, Begin(s), "or", s # els)

Without(t) == IF els = <<>> \/ t = <<>> THEN Answer("without", FALSE)
              ELSE \E s \in {Difference(els, t)} : Become(s, Begin(s), "without", s # els)

\* The bitmap cleared, then filled: the three-argument intersectWithComplement
\* (s without t) and operator= (t empty). CurrElementIter stays at end().
Fill(s, t) == Become(Difference(s, t), END, "fill", none)

Clear == Become(<<>>, END, "clear", none)

\* What changes nothing, the last a walk with the iterator.
Equal(t) == Answer("equal", els = t)
IntersectsWith(t) == Answer("intersects", Intersects(els, t))
First == Answer("find_first", FindFirst(els))
Count == Answer("count", BitCount[els])
Single == Answer("single", Len(els) = 1 /\ Cardinality(els[1].bits) = 1)
Walk == Answer("walk", IF els = <<>> THEN <<>> ELSE BitsFrom(els, 1, FindFirst(els)))

Bound == Contents(els') \subseteq Bits /\ Cardinality(Contents(els')) <= MaxCount

Call ==
    /\ ret = idle
    /\ \/ \E n \in Bits : Test(n) \/ Reset(n) \/ Set(n) \/ TestAndSet(n)
       \/ \E R \in Others : \E t \in {Build(R)} :
            OrWith(t) \/ Without(t) \/ Equal(t) \/ IntersectsWith(t)
       \/ \E R, S \in Others : Fill(Build(R), Build(S))
       \/ Clear \/ First \/ Count \/ Single \/ Walk
    /\ Bound

\* The caller uses the value and goes on.
Return == ret # idle /\ ret' = idle /\ UNCHANGED <<els, cur>>

Next == Call \/ Return

Spec == Init /\ [][Next]_vars

----------------------------------------------------------------------------
\* The list stays sorted and without empty elements, which searching, comparing
\* and walking rely on, and CurrElementIter never dangles.
Proper(s) ==
    /\ \A p \in DOMAIN s : s[p].bits # {} /\ s[p].bits \subseteq 0..ElementSize - 1
    /\ \A p, q \in DOMAIN s : p < q => s[p].idx < s[q].idx
Cursors(s) == {END} \cup {e.idx : e \in ToSet(s)}
Canonical == Proper(els) /\ cur \in Cursors(els)

\* Every operation does and returns what it does to a set of numbers.
Abstract == INSTANCE BitSet WITH set <- Contents(els)
ImplementsBitSet == Abstract!Spec
=============================================================================
