----------------------------- MODULE BitmapProofs -----------------------------
(* Proofs about MySparseBitVector, for every size of words and elements and     *)
(* bitmaps of any number of bits.                                               *)
EXTENDS Bitmap, SharedProofs

(* Loops.                                                                       *)

\* A set of natural numbers has a least one.
LEMMA LeastNumber ==
    ASSUME NEW T, T \subseteq Nat, T # {}
    PROVE  \E n \in T : \A m \in T : n =< m
<1>1. PICK k \in T : k \in Nat
  OBVIOUS
<1> DEFINE D == {m \in T : m =< k}
<1>2. D \subseteq 0..k
  <2> SUFFICES ASSUME NEW m \in T, m =< k PROVE m \in 0..k
    OBVIOUS
  <2>1. m \in Nat
    OBVIOUS
  <2> QED
    BY <1>1, <2>1
<1>3. IsFiniteSet(D)
  <2>1. IsFiniteSet(0..k)
    BY FS_Interval
  <2> HIDE DEF D
  <2> QED
    BY <1>2, <2>1, FS_Subset
<1>4. D \subseteq Int /\ k \in D
  <2>1. k =< k
    BY <1>1
  <2>2. T \subseteq Int
    OBVIOUS
  <2> QED
    BY <2>1, <2>2
<1>5. PICK n \in D : \A m \in D : n =< m
  <2> HIDE DEF D
  <2> QED
    BY <1>3, <1>4, LeastMember
<1>6. n \in T /\ n \in Nat /\ n =< k /\ k \in Nat
  OBVIOUS
<1>7. ASSUME NEW m \in T PROVE n =< m
  <2>1. CASE m =< k
    BY <1>5, <2>1
  <2>2. CASE ~(m =< k)
    BY <1>6, <2>2
  <2> QED
    BY <2>1, <2>2
<1> QED
  BY <1>6, <1>7

\* What holds of x when it holds of everything smaller holds of everything.
LEMMA Descent ==
    ASSUME NEW S, NEW size, \A x \in S : size[x] \in Nat, NEW Good,
           \A x \in S : (\A y \in S : size[y] < size[x] => y \in Good) => x \in Good
    PROVE  S \subseteq Good
<1> DEFINE T == {size[x] : x \in S \ Good}
<1> SUFFICES ASSUME S \ Good # {} PROVE FALSE
  OBVIOUS
<1>1. T \subseteq Nat /\ T # {}
  OBVIOUS
<1>2. PICK n \in T : \A m \in T : n =< m
  <2> HIDE DEF T
  <2> QED
    BY <1>1, LeastNumber
<1>3. PICK x \in S \ Good : n = size[x]
  OBVIOUS
<1>4. ASSUME NEW y \in S, size[y] < size[x]
      PROVE  y \in Good
  <2>1. CASE y \in S \ Good
    <3>1. n =< size[y]
      BY <1>2, <2>1
    <3> QED
      BY <1>3, <1>4, <3>1
  <2> QED
    BY <2>1
<1> QED
  BY <1>4

\* A loop from a state x in S either stops, with the value base[x], or goes on from
\* next[x], which is smaller, and adds to its value what comb[x] adds.
CanLoop(S, V, stop, base, next, size, comb) ==
    /\ base \in [S -> V] /\ comb \in [S -> [V -> V]]
    /\ \A x \in S : size[x] \in Nat
    /\ \A x \in S \ stop : next[x] \in S /\ size[next[x]] < size[x]

\* It has a value from every state.
LEMMA LoopExists ==
    ASSUME NEW S, NEW V, NEW stop, NEW base, NEW next, NEW size, NEW comb,
           CanLoop(S, V, stop, base, next, size, comb)
    PROVE  \E f \in [S -> V] :
              \A x \in S : f[x] = IF x \in stop THEN base[x] ELSE comb[x][f[next[x]]]
<1> DEFINE Complete(Q) ==
               /\ \A x \in S : x \in stop => <<x, base[x]>> \in Q
               /\ \A x \in S, v \in V :
                     x \notin stop /\ <<next[x], v>> \in Q => <<x, comb[x][v]>> \in Q
           R == {p \in S \X V : \A Q \in SUBSET (S \X V) : Complete(Q) => p \in Q}
           Unique(x) == \E v \in V : <<x, v>> \in R /\ \A w \in V : <<x, w>> \in R => w = v
           Good == {x \in S : Unique(x)}
<1>0. /\ \A x \in S : base[x] \in V /\ size[x] \in Nat
      /\ \A x \in S, v \in V : comb[x][v] \in V
      /\ \A x \in S : x \notin stop => next[x] \in S /\ size[next[x]] < size[x]
  BY DEF CanLoop
<1>1. Complete(R)
  <2>1. ASSUME NEW x \in S, x \in stop PROVE <<x, base[x]>> \in R
    BY <1>0, <2>1
  <2>2. ASSUME NEW x \in S, NEW v \in V, x \notin stop, <<next[x], v>> \in R
        PROVE  <<x, comb[x][v]>> \in R
    <3>1. <<x, comb[x][v]>> \in S \X V
      BY <1>0
    <3>2. ASSUME NEW Q \in SUBSET (S \X V), Complete(Q)
          PROVE  <<x, comb[x][v]>> \in Q
      BY <2>2, <3>2
    <3> QED
      BY <3>1, <3>2
  <2> QED
    BY <2>1, <2>2
<1>2. ASSUME NEW Q \in SUBSET (S \X V), Complete(Q)
      PROVE  R \subseteq Q
  BY <1>2
<1>3. R \in SUBSET (S \X V)
  OBVIOUS
<1> HIDE DEF R
<1>4. ASSUME NEW x \in S, x \in stop
      PROVE  Unique(x)
  <2>1. ASSUME NEW w \in V, <<x, w>> \in R, w # base[x]
        PROVE  FALSE
    <3> DEFINE Q == R \ {<<x, w>>}
    <3>1. Complete(Q)
      BY <1>1, <1>4, <2>1
    <3> QED
      BY <1>2, <1>3, <2>1, <3>1
  <2> QED
    BY <1>0, <1>1, <1>4, <2>1
<1>5. ASSUME NEW x \in S, x \notin stop, Unique(next[x])
      PROVE  Unique(x)
  <2>1. PICK v \in V : <<next[x], v>> \in R /\ \A w \in V : <<next[x], w>> \in R => w = v
    BY <1>5
  <2>2. comb[x][v] \in V /\ <<x, comb[x][v]>> \in R
    BY <1>0, <1>1, <1>5, <2>1
  <2>3. ASSUME NEW w \in V, <<x, w>> \in R, w # comb[x][v]
        PROVE  FALSE
    <3> DEFINE Q == R \ {<<x, w>>}
    <3>1. \A y \in S : y \in stop => <<y, base[y]>> \in Q
      BY <1>1, <1>5
    <3>2. ASSUME NEW y \in S, NEW u \in V, y \notin stop, <<next[y], u>> \in Q
          PROVE  <<y, comb[y][u]>> \in Q
      <4>1. <<y, comb[y][u]>> \in R
        BY <1>1, <3>2
      <4>2. CASE y = x
        BY <2>1, <2>3, <3>2, <4>1, <4>2
      <4>3. CASE y # x
        BY <4>1, <4>3
      <4> QED
        BY <4>2, <4>3
    <3>3. Complete(Q)
      BY <3>1, <3>2
    <3> HIDE DEF Complete
    <3> QED
      BY <1>2, <1>3, <2>3, <3>3
  <2> QED
    BY <2>2, <2>3
<1> HIDE DEF Unique, Complete
<1>6. S \subseteq Good
  <2>1. ASSUME NEW x \in S, \A y \in S : size[y] < size[x] => y \in Good
        PROVE  x \in Good
    BY <1>0, <1>4, <1>5, <2>1
  <2>2. \A x \in S : size[x] \in Nat
    BY <1>0
  <2> HIDE DEF Good
  <2> QED
    BY <2>1, <2>2, Descent
<1> DEFINE f == [x \in S |-> CHOOSE v \in V : <<x, v>> \in R]
<1>7. \A x \in S : f[x] \in V /\ <<x, f[x]>> \in R /\ \A w \in V : <<x, w>> \in R => w = f[x]
  BY <1>6 DEF Unique
<1>8. f \in [S -> V]
  BY <1>7
<1> HIDE DEF f
<1>9. ASSUME NEW x \in S
      PROVE  f[x] = IF x \in stop THEN base[x] ELSE comb[x][f[next[x]]]
  <2>1. CASE x \in stop
    BY <1>0, <1>1, <1>7, <2>1 DEF Complete
  <2>2. CASE x \notin stop
    <3>1. f[next[x]] \in V /\ <<next[x], f[next[x]]>> \in R
      BY <1>0, <1>7, <2>2
    <3>2. <<x, comb[x][f[next[x]]]>> \in R /\ comb[x][f[next[x]]] \in V
      BY <1>0, <1>1, <2>2, <3>1 DEF Complete
    <3> QED
      BY <1>7, <2>2, <3>2
  <2> QED
    BY <2>1, <2>2
<1> QED
  BY <1>8, <1>9
-----------------------------------------------------------------------------
(* A list, read as the bits it has at each index.                               *)

BitsAt(s, i) == UNION {s[p].bits : p \in {q \in DOMAIN s : s[q].idx = i}}

\* All its indices are greater than i.
Above(s, i) == \A j : BitsAt(s, j) # {} => i < j

\* The lists Canonical allows.
ProperLists == {s \in Lists : Proper(s)}

LEMMA ElementIs ==
    ASSUME NEW e \in Elements
    PROVE  e.idx \in Nat /\ e.bits \in SUBSET (0..ElementSize - 1) /\ e = Element(e.idx, e.bits)
BY DEF Elements, Element

LEMMA IsElement ==
    ASSUME NEW i \in Nat, NEW B \in SUBSET (0..ElementSize - 1)
    PROVE  Element(i, B) \in Elements /\ Element(i, B).idx = i /\ Element(i, B).bits = B
BY DEF Elements, Element

LEMMA ListIs ==
    ASSUME NEW s \in Lists
    PROVE  /\ Len(s) \in Nat /\ DOMAIN s = 1..Len(s)
           /\ \A p \in 1..Len(s) : s[p] \in Elements /\ s[p].idx \in Nat
                                     /\ s[p].bits \in SUBSET (0..ElementSize - 1)
<1>1. Len(s) \in Nat /\ DOMAIN s = 1..Len(s) /\ \A p \in 1..Len(s) : s[p] \in Elements
  BY DEF Lists
<1> QED
  BY <1>1, ElementIs

LEMMA ProperIs ==
    ASSUME NEW s \in ProperLists
    PROVE  /\ s \in Lists
           /\ \A p \in 1..Len(s) : s[p].bits # {}
           /\ \A p, q \in 1..Len(s) : p < q => s[p].idx < s[q].idx
           /\ \A p, q \in 1..Len(s) : s[p].idx = s[q].idx => p = q
<1>1. s \in Lists /\ Proper(s) /\ DOMAIN s = 1..Len(s) /\ Len(s) \in Nat
  BY ListIs DEF ProperLists
<1>2. \A p, q \in 1..Len(s) : p < q => s[p].idx < s[q].idx
  BY <1>1 DEF Proper
<1>3. ASSUME NEW p \in 1..Len(s), NEW q \in 1..Len(s), s[p].idx = s[q].idx
      PROVE  p = q
  <2>1. p \in Int /\ q \in Int /\ s[p].idx \in Nat /\ s[q].idx \in Nat
    BY <1>1, ListIs
  <2>2. p < q => s[p].idx < s[q].idx
    BY <1>2
  <2>3. q < p => s[q].idx < s[p].idx
    BY <1>2
  <2> QED
    BY <1>3, <2>1, <2>2, <2>3
<1> QED
  BY <1>1, <1>2, <1>3 DEF Proper

LEMMA IsProper ==
    ASSUME NEW s \in Lists,
           \A p \in 1..Len(s) : s[p].bits # {},
           \A p, q \in 1..Len(s) : p < q => s[p].idx < s[q].idx
    PROVE  s \in ProperLists
<1>1. DOMAIN s = 1..Len(s) /\ \A p \in 1..Len(s) : s[p].bits \in SUBSET (0..ElementSize - 1)
  BY ListIs
<1> QED
  BY <1>1 DEF ProperLists, Proper

LEMMA BitsAtAre ==
    ASSUME NEW s \in Lists
    PROVE  /\ \A i, b : b \in BitsAt(s, i) <=> \E p \in 1..Len(s) : s[p].idx = i /\ b \in s[p].bits
           /\ \A i : BitsAt(s, i) \in SUBSET (0..ElementSize - 1)
           /\ \A i : BitsAt(s, i) # {} => i \in Nat
<1>1. DOMAIN s = 1..Len(s)
  BY ListIs
<1>2. \A i, b : b \in BitsAt(s, i) <=> \E p \in 1..Len(s) : s[p].idx = i /\ b \in s[p].bits
  BY <1>1 DEF BitsAt
<1>3. \A p \in 1..Len(s) : s[p].idx \in Nat /\ s[p].bits \in SUBSET (0..ElementSize - 1)
  BY ListIs
<1>4. \A i : BitsAt(s, i) \in SUBSET (0..ElementSize - 1)
  <2> SUFFICES ASSUME NEW i, NEW b \in BitsAt(s, i) PROVE b \in 0..ElementSize - 1
    OBVIOUS
  <2> QED
    BY <1>2, <1>3
<1>5. \A i : BitsAt(s, i) # {} => i \in Nat
  <2> SUFFICES ASSUME NEW i, NEW b \in BitsAt(s, i) PROVE i \in Nat
    OBVIOUS
  <2> QED
    BY <1>2, <1>3
<1> QED
  BY <1>2, <1>4, <1>5

\* In a proper list an index has the bits of its element.
LEMMA BitsAtPosition ==
    ASSUME NEW s \in ProperLists
    PROVE  /\ \A p \in 1..Len(s) : BitsAt(s, s[p].idx) = s[p].bits
           /\ \A i : BitsAt(s, i) # {} <=> \E p \in 1..Len(s) : s[p].idx = i
<1>1. \A i, b : b \in BitsAt(s, i) <=> \E p \in 1..Len(s) : s[p].idx = i /\ b \in s[p].bits
  BY ProperIs, BitsAtAre
<1>2. \A p, q \in 1..Len(s) : s[p].idx = s[q].idx => p = q
  BY ProperIs
<1>3. ASSUME NEW p \in 1..Len(s) PROVE BitsAt(s, s[p].idx) = s[p].bits
  <2>1. \A b : b \in BitsAt(s, s[p].idx) <=> b \in s[p].bits
    BY <1>1, <1>2
  <2> QED
    BY <2>1
<1>4. \A p \in 1..Len(s) : s[p].bits # {}
  BY ProperIs
<1>5. ASSUME NEW i PROVE BitsAt(s, i) # {} <=> \E p \in 1..Len(s) : s[p].idx = i
  <2>1. ASSUME BitsAt(s, i) # {} PROVE \E p \in 1..Len(s) : s[p].idx = i
    <3>1. PICK b : b \in BitsAt(s, i)
      BY <2>1
    <3> QED
      BY <1>1, <3>1
  <2>2. ASSUME NEW p \in 1..Len(s), s[p].idx = i PROVE BitsAt(s, i) # {}
    BY <1>3, <1>4, <2>2
  <2> QED
    BY <2>1, <2>2
<1> QED
  BY <1>3, <1>5

LEMMA EmptyIs ==
    /\ <<>> \in ProperLists /\ <<>> \in Lists
    /\ \A i : BitsAt(<<>>, i) = {}
    /\ \A i : Above(<<>>, i)
<1>1. <<>> \in Lists /\ Len(<<>>) = 0
  BY DEF Lists
<1>2. <<>> \in ProperLists
  BY <1>1, IsProper
<1>3. \A i : BitsAt(<<>>, i) = {}
  BY DEF BitsAt
<1> QED
  BY <1>1, <1>2, <1>3 DEF Above

LEMMA ConsIs ==
    ASSUME NEW e \in Elements, NEW s \in Lists
    PROVE  LET r == <<e>> \o s
           IN  /\ r \in Lists /\ r # <<>> /\ Len(r) = Len(s) + 1 /\ r[1] = e
               /\ \A p \in 1..Len(s) : r[p + 1] = s[p]
<1> DEFINE r == <<e>> \o s
<1>1. <<e>> \in Seq(Elements) /\ Len(<<e>>) = 1 /\ <<e>>[1] = e
  OBVIOUS
<1>2. s \in Seq(Elements) /\ Len(s) \in Nat
  BY DEF Lists
<1>3. r \in Lists /\ Len(r) = Len(s) + 1
  BY <1>1, <1>2 DEF Lists
<1>4. r[1] = e /\ \A p \in 1..Len(s) : r[p + 1] = s[p]
  BY <1>1, <1>2
<1>5. r # <<>>
  <2>1. Len(r) # 0
    BY <1>2, <1>3
  <2> HIDE DEF r
  <2> QED
    BY <2>1
<1> QED
  BY <1>3, <1>4, <1>5

\* Adding an element in front.
LEMMA ConsIsProper ==
    ASSUME NEW e \in Elements, e.bits # {}, NEW s \in ProperLists, Above(s, e.idx)
    PROVE  LET r == <<e>> \o s
           IN  /\ r \in ProperLists /\ r # <<>>
               /\ \A i : BitsAt(r, i) = IF i = e.idx THEN e.bits ELSE BitsAt(s, i)
<1> DEFINE r == <<e>> \o s
<1>1. s \in Lists /\ Len(s) \in Nat
  BY ProperIs, ListIs
<1>2. r \in Lists /\ r # <<>> /\ Len(r) = Len(s) + 1 /\ r[1] = e /\ \A p \in 1..Len(s) : r[p + 1] = s[p]
  BY <1>1, ConsIs
<1> HIDE DEF r
<1>3. \A p \in 1..Len(r) : p = 1 \/ (p - 1 \in 1..Len(s) /\ r[p] = s[p - 1])
  <2> SUFFICES ASSUME NEW p \in 1..Len(r), p # 1 PROVE p - 1 \in 1..Len(s) /\ r[p] = s[p - 1]
    OBVIOUS
  <2>1. p - 1 \in 1..Len(s) /\ (p - 1) + 1 = p
    BY <1>1, <1>2
  <2>2. r[(p - 1) + 1] = s[p - 1]
    BY <1>2, <2>1
  <2> QED
    BY <2>1, <2>2
<1>4. \A p \in 1..Len(s) : p + 1 \in 1..Len(r) /\ r[p + 1] = s[p]
  BY <1>1, <1>2
<1>5. 1 \in 1..Len(r)
  BY <1>1, <1>2
<1>6. \A i : BitsAt(r, i) = IF i = e.idx THEN e.bits ELSE BitsAt(s, i)
  <2> SUFFICES ASSUME NEW i PROVE BitsAt(r, i) = IF i = e.idx THEN e.bits ELSE BitsAt(s, i)
    OBVIOUS
  <2>0. e.idx \in Nat
    BY ElementIs
  <2>1. i = e.idx => BitsAt(s, i) = {}
    BY <2>0 DEF Above
  <2>2. \A b : b \in BitsAt(r, i) <=> \E p \in 1..Len(r) : r[p].idx = i /\ b \in r[p].bits
    BY <1>2, BitsAtAre
  <2>3. \A b : b \in BitsAt(s, i) <=> \E p \in 1..Len(s) : s[p].idx = i /\ b \in s[p].bits
    BY <1>1, BitsAtAre
  <2>4. ASSUME NEW b PROVE b \in BitsAt(r, i) <=> (i = e.idx /\ b \in e.bits) \/ b \in BitsAt(s, i)
    <3>1. ASSUME b \in BitsAt(r, i) PROVE (i = e.idx /\ b \in e.bits) \/ b \in BitsAt(s, i)
      <4>1. PICK p \in 1..Len(r) : r[p].idx = i /\ b \in r[p].bits
        BY <2>2, <3>1
      <4>2. p = 1 \/ (p - 1 \in 1..Len(s) /\ r[p] = s[p - 1])
        BY <1>3
      <4> QED
        BY <1>2, <2>3, <4>1, <4>2
    <3>2. ASSUME i = e.idx, b \in e.bits PROVE b \in BitsAt(r, i)
      BY <1>2, <1>5, <2>2, <3>2
    <3>3. ASSUME b \in BitsAt(s, i) PROVE b \in BitsAt(r, i)
      BY <1>4, <2>2, <2>3, <3>3
    <3> QED
      BY <3>1, <3>2, <3>3
  <2>5. BitsAt(r, i) = (IF i = e.idx THEN e.bits ELSE {}) \cup BitsAt(s, i)
    BY <2>4
  <2> QED
    BY <2>1, <2>5
<1>7. \A p \in 1..Len(s) : e.idx < s[p].idx
  <2> SUFFICES ASSUME NEW p \in 1..Len(s) PROVE e.idx < s[p].idx
    OBVIOUS
  <2>1. BitsAt(s, s[p].idx) # {}
    BY BitsAtPosition
  <2> QED
    BY <2>1 DEF Above
<1>8. \A p \in 1..Len(r) : r[p].bits # {}
  BY <1>2, <1>3, ProperIs
<1>9. ASSUME NEW p \in 1..Len(r), NEW q \in 1..Len(r), p < q PROVE r[p].idx < r[q].idx
  <2>1. q - 1 \in 1..Len(s) /\ r[q] = s[q - 1]
    BY <1>1, <1>2, <1>3, <1>9
  <2>2. CASE p = 1
    BY <1>2, <1>7, <2>1, <2>2
  <2>3. CASE p # 1
    <3>1. p - 1 \in 1..Len(s) /\ r[p] = s[p - 1]
      BY <1>3, <2>3
    <3>2. p - 1 < q - 1
      BY <1>9
    <3> QED
      BY <2>1, <3>1, <3>2, ProperIs
  <2> QED
    BY <2>2, <2>3
<1>10. r \in ProperLists
  BY <1>2, <1>8, <1>9, IsProper
<1> QED
  BY <1>2, <1>6, <1>10 DEF r

\* Taking the first element off.
LEMMA TailIsProper ==
    ASSUME NEW s \in ProperLists, s # <<>>
    PROVE  /\ Head(s) \in Elements /\ Head(s).bits # {} /\ Head(s) = s[1]
           /\ Tail(s) \in ProperLists /\ Len(Tail(s)) = Len(s) - 1 /\ Len(s) > 0
           /\ \A p \in 1..Len(s) - 1 : Tail(s)[p] = s[p + 1]
           /\ Above(Tail(s), Head(s).idx) /\ s = <<Head(s)>> \o Tail(s)
           /\ \A i : BitsAt(s, i) = IF i = Head(s).idx THEN Head(s).bits ELSE BitsAt(Tail(s), i)
<1>1. s \in Lists /\ Len(s) \in Nat /\ s \in Seq(Elements)
  BY ProperIs, ListIs DEF Lists
<1>2. Len(s) > 0
  BY <1>1
<1>3. Head(s) = s[1] /\ 1 \in 1..Len(s)
  BY <1>1, <1>2
<1>4. Head(s) \in Elements /\ Head(s).bits # {} /\ Head(s).idx \in Nat
  BY <1>1, <1>3, ListIs, ProperIs
<1>5. Tail(s) \in Lists /\ Len(Tail(s)) = Len(s) - 1
  BY <1>1, <1>2 DEF Lists
<1>6. \A p \in 1..Len(s) - 1 : Tail(s)[p] = s[p + 1] /\ p + 1 \in 1..Len(s) /\ p \in 1..Len(s)
  BY <1>1, <1>2
<1> DEFINE t == Tail(s)
<1> HIDE DEF t
<1>7. t \in Lists /\ Len(t) = Len(s) - 1 /\ \A p \in 1..Len(t) : t[p] = s[p + 1] /\ p + 1 \in 1..Len(s)
  BY <1>5, <1>6 DEF t
<1>8. t \in ProperLists
  <2>1. \A p \in 1..Len(t) : t[p].bits # {}
    BY <1>7, ProperIs
  <2>2. ASSUME NEW p \in 1..Len(t), NEW q \in 1..Len(t), p < q PROVE t[p].idx < t[q].idx
    <3>1. p + 1 < q + 1
      BY <2>2
    <3>2. s[p + 1].idx < s[q + 1].idx
      BY <1>7, <3>1, ProperIs
    <3> QED
      BY <1>7, <3>2
  <2> QED
    BY <1>7, <2>1, <2>2, IsProper
<1>9. Above(t, Head(s).idx)
  <2> SUFFICES ASSUME NEW j, BitsAt(t, j) # {} PROVE Head(s).idx < j
    BY DEF Above
  <2>1. PICK p \in 1..Len(t) : t[p].idx = j
    BY <1>8, BitsAtPosition
  <2>2. 1 < p + 1 /\ p + 1 \in 1..Len(s) /\ s[p + 1].idx = j
    BY <1>7, <2>1
  <2> QED
    BY <1>3, <2>2, ProperIs
<1>10. s = <<Head(s)>> \o t
  BY <1>1, <1>2 DEF t
<1>11. \A i : BitsAt(s, i) = IF i = Head(s).idx THEN Head(s).bits ELSE BitsAt(t, i)
  <2> DEFINE e == Head(s)
  <2> HIDE DEF e
  <2>1. e \in Elements /\ e.bits # {} /\ Above(t, e.idx) /\ s = <<e>> \o t
    BY <1>4, <1>9, <1>10 DEF e
  <2>2. \A i : BitsAt(<<e>> \o t, i) = IF i = e.idx THEN e.bits ELSE BitsAt(t, i)
    BY <1>8, <2>1, ConsIsProper
  <2> QED
    BY <2>1, <2>2 DEF e
<1> QED
  BY <1>2, <1>3, <1>4, <1>5, <1>6, <1>8, <1>9, <1>10, <1>11 DEF t
\* An element h in front of the list u.
Splits(z, h, u) ==
    /\ h \in Elements /\ h.idx \in Nat /\ h.bits # {} /\ u \in ProperLists
    /\ Above(u, h.idx) /\ z = <<h>> \o u
    /\ BitsAt(u, h.idx) = {}
    /\ \A i : BitsAt(z, i) = IF i = h.idx THEN h.bits ELSE BitsAt(u, i)

LEMMA NoBitsBelow ==
    ASSUME NEW s, NEW i \in Nat, Above(s, i)
    PROVE  BitsAt(s, i) = {}
BY DEF Above

LEMMA HeadSplits ==
    ASSUME NEW s \in ProperLists, s # <<>>
    PROVE  Splits(s, Head(s), Tail(s))
<1> DEFINE h == Head(s)
           u == Tail(s)
<1> HIDE DEF h, u
<1>1. /\ h \in Elements /\ h.bits # {} /\ u \in ProperLists /\ Above(u, h.idx) /\ s = <<h>> \o u
      /\ \A i : BitsAt(s, i) = IF i = h.idx THEN h.bits ELSE BitsAt(u, i)
  BY TailIsProper DEF h, u
<1>2. h.idx \in Nat
  BY <1>1, ElementIs
<1>3. BitsAt(u, h.idx) = {}
  BY <1>1, <1>2, NoBitsBelow
<1> QED
  BY <1>1, <1>2, <1>3 DEF Splits, h, u

LEMMA AboveBelowHead ==
    ASSUME NEW s \in ProperLists, s # <<>>, NEW i \in Nat, i < Head(s).idx
    PROVE  Above(s, i)
<1>1. /\ Head(s) \in Elements /\ Above(Tail(s), Head(s).idx)
      /\ \A j : BitsAt(s, j) = IF j = Head(s).idx THEN Head(s).bits ELSE BitsAt(Tail(s), j)
      /\ Tail(s) \in Lists
  BY TailIsProper, ProperIs
<1>2. Head(s).idx \in Nat
  BY <1>1, ElementIs
<1> SUFFICES ASSUME NEW j, BitsAt(s, j) # {} PROVE i < j
  BY DEF Above
<1>3. CASE j = Head(s).idx
  BY <1>3
<1>4. CASE j # Head(s).idx
  <2>1. BitsAt(Tail(s), j) # {}
    BY <1>1, <1>4
  <2>2. Head(s).idx < j /\ j \in Nat
    BY <1>1, <2>1, BitsAtAre DEF Above
  <2> QED
    BY <1>2, <2>2
<1> QED
  BY <1>3, <1>4

\* Two proper lists with the same bits are the same.
LEMMA SameBits ==
    ASSUME NEW s \in ProperLists, NEW t \in ProperLists, \A i : BitsAt(s, i) = BitsAt(t, i)
    PROVE  s = t
<1> DEFINE size == [x \in ProperLists |-> Len(x)]
           Good == {x \in ProperLists : \A y \in ProperLists :
                       (\A i : BitsAt(x, i) = BitsAt(y, i)) => x = y}
<1>1. \A x \in ProperLists : size[x] = Len(x) /\ size[x] \in Nat
  BY ProperIs, ListIs
<1>2. ASSUME NEW x \in ProperLists, \A y \in ProperLists : size[y] < size[x] => y \in Good
      PROVE  x \in Good
  <2> SUFFICES ASSUME NEW y \in ProperLists, \A i : BitsAt(x, i) = BitsAt(y, i) PROVE x = y
    OBVIOUS
  <2>1. \A z \in ProperLists : z = <<>> <=> \A i : BitsAt(z, i) = {}
    <3> SUFFICES ASSUME NEW z \in ProperLists, z # <<>> PROVE \E i : BitsAt(z, i) # {}
      BY EmptyIs
    <3>1. BitsAt(z, Head(z).idx) = Head(z).bits /\ Head(z).bits # {}
      BY TailIsProper
    <3> QED
      BY <3>1
  <2>2. CASE x = <<>> \/ y = <<>>
    <3>1. x = <<>> /\ y = <<>>
      BY <2>1, <2>2
    <3> QED
      BY <3>1
  <2>3. CASE x # <<>> /\ y # <<>>
    <3>1. PICK h, u : Splits(x, h, u) /\ Len(u) < Len(x)
      <4>1. Len(Tail(x)) < Len(x)
        BY <1>1, <2>3, TailIsProper
      <4> QED
        BY <2>3, <4>1, HeadSplits
    <3>2. PICK k, v : Splits(y, k, v)
      BY <2>3, HeadSplits
    <3> USE DEF Splits
    <3>3. h.idx = k.idx
      <4>1. BitsAt(y, h.idx) # {} /\ BitsAt(x, k.idx) # {}
        BY <3>1, <3>2
      <4>2. h.idx = k.idx \/ k.idx < h.idx
        BY <3>2, <4>1 DEF Above
      <4>3. h.idx = k.idx \/ h.idx < k.idx
        BY <3>1, <4>1 DEF Above
      <4> QED
        BY <3>1, <3>2, <4>2, <4>3
    <3>4. h.bits = k.bits
      BY <3>1, <3>2, <3>3
    <3>5. h = k
      BY <3>1, <3>2, <3>3, <3>4, ElementIs
    <3>7. \A i : BitsAt(u, i) = BitsAt(v, i)
      BY <3>1, <3>2, <3>3
    <3>8. u = v
      BY <1>1, <1>2, <3>1, <3>2, <3>7
    <3> QED
      BY <3>1, <3>2, <3>5, <3>8
  <2> QED
    BY <2>2, <2>3
<1>3. ProperLists \subseteq Good
  <2>1. \A x \in ProperLists : size[x] \in Nat
    BY <1>1
  <2> HIDE DEF Good, size
  <2> QED
    BY <1>2, <2>1, Descent
<1> QED
  BY <1>3

-----------------------------------------------------------------------------
(* The loops over two lists                                                     *)

\* What is left of two lists after a step of such a loop.
NextPair(l) ==
    IF l[1] = <<>> \/ Head(l[1]).idx > Head(l[2]).idx THEN <<l[1], Tail(l[2])>>
    ELSE IF Head(l[1]).idx = Head(l[2]).idx THEN <<Tail(l[1]), Tail(l[2])>>
    ELSE <<Tail(l[1]), l[2]>>

PairSize == [l \in Pairs |-> Len(l[1]) + Len(l[2])]

LEMMA PairIs ==
    ASSUME NEW l \in Pairs
    PROVE  /\ l[1] \in Lists /\ l[2] \in Lists
           /\ PairSize[l] \in Nat
           /\ l[2] # <<>> => /\ NextPair(l) \in Pairs
                             /\ PairSize[NextPair(l)] < PairSize[l]
<1> DEFINE a == l[1]
           b == l[2]
<1>1. a \in Lists /\ b \in Lists /\ PairSize[l] = Len(a) + Len(b)
  BY DEF Pairs, PairSize
<1>2. ASSUME NEW s \in Lists, NEW t \in Lists
      PROVE  <<s, t>> \in Pairs /\ PairSize[<<s, t>>] = Len(s) + Len(t)
  BY DEF Pairs, PairSize
<1>3. \A s \in Lists : /\ Len(s) \in Nat
                       /\ s # <<>> => Tail(s) \in Lists /\ Len(Tail(s)) = Len(s) - 1
  BY DEF Lists
<1>4. NextPair(l) = IF a = <<>> \/ Head(a).idx > Head(b).idx THEN <<a, Tail(b)>>
                    ELSE IF Head(a).idx = Head(b).idx THEN <<Tail(a), Tail(b)>>
                    ELSE <<Tail(a), b>>
  BY DEF NextPair
<1>5. l[1] = a /\ l[2] = b
  OBVIOUS
<1> HIDE DEF a, b
<1>6. PairSize[l] \in Nat
  BY <1>1, <1>3
<1>7. ASSUME b # <<>>
      PROVE  NextPair(l) \in Pairs /\ PairSize[NextPair(l)] < PairSize[l]
  <2>0. Len(a) \in Nat /\ Len(b) \in Nat /\ Len(Tail(b)) = Len(b) - 1
    BY <1>1, <1>3, <1>7
  <2>1. Tail(b) \in Lists /\ (a # <<>> => Tail(a) \in Lists /\ Len(Tail(a)) = Len(a) - 1)
    BY <1>1, <1>3, <1>7
  <2>2. CASE a = <<>> \/ Head(a).idx > Head(b).idx
    <3>1. NextPair(l) = <<a, Tail(b)>>
      BY <1>4, <2>2
    <3>2. <<a, Tail(b)>> \in Pairs /\ PairSize[<<a, Tail(b)>>] = Len(a) + Len(Tail(b))
      BY <1>1, <1>2, <2>1
    <3>3. Len(a) + Len(Tail(b)) < Len(a) + Len(b)
      BY <2>0
    <3> QED
      BY <1>1, <3>1, <3>2, <3>3
  <2>3. CASE a # <<>> /\ ~(Head(a).idx > Head(b).idx) /\ Head(a).idx = Head(b).idx
    <3>1. NextPair(l) = <<Tail(a), Tail(b)>>
      BY <1>4, <2>3
    <3>2. /\ <<Tail(a), Tail(b)>> \in Pairs
          /\ PairSize[<<Tail(a), Tail(b)>>] = Len(Tail(a)) + Len(Tail(b))
      BY <1>2, <2>1, <2>3
    <3> QED
      BY <1>1, <2>0, <2>1, <2>3, <3>1, <3>2
  <2>4. CASE a # <<>> /\ ~(Head(a).idx > Head(b).idx) /\ Head(a).idx # Head(b).idx
    <3>1. NextPair(l) = <<Tail(a), b>>
      BY <1>4, <2>4
    <3>2. <<Tail(a), b>> \in Pairs /\ PairSize[<<Tail(a), b>>] = Len(Tail(a)) + Len(b)
      BY <1>1, <1>2, <2>1, <2>4
    <3> QED
      BY <1>1, <2>0, <2>1, <2>4, <3>1, <3>2
  <2> QED
    BY <2>2, <2>3, <2>4
<1> QED
  BY <1>1, <1>5, <1>6, <1>7

\* These loops stop when the second list ends.
Stops(stop) == \A l \in Pairs : l[2] = <<>> => l \in stop

PairLoop(V, stop, base, comb, f) ==
    /\ f \in [Pairs -> V]
    /\ \A l \in Pairs : f[l] = IF l \in stop THEN base[l] ELSE comb[l][f[NextPair(l)]]

LEMMA PairLoopExists ==
    ASSUME NEW V, NEW stop, Stops(stop),
           NEW base \in [Pairs -> V], NEW comb \in [Pairs -> [V -> V]]
    PROVE  \E f : PairLoop(V, stop, base, comb, f)
<1> DEFINE next == [l \in Pairs |-> NextPair(l)]
<1>1. \A l \in Pairs : next[l] = NextPair(l)
  OBVIOUS
<1> HIDE DEF next
<1>2. CanLoop(Pairs, V, stop, base, next, PairSize, comb)
  BY <1>1, PairIs DEF CanLoop, Stops
<1>3. PICK f \in [Pairs -> V] : \A l \in Pairs :
              f[l] = IF l \in stop THEN base[l] ELSE comb[l][f[next[l]]]
  BY <1>2, LoopExists
<1> QED
  BY <1>1, <1>3 DEF PairLoop
BitsOfElement == SUBSET (0..ElementSize - 1)
ProperPairs == ProperLists \X ProperLists

\* The index the loops are at.
Low(l) == IF l[1] = <<>> \/ Head(l[1]).idx > Head(l[2]).idx THEN Head(l[2]).idx ELSE Head(l[1]).idx

\* An element, if it has any bits, in front of greater ones.
LEMMA NonEmptyInFront ==
    ASSUME NEW i \in Nat, NEW B \in BitsOfElement, NEW s \in ProperLists, Above(s, i)
    PROVE  LET r == NonEmpty(Element(i, B)) \o s
           IN  /\ r \in ProperLists
               /\ \A j : BitsAt(r, j) = IF j = i THEN B ELSE BitsAt(s, j)
<1> DEFINE e == Element(i, B)
           r == NonEmpty(e) \o s
<1>1. e \in Elements /\ e.idx = i /\ e.bits = B
  BY IsElement DEF BitsOfElement
<1> HIDE DEF e
<1>2. s \in Seq(Elements) /\ BitsAt(s, i) = {}
  BY ProperIs, NoBitsBelow DEF Lists
<1>3. CASE B = {}
  <2>1. r = s
    BY <1>1, <1>2, <1>3 DEF NonEmpty
  <2>2. \A j : BitsAt(s, j) = IF j = i THEN B ELSE BitsAt(s, j)
    BY <1>2, <1>3
  <2> HIDE DEF r
  <2> QED
    BY <2>1, <2>2 DEF r, e
<1>4. CASE B # {}
  <2>1. r = <<e>> \o s
    BY <1>1, <1>4 DEF NonEmpty
  <2>2. <<e>> \o s \in ProperLists /\ \A j : BitsAt(<<e>> \o s, j) = IF j = e.idx THEN e.bits ELSE BitsAt(s, j)
    BY <1>1, <1>4, ConsIsProper
  <2> HIDE DEF r
  <2> QED
    BY <1>1, <2>1, <2>2 DEF r, e
<1> QED
  BY <1>3, <1>4

LEMMA ProperPairIs ==
    ASSUME NEW l \in ProperPairs
    PROVE  l \in Pairs /\ l[1] \in ProperLists /\ l[2] \in ProperLists
BY ProperIs DEF ProperPairs, Pairs

\* A step takes exactly what has that index off both lists.
LEMMA NextPairIs ==
    ASSUME NEW l \in ProperPairs, l[2] # <<>>
    PROVE  /\ Low(l) \in Nat /\ NextPair(l) \in ProperPairs
           /\ \A k \in {1, 2} :
                 /\ Above(NextPair(l)[k], Low(l))
                 /\ \A i : BitsAt(NextPair(l)[k], i) = IF i = Low(l) THEN {} ELSE BitsAt(l[k], i)
<1> DEFINE a == l[1]
           b == l[2]
           Rest(s, u, i) == /\ u \in ProperLists /\ Above(u, i)
                            /\ \A j : BitsAt(u, j) = IF j = i THEN {} ELSE BitsAt(s, j)
           Goal(i, u, v) == i \in Nat /\ Rest(a, u, i) /\ Rest(b, v, i)
<1>1. a \in ProperLists /\ b \in ProperLists /\ b # <<>>
  BY ProperPairIs
<1>2. NextPair(l) = IF a = <<>> \/ Head(a).idx > Head(b).idx THEN <<a, Tail(b)>>
                    ELSE IF Head(a).idx = Head(b).idx THEN <<Tail(a), Tail(b)>>
                    ELSE <<Tail(a), b>>
  BY DEF NextPair
<1>3. Low(l) = IF a = <<>> \/ Head(a).idx > Head(b).idx THEN Head(b).idx ELSE Head(a).idx
  BY DEF Low
<1>4. SUFFICES \E u, v : NextPair(l) = <<u, v>> /\ Goal(Low(l), u, v)
  <2>1. PICK u, v : NextPair(l) = <<u, v>> /\ Goal(Low(l), u, v)
    BY <1>4
  <2>2. NextPair(l) \in ProperPairs /\ NextPair(l)[1] = u /\ NextPair(l)[2] = v
    BY <2>1 DEF ProperPairs
  <2> QED
    BY <2>1, <2>2
<1>0. l[1] = a /\ l[2] = b
  OBVIOUS
<1> HIDE DEF a, b
<1>5. \A s \in ProperLists : s # <<>> =>
        Head(s).idx \in Nat /\ Rest(s, Tail(s), Head(s).idx)
  <2> SUFFICES ASSUME NEW s \in ProperLists, s # <<>>
               PROVE  Head(s).idx \in Nat /\ Rest(s, Tail(s), Head(s).idx)
    OBVIOUS
  <2> QED
    BY HeadSplits DEF Splits
<1>6. \A s \in ProperLists, i \in Nat : (s = <<>> \/ i < Head(s).idx) => Rest(s, s, i)
  <2> SUFFICES ASSUME NEW s \in ProperLists, NEW i \in Nat, s = <<>> \/ i < Head(s).idx
               PROVE  Rest(s, s, i)
    OBVIOUS
  <2>1. Above(s, i)
    BY EmptyIs, AboveBelowHead
  <2>2. BitsAt(s, i) = {}
    BY <2>1, NoBitsBelow
  <2> QED
    BY <2>1, <2>2
<1> HIDE DEF Rest
<1>7. CASE a = <<>> \/ Head(a).idx > Head(b).idx
  <2>1. Head(b).idx \in Nat /\ (a = <<>> \/ Head(a).idx \in Nat)
    BY <1>1, <1>5
  <2>2. Goal(Head(b).idx, a, Tail(b))
    BY <1>1, <1>5, <1>6, <1>7, <2>1
  <2>3. NextPair(l) = <<a, Tail(b)>> /\ Low(l) = Head(b).idx
    BY <1>2, <1>3, <1>7
  <2> QED
    BY <2>2, <2>3
<1>8. CASE a # <<>> /\ ~(Head(a).idx > Head(b).idx) /\ Head(a).idx = Head(b).idx
  <2>1. Goal(Head(a).idx, Tail(a), Tail(b))
    BY <1>1, <1>5, <1>8
  <2>2. NextPair(l) = <<Tail(a), Tail(b)>> /\ Low(l) = Head(a).idx
    BY <1>2, <1>3, <1>8
  <2> QED
    BY <2>1, <2>2
<1>9. CASE a # <<>> /\ ~(Head(a).idx > Head(b).idx) /\ Head(a).idx # Head(b).idx
  <2>1. Head(a).idx \in Nat /\ Head(b).idx \in Nat
    BY <1>1, <1>5, <1>9
  <2>2. Head(a).idx < Head(b).idx
    BY <1>9, <2>1
  <2>3. Goal(Head(a).idx, Tail(a), b)
    BY <1>1, <1>5, <1>6, <1>9, <2>1, <2>2
  <2>4. NextPair(l) = <<Tail(a), b>> /\ Low(l) = Head(a).idx
    BY <1>2, <1>3, <1>9
  <2> QED
    BY <2>3, <2>4
<1> QED
  BY <1>7, <1>8, <1>9

\* A loop that emits, at every index, what op makes of the bits of both lists there.
Emits(op, stop, f) ==
    /\ op \in [BitsOfElement \X BitsOfElement -> BitsOfElement] /\ op[<<{}, {}>>] = {}
    /\ \A l \in ProperPairs :
          /\ l[2] = <<>> => l \in stop
          /\ l \in stop =>
                /\ f[l] \in ProperLists
                /\ \A i : BitsAt(f[l], i) = op[<<BitsAt(l[1], i), BitsAt(l[2], i)>>]
          /\ l \notin stop /\ f[NextPair(l)] \in ProperLists =>
                f[l] = NonEmpty(Element(Low(l), op[<<BitsAt(l[1], Low(l)), BitsAt(l[2], Low(l))>>]))
                         \o f[NextPair(l)]

LEMMA EmitsBits ==
    ASSUME NEW op, NEW stop, NEW f, Emits(op, stop, f)
    PROVE  \A l \in ProperPairs :
              /\ f[l] \in ProperLists
              /\ \A i : BitsAt(f[l], i) = op[<<BitsAt(l[1], i), BitsAt(l[2], i)>>]
<1> DEFINE Fine(l) == /\ f[l] \in ProperLists
                      /\ \A i : BitsAt(f[l], i) = op[<<BitsAt(l[1], i), BitsAt(l[2], i)>>]
           Good == {l \in ProperPairs : Fine(l)}
<1>1. ASSUME NEW l \in ProperPairs, \A k \in ProperPairs : PairSize[k] < PairSize[l] => k \in Good
      PROVE  l \in Good
  <2>1. CASE l \in stop
    BY <2>1 DEF Emits
  <2>2. CASE l \notin stop
    <3> DEFINE i == Low(l)
               n == NextPair(l)
               A(j) == BitsAt(l[1], j)
               B(j) == BitsAt(l[2], j)
    <3>1. l[2] # <<>> /\ l \in Pairs /\ l[1] \in Lists /\ l[2] \in Lists
      BY <2>2, ProperPairIs, ProperIs DEF Emits
    <3>2. i \in Nat /\ n \in ProperPairs /\ PairSize[n] < PairSize[l]
      BY <3>1, NextPairIs, PairIs
    <3>3. Fine(n)
      BY <1>1, <3>2
    <3>4. /\ \A j : BitsAt(n[1], j) = IF j = i THEN {} ELSE A(j)
          /\ \A j : BitsAt(n[2], j) = IF j = i THEN {} ELSE B(j)
          /\ Above(n[1], i) /\ Above(n[2], i)
      BY <3>1, NextPairIs
    <3>5. \A j : A(j) \in BitsOfElement /\ B(j) \in BitsOfElement
      BY <3>1, BitsAtAre DEF BitsOfElement
    <3>6. f[l] = NonEmpty(Element(i, op[<<A(i), B(i)>>])) \o f[n]
      BY <2>2, <3>3 DEF Emits
    <3>7. op \in [BitsOfElement \X BitsOfElement -> BitsOfElement] /\ op[<<{}, {}>>] = {}
      BY DEF Emits
    <3> HIDE DEF n, i, A, B
    <3>8. op[<<A(i), B(i)>>] \in BitsOfElement
      BY <3>5, <3>7
    <3>9. Above(f[n], i)
      <4> SUFFICES ASSUME NEW j, BitsAt(f[n], j) # {} PROVE i < j
        BY DEF Above
      <4>1. op[<<BitsAt(n[1], j), BitsAt(n[2], j)>>] # {}
        BY <3>3
      <4>2. BitsAt(n[1], j) # {} \/ BitsAt(n[2], j) # {}
        BY <3>7, <4>1
      <4> QED
        BY <3>4, <4>2 DEF Above
    <3>10. /\ f[l] \in ProperLists
           /\ \A j : BitsAt(f[l], j) = IF j = i THEN op[<<A(i), B(i)>>] ELSE BitsAt(f[n], j)
      BY <3>2, <3>3, <3>6, <3>8, <3>9, NonEmptyInFront
    <3>11. \A j : j # i => BitsAt(f[n], j) = op[<<A(j), B(j)>>]
      BY <3>3, <3>4
    <3> QED
      BY <3>10, <3>11 DEF A, B
  <2> QED
    BY <2>1, <2>2
<1>2. \A l \in ProperPairs : PairSize[l] \in Nat
  BY ProperPairIs, PairIs
<1>3. ProperPairs \subseteq Good
  <2> HIDE DEF Good
  <2> QED
    BY <1>1, <1>2, Descent
<1> QED
  BY <1>3
\* Which list has the lower index.
SecondFirst(l) == l[1] = <<>> \/ Head(l[1]).idx > Head(l[2]).idx
Together(l) == ~SecondFirst(l) /\ Head(l[1]).idx = Head(l[2]).idx
FirstFirst(l) == ~SecondFirst(l) /\ Head(l[1]).idx # Head(l[2]).idx

\* The bits there.
LEMMA LowIs ==
    ASSUME NEW l \in ProperPairs, l[2] # <<>>
    PROVE  LET i == Low(l)
           IN  /\ SecondFirst(l) =>
                    /\ NextPair(l) = <<l[1], Tail(l[2])>> /\ Head(l[2]) \in Elements
                    /\ BitsAt(l[1], i) = {} /\ BitsAt(l[2], i) # {}
                    /\ Head(l[2]) = Element(i, BitsAt(l[2], i))
               /\ Together(l) =>
                    /\ NextPair(l) = <<Tail(l[1]), Tail(l[2])>>
                    /\ Head(l[1]) \in Elements /\ Head(l[2]) \in Elements
                    /\ BitsAt(l[1], i) # {} /\ BitsAt(l[2], i) # {}
                    /\ Head(l[1]) = Element(i, BitsAt(l[1], i))
                    /\ Head(l[2]) = Element(i, BitsAt(l[2], i))
               /\ FirstFirst(l) =>
                    /\ NextPair(l) = <<Tail(l[1]), l[2]>> /\ Head(l[1]) \in Elements
                    /\ BitsAt(l[2], i) = {} /\ BitsAt(l[1], i) # {}
                    /\ Head(l[1]) = Element(i, BitsAt(l[1], i))
<1> DEFINE a == l[1]
           b == l[2]
           i == Low(l)
           Is(s) == /\ Head(s) \in Elements /\ Head(s).idx \in Nat /\ BitsAt(s, Head(s).idx) # {}
                    /\ Head(s) = Element(Head(s).idx, BitsAt(s, Head(s).idx))
<1>0. /\ SecondFirst(l) <=> (a = <<>> \/ Head(a).idx > Head(b).idx)
      /\ Together(l) <=> ~SecondFirst(l) /\ Head(a).idx = Head(b).idx
      /\ FirstFirst(l) <=> ~SecondFirst(l) /\ Head(a).idx # Head(b).idx
      /\ NextPair(l) = IF a = <<>> \/ Head(a).idx > Head(b).idx THEN <<a, Tail(b)>>
                    ELSE IF Head(a).idx = Head(b).idx THEN <<Tail(a), Tail(b)>>
                    ELSE <<Tail(a), b>>
      /\ i = IF a = <<>> \/ Head(a).idx > Head(b).idx THEN Head(b).idx ELSE Head(a).idx
  BY DEF SecondFirst, Together, FirstFirst, Low, NextPair
<1>1. a \in ProperLists /\ b \in ProperLists /\ b # <<>>
  BY ProperPairIs
<1>2. l[1] = a /\ l[2] = b
  OBVIOUS
<1> HIDE DEF a, b, i
<1>3. \A s \in ProperLists : s # <<>> => Is(s)
  <2> SUFFICES ASSUME NEW s \in ProperLists, s # <<>> PROVE Is(s)
    OBVIOUS
  <2> DEFINE h == Head(s)
  <2>1. h \in Elements /\ h.bits # {} /\ h.idx \in Nat /\ BitsAt(s, h.idx) = h.bits
    BY HeadSplits DEF Splits
  <2> HIDE DEF h
  <2>2. h = Element(h.idx, BitsAt(s, h.idx))
    BY <2>1, ElementIs
  <2> QED
    BY <2>1, <2>2 DEF h
<1>4. \A s \in ProperLists, j \in Nat : (s = <<>> \/ j < Head(s).idx) => BitsAt(s, j) = {}
  BY EmptyIs, AboveBelowHead, NoBitsBelow
<1> HIDE DEF Is
<1>5. Is(b) /\ (a # <<>> => Is(a))
  BY <1>1, <1>3
<1>6. CASE SecondFirst(l)
  <2>1. i = Head(b).idx /\ NextPair(l) = <<a, Tail(b)>>
    BY <1>0, <1>6
  <2>2. a = <<>> \/ i < Head(a).idx
    BY <1>0, <1>5, <1>6, <2>1 DEF Is
  <2>3. BitsAt(a, i) = {}
    BY <1>1, <1>4, <1>5, <2>1, <2>2 DEF Is
  <2> QED
    BY <1>0, <1>2, <1>5, <1>6, <2>1, <2>3 DEF Is, i
<1>7. CASE Together(l)
  <2>1. i = Head(a).idx /\ i = Head(b).idx /\ a # <<>> /\ NextPair(l) = <<Tail(a), Tail(b)>>
    BY <1>0, <1>7
  <2> QED
    BY <1>0, <1>2, <1>5, <1>7, <2>1 DEF Is, i
<1>8. CASE FirstFirst(l)
  <2>1. i = Head(a).idx /\ a # <<>> /\ NextPair(l) = <<Tail(a), b>>
    BY <1>0, <1>8
  <2>2. i < Head(b).idx
    BY <1>0, <1>5, <1>8, <2>1 DEF Is
  <2>3. BitsAt(b, i) = {}
    BY <1>1, <1>4, <1>5, <2>1, <2>2 DEF Is
  <2> QED
    BY <1>0, <1>2, <1>5, <1>8, <2>1, <2>3 DEF Is, i
<1> QED
  BY <1>0, <1>6, <1>7, <1>8

\* A loop that puts emit[l] in front of what it goes on with.
EmitLoop(stop, base, emit, f) ==
    /\ f \in [Pairs -> Lists]
    /\ \A l \in Pairs : f[l] = IF l \in stop THEN base[l] ELSE emit[l] \o f[NextPair(l)]

LEMMA EmitLoopExists ==
    ASSUME NEW stop, Stops(stop), NEW base \in [Pairs -> Lists], NEW emit \in [Pairs -> Lists]
    PROVE  \E f : EmitLoop(stop, base, emit, f)
<1> DEFINE comb == [l \in Pairs |-> [v \in Lists |-> emit[l] \o v]]
<1>1. \A l \in Pairs, v \in Lists : emit[l] \o v \in Lists
  BY DEF Lists
<1>2. comb \in [Pairs -> [Lists -> Lists]]
  BY <1>1
<1>3. \A l \in Pairs, v \in Lists : comb[l][v] = emit[l] \o v
  OBVIOUS
<1> HIDE DEF comb
<1>4. PICK f : PairLoop(Lists, stop, base, comb, f)
  BY <1>2, PairLoopExists
<1>5. ASSUME NEW l \in Pairs
      PROVE  f[l] = IF l \in stop THEN base[l] ELSE emit[l] \o f[NextPair(l)]
  <2>1. CASE l \in stop
    BY <1>4, <2>1 DEF PairLoop
  <2>2. CASE l \notin stop
    <3>1. f[NextPair(l)] \in Lists
      BY <1>4, <2>2, PairIs DEF Stops, PairLoop
    <3> QED
      BY <1>3, <1>4, <2>2, <3>1 DEF PairLoop
  <2> QED
    BY <2>1, <2>2
<1> QED
  BY <1>4, <1>5 DEF EmitLoop, PairLoop

LEMMA ElementOps ==
    ASSUME NEW e \in Elements, NEW f \in Elements
    PROVE  /\ unionWith(e, f) = Element(e.idx, e.bits \cup f.bits) /\ unionWith(e, f) \in Elements
           /\ intersectWithComplement(e, f) = Element(e.idx, e.bits \ f.bits)
           /\ intersectWithComplement(e, f) \in Elements
<1>1. \A B \in SUBSET (0..ElementSize - 1) :
         [e EXCEPT !.bits = B] = Element(e.idx, B) /\ Element(e.idx, B) \in Elements
  BY DEF Elements, Element
<1>2. e.bits \in SUBSET (0..ElementSize - 1) /\ f.bits \in SUBSET (0..ElementSize - 1)
  BY ElementIs
<1>3. /\ e.bits \cup f.bits \in SUBSET (0..ElementSize - 1)
      /\ e.bits \ f.bits \in SUBSET (0..ElementSize - 1)
  BY <1>2
<1> QED
  BY <1>1, <1>3 DEF unionWith, intersectWithComplement

LEMMA HeadsAre ==
    ASSUME NEW l \in Pairs
    PROVE  /\ l[1] # <<>> => Head(l[1]) \in Elements
           /\ l[2] # <<>> => Head(l[2]) \in Elements
<1>1. l[1] \in Seq(Elements) /\ l[2] \in Seq(Elements)
  BY DEF Pairs, Lists
<1> QED
  BY <1>1

LEMMA UnionBits ==
    ASSUME NEW s \in ProperLists, NEW t \in ProperLists
    PROVE  /\ Union(s, t) \in ProperLists
           /\ \A i : BitsAt(Union(s, t), i) = BitsAt(s, i) \cup BitsAt(t, i)
<1> DEFINE Body(l, h) ==
             IF l[2] = <<>> THEN l[1]
             ELSE IF l[1] = <<>> \/ Head(l[1]).idx > Head(l[2]).idx
               THEN <<Head(l[2])>> \o h[<<l[1], Tail(l[2])>>]
             ELSE IF Head(l[1]).idx = Head(l[2]).idx
               THEN <<unionWith(Head(l[1]), Head(l[2]))>> \o h[<<Tail(l[1]), Tail(l[2])>>]
             ELSE <<Head(l[1])>> \o h[<<Tail(l[1]), l[2]>>]
           Eqn(h) == h = [l \in Pairs |-> Body(l, h)]
           union == CHOOSE h : Eqn(h)
           stop == {l \in Pairs : l[2] = <<>>}
           base == [l \in Pairs |-> l[1]]
           emit == [l \in Pairs |-> IF l[2] = <<>> THEN <<>>
                                    ELSE IF SecondFirst(l) THEN <<Head(l[2])>>
                                    ELSE IF Together(l) THEN <<unionWith(Head(l[1]), Head(l[2]))>>
                                    ELSE <<Head(l[1])>>]
           op == [x \in BitsOfElement \X BitsOfElement |-> x[1] \cup x[2]]
<1>1. \A l \in Pairs : /\ emit[l] = IF l[2] = <<>> THEN <<>>
                                    ELSE IF SecondFirst(l) THEN <<Head(l[2])>>
                                    ELSE IF Together(l) THEN <<unionWith(Head(l[1]), Head(l[2]))>>
                                    ELSE <<Head(l[1])>>
                       /\ base[l] = l[1]
                       /\ l \in stop <=> l[2] = <<>>
  OBVIOUS
<1>2. \A h : \A l \in Pairs :
        Body(l, h) = IF l \in stop THEN base[l] ELSE emit[l] \o h[NextPair(l)]
  BY DEF SecondFirst, Together, NextPair
<1>3. base \in [Pairs -> Lists]
  BY PairIs
<1>4. emit \in [Pairs -> Lists]
  <2>1. \A e \in Elements : <<e>> \in Lists
    BY DEF Lists
  <2>2. ASSUME NEW l \in Pairs PROVE emit[l] \in Lists
    BY <1>1, <2>1, HeadsAre, ElementOps, EmptyIs DEF SecondFirst
  <2> QED
    BY <2>2
<1> HIDE DEF Body, stop, base, emit
<1>5. Eqn(union)
  <2>1. Stops(stop)
    BY <1>1 DEF Stops
  <2>2. PICK h : EmitLoop(stop, base, emit, h)
    BY <1>3, <1>4, <2>1, EmitLoopExists
  <2>3. Eqn(h)
    BY <1>2, <2>2 DEF EmitLoop
  <2> HIDE DEF Eqn
  <2> QED
    BY <2>3
<1>6. Union(s, t) = union[<<s, t>>]
  BY DEF Union, Body
<1> HIDE DEF union
<1>7. \A l \in Pairs : union[l] = IF l \in stop THEN base[l] ELSE emit[l] \o union[NextPair(l)]
  BY <1>2, <1>5
<1>8. \A A \in BitsOfElement, B \in BitsOfElement : op[<<A, B>>] = A \cup B
  OBVIOUS
<1>9. op \in [BitsOfElement \X BitsOfElement -> BitsOfElement] /\ op[<<{}, {}>>] = {}
  BY DEF BitsOfElement
<1> HIDE DEF op, Eqn
<1>10. Emits(op, stop, union)
  <2> SUFFICES ASSUME NEW l \in ProperPairs
               PROVE  /\ l[2] = <<>> => l \in stop
                      /\ l \in stop =>
                           /\ union[l] \in ProperLists
                           /\ \A i : BitsAt(union[l], i) = op[<<BitsAt(l[1], i), BitsAt(l[2], i)>>]
                      /\ l \notin stop =>
                           union[l] = NonEmpty(Element(Low(l), op[<<BitsAt(l[1], Low(l)), BitsAt(l[2], Low(l))>>]))
                                        \o union[NextPair(l)]
    BY <1>9 DEF Emits
  <2> DEFINE i == Low(l)
             A(j) == BitsAt(l[1], j)
             B(j) == BitsAt(l[2], j)
  <2>1. l \in Pairs /\ l[1] \in ProperLists /\ l[2] \in ProperLists
    BY ProperPairIs
  <2>2. \A j : A(j) \in BitsOfElement /\ B(j) \in BitsOfElement
    BY <2>1, ProperIs, BitsAtAre DEF BitsOfElement
  <2>3. \A j : op[<<A(j), B(j)>>] = A(j) \cup B(j)
    BY <1>8, <2>2
  <2>4. CASE l[2] = <<>>
    <3>1. l \in stop /\ union[l] = l[1]
      BY <1>1, <1>7, <2>1, <2>4
    <3>2. \A j : B(j) = {}
      BY <2>4, EmptyIs
    <3> QED
      BY <2>1, <2>3, <3>1, <3>2
  <2>5. CASE l[2] # <<>>
    <3>1. l \notin stop /\ union[l] = emit[l] \o union[NextPair(l)]
      BY <1>1, <1>7, <2>1, <2>5
    <3> HIDE DEF A, B, i
    <3>2. emit[l] = NonEmpty(Element(i, A(i) \cup B(i)))
      <4>1. CASE SecondFirst(l)
        <5>1. Head(l[2]) = Element(i, B(i)) /\ B(i) # {} /\ A(i) = {}
          BY <2>5, <4>1, LowIs DEF A, B, i
        <5>2. emit[l] = <<Element(i, B(i))>>
          BY <1>1, <2>1, <2>5, <4>1, <5>1
        <5> QED
          BY <5>1, <5>2 DEF NonEmpty, Element
      <4>2. CASE Together(l)
        <5>1. /\ Head(l[1]) = Element(i, A(i)) /\ Head(l[2]) = Element(i, B(i)) /\ A(i) # {}
              /\ Head(l[1]) \in Elements /\ Head(l[2]) \in Elements
          BY <2>5, <4>2, LowIs DEF A, B, i
        <5> DEFINE e == Head(l[1])
                   f == Head(l[2])
        <5>2. unionWith(e, f) = Element(i, A(i) \cup B(i))
          <6> HIDE DEF e, f
          <6>1. e.idx = i /\ e.bits = A(i) /\ f.bits = B(i)
            BY <5>1 DEF Element, e, f
          <6>2. e \in Elements /\ f \in Elements
            BY <5>1 DEF e, f
          <6> QED
            BY <6>1, <6>2, ElementOps
        <5>3. emit[l] = <<Element(i, A(i) \cup B(i))>>
          BY <1>1, <2>1, <2>5, <4>2, <5>2 DEF Together
        <5> QED
          BY <5>1, <5>3 DEF NonEmpty, Element
      <4>3. CASE FirstFirst(l)
        <5>1. Head(l[1]) = Element(i, A(i)) /\ A(i) # {} /\ B(i) = {}
          BY <2>5, <4>3, LowIs DEF A, B, i
        <5>2. emit[l] = <<Element(i, A(i))>>
          BY <1>1, <2>1, <2>5, <4>3, <5>1 DEF FirstFirst, Together
        <5> QED
          BY <5>1, <5>2 DEF NonEmpty, Element
      <4> QED
        BY <4>1, <4>2, <4>3 DEF Together, FirstFirst
    <3> QED
      BY <2>3, <2>5, <3>1, <3>2 DEF A, B, i
  <2> QED
    BY <2>4, <2>5
<1>11. <<s, t>> \in ProperPairs /\ <<s, t>>[1] = s /\ <<s, t>>[2] = t
  BY DEF ProperPairs
<1>12. /\ union[<<s, t>>] \in ProperLists
       /\ \A i : BitsAt(union[<<s, t>>], i) = op[<<BitsAt(s, i), BitsAt(t, i)>>]
  BY <1>10, <1>11, EmitsBits
<1>13. \A i : BitsAt(s, i) \in BitsOfElement /\ BitsAt(t, i) \in BitsOfElement
  BY ProperIs, BitsAtAre DEF BitsOfElement
<1>14. \A i : op[<<BitsAt(s, i), BitsAt(t, i)>>] = BitsAt(s, i) \cup BitsAt(t, i)
  BY <1>8, <1>13
<1> QED
  BY <1>6, <1>12, <1>14

\* Nothing in front of a list.
LEMMA NothingInFront ==
    ASSUME NEW i, NEW s \in ProperLists
    PROVE  NonEmpty(Element(i, {})) \o s = s
<1>1. s \in Seq(Elements)
  BY ProperIs DEF Lists
<1>2. NonEmpty(Element(i, {})) = <<>>
  BY DEF NonEmpty, Element
<1> QED
  BY <1>1, <1>2

LEMMA DifferenceBits ==
    ASSUME NEW s \in ProperLists, NEW t \in ProperLists
    PROVE  /\ Difference(s, t) \in ProperLists
           /\ \A i : BitsAt(Difference(s, t), i) = BitsAt(s, i) \ BitsAt(t, i)
<1> DEFINE Body(l, h) ==
             IF l[1] = <<>> \/ l[2] = <<>> THEN l[1]
             ELSE IF Head(l[1]).idx > Head(l[2]).idx THEN h[<<l[1], Tail(l[2])>>]
             ELSE IF Head(l[1]).idx = Head(l[2]).idx
               THEN NonEmpty(intersectWithComplement(Head(l[1]), Head(l[2]))) \o h[<<Tail(l[1]), Tail(l[2])>>]
             ELSE <<Head(l[1])>> \o h[<<Tail(l[1]), l[2]>>]
           Eqn(h) == h = [l \in Pairs |-> Body(l, h)]
           rest == CHOOSE h : Eqn(h)
           stop == {l \in Pairs : l[1] = <<>> \/ l[2] = <<>>}
           base == [l \in Pairs |-> l[1]]
           emit == [l \in Pairs |-> IF l[1] = <<>> \/ l[2] = <<>> \/ SecondFirst(l) THEN <<>>
                                    ELSE IF Together(l) THEN NonEmpty(intersectWithComplement(Head(l[1]), Head(l[2])))
                                    ELSE <<Head(l[1])>>]
           op == [x \in BitsOfElement \X BitsOfElement |-> x[1] \ x[2]]
<1>1. \A l \in Pairs :
         /\ emit[l] = IF l[1] = <<>> \/ l[2] = <<>> \/ SecondFirst(l) THEN <<>>
                      ELSE IF Together(l) THEN NonEmpty(intersectWithComplement(Head(l[1]), Head(l[2])))
                      ELSE <<Head(l[1])>>
         /\ base[l] = l[1]
         /\ l \in stop <=> l[1] = <<>> \/ l[2] = <<>>
  OBVIOUS
<1>2. base \in [Pairs -> Lists]
  BY PairIs, EmptyIs
<1>3. emit \in [Pairs -> Lists]
  <2>1. \A e \in Elements : <<e>> \in Lists
    BY DEF Lists
  <2>2. ASSUME NEW l \in Pairs PROVE emit[l] \in Lists
    BY <1>1, <2>1, HeadsAre, ElementOps, EmptyIs DEF NonEmpty
  <2> QED
    BY <2>2
<1>4. Stops(stop)
  BY DEF Stops
<1>5. ASSUME NEW h \in [Pairs -> Lists], NEW l \in Pairs
      PROVE  Body(l, h) = IF l \in stop THEN base[l] ELSE emit[l] \o h[NextPair(l)]
  <2>1. CASE l \in stop
    BY <1>1, <2>1
  <2>2. CASE l \notin stop
    <3>1. h[NextPair(l)] \in Seq(Elements)
      BY <1>1, <2>2, PairIs DEF Lists
    <3>2. <<>> \o h[NextPair(l)] = h[NextPair(l)]
      BY <3>1
    <3> HIDE DEF emit, base, stop
    <3> QED
      BY <1>1, <2>2, <3>2 DEF SecondFirst, Together, NextPair
  <2> QED
    BY <2>1, <2>2
<1> HIDE DEF stop, base, emit
<1>6. Eqn(rest)
  <2>1. PICK h : EmitLoop(stop, base, emit, h)
    BY <1>2, <1>3, <1>4, EmitLoopExists
  <2> HIDE DEF Body
  <2>2. Eqn(h)
    BY <1>5, <2>1 DEF EmitLoop
  <2> HIDE DEF Eqn
  <2> QED
    BY <2>2
<1>7. Difference(s, t) = rest[<<s, t>>]
  BY DEF Difference
<1> HIDE DEF rest
<1>8. \A l \in Pairs : rest[l] = Body(l, rest)
  <2> HIDE DEF Body
  <2> QED
    BY <1>6
<1>9. \A A \in BitsOfElement, B \in BitsOfElement : op[<<A, B>>] = A \ B
  OBVIOUS
<1>10. op \in [BitsOfElement \X BitsOfElement -> BitsOfElement] /\ op[<<{}, {}>>] = {}
  BY DEF BitsOfElement
<1> HIDE DEF op, Eqn
<1>11. Emits(op, stop, rest)
  <2> SUFFICES ASSUME NEW l \in ProperPairs
               PROVE  /\ l[2] = <<>> => l \in stop
                      /\ l \in stop =>
                           /\ rest[l] \in ProperLists
                           /\ \A i : BitsAt(rest[l], i) = op[<<BitsAt(l[1], i), BitsAt(l[2], i)>>]
                      /\ l \notin stop /\ rest[NextPair(l)] \in ProperLists =>
                           rest[l] = NonEmpty(Element(Low(l), op[<<BitsAt(l[1], Low(l)), BitsAt(l[2], Low(l))>>]))
                                        \o rest[NextPair(l)]
    BY <1>10 DEF Emits
  <2> DEFINE i == Low(l)
             n == NextPair(l)
             A(j) == BitsAt(l[1], j)
             B(j) == BitsAt(l[2], j)
  <2>1. l \in Pairs /\ l[1] \in ProperLists /\ l[2] \in ProperLists
    BY ProperPairIs
  <2>2. \A j : A(j) \in BitsOfElement /\ B(j) \in BitsOfElement
    BY <2>1, ProperIs, BitsAtAre DEF BitsOfElement
  <2>3. \A j : op[<<A(j), B(j)>>] = A(j) \ B(j)
    BY <1>9, <2>2
  <2>4. CASE l[1] = <<>> \/ l[2] = <<>>
    <3>1. l \in stop /\ rest[l] = l[1]
      BY <1>1, <1>8, <2>1, <2>4
    <3>2. \A j : A(j) = {} \/ B(j) = {}
      BY <2>4, EmptyIs
    <3>3. l[1] = <<>> => \A j : A(j) = {}
      BY EmptyIs
    <3>4. l[2] = <<>> => \A j : B(j) = {}
      BY EmptyIs
    <3> QED
      BY <2>1, <2>3, <2>4, <3>1, <3>2, <3>3, <3>4, EmptyIs
  <2>5. CASE ~(l[1] = <<>> \/ l[2] = <<>>)
    <3>1. rest[l] = Body(l, rest) /\ l \notin stop
      BY <1>1, <1>8, <2>1, <2>5
    <3> SUFFICES ASSUME rest[n] \in ProperLists
                 PROVE  rest[l] = NonEmpty(Element(i, A(i) \ B(i))) \o rest[n]
      BY <2>3, <2>5, <3>1
    <3> HIDE DEF A, B, i, n
    <3>2. NonEmpty(Element(i, {})) \o rest[n] = rest[n]
      BY NothingInFront
    <3>3. CASE SecondFirst(l)
      <4>1. n = <<l[1], Tail(l[2])>> /\ A(i) = {}
        BY <2>5, <3>3, LowIs DEF A, i, n
      <4>2. rest[l] = rest[n]
        BY <2>5, <3>1, <3>3, <4>1 DEF SecondFirst
      <4>3. A(i) \ B(i) = {}
        BY <4>1
      <4> QED
        BY <3>2, <4>2, <4>3
    <3>4. CASE Together(l)
      <4>1. /\ n = <<Tail(l[1]), Tail(l[2])>>
            /\ Head(l[1]) = Element(i, A(i)) /\ Head(l[2]) = Element(i, B(i))
            /\ Head(l[1]) \in Elements /\ Head(l[2]) \in Elements
        BY <2>5, <3>4, LowIs DEF A, B, i, n
      <4> DEFINE e == Head(l[1])
                 f == Head(l[2])
      <4>2. intersectWithComplement(e, f) = Element(i, A(i) \ B(i))
        <5> HIDE DEF e, f
        <5>1. e.idx = i /\ e.bits = A(i) /\ f.bits = B(i)
          BY <4>1 DEF Element, e, f
        <5>2. e \in Elements /\ f \in Elements
          BY <4>1 DEF e, f
        <5> QED
          BY <5>1, <5>2, ElementOps
      <4> QED
        BY <2>5, <3>1, <3>4, <4>1, <4>2 DEF SecondFirst, Together
    <3>5. CASE FirstFirst(l)
      <4>1. n = <<Tail(l[1]), l[2]>> /\ B(i) = {} /\ A(i) # {} /\ Head(l[1]) = Element(i, A(i))
        BY <2>5, <3>5, LowIs DEF A, B, i, n
      <4>2. rest[l] = <<Element(i, A(i))>> \o rest[n]
        BY <2>5, <3>1, <3>5, <4>1 DEF SecondFirst, FirstFirst
      <4>3. A(i) \ B(i) = A(i) /\ NonEmpty(Element(i, A(i))) = <<Element(i, A(i))>>
        BY <4>1 DEF NonEmpty, Element
      <4> QED
        BY <4>2, <4>3
    <3> QED
      BY <3>3, <3>4, <3>5 DEF Together, FirstFirst
  <2> QED
    BY <2>4, <2>5
<1>12. <<s, t>> \in ProperPairs /\ <<s, t>>[1] = s /\ <<s, t>>[2] = t
  BY DEF ProperPairs
<1>13. /\ rest[<<s, t>>] \in ProperLists
       /\ \A i : BitsAt(rest[<<s, t>>], i) = op[<<BitsAt(s, i), BitsAt(t, i)>>]
  BY <1>11, <1>12, EmitsBits
<1>14. \A i : BitsAt(s, i) \in BitsOfElement /\ BitsAt(t, i) \in BitsOfElement
  BY ProperIs, BitsAtAre DEF BitsOfElement
<1>15. \A i : op[<<BitsAt(s, i), BitsAt(t, i)>>] = BitsAt(s, i) \ BitsAt(t, i)
  BY <1>9, <1>14
<1> QED
  BY <1>7, <1>13, <1>15
\* Whether the two lists have a bit in common.
Meets(l) == \E i : BitsAt(l[1], i) \cap BitsAt(l[2], i) # {}

LEMMA IntersectsIs ==
    ASSUME NEW s \in ProperLists, NEW t \in ProperLists
    PROVE  Intersects(s, t) = \E i : BitsAt(s, i) \cap BitsAt(t, i) # {}
<1> DEFINE Body(l, h) ==
             IF l[1] = <<>> \/ l[2] = <<>> THEN FALSE
             ELSE IF Head(l[1]).idx > Head(l[2]).idx THEN h[<<l[1], Tail(l[2])>>]
             ELSE IF Head(l[1]).idx = Head(l[2]).idx
               THEN intersects(Head(l[1]), Head(l[2])) \/ h[<<Tail(l[1]), Tail(l[2])>>]
             ELSE h[<<Tail(l[1]), l[2]>>]
           Eqn(h) == h = [l \in Pairs |-> Body(l, h)]
           meet == CHOOSE h : Eqn(h)
           stop == {l \in Pairs : l[1] = <<>> \/ l[2] = <<>>}
           base == [l \in Pairs |-> FALSE]
           Now(l) == Together(l) /\ intersects(Head(l[1]), Head(l[2]))
           comb == [l \in Pairs |-> [v \in BOOLEAN |-> Now(l) \/ v]]
<1>1. base \in [Pairs -> BOOLEAN] /\ comb \in [Pairs -> [BOOLEAN -> BOOLEAN]]
  BY DEF Together, SecondFirst
<1>2. Stops(stop) /\ \A l \in Pairs : l \in stop <=> (l[1] = <<>> \/ l[2] = <<>>)
  BY DEF Stops
<1>3. ASSUME NEW h, PairLoop(BOOLEAN, stop, base, comb, h), NEW l \in Pairs
      PROVE  h[l] = Body(l, h)
  <2>1. h \in [Pairs -> BOOLEAN] /\ h[l] = IF l \in stop THEN base[l] ELSE comb[l][h[NextPair(l)]]
    BY <1>3 DEF PairLoop
  <2>2. CASE l \in stop
    BY <2>1, <2>2
  <2>3. CASE l \notin stop
    <3>1. h[NextPair(l)] \in BOOLEAN
      BY <1>2, <2>1, <2>3, PairIs
    <3>2. h[l] = (Now(l) \/ h[NextPair(l)])
      BY <2>1, <2>3, <3>1
    <3> HIDE DEF comb, base, stop
    <3> QED
      BY <1>2, <2>3, <3>1, <3>2 DEF SecondFirst, Together, NextPair
  <2> QED
    BY <2>2, <2>3
<1> HIDE DEF stop, base, comb
<1>4. Eqn(meet)
  <2>1. PICK h : PairLoop(BOOLEAN, stop, base, comb, h)
    BY <1>1, <1>2, PairLoopExists
  <2> HIDE DEF Body
  <2>2. Eqn(h)
    BY <1>3, <2>1 DEF PairLoop
  <2> HIDE DEF Eqn
  <2> QED
    BY <2>2
<1>5. Intersects(s, t) = meet[<<s, t>>]
  BY DEF Intersects
<1> HIDE DEF meet
<1>6. \A l \in Pairs : meet[l] = Body(l, meet)
  <2> HIDE DEF Body
  <2> QED
    BY <1>4
<1> DEFINE Good == {l \in ProperPairs : meet[l] = Meets(l)}
<1>7. ASSUME NEW l \in ProperPairs, \A k \in ProperPairs : PairSize[k] < PairSize[l] => k \in Good
      PROVE  l \in Good
  <2> DEFINE i == Low(l)
             n == NextPair(l)
             A(j) == BitsAt(l[1], j)
             B(j) == BitsAt(l[2], j)
  <2>1. l \in Pairs /\ l[1] \in ProperLists /\ l[2] \in ProperLists
    BY ProperPairIs
  <2>2. Meets(l) <=> \E j : A(j) \cap B(j) # {}
    BY DEF Meets
  <2>3. CASE l[1] = <<>> \/ l[2] = <<>>
    <3>1. meet[l] = FALSE
      BY <1>6, <2>1, <2>3
    <3>2. \A j : A(j) = {} \/ B(j) = {}
      BY <2>3, EmptyIs
    <3>3. Meets(l) = FALSE
      BY <3>2 DEF Meets
    <3> QED
      BY <3>1, <3>3
  <2>4. CASE ~(l[1] = <<>> \/ l[2] = <<>>)
    <3>1. n \in ProperPairs /\ PairSize[n] < PairSize[l]
      BY <2>1, <2>4, NextPairIs, PairIs
    <3>2. meet[n] = Meets(n)
      BY <1>7, <3>1
    <3>3. /\ \A j : BitsAt(n[1], j) = IF j = i THEN {} ELSE A(j)
          /\ \A j : BitsAt(n[2], j) = IF j = i THEN {} ELSE B(j)
      BY <2>4, NextPairIs
    <3>4. meet[l] = Body(l, meet)
      BY <1>6, <2>1
    <3> HIDE DEF A, B, i, n
    <3>5. Meets(n) <=> \E j : j # i /\ A(j) \cap B(j) # {}
      BY <3>3 DEF Meets
    <3>6. Meets(l) <=> Meets(n) \/ A(i) \cap B(i) # {}
      BY <2>2, <3>5
    <3>7. meet[l] <=> Meets(n) \/ A(i) \cap B(i) # {}
      <4>1. CASE SecondFirst(l)
        <5>1. n = <<l[1], Tail(l[2])>> /\ A(i) = {}
          BY <2>4, <4>1, LowIs DEF A, i, n
        <5>2. meet[l] = meet[n]
          BY <2>4, <3>4, <4>1, <5>1 DEF SecondFirst
        <5> QED
          BY <3>2, <5>1, <5>2
      <4>2. CASE Together(l)
        <5>1. /\ n = <<Tail(l[1]), Tail(l[2])>>
              /\ Head(l[1]) = Element(i, A(i)) /\ Head(l[2]) = Element(i, B(i))
          BY <2>4, <4>2, LowIs DEF A, B, i, n
        <5>2. meet[l] = (intersects(Head(l[1]), Head(l[2])) \/ meet[n])
          BY <2>4, <3>4, <4>2, <5>1 DEF SecondFirst, Together
        <5>3. intersects(Head(l[1]), Head(l[2])) <=> A(i) \cap B(i) # {}
          BY <5>1 DEF intersects, Element
        <5> QED
          BY <3>2, <5>2, <5>3
      <4>3. CASE FirstFirst(l)
        <5>1. n = <<Tail(l[1]), l[2]>> /\ B(i) = {}
          BY <2>4, <4>3, LowIs DEF B, i, n
        <5>2. meet[l] = meet[n]
          BY <2>4, <3>4, <4>3, <5>1 DEF SecondFirst, FirstFirst
        <5> QED
          BY <3>2, <5>1, <5>2
      <4> QED
        BY <4>1, <4>2, <4>3 DEF Together, FirstFirst
    <3>8. meet[l] \in BOOLEAN
      <4>1. CASE SecondFirst(l)
        <5>1. meet[l] = meet[n]
          BY <2>4, <3>4, <4>1, LowIs DEF SecondFirst, n
        <5> QED
          BY <3>2, <5>1 DEF Meets
      <4>2. CASE Together(l)
        <5>1. meet[l] = (intersects(Head(l[1]), Head(l[2])) \/ meet[n])
          BY <2>4, <3>4, <4>2, LowIs DEF SecondFirst, Together, n
        <5> QED
          BY <5>1
      <4>3. CASE FirstFirst(l)
        <5>1. meet[l] = meet[n]
          BY <2>4, <3>4, <4>3, LowIs DEF SecondFirst, FirstFirst, n
        <5> QED
          BY <3>2, <5>1 DEF Meets
      <4> QED
        BY <4>1, <4>2, <4>3 DEF Together, FirstFirst
    <3>9. Meets(l) \in BOOLEAN
      BY DEF Meets
    <3> QED
      BY <3>6, <3>7, <3>8, <3>9
  <2> QED
    BY <2>3, <2>4
<1>8. ProperPairs \subseteq Good
  <2>1. \A l \in ProperPairs : PairSize[l] \in Nat
    BY ProperPairIs, PairIs
  <2> HIDE DEF Good
  <2> QED
    BY <1>7, <2>1, Descent
<1>9. <<s, t>> \in ProperPairs /\ <<s, t>>[1] = s /\ <<s, t>>[2] = t
  BY DEF ProperPairs
<1>10. meet[<<s, t>>] = Meets(<<s, t>>)
  BY <1>8, <1>9
<1> QED
  BY <1>5, <1>9, <1>10 DEF Meets
-----------------------------------------------------------------------------
(* The numbers a list stands for                                                *)

\* Division with remainder.
LEMMA DivisionIs ==
    ASSUME NEW d \in Nat \ {0}, NEW n \in Nat
    PROVE  /\ n \div d \in Nat /\ n % d \in 0..d - 1
           /\ n = (n \div d) * d + (n % d)
OBVIOUS

LEMMA ProductGrows ==
    ASSUME NEW d \in Nat, NEW i \in Nat, NEW j \in Nat, i < j
    PROVE  (i + 1) * d =< j * d /\ (i + 1) * d = i * d + d
<1>1. PICK k \in Nat : j = (i + 1) + k
  <2>1. j - (i + 1) \in Nat /\ j = (i + 1) + (j - (i + 1))
    OBVIOUS
  <2> QED
    BY <2>1
<1>2. j * d = (i + 1) * d + k * d /\ k * d \in Nat /\ (i + 1) * d \in Nat
  BY <1>1
<1>3. (i + 1) * d = i * d + d
  OBVIOUS
<1> QED
  BY <1>2, <1>3

LEMMA QuotientIs ==
    ASSUME NEW d \in Nat \ {0}, NEW i \in Nat, NEW b \in 0..d - 1
    PROVE  /\ i * d + b \in Nat
           /\ (i * d + b) \div d = i /\ (i * d + b) % d = b
<1> DEFINE n == i * d + b
           q == n \div d
           r == n % d
<1>1. n \in Nat /\ i * d \in Nat /\ b \in Int /\ 0 =< b /\ b < d /\ d \in Nat
  OBVIOUS
<1>3. n = i * d + b /\ q = n \div d /\ r = n % d
  OBVIOUS
<1> HIDE DEF n, q, r
<1>2. q \in Nat /\ r \in 0..d - 1 /\ n = q * d + r /\ q * d \in Nat
  <2>1. q \in Nat /\ r \in 0..d - 1 /\ n = q * d + r
    BY <1>1, <1>3, DivisionIs
  <2>2. q * d \in Nat
    BY <2>1
  <2> QED
    BY <2>1, <2>2
<1>4. ~(q < i)
  <2> SUFFICES ASSUME q < i PROVE FALSE
    OBVIOUS
  <2>1. (q + 1) * d =< i * d /\ (q + 1) * d = q * d + d
    BY <1>1, <1>2, ProductGrows
  <2> QED
    BY <1>1, <1>2, <1>3, <2>1
<1>5. ~(i < q)
  <2> SUFFICES ASSUME i < q PROVE FALSE
    OBVIOUS
  <2>1. (i + 1) * d =< q * d /\ (i + 1) * d = i * d + d
    BY <1>1, <1>2, ProductGrows
  <2> QED
    BY <1>1, <1>2, <1>3, <2>1
<1>6. q = i
  BY <1>2, <1>4, <1>5
<1>7. r = b
  BY <1>1, <1>2, <1>3, <1>6
<1> QED
  BY <1>1, <1>3, <1>6, <1>7

LEMMA SizesAre == ElementSize \in Nat \ {0} /\ WORDSZ \in Nat \ {0}
BY SizesAssumption

LEMMA ContentsAre ==
    ASSUME NEW s \in Lists
    PROVE  \A n : n \in Contents(s) <=>
                    n \in Nat /\ n % ElementSize \in BitsAt(s, n \div ElementSize)
<1>1. DOMAIN s = 1..Len(s)
  BY ListIs
<1>2. \A n : n \in Contents(s) <=>
               \E p \in 1..Len(s) : \E b \in s[p].bits : n = s[p].idx * ElementSize + b
  BY <1>1 DEF Contents, ToSet
<1>3. ASSUME NEW p \in 1..Len(s), NEW b \in s[p].bits, NEW n, n = s[p].idx * ElementSize + b
      PROVE  n \in Nat /\ n % ElementSize \in BitsAt(s, n \div ElementSize)
  <2>1. s[p].idx \in Nat /\ b \in 0..ElementSize - 1
    BY ListIs
  <2>2. n \in Nat /\ n \div ElementSize = s[p].idx /\ n % ElementSize = b
    BY <1>3, <2>1, QuotientIs, SizesAre
  <2> QED
    BY <2>2, BitsAtAre
<1>4. ASSUME NEW n \in Nat, n % ElementSize \in BitsAt(s, n \div ElementSize)
      PROVE  \E p \in 1..Len(s) : \E b \in s[p].bits : n = s[p].idx * ElementSize + b
  <2>1. PICK p \in 1..Len(s) : s[p].idx = n \div ElementSize /\ n % ElementSize \in s[p].bits
    BY <1>4, BitsAtAre
  <2>2. n = (n \div ElementSize) * ElementSize + (n % ElementSize)
    BY DivisionIs, SizesAre
  <2> QED
    BY <2>1, <2>2
<1> QED
  BY <1>2, <1>3, <1>4

\* The number of bit b at index i.
LEMMA NumberIn ==
    ASSUME NEW s \in Lists, NEW i \in Nat, NEW b \in 0..ElementSize - 1
    PROVE  b \in BitsAt(s, i) <=> i * ElementSize + b \in Contents(s)
<1> DEFINE n == i * ElementSize + b
<1>1. n \in Nat /\ n \div ElementSize = i /\ n % ElementSize = b
  BY QuotientIs, SizesAre
<1> HIDE DEF n
<1>2. n \in Contents(s) <=> b \in BitsAt(s, i)
  BY <1>1, ContentsAre
<1> QED
  BY <1>2 DEF n

\* Lists that hold the same numbers have the same bits.
LEMMA SameContents ==
    ASSUME NEW s \in Lists, NEW t \in Lists, Contents(s) = Contents(t)
    PROVE  \A i : BitsAt(s, i) = BitsAt(t, i)
<1>1. ASSUME NEW u \in Lists, NEW v \in Lists, Contents(u) = Contents(v), NEW i, NEW b \in BitsAt(u, i)
      PROVE  b \in BitsAt(v, i)
  <2>1. i \in Nat /\ b \in 0..ElementSize - 1
    BY <1>1, BitsAtAre
  <2> QED
    BY <1>1, <2>1, NumberIn
<1>2. \A i, b : b \in BitsAt(s, i) <=> b \in BitsAt(t, i)
  BY <1>1
<1> QED
  BY <1>2

\* Proper lists that hold the same numbers are the same.
LEMMA ContentsDetermine ==
    ASSUME NEW s \in ProperLists, NEW t \in ProperLists
    PROVE  s = t <=> Contents(s) = Contents(t)
BY SameContents, SameBits, ProperIs

\* The operations on the bits at each index are those on the numbers.
LEMMA ContentsOf ==
    ASSUME NEW s \in ProperLists, NEW t \in ProperLists
    PROVE  /\ Contents(Union(s, t)) = Contents(s) \cup Contents(t)
           /\ Contents(Difference(s, t)) = Contents(s) \ Contents(t)
           /\ Intersects(s, t) = (Contents(s) \cap Contents(t) # {})
<1>1. s \in Lists /\ t \in Lists
  BY ProperIs
<1>2. Contents(Union(s, t)) = Contents(s) \cup Contents(t)
  <2>1. \A n : n \in Contents(Union(s, t)) <=> n \in Contents(s) \cup Contents(t)
    BY <1>1, UnionBits, ProperIs, ContentsAre
  <2> QED
    BY <2>1
<1>3. Contents(Difference(s, t)) = Contents(s) \ Contents(t)
  <2>1. \A n : n \in Contents(Difference(s, t)) <=> n \in Contents(s) \ Contents(t)
    BY <1>1, DifferenceBits, ProperIs, ContentsAre
  <2> QED
    BY <2>1
<1>4. (\E i : BitsAt(s, i) \cap BitsAt(t, i) # {}) <=> Contents(s) \cap Contents(t) # {}
  <2>1. ASSUME NEW i, NEW b \in BitsAt(s, i), b \in BitsAt(t, i)
        PROVE  Contents(s) \cap Contents(t) # {}
    <3>1. i \in Nat /\ b \in 0..ElementSize - 1
      BY <1>1, BitsAtAre
    <3> QED
      BY <1>1, <2>1, <3>1, NumberIn
  <2>2. ASSUME NEW n \in Contents(s), n \in Contents(t)
        PROVE  \E i : BitsAt(s, i) \cap BitsAt(t, i) # {}
    BY <1>1, <2>2, ContentsAre
  <2> QED
    BY <2>1, <2>2
<1>5. Intersects(s, t) = \E i : BitsAt(s, i) \cap BitsAt(t, i) # {}
  BY IntersectsIs
<1> QED
  BY <1>2, <1>3, <1>4, <1>5
-----------------------------------------------------------------------------
(* Changing a list at a position                                                *)

LEMMA ConcatIs ==
    ASSUME NEW u \in Seq(Elements), NEW v \in Seq(Elements)
    PROVE  /\ u \o v \in Seq(Elements) /\ Len(u \o v) = Len(u) + Len(v)
           /\ \A q \in 1..Len(u) : (u \o v)[q] = u[q]
           /\ \A q \in 1..Len(v) : (u \o v)[Len(u) + q] = v[q]
OBVIOUS

LEMMA InsertedIs ==
    ASSUME NEW s \in Lists, NEW k \in 1..Len(s) + 1, NEW e \in Elements
    PROVE  LET r == InsertAt(s, k, e)
           IN  /\ r \in Lists /\ Len(r) = Len(s) + 1
               /\ \A q \in 1..Len(s) + 1 :
                     r[q] = IF q < k THEN s[q] ELSE IF q = k THEN e ELSE s[q - 1]
<1> DEFINE u == SubSeq(s, 1, k - 1)
           v == SubSeq(s, k, Len(s))
<1>1. s \in Seq(Elements) /\ Len(s) \in Nat /\ k \in Nat /\ 1 =< k /\ k =< Len(s) + 1
  BY ListIs DEF Lists
<1>2. u \in Seq(Elements) /\ Len(u) = k - 1 /\ \A q \in 1..k - 1 : u[q] = s[q]
  BY <1>1
<1>3. v \in Seq(Elements) /\ Len(v) = Len(s) + 1 - k /\ \A q \in 1..Len(s) + 1 - k : v[q] = s[k + q - 1]
  BY <1>1
<1> HIDE DEF u, v
<1> DEFINE w == u \o <<e>>
<1>4. w \in Seq(Elements) /\ Len(w) = k /\ w[k] = e /\ \A q \in 1..k - 1 : w[q] = s[q]
  BY <1>1, <1>2
<1> HIDE DEF w
<1> DEFINE r == w \o v
<1>5. r \in Seq(Elements) /\ Len(r) = Len(s) + 1
  <2>1. r \in Seq(Elements) /\ Len(r) = Len(w) + Len(v)
    BY <1>3, <1>4, ConcatIs
  <2> HIDE DEF r
  <2> QED
    BY <1>1, <1>3, <1>4, <2>1
<1>6. ASSUME NEW q \in 1..Len(s) + 1
      PROVE  r[q] = IF q < k THEN s[q] ELSE IF q = k THEN e ELSE s[q - 1]
  <2>1. CASE q =< k
    <3>0. q \in 1..Len(w)
      BY <1>1, <1>4, <2>1
    <3>1. r[q] = w[q]
      BY <1>3, <1>4, <3>0, ConcatIs
    <3> HIDE DEF r
    <3> QED
      BY <1>1, <1>4, <2>1, <3>1
  <2>2. CASE q > k
    <3>1. r[q] = v[q - k]
      <4>1. q - k \in 1..Len(v) /\ Len(w) + (q - k) = q
        BY <1>1, <1>3, <1>4, <2>2
      <4>2. r[Len(w) + (q - k)] = v[q - k]
        BY <1>3, <1>4, <4>1, ConcatIs
      <4> HIDE DEF r
      <4> QED
        BY <4>1, <4>2
    <3>2. q - k \in 1..Len(s) + 1 - k /\ k + (q - k) - 1 = q - 1
      BY <1>1, <2>2
    <3>3. v[q - k] = s[k + (q - k) - 1]
      BY <1>3, <3>2
    <3> QED
      BY <1>1, <2>2, <3>1, <3>2, <3>3
  <2>3. q =< k \/ q > k
    BY <1>1
  <2> HIDE DEF r
  <2> QED
    BY <2>1, <2>2, <2>3
<1>7. InsertAt(s, k, e) = r
  BY DEF InsertAt, u, v, w
<1> HIDE DEF r
<1> QED
  BY <1>5, <1>6, <1>7 DEF Lists

LEMMA RemovedIs ==
    ASSUME NEW s \in Lists, NEW k \in 1..Len(s)
    PROVE  LET r == RemoveAt(s, k)
           IN  /\ r \in Lists /\ Len(r) = Len(s) - 1
               /\ \A q \in 1..Len(s) - 1 : r[q] = IF q < k THEN s[q] ELSE s[q + 1]
<1> DEFINE u == SubSeq(s, 1, k - 1)
           v == SubSeq(s, k + 1, Len(s))
<1>1. s \in Seq(Elements) /\ Len(s) \in Nat /\ k \in Nat /\ 1 =< k /\ k =< Len(s)
  BY ListIs DEF Lists
<1>2. u \in Seq(Elements) /\ Len(u) = k - 1 /\ \A q \in 1..k - 1 : u[q] = s[q]
  BY <1>1
<1>3. v \in Seq(Elements) /\ Len(v) = Len(s) - k /\ \A q \in 1..Len(s) - k : v[q] = s[k + q]
  BY <1>1
<1> HIDE DEF u, v
<1> DEFINE r == u \o v
<1>4. r \in Seq(Elements) /\ Len(r) = Len(s) - 1
  <2>1. r \in Seq(Elements) /\ Len(r) = Len(u) + Len(v)
    BY <1>2, <1>3, ConcatIs
  <2> HIDE DEF r
  <2> QED
    BY <1>1, <1>2, <1>3, <2>1
<1>5. ASSUME NEW q \in 1..Len(s) - 1
      PROVE  r[q] = IF q < k THEN s[q] ELSE s[q + 1]
  <2>1. CASE q < k
    <3>0. q \in 1..Len(u)
      BY <1>1, <1>2, <2>1
    <3>1. r[q] = u[q]
      BY <1>2, <1>3, <3>0, ConcatIs
    <3> HIDE DEF r
    <3> QED
      BY <1>1, <1>2, <2>1, <3>1
  <2>2. CASE q >= k
    <3>1. r[q] = v[q - (k - 1)]
      <4>1. q - (k - 1) \in 1..Len(v) /\ Len(u) + (q - (k - 1)) = q
        BY <1>1, <1>2, <1>3, <2>2
      <4>2. r[Len(u) + (q - (k - 1))] = v[q - (k - 1)]
        BY <1>2, <1>3, <4>1, ConcatIs
      <4> HIDE DEF r
      <4> QED
        BY <4>1, <4>2
    <3>2. q - (k - 1) \in 1..Len(s) - k /\ k + (q - (k - 1)) = q + 1
      BY <1>1, <2>2
    <3>3. v[q - (k - 1)] = s[k + (q - (k - 1))]
      BY <1>3, <3>2
    <3> QED
      BY <1>1, <2>2, <3>1, <3>2, <3>3
  <2>3. q < k \/ q >= k
    BY <1>1
  <2> HIDE DEF r
  <2> QED
    BY <2>1, <2>2, <2>3
<1>6. RemoveAt(s, k) = r
  BY DEF RemoveAt, u, v
<1> HIDE DEF r
<1> QED
  BY <1>4, <1>5, <1>6 DEF Lists

Replace(s, k, B) == [s EXCEPT ![k].bits = B]

LEMMA ReplacedIs ==
    ASSUME NEW s \in Lists, NEW k \in 1..Len(s), NEW B \in BitsOfElement
    PROVE  LET r == Replace(s, k, B)
           IN  /\ r \in Lists /\ Len(r) = Len(s)
               /\ \A q \in 1..Len(s) : r[q] = IF q = k THEN Element(s[k].idx, B) ELSE s[q]
<1> DEFINE r == Replace(s, k, B)
<1>1. s \in Seq(Elements) /\ Len(s) \in Nat /\ DOMAIN s = 1..Len(s) /\ s[k] \in Elements /\ s[k].idx \in Nat
  BY ListIs DEF Lists
<1>2. [s[k] EXCEPT !.bits = B] = Element(s[k].idx, B) /\ Element(s[k].idx, B) \in Elements
  BY <1>1 DEF Elements, Element, BitsOfElement
<1>3. r = [s EXCEPT ![k] = Element(s[k].idx, B)]
  BY <1>2 DEF Replace
<1>4. \A q \in 1..Len(s) : r[q] = IF q = k THEN Element(s[k].idx, B) ELSE s[q]
  BY <1>1, <1>3
<1>5. r \in Lists /\ Len(r) = Len(s)
  BY <1>1, <1>2, <1>3 DEF Lists
<1> QED
  BY <1>4, <1>5
\* Where an element goes: behind the smaller indices, before the greater ones.
Fits(s, k, i) ==
    /\ k \in 1..Len(s) + 1
    /\ \A q \in 1..Len(s) : (q < k => s[q].idx < i) /\ (q >= k => s[q].idx > i)

LEMMA InsertIsProper ==
    ASSUME NEW s \in ProperLists, NEW e \in Elements, e.bits # {}, NEW k, Fits(s, k, e.idx)
    PROVE  LET r == InsertAt(s, k, e)
           IN  /\ r \in ProperLists
               /\ \A i : BitsAt(r, i) = IF i = e.idx THEN e.bits ELSE BitsAt(s, i)
<1> DEFINE r == InsertAt(s, k, e)
<1>1. s \in Lists /\ Len(s) \in Nat /\ k \in 1..Len(s) + 1
  BY ProperIs, ListIs DEF Fits
<1>2. /\ r \in Lists /\ Len(r) = Len(s) + 1
      /\ \A q \in 1..Len(s) + 1 :
            r[q] = IF q < k THEN s[q] ELSE IF q = k THEN e ELSE s[q - 1]
  BY <1>1, InsertedIs
<1> HIDE DEF r
<1>3. ASSUME NEW q \in 1..Len(r)
      PROVE  \/ q < k /\ q \in 1..Len(s) /\ r[q] = s[q]
             \/ q = k /\ r[q] = e
             \/ q > k /\ q - 1 \in 1..Len(s) /\ q - 1 >= k /\ r[q] = s[q - 1]
  <2>1. q \in 1..Len(s) + 1
    BY <1>2
  <2>2. CASE q < k
    BY <1>1, <1>2, <2>1, <2>2
  <2>3. CASE q = k
    BY <1>2, <2>1, <2>3
  <2>4. CASE q > k
    BY <1>1, <1>2, <2>1, <2>4
  <2> QED
    BY <1>1, <2>2, <2>3, <2>4
<1>4. ASSUME NEW q \in 1..Len(s)
      PROVE  \E p \in 1..Len(r) : r[p] = s[q]
  <2>1. CASE q < k
    <3>1. q \in 1..Len(s) + 1 /\ q \in 1..Len(r)
      BY <1>1, <1>2
    <3> QED
      BY <1>2, <2>1, <3>1
  <2>2. CASE q >= k
    <3>1. q + 1 \in 1..Len(s) + 1 /\ q + 1 \in 1..Len(r) /\ ~(q + 1 < k) /\ q + 1 # k /\ (q + 1) - 1 = q
      BY <1>1, <1>2, <2>2
    <3>2. r[q + 1] = s[(q + 1) - 1]
      BY <1>2, <3>1
    <3> QED
      BY <3>1, <3>2
  <2> QED
    BY <1>1, <2>1, <2>2
<1>5. k \in 1..Len(r) /\ r[k] = e
  BY <1>1, <1>2
<1>6. \A q \in 1..Len(r) : r[q].bits # {}
  BY <1>3, ProperIs
<1>7. ASSUME NEW p \in 1..Len(r), NEW q \in 1..Len(r), p < q
      PROVE  r[p].idx < r[q].idx
  <2>0. \A x, y \in 1..Len(s) : x < y => s[x].idx < s[y].idx
    BY ProperIs
  <2>1. \A x \in 1..Len(s) : (x < k => s[x].idx < e.idx) /\ (x >= k => e.idx < s[x].idx)
    <3>1. e.idx \in Nat /\ \A x \in 1..Len(s) : s[x].idx \in Nat
      BY <1>1, ListIs, ElementIs
    <3> QED
      BY <3>1 DEF Fits
  <2>2. p \in Int /\ q \in Int /\ k \in Int
    BY <1>1, <1>2
  <2>3. CASE p < k
    <3>1. p \in 1..Len(s) /\ r[p] = s[p]
      BY <1>3, <2>2, <2>3
    <3>2. CASE q < k
      BY <1>3, <1>7, <2>0, <2>2, <3>1, <3>2
    <3>3. CASE q = k
      BY <1>5, <2>1, <2>3, <3>1, <3>3
    <3>4. CASE q > k
      <4>1. q - 1 \in 1..Len(s) /\ q - 1 >= k /\ r[q] = s[q - 1]
        BY <1>3, <2>2, <3>4
      <4>2. p < q - 1
        BY <2>2, <2>3, <4>1
      <4> QED
        BY <2>0, <3>1, <4>1, <4>2
    <3> QED
      BY <2>2, <3>2, <3>3, <3>4
  <2>4. CASE p = k
    <3>1. q - 1 \in 1..Len(s) /\ q - 1 >= k /\ r[q] = s[q - 1]
      BY <1>3, <1>7, <2>2, <2>4
    <3> QED
      BY <1>5, <2>1, <2>4, <3>1
  <2>5. CASE p > k
    <3>1. p - 1 \in 1..Len(s) /\ r[p] = s[p - 1]
      BY <1>3, <2>2, <2>5
    <3>2. q - 1 \in 1..Len(s) /\ r[q] = s[q - 1]
      BY <1>3, <1>7, <2>2, <2>5
    <3>3. p - 1 < q - 1
      BY <1>7, <2>2
    <3> QED
      BY <2>0, <3>1, <3>2, <3>3
  <2> QED
    BY <2>2, <2>3, <2>4, <2>5
<1>8. r \in ProperLists
  BY <1>2, <1>6, <1>7, IsProper
<1>9. ASSUME NEW i, i # e.idx
      PROVE  BitsAt(r, i) = BitsAt(s, i)
  <2>1. \A b : b \in BitsAt(r, i) <=> \E p \in 1..Len(r) : r[p].idx = i /\ b \in r[p].bits
    BY <1>2, BitsAtAre
  <2>2. \A b : b \in BitsAt(s, i) <=> \E p \in 1..Len(s) : s[p].idx = i /\ b \in s[p].bits
    BY <1>1, BitsAtAre
  <2>3. \A b : b \in BitsAt(r, i) => b \in BitsAt(s, i)
    BY <1>3, <1>9, <2>1, <2>2
  <2>4. \A b : b \in BitsAt(s, i) => b \in BitsAt(r, i)
    BY <1>4, <2>1, <2>2
  <2> QED
    BY <2>3, <2>4
<1>10. BitsAt(r, e.idx) = e.bits
  BY <1>5, <1>8, BitsAtPosition
<1> QED
  BY <1>8, <1>9, <1>10 DEF r

LEMMA RemoveIsProper ==
    ASSUME NEW s \in ProperLists, NEW k \in 1..Len(s)
    PROVE  LET r == RemoveAt(s, k)
           IN  /\ r \in ProperLists
               /\ \A i : BitsAt(r, i) = IF i = s[k].idx THEN {} ELSE BitsAt(s, i)
<1> DEFINE r == RemoveAt(s, k)
<1>1. s \in Lists /\ Len(s) \in Nat
  BY ProperIs, ListIs
<1>2. /\ r \in Lists /\ Len(r) = Len(s) - 1
      /\ \A q \in 1..Len(s) - 1 : r[q] = IF q < k THEN s[q] ELSE s[q + 1]
  BY <1>1, RemovedIs
<1> HIDE DEF r
<1> DEFINE at(q) == IF q < k THEN q ELSE q + 1
<1>3. \A q \in 1..Len(r) : at(q) \in 1..Len(s) /\ at(q) # k /\ r[q] = s[at(q)]
  BY <1>1, <1>2
<1>4. \A p, q \in 1..Len(r) : p < q => at(p) < at(q)
  BY <1>1, <1>2
<1>5. ASSUME NEW q \in 1..Len(s), q # k
      PROVE  \E p \in 1..Len(r) : r[p] = s[q]
  <2>1. CASE q < k
    BY <1>1, <1>2, <2>1
  <2>2. CASE q > k
    <3>1. q - 1 \in 1..Len(r) /\ ~(q - 1 < k) /\ (q - 1) + 1 = q
      BY <1>1, <1>2, <2>2
    <3>2. r[q - 1] = s[(q - 1) + 1]
      BY <1>2, <3>1
    <3> QED
      BY <3>1, <3>2
  <2> QED
    BY <1>5, <2>1, <2>2
<1> HIDE DEF at
<1>6. \A q \in 1..Len(r) : r[q].bits # {}
  BY <1>3, ProperIs
<1>7. \A p, q \in 1..Len(r) : p < q => r[p].idx < r[q].idx
  <2>1. \A x, y \in 1..Len(s) : x < y => s[x].idx < s[y].idx
    BY ProperIs
  <2> QED
    BY <1>3, <1>4, <2>1
<1>8. r \in ProperLists
  BY <1>2, <1>6, <1>7, IsProper
<1>9. ASSUME NEW i
      PROVE  BitsAt(r, i) = IF i = s[k].idx THEN {} ELSE BitsAt(s, i)
  <2>1. \A b : b \in BitsAt(r, i) <=> \E p \in 1..Len(r) : r[p].idx = i /\ b \in r[p].bits
    BY <1>2, BitsAtAre
  <2>2. \A b : b \in BitsAt(s, i) <=> \E p \in 1..Len(s) : s[p].idx = i /\ b \in s[p].bits
    BY <1>1, BitsAtAre
  <2>3. \A x, y \in 1..Len(s) : s[x].idx = s[y].idx => x = y
    BY ProperIs
  <2>4. CASE i = s[k].idx
    <3>1. \A b : b \notin BitsAt(r, i)
      BY <1>3, <2>1, <2>3, <2>4
    <3> QED
      BY <2>4, <3>1
  <2>5. CASE i # s[k].idx
    <3>1. \A b : b \in BitsAt(r, i) => b \in BitsAt(s, i)
      BY <1>3, <2>1, <2>2
    <3>2. \A b : b \in BitsAt(s, i) => b \in BitsAt(r, i)
      BY <1>5, <2>1, <2>2, <2>5
    <3> QED
      BY <2>5, <3>1, <3>2
  <2> QED
    BY <2>4, <2>5
<1> QED
  BY <1>8, <1>9 DEF r

LEMMA ReplaceIsProper ==
    ASSUME NEW s \in ProperLists, NEW k \in 1..Len(s), NEW B \in BitsOfElement, B # {}
    PROVE  LET r == Replace(s, k, B)
           IN  /\ r \in ProperLists
               /\ \A i : BitsAt(r, i) = IF i = s[k].idx THEN B ELSE BitsAt(s, i)
<1> DEFINE r == Replace(s, k, B)
<1>1. s \in Lists /\ Len(s) \in Nat
  BY ProperIs, ListIs
<1>2. /\ r \in Lists /\ Len(r) = Len(s)
      /\ \A q \in 1..Len(s) : r[q] = IF q = k THEN Element(s[k].idx, B) ELSE s[q]
  BY <1>1, ReplacedIs
<1> HIDE DEF r
<1>3. Element(s[k].idx, B).idx = s[k].idx /\ Element(s[k].idx, B).bits = B
  BY DEF Element
<1>4. \A q \in 1..Len(s) : r[q].idx = s[q].idx /\ r[q].bits = IF q = k THEN B ELSE s[q].bits
  BY <1>2, <1>3
<1>5. r \in ProperLists
  <2>1. \A q \in 1..Len(r) : r[q].bits # {}
    BY <1>2, <1>4, ProperIs
  <2>2. \A p, q \in 1..Len(r) : p < q => r[p].idx < r[q].idx
    <3>1. \A x, y \in 1..Len(s) : x < y => s[x].idx < s[y].idx
      BY ProperIs
    <3> QED
      BY <1>2, <1>4, <3>1
  <2> QED
    BY <1>2, <2>1, <2>2, IsProper
<1>6. ASSUME NEW i
      PROVE  BitsAt(r, i) = IF i = s[k].idx THEN B ELSE BitsAt(s, i)
  <2>1. CASE i = s[k].idx
    BY <1>2, <1>4, <1>5, <2>1, BitsAtPosition
  <2>2. CASE i # s[k].idx
    <3>1. \A b : b \in BitsAt(r, i) <=> \E p \in 1..Len(s) : r[p].idx = i /\ b \in r[p].bits
      BY <1>2, BitsAtAre
    <3>2. \A b : b \in BitsAt(s, i) <=> \E p \in 1..Len(s) : s[p].idx = i /\ b \in s[p].bits
      BY <1>1, BitsAtAre
    <3>3. \A b : b \in BitsAt(r, i) <=> b \in BitsAt(s, i)
      BY <1>4, <2>2, <3>1, <3>2
    <3> QED
      BY <2>2, <3>3
  <2> QED
    BY <2>1, <2>2
<1> QED
  BY <1>5, <1>6 DEF r
-----------------------------------------------------------------------------
(* Searching from the cursor, and the operations on one number                  *)

LEMMA GreatestIs ==
    ASSUME NEW n \in Nat, NEW D \in SUBSET (0..n), D # {}
    PROVE  Max(D) \in D /\ \A y \in D : Max(D) >= y
<1>1. IsFiniteSet(D)
  <2>1. IsFiniteSet(0..n)
    BY FS_Interval
  <2> QED
    BY <2>1, FS_Subset
<1>2. D \subseteq Int
  OBVIOUS
<1>3. \E x \in D : \A y \in D : x >= y
  BY <1>1, <1>2, GreatestMember
<1> QED
  BY <1>3 DEF Max

LEMMA LeastIs ==
    ASSUME NEW D \in SUBSET Nat, D # {}
    PROVE  Min(D) \in D /\ \A y \in D : Min(D) =< y
<1>1. \E x \in D : \A y \in D : x =< y
  BY LeastNumber
<1> QED
  BY <1>1 DEF Min

LEMMA CursorsAre ==
    ASSUME NEW s \in Lists
    PROVE  \A c : c \in Cursors(s) <=> c = END \/ \E p \in 1..Len(s) : s[p].idx = c
<1>1. DOMAIN s = 1..Len(s)
  BY ListIs
<1> QED
  BY <1>1 DEF Cursors, ToSet

\* Before the position found everything is smaller, after it greater.
Divides(s, p, i) ==
    /\ p \in 1..Len(s) + 1
    /\ \A q \in 1..Len(s) : (q < p => s[q].idx < i) /\ (q > p => s[q].idx > i)

LEMMA LowerBound ==
    ASSUME NEW s \in ProperLists, s # <<>>, NEW c \in Cursors(s), NEW i \in Nat
    PROVE  Divides(s, FindLowerBound(s, c, i), i)
<1> DEFINE start == IF c = END THEN Len(s) ELSE PosOf(s, c)
           back == {1} \cup {p \in 1..start : s[p].idx <= i}
           forth == {Len(s) + 1} \cup {p \in start..Len(s) : s[p].idx >= i}
<1>1. /\ s \in Lists /\ Len(s) \in Nat /\ Len(s) > 0 /\ DOMAIN s = 1..Len(s)
      /\ \A q \in 1..Len(s) : s[q].idx \in Nat
  BY ProperIs, ListIs, TailIsProper
<1>2. start \in 1..Len(s)
  <2>1. CASE c = END
    BY <1>1, <2>1
  <2>2. CASE c # END
    <3>1. \E p \in DOMAIN s : s[p].idx = c
      BY <1>1, <2>2, CursorsAre
    <3>2. PosOf(s, c) \in DOMAIN s
      BY <2>2, <3>1 DEF PosOf
    <3> QED
      BY <1>1, <2>2, <3>2
  <2> QED
    BY <2>1, <2>2
<1>3. FindLowerBound(s, c, i) =
        IF s[start].idx = i THEN start
        ELSE IF s[start].idx > i THEN Max(back) ELSE Min(forth)
  BY DEF FindLowerBound
<1> HIDE DEF start
<1>4. \A x, y \in 1..Len(s) : x < y => s[x].idx < s[y].idx
  BY ProperIs
<1>5. CASE s[start].idx = i
  <2>1. FindLowerBound(s, c, i) = start
    BY <1>3, <1>5
  <2>2. \A q \in 1..Len(s) : (q < start => s[q].idx < i) /\ (q > start => s[q].idx > i)
    <3> SUFFICES ASSUME NEW q \in 1..Len(s)
                 PROVE  (q < start => s[q].idx < i) /\ (q > start => s[q].idx > i)
      OBVIOUS
    <3>1. q < start => s[q].idx < i
      BY <1>2, <1>4, <1>5
    <3>2. start < q => i < s[q].idx
      BY <1>2, <1>4, <1>5
    <3>3. q \in Int /\ start \in Int /\ i \in Int /\ s[q].idx \in Int
      BY <1>1, <1>2
    <3> QED
      BY <3>1, <3>2, <3>3
  <2> QED
    BY <1>1, <1>2, <2>1, <2>2 DEF Divides
<1>6. CASE s[start].idx > i
  <2> DEFINE p == Max(back)
  <2>1. back \in SUBSET (0..Len(s)) /\ back # {} /\ 1 \in back
    BY <1>1, <1>2
  <2>2. p \in back /\ \A y \in back : p >= y
    <3> HIDE DEF back
    <3> QED
      BY <1>1, <2>1, GreatestIs
  <2> HIDE DEF p
  <2>3. p \in 1..Len(s) /\ (p = 1 \/ s[p].idx =< i)
    BY <1>1, <1>2, <2>2
  <2>4. ASSUME NEW q \in 1..Len(s), q < p
        PROVE  s[q].idx < i
    <3>1. s[q].idx < s[p].idx
      BY <1>4, <2>3, <2>4
    <3>2. p # 1
      BY <2>4
    <3>3. s[q].idx \in Nat /\ s[p].idx \in Nat
      BY <1>1, <2>3
    <3> QED
      BY <2>3, <3>1, <3>2, <3>3
  <2>5. ASSUME NEW q \in 1..Len(s), q > p
        PROVE  s[q].idx > i
    <3>1. q \in Int /\ p \in Int /\ start \in Int /\ s[q].idx \in Nat /\ s[start].idx \in Nat
      BY <1>1, <1>2, <2>3
    <3>2. CASE q =< start
      <4> SUFFICES ASSUME s[q].idx =< i PROVE FALSE
        BY <3>1
      <4>1. q \in back
        BY <3>1, <3>2
      <4>2. p >= q
        BY <2>2, <4>1
      <4> QED
        BY <2>5, <3>1, <4>2
    <3>3. CASE q > start
      <4>1. s[start].idx < s[q].idx
        BY <1>2, <1>4, <3>1, <3>3
      <4> QED
        BY <1>6, <3>1, <4>1
    <3> QED
      BY <3>1, <3>2, <3>3
  <2>6. FindLowerBound(s, c, i) = p
    BY <1>1, <1>2, <1>3, <1>6 DEF p
  <2> QED
    BY <1>1, <2>3, <2>4, <2>5, <2>6 DEF Divides
<1>7. CASE ~(s[start].idx = i) /\ ~(s[start].idx > i)
  <2> DEFINE p == Min(forth)
  <2>0. s[start].idx < i
    BY <1>1, <1>2, <1>7
  <2>1. forth \in SUBSET Nat /\ forth # {} /\ Len(s) + 1 \in forth
    BY <1>1, <1>2
  <2>2. p \in forth /\ \A y \in forth : p =< y
    <3> HIDE DEF forth
    <3> QED
      BY <2>1, LeastIs
  <2> HIDE DEF p
  <2>3. p \in 1..Len(s) + 1 /\ (p = Len(s) + 1 \/ (p \in 1..Len(s) /\ s[p].idx >= i))
    BY <1>1, <1>2, <2>2
  <2>4. ASSUME NEW q \in 1..Len(s), q < p
        PROVE  s[q].idx < i
    <3>1. q \in Int /\ p \in Int /\ start \in Int /\ s[q].idx \in Nat /\ s[start].idx \in Nat
      BY <1>1, <1>2, <2>3
    <3>2. CASE q >= start
      <4> SUFFICES ASSUME s[q].idx >= i PROVE FALSE
        BY <3>1
      <4>1. q \in forth
        BY <1>1, <3>1, <3>2
      <4>2. p =< q
        BY <2>2, <4>1
      <4> QED
        BY <2>4, <3>1, <4>2
    <3>3. CASE q < start
      <4>1. s[q].idx < s[start].idx
        BY <1>2, <1>4, <3>3
      <4> QED
        BY <2>0, <3>1, <4>1
    <3> QED
      BY <3>1, <3>2, <3>3
  <2>5. ASSUME NEW q \in 1..Len(s), q > p
        PROVE  s[q].idx > i
    <3>1. p \in 1..Len(s) /\ s[p].idx >= i
      BY <1>1, <2>3, <2>5
    <3>2. s[p].idx < s[q].idx
      BY <1>1, <1>4, <2>5, <3>1
    <3> QED
      BY <1>1, <3>1, <3>2
  <2>6. FindLowerBound(s, c, i) = p
    BY <1>3, <1>7 DEF p
  <2> QED
    BY <2>3, <2>4, <2>5, <2>6 DEF Divides
<1> QED
  BY <1>5, <1>6, <1>7

\* What a search finds.
LEMMA FoundIs ==
    ASSUME NEW s \in ProperLists, NEW p, NEW i \in Nat, Divides(s, p, i)
    PROVE  /\ Found(s, p, i) => p \in 1..Len(s) /\ s[p].idx = i /\ BitsAt(s, i) = s[p].bits
           /\ ~Found(s, p, i) =>
                 /\ BitsAt(s, i) = {}
                 /\ Fits(s, IF p <= Len(s) /\ s[p].idx < i THEN p + 1 ELSE p, i)
<1>1. /\ s \in Lists /\ Len(s) \in Nat /\ p \in 1..Len(s) + 1
      /\ \A q \in 1..Len(s) : s[q].idx \in Nat
      /\ \A q \in 1..Len(s) : (q < p => s[q].idx < i) /\ (q > p => s[q].idx > i)
  BY ProperIs, ListIs DEF Divides
<1>2. ASSUME Found(s, p, i)
      PROVE  p \in 1..Len(s) /\ s[p].idx = i /\ BitsAt(s, i) = s[p].bits
  BY <1>1, <1>2, BitsAtPosition DEF Found
<1>3. ASSUME ~Found(s, p, i)
      PROVE  /\ BitsAt(s, i) = {}
             /\ Fits(s, IF p <= Len(s) /\ s[p].idx < i THEN p + 1 ELSE p, i)
  <2>1. p \notin 1..Len(s) \/ s[p].idx # i
    BY <1>1, <1>3 DEF Found
  <2>2. \A q \in 1..Len(s) : s[q].idx # i
    <3> SUFFICES ASSUME NEW q \in 1..Len(s), s[q].idx = i PROVE FALSE
      OBVIOUS
    <3>1. ~(q < p) /\ ~(q > p)
      BY <1>1
    <3> QED
      BY <1>1, <2>1, <3>1
  <2>3. BitsAt(s, i) = {}
    BY <2>2, BitsAtPosition
  <2>4. CASE p <= Len(s) /\ s[p].idx < i
    <3>1. p \in 1..Len(s) /\ p + 1 \in 1..Len(s) + 1
      BY <1>1, <2>4
    <3>2. ASSUME NEW q \in 1..Len(s)
          PROVE  (q < p + 1 => s[q].idx < i) /\ (q >= p + 1 => s[q].idx > i)
      <4>1. q < p \/ q = p \/ q > p
        BY <1>1
      <4>2. (q < p + 1 => q < p \/ q = p) /\ (q >= p + 1 => q > p)
        BY <1>1
      <4> QED
        BY <1>1, <2>4, <4>1, <4>2
    <3> QED
      BY <2>3, <2>4, <3>1, <3>2 DEF Fits
  <2>5. CASE ~(p <= Len(s) /\ s[p].idx < i)
    <3>1. ASSUME NEW q \in 1..Len(s)
          PROVE  (q < p => s[q].idx < i) /\ (q >= p => s[q].idx > i)
      <4>1. CASE q = p
        BY <1>1, <2>1, <2>5, <4>1
      <4>2. CASE q # p
        BY <1>1, <4>2
      <4> QED
        BY <4>1, <4>2
    <3> QED
      BY <1>1, <2>3, <2>5, <3>1 DEF Fits
  <2> QED
    BY <2>4, <2>5
<1> QED
  BY <1>2, <1>3
LEMMA SameNumber ==
    ASSUME NEW m \in Nat, NEW n \in Nat
    PROVE  m = n <=> m \div ElementSize = n \div ElementSize /\ m % ElementSize = n % ElementSize
<1>1. m = (m \div ElementSize) * ElementSize + (m % ElementSize)
  BY DivisionIs, SizesAre
<1>2. n = (n \div ElementSize) * ElementSize + (n % ElementSize)
  BY DivisionIs, SizesAre
<1> QED
  BY <1>1, <1>2

\* The index and the bit of a number.
LEMMA NumberIs ==
    ASSUME NEW n \in Nat
    PROVE  /\ n \div ElementSize \in Nat /\ n % ElementSize \in 0..ElementSize - 1
           /\ {n % ElementSize} \in BitsOfElement
BY DivisionIs, SizesAre DEF BitsOfElement

LEMMA IndexAtIsCursor ==
    ASSUME NEW s \in Lists, NEW p \in Nat \ {0}
    PROVE  IndexAt(s, p) \in Cursors(s)
BY ListIs, CursorsAre DEF IndexAt

\* An index with bits is a cursor.
LEMMA CursorIs ==
    ASSUME NEW s \in ProperLists
    PROVE  \A i : BitsAt(s, i) # {} => i \in Cursors(s)
BY BitsAtPosition, CursorsAre, ProperIs

LEMMA EndIsCursor == \A s : END \in Cursors(s)
BY DEF Cursors

LEMMA SetIs ==
    ASSUME NEW s \in ProperLists, NEW c \in Cursors(s), NEW n \in Nat
    PROVE  LET r == SetBit(s, c, n)
           IN  /\ r \in ProperLists
               /\ Contents(r) = Contents(s) \cup {n}
               /\ n \div ElementSize \in Cursors(r)
<1> DEFINE i == n \div ElementSize
           b == n % ElementSize
           p == FindLowerBound(s, c, i)
           k == IF p <= Len(s) /\ s[p].idx < i THEN p + 1 ELSE p
           r == SetBit(s, c, n)
           Adds == \A j : BitsAt(r, j) = IF j = i THEN BitsAt(s, j) \cup {b} ELSE BitsAt(s, j)
<1>1. r = IF s = <<>> THEN <<Element(i, {b})>>
          ELSE IF Found(s, p, i) THEN [s EXCEPT ![p].bits = @ \cup {b}]
          ELSE InsertAt(s, k, Element(i, {b}))
  BY DEF SetBit
<1>2. i \in Nat /\ b \in 0..ElementSize - 1 /\ {b} \in BitsOfElement
  BY NumberIs
<1>3. s # <<>> => Divides(s, p, i)
  BY <1>2, LowerBound
<1>4. i = n \div ElementSize /\ b = n % ElementSize
  OBVIOUS
<1> HIDE DEF i, b, p, r
<1> DEFINE e == Element(i, {b})
<1>5. e \in Elements /\ e.idx = i /\ e.bits = {b}
  BY <1>2, IsElement DEF BitsOfElement
<1> HIDE DEF e, k
<1>6. s \in Lists /\ \A j : BitsAt(s, j) \in BitsOfElement
  BY ProperIs, BitsAtAre DEF BitsOfElement
<1>7. r \in ProperLists /\ Adds
  <2>1. CASE s = <<>>
    <3>1. r = <<e>> \o <<>>
      BY <1>1, <2>1 DEF e
    <3>2. <<>> \in ProperLists /\ Above(<<>>, i) /\ \A j : BitsAt(<<>>, j) = {}
      BY EmptyIs
    <3>3. <<e>> \o <<>> \in ProperLists
          /\ \A j : BitsAt(<<e>> \o <<>>, j) = IF j = e.idx THEN e.bits ELSE BitsAt(<<>>, j)
      BY <1>5, <3>2, ConsIsProper
    <3> QED
      BY <1>5, <2>1, <3>1, <3>2, <3>3
  <2>2. CASE s # <<>> /\ Found(s, p, i)
    <3>1. p \in 1..Len(s) /\ s[p].idx = i /\ BitsAt(s, i) = s[p].bits
      BY <1>2, <1>3, <2>2, FoundIs
    <3> DEFINE B == s[p].bits \cup {b}
    <3>2. B \in BitsOfElement /\ B # {}
      BY <1>2, <1>6, <3>1 DEF BitsOfElement
    <3>3. r = Replace(s, p, B)
      BY <1>1, <2>2 DEF Replace
    <3>4. B = BitsAt(s, i) \cup {b}
      BY <3>1
    <3> HIDE DEF B
    <3>5. r \in ProperLists /\ \A j : BitsAt(r, j) = IF j = s[p].idx THEN B ELSE BitsAt(s, j)
      BY <3>1, <3>2, <3>3, ReplaceIsProper
    <3> QED
      BY <3>1, <3>4, <3>5
  <2>3. CASE s # <<>> /\ ~Found(s, p, i)
    <3>1. BitsAt(s, i) = {} /\ Fits(s, k, i)
      BY <1>2, <1>3, <2>3, FoundIs DEF k
    <3>2. r = InsertAt(s, k, e)
      BY <1>1, <2>3 DEF k, e
    <3>3. r \in ProperLists /\ \A j : BitsAt(r, j) = IF j = e.idx THEN e.bits ELSE BitsAt(s, j)
      BY <1>5, <3>1, <3>2, InsertIsProper
    <3> QED
      BY <1>5, <3>1, <3>3
  <2> QED
    BY <2>1, <2>2, <2>3
<1>8. r \in Lists
  BY <1>7, ProperIs
<1>9. Contents(r) = Contents(s) \cup {n}
  <2>1. ASSUME NEW m PROVE m \in Contents(r) <=> m \in Contents(s) \/ m = n
    <3>1. m \in Contents(r) <=> m \in Nat /\ m % ElementSize \in BitsAt(r, m \div ElementSize)
      BY <1>8, ContentsAre
    <3>2. m \in Contents(s) <=> m \in Nat /\ m % ElementSize \in BitsAt(s, m \div ElementSize)
      BY <1>6, ContentsAre
    <3>3. m \in Nat => (m = n <=> m \div ElementSize = i /\ m % ElementSize = b)
      BY <1>4, SameNumber
    <3> QED
      BY <1>7, <3>1, <3>2, <3>3
  <2> QED
    BY <2>1
<1>10. i \in Cursors(r)
  BY <1>7, CursorIs
<1> QED
  BY <1>4, <1>7, <1>9, <1>10 DEF r

LEMMA ResetIs ==
    ASSUME NEW s \in ProperLists, s # <<>>, NEW c \in Cursors(s), NEW n \in Nat
    PROVE  LET r == ResetBit(s, c, n)
           IN  /\ r.els \in ProperLists
               /\ Contents(r.els) = Contents(s) \ {n}
               /\ r.cur \in Cursors(r.els)
<1> DEFINE i == n \div ElementSize
           b == n % ElementSize
           p == FindLowerBound(s, c, i)
           rest == s[p].bits \ {b}
           r == ResetBit(s, c, n)
           u == r.els
           Takes == \A j : BitsAt(u, j) = IF j = i THEN BitsAt(s, j) \ {b} ELSE BitsAt(s, j)
<1>1. r = IF ~Found(s, p, i) THEN [els |-> s, cur |-> IndexAt(s, p)]
          ELSE IF rest # {} THEN [els |-> [s EXCEPT ![p].bits = rest], cur |-> i]
          ELSE [els |-> RemoveAt(s, p), cur |-> IndexAt(s, p + 1)]
  BY DEF ResetBit
<1>2. i \in Nat /\ b \in 0..ElementSize - 1
  BY NumberIs
<1>3. Divides(s, p, i)
  BY <1>2, LowerBound
<1>4. i = n \div ElementSize /\ b = n % ElementSize
  OBVIOUS
<1> HIDE DEF i, b, p, r
<1>5. s \in Lists /\ Len(s) \in Nat /\ \A j : BitsAt(s, j) \in BitsOfElement
  BY ProperIs, ListIs, BitsAtAre DEF BitsOfElement
<1>6. u \in ProperLists /\ Takes /\ r.cur \in Cursors(u)
  <2>1. CASE ~Found(s, p, i)
    <3>1. u = s /\ r.cur = IndexAt(s, p)
      BY <1>1, <2>1
    <3>2. p \in Nat \ {0} /\ BitsAt(s, i) = {}
      BY <1>2, <1>3, <1>5, <2>1, FoundIs DEF Divides
    <3> QED
      BY <1>5, <3>1, <3>2, IndexAtIsCursor
  <2>2. CASE Found(s, p, i) /\ rest # {}
    <3>1. p \in 1..Len(s) /\ s[p].idx = i /\ BitsAt(s, i) = s[p].bits
      BY <1>2, <1>3, <2>2, FoundIs
    <3>2. u = Replace(s, p, rest) /\ r.cur = i
      BY <1>1, <2>2 DEF Replace
    <3>3. rest \in BitsOfElement /\ rest = BitsAt(s, i) \ {b}
      BY <1>5, <3>1 DEF BitsOfElement
    <3> HIDE DEF rest, u
    <3>0. rest # {}
      BY <2>2
    <3>4. u \in ProperLists /\ \A j : BitsAt(u, j) = IF j = s[p].idx THEN rest ELSE BitsAt(s, j)
      <4>1. /\ Replace(s, p, rest) \in ProperLists
            /\ \A j : BitsAt(Replace(s, p, rest), j) = IF j = s[p].idx THEN rest ELSE BitsAt(s, j)
        BY <3>0, <3>1, <3>3, ReplaceIsProper
      <4> QED
        BY <3>2, <4>1
    <3>5. i \in Cursors(u)
      BY <2>2, <3>1, <3>4, CursorIs
    <3> QED
      BY <3>1, <3>2, <3>3, <3>4, <3>5
  <2>3. CASE Found(s, p, i) /\ rest = {}
    <3>1. p \in 1..Len(s) /\ s[p].idx = i /\ BitsAt(s, i) = s[p].bits
      BY <1>2, <1>3, <2>3, FoundIs
    <3>2. u = RemoveAt(s, p) /\ r.cur = IndexAt(s, p + 1)
      BY <1>1, <2>3
    <3>3. BitsAt(s, i) \ {b} = {}
      BY <2>3, <3>1
    <3> HIDE DEF u
    <3>4. u \in ProperLists /\ \A j : BitsAt(u, j) = IF j = s[p].idx THEN {} ELSE BitsAt(s, j)
      BY <3>1, <3>2, RemoveIsProper
    <3>5. r.cur \in Cursors(u)
      <4>1. CASE p + 1 > Len(s)
        BY <3>2, <4>1, EndIsCursor DEF IndexAt
      <4>2. CASE ~(p + 1 > Len(s))
        <5>1. p + 1 \in 1..Len(s) /\ p + 1 # p /\ r.cur = s[p + 1].idx
          BY <1>5, <3>1, <3>2, <4>2 DEF IndexAt
        <5>2. s[p + 1].idx # i
          BY <3>1, <5>1, ProperIs
        <5>3. BitsAt(s, s[p + 1].idx) # {}
          BY <5>1, BitsAtPosition
        <5> QED
          BY <3>1, <3>4, <5>1, <5>2, <5>3, CursorIs
      <4> QED
        BY <4>1, <4>2
    <3> QED
      BY <3>1, <3>3, <3>4, <3>5
  <2> QED
    BY <2>1, <2>2, <2>3
<1>7. u \in Lists
  BY <1>6, ProperIs
<1>8. Contents(u) = Contents(s) \ {n}
  <2>1. ASSUME NEW m PROVE m \in Contents(u) <=> m \in Contents(s) /\ m # n
    <3>1. m \in Contents(u) <=> m \in Nat /\ m % ElementSize \in BitsAt(u, m \div ElementSize)
      BY <1>7, ContentsAre
    <3>2. m \in Contents(s) <=> m \in Nat /\ m % ElementSize \in BitsAt(s, m \div ElementSize)
      BY <1>5, ContentsAre
    <3>3. m \in Nat => (m = n <=> m \div ElementSize = i /\ m % ElementSize = b)
      BY <1>4, SameNumber
    <3> QED
      BY <1>6, <3>1, <3>2, <3>3
  <2> QED
    BY <2>1
<1> QED
  BY <1>6, <1>8 DEF r

LEMMA TestIs ==
    ASSUME NEW s \in ProperLists, s # <<>>, NEW c \in Cursors(s), NEW n \in Nat
    PROVE  /\ TestBit(s, c, n) = (n \in Contents(s))
           /\ IndexAt(s, FindLowerBound(s, c, n \div ElementSize)) \in Cursors(s)
<1> DEFINE i == n \div ElementSize
           b == n % ElementSize
           p == FindLowerBound(s, c, i)
<1>1. TestBit(s, c, n) = (Found(s, p, i) /\ b \in s[p].bits)
  BY DEF TestBit
<1>2. i \in Nat /\ s \in Lists /\ Len(s) \in Nat
  BY NumberIs, ProperIs, ListIs
<1>3. Divides(s, p, i)
  BY <1>2, LowerBound
<1>4. n \in Contents(s) <=> b \in BitsAt(s, i)
  BY <1>2, ContentsAre
<1> HIDE DEF i, b, p
<1>5. (Found(s, p, i) /\ b \in s[p].bits) <=> b \in BitsAt(s, i)
  BY <1>2, <1>3, FoundIs
<1>6. p \in Nat \ {0}
  BY <1>2, <1>3 DEF Divides
<1>7. IndexAt(s, p) \in Cursors(s)
  BY <1>2, <1>6, IndexAtIsCursor
<1> QED
  BY <1>1, <1>4, <1>5, <1>7 DEF i, p
--------------------------------------------------------------------------------
(* Quotients and words                                                          *)

LEMMA QuotientOrder ==
    ASSUME NEW d \in Nat \ {0}, NEW m \in Nat, NEW n \in Nat
    PROVE  m =< n <=> \/ m \div d < n \div d
                      \/ m \div d = n \div d /\ (m % d) =< (n % d)
<1> DEFINE a == m \div d
           x == m % d
           c == n \div d
           y == n % d
<1>1. /\ a \in Nat /\ x \in 0..d - 1 /\ m = a * d + x
      /\ c \in Nat /\ y \in 0..d - 1 /\ n = c * d + y
  BY DivisionIs
<1> HIDE DEF a, x, c, y
<1>2. a * d \in Nat /\ c * d \in Nat
  BY <1>1
<1>3. a < c => a * d + d =< c * d
  BY <1>1, ProductGrows
<1>4. c < a => c * d + d =< a * d
  BY <1>1, ProductGrows
<1>5. a < c \/ a = c \/ c < a
  BY <1>1
<1> DEFINE e == a * d
           f == c * d
<1>6. /\ e \in Nat /\ f \in Nat /\ d \in Nat /\ m = e + x /\ n = f + y
      /\ (a < c => e + d =< f) /\ (c < a => f + d =< e) /\ (a = c => e = f)
  BY <1>1, <1>2, <1>3, <1>4
<1> HIDE DEF e, f
<1>7. m =< n <=> a < c \/ (a = c /\ x =< y)
  <2>1. CASE a < c
    BY <1>1, <1>6, <2>1
  <2>2. CASE c < a
    BY <1>1, <1>6, <2>2
  <2>3. CASE a = c
    BY <1>1, <1>6, <2>3
  <2> QED
    BY <1>5, <2>1, <2>2, <2>3
<1> QED
  BY <1>7 DEF a, x, c, y

\* The numbers of a word.
LEMMA WordIs ==
    ASSUME NEW w \in Nat
    PROVE  \A b : b \in Word(w) <=> b \in Nat /\ b \div WORDSZ = w
<1>1. WORDSZ \in Nat \ {0}
  BY SizesAre
<1>2. w * WORDSZ \in Nat /\ (w + 1) * WORDSZ = w * WORDSZ + WORDSZ
  BY <1>1
<1>3. ASSUME NEW b \in Word(w)
      PROVE  b \in Nat /\ b \div WORDSZ = w
  <2>1. b \in Int /\ w * WORDSZ =< b /\ b =< w * WORDSZ + WORDSZ - 1
    BY <1>1, <1>2 DEF Word
  <2> DEFINE x == b - w * WORDSZ
  <2>2. x \in 0..WORDSZ - 1 /\ b = w * WORDSZ + x
    BY <1>1, <1>2, <2>1
  <2> HIDE DEF x
  <2> QED
    BY <1>1, <2>2, QuotientIs
<1>4. ASSUME NEW b \in Nat, b \div WORDSZ = w
      PROVE  b \in Word(w)
  <2>1. b = w * WORDSZ + (b % WORDSZ) /\ b % WORDSZ \in 0..WORDSZ - 1
    BY <1>1, <1>4, DivisionIs
  <2> QED
    BY <1>1, <1>2, <2>1 DEF Word
<1> QED
  BY <1>3, <1>4

--------------------------------------------------------------------------------
(* A right-hand side, built from its numbers by set().                          *)

LEMMA BuildIs ==
    ASSUME NEW R \in SUBSET Nat, IsFiniteSet(R)
    PROVE  Build(R) \in ProperLists /\ Contents(Build(R)) = R
<1> DEFINE Reach(n, s) == SetBit(s, END, n)
           A == ProperLists
           pick == [U \in SUBSET R |-> CHOOSE x \in U : TRUE]
           step == [p \in A \X R |-> Reach(p[2], p[1])]
           Eqn(h) == h = [U \in SUBSET R |->
                             IF U = {} THEN <<>>
                             ELSE Reach(CHOOSE x \in U : TRUE, h[U \ {CHOOSE x \in U : TRUE}])]
           fold == CHOOSE h : Eqn(h)
           Good == [U \in SUBSET R |-> {s \in A : Contents(s) = U}]
<1>1. Build(R) = fold[R]
  BY DEF Build, FoldSet, MapThenFoldSet
<1>2. /\ Picks(R, pick)
      /\ \A U \in SUBSET R : pick[U] = CHOOSE x \in U : TRUE
  BY DEF Picks
<1>3. <<>> \in A /\ Contents(<<>>) = {}
  <2>1. <<>> \in A
    BY EmptyIs
  <2>2. \A n : n \notin Contents(<<>>)
    BY EmptyIs, ContentsAre
  <2> QED
    BY <2>1, <2>2
<1>4. ASSUME NEW s \in A, NEW n \in R
      PROVE  Reach(n, s) \in A /\ Contents(Reach(n, s)) = Contents(s) \cup {n}
  BY SetIs, EndIsCursor
<1>5. /\ step \in [A \X R -> A]
      /\ \A s \in A, n \in R : step[<<s, n>>] = Reach(n, s)
  <2> HIDE DEF A, Reach
  <2> QED
    BY <1>4
<1> HIDE DEF pick, step, Reach
<1>6. Eqn(fold)
  <2> HIDE DEF A, Good
  <2>1. CanFold(R, pick, A, <<>>, step)
    BY <1>2, <1>3, <1>5 DEF CanFold
  <2>2. PICK h : FoldsTo(R, pick, A, <<>>, step, h)
    BY <2>1, FoldExists
  <2>3. ASSUME NEW U \in SUBSET R, U # {}
        PROVE  h[U] = Reach(pick[U], h[U \ {pick[U]}])
    BY <1>2, <1>5, <2>2, <2>3 DEF FoldsTo, Picks
  <2>4. Eqn(h)
    <3>1. \A U \in SUBSET R : h[U] = IF U = {} THEN <<>> ELSE Reach(pick[U], h[U \ {pick[U]}])
      BY <2>2, <2>3 DEF FoldsTo
    <3>2. \A U \in SUBSET R : h[U] = IF U = {} THEN <<>>
                ELSE Reach(CHOOSE x \in U : TRUE, h[U \ {CHOOSE x \in U : TRUE}])
      BY <1>2, <3>1
    <3>3. h \in [SUBSET R -> A]
      BY <2>2 DEF FoldsTo
    <3> QED
      BY <3>2, <3>3
  <2> HIDE DEF Eqn
  <2> QED
    BY <2>4
<1>7. /\ fold[{}] = <<>>
      /\ \A U \in SUBSET R : U # {} => fold[U] = Reach(pick[U], fold[U \ {pick[U]}])
  <2> HIDE DEF Good, fold
  <2>1. \A U \in SUBSET R : fold[U] = IF U = {} THEN <<>>
              ELSE Reach(CHOOSE x \in U : TRUE, fold[U \ {CHOOSE x \in U : TRUE}])
    BY <1>6
  <2>2. \A U \in SUBSET R : fold[U] = IF U = {} THEN <<>> ELSE Reach(pick[U], fold[U \ {pick[U]}])
    BY ZenonT(30), <1>2, <2>1
  <2> QED
    BY <2>2
<1> HIDE DEF fold, Eqn
<1>8. fold[{}] \in Good[{}]
  BY <1>3, <1>7
<1>9. ASSUME NEW U \in SUBSET R, U # {}, fold[U \ {pick[U]}] \in Good[U \ {pick[U]}]
      PROVE  fold[U] \in Good[U]
  <2> DEFINE n == pick[U]
             s == fold[U \ {n}]
  <2>1. n \in U /\ n \in R /\ fold[U] = Reach(n, s)
    BY <1>2, <1>7, <1>9 DEF Picks
  <2>2. s \in A /\ Contents(s) = U \ {n}
    BY <1>9
  <2> HIDE DEF n, s
  <2>3. fold[U] \in A /\ Contents(fold[U]) = (U \ {n}) \cup {n}
    BY <1>4, <2>1, <2>2
  <2> HIDE DEF A
  <2> QED
    BY <2>1, <2>3
<1>10. fold[R] \in Good[R]
  <2> HIDE DEF Good
  <2> QED
    BY <1>2, <1>8, <1>9, FoldKeeps
<1> QED
  BY <1>1, <1>10

\* The right-hand sides of the calls.
LEMMA OtherIs ==
    ASSUME NEW R \in Others
    PROVE  R \in SUBSET Nat /\ Build(R) \in ProperLists /\ Contents(Build(R)) = R
BY BitsAssumption, BuildIs

--------------------------------------------------------------------------------
(* The operations, one by one: the list stays canonical, and holds the set that *)
(* the operation makes.                                                         *)

IInv == els \in ProperLists /\ cur \in Cursors(els)

\* The operation leaves the set S.
Leaves(S) == els' \in ProperLists /\ cur' \in Cursors(els') /\ Contents(els') = S

\* What an answer leaves.
LEMMA AnswerLeaves ==
    ASSUME IInv, NEW op, NEW v, Answer(op, v)
    PROVE  Leaves(Contents(els)) /\ ret' = <<op, v>>
BY DEF IInv, Leaves, Answer, Become

\* The empty list.
LEMMA EmptyHolds ==
    /\ Contents(<<>>) = {} /\ \A c : c \in Cursors(<<>>) <=> c = END
    /\ \A s \in ProperLists : Contents(s) = {} <=> s = <<>>
<1>1. <<>> \in ProperLists /\ Contents(<<>>) = {}
  <2>1. \A n : n \notin Contents(<<>>)
    BY EmptyIs, ContentsAre
  <2> QED
    BY <2>1, EmptyIs
<1>2. \A s \in ProperLists : Contents(s) = {} <=> s = <<>>
  BY <1>1, ContentsDetermine
<1>3. \A c : c \in Cursors(<<>>) <=> c = END
  <2>1. Len(<<>>) = 0 /\ \A p \in 1..Len(<<>>) : FALSE
    OBVIOUS
  <2> QED
    BY <2>1, EmptyIs, CursorsAre
<1> QED
  BY <1>1, <1>2, <1>3

\* The first element's index is one CurrElementIter may have.
LEMMA BeginIs ==
    ASSUME NEW s \in ProperLists
    PROVE  Begin(s) \in Cursors(s)
BY ProperIs, IndexAtIsCursor DEF Begin

LEMMA HasIs ==
    ASSUME IInv, NEW n \in Nat
    PROVE  Has(n) = (n \in Contents(els)) /\ Moved(n) \in Cursors(els)
<1>1. CASE els = <<>>
  BY <1>1, EmptyHolds DEF Has, Moved, IInv
<1>2. CASE els # <<>>
  <2> DEFINE at == IndexAt(els, FindLowerBound(els, cur, n \div ElementSize))
  <2>1. TestBit(els, cur, n) = (n \in Contents(els)) /\ at \in Cursors(els)
    BY <1>2, TestIs DEF IInv
  <2>2. Moved(n) = at
    BY <1>2 DEF Moved
  <2>3. Has(n) = (n \in Contents(els))
    <3> DEFINE b == TestBit(els, cur, n)
               m == n \in Contents(els)
    <3>1. Has(n) = (els # <<>> /\ b) /\ b = m
      BY Zenon, <2>1 DEF Has
    <3> HIDE DEF b, m
    <3>2. m \in BOOLEAN
      BY DEF m
    <3>3. Has(n) = m
      BY <1>2, <3>1, <3>2
    <3> QED
      BY <3>3 DEF m
  <2> HIDE DEF at
  <2> QED
    BY <2>1, <2>2, <2>3
<1> QED
  BY <1>1, <1>2

LEMMA TestLeaves ==
    ASSUME IInv, NEW n \in Nat, Test(n)
    PROVE  Leaves(Contents(els)) /\ ret' = <<"test", n \in Contents(els)>>
<1>1. els' = els /\ cur' = Moved(n) /\ ret' = <<"test", Has(n)>>
  BY DEF Test, Become
<1> QED
  BY <1>1, HasIs DEF IInv, Leaves

LEMMA ResetLeaves ==
    ASSUME IInv, NEW n \in Nat, Reset(n)
    PROVE  Leaves(Contents(els) \ {n}) /\ ret' = <<"reset", none>>
<1>1. CASE els = <<>>
  <2>1. Answer("reset", none)
    BY <1>1 DEF Reset
  <2> QED
    BY <1>1, <2>1, AnswerLeaves, EmptyHolds
<1>2. CASE els # <<>>
  <2> DEFINE r == ResetBit(els, cur, n)
  <2>1. els' = r.els /\ cur' = r.cur /\ ret' = <<"reset", none>>
    BY <1>2 DEF Reset, Become
  <2>2. r.els \in ProperLists /\ Contents(r.els) = Contents(els) \ {n} /\ r.cur \in Cursors(r.els)
    BY <1>2, ResetIs DEF IInv
  <2> HIDE DEF r
  <2> QED
    BY <2>1, <2>2 DEF Leaves
<1> QED
  BY <1>1, <1>2

LEMMA SetLeaves ==
    ASSUME IInv, NEW n \in Nat, Set(n)
    PROVE  Leaves(Contents(els) \cup {n}) /\ ret' = <<"set", none>>
<1>1. els' = SetBit(els, cur, n) /\ cur' = n \div ElementSize /\ ret' = <<"set", none>>
  BY DEF Set, Become
<1> QED
  BY <1>1, SetIs DEF IInv, Leaves

LEMMA TestAndSetLeaves ==
    ASSUME IInv, NEW n \in Nat, TestAndSet(n)
    PROVE  /\ Leaves(Contents(els) \cup {n})
           /\ ret' = <<"test_and_set", Contents(els) \cup {n} # Contents(els)>>
<1>1. Has(n) = (n \in Contents(els)) /\ Moved(n) \in Cursors(els)
  BY HasIs
<1>2. CASE Has(n)
  <2>1. els' = els /\ cur' = Moved(n) /\ ret' = <<"test_and_set", FALSE>>
    BY <1>2 DEF TestAndSet, Become
  <2>2. Contents(els) \cup {n} = Contents(els)
    BY <1>1, <1>2
  <2> QED
    BY <1>1, <2>1, <2>2 DEF IInv, Leaves
<1>3. CASE ~Has(n)
  <2>1. /\ els' = SetBit(els, Moved(n), n) /\ cur' = n \div ElementSize
        /\ ret' = <<"test_and_set", TRUE>>
    BY <1>3 DEF TestAndSet, Become
  <2>2. (Contents(els) \cup {n} # Contents(els)) = TRUE
    BY <1>1, <1>3
  <2>3. Leaves(Contents(els) \cup {n})
    BY <1>1, <2>1, SetIs DEF IInv, Leaves
  <2> QED
    BY <2>1, <2>2, <2>3
<1> QED
  BY <1>2, <1>3

\* Two lists differ when what they hold does.
LEMMA DifferIs ==
    ASSUME NEW s \in ProperLists, NEW t \in ProperLists
    PROVE  (s # t) = (Contents(s) # Contents(t))
BY ContentsDetermine

LEMMA OrLeaves ==
    ASSUME IInv, NEW t \in ProperLists, OrWith(t)
    PROVE  LET S == Contents(els) \cup Contents(t)
           IN  Leaves(S) /\ ret' = <<"or", S # Contents(els)>>
<1>1. CASE t = <<>>
  <2>1. Answer("or", FALSE)
    BY <1>1 DEF OrWith
  <2>2. Contents(els) \cup Contents(t) = Contents(els)
    BY <1>1, EmptyHolds
  <2> QED
    BY <2>1, <2>2, AnswerLeaves
<1>2. CASE t # <<>>
  <2> DEFINE s == Union(els, t)
  <2>1. els' = s /\ cur' = Begin(s) /\ ret' = <<"or", s # els>>
    BY <1>2 DEF OrWith, Become
  <2>2. s \in ProperLists /\ Contents(s) = Contents(els) \cup Contents(t)
    BY UnionBits, ContentsOf DEF IInv
  <2> HIDE DEF s
  <2>3. Begin(s) \in Cursors(s) /\ (s # els) = (Contents(s) # Contents(els))
    BY <2>2, BeginIs, DifferIs DEF IInv
  <2> QED
    BY <2>1, <2>2, <2>3 DEF Leaves
<1> QED
  BY <1>1, <1>2

LEMMA WithoutLeaves ==
    ASSUME IInv, NEW t \in ProperLists, Without(t)
    PROVE  LET S == Contents(els) \ Contents(t)
           IN  Leaves(S) /\ ret' = <<"without", S # Contents(els)>>
<1>1. CASE els = <<>> \/ t = <<>>
  <2>1. Answer("without", FALSE)
    BY <1>1 DEF Without
  <2>2. Contents(els) \ Contents(t) = Contents(els)
    BY <1>1, EmptyHolds
  <2> QED
    BY <2>1, <2>2, AnswerLeaves
<1>2. CASE ~(els = <<>> \/ t = <<>>)
  <2> DEFINE s == Difference(els, t)
  <2>1. els' = s /\ cur' = Begin(s) /\ ret' = <<"without", s # els>>
    BY <1>2 DEF Without, Become
  <2>2. s \in ProperLists /\ Contents(s) = Contents(els) \ Contents(t)
    BY DifferenceBits, ContentsOf DEF IInv
  <2> HIDE DEF s
  <2>3. Begin(s) \in Cursors(s) /\ (s # els) = (Contents(s) # Contents(els))
    BY <2>2, BeginIs, DifferIs DEF IInv
  <2> QED
    BY <2>1, <2>2, <2>3 DEF Leaves
<1> QED
  BY <1>1, <1>2

LEMMA FillLeaves ==
    ASSUME NEW s \in ProperLists, NEW t \in ProperLists, Fill(s, t)
    PROVE  Leaves(Contents(s) \ Contents(t)) /\ ret' = <<"fill", none>>
<1>1. els' = Difference(s, t) /\ cur' = END /\ ret' = <<"fill", none>>
  BY DEF Fill, Become
<1> QED
  BY <1>1, DifferenceBits, ContentsOf, EndIsCursor DEF Leaves

LEMMA ClearLeaves ==
    ASSUME Clear
    PROVE  Leaves({}) /\ ret' = <<"clear", none>>
BY EmptyHolds, EmptyIs DEF Clear, Become, Leaves

LEMMA ContentsAreNumbers ==
    ASSUME NEW s \in Lists
    PROVE  Contents(s) \in SUBSET Nat
BY ContentsAre

--------------------------------------------------------------------------------
(* Whatever is called, the list stays canonical.                                *)

LEMMA CallLeaves ==
    ASSUME IInv, Call
    PROVE  \E S : Leaves(S)
<1> USE DEF IInv
<1>1. Bits \subseteq Nat
  BY BitsAssumption
<1>2. ASSUME NEW n \in Bits, Test(n) \/ Reset(n) \/ Set(n) \/ TestAndSet(n)
      PROVE  \E S : Leaves(S)
  BY <1>1, <1>2, TestLeaves, ResetLeaves, SetLeaves, TestAndSetLeaves
<1>3. ASSUME NEW t \in ProperLists,
             OrWith(t) \/ Without(t) \/ Equal(t) \/ IntersectsWith(t)
      PROVE  \E S : Leaves(S)
  BY <1>3, OrLeaves, WithoutLeaves, AnswerLeaves DEF Equal, IntersectsWith
<1>4. ASSUME NEW R \in Others, NEW S \in Others, Fill(Build(R), Build(S))
      PROVE  \E U : Leaves(U)
  BY <1>4, OtherIs, FillLeaves
<1>7. ASSUME Clear \/ First \/ Count \/ Single \/ Walk
      PROVE  \E S : Leaves(S)
  BY <1>7, ClearLeaves, AnswerLeaves DEF First, Count, Single, Walk
<1>8. ASSUME NEW R \in Others, NEW t \in {Build(R)},
             OrWith(t) \/ Without(t) \/ Equal(t) \/ IntersectsWith(t)
      PROVE  \E S : Leaves(S)
  <2>1. t \in ProperLists
    BY OtherIs
  <2> QED
    BY <1>3, <1>8, <2>1
<1> QED
  BY <1>2, <1>4, <1>7, <1>8 DEF Call

\* An element list that is proper and a cursor that points into it are kept by every
\* operation: the searches of FindLowerBound and the loops over two lists included.
LEMMA IInvHolds == Spec => []IInv
<1>1. Init => IInv
  BY EmptyIs, EndIsCursor DEF Init, IInv
<1>2. ASSUME IInv, [Next]_vars
      PROVE  IInv'
  <2>1. CASE Call
    <3>1. PICK S : Leaves(S)
      BY <1>2, <2>1, CallLeaves
    <3>2. els' \in ProperLists /\ cur' \in Cursors(els')
      BY <3>1 DEF Leaves
    <3> QED
      BY <3>2 DEF IInv, ProperLists, Proper, Lists, Elements, Cursors
  <2>2. CASE UNCHANGED <<els, cur>>
    BY <1>2, <2>2 DEF IInv, ProperLists, Proper, Lists, Elements, Cursors
  <2> QED
    BY <1>2, <2>1, <2>2 DEF Next, Return, vars
<1> QED
  BY <1>1, <1>2, PTL DEF Spec

\* The list stays sorted and without empty elements, the bits of each within its size,
\* and CurrElementIter points at an element or at the end, after every operation of
\* MySparseBitVector in any order.
THEOREM CanonicalHolds == Spec => []Canonical
<1>1. IInv => Canonical
  BY DEF IInv, Canonical, ProperLists
<1> QED
  BY <1>1, IInvHolds, PTL

--------------------------------------------------------------------------------
(* What is returned: the first number, how many there are, and whether it is    *)
(* one.                                                                         *)

\* The members of a bitmap, element by element.
LEMMA MemberIs ==
    ASSUME NEW s \in ProperLists
    PROVE  /\ \A m \in Contents(s) : \E q \in 1..Len(s) :
                 s[q].idx = m \div ElementSize /\ m % ElementSize \in s[q].bits
           /\ \A q \in 1..Len(s) : \A b \in s[q].bits :
                 /\ s[q].idx * ElementSize + b \in Contents(s)
                 /\ (s[q].idx * ElementSize + b) \div ElementSize = s[q].idx
                 /\ (s[q].idx * ElementSize + b) % ElementSize = b
<1>1. s \in Lists
  BY ProperIs
<1>2. ASSUME NEW m \in Contents(s)
      PROVE  \E q \in 1..Len(s) : s[q].idx = m \div ElementSize /\ m % ElementSize \in s[q].bits
  BY <1>1, ContentsAre, BitsAtAre
<1>3. ASSUME NEW q \in 1..Len(s), NEW b \in s[q].bits
      PROVE  /\ s[q].idx * ElementSize + b \in Contents(s)
             /\ (s[q].idx * ElementSize + b) \div ElementSize = s[q].idx
             /\ (s[q].idx * ElementSize + b) % ElementSize = b
  <2>1. s[q].idx \in Nat /\ b \in 0..ElementSize - 1
    BY <1>1, ListIs
  <2>2. b \in BitsAt(s, s[q].idx)
    BY <1>1, BitsAtAre
  <2>3. s[q].idx * ElementSize + b \in Contents(s)
    BY <1>1, <2>1, <2>2, NumberIn
  <2> QED
    BY <2>1, <2>3, QuotientIs, SizesAre
<1> QED
  BY <1>2, <1>3

\* The first bit of an element.
LEMMA FirstBitIs ==
    ASSUME NEW s \in ProperLists, NEW q \in 1..Len(s)
    PROVE  /\ find_first(s[q]) \in s[q].bits /\ find_first(s[q]) \in 0..ElementSize - 1
           /\ \A b \in s[q].bits : find_first(s[q]) =< b
<1>1. s[q].bits \in SUBSET (0..ElementSize - 1) /\ s[q].bits # {}
  BY ProperIs, ListIs
<1>2. s[q].bits \in SUBSET Nat
  BY <1>1
<1> QED
  BY <1>1, <1>2, LeastIs DEF find_first

LEMMA FindFirstIs ==
    ASSUME NEW s \in ProperLists
    PROVE  /\ FindFirst(s) = IF Contents(s) = {} THEN -1 ELSE Min(Contents(s))
           /\ s # <<>> => /\ 1 \in 1..Len(s)
                          /\ FindFirst(s) \in Contents(s)
                          /\ \A m \in Contents(s) : FindFirst(s) =< m
                          /\ FindFirst(s) \div ElementSize = s[1].idx
<1>1. CASE s = <<>>
  BY <1>1, EmptyHolds DEF FindFirst
<1>2. CASE s # <<>>
  <2> DEFINE b == find_first(s[1])
             n == s[1].idx * ElementSize + b
  <2>1. Head(s) = s[1] /\ 1 \in 1..Len(s) /\ s \in Lists
    BY <1>2, TailIsProper, ProperIs, ListIs
  <2>2. FindFirst(s) = n
    BY <1>2, <2>1 DEF FindFirst
  <2>3. b \in s[1].bits /\ \A x \in s[1].bits : b =< x
    BY <2>1, FirstBitIs
  <2>4. n \in Contents(s) /\ n \div ElementSize = s[1].idx /\ n % ElementSize = b
    BY <2>1, <2>3, MemberIs
  <2>5. Contents(s) \in SUBSET Nat
    BY <2>1, ContentsAreNumbers
  <2> HIDE DEF b, n
  <2>6. ASSUME NEW m \in Contents(s) PROVE n =< m
    <3>1. PICK q \in 1..Len(s) : s[q].idx = m \div ElementSize /\ m % ElementSize \in s[q].bits
      BY MemberIs
    <3>2. m \in Nat /\ n \in Nat
      BY <2>4, <2>5
    <3>3. CASE q = 1
      <4>1. (n % ElementSize) =< (m % ElementSize) /\ n \div ElementSize = m \div ElementSize
        BY <2>3, <2>4, <3>1, <3>3
      <4> QED
        BY <3>2, <4>1, QuotientOrder, SizesAre
    <3>4. CASE q # 1
      <4>1. 1 < q
        BY <3>4
      <4>2. n \div ElementSize < m \div ElementSize
        BY <2>1, <2>4, <3>1, <4>1, ProperIs
      <4> QED
        BY <3>2, <4>2, QuotientOrder, SizesAre
    <3> QED
      BY <3>3, <3>4
  <2>7. Min(Contents(s)) = n
    <3> DEFINE k == Min(Contents(s))
    <3>1. k \in Contents(s) /\ \A y \in Contents(s) : k =< y
      BY <2>4, <2>5, LeastIs
    <3>2. k =< n /\ n =< k /\ k \in Nat /\ n \in Nat
      BY <2>4, <2>5, <2>6, <3>1
    <3> HIDE DEF k
    <3>3. k = n
      BY <3>2
    <3> QED
      BY <3>3 DEF k
  <2> QED
    BY <1>2, <2>1, <2>2, <2>4, <2>6, <2>7
<1> QED
  BY <1>1, <1>2

\* The bits of an element are finitely many.
LEMMA BitsAreFinite ==
    ASSUME NEW B \in SUBSET (0..ElementSize - 1)
    PROVE  IsFiniteSet(B) /\ Cardinality(B) \in Nat
<1>1. IsFiniteSet(0..ElementSize - 1)
  BY SizesAre, FS_Interval
<1>2. IsFiniteSet(B)
  BY <1>1, FS_Subset
<1> QED
  BY <1>2, FS_CardinalityType

\* The numbers of the bits B of element i.
NumbersOf(i, B) == {i * ElementSize + b : b \in B}

LEMMA NumbersAre ==
    ASSUME NEW i \in Nat, NEW B \in SUBSET (0..ElementSize - 1)
    PROVE  /\ IsFiniteSet(NumbersOf(i, B)) /\ Cardinality(NumbersOf(i, B)) = Cardinality(B)
           /\ \A n : n \in NumbersOf(i, B) <=>
                       n \in Nat /\ n \div ElementSize = i /\ (n % ElementSize) \in B
<1> DEFINE N == NumbersOf(i, B)
           f == [b \in B |-> i * ElementSize + b]
<1>1. \A b \in B : /\ i * ElementSize + b \in Nat
                   /\ (i * ElementSize + b) \div ElementSize = i
                   /\ (i * ElementSize + b) % ElementSize = b
  BY QuotientIs, SizesAre
<1>2. f \in Bijection(B, N)
  <2>1. \A b \in B : f[b] = i * ElementSize + b
    OBVIOUS
  <2>2. f \in [B -> N] /\ \A n \in N : \E b \in B : f[b] = n
    BY DEF NumbersOf
  <2>3. ASSUME NEW b \in B, NEW c \in B, f[b] = f[c] PROVE b = c
    <3>1. i * ElementSize + b = i * ElementSize + c
      BY <2>1, <2>3
    <3> QED
      BY <1>1, <3>1
  <2> HIDE DEF f, N
  <2> QED
    BY <2>2, <2>3 DEF Bijection, Injection, Surjection, IsInjective
<1>3. IsFiniteSet(B) /\ ExistsBijection(B, N)
  BY <1>2, BitsAreFinite DEF ExistsBijection
<1>4. IsFiniteSet(N) /\ Cardinality(N) = Cardinality(B)
  <2> HIDE DEF N
  <2> QED
    BY <1>3, FS_Bijection
<1>5. ASSUME NEW n \in Nat, n \div ElementSize = i, (n % ElementSize) \in B
      PROVE  n \in N
  <2>1. n = i * ElementSize + (n % ElementSize)
    BY <1>5, DivisionIs, SizesAre
  <2> QED
    BY <1>5, <2>1 DEF NumbersOf
<1>6. ASSUME NEW n \in N
      PROVE  n \in Nat /\ n \div ElementSize = i /\ (n % ElementSize) \in B
  <2>1. PICK b \in B : n = i * ElementSize + b
    BY DEF NumbersOf
  <2> QED
    BY <1>1, <2>1
<1> QED
  BY <1>4, <1>5, <1>6

\* The numbers of the first element and those of the rest have none in common.
LEMMA HeadAndTail ==
    ASSUME NEW s \in ProperLists, s # <<>>
    PROVE  LET h == NumbersOf(Head(s).idx, Head(s).bits)
           IN  Contents(s) = h \cup Contents(Tail(s)) /\ h \cap Contents(Tail(s)) = {}
<1> DEFINE h == NumbersOf(Head(s).idx, Head(s).bits)
           t == Tail(s)
           i == Head(s).idx
<1>1. /\ Head(s) \in Elements /\ t \in ProperLists /\ Above(t, i) /\ s \in Lists /\ t \in Lists
      /\ \A j : BitsAt(s, j) = IF j = i THEN Head(s).bits ELSE BitsAt(t, j)
  BY TailIsProper, ProperIs
<1>2. i \in Nat /\ Head(s).bits \in SUBSET (0..ElementSize - 1)
  BY <1>1, ElementIs
<1>3. BitsAt(t, i) = {}
  BY <1>1, <1>2, NoBitsBelow
<1>4. \A n : n \in h <=> n \in Nat /\ n \div ElementSize = i /\ (n % ElementSize) \in Head(s).bits
  BY <1>2, NumbersAre
<1> HIDE DEF h, t, i
<1>5. \A n : n \in Contents(s) <=> n \in h \/ n \in Contents(t)
  <2>1. \A n : n \in Contents(t) <=> n \in Nat /\ (n % ElementSize) \in BitsAt(t, n \div ElementSize)
    BY <1>1, ContentsAre
  <2>2. \A n : n \in Contents(s) <=> n \in Nat /\ (n % ElementSize) \in BitsAt(s, n \div ElementSize)
    BY <1>1, ContentsAre
  <2> QED
    BY <1>1, <1>3, <1>4, <2>1, <2>2
<1>6. \A n : ~(n \in h /\ n \in Contents(t))
  BY <1>1, <1>3, <1>4, ContentsAre
<1> QED
  BY <1>5, <1>6 DEF h, t, i

\* count() goes through the elements.
LEMMA BitCountIs ==
    ASSUME NEW s \in Lists
    PROVE  BitCount[s] = IF s = <<>> THEN 0 ELSE Cardinality(Head(s).bits) + BitCount[Tail(s)]
<1> DEFINE Eqn(h) == h = [l \in Lists |->
                            IF l = <<>> THEN 0 ELSE Cardinality(Head(l).bits) + h[Tail(l)]]
           count == CHOOSE h : Eqn(h)
           stop == {<<>>}
           base == [l \in Lists |-> 0]
           next == [l \in Lists |-> Tail(l)]
           size == [l \in Lists |-> Len(l)]
           comb == [l \in Lists |-> [v \in Nat |-> IF l = <<>> THEN v
                                                   ELSE Cardinality(Head(l).bits) + v]]
<1>1. /\ \A l \in Lists : base[l] = 0 /\ next[l] = Tail(l) /\ size[l] = Len(l)
      /\ \A l : l \in stop <=> l = <<>>
      /\ \A l \in Lists, v \in Nat : l # <<>> => comb[l][v] = Cardinality(Head(l).bits) + v
  OBVIOUS
<1>2. ASSUME NEW l \in Lists
      PROVE  /\ Len(l) \in Nat
             /\ l # <<>> => /\ Tail(l) \in Lists /\ Len(Tail(l)) < Len(l)
                            /\ Cardinality(Head(l).bits) \in Nat
  <2>1. Len(l) \in Nat /\ (l # <<>> => Head(l) \in Elements /\ Tail(l) \in Lists
                                         /\ Len(Tail(l)) = Len(l) - 1)
    BY DEF Lists
  <2> QED
    BY <2>1, ElementIs, BitsAreFinite
<1>3. comb \in [Lists -> [Nat -> Nat]]
  BY <1>2
<1>4. base \in [Lists -> Nat]
  OBVIOUS
<1> HIDE DEF stop, base, next, size, comb
<1>5. CanLoop(Lists, Nat, stop, base, next, size, comb)
  BY <1>1, <1>2, <1>3, <1>4 DEF CanLoop
<1>6. PICK h \in [Lists -> Nat] :
         \A l \in Lists : h[l] = IF l \in stop THEN base[l] ELSE comb[l][h[next[l]]]
  <2> DEFINE L == Lists
  <2>1. CanLoop(L, Nat, stop, base, next, size, comb)
    BY <1>5
  <2> HIDE DEF L
  <2>2. PICK h \in [L -> Nat] :
           \A l \in L : h[l] = IF l \in stop THEN base[l] ELSE comb[l][h[next[l]]]
    BY <2>1, LoopExists
  <2> QED
    BY <2>2 DEF L
<1>7. Eqn(h)
  <2>1. ASSUME NEW l \in Lists
        PROVE  h[l] = IF l = <<>> THEN 0 ELSE Cardinality(Head(l).bits) + h[Tail(l)]
    <3>1. CASE l = <<>>
      <4>1. l \in stop /\ base[l] = 0
        BY <1>1, <3>1
      <4> QED
        BY <1>6, <3>1, <4>1
    <3>2. CASE l # <<>>
      <4>1. h[Tail(l)] \in Nat /\ l \notin stop /\ next[l] = Tail(l)
        BY <1>1, <1>2, <1>6, <3>2
      <4>2. comb[l][h[Tail(l)]] = Cardinality(Head(l).bits) + h[Tail(l)]
        BY <1>1, <3>2, <4>1
      <4>3. h[l] = comb[l][h[next[l]]]
        BY <1>6, <4>1
      <4> QED
        BY <3>2, <4>1, <4>2, <4>3
    <3> QED
      BY <3>1, <3>2
  <2> QED
    BY <2>1
<1>8. Eqn(count)
  <2> HIDE DEF Eqn
  <2> QED
    BY <1>7
<1>9. count = BitCount
  BY DEF BitCount
<1> HIDE DEF count
<1> QED
  BY <1>8, <1>9

LEMMA CountIs ==
    ASSUME NEW s \in ProperLists
    PROVE  IsFiniteSet(Contents(s)) /\ BitCount[s] = Cardinality(Contents(s))
<1> DEFINE Good == {l \in ProperLists : IsFiniteSet(Contents(l)) /\ BitCount[l] = Cardinality(Contents(l))}
           size == [l \in ProperLists |-> Len(l)]
<1>1. \A l \in ProperLists : size[l] = Len(l) /\ size[l] \in Nat
  BY ProperIs, ListIs
<1>2. ASSUME NEW l \in ProperLists, \A k \in ProperLists : size[k] < size[l] => k \in Good
      PROVE  l \in Good
  <2>1. CASE l = <<>>
    BY <2>1, EmptyHolds, EmptyIs, BitCountIs, FS_EmptySet
  <2>2. CASE l # <<>>
    <3> DEFINE t == Tail(l)
               h == NumbersOf(Head(l).idx, Head(l).bits)
    <3>1. /\ t \in ProperLists /\ Len(t) = Len(l) - 1 /\ Head(l) \in Elements
          /\ l \in Lists /\ Len(l) \in Nat
      BY <2>2, TailIsProper, ProperIs, ListIs
    <3>2. t \in Good
      <4>1. size[t] < size[l]
        BY <1>1, <3>1
      <4> HIDE DEF Good, size, t
      <4> QED
        BY <1>2, <3>1, <4>1
    <3>3. BitCount[l] = Cardinality(Head(l).bits) + BitCount[t]
      BY <2>2, <3>1, BitCountIs
    <3>4. IsFiniteSet(h) /\ Cardinality(h) = Cardinality(Head(l).bits)
      BY <3>1, ElementIs, NumbersAre
    <3>5. Contents(l) = h \cup Contents(t) /\ h \cap Contents(t) = {}
      BY <2>2, HeadAndTail
    <3>6. IsFiniteSet(Contents(t)) /\ BitCount[t] = Cardinality(Contents(t))
      BY <3>2
    <3> HIDE DEF t, h
    <3>7. /\ IsFiniteSet(Contents(l))
          /\ Cardinality(Contents(l)) = Cardinality(h) + Cardinality(Contents(t)) - 0
      BY <3>4, <3>5, <3>6, FS_Union, FS_EmptySet
    <3>8. Cardinality(h) \in Nat /\ Cardinality(Contents(t)) \in Nat
      BY <3>4, <3>6, FS_CardinalityType
    <3>9. BitCount[l] = Cardinality(Contents(l))
      BY <3>3, <3>4, <3>6, <3>7, <3>8
    <3> QED
      BY <3>7, <3>9
  <2> QED
    BY <2>1, <2>2
<1> HIDE DEF size, Good
<1>3. ProperLists \subseteq Good
  <2>1. \A l \in ProperLists : size[l] \in Nat
    BY <1>1
  <2> QED
    BY <1>2, <2>1, Descent
<1> QED
  BY <1>3 DEF Good

LEMMA SingleIs ==
    ASSUME NEW s \in ProperLists
    PROVE  Len(s) = 1 /\ Cardinality(s[1].bits) = 1 <=> Cardinality(Contents(s)) = 1
<1>1. s \in Lists /\ Len(s) \in Nat
  BY ProperIs, ListIs
<1>2. CASE s = <<>>
  <2>1. Len(s) = 0 /\ Cardinality(Contents(s)) = 0
    BY <1>2, EmptyHolds, FS_EmptySet
  <2> QED
    BY <2>1
<1>3. CASE s # <<>>
  <2> DEFINE t == Tail(s)
             k == Cardinality(s[1].bits)
             c == Cardinality(Contents(t))
  <2>1. t \in ProperLists /\ Len(t) = Len(s) - 1 /\ Head(s) = s[1] /\ Head(s).bits # {}
    BY <1>3, TailIsProper
  <2>2. Cardinality(Contents(s)) = k + c
    <3>1. BitCount[s] = k + BitCount[t]
      BY <1>1, <1>3, <2>1, BitCountIs
    <3> HIDE DEF k, t
    <3> QED
      BY <2>1, <3>1, CountIs
  <2>3. k \in Nat /\ k # 0
    <3>1. s[1].bits \in SUBSET (0..ElementSize - 1)
      BY <1>3, <2>1, TailIsProper, ElementIs
    <3> QED
      BY <2>1, <3>1, BitsAreFinite, FS_EmptySet
  <2>4. c \in Nat /\ (c = 0 <=> t = <<>>)
    <3>1. IsFiniteSet(Contents(t)) /\ (Contents(t) = {} <=> t = <<>>)
      BY <2>1, CountIs, EmptyHolds
    <3> HIDE DEF t
    <3> QED
      BY <3>1, FS_CardinalityType, FS_EmptySet
  <2>5. t = <<>> <=> Len(s) = 1
    <3>1. t \in Seq(Elements)
      BY <2>1, ProperIs DEF Lists
    <3> HIDE DEF t
    <3>2. t = <<>> <=> Len(t) = 0
      BY <3>1
    <3> QED
      BY <1>1, <2>1, <3>2
  <2> HIDE DEF k, c, t
  <2>6. Len(s) = 1 /\ k = 1 <=> k + c = 1
    BY <2>3, <2>4, <2>5
  <2> QED
    BY <2>2, <2>6 DEF k
<1> QED
  BY <1>2, <1>3

--------------------------------------------------------------------------------
(* The iterator: it gives the numbers in order.                                 *)

WalkStates(s) == (DOMAIN s) \X Nat

\* The bits of the element that come after.
Later(s, l) == {b \in s[l[1]].bits : b > l[2] % ElementSize}
WalkStops(s, l) == Later(s, l) = {} /\ l[1] = Len(s)
WalkNext(s, l) ==
    IF Later(s, l) # {} THEN <<l[1], s[l[1]].idx * ElementSize + Min(Later(s, l))>>
    ELSE <<l[1] + 1, s[l[1] + 1].idx * ElementSize + find_first(s[l[1] + 1])>>

\* What the loop's body makes of a state, from what the loop makes of the next.
WalkBody(s, l, h) ==
    LET e == s[l[1]]
        at == l[2] % ElementSize
        b == (l[2] + 1) % ElementSize
        inWord == {x \in e.bits \cap Word(at \div WORDSZ) : x > at}
        next == find_next(e, b)
        here == e.idx * ElementSize
    IN  <<l[2]>> \o
          (IF inWord # {} THEN h[<<l[1], here + Min(inWord)>>]
           ELSE IF next # ElementSize /\ b # 0 THEN h[<<l[1], here + next>>]
           ELSE IF l[1] = Len(s) THEN <<>>
           ELSE h[<<l[1] + 1,
                    s[l[1] + 1].idx * ElementSize + find_first(s[l[1] + 1])>>])

\* The bit after bit number n of an element: 0 when it is the last.
LEMMA NextBit ==
    ASSUME NEW n \in Nat
    PROVE  (n + 1) % ElementSize = IF n % ElementSize = ElementSize - 1 THEN 0
                                   ELSE (n % ElementSize) + 1
<1> DEFINE d == ElementSize
           q == n \div d
           a == n % d
           x == q * d
           y == (q + 1) * d
<1>1. d \in Nat \ {0} /\ q \in Nat /\ a \in 0..d - 1 /\ n = x + a
  BY SizesAre, DivisionIs
<1>2. x \in Nat /\ y = x + d
  BY <1>1, ProductGrows
<1>3. CASE a = d - 1
  <2>1. n + 1 = y + 0 /\ q + 1 \in Nat /\ 0 \in 0..d - 1
    <3> HIDE DEF d, q, a, x, y
    <3> QED
      BY <1>1, <1>2, <1>3
  <2>2. (y + 0) % d = 0
    BY <1>1, <2>1, QuotientIs
  <2>3. (n + 1) % d = 0
    <3> HIDE DEF d, q, a, x, y
    <3> QED
      BY <2>1, <2>2
  <2> QED
    BY <1>3, <2>3
<1>4. CASE a # d - 1
  <2>1. n + 1 = x + (a + 1) /\ a + 1 \in 0..d - 1
    <3> HIDE DEF d, q, a, x, y
    <3> QED
      BY <1>1, <1>2, <1>4
  <2>2. (x + (a + 1)) % d = a + 1
    BY <1>1, <2>1, QuotientIs
  <2>3. (n + 1) % d = a + 1
    <3> HIDE DEF d, q, a, x, y
    <3> QED
      BY <2>1, <2>2
  <2> QED
    BY <1>4, <2>3
<1> QED
  BY <1>3, <1>4

\* The least of two sets, one within the other, is the same when it is in the smaller.
LEMMA SameLeast ==
    ASSUME NEW D \in SUBSET Nat, D # {}, NEW x \in D, \A y \in D : x =< y
    PROVE  Min(D) = x
<1> DEFINE k == Min(D)
<1>1. k \in D /\ \A y \in D : k =< y
  BY LeastIs
<1> HIDE DEF k
<1>2. k =< x /\ x =< k /\ k \in Nat /\ x \in Nat
  BY <1>1
<1>3. k = x
  BY <1>2
<1> QED
  BY <1>3 DEF k

\* Looking in the rest of the word first, and then in the words that follow, finds the
\* next bit of the element if it has one.
LEMMA NextInElement ==
    ASSUME NEW e \in Elements, NEW n \in Nat
    PROVE  LET at == n % ElementSize
               b == (n + 1) % ElementSize
               inWord == {x \in e.bits \cap Word(at \div WORDSZ) : x > at}
               later == {x \in e.bits : x > at}
           IN  /\ inWord # {} => later # {} /\ Min(inWord) = Min(later)
               /\ inWord = {} => (later # {} <=> find_next(e, b) # ElementSize /\ b # 0)
               /\ inWord = {} /\ later # {} => find_next(e, b) = Min(later)
<1> DEFINE at == n % ElementSize
           b == (n + 1) % ElementSize
           w == at \div WORDSZ
           inWord == {x \in e.bits \cap Word(w) : x > at}
           later == {x \in e.bits : x > at}
           rest == {x \in e.bits : x >= b} \cup {ElementSize}
<1>1. e.bits \in SUBSET (0..ElementSize - 1) /\ at \in 0..ElementSize - 1 /\ at \in Nat
  <2>1. e.bits \in SUBSET (0..ElementSize - 1)
    BY ElementIs
  <2>2. at \in 0..ElementSize - 1
    BY NumberIs
  <2> HIDE DEF at
  <2>3. at \in Nat
    BY <2>2, SizesAre
  <2> QED
    BY <2>1, <2>2, <2>3
<1>2. w \in Nat /\ \A x : x \in Word(w) <=> x \in Nat /\ x \div WORDSZ = w
  <2>1. w \in Nat
    BY <1>1, DivisionIs, SizesAre
  <2> HIDE DEF w
  <2> QED
    BY <2>1, WordIs
<1>3. b = IF at = ElementSize - 1 THEN 0 ELSE at + 1
  BY NextBit
<1>4. later \in SUBSET Nat /\ inWord \in SUBSET later /\ inWord \in SUBSET Nat
  BY <1>1
<1>5. ASSUME inWord # {}
      PROVE  later # {} /\ Min(inWord) = Min(later)
  <2> DEFINE k == Min(inWord)
  <2>1. k \in inWord /\ \A y \in inWord : k =< y
    BY <1>4, <1>5, LeastIs
  <2> HIDE DEF k
  <2>2. ASSUME NEW y \in later PROVE k =< y
    <3>0. y \in Nat /\ k \in Nat /\ y > at /\ y \in e.bits
      BY <1>4, <2>1
    <3>1. CASE y \in Word(w)
      BY <2>1, <3>0, <3>1
    <3>2. CASE y \notin Word(w)
      <4>1. y \div WORDSZ # w /\ k \div WORDSZ = w
        BY <1>2, <2>1, <3>0, <3>2
      <4>2. y \div WORDSZ \in Nat
        BY <3>0, DivisionIs, SizesAre
      <4>3. ~(y =< at)
        BY <1>1, <3>0
      <4>4. ~(y \div WORDSZ < w)
        BY <1>1, <3>0, <4>3, QuotientOrder, SizesAre
      <4> HIDE DEF w
      <4>5. k \div WORDSZ < y \div WORDSZ
        BY <1>2, <4>1, <4>2, <4>4
      <4> QED
        BY <3>0, <4>5, QuotientOrder, SizesAre
    <3> QED
      BY <3>1, <3>2
  <2>3. k \in later /\ later # {}
    BY <1>4, <2>1
  <2> HIDE DEF later
  <2>4. Min(later) = k
    BY <1>4, <2>2, <2>3, SameLeast
  <2> QED
    BY <2>3, <2>4 DEF k
<1>6. find_next(e, b) = Min(rest)
  BY DEF find_next
<1>7. rest \in SUBSET Nat /\ rest # {}
  BY <1>1, SizesAre
<1>8. ASSUME later # {}
      PROVE  b # 0 /\ Min(rest) = Min(later) /\ Min(rest) # ElementSize
  <2> DEFINE k == Min(later)
  <2>1. k \in later /\ \A y \in later : k =< y
    BY <1>4, <1>8, LeastIs
  <2> HIDE DEF k
  <2>2. k \in e.bits /\ k > at /\ k \in 0..ElementSize - 1
    BY <1>1, <2>1
  <2>3. b = at + 1
    BY <1>1, <1>3, <2>2, SizesAre
  <2>4. k \in rest
    BY <1>1, <2>2, <2>3
  <2>5. ASSUME NEW y \in rest PROVE k =< y
    <3>1. CASE y = ElementSize
      BY <2>2, <3>1, SizesAre
    <3>2. CASE y # ElementSize
      <4>1. y \in e.bits /\ y >= at + 1
        BY <2>3, <3>2
      <4>2. y \in later
        BY <1>1, <4>1
      <4> QED
        BY <2>1, <4>2
    <3> QED
      BY <3>1, <3>2
  <2> HIDE DEF rest
  <2>6. Min(rest) = k
    BY <1>7, <2>4, <2>5, SameLeast
  <2>7. k # ElementSize /\ b # 0
    BY <1>1, <2>2, <2>3, SizesAre
  <2> QED
    BY <2>6, <2>7 DEF k
<1>9. ASSUME later = {}, b # 0
      PROVE  Min(rest) = ElementSize
  <2>1. b = at + 1
    BY <1>3, <1>9
  <2>2. \A y \in rest : y = ElementSize
    BY <1>1, <1>9, <2>1
  <2>3. ElementSize \in rest /\ \A y \in rest : ElementSize =< y
    BY <2>2, SizesAre
  <2> HIDE DEF rest
  <2> QED
    BY <1>7, <2>3, SameLeast
<1> HIDE DEF at, b, w, inWord, later, rest
<1>10. /\ inWord # {} => later # {} /\ Min(inWord) = Min(later)
       /\ inWord = {} => (later # {} <=> find_next(e, b) # ElementSize /\ b # 0)
       /\ inWord = {} /\ later # {} => find_next(e, b) = Min(later)
  BY <1>5, <1>6, <1>8, <1>9
<1> QED
  BY <1>10 DEF at, b, w, inWord, later

LEMMA WalkBodyIs ==
    ASSUME NEW s \in ProperLists, NEW l \in WalkStates(s), NEW h
    PROVE  WalkBody(s, l, h) = IF WalkStops(s, l) THEN <<l[2]>> \o <<>>
                               ELSE <<l[2]>> \o h[WalkNext(s, l)]
<1> DEFINE e == s[l[1]]
           n == l[2]
           at == n % ElementSize
           b == (n + 1) % ElementSize
           inWord == {x \in e.bits \cap Word(at \div WORDSZ) : x > at}
           later == {x \in e.bits : x > at}
           here == e.idx * ElementSize
           next == find_next(e, b)
           further == <<l[1] + 1, s[l[1] + 1].idx * ElementSize + find_first(s[l[1] + 1])>>
<1>1. e \in Elements /\ n \in Nat
  BY ProperIs, ListIs DEF WalkStates
<1> HIDE DEF e, n
<1>2. /\ inWord # {} => later # {} /\ Min(inWord) = Min(later)
      /\ inWord = {} => (later # {} <=> next # ElementSize /\ b # 0)
      /\ inWord = {} /\ later # {} => next = Min(later)
  BY <1>1, NextInElement
<1>3. /\ WalkStops(s, l) <=> later = {} /\ l[1] = Len(s)
      /\ WalkNext(s, l) = IF later # {} THEN <<l[1], here + Min(later)>> ELSE further
  BY DEF WalkStops, WalkNext, Later, e, n
<1>4. WalkBody(s, l, h) = <<n>> \o
          (IF inWord # {} THEN h[<<l[1], here + Min(inWord)>>]
           ELSE IF next # ElementSize /\ b # 0 THEN h[<<l[1], here + next>>]
           ELSE IF l[1] = Len(s) THEN <<>>
           ELSE h[further])
  BY DEF WalkBody, e, n
<1> HIDE DEF at, b, inWord, later, here, next, further
<1>5. WalkBody(s, l, h) = IF WalkStops(s, l) THEN <<n>> \o <<>>
                          ELSE <<n>> \o h[WalkNext(s, l)]
  BY <1>2, <1>3, <1>4
<1> QED
  BY <1>5 DEF n

\* Every turn goes on in the element or to the next.
WalkSize(s) == [l \in WalkStates(s) |->
                  (Len(s) - l[1]) * ElementSize + (ElementSize - 1 - (l[2] % ElementSize))]

LEMMA WalkSizeFalls ==
    ASSUME NEW k \in Nat, NEW a \in 0..ElementSize - 1, NEW b \in 0..ElementSize - 1
    PROVE  /\ k * ElementSize + (ElementSize - 1 - a) \in Nat
           /\ a < b => k * ElementSize + (ElementSize - 1 - b) < k * ElementSize + (ElementSize - 1 - a)
           /\ (k + 1) * ElementSize = k * ElementSize + ElementSize
           /\ k * ElementSize + (ElementSize - 1 - b) < (k + 1) * ElementSize + (ElementSize - 1 - a)
<1> DEFINE x == k * ElementSize
           y == (k + 1) * ElementSize
<1>1. x \in Nat /\ y = x + ElementSize
  <2>1. y = x + ElementSize
    BY SizesAre, ProductGrows
  <2> QED
    BY <2>1, SizesAre
<1> HIDE DEF x, y
<1>2. /\ x + (ElementSize - 1 - a) \in Nat
      /\ a < b => x + (ElementSize - 1 - b) < x + (ElementSize - 1 - a)
      /\ x + (ElementSize - 1 - b) < y + (ElementSize - 1 - a)
  BY <1>1, SizesAre
<1> QED
  BY <1>1, <1>2 DEF x, y

LEMMA WalkStateIs ==
    ASSUME NEW s \in ProperLists, NEW l \in WalkStates(s)
    PROVE  /\ l[1] \in 1..Len(s) /\ l[2] \in Nat /\ l = <<l[1], l[2]>>
           /\ WalkSize(s)[l] \in Nat
           /\ ~WalkStops(s, l) => /\ WalkNext(s, l) \in WalkStates(s)
                                  /\ WalkSize(s)[WalkNext(s, l)] < WalkSize(s)[l]
<1> DEFINE p == l[1]
           n == l[2]
           a == n % ElementSize
           k == Len(s) - p
           later == Later(s, l)
<1>1. s \in Lists /\ Len(s) \in Nat /\ DOMAIN s = 1..Len(s)
  BY ProperIs, ListIs
<1>2. p \in 1..Len(s) /\ n \in Nat /\ l = <<p, n>>
  BY <1>1 DEF WalkStates
<1>3. a \in 0..ElementSize - 1
  BY <1>2, NumberIs
<1>4. k \in Nat
  BY <1>1, <1>2
<1>5. WalkSize(s)[l] = k * ElementSize + (ElementSize - 1 - a)
  BY DEF WalkSize
<1>6. WalkSize(s)[l] \in Nat
  <2> HIDE DEF k, a
  <2> QED
    BY <1>3, <1>4, <1>5, WalkSizeFalls
<1>7. ASSUME NEW q \in 1..Len(s), NEW b \in s[q].bits
      PROVE  LET m == <<q, s[q].idx * ElementSize + b>>
             IN  /\ m \in WalkStates(s) /\ b \in 0..ElementSize - 1
                 /\ WalkSize(s)[m] = (Len(s) - q) * ElementSize + (ElementSize - 1 - b)
  <2> DEFINE x == s[q].idx * ElementSize + b
             m == <<q, x>>
  <2>1. x \in Nat /\ x % ElementSize = b /\ b \in 0..ElementSize - 1
    <3>1. s[q].idx \in Nat /\ b \in 0..ElementSize - 1
      BY <1>1, ListIs
    <3> QED
      BY <3>1, QuotientIs, SizesAre
  <2> HIDE DEF x
  <2>2. m \in WalkStates(s) /\ m[1] = q /\ m[2] = x
    BY <1>1, <2>1 DEF WalkStates
  <2> HIDE DEF m
  <2>3. WalkSize(s)[m] = (Len(s) - q) * ElementSize + (ElementSize - 1 - b)
    BY <2>1, <2>2 DEF WalkSize
  <2> QED
    BY <2>1, <2>2, <2>3 DEF m, x
<1>8. CASE later # {}
  <2> DEFINE b == Min(later)
             m == <<p, s[p].idx * ElementSize + b>>
  <2>1. later \in SUBSET Nat
    <3>1. s[p].bits \in SUBSET (0..ElementSize - 1)
      BY <1>1, <1>2, ListIs
    <3> QED
      BY <3>1 DEF Later
  <2>2. b \in later
    <3> HIDE DEF later
    <3> QED
      BY <1>8, <2>1, LeastIs
  <2>3. b \in s[p].bits /\ b > a
    BY <2>2 DEF Later
  <2>4. WalkNext(s, l) = m
    BY <1>8 DEF WalkNext
  <2> HIDE DEF b
  <2>5. /\ m \in WalkStates(s) /\ b \in 0..ElementSize - 1
        /\ WalkSize(s)[m] = k * ElementSize + (ElementSize - 1 - b)
    BY <1>2, <1>7, <2>3
  <2> HIDE DEF m, k, a, p
  <2>6. a < b
    BY <1>3, <2>3, <2>5, SizesAre
  <2>7. WalkSize(s)[m] < WalkSize(s)[l]
    BY <1>3, <1>4, <1>5, <2>5, <2>6, WalkSizeFalls
  <2> QED
    BY <1>2, <1>6, <2>4, <2>5, <2>7 DEF p
<1>9. CASE later = {} /\ p # Len(s)
  <2> DEFINE q == p + 1
             b == find_first(s[q])
             m == <<q, s[q].idx * ElementSize + b>>
             j == Len(s) - q
  <2>1. q \in 1..Len(s) /\ j \in Nat /\ k = j + 1
    BY <1>1, <1>2, <1>9
  <2>2. b \in s[q].bits
    BY <2>1, FirstBitIs
  <2>3. WalkNext(s, l) = m
    BY <1>9 DEF WalkNext
  <2> HIDE DEF b, q
  <2>4. /\ m \in WalkStates(s) /\ b \in 0..ElementSize - 1
        /\ WalkSize(s)[m] = j * ElementSize + (ElementSize - 1 - b)
    BY <1>7, <2>1, <2>2
  <2> HIDE DEF m, k, j, a, p
  <2>5. WalkSize(s)[m] < WalkSize(s)[l]
    BY <1>3, <1>5, <2>1, <2>4, WalkSizeFalls
  <2> QED
    BY <1>2, <1>6, <2>3, <2>4, <2>5 DEF p
<1>10. CASE later = {} /\ p = Len(s)
  BY <1>2, <1>6, <1>10 DEF WalkStops
<1> QED
  BY <1>8, <1>9, <1>10

Numbers == Seq(Nat)

LEMMA NumbersFollow ==
    ASSUME NEW n \in Nat, NEW v \in Numbers
    PROVE  LET r == <<n>> \o v
           IN  /\ r \in Numbers /\ Len(r) = Len(v) + 1 /\ Len(v) \in Nat /\ r[1] = n
               /\ \A p \in 1..Len(v) : r[p + 1] = v[p]
BY DEF Numbers

LEMMA WalkIsLoop ==
    ASSUME NEW s \in ProperLists, s # <<>>
    PROVE  \E f :
             /\ \A l \in WalkStates(s) : f[l] = IF WalkStops(s, l) THEN <<l[2]>> \o <<>>
                                                ELSE <<l[2]>> \o f[WalkNext(s, l)]
             /\ \A p, n : BitsFrom(s, p, n) = f[<<p, n>>]
<1> DEFINE S == WalkStates(s)
           Eqn(h) == h = [l \in S |-> WalkBody(s, l, h)]
           bits == CHOOSE h : Eqn(h)
           stop == {l \in S : WalkStops(s, l)}
           base == [l \in S |-> <<l[2]>> \o <<>>]
           next == [l \in S |-> WalkNext(s, l)]
           comb == [l \in S |-> [v \in Numbers |-> <<l[2]>> \o v]]
           size == WalkSize(s)
<1>1. \A p, n : BitsFrom(s, p, n) = bits[<<p, n>>]
  BY DEF BitsFrom, WalkBody, WalkStates
<1>2. \A l \in S : /\ l \in stop <=> WalkStops(s, l)
                   /\ base[l] = <<l[2]>> \o <<>>
                   /\ next[l] = WalkNext(s, l)
                   /\ \A v \in Numbers : comb[l][v] = <<l[2]>> \o v
  OBVIOUS
<1>3. <<>> \in Numbers
  BY DEF Numbers
<1>4. \A l \in S : l[2] \in Nat
  BY WalkStateIs
<1>5. base \in [S -> Numbers] /\ comb \in [S -> [Numbers -> Numbers]]
  <2> HIDE DEF S
  <2>1. \A l \in S : \A v \in Numbers : <<l[2]>> \o v \in Numbers
    BY <1>4, NumbersFollow
  <2> QED
    BY <1>3, <2>1
<1> HIDE DEF stop, base, next, comb
<1>6. \A l \in S \ stop : next[l] \in S /\ size[next[l]] < size[l]
  BY <1>2, WalkStateIs
<1>7. \A l \in S : size[l] \in Nat
  BY WalkStateIs
<1> HIDE DEF size
<1>8. PICK h \in [S -> Numbers] :
         \A l \in S : h[l] = IF l \in stop THEN base[l] ELSE comb[l][h[next[l]]]
  <2> HIDE DEF S
  <2>1. CanLoop(S, Numbers, stop, base, next, size, comb)
    BY <1>5, <1>6, <1>7 DEF CanLoop
  <2> QED
    BY <2>1, LoopExists
<1>9. \A l \in S : h[l] = WalkBody(s, l, h)
  <2> SUFFICES ASSUME NEW l \in S PROVE h[l] = WalkBody(s, l, h)
    OBVIOUS
  <2>1. WalkBody(s, l, h) = IF WalkStops(s, l) THEN <<l[2]>> \o <<>> ELSE <<l[2]>> \o h[WalkNext(s, l)]
    BY WalkBodyIs
  <2> HIDE DEF S
  <2>2. CASE l \in stop
    BY <1>2, <1>8, <2>1, <2>2
  <2>3. CASE l \notin stop
    <3>1. next[l] \in S /\ h[next[l]] \in Numbers
      BY <1>6, <1>8, <2>3
    <3> QED
      BY <1>2, <1>8, <2>1, <2>3, <3>1
  <2> QED
    BY <2>2, <2>3
<1>10. Eqn(h)
  BY <1>9
<1>11. Eqn(bits)
  <2> HIDE DEF Eqn
  <2> QED
    BY <1>10
<1> HIDE DEF bits
<1>12. \A l \in S : bits[l] = IF WalkStops(s, l) THEN <<l[2]>> \o <<>>
                              ELSE <<l[2]>> \o bits[WalkNext(s, l)]
  <2>1. \A l \in S : bits[l] = WalkBody(s, l, bits)
    <3>1. bits = [l \in S |-> WalkBody(s, l, bits)]
      BY <1>11
    <3> QED
      BY <3>1
  <2> QED
    BY <2>1, WalkBodyIs
<1> QED
  BY <1>1, <1>12

\* A state points at a member; the next state points at the one that follows.
Points(s, l) == l[2] \in Contents(s) /\ l[2] \div ElementSize = s[l[1]].idx

LEMMA WalkStep ==
    ASSUME NEW s \in ProperLists, NEW l \in WalkStates(s), Points(s, l)
    PROVE  /\ WalkStops(s, l) => \A m \in Contents(s) : m =< l[2]
           /\ ~WalkStops(s, l) =>
                 LET k == WalkNext(s, l)
                 IN  /\ Points(s, k) /\ l[2] < k[2]
                     /\ \A m \in Contents(s) : m =< l[2] \/ k[2] =< m
<1> DEFINE p == l[1]
           n == l[2]
           a == n % ElementSize
           later == Later(s, l)
           k == WalkNext(s, l)
<1>1. s \in Lists /\ Len(s) \in Nat /\ p \in 1..Len(s) /\ n \in Nat
  BY ProperIs, ListIs, WalkStateIs
<1>2. n \in Contents(s) /\ n \div ElementSize = s[p].idx
  BY DEF Points
<1>3. Contents(s) \in SUBSET Nat
  BY <1>1, ContentsAreNumbers
<1>4. /\ \A m \in Contents(s) : \E q \in 1..Len(s) :
            s[q].idx = m \div ElementSize /\ (m % ElementSize) \in s[q].bits
      /\ \A q \in 1..Len(s) : \A b \in s[q].bits :
            /\ s[q].idx * ElementSize + b \in Contents(s)
            /\ (s[q].idx * ElementSize + b) \div ElementSize = s[q].idx
            /\ (s[q].idx * ElementSize + b) % ElementSize = b
  BY MemberIs
<1>5. \A x \in Nat, y \in Nat :
        x =< y <=> \/ x \div ElementSize < y \div ElementSize
                   \/ x \div ElementSize = y \div ElementSize /\ (x % ElementSize) =< (y % ElementSize)
  BY QuotientOrder, SizesAre
<1>6. \A q, r \in 1..Len(s) : /\ q < r => s[q].idx < s[r].idx
                              /\ s[q].idx = s[r].idx => q = r
  BY ProperIs
<1>7. \A q \in 1..Len(s) : s[q].idx \in Nat /\ s[q].bits \in SUBSET (0..ElementSize - 1)
  BY <1>1, ListIs
<1>8. a \in Nat
  <2>1. a \in 0..ElementSize - 1
    BY <1>1, NumberIs
  <2> HIDE DEF a
  <2> QED
    BY <2>1, SizesAre
<1>9. later = {b \in s[p].bits : b > a}
  BY DEF Later
<1> HIDE DEF a
<1>10. CASE later # {}
  <2> DEFINE b == Min(later)
             x == s[p].idx * ElementSize + b
  <2>1. later \in SUBSET Nat
    BY <1>1, <1>7, <1>9
  <2>2. b \in later /\ \A y \in later : b =< y
    <3> HIDE DEF later
    <3> QED
      BY <1>10, <2>1, LeastIs
  <2>3. b \in s[p].bits /\ b > a /\ b \in Nat
    BY <1>9, <2>1, <2>2
  <2>4. k = <<p, x>> /\ ~WalkStops(s, l)
    BY <1>10 DEF WalkNext, WalkStops
  <2> HIDE DEF b, later, k
  <2>5. x \in Contents(s) /\ x \div ElementSize = s[p].idx /\ x % ElementSize = b
    BY <1>1, <1>4, <2>3
  <2> HIDE DEF x
  <2>6. ASSUME NEW m \in Contents(s) PROVE m =< n \/ x =< m
    <3>1. PICK q \in 1..Len(s) : s[q].idx = m \div ElementSize /\ (m % ElementSize) \in s[q].bits
      BY <1>4
    <3>2. m \in Nat /\ n \in Nat /\ x \in Nat
      BY <1>3, <1>1, <2>5
    <3>3. CASE q = p
      <4>1. m \div ElementSize = s[p].idx /\ m % ElementSize \in s[p].bits /\ m % ElementSize \in Nat
        BY <1>1, <1>7, <3>1, <3>3
      <4>2. CASE m % ElementSize > a
        <5>1. m % ElementSize \in later
          BY <1>9, <4>1, <4>2
        <5>2. b =< m % ElementSize
          BY <2>2, <5>1
        <5> QED
          BY <1>5, <2>5, <3>2, <4>1, <5>2
      <4>3. CASE ~(m % ElementSize > a)
        <5>1. (m % ElementSize) =< (n % ElementSize)
          BY <1>8, <4>1, <4>3 DEF a
        <5> QED
          BY <1>2, <1>5, <3>2, <4>1, <5>1
      <4> QED
        BY <4>2, <4>3
    <3>4. CASE q < p
      <4>1. m \div ElementSize < n \div ElementSize
        BY <1>1, <1>2, <1>6, <3>1, <3>4
      <4> QED
        BY <1>5, <3>2, <4>1
    <3>5. CASE p < q
      <4>1. x \div ElementSize < m \div ElementSize
        BY <1>1, <1>6, <2>5, <3>1, <3>5
      <4> QED
        BY <1>5, <3>2, <4>1
    <3> QED
      BY <1>1, <3>3, <3>4, <3>5
  <2>7. n < x
    <3>1. ~(b =< a)
      BY <1>8, <2>3
    <3>2. n \in Nat /\ x \in Nat
      BY <1>1, <1>3, <2>5
    <3>3. ~(x \div ElementSize < n \div ElementSize)
      BY <1>1, <1>2, <1>7, <2>5
    <3>4. ~(x =< n)
      BY <1>5, <2>5, <3>1, <3>2, <3>3 DEF a
    <3> QED
      BY <3>2, <3>4
  <2>8. k[1] = p /\ k[2] = x
    BY <2>4
  <2>9. Points(s, k)
    BY <2>5, <2>8 DEF Points
  <2> QED
    BY <2>4, <2>6, <2>7, <2>8, <2>9 DEF k
<1>11. CASE later = {}
  <2>1. ASSUME NEW m \in Contents(s), NEW q \in 1..Len(s), s[q].idx = m \div ElementSize,
               (m % ElementSize) \in s[q].bits
        PROVE  m =< n \/ p < q
    <3>1. m \in Nat /\ n \in Nat
      BY <1>3, <1>1
    <3>2. CASE q = p
      <4>1. m % ElementSize \in Nat /\ ~(m % ElementSize > a)
        BY <1>1, <1>7, <1>9, <1>11, <2>1, <3>2
      <4>2. (m % ElementSize) =< (n % ElementSize)
        BY <1>8, <4>1 DEF a
      <4> QED
        BY <1>2, <1>5, <2>1, <3>1, <3>2, <4>2
    <3>3. CASE q < p
      <4>1. m \div ElementSize < n \div ElementSize
        BY <1>1, <1>2, <1>6, <2>1, <3>3
      <4> QED
        BY <1>5, <3>1, <4>1
    <3> QED
      BY <1>1, <3>2, <3>3
  <2>2. CASE p = Len(s)
    <3>1. WalkStops(s, l)
      BY <1>11, <2>2 DEF WalkStops
    <3>2. ASSUME NEW m \in Contents(s) PROVE m =< n
      <4>1. PICK q \in 1..Len(s) : s[q].idx = m \div ElementSize /\ (m % ElementSize) \in s[q].bits
        BY <1>4
      <4>2. ~(p < q)
        BY <1>1, <2>2
      <4> QED
        BY <2>1, <4>1, <4>2
    <3> QED
      BY <3>1, <3>2
  <2>3. CASE p # Len(s)
    <3> DEFINE r == p + 1
               b == find_first(s[r])
               x == s[r].idx * ElementSize + b
    <3>1. r \in 1..Len(s) /\ p < r
      BY <1>1, <2>3
    <3>2. k = <<r, x>> /\ ~WalkStops(s, l)
      BY <1>11, <2>3 DEF WalkNext, WalkStops
    <3>3. \A q \in 1..Len(s) : p < q => q = r \/ r < q
      BY <1>1, <3>1
    <3> HIDE DEF r, k
    <3>4. b \in s[r].bits /\ \A y \in s[r].bits : b =< y
      BY <3>1, FirstBitIs
    <3> HIDE DEF b
    <3>5. x \in Contents(s) /\ x \div ElementSize = s[r].idx /\ x % ElementSize = b
      BY <1>4, <3>1, <3>4
    <3> HIDE DEF x
    <3>6. n < x
      <4>1. n \div ElementSize < x \div ElementSize
        BY <1>1, <1>2, <1>6, <3>1, <3>5
      <4>2. n \in Nat /\ x \in Nat /\ n # x
        BY <1>1, <1>2, <1>3, <1>7, <3>1, <3>5, <4>1
      <4>3. n =< x
        BY <1>5, <4>1, <4>2
      <4> QED
        BY <4>2, <4>3
    <3>7. ASSUME NEW m \in Contents(s) PROVE m =< n \/ x =< m
      <4>1. PICK q \in 1..Len(s) : s[q].idx = m \div ElementSize /\ (m % ElementSize) \in s[q].bits
        BY <1>4
      <4>2. m \in Nat /\ x \in Nat
        BY <1>3, <3>5
      <4>3. CASE q = r
        <5>1. b =< m % ElementSize /\ m \div ElementSize = x \div ElementSize
          BY <3>4, <3>5, <4>1, <4>3
        <5> QED
          BY <1>5, <3>5, <4>2, <5>1
      <4>4. CASE r < q
        <5>1. x \div ElementSize < m \div ElementSize
          BY <1>6, <3>1, <3>5, <4>1, <4>4
        <5> QED
          BY <1>5, <4>2, <5>1
      <4>5. CASE ~(p < q)
        BY <2>1, <4>1, <4>5
      <4> QED
        BY <3>3, <4>3, <4>4, <4>5
    <3>8. k[1] = r /\ k[2] = x
      BY <3>2
    <3>9. Points(s, k)
      BY <3>5, <3>8 DEF Points
    <3> QED
      BY <3>2, <3>6, <3>7, <3>8, <3>9 DEF k
  <2> QED
    BY <2>2, <2>3
<1> QED
  BY <1>10, <1>11

\* v gives the members of S, each once and the smaller before the greater.
Enumerates(v, S) ==
    /\ v \in Numbers
    /\ \A i, j \in 1..Len(v) : i < j => v[i] < v[j]
    /\ \A m : m \in S <=> \E i \in 1..Len(v) : v[i] = m

LEMMA EnumerateFirst ==
    ASSUME NEW n \in Nat, NEW v, NEW T, Enumerates(v, T), \A m \in T : n < m
    PROVE  Enumerates(<<n>> \o v, T \cup {n})
<1> DEFINE r == <<n>> \o v
<1>1. v \in Numbers /\ Len(v) \in Nat
  BY DEF Enumerates, Numbers
<1>2. /\ r \in Numbers /\ Len(r) = Len(v) + 1 /\ r[1] = n
      /\ \A p \in 1..Len(v) : r[p + 1] = v[p]
  BY <1>1, NumbersFollow
<1>3. /\ \A i, j \in 1..Len(v) : i < j => v[i] < v[j]
      /\ \A m : m \in T <=> \E i \in 1..Len(v) : v[i] = m
  BY DEF Enumerates
<1> HIDE DEF r
<1>4. \A p \in 1..Len(r) : p = 1 \/ (p - 1 \in 1..Len(v) /\ r[p] = v[p - 1])
  <2> SUFFICES ASSUME NEW p \in 1..Len(r), p # 1 PROVE p - 1 \in 1..Len(v) /\ r[p] = v[p - 1]
    OBVIOUS
  <2>1. p - 1 \in 1..Len(v) /\ (p - 1) + 1 = p
    BY <1>1, <1>2
  <2> QED
    BY <1>2, <2>1
<1>5. ASSUME NEW i \in 1..Len(r), NEW j \in 1..Len(r), i < j
      PROVE  r[i] < r[j]
  <2>1. j - 1 \in 1..Len(v) /\ r[j] = v[j - 1]
    BY <1>1, <1>2, <1>4, <1>5
  <2>2. CASE i = 1
    BY <1>2, <1>3, <2>1, <2>2
  <2>3. CASE i # 1
    <3>1. i - 1 \in 1..Len(v) /\ r[i] = v[i - 1]
      BY <1>4, <2>3
    <3>2. i - 1 < j - 1
      BY <1>1, <1>2, <1>5
    <3> QED
      BY <1>3, <2>1, <3>1, <3>2
  <2> QED
    BY <2>2, <2>3
<1>6. ASSUME NEW m \in T \cup {n} PROVE \E i \in 1..Len(r) : r[i] = m
  <2>1. CASE m = n
    <3>1. 1 \in 1..Len(r)
      BY <1>1, <1>2
    <3> QED
      BY <1>2, <2>1, <3>1
  <2>2. CASE m \in T
    <3>1. PICK i \in 1..Len(v) : v[i] = m
      BY <1>3, <2>2
    <3>2. i + 1 \in 1..Len(r)
      BY <1>1, <1>2
    <3> QED
      BY <1>2, <3>1, <3>2
  <2> QED
    BY <2>1, <2>2
<1>7. ASSUME NEW i \in 1..Len(r) PROVE r[i] \in T \cup {n}
  BY <1>2, <1>3, <1>4
<1>8. Enumerates(r, T \cup {n})
  BY <1>2, <1>5, <1>6, <1>7 DEF Enumerates
<1> QED
  BY <1>8 DEF r

LEMMA WalkIs ==
    ASSUME NEW s \in ProperLists, s # <<>>
    PROVE  Enumerates(BitsFrom(s, 1, FindFirst(s)), Contents(s))
<1> DEFINE S == WalkStates(s)
           size == WalkSize(s)
           From(l) == {m \in Contents(s) : m >= l[2]}
<1>1. PICK f : /\ \A l \in S : f[l] = IF WalkStops(s, l) THEN <<l[2]>> \o <<>>
                                      ELSE <<l[2]>> \o f[WalkNext(s, l)]
               /\ \A p, n : BitsFrom(s, p, n) = f[<<p, n>>]
  BY WalkIsLoop
<1> DEFINE Good == {l \in S : Points(s, l) => Enumerates(f[l], From(l))}
<1>2. Contents(s) \in SUBSET Nat
  BY ProperIs, ContentsAreNumbers
<1>3. \A l \in S : size[l] \in Nat
  BY WalkStateIs
<1>4. ASSUME NEW l \in S, \A k \in S : size[k] < size[l] => k \in Good, Points(s, l)
      PROVE  Enumerates(f[l], From(l))
  <2>1. l[2] \in Nat /\ l[2] \in Contents(s)
    BY <1>2, <1>4 DEF Points
  <2>2. CASE WalkStops(s, l)
    <3>1. f[l] = <<l[2]>> \o <<>>
      BY <1>1, <2>2
    <3>2. Enumerates(<<>>, {})
      <4>1. <<>> \in Numbers /\ Len(<<>>) = 0
        BY DEF Numbers
      <4>2. \A i \in 1..Len(<<>>) : FALSE
        BY <4>1
      <4> QED
        BY <4>1, <4>2 DEF Enumerates
    <3>3. Enumerates(<<l[2]>> \o <<>>, {} \cup {l[2]})
      BY <2>1, <3>2, EnumerateFirst
    <3>4. \A m \in Contents(s) : m =< l[2]
      BY <1>4, <2>2, WalkStep
    <3>5. From(l) = {} \cup {l[2]}
      BY <1>2, <2>1, <3>4
    <3> HIDE DEF From, S
    <3> QED
      BY <3>1, <3>3, <3>5
  <2>3. CASE ~WalkStops(s, l)
    <3> DEFINE k == WalkNext(s, l)
    <3>1. f[l] = <<l[2]>> \o f[k]
      BY <1>1, <2>3
    <3>2. k \in S /\ size[k] < size[l]
      BY <2>3, WalkStateIs
    <3>3. /\ Points(s, k) /\ l[2] < k[2]
          /\ \A m \in Contents(s) : m =< l[2] \/ k[2] =< m
      BY <1>4, <2>3, WalkStep
    <3> HIDE DEF k, size
    <3>4. Enumerates(f[k], From(k))
      <4>1. k \in Good
        BY <1>4, <3>2
      <4> QED
        BY <3>3, <4>1
    <3>5. k[2] \in Nat
      BY <1>2, <3>3 DEF Points
    <3>6. \A m \in From(k) : l[2] < m
      BY <1>2, <2>1, <3>3, <3>5
    <3>7. From(l) = From(k) \cup {l[2]}
      <4>1. \A m \in Contents(s) : m >= l[2] <=> m >= k[2] \/ m = l[2]
        <5> SUFFICES ASSUME NEW m \in Contents(s) PROVE m >= l[2] <=> m >= k[2] \/ m = l[2]
          OBVIOUS
        <5>1. m \in Nat /\ (m =< l[2] \/ k[2] =< m)
          BY <1>2, <3>3
        <5> QED
          BY <2>1, <3>3, <3>5, <5>1
      <4> QED
        BY <2>1, <4>1
    <3> HIDE DEF From
    <3>8. Enumerates(<<l[2]>> \o f[k], From(k) \cup {l[2]})
      BY <2>1, <3>4, <3>6, EnumerateFirst
    <3> QED
      BY <3>1, <3>7, <3>8
  <2> QED
    BY <2>2, <2>3
<1>5. S \subseteq Good
  <2>1. ASSUME NEW l \in S, \A k \in S : size[k] < size[l] => k \in Good
        PROVE  l \in Good
    BY <1>4, <2>1
  <2> HIDE DEF S, size, Good
  <2> QED
    BY <1>3, <2>1, Descent
<1> DEFINE n == FindFirst(s)
           l == <<1, n>>
<1>6. /\ 1 \in 1..Len(s) /\ n \in Contents(s) /\ n \div ElementSize = s[1].idx
      /\ \A m \in Contents(s) : n =< m
  BY FindFirstIs
<1> HIDE DEF n
<1>7. l \in S /\ l[1] = 1 /\ l[2] = n
  <2>1. n \in Nat /\ DOMAIN s = 1..Len(s)
    BY <1>2, <1>6, ProperIs, ListIs
  <2> QED
    BY <1>6, <2>1 DEF WalkStates
<1>8. Points(s, l)
  BY <1>6, <1>7 DEF Points
<1>9. From(l) = Contents(s)
  BY <1>2, <1>6, <1>7
<1> HIDE DEF l, From, S
<1>10. Enumerates(f[l], Contents(s))
  BY <1>5, <1>7, <1>8, <1>9
<1> QED
  BY <1>1, <1>10 DEF l, n

\* Two lists of the same numbers, both in order, are the same.
LEMMA SameOrder ==
    ASSUME NEW k \in Nat, NEW v \in [1..k -> Nat], NEW w \in [1..k -> Nat],
           \A i, j \in 1..k : i < j => v[i] < v[j],
           \A i, j \in 1..k : i < j => w[i] < w[j],
           \A i \in 1..k : \E j \in 1..k : v[i] = w[j],
           \A i \in 1..k : \E j \in 1..k : w[i] = v[j]
    PROVE  v = w
<1> DEFINE T == {i \in 1..k : v[i] # w[i]}
<1>1. ASSUME T # {} PROVE FALSE
  <2>1. T \subseteq Nat
    OBVIOUS
  <2>2. PICK i \in T : \A j \in T : i =< j
    <3> HIDE DEF T
    <3> QED
      BY <1>1, <2>1, LeastNumber
  <2>3. i \in 1..k /\ v[i] # w[i] /\ v[i] \in Nat /\ w[i] \in Nat
    OBVIOUS
  <2>4. \A j \in 1..k : j < i => v[j] = w[j]
    <3> SUFFICES ASSUME NEW j \in 1..k, j < i, v[j] # w[j] PROVE FALSE
      OBVIOUS
    <3>1. i =< j
      BY <2>2
    <3> QED
      BY <2>3, <3>1
  <2>5. CASE v[i] < w[i]
    <3>1. PICK j \in 1..k : v[i] = w[j]
      BY <2>3
    <3>2. j < i
      <4>1. i < j => w[i] < w[j]
        BY <2>3
      <4>2. w[j] \in Nat /\ i # j
        BY <2>5, <3>1, <2>3
      <4>3. v[i] < w[i] /\ w[j] = v[i] /\ i \in Nat /\ j \in Nat
        BY <2>3, <2>5, <3>1
      <4>4. ~(i < j)
        BY <2>3, <4>1, <4>2, <4>3
      <4> QED
        BY <4>2, <4>3, <4>4
    <3>3. v[j] = v[i] /\ v[j] < v[i]
      BY <2>3, <2>4, <3>1, <3>2
    <3> QED
      BY <2>3, <3>3
  <2>6. CASE w[i] < v[i]
    <3>1. PICK j \in 1..k : w[i] = v[j]
      BY <2>3
    <3>2. j < i
      <4>1. i < j => v[i] < v[j]
        BY <2>3
      <4>2. v[j] \in Nat /\ i # j
        BY <2>6, <3>1, <2>3
      <4>3. w[i] < v[i] /\ v[j] = w[i] /\ i \in Nat /\ j \in Nat
        BY <2>3, <2>6, <3>1
      <4>4. ~(i < j)
        BY <2>3, <4>1, <4>2, <4>3
      <4> QED
        BY <4>2, <4>3, <4>4
    <3>3. w[j] = w[i] /\ w[j] < w[i]
      BY <2>3, <2>4, <3>1, <3>2
    <3> QED
      BY <2>3, <3>3
  <2> QED
    BY <2>3, <2>5, <2>6
<1>2. \A i \in 1..k : v[i] = w[i]
  BY <1>1
<1> QED
  BY <1>2

\* The set's operators are those of the bitmap.
LEMMA SameOperators ==
    ASSUME NEW S
    PROVE  Abstract!Cardinality(S) = Cardinality(S) /\ Abstract!Min(S) = Min(S)
BY DEF Abstract!Cardinality, Cardinality, Abstract!IsFiniteSet, IsFiniteSet, Abstract!Min, Min

\* So a set is enumerated in one way, which is what the walk promises.
LEMMA SortedIs ==
    ASSUME NEW S \in SUBSET Nat, NEW v, Enumerates(v, S)
    PROVE  Abstract!Sorted(S) = v
<1> DEFINE k == Len(v)
<1>1. /\ k \in Nat /\ v \in [1..k -> Nat]
      /\ \A i, j \in 1..k : i < j => v[i] < v[j]
      /\ \A m : m \in S <=> \E i \in 1..k : v[i] = m
  BY DEF Enumerates, Numbers
<1> HIDE DEF k
<1>2. ASSUME NEW w \in [1..k -> Nat], \A i, j \in 1..k : i < j => w[i] < w[j],
             NEW i \in 1..k, NEW j \in 1..k, w[i] = w[j]
      PROVE  i = j
  <2>1. i \in Nat /\ j \in Nat /\ w[i] \in Nat /\ w[j] \in Nat
    BY <1>1
  <2>2. (i < j => w[i] < w[j]) /\ (j < i => w[j] < w[i])
    BY <1>2
  <2> QED
    BY <1>2, <2>1, <2>2
<1>3. v \in [1..k -> S]
  BY <1>1
<1>4. v \in Bijection(1..k, S)
  <2>1. \A i, j \in 1..k : v[i] = v[j] => i = j
    BY <1>1, <1>2
  <2>2. \A m \in S : \E i \in 1..k : v[i] = m
    BY <1>1
  <2> QED
    BY <1>3, <2>1, <2>2 DEF Bijection, Injection, Surjection, IsInjective
<1>5. IsFiniteSet(S) /\ Cardinality(S) = k
  BY <1>1, <1>4, FS_CountingElements, FS_NatBijection DEF ExistsBijection
<1>6. IsFiniteSet(1..k) /\ Cardinality(1..k) = k
  <2>1. 1 \in Int /\ k \in Int /\ (IF 1 > k THEN 0 ELSE k - 1 + 1) = k
    BY <1>1
  <2> QED
    BY <2>1, FS_Interval
<1>7. ASSUME NEW w \in [1..k -> S], \A i, j \in 1..k : i < j => w[i] < w[j]
      PROVE  v = w
  <2>1. w \in [1..k -> Nat]
    OBVIOUS
  <2>2. \A i, j \in 1..k : w[i] = w[j] => i = j
    BY <1>2, <1>7, <2>1
  <2>3. w \in Injection(1..k, S)
    BY <2>2 DEF Injection, IsInjective
  <2>4. w \in Surjection(1..k, S)
    BY <1>5, <1>6, <2>3, FS_Injection
  <2>5. \A i \in 1..k : \E j \in 1..k : v[i] = w[j]
    BY <1>3, <2>4 DEF Surjection
  <2>6. \A i \in 1..k : \E j \in 1..k : w[i] = v[j]
    BY <1>1
  <2> QED
    BY <1>1, <1>7, <2>1, <2>5, <2>6, SameOrder
<1> DEFINE InOrder(w) == \A i, j \in 1..k : i < j => w[i] < w[j]
<1>8. Abstract!Sorted(S) = CHOOSE w \in [1..k -> S] : InOrder(w)
  BY <1>5, SameOperators DEF Abstract!Sorted
<1>9. InOrder(v) /\ \A w \in [1..k -> S] : InOrder(w) => v = w
  BY <1>1, <1>7
<1> HIDE DEF InOrder
<1> QED
  BY <1>3, <1>8, <1>9

LEMMA WalkedIs ==
    ASSUME NEW s \in ProperLists
    PROVE  (IF s = <<>> THEN <<>> ELSE BitsFrom(s, 1, FindFirst(s))) = Abstract!Sorted(Contents(s))
<1>1. Contents(s) \in SUBSET Nat
  BY ProperIs, ContentsAreNumbers
<1>2. CASE s = <<>>
  <2>1. <<>> \in Numbers /\ Len(<<>>) = 0
    BY DEF Numbers
  <2>2. \A i \in 1..Len(<<>>) : FALSE
    BY <2>1
  <2>3. Enumerates(<<>>, Contents(s))
    BY <1>2, <2>1, <2>2, EmptyHolds DEF Enumerates
  <2> QED
    BY <1>1, <1>2, <2>3, SortedIs
<1>3. CASE s # <<>>
  BY <1>1, <1>3, WalkIs, SortedIs
<1> QED
  BY <1>2, <1>3

--------------------------------------------------------------------------------
(* The bitmap does and returns what the set of numbers does.                    *)

LEMMA AbsInit == Init => Abstract!Init
BY EmptyHolds DEF Init, Abstract!Init, idle, Abstract!idle

\* The set becomes S, and v is returned.
Makes(S, v) == Contents(els)' = S /\ ret' = v

LEMMA LeavesMakes ==
    ASSUME NEW S, Leaves(S), NEW v, ret' = v
    PROVE  Makes(S, v)
BY DEF Leaves, Makes, Contents, ToSet

\* The operations with a number.
LEMMA NumberStep ==
    ASSUME IInv, NEW n \in Bits, Test(n) \/ Reset(n) \/ Set(n) \/ TestAndSet(n)
    PROVE  Abstract!Call
<1> DEFINE C == Contents(els)
<1>1. n \in Nat
  BY BitsAssumption
<1>2. CASE Test(n)
  <2>1. Makes(C, <<"test", n \in C>>)
    BY <1>1, <1>2, TestLeaves, LeavesMakes
  <2> QED
    BY <2>1 DEF Makes, Abstract!Call, Abstract!Answer
<1>3. CASE Reset(n)
  <2>1. Makes(C \ {n}, <<"reset", none>>)
    BY <1>1, <1>3, ResetLeaves, LeavesMakes
  <2> QED
    BY <2>1 DEF Makes, Abstract!Call, Abstract!Silently
<1>4. CASE Set(n)
  <2>1. Makes(C \cup {n}, <<"set", none>>)
    BY <1>1, <1>4, SetLeaves, LeavesMakes
  <2> QED
    BY <2>1 DEF Makes, Abstract!Call, Abstract!Silently
<1>5. CASE TestAndSet(n)
  <2>1. Makes(C \cup {n}, <<"test_and_set", C \cup {n} # C>>)
    BY <1>1, <1>5, TestAndSetLeaves, LeavesMakes
  <2> QED
    BY <2>1 DEF Makes, Abstract!Call, Abstract!Become
<1> QED
  BY <1>2, <1>3, <1>4, <1>5

\* Those with another bitmap.
LEMMA OtherStep ==
    ASSUME IInv, NEW R \in Others, NEW t \in {Build(R)},
           OrWith(t) \/ Without(t) \/ Equal(t) \/ IntersectsWith(t)
    PROVE  Abstract!Call
<1> DEFINE C == Contents(els)
<1>1. t \in ProperLists /\ Contents(t) = R /\ els \in ProperLists
  BY OtherIs DEF IInv
<1>2. CASE OrWith(t)
  <2>1. Makes(C \cup R, <<"or", C \cup R # C>>)
    BY <1>1, <1>2, OrLeaves, LeavesMakes
  <2> QED
    BY <2>1 DEF Makes, Abstract!Call, Abstract!Become
<1>4. CASE Without(t)
  <2>1. Makes(C \ R, <<"without", C \ R # C>>)
    BY <1>1, <1>4, WithoutLeaves, LeavesMakes
  <2> QED
    BY <2>1 DEF Makes, Abstract!Call, Abstract!Become
<1>5. CASE Equal(t)
  <2>1. (els = t) = (C = R)
    BY <1>1, ContentsDetermine
  <2>2. Leaves(C) /\ ret' = <<"equal", C = R>>
    BY <1>5, <2>1, AnswerLeaves DEF Equal
  <2>3. Makes(C, <<"equal", C = R>>)
    BY <2>2, LeavesMakes
  <2> QED
    BY <2>3 DEF Makes, Abstract!Call, Abstract!Answer
<1>6. CASE IntersectsWith(t)
  <2>1. Intersects(els, t) = (C \cap R # {})
    BY <1>1, ContentsOf
  <2>2. Leaves(C) /\ ret' = <<"intersects", C \cap R # {}>>
    BY <1>6, <2>1, AnswerLeaves DEF IntersectsWith
  <2>3. Makes(C, <<"intersects", C \cap R # {}>>)
    BY <2>2, LeavesMakes
  <2> QED
    BY <2>3 DEF Makes, Abstract!Call, Abstract!Answer
<1> QED
  BY <1>2, <1>4, <1>5, <1>6

LEMMA FillStep ==
    ASSUME NEW R \in Others, NEW S \in Others, Fill(Build(R), Build(S))
    PROVE  Abstract!Call
<1>1. Makes(R \ S, <<"fill", none>>)
  BY OtherIs, FillLeaves, LeavesMakes
<1> QED
  BY <1>1 DEF Makes, Abstract!Call, Abstract!Silently

\* Those without an argument.
LEMMA PlainStep ==
    ASSUME IInv, Clear \/ First \/ Count \/ Single \/ Walk
    PROVE  Abstract!Call
<1> DEFINE C == Contents(els)
<1>0. els \in ProperLists
  BY DEF IInv
<1>1. \A S : Abstract!Cardinality(S) = Cardinality(S) /\ Abstract!Min(S) = Min(S)
  BY SameOperators
<1>2. CASE Clear
  <2>1. Makes({}, <<"clear", none>>)
    BY <1>2, ClearLeaves, LeavesMakes
  <2> QED
    BY <2>1 DEF Makes, Abstract!Call, Abstract!Silently
<1>3. CASE First
  <2>1. FindFirst(els) = IF C = {} THEN -1 ELSE Abstract!Min(C)
    BY <1>0, <1>1, FindFirstIs
  <2>2. Makes(C, <<"find_first", IF C = {} THEN -1 ELSE Abstract!Min(C)>>)
    BY <1>3, <2>1, AnswerLeaves, LeavesMakes DEF First
  <2> QED
    BY <2>2 DEF Makes, Abstract!Call, Abstract!Answer
<1>4. CASE Count
  <2>1. BitCount[els] = Abstract!Cardinality(C)
    BY <1>0, <1>1, CountIs
  <2>2. Makes(C, <<"count", Abstract!Cardinality(C)>>)
    BY <1>4, <2>1, AnswerLeaves, LeavesMakes DEF Count
  <2> QED
    BY <2>2 DEF Makes, Abstract!Call, Abstract!Answer
<1>5. CASE Single
  <2>1. (Len(els) = 1 /\ Cardinality(els[1].bits) = 1) = (Abstract!Cardinality(C) = 1)
    BY <1>0, <1>1, SingleIs
  <2>2. Makes(C, <<"single", Abstract!Cardinality(C) = 1>>)
    BY <1>5, <2>1, AnswerLeaves, LeavesMakes DEF Single
  <2> QED
    BY <2>2 DEF Makes, Abstract!Call, Abstract!Answer
<1>6. CASE Walk
  <2>1. (IF els = <<>> THEN <<>> ELSE BitsFrom(els, 1, FindFirst(els))) = Abstract!Sorted(C)
    BY <1>0, WalkedIs
  <2>2. Makes(C, <<"walk", Abstract!Sorted(C)>>)
    BY <1>6, <2>1, AnswerLeaves, LeavesMakes DEF Walk
  <2> QED
    BY <2>2 DEF Makes, Abstract!Call, Abstract!Answer
<1> QED
  BY <1>2, <1>3, <1>4, <1>5, <1>6

LEMMA AbsStep == IInv /\ [Next]_vars => [Abstract!Next]_<<Contents(els), ret>>
<1> SUFFICES ASSUME IInv, [Next]_vars PROVE [Abstract!Next]_<<Contents(els), ret>>
  OBVIOUS
<1>1. idle = Abstract!idle
  BY DEF idle, Abstract!idle
<1>2. CASE Call
  <2>1. ret = idle
    BY <1>2 DEF Call
  <2>2. Abstract!Call
    BY <1>2, NumberStep, OtherStep, FillStep, PlainStep DEF Call
  <2> QED
    BY <1>1, <2>1, <2>2 DEF Abstract!Next
<1>3. CASE Return
  <2>1. ret # idle /\ ret' = idle /\ Contents(els)' = Contents(els)
    BY <1>3 DEF Return
  <2> QED
    BY <1>1, <2>1 DEF Abstract!Next
<1>4. CASE UNCHANGED vars
  <2>1. ret' = ret /\ Contents(els)' = Contents(els)
    BY <1>4 DEF vars
  <2> QED
    BY <2>1
<1> QED
  BY <1>2, <1>3, <1>4 DEF Next

\* Whatever is called, in any order and with any other bitmaps, a MySparseBitVector holds
\* the set of numbers that a set of numbers would, and returns what it would: searches
\* from wherever the cursor is left, the loops over two lists, the count and the walk of
\* the iterator.
THEOREM Refinement == Spec => ImplementsBitSet
BY AbsInit, AbsStep, IInvHolds, PTL DEF Spec, Abstract!Spec, ImplementsBitSet
================================================================================
