----------------------------- MODULE SharedProofs -----------------------------
(* Facts that the proofs of several components rest on: sets that grow by rounds, *)
(* folds over finite sets, the least solution of constraints, and reachability    *)
(* in a dependence graph with the work list that finds it.                        *)
EXTENDS DependenceGraph, InclusionConstraints, FiniteSetTheorems, WellFoundedInduction, TLAPS

(* Finite sets, and subsets of them that grow.                                 *)

\* A set of subsets of a finite set has a smallest member.
LEMMA SmallestMember ==
    ASSUME NEW N, IsFiniteSet(N), NEW SS \in SUBSET (SUBSET N), SS # {}
    PROVE  \E X \in SS : \A Y \in SS : Y \subseteq X => Y = X
<1>1. IsWellFoundedOn(StrictSubsetOrdering(N), SUBSET N)
  BY FS_StrictSubsetOrderingWellFounded, FS_FiniteSubsetsOfFinite
<1>2. PICK X \in SS : \A Y \in SS : <<Y, X>> \notin StrictSubsetOrdering(N)
  BY <1>1, WFMin
<1>3. ASSUME NEW Y \in SS, Y \subseteq X, Y # X
      PROVE  FALSE
  BY <1>2, <1>3 DEF StrictSubsetOrdering
<1> QED
  BY <1>3

\* ... and a largest one.
LEMMA LargestMember ==
    ASSUME NEW N, IsFiniteSet(N), NEW SS \in SUBSET (SUBSET N), SS # {}
    PROVE  \E X \in SS : \A Y \in SS : X \subseteq Y => Y = X
<1> DEFINE CC == {N \ X : X \in SS}
<1>1. PICK C \in CC : \A D \in CC : D \subseteq C => D = C
  <2>1. CC \in SUBSET (SUBSET N)
    OBVIOUS
  <2>2. PICK X \in SS : N \ X \in CC
    OBVIOUS
  <2> HIDE DEF CC
  <2> QED
    BY <2>1, <2>2, SmallestMember
<1>2. PICK X \in SS : C = N \ X
  OBVIOUS
<1>3. ASSUME NEW Y \in SS, X \subseteq Y
      PROVE  Y = X
  <2>1. N \ Y \in CC /\ N \ Y \subseteq N \ X
    BY <1>3
  <2>2. N \ Y = N \ X
    BY <1>1, <1>2, <2>1
  <2> QED
    BY <2>2
<1> QED
  BY <1>3

\* grow lets a subset of N grow by F, which is monotonic, until nothing is new.
GrowsBy(N, F, grow) ==
    /\ F \in [SUBSET N -> SUBSET N]
    /\ \A T \in SUBSET N : T \subseteq F[T]
    /\ \A T \in SUBSET N, U \in SUBSET N : T \subseteq U => F[T] \subseteq F[U]
    /\ \A T \in SUBSET N : grow[T] = IF F[T] = T THEN T ELSE grow[F[T]]

\* grow yields the least set around the one it starts from to which F adds nothing.
EndsInLeast(N, F, grow) ==
    \A S \in SUBSET N :
        /\ grow[S] \in SUBSET N
        /\ S \subseteq grow[S]
        /\ F[grow[S]] = grow[S]
        /\ \A T \in SUBSET N : S \subseteq T /\ F[T] = T => grow[S] \subseteq T

\* On a finite set the growth ends, by induction on how much is left to be found.
LEMMA GrowthEnds ==
    ASSUME NEW N, IsFiniteSet(N), NEW F, NEW grow, GrowsBy(N, F, grow)
    PROVE  EndsInLeast(N, F, grow)
<1> DEFINE Good(S) == /\ grow[S] \in SUBSET N
                      /\ S \subseteq grow[S]
                      /\ F[grow[S]] = grow[S]
                      /\ \A T \in SUBSET N : S \subseteq T /\ F[T] = T => grow[S] \subseteq T
           Bad == {S \in SUBSET N : ~Good(S)}
<1> USE DEF GrowsBy
<1>1. SUFFICES ASSUME Bad # {} PROVE FALSE
  BY DEF EndsInLeast
<1>2. PICK S \in Bad : \A Y \in Bad : S \subseteq Y => Y = S
  <2> HIDE DEF Good
  <2>1. Bad \in SUBSET (SUBSET N)
    OBVIOUS
  <2> HIDE DEF Bad
  <2> QED
    BY <1>1, <2>1, LargestMember
<1>3. F[S] # S
  <2> SUFFICES ASSUME F[S] = S PROVE FALSE
    OBVIOUS
  <2>1. grow[S] = S
    OBVIOUS
  <2> QED
    BY <2>1
<1>4. Good(F[S])
  <2> HIDE DEF Good
  <2> QED
    BY <1>2, <1>3
<1>5. grow[S] = grow[F[S]]
  BY <1>3
<1>6. ASSUME NEW T \in SUBSET N, S \subseteq T, F[T] = T
      PROVE  grow[S] \subseteq T
  <2>1. F[S] \subseteq T
    BY <1>6
  <2> QED
    BY <1>4, <1>5, <1>6, <2>1
<1> QED
  BY <1>4, <1>5, <1>6

\* Such a function exists, so that the one a recursive definition names is one.
Rounds(N, F, g) == g = [T \in SUBSET N |-> IF F[T] = T THEN T ELSE g[F[T]]]

LEMMA GrowthExists ==
    ASSUME NEW N, NEW F \in [SUBSET N -> SUBSET N],
           \A T \in SUBSET N : T \subseteq F[T],
           \A T \in SUBSET N, U \in SUBSET N : T \subseteq U => F[T] \subseteq F[U]
    PROVE  \E g : Rounds(N, F, g)
<1> DEFINE Least(T) == {b \in N : \A U \in SUBSET N : T \subseteq U /\ F[U] = U => b \in U}
           g == [T \in SUBSET N |-> Least(T)]
<1>1. ASSUME NEW T \in SUBSET N
      PROVE  Least(T) = IF F[T] = T THEN T ELSE Least(F[T])
  <2>1. CASE F[T] = T
    BY <2>1
  <2>2. CASE F[T] # T
    <3>1. ASSUME NEW U \in SUBSET N, F[U] = U
          PROVE  T \subseteq U <=> F[T] \subseteq U
      BY <3>1
    <3> QED
      BY <2>2, <3>1
  <2> QED
    BY <2>1, <2>2
<1>2. \A T \in SUBSET N : g[T] = Least(T)
  OBVIOUS
<1>3. g = [T \in SUBSET N |-> IF F[T] = T THEN T ELSE g[F[T]]]
  BY <1>1, <1>2
<1> QED
  BY <1>3 DEF Rounds

-----------------------------------------------------------------------------
(* Folding over a finite set S: pick takes a member out of every subset of S that *)
(* has one, and what the fold makes of the subset comes from that member and what *)
(* it makes of the rest.                                                          *)

Picks(S, pick) == \A s \in SUBSET S : s # {} => pick[s] \in s

\* The members of S are taken one by one, by steps from a value in A to another.
CanFold(S, pick, A, base, step) ==
    IsFiniteSet(S) /\ Picks(S, pick) /\ base \in A /\ step \in [A \X S -> A]

\* g has what the steps make of base, for every subset of S.
FoldsTo(S, pick, A, base, step, g) ==
    /\ g \in [SUBSET S -> A]
    /\ g[{}] = base
    /\ \A s \in SUBSET S : s # {} => g[s] = step[<<g[s \ {pick[s]}], pick[s]>>]

\* There is such a fold.
LEMMA FoldExists ==
    ASSUME NEW S, NEW pick, NEW A, NEW base, NEW step, CanFold(S, pick, A, base, step)
    PROVE  \E g : FoldsTo(S, pick, A, base, step, g)
<1> DEFINE Before(s) == s \ {pick[s]}
           Complete(Q) == /\ <<{}, base>> \in Q
                        /\ \A s \in SUBSET S, a \in A :
                              s # {} /\ <<Before(s), a>> \in Q => <<s, step[<<a, pick[s]>>]>> \in Q
           R == {p \in (SUBSET S) \X A : \A Q \in SUBSET ((SUBSET S) \X A) : Complete(Q) => p \in Q}
           Unique(s) == \E a \in A : <<s, a>> \in R /\ \A b \in A : <<s, b>> \in R => b = a
           Bad == {s \in SUBSET S : ~Unique(s)}
<1>0. IsFiniteSet(S) /\ base \in A /\ step \in [A \X S -> A]
  BY DEF CanFold
<1>1. \A s \in SUBSET S : s # {} => pick[s] \in s /\ pick[s] \in S /\ Before(s) \in SUBSET S
  BY DEF CanFold, Picks
<1>2. Complete(R)
  <2>1. <<{}, base>> \in R
    BY <1>0
  <2>2. ASSUME NEW s \in SUBSET S, NEW a \in A, s # {}, <<Before(s), a>> \in R
        PROVE  <<s, step[<<a, pick[s]>>]>> \in R
    <3>1. step[<<a, pick[s]>>] \in A
      BY <1>0, <1>1, <2>2
    <3>2. ASSUME NEW Q \in SUBSET ((SUBSET S) \X A), Complete(Q)
          PROVE  <<s, step[<<a, pick[s]>>]>> \in Q
      BY <2>2, <3>2
    <3> QED
      BY <3>1, <3>2
  <2> QED
    BY <2>1, <2>2
<1>3. ASSUME NEW Q \in SUBSET ((SUBSET S) \X A), Complete(Q)
      PROVE  R \subseteq Q
  BY <1>3
<1>4. R \in SUBSET ((SUBSET S) \X A)
  OBVIOUS
<1> HIDE DEF R
<1>5. Unique({})
  <2>1. ASSUME NEW b \in A, <<{}, b>> \in R, b # base
        PROVE  FALSE
    <3> DEFINE Q == R \ {<<{}, b>>}
    <3>1. Complete(Q)
      BY <1>2, <2>1
    <3> QED
      BY <1>3, <1>4, <2>1, <3>1
  <2> QED
    BY <1>0, <1>2, <2>1
<1>6. ASSUME NEW s \in SUBSET S, s # {}, Unique(Before(s))
      PROVE  Unique(s)
  <2>1. PICK a \in A : <<Before(s), a>> \in R /\ \A b \in A : <<Before(s), b>> \in R => b = a
    BY <1>6
  <2> DEFINE v == step[<<a, pick[s]>>]
  <2>2. v \in A /\ <<s, v>> \in R
    BY <1>0, <1>1, <1>2, <1>6, <2>1
  <2>3. ASSUME NEW b \in A, <<s, b>> \in R, b # v
        PROVE  FALSE
    <3> DEFINE Q == R \ {<<s, b>>}
    <3>1. <<{}, base>> \in Q
      BY <1>2, <1>6
    <3>2. ASSUME NEW t \in SUBSET S, NEW c \in A, t # {}, <<Before(t), c>> \in Q
          PROVE  <<t, step[<<c, pick[t]>>]>> \in Q
      <4>1. <<t, step[<<c, pick[t]>>]>> \in R
        BY <1>2, <3>2
      <4>2. CASE t = s
        BY <2>1, <2>3, <3>2, <4>1, <4>2
      <4>3. CASE t # s
        BY <4>1, <4>3
      <4> QED
        BY <4>2, <4>3
    <3>3. Complete(Q)
      BY <3>1, <3>2
    <3> HIDE DEF Complete
    <3> QED
      BY <1>3, <1>4, <2>3, <3>3
  <2> QED
    BY <2>2, <2>3
<1> HIDE DEF Unique, Complete
<1>7. \A s \in SUBSET S : Unique(s)
  <2> SUFFICES ASSUME Bad # {} PROVE FALSE
    OBVIOUS
  <2>1. Bad \in SUBSET (SUBSET S)
    OBVIOUS
  <2> HIDE DEF Bad
  <2>2. PICK s \in Bad : \A t \in Bad : t \subseteq s => t = s
    BY <1>0, <2>1, SmallestMember
  <2> USE DEF Bad
  <2>3. s # {}
    BY <1>5
  <2>4. Before(s) \notin Bad
    BY <1>1, <2>2, <2>3
  <2> QED
    BY <1>1, <1>6, <2>3, <2>4
<1> DEFINE g == [s \in SUBSET S |-> CHOOSE a \in A : <<s, a>> \in R]
<1>8. \A s \in SUBSET S : g[s] \in A /\ <<s, g[s]>> \in R /\ \A b \in A : <<s, b>> \in R => b = g[s]
  BY <1>7 DEF Unique
<1>9. g \in [SUBSET S -> A]
  BY <1>8
<1> HIDE DEF g
<1>10. g[{}] = base
  BY <1>0, <1>2, <1>8 DEF Complete
<1>11. ASSUME NEW s \in SUBSET S, s # {}
       PROVE  g[s] = step[<<g[Before(s)], pick[s]>>]
  <2>1. g[Before(s)] \in A /\ <<Before(s), g[Before(s)]>> \in R
    BY <1>1, <1>8, <1>11
  <2>2. <<s, step[<<g[Before(s)], pick[s]>>]>> \in R
    BY <1>2, <1>11, <2>1 DEF Complete
  <2>3. step[<<g[Before(s)], pick[s]>>] \in A
    BY <1>0, <1>1, <1>11, <2>1
  <2> QED
    BY <1>8, <2>2, <2>3
<1> QED
  BY <1>9, <1>10, <1>11 DEF FoldsTo

\* What holds of the fold of nothing, and of the fold of a set when it holds of the fold
\* of what the set is folded from, holds of the fold of S.  Good has the values of which
\* it holds.
LEMMA FoldKeeps ==
    ASSUME NEW S, IsFiniteSet(S), NEW pick, Picks(S, pick), NEW g, NEW Good,
           g[{}] \in Good[{}],
           \A s \in SUBSET S : s # {} /\ g[s \ {pick[s]}] \in Good[s \ {pick[s]}] => g[s] \in Good[s]
    PROVE  g[S] \in Good[S]
<1> DEFINE Bad == {s \in SUBSET S : g[s] \notin Good[s]}
<1> SUFFICES ASSUME Bad # {} PROVE FALSE
  OBVIOUS
<1>1. Bad \in SUBSET (SUBSET S)
  OBVIOUS
<1> HIDE DEF Bad
<1>2. PICK s \in Bad : \A t \in Bad : t \subseteq s => t = s
  BY <1>1, SmallestMember
<1> USE DEF Bad
<1>3. s # {}
  OBVIOUS
<1>4. s \ {pick[s]} \notin Bad
  BY <1>2, <1>3 DEF Picks
<1> QED
  BY <1>3, <1>4

\* A finite set of numbers has a greatest one.
LEMMA GreatestMember ==
    ASSUME NEW S, S \subseteq Int, IsFiniteSet(S), S # {}
    PROVE  \E x \in S : \A y \in S : x >= y
<1> DEFINE Above(x) == {y \in S : y >= x}
           AA == {Above(x) : x \in S}
<1>1. AA # {}
  OBVIOUS
<1>2. AA \in SUBSET (SUBSET S)
  OBVIOUS
<1> HIDE DEF AA
<1>3. PICK C \in AA : \A D \in AA : D \subseteq C => D = C
  <2> HIDE DEF Above
  <2> QED
    BY ONLY <1>1, <1>2, IsFiniteSet(S), SmallestMember
<1>4. PICK x \in S : C = Above(x)
  BY DEF AA
<1>5. ASSUME NEW y \in S, ~(x >= y)
      PROVE  FALSE
  <2>1. Above(y) \in AA
    BY DEF AA
  <2>2. ASSUME NEW z \in S, z >= y
        PROVE  z >= x
    <3>1. x \in Int /\ y \in Int /\ z \in Int
      OBVIOUS
    <3> QED
      BY <1>5, <2>2, <3>1
  <2>3. x \in Above(y)
    <3>1. Above(y) \subseteq C
      BY <1>4, <2>2
    <3>2. Above(y) = C
      BY <1>3, <2>1, <3>1
    <3> QED
      BY <1>4, <3>2
  <2>4. x >= y
    BY <2>3
  <2> QED
    BY <1>5, <2>4
<1> QED
  BY <1>5

\* ... and a least one.
LEMMA LeastMember ==
    ASSUME NEW S, S \subseteq Int, IsFiniteSet(S), S # {}
    PROVE  \E x \in S : \A y \in S : x =< y
<1> DEFINE Below(x) == {y \in S : y =< x}
           AA == {Below(x) : x \in S}
<1>1. AA # {}
  OBVIOUS
<1>2. AA \in SUBSET (SUBSET S)
  OBVIOUS
<1> HIDE DEF AA
<1>3. PICK C \in AA : \A D \in AA : D \subseteq C => D = C
  <2> HIDE DEF Below
  <2> QED
    BY ONLY <1>1, <1>2, IsFiniteSet(S), SmallestMember
<1>4. PICK x \in S : C = Below(x)
  BY DEF AA
<1>5. ASSUME NEW y \in S, ~(x =< y)
      PROVE  FALSE
  <2>1. Below(y) \in AA
    BY DEF AA
  <2>2. ASSUME NEW z \in S, z =< y
        PROVE  z =< x
    <3>1. x \in Int /\ y \in Int /\ z \in Int
      OBVIOUS
    <3> QED
      BY <1>5, <2>2, <3>1
  <2>3. x \in Below(y)
    <3>1. Below(y) \subseteq C
      BY <1>4, <2>2
    <3>2. Below(y) = C
      BY <1>3, <2>1, <3>1
    <3> QED
      BY <1>4, <3>2
  <2>4. x =< y
    BY <2>3
  <2> QED
    BY <1>5, <2>4
<1> QED
  BY <1>5

-----------------------------------------------------------------------------
(* The least solution of constraints.                                          *)

\* The constraints over some names of nodes.
ConstraintsOver(Names) ==
    [type : {"ADDR_OF", "COPY", "LOAD", "STORE"}, dest : Names, src : Names]

\* c puts o among the pointees of n when T holds already.
Derives(Names, c, T, n, o) ==
    \/ c.type = "ADDR_OF" /\ n = c.dest /\ o = c.src
    \/ c.type = "COPY" /\ n = c.dest /\ <<c.src, o>> \in T
    \/ c.type = "LOAD" /\ n = c.dest /\ \E v \in Names : <<c.src, v>> \in T /\ <<v, o>> \in T
    \/ c.type = "STORE" /\ <<c.dest, n>> \in T /\ <<c.src, o>> \in T

Solves(Names, cons, T) == \A c \in cons, n, o \in Names : Derives(Names, c, T, n, o) => <<n, o>> \in T

LEMMA ConsequencesAre ==
    ASSUME NEW Names, NEW cons \in SUBSET ConstraintsOver(Names), NEW T \in SUBSET (Names \X Names)
    PROVE  \A p : p \in Consequences(cons, T) <=>
              p \in T \/ \E c \in cons, n, o \in Names : p = <<n, o>> /\ Derives(Names, c, T, n, o)
<1> DEFINE Derived(c) ==
            CASE c.type = "ADDR_OF" -> {c.dest} \X {c.src}
              [] c.type = "COPY"    -> {c.dest} \X At(T, c.src)
              [] c.type = "LOAD"    -> {c.dest} \X UNION {At(T, v) : v \in At(T, c.src)}
              [] c.type = "STORE"   -> At(T, c.dest) \X At(T, c.src)
<1>1. \A x, o : o \in At(T, x) <=> <<x, o>> \in T
  BY DEF At
<1>2. ASSUME NEW c \in cons, NEW p
      PROVE  p \in Derived(c) <=> \E n, o \in Names : p = <<n, o>> /\ Derives(Names, c, T, n, o)
  <2>1. c.dest \in Names /\ c.src \in Names /\ c.type \in {"ADDR_OF", "COPY", "LOAD", "STORE"}
    BY DEF ConstraintsOver
  <2>2. CASE c.type = "ADDR_OF"
    BY <2>1, <2>2 DEF Derives
  <2>3. CASE c.type = "COPY"
    <3>1. Derived(c) = {c.dest} \X At(T, c.src)
      BY <2>3
    <3>2. \A n, o : Derives(Names, c, T, n, o) <=> n = c.dest /\ o \in At(T, c.src)
      BY <1>1, <2>3 DEF Derives
    <3>3. At(T, c.src) \subseteq Names
      BY DEF At
    <3> HIDE DEF Derived
    <3> QED
      BY <2>1, <3>1, <3>2, <3>3
  <2>4. CASE c.type = "LOAD"
    <3> DEFINE A == UNION {At(T, v) : v \in At(T, c.src)}
    <3>1. Derived(c) = {c.dest} \X A
      BY <2>4
    <3>2. \A o : o \in A <=> \E v \in Names : <<c.src, v>> \in T /\ <<v, o>> \in T
      BY <1>1
    <3>3. A \subseteq Names
      BY DEF At
    <3> HIDE DEF Derived, A
    <3>4. \A n, o : Derives(Names, c, T, n, o) <=> n = c.dest /\ o \in A
      BY <2>4, <3>2 DEF Derives
    <3> QED
      BY <2>1, <3>1, <3>3, <3>4
  <2>5. CASE c.type = "STORE"
    <3>1. Derived(c) = At(T, c.dest) \X At(T, c.src)
      BY <2>5
    <3>2. \A n, o : Derives(Names, c, T, n, o) <=> n \in At(T, c.dest) /\ o \in At(T, c.src)
      BY <1>1, <2>5 DEF Derives
    <3>3. At(T, c.src) \subseteq Names /\ At(T, c.dest) \subseteq Names
      BY DEF At
    <3> HIDE DEF Derived
    <3> QED
      BY <3>1, <3>2, <3>3
  <2> QED
    BY <2>1, <2>2, <2>3, <2>4, <2>5
<1>3. Consequences(cons, T) = T \cup UNION {Derived(c) : c \in cons}
  BY DEF Consequences
<1> HIDE DEF Derived
<1> QED
  BY <1>2, <1>3

\* A set to which the constraints add nothing solves them.
LEMMA FixedIsSolved ==
    ASSUME NEW Names, NEW cons \in SUBSET ConstraintsOver(Names), NEW T \in SUBSET (Names \X Names)
    PROVE  Consequences(cons, T) = T <=> Solves(Names, cons, T)
<1>1. \A p : p \in Consequences(cons, T) <=>
         p \in T \/ \E c \in cons, n, o \in Names : p = <<n, o>> /\ Derives(Names, c, T, n, o)
  BY ConsequencesAre
<1>2. ASSUME Consequences(cons, T) = T
      PROVE  Solves(Names, cons, T)
  BY <1>1, <1>2 DEF Solves
<1>3. ASSUME Solves(Names, cons, T)
      PROVE  Consequences(cons, T) = T
  <2>1. \A p : p \in Consequences(cons, T) <=> p \in T
    BY <1>1, <1>3 DEF Solves
  <2> QED
    BY <2>1
<1> QED
  BY <1>2, <1>3

LEMMA MoreDerives ==
    ASSUME NEW Names, NEW c, NEW T, NEW U, T \subseteq U, NEW n, NEW o, Derives(Names, c, T, n, o)
    PROVE  Derives(Names, c, U, n, o)
BY DEF Derives

\* What LeastSolution computes is a solution, and is part of every other.
IsLeastSolution(Names, cons, L) ==
    /\ L \in SUBSET (Names \X Names)
    /\ Solves(Names, cons, L)
    /\ \A T \in SUBSET (Names \X Names) : Solves(Names, cons, T) => L \subseteq T

LEMMA LeastSolutionIsLeast ==
    ASSUME NEW Names, IsFiniteSet(Names), NEW cons \in SUBSET ConstraintsOver(Names)
    PROVE  IsLeastSolution(Names, cons, LeastSolution(cons))
<1> DEFINE Places == UNION {{c.dest, c.src} : c \in cons}
           N == Places \X Places
           FF == [S \in SUBSET N |-> Consequences(cons, S)]
           Eqn(h) == h = [S \in SUBSET N |->
                            IF Consequences(cons, S) = S THEN S ELSE h[Consequences(cons, S)]]
           grow == CHOOSE h : Eqn(h)
<1>1. Places \in SUBSET Names /\ \A c \in cons : c.dest \in Places /\ c.src \in Places
  BY DEF ConstraintsOver
<1>2. IsFiniteSet(N) /\ N \in SUBSET (Names \X Names)
  <2>1. IsFiniteSet(Places)
    BY <1>1, FS_Subset
  <2> HIDE DEF Places
  <2> QED
    BY <1>1, <2>1, FS_Product
<1>3. ASSUME NEW S \in SUBSET N
      PROVE  \A p : p \in Consequences(cons, S) <=>
                p \in S \/ \E c \in cons, n, o \in Names : p = <<n, o>> /\ Derives(Names, c, S, n, o)
  <2>1. S \in SUBSET (Names \X Names)
    BY <1>2
  <2> QED
    BY <2>1, ConsequencesAre
<1>4. ASSUME NEW S \in SUBSET N, NEW c \in cons, NEW n \in Names, NEW o \in Names, Derives(Names, c, S, n, o)
      PROVE  <<n, o>> \in N
  <2> HIDE DEF Places
  <2> QED
    BY <1>1, <1>4 DEF Derives
<1> HIDE DEF N
<1>5. \A S \in SUBSET N : Consequences(cons, S) \in SUBSET N /\ S \subseteq Consequences(cons, S)
  <2> SUFFICES ASSUME NEW S \in SUBSET N
               PROVE  Consequences(cons, S) \in SUBSET N /\ S \subseteq Consequences(cons, S)
    OBVIOUS
  <2>1. ASSUME NEW p \in Consequences(cons, S)
        PROVE  p \in N
    BY <1>3, <1>4
  <2> QED
    BY <1>3, <2>1
<1>6. ASSUME NEW S \in SUBSET N, NEW U \in SUBSET N, S \subseteq U
      PROVE  Consequences(cons, S) \subseteq Consequences(cons, U)
  <2> SUFFICES ASSUME NEW p \in Consequences(cons, S)
               PROVE  p \in Consequences(cons, U)
    OBVIOUS
  <2>1. CASE p \in S
    BY <1>3, <1>6, <2>1
  <2>2. CASE p \notin S
    <3>1. PICK c \in cons, n \in Names, o \in Names : p = <<n, o>> /\ Derives(Names, c, S, n, o)
      BY <1>3, <2>2
    <3>2. Derives(Names, c, U, n, o)
      BY <1>6, <3>1, MoreDerives
    <3> QED
      BY <1>3, <3>1, <3>2
  <2> QED
    BY <2>1, <2>2
<1>7. /\ FF \in [SUBSET N -> SUBSET N]
      /\ \A S \in SUBSET N : S \subseteq FF[S]
      /\ \A S \in SUBSET N, U \in SUBSET N : S \subseteq U => FF[S] \subseteq FF[U]
  BY <1>5, <1>6
<1>8. Eqn(grow)
  <2>1. \E h : Rounds(N, FF, h)
    <3> HIDE DEF FF
    <3> QED
      BY <1>7, GrowthExists
  <2>2. \E h : Eqn(h)
    BY <2>1 DEF Rounds
  <2> HIDE DEF Eqn
  <2> QED
    BY <2>2
<1>9. GrowsBy(N, FF, grow)
  <2>1. \A S \in SUBSET N : grow[S] = IF FF[S] = S THEN S ELSE grow[FF[S]]
    <3> HIDE DEF grow
    <3> QED
      BY <1>8
  <2> HIDE DEF FF, grow
  <2> QED
    BY <1>7, <2>1 DEF GrowsBy
<1>10. EndsInLeast(N, FF, grow)
  <2> HIDE DEF FF, grow
  <2> QED
    BY <1>2, <1>9, GrowthEnds
<1>11. LeastSolution(cons) = grow[{}]
  BY DEF LeastSolution, N
<1> HIDE DEF grow, Eqn
<1> DEFINE L == grow[{}]
<1>12. L \in SUBSET N /\ FF[L] = L /\ \A S \in SUBSET N : FF[S] = S => L \subseteq S
  BY <1>10 DEF EndsInLeast
<1> HIDE DEF L
<1>13. L \in SUBSET (Names \X Names) /\ Solves(Names, cons, L)
  <2>1. Consequences(cons, L) = L
    BY <1>12
  <2> QED
    BY <1>2, <1>12, <2>1, FixedIsSolved
<1>14. ASSUME NEW T \in SUBSET (Names \X Names), Solves(Names, cons, T)
       PROVE  L \subseteq T
  <2> DEFINE S == T \cap N
  <2>1. S \in SUBSET N
    OBVIOUS
  <2>2. Consequences(cons, S) = S
    <3>1. ASSUME NEW p \in Consequences(cons, S)
          PROVE  p \in S
      <4>1. CASE p \in S
        BY <4>1
      <4>2. CASE p \notin S
        <5>1. PICK c \in cons, n \in Names, o \in Names : p = <<n, o>> /\ Derives(Names, c, S, n, o)
          BY <1>3, <2>1, <4>2
        <5>2. p \in N
          BY <1>4, <2>1, <5>1
        <5>3. Derives(Names, c, T, n, o)
          BY <5>1, MoreDerives
        <5> QED
          BY <1>14, <5>1, <5>2, <5>3 DEF Solves
      <4> QED
        BY <4>1, <4>2
    <3> HIDE DEF S
    <3> QED
      BY <1>5, <2>1, <3>1
  <2>3. FF[S] = S
    BY <2>1, <2>2
  <2> QED
    BY <1>12, <2>1, <2>3
<1> QED
  BY <1>11, <1>13, <1>14 DEF IsLeastSolution, L

-----------------------------------------------------------------------------
(* Dependence graphs.                                                          *)

\* An insert keeps the graph a graph: one attribute for a pair (DirectedGraph::insert).
LEMMA InsertIsGraph ==
    ASSUME NEW N, NEW g, IsGraph(g, N), NEW attr \in EdgeAttr,
           NEW pairs, pairs \subseteq N \X N
    PROVE  IsGraph(Insert(g, pairs, attr), N)
<1>1. Insert(g, pairs, attr) \subseteq N \X EdgeAttr \X N
  BY DEF IsGraph, Insert
<1>2. ASSUME NEW e1 \in Insert(g, pairs, attr), NEW e2 \in Insert(g, pairs, attr),
             e1[1] = e2[1], e1[3] = e2[3]
      PROVE  e1 = e2
  BY <1>2 DEF IsGraph, Insert
<1> QED
  BY <1>1, <1>2 DEF IsGraph

\* The seed belongs to what reaches it.
LEMMA ReachingContains ==
    ASSUME NEW N, NEW g, NEW mask, NEW S, S \subseteq N
    PROVE  S \subseteq Reaching(N, g, S, mask)
BY DEF Reaching

\* What reaches S is closed.
LEMMA ReachingClosed ==
    ASSUME NEW N, NEW g, IsGraph(g, N), NEW mask, NEW S
    PROVE  Closed(g, Reaching(N, g, S, mask), mask)
<1> SUFFICES ASSUME NEW e \in g, e[2] \in mask, e[3] \in Reaching(N, g, S, mask)
             PROVE  e[1] \in Reaching(N, g, S, mask)
  BY DEF Closed
<1>1. e[1] \in N
  BY DEF IsGraph
<1>2. ASSUME NEW T \in SUBSET N, S \subseteq T, Closed(g, T, mask)
      PROVE  e[1] \in T
  <2>1. e[3] \in T
    BY <1>2 DEF Reaching
  <2> QED
    BY <1>2, <2>1 DEF Closed
<1> QED
  BY <1>1, <1>2 DEF Reaching

\* A closed set of nodes that contains S contains everything that reaches S.
LEMMA ReachingLeast ==
    ASSUME NEW N, NEW g, NEW mask, NEW S, NEW T \in SUBSET N,
           S \subseteq T, Closed(g, T, mask)
    PROVE  Reaching(N, g, S, mask) \subseteq T
BY DEF Reaching

\* A work list may start from the seed alone, marked and waiting.
LEMMA WorkListStart ==
    ASSUME NEW N, NEW g, NEW mask, NEW S, S \subseteq N
    PROVE  WorkListInv(N, g, S, mask, S, S)
BY ReachingContains DEF WorkListInv

\* Visiting a waiting node keeps the invariant: it is marked, leaves the list, and
\* its predecessors that are not marked enter it.
LEMMA WorkListVisit ==
    ASSUME NEW N, NEW g, IsGraph(g, N), NEW mask, NEW S, NEW result, NEW work,
           WorkListInv(N, g, S, mask, result, work), NEW n \in work
    PROVE  LET marked == result \cup {n}
           IN  WorkListInv(N, g, S, mask, marked,
                           (work \ {n}) \cup (MaskedPreds(g, n, mask) \ marked))
<1> DEFINE marked == result \cup {n}
           waiting == (work \ {n}) \cup (MaskedPreds(g, n, mask) \ marked)
           R == Reaching(N, g, S, mask)
<1>1. S \subseteq marked
  BY DEF WorkListInv
<1>2. MaskedPreds(g, n, mask) \subseteq R
  <2>1. n \in R
    BY DEF WorkListInv
  <2>2. Closed(g, R, mask)
    BY ReachingClosed
  <2> QED
    BY <2>1, <2>2 DEF MaskedPreds, Closed
<1>3. marked \cup waiting \subseteq R
  BY <1>2 DEF WorkListInv
<1>4. ASSUME NEW m \in marked \ waiting
      PROVE  MaskedPreds(g, m, mask) \subseteq marked \cup waiting
  <2>1. CASE m = n
    BY <2>1
  <2>2. CASE m /= n
    <3>1. m \in result \ work
      BY <1>4, <2>2
    <3>2. MaskedPreds(g, m, mask) \subseteq result \cup work
      BY <3>1 DEF WorkListInv
    <3> QED
      BY <3>2
  <2> QED
    BY <2>1, <2>2
<1> HIDE DEF R
<1>5. WorkListInv(N, g, S, mask, marked, waiting)
  BY <1>1, <1>3, <1>4 DEF WorkListInv, R
<1> QED
  BY <1>5

\* When the list is empty the result is exactly what reaches the seed.
LEMMA WorkListEnd ==
    ASSUME NEW N, NEW g, IsGraph(g, N), NEW mask, NEW S, NEW result,
           WorkListInv(N, g, S, mask, result, {})
    PROVE  result = Reaching(N, g, S, mask)
<1>1. Closed(g, result, mask)
  <2> SUFFICES ASSUME NEW e \in g, e[2] \in mask, e[3] \in result
               PROVE  e[1] \in result
    BY DEF Closed
  <2>1. e[1] \in MaskedPreds(g, e[3], mask)
    BY DEF MaskedPreds
  <2> QED
    BY <2>1 DEF WorkListInv
<1>2. result \in SUBSET N /\ S \subseteq result /\ result \subseteq Reaching(N, g, S, mask)
  BY DEF WorkListInv, Reaching
<1>3. Reaching(N, g, S, mask) \subseteq result
  BY <1>1, <1>2, ReachingLeast
<1> QED
  BY <1>2, <1>3

\* The successors of a node are its predecessors in the reversed graph, which is a
\* graph again: a walk along successors is a work list over the reversed graph.
LEMMA ReverseIsGraph ==
    ASSUME NEW N, NEW g, IsGraph(g, N)
    PROVE  IsGraph(Reversed(g), N)
BY DEF IsGraph, Reversed

LEMMA SuccsArePredsOfReverse ==
    ASSUME NEW N, NEW g, IsGraph(g, N), NEW n, NEW mask
    PROVE  MaskedSuccs(g, n, mask) = MaskedPreds(Reversed(g), n, mask)
<1>1. ASSUME NEW m \in MaskedSuccs(g, n, mask)
      PROVE  m \in MaskedPreds(Reversed(g), n, mask)
  <2>1. PICK e \in g : e[1] = n /\ e[2] \in mask /\ m = e[3]
    BY <1>1 DEF MaskedSuccs
  <2>2. <<e[3], e[2], e[1]>> \in Reversed(g)
    BY DEF Reversed
  <2> QED
    BY <2>1, <2>2 DEF MaskedPreds
<1>2. ASSUME NEW m \in MaskedPreds(Reversed(g), n, mask)
      PROVE  m \in MaskedSuccs(g, n, mask)
  <2>1. PICK r \in Reversed(g) : r[3] = n /\ r[2] \in mask /\ m = r[1]
    BY <1>2 DEF MaskedPreds
  <2>2. PICK e \in g : r = <<e[3], e[2], e[1]>>
    BY DEF Reversed
  <2> QED
    BY <2>1, <2>2 DEF MaskedSuccs
<1> QED
  BY <1>1, <1>2
===============================================================================
