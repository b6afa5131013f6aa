------------------------------- MODULE CDGProofs -------------------------------
(* Proofs about the control dependence pass, for every module and every control- *)
(* flow graph.                                                                   *)
EXTENDS CDG, SharedProofs

-----------------------------------------------------------------------------
(* Reaching an exit.                                                           *)

IsCFG(B, edges) == IsFiniteSet(B) /\ edges \subseteq B \X B

\* T contains the exits outside D and the blocks outside D with a successor in T.
ExitClosed(B, edges, D, T) ==
    /\ Exits(B, edges) \ D \subseteq T
    /\ \A b \in B \ D : Succs(edges, b) \cap T # {} => b \in T

\* ReachingExit is the least such set.
LEMMA ReachingExitLeast ==
    ASSUME NEW B, NEW edges, IsCFG(B, edges), NEW D
    PROVE  /\ ReachingExit(B, edges, D) \subseteq B \ D
           /\ ExitClosed(B, edges, D, ReachingExit(B, edges, D))
           /\ \A T \in SUBSET (B \ D) : ExitClosed(B, edges, D, T) => ReachingExit(B, edges, D) \subseteq T
<1> DEFINE N == B \ D
           S == Exits(B, edges) \ D
           Found(T) == T \cup {b \in N : Succs(edges, b) \cap T # {}}
           Wider == [T \in SUBSET N |-> Found(T)]
           Eqn(g) == g = [T \in SUBSET N |-> IF Found(T) = T THEN T ELSE g[Found(T)]]
           Least(T) == {b \in N : \A U \in SUBSET N : T \subseteq U /\ Found(U) = U => b \in U}
           grow == CHOOSE g : Eqn(g)
           witness == [T \in SUBSET N |-> Least(T)]
<1>1. IsFiniteSet(N)
  BY FS_Subset DEF IsCFG
<1>2. Wider \in [SUBSET N -> SUBSET N]
  OBVIOUS
<1>3. \A T \in SUBSET N : T \subseteq Wider[T]
  OBVIOUS
<1>4. \A T \in SUBSET N, U \in SUBSET N : T \subseteq U => Wider[T] \subseteq Wider[U]
  OBVIOUS
<1>5. Eqn(witness)
  <2> SUFFICES ASSUME NEW T \in SUBSET N
               PROVE  Least(T) = IF Found(T) = T THEN T ELSE Least(Found(T))
    OBVIOUS
  <2>1. CASE Found(T) = T
    BY <2>1
  <2>2. CASE Found(T) # T
    <3>1. ASSUME NEW U \in SUBSET N, Found(U) = U
          PROVE  T \subseteq U <=> Found(T) \subseteq U
      BY <3>1
    <3> QED
      BY <2>2, <3>1
  <2> QED
    BY <2>1, <2>2
<1>6. Eqn(grow)
  <2>1. \E g : Eqn(g)
    BY <1>5
  <2> QED
    BY <2>1
<1>7. \A T \in SUBSET N : grow[T] = IF Wider[T] = T THEN T ELSE grow[Wider[T]]
  <2> HIDE DEF grow
  <2> QED
    BY <1>6
<1>8. S \in SUBSET N
  BY DEF Exits
<1>9. /\ grow[S] \in SUBSET N
      /\ S \subseteq grow[S]
      /\ Wider[grow[S]] = grow[S]
      /\ \A T \in SUBSET N : S \subseteq T /\ Wider[T] = T => grow[S] \subseteq T
  <2> HIDE DEF N, S, Wider, grow
  <2>1. EndsInLeast(N, Wider, grow)
    BY <1>1, <1>2, <1>3, <1>4, <1>7, GrowthEnds DEF GrowsBy
  <2> QED
    BY <1>8, <2>1 DEF EndsInLeast
<1>10. ReachingExit(B, edges, D) = grow[S]
  BY DEF ReachingExit
<1> HIDE DEF grow
<1>11. ExitClosed(B, edges, D, grow[S])
  <2>1. Found(grow[S]) = grow[S]
    BY <1>9
  <2>2. ASSUME NEW b \in N, Succs(edges, b) \cap grow[S] # {}
        PROVE  b \in grow[S]
    BY <2>1, <2>2
  <2> QED
    BY <1>9, <2>2 DEF ExitClosed
<1>12. ASSUME NEW T \in SUBSET N, ExitClosed(B, edges, D, T)
       PROVE  grow[S] \subseteq T
  <2>1. S \subseteq T /\ Wider[T] = T
    BY <1>12 DEF ExitClosed
  <2> HIDE DEF N, S, Wider
  <2> QED
    BY <1>9, <1>12, <2>1
<1> HIDE DEF S
<1> QED
  BY <1>9, <1>10, <1>11, <1>12

\* What avoids more reaches less.
LEMMA ReachingExitAvoids ==
    ASSUME NEW B, NEW edges, IsCFG(B, edges), NEW C, NEW D, C \subseteq D
    PROVE  ReachingExit(B, edges, D) \subseteq ReachingExit(B, edges, C)
<1> DEFINE R == ReachingExit(B, edges, D)
           T == ReachingExit(B, edges, C) \cap R
<1>1. /\ R \subseteq B \ D
      /\ ExitClosed(B, edges, D, R)
      /\ \A U \in SUBSET (B \ D) : ExitClosed(B, edges, D, U) => R \subseteq U
  BY ReachingExitLeast
<1>2. ExitClosed(B, edges, C, ReachingExit(B, edges, C))
  BY ReachingExitLeast
<1> HIDE DEF R
<1>3. ExitClosed(B, edges, D, T) /\ T \in SUBSET (B \ D)
  BY <1>1, <1>2 DEF ExitClosed
<1>4. R \subseteq T
  <2> HIDE DEF T
  <2> QED
    BY <1>1, <1>3
<1> QED
  BY <1>4 DEF R

-----------------------------------------------------------------------------
(* Post-dominators of blocks that reach an exit.                               *)

\* A block with a successor that reaches an exit reaches one too.
LEMMA ReachesExitBack ==
    ASSUME NEW B, NEW edges, IsCFG(B, edges), NEW b, NEW s \in Succs(edges, b),
           ReachesExit(B, edges, s)
    PROVE  ReachesExit(B, edges, b) /\ b \in B /\ s \in B
<1>1. b \in B /\ s \in B
  BY DEF IsCFG, Succs
<1> QED
  BY <1>1, ReachingExitLeast DEF ReachesExit, ExitClosed

\* A block post-dominates itself.
LEMMA PostDominatesSelf ==
    ASSUME NEW B, NEW edges, IsCFG(B, edges), NEW b
    PROVE  PostDominates(B, edges, b, b)
BY ReachingExitLeast DEF PostDominates

\* A post-dominator of a block that reaches an exit reaches one.
LEMMA PostDominatorReachesExit ==
    ASSUME NEW B, NEW edges, IsCFG(B, edges), NEW d, NEW b, ReachesExit(B, edges, b),
           PostDominates(B, edges, d, b)
    PROVE  ReachesExit(B, edges, d)
<1> SUFFICES ASSUME d \notin ReachingExit(B, edges, {}) PROVE FALSE
  BY DEF ReachesExit
<1>1. ReachingExit(B, edges, {d}) \subseteq ReachingExit(B, edges, {})
  BY ReachingExitAvoids
<1>2. ExitClosed(B, edges, {}, ReachingExit(B, edges, {d}))
  <2>1. ExitClosed(B, edges, {d}, ReachingExit(B, edges, {d})) /\ ExitClosed(B, edges, {}, ReachingExit(B, edges, {}))
    BY ReachingExitLeast
  <2> QED
    BY <1>1, <2>1 DEF ExitClosed
<1>3. ReachingExit(B, edges, {}) \subseteq ReachingExit(B, edges, {d})
  BY <1>2, ReachingExitLeast
<1> QED
  BY <1>3 DEF PostDominates, ReachesExit

\* Post-dominance is transitive ...
LEMMA PostDominatesTransitive ==
    ASSUME NEW B, NEW edges, IsCFG(B, edges), NEW a, NEW b, NEW c,
           PostDominates(B, edges, a, b), PostDominates(B, edges, b, c)
    PROVE  PostDominates(B, edges, a, c)
<1> DEFINE R(D) == ReachingExit(B, edges, D)
<1>1. /\ ExitClosed(B, edges, {a}, R({a})) /\ R({a}) \subseteq B \ {a}
      /\ ExitClosed(B, edges, {b}, R({b}))
      /\ \A T \in SUBSET (B \ {a}) : ExitClosed(B, edges, {a}, T) => R({a}) \subseteq T
  BY ReachingExitLeast
<1>2. b \notin R({a}) /\ c \notin R({b})
  BY DEF PostDominates
<1> HIDE DEF R
<1>3. ExitClosed(B, edges, {a}, R({a}) \cap R({b}))
  BY <1>1, <1>2 DEF ExitClosed
<1>4. R({a}) \subseteq R({b})
  BY <1>1, <1>3
<1> QED
  BY <1>2, <1>4 DEF PostDominates, R

\* ... antisymmetric between blocks that reach an exit ...
LEMMA PostDominatesAntisymmetric ==
    ASSUME NEW B, NEW edges, IsCFG(B, edges), NEW a, NEW b, ReachesExit(B, edges, a),
           PostDominates(B, edges, a, b), PostDominates(B, edges, b, a)
    PROVE  a = b
<1> SUFFICES ASSUME a # b PROVE FALSE
  OBVIOUS
<1> DEFINE R(D) == ReachingExit(B, edges, D)
<1>1. /\ ExitClosed(B, edges, {a}, R({a}))
      /\ ExitClosed(B, edges, {b}, R({b}))
      /\ ExitClosed(B, edges, {a, b}, R({a, b})) /\ R({a, b}) \subseteq B \ {a, b}
      /\ \A T \in SUBSET (B \ {}) : ExitClosed(B, edges, {}, T) => R({}) \subseteq T
      /\ R({}) \subseteq B
  BY ReachingExitLeast
<1>2. R({a, b}) \subseteq R({a}) /\ R({a, b}) \subseteq R({b})
  BY ReachingExitAvoids
<1>3. b \notin R({a}) /\ a \notin R({b}) /\ a \in R({})
  BY DEF PostDominates, ReachesExit
<1> HIDE DEF R
<1>4. ExitClosed(B, edges, {}, R({a, b}))
  <2>1. a \notin Exits(B, edges) /\ b \notin Exits(B, edges)
    BY <1>1, <1>3 DEF ExitClosed
  <2>2. ASSUME NEW c \in B, Succs(edges, c) \cap R({a, b}) # {}
        PROVE  c # a /\ c # b
    <3>1. ASSUME c = a PROVE FALSE
      BY <1>1, <1>2, <1>3, <2>2, <3>1 DEF ExitClosed
    <3>2. ASSUME c = b PROVE FALSE
      BY <1>1, <1>2, <1>3, <2>2, <3>2 DEF ExitClosed
    <3> QED
      BY <3>1, <3>2
  <2> QED
    BY <1>1, <2>1, <2>2 DEF ExitClosed
<1> QED
  BY <1>1, <1>3, <1>4

\* ... and total on the post-dominators of such a block.
LEMMA PostDominatorsTotal ==
    ASSUME NEW B, NEW edges, IsCFG(B, edges), NEW b, ReachesExit(B, edges, b), NEW p, NEW q,
           PostDominates(B, edges, p, b), PostDominates(B, edges, q, b)
    PROVE  PostDominates(B, edges, p, q) \/ PostDominates(B, edges, q, p)
<1> DEFINE R(D) == ReachingExit(B, edges, D)
<1> SUFFICES ASSUME q \in R({p}), p \in R({q}) PROVE FALSE
  BY DEF PostDominates
<1>1. /\ ExitClosed(B, edges, {p}, R({p})) /\ R({p}) \subseteq B
      /\ ExitClosed(B, edges, {q}, R({q})) /\ R({q}) \subseteq B
      /\ \A T \in SUBSET (B \ {}) : ExitClosed(B, edges, {}, T) => R({}) \subseteq T
  BY ReachingExitLeast
<1>2. b \notin R({p}) /\ b \notin R({q}) /\ b \in R({})
  BY DEF PostDominates, ReachesExit
<1> HIDE DEF R
<1>3. ExitClosed(B, edges, {}, R({p}) \cup R({q}))
  BY <1>1 DEF ExitClosed
<1> QED
  BY <1>1, <1>2, <1>3

\* A strict post-dominator of a block post-dominates each of its successors.
LEMMA PostDominatorOfSuccessor ==
    ASSUME NEW B, NEW edges, IsCFG(B, edges), NEW b, NEW s \in Succs(edges, b),
           NEW d \in StrictPostDominators(B, edges, b)
    PROVE  PostDominates(B, edges, d, s)
<1>1. b \in B
  BY DEF IsCFG, Succs
<1> QED
  BY <1>1, ReachingExitLeast DEF StrictPostDominators, PostDominates, ExitClosed

\* The immediate post-dominator: together with its own strict post-dominators it
\* makes up those of the block.
LEMMA ImmediatePostDominator ==
    ASSUME NEW B, NEW edges, IsCFG(B, edges), NEW b \in B, ReachesExit(B, edges, b),
           VirtualRoot \notin B, StrictPostDominators(B, edges, b) # {}
    PROVE  LET p == GetIDom(B, edges, b)
           IN  /\ p \in StrictPostDominators(B, edges, b)
               /\ StrictPostDominators(B, edges, b) = {p} \cup StrictPostDominators(B, edges, p)
               /\ ReachesExit(B, edges, p)
<1> DEFINE SPD(x) == StrictPostDominators(B, edges, x)
           P == SPD(b)
           PD(x, y) == PostDominates(B, edges, x, y)
           SS == {SPD(p) : p \in P}
<1>1. \A x, y : x \in SPD(y) <=> x \in B \ {y} /\ PD(x, y)
  BY DEF StrictPostDominators
<1>2. \A p \in P : ReachesExit(B, edges, p)
  BY PostDominatorReachesExit DEF StrictPostDominators
<1>3. \A x, y, z : PD(x, y) /\ PD(y, z) => PD(x, z)
  BY PostDominatesTransitive
<1>4. \A x, y : ReachesExit(B, edges, x) /\ PD(x, y) /\ PD(y, x) => x = y
  BY PostDominatesAntisymmetric
<1>5. \A p, q \in P : PD(p, q) \/ PD(q, p)
  BY PostDominatorsTotal DEF StrictPostDominators
<1> HIDE DEF SPD, PD
<1>6. PICK X \in SS : \A Y \in SS : X \subseteq Y => Y = X
  <2>1. SS \in SUBSET (SUBSET B)
    BY <1>1
  <2>2. PICK p \in P : SPD(p) \in SS
    BY DEF SPD
  <2> HIDE DEF SS
  <2> QED
    BY <2>1, <2>2, LargestMember DEF IsCFG
<1>7. PICK p \in P : X = SPD(p)
  OBVIOUS
<1>8. P \ {p} \subseteq SPD(p)
  <2> SUFFICES ASSUME NEW q \in P \ {p}, ~PD(q, p) PROVE FALSE
    BY <1>1
  <2>1. PD(p, q)
    BY <1>5
  <2>2. SPD(p) \subseteq SPD(q)
    BY <1>1, <1>2, <1>3, <1>4, <2>1
  <2>3. SPD(q) = SPD(p)
    BY <1>6, <1>7, <2>2
  <2>4. p \in SPD(q) /\ p \notin SPD(p)
    BY <1>1, <2>1
  <2> QED
    BY <2>3, <2>4
<1>9. GetIDom(B, edges, b) = CHOOSE x \in P : P \ {x} \subseteq SPD(x)
  BY DEF GetIDom, SPD
<1>10. PICK x \in P : x = GetIDom(B, edges, b) /\ P \ {x} \subseteq SPD(x)
  BY <1>8, <1>9
<1>11. SPD(x) \subseteq P \ {x}
  BY <1>1, <1>2, <1>3, <1>4
<1> QED
  BY <1>2, <1>10, <1>11 DEF SPD

-----------------------------------------------------------------------------
(* Climbing the tree from a successor s of a block b.                          *)

\* The blocks at a tree node and above it: none at the virtual root.
AtOrAbove(B, edges, v) == IF v \in B THEN {v} \cup StrictPostDominators(B, edges, v) ELSE {}

\* Names of no block.
Nameless(B) == NULL \notin B /\ VirtualRoot \notin B /\ NULL # VirtualRoot

\* At s everything that post-dominates b or s is still to come.
LEMMA ClimbStart ==
    ASSUME NEW B, NEW edges, IsCFG(B, edges), NEW b, NEW s \in Succs(edges, b)
    PROVE  /\ StrictPostDominators(B, edges, b) \subseteq AtOrAbove(B, edges, s)
           /\ \A d \in B : PostDominates(B, edges, d, s) => d \in AtOrAbove(B, edges, s)
           /\ PostDominates(B, edges, s, s)
<1>1. s \in B
  BY DEF IsCFG, Succs
<1>2. \A d \in B : PostDominates(B, edges, d, s) => d \in AtOrAbove(B, edges, s)
  BY <1>1 DEF AtOrAbove, StrictPostDominators
<1>3. StrictPostDominators(B, edges, b) \subseteq B
  BY DEF StrictPostDominators
<1> QED
  BY <1>1, <1>2, <1>3, PostDominatorOfSuccessor, PostDominatesSelf

\* The immediate post-dominator of b, where the climb stops, has the strict
\* post-dominators of b at or above it.
LEMMA ClimbStop ==
    ASSUME NEW B, NEW edges, IsCFG(B, edges), Nameless(B), NEW b \in B, ReachesExit(B, edges, b)
    PROVE  AtOrAbove(B, edges, GetIDom(B, edges, b)) = StrictPostDominators(B, edges, b)
<1>1. CASE StrictPostDominators(B, edges, b) = {}
  BY <1>1 DEF GetIDom, AtOrAbove, Nameless
<1>2. CASE StrictPostDominators(B, edges, b) # {}
  <2>1. GetIDom(B, edges, b) \in B
    BY <1>2, ImmediatePostDominator DEF StrictPostDominators, Nameless
  <2> QED
    BY <1>2, <2>1, ImmediatePostDominator DEF AtOrAbove, Nameless
<1> QED
  BY <1>1, <1>2

\* Anywhere below it, the block the climb is at does not post-dominate b strictly, and
\* its immediate post-dominator comes next; the virtual root is never passed.
LEMMA ClimbOn ==
    ASSUME NEW B, NEW edges, IsCFG(B, edges), Nameless(B), NEW b \in B, ReachesExit(B, edges, b),
           NEW v \in B, ReachesExit(B, edges, v), v # GetIDom(B, edges, b),
           StrictPostDominators(B, edges, b) \subseteq AtOrAbove(B, edges, v)
    PROVE  LET m == GetIDom(B, edges, v)
           IN  /\ v \notin StrictPostDominators(B, edges, b)
               /\ AtOrAbove(B, edges, v) = {v} \cup AtOrAbove(B, edges, m)
               /\ v \notin AtOrAbove(B, edges, m)
               /\ StrictPostDominators(B, edges, b) \subseteq AtOrAbove(B, edges, m)
               /\ m \in B \cup {NULL, VirtualRoot}
               /\ m \in B => PostDominates(B, edges, m, v) /\ ReachesExit(B, edges, m)
               /\ m = VirtualRoot => GetIDom(B, edges, b) = VirtualRoot
<1> DEFINE SPD(x) == StrictPostDominators(B, edges, x)
           m == GetIDom(B, edges, v)
           p == GetIDom(B, edges, b)
<1>1. v \notin SPD(v)
  BY DEF StrictPostDominators
<1>2. v \notin SPD(b)
  <2> SUFFICES ASSUME v \in SPD(b) PROVE FALSE
    OBVIOUS
  <2>1. p \in SPD(b) /\ SPD(b) = {p} \cup SPD(p) /\ ReachesExit(B, edges, p)
    BY ImmediatePostDominator DEF Nameless
  <2>2. v \in SPD(p) /\ p \in SPD(v)
    BY <2>1 DEF AtOrAbove
  <2>3. PostDominates(B, edges, v, p) /\ PostDominates(B, edges, p, v)
    BY <2>2 DEF StrictPostDominators
  <2> QED
    BY <2>1, <2>3, PostDominatesAntisymmetric
<1>3. AtOrAbove(B, edges, m) = SPD(v)
  BY ClimbStop
<1>4. AtOrAbove(B, edges, v) = {v} \cup SPD(v)
  BY DEF AtOrAbove
<1>5. m \in B \cup {NULL, VirtualRoot} /\ (m \in B => PostDominates(B, edges, m, v) /\ ReachesExit(B, edges, m))
  <2>1. CASE SPD(v) = {}
    BY <2>1 DEF GetIDom, Nameless
  <2>2. CASE SPD(v) # {}
    <3>1. m \in SPD(v) /\ ReachesExit(B, edges, m)
      BY <2>2, ImmediatePostDominator DEF Nameless
    <3> QED
      BY <3>1 DEF StrictPostDominators
  <2> QED
    BY <2>1, <2>2
<1>6. ASSUME m = VirtualRoot
      PROVE  p = VirtualRoot
  <2>1. SPD(v) = {} /\ v # VirtualRoot /\ b # VirtualRoot
    <3>1. ASSUME SPD(v) # {}
          PROVE  m \in B
      BY <3>1, ImmediatePostDominator DEF Nameless, StrictPostDominators
    <3> QED
      BY <1>6, <3>1 DEF Nameless
  <2>2. ManyRoots(B, edges)
    BY <1>6, <2>1 DEF GetIDom, Nameless
  <2>3. SPD(b) = {}
    BY <1>2, <1>4, <2>1
  <2> QED
    BY <2>1, <2>2, <2>3 DEF GetIDom
<1> HIDE DEF SPD
<1>7. SPD(b) \subseteq SPD(v)
  BY <1>2, <1>4 DEF SPD
<1> QED
  BY <1>1, <1>2, <1>3, <1>4, <1>5, <1>6, <1>7 DEF SPD

\* A block no edge enters depends on none, when everything that is entered reaches an exit.
LEMMA EntryDependsOnNothing ==
    ASSUME NEW B, NEW edges, IsCFG(B, edges), NEW b \in B,
           \A e \in edges : e[2] # b /\ ReachesExit(B, edges, e[2])
    PROVE  \A a \in B : <<a, b>> \notin ControlDependence(B, edges)
<1>1. ExitClosed(B, edges, {}, ReachingExit(B, edges, {b}) \cup {b})
  <2>1. ExitClosed(B, edges, {b}, ReachingExit(B, edges, {b}))
    BY ReachingExitLeast
  <2>2. \A a \in B : b \notin Succs(edges, a)
    BY DEF Succs
  <2> QED
    BY <2>1, <2>2 DEF ExitClosed
<1>2. ReachingExit(B, edges, {}) \subseteq ReachingExit(B, edges, {b}) \cup {b}
  <2>1. ReachingExit(B, edges, {b}) \cup {b} \in SUBSET (B \ {})
    BY ReachingExitLeast
  <2>2. \A T \in SUBSET (B \ {}) : ExitClosed(B, edges, {}, T) => ReachingExit(B, edges, {}) \subseteq T
    BY ReachingExitLeast
  <2> QED
    BY <1>1, <2>1, <2>2
<1>3. ASSUME NEW a \in B, NEW s \in Succs(edges, a)
      PROVE  ~PostDominates(B, edges, b, s)
  <2>1. PICK e \in edges : s = e[2]
    BY DEF Succs
  <2> QED
    BY <1>2, <2>1 DEF PostDominates, ReachesExit
<1> QED
  BY <1>3 DEF ControlDependence

-----------------------------------------------------------------------------
(* Control dependence, gathered successor by successor and block by block.       *)

\* What depends on b because of its successors S.
DependsOn(B, edges, b, S) ==
    {<<b, d>> : d \in {c \in B : /\ c \notin StrictPostDominators(B, edges, b)
                                /\ \E s \in S : PostDominates(B, edges, c, s)}}

\* What depends on b because of s and lies below the tree node v.
Below(B, edges, b, s, v) ==
    {<<b, d>> : d \in {c \in B : PostDominates(B, edges, c, s) /\ c \notin AtOrAbove(B, edges, v)}}

\* The climb from s has found all of it at the immediate post-dominator of b.
LEMMA ClimbComplete ==
    ASSUME NEW B, NEW edges, NEW b, NEW S, NEW s \in S, NEW v,
           AtOrAbove(B, edges, v) = StrictPostDominators(B, edges, b)
    PROVE  DependsOn(B, edges, b, S) = DependsOn(B, edges, b, S \ {s}) \cup Below(B, edges, b, s, v)
<1> DEFINE D(T) == {c \in B : /\ c \notin StrictPostDominators(B, edges, b)
                             /\ \E t \in T : PostDominates(B, edges, c, t)}
           E == {c \in B : PostDominates(B, edges, c, s) /\ c \notin StrictPostDominators(B, edges, b)}
<1>1. D(S) = D(S \ {s}) \cup E
  OBVIOUS
<1>2. /\ DependsOn(B, edges, b, S) = {<<b, d>> : d \in D(S)}
      /\ DependsOn(B, edges, b, S \ {s}) = {<<b, d>> : d \in D(S \ {s})}
      /\ Below(B, edges, b, s, v) = {<<b, d>> : d \in E}
  BY DEF DependsOn, Below
<1> HIDE DEF D, E
<1> QED
  BY <1>1, <1>2

\* One turn of the climb adds the block it was at.
LEMMA ClimbAdds ==
    ASSUME NEW B, NEW edges, NEW b, NEW s, NEW v \in B, NEW m, PostDominates(B, edges, v, s),
           AtOrAbove(B, edges, v) = {v} \cup AtOrAbove(B, edges, m), v \notin AtOrAbove(B, edges, m)
    PROVE  Below(B, edges, b, s, m) = Below(B, edges, b, s, v) \cup {<<b, v>>}
<1> DEFINE E(x) == {c \in B : PostDominates(B, edges, c, s) /\ c \notin AtOrAbove(B, edges, x)}
<1>1. E(m) = E(v) \cup {v}
  OBVIOUS
<1>2. Below(B, edges, b, s, m) = {<<b, d>> : d \in E(m)} /\ Below(B, edges, b, s, v) = {<<b, d>> : d \in E(v)}
  BY DEF Below
<1> HIDE DEF E
<1> QED
  BY <1>1, <1>2

\* Block by block, with all successors of each, it is the control dependence.
LEMMA DependenceIsUnion ==
    ASSUME NEW B, NEW edges
    PROVE  ControlDependence(B, edges) = UNION {DependsOn(B, edges, b, Succs(edges, b)) : b \in B}
<1>1. ASSUME NEW e \in ControlDependence(B, edges)
      PROVE  \E b \in B : e \in DependsOn(B, edges, b, Succs(edges, b))
  <2>1. /\ e \in B \X B
        /\ e[2] \notin StrictPostDominators(B, edges, e[1])
        /\ \E s \in Succs(edges, e[1]) : PostDominates(B, edges, e[2], s)
    BY DEF ControlDependence
  <2>2. e = <<e[1], e[2]>>
    BY <2>1
  <2> QED
    BY <2>1, <2>2 DEF DependsOn
<1>2. ASSUME NEW b \in B, NEW e \in DependsOn(B, edges, b, Succs(edges, b))
      PROVE  e \in ControlDependence(B, edges)
  <2>1. PICK d \in B : /\ e = <<b, d>>
                       /\ d \notin StrictPostDominators(B, edges, b)
                       /\ \E s \in Succs(edges, b) : PostDominates(B, edges, d, s)
    BY DEF DependsOn
  <2> QED
    BY <2>1 DEF ControlDependence
<1> QED
  BY <1>1, <1>2


\* The control flow inside a function, and what the pass is to record of it.
Inner(c, f) == c \cap (Blocks(f) \X Blocks(f))
Whole(B, g) ==
    ControlDependence(B, g) \cup
        {<<NULL, b>> : b \in {d \in B : \A s \in B : <<s, d>> \notin ControlDependence(B, g)}}
Earlier(c, k) == UNION {Whole(Blocks(Functions[j]), Inner(c, Functions[j])) : j \in 1 .. k - 1}

\* What depends on the first k blocks of a function.
UpTo(c, f, k) ==
    UNION {DependsOn(Blocks(f), Inner(c, f), BlocksOf[f][j], Succs(Inner(c, f), BlocksOf[f][j])) :
              j \in 1 .. k}

\* Every edge of g leads to a block that reaches an exit.
Leaves(B, g) == \A e \in g : ReachesExit(B, g, e[2])

-----------------------------------------------------------------------------
(* The inductive invariant.                                                    *)

B == Blocks(F)
G == CFGOf(F)
Taken == Succs(G, Block) \ todo
Base == Earlier(cfg, fn) \cup UpTo(cfg, F, bi - 1)

Shape ==
    /\ cfg \in CFGs
    /\ fn \in DOMAIN Functions
    /\ bi \in DOMAIN BlocksOf[F]
    /\ pdt = PostDominatorTree(B, G)

\* The blocks behind the pass have only successors that reach an exit.
NoCrashSoFar ==
    /\ pc # "crash" => \A j \in 1 .. fn - 1 : Leaves(Blocks(Functions[j]), Inner(cfg, Functions[j]))
    /\ pc \in {"succ", "climb"} =>
          \A j \in 1 .. bi - 1 : \A s \in Succs(G, BlocksOf[F][j]) : ReachesExit(B, G, s)

AtSucc ==
    pc = "succ" =>
        /\ todo \subseteq Succs(G, Block)
        /\ \A s \in Taken : ReachesExit(B, G, s)
        /\ bbGraph = Base \cup DependsOn(B, G, Block, Taken)

\* The climb from s is at nNode: all that is below it has been recorded, and the strict
\* post-dominators of the block are not.
Climbing(s) ==
    \/ /\ ~ReachesExit(B, G, s)
       /\ nNode = NULL /\ n = s
       /\ bbGraph = Base \cup DependsOn(B, G, Block, Taken \ {s})
    \/ /\ ReachesExit(B, G, s)
       /\ nNode \in B \cup {VirtualRoot}
       /\ nNode \in B => n = nNode /\ PostDominates(B, G, nNode, s) /\ ReachesExit(B, G, nNode)
       /\ nNode = VirtualRoot => GetIDom(B, G, Block) = VirtualRoot
       /\ StrictPostDominators(B, G, Block) \subseteq AtOrAbove(B, G, nNode)
       /\ bbGraph = Base \cup DependsOn(B, G, Block, Taken \ {s}) \cup Below(B, G, Block, s, nNode)
AtClimb ==
    pc = "climb" =>
        /\ todo \subseteq Succs(G, Block)
        /\ \E s \in Taken :
              /\ \A t \in Taken \ {s} : ReachesExit(B, G, t)
              /\ Climbing(s)

AtEnd ==
    /\ pc = "entries" => Leaves(B, G) /\ bbGraph = Earlier(cfg, fn) \cup ControlDependence(B, G)
    /\ pc = "done" => Leaves(B, G) /\ fn = Len(Functions) /\ bbGraph = Earlier(cfg, fn + 1)
    /\ pc = "crash" => Crashing

IInv == TypeOK /\ Shape /\ NoCrashSoFar /\ AtSucc /\ AtClimb /\ AtEnd

-----------------------------------------------------------------------------
(* Facts about functions and their blocks.                                     *)

\* The blocks of the k-th function: finitely many, at least one, none with a reserved name.
LEMMA FunctionFacts ==
    ASSUME NEW k \in DOMAIN Functions
    PROVE  /\ Functions[k] \in Range1(Functions)
           /\ Blocks(Functions[k]) \subseteq AllBlocks
           /\ Nameless(Blocks(Functions[k]))
           /\ DOMAIN BlocksOf[Functions[k]] = 1 .. Len(BlocksOf[Functions[k]])
           /\ Len(BlocksOf[Functions[k]]) \in Nat \ {0}
           /\ Blocks(Functions[k]) = {BlocksOf[Functions[k]][j] : j \in 1 .. Len(BlocksOf[Functions[k]])}
           /\ IsFiniteSet(Blocks(Functions[k]))
<1> DEFINE f == Functions[k]
<1>1. f \in Range1(Functions)
  BY DEF Range1
<1>2. BlocksOf[f] \in Seq(Blocks(f)) /\ BlocksOf[f] # <<>>
  BY <1>1, FunctionsAssumption
<1>3. DOMAIN BlocksOf[f] = 1 .. Len(BlocksOf[f]) /\ Len(BlocksOf[f]) \in Nat \ {0}
  BY <1>2
<1>4. Blocks(f) = {BlocksOf[f][j] : j \in 1 .. Len(BlocksOf[f])}
  BY <1>3 DEF Blocks, Range1
<1>5. IsFiniteSet(Blocks(f))
  <2>1. IsFiniteSet(1 .. Len(BlocksOf[f]))
    BY <1>3, FS_Interval
  <2>2. BlocksOf[f] \in Surjection(1 .. Len(BlocksOf[f]), Blocks(f))
    BY <1>2, <1>3, <1>4 DEF Surjection
  <2> QED
    BY <2>1, <2>2, FS_Surjection
<1>6. Blocks(f) \subseteq AllBlocks
  BY <1>1 DEF AllBlocks
<1> QED
  BY <1>1, <1>3, <1>4, <1>5, <1>6, NamesAssumption DEF Nameless

\* Functions is not empty, and its members are its elements.
LEMMA FunctionsFacts ==
    /\ DOMAIN Functions = 1 .. Len(Functions)
    /\ Len(Functions) \in Nat \ {0}
    /\ Range1(Functions) = {Functions[k] : k \in 1 .. Len(Functions)}
BY FunctionsAssumption DEF Range1

\* What Shape gives of the function and the block the pass is at.
LEMMA Here ==
    ASSUME Shape
    PROVE  /\ IsCFG(B, G) /\ Nameless(B) /\ B \subseteq AllBlocks
           /\ G = Inner(cfg, F) /\ F = Functions[fn] /\ F \in Range1(Functions)
           /\ Block \in B
           /\ bi \in 1 .. Len(BlocksOf[F]) /\ Len(BlocksOf[F]) \in Nat \ {0}
           /\ B = {BlocksOf[F][j] : j \in 1 .. Len(BlocksOf[F])}
           /\ \A b \in B : Node(b) = GetNode(B, G, b)
           /\ \A b \in B : ReachesExit(B, G, b) => IDom(b) = GetIDom(B, G, b)
<1>1. F = Functions[fn] /\ fn \in DOMAIN Functions
  BY DEF Shape, F
<1>2. IsCFG(B, G) /\ G = Inner(cfg, F)
  BY <1>1, FunctionFacts DEF IsCFG, G, B, CFGOf, Inner
<1>3. Block \in B
  BY <1>1, FunctionFacts DEF Shape, Block, B
<1>4. bi \in 1 .. Len(BlocksOf[F])
  BY <1>1, FunctionFacts DEF Shape
<1>5. \A b \in B : Node(b) = GetNode(B, G, b)
  BY DEF Shape, PostDominatorTree, Node
<1>6. \A b \in B : ReachesExit(B, G, b) => IDom(b) = GetIDom(B, G, b)
  BY DEF Shape, PostDominatorTree, IDom
<1> QED
  BY <1>1, <1>2, <1>3, <1>4, <1>5, <1>6, FunctionFacts DEF B

\* An edge inside a function leads to one of its blocks.
LEMMA SuccessorsInside ==
    ASSUME Shape, NEW b
    PROVE  Succs(G, b) \subseteq B
BY Here DEF Succs, IsCFG

\* All successors of the blocks of a function are the targets of its edges.
LEMMA LeavesBlockwise ==
    ASSUME Shape, \A j \in 1 .. Len(BlocksOf[F]) :
                     \A s \in Succs(G, BlocksOf[F][j]) : ReachesExit(B, G, s)
    PROVE  Leaves(B, G)
<1> SUFFICES ASSUME NEW e \in G PROVE ReachesExit(B, G, e[2])
  BY DEF Leaves
<1>1. e[1] \in B
  BY Here DEF IsCFG
<1>2. PICK j \in 1 .. Len(BlocksOf[F]) : e[1] = BlocksOf[F][j]
  BY <1>1, Here
<1>3. e[2] \in Succs(G, BlocksOf[F][j])
  BY <1>2 DEF Succs
<1> QED
  BY <1>3

\* What depends on all blocks is the control dependence of the function.
LEMMA UpToAll ==
    ASSUME Shape
    PROVE  UpTo(cfg, F, Len(BlocksOf[F])) = ControlDependence(B, G)
<1>1. UpTo(cfg, F, Len(BlocksOf[F])) = UNION {DependsOn(B, G, b, Succs(G, b)) : b \in B}
  BY Here DEF UpTo, B
<1> QED
  BY <1>1, DependenceIsUnion

\* ... and a block adds its own share.
LEMMA UpToNext ==
    ASSUME Shape
    PROVE  UpTo(cfg, F, bi) = UpTo(cfg, F, bi - 1) \cup DependsOn(B, G, Block, Succs(G, Block))
<1> DEFINE D(j) == DependsOn(B, G, BlocksOf[F][j], Succs(G, BlocksOf[F][j]))
<1>1. UpTo(cfg, F, bi) = UNION {D(j) : j \in 1 .. bi} /\ UpTo(cfg, F, bi - 1) = UNION {D(j) : j \in 1 .. bi - 1}
  BY Here DEF UpTo, B
<1>2. D(bi) = DependsOn(B, G, Block, Succs(G, Block))
  BY DEF Block
<1>3. 1 .. bi = (1 .. bi - 1) \cup {bi} /\ bi \in Nat
  BY Here
<1> HIDE DEF D
<1> QED
  BY <1>1, <1>2, <1>3

\* The edges recorded for earlier functions end in their own blocks.
LEMMA EarlierElsewhere ==
    ASSUME Shape, NEW e \in Earlier(cfg, fn)
    PROVE  e[2] \notin B
<1>1. PICK j \in 1 .. fn - 1 : e \in Whole(Blocks(Functions[j]), Inner(cfg, Functions[j]))
  BY DEF Earlier
<1>2. e[2] \in Blocks(Functions[j])
  BY <1>1 DEF Whole, ControlDependence
<1>3. j \in DOMAIN Functions /\ j # fn /\ fn \in DOMAIN Functions
  BY <1>1, FunctionsFacts DEF Shape
<1> QED
  BY <1>2, <1>3, FunctionsAssumption DEF B, F

\* A function adds its whole dependence.
LEMMA EarlierNext ==
    ASSUME Shape
    PROVE  Earlier(cfg, fn + 1) = Earlier(cfg, fn) \cup Whole(B, G)
<1> DEFINE D(j) == Whole(Blocks(Functions[j]), Inner(cfg, Functions[j]))
<1>1. fn \in Nat \ {0}
  BY FunctionsFacts DEF Shape
<1>2. /\ Earlier(cfg, fn) = UNION {D(j) : j \in 1 .. fn - 1}
      /\ Earlier(cfg, fn + 1) = UNION {D(j) : j \in 1 .. (fn + 1) - 1}
  BY Zenon DEF Earlier
<1>3. D(fn) = Whole(B, G)
  BY Here DEF B
<1>4. 1 .. (fn + 1) - 1 = (1 .. fn - 1) \cup {fn}
  BY <1>1
<1> HIDE DEF D
<1> QED
  BY <1>2, <1>3, <1>4

\* The second loop over the blocks adds what is missing of the function.
LEMMA EntriesComplete ==
    ASSUME Shape, bbGraph = Earlier(cfg, fn) \cup ControlDependence(B, G)
    PROVE  bbGraph \cup EntryEdges(bbGraph) = Earlier(cfg, fn + 1)
<1>1. ASSUME NEW c \in B
      PROVE  (\A e \in bbGraph : e[2] # c) <=> (\A s \in B : <<s, c>> \notin ControlDependence(B, G))
  <2>1. \A e \in ControlDependence(B, G) : e = <<e[1], e[2]>> /\ e[1] \in B
    BY DEF ControlDependence
  <2> QED
    BY <2>1, EarlierElsewhere
<1>2. EntryEdges(bbGraph) = {<<NULL, b>> : b \in {d \in B : \A s \in B : <<s, d>> \notin ControlDependence(B, G)}}
  BY <1>1 DEF EntryEdges, B
<1> QED
  BY <1>2, EarlierNext DEF Whole
-----------------------------------------------------------------------------
(* The invariant holds at the start and every step keeps it.                   *)

\* A step inside a function stays with its blocks and edges.
LEMMA SameFunction ==
    ASSUME UNCHANGED <<cfg, fn>>
    PROVE  /\ F' = F /\ B' = B /\ G' = G
           /\ Earlier(cfg, fn)' = Earlier(cfg, fn)
           /\ \A k : UpTo(cfg, F, k)' = UpTo(cfg, F, k)
BY DEF F, B, G, CFGOf

\* ... and a step inside a block with what the earlier ones recorded.
LEMMA SameBlock ==
    ASSUME UNCHANGED <<cfg, pdt, fn, bi>>
    PROVE  /\ F' = F /\ B' = B /\ G' = G /\ Block' = Block /\ Base' = Base
           /\ Shape => Shape'
<1>1. F' = F /\ B' = B /\ G' = G /\ Block' = Block
  BY SameFunction DEF Block
<1>2. Base' = Base
  BY <1>1, SameFunction DEF Base
<1> QED
  BY <1>1, <1>2 DEF Shape

\* The first function starts with nothing recorded, taken or crashed on.
LEMMA StartOfFunction ==
    ASSUME Shape, bi = 1, todo = Succs(G, Block), pc = "succ", bbGraph = Earlier(cfg, fn),
           \A j \in 1 .. fn - 1 : Leaves(Blocks(Functions[j]), Inner(cfg, Functions[j]))
    PROVE  NoCrashSoFar /\ AtSucc /\ AtClimb /\ AtEnd
<1>1. UpTo(cfg, F, bi - 1) = {}
  BY DEF UpTo
<1>2. Taken = {} /\ DependsOn(B, G, Block, Taken) = {}
  BY DEF Taken, DependsOn
<1> QED
  BY <1>1, <1>2 DEF NoCrashSoFar, AtSucc, AtClimb, AtEnd, Base

\* The pass starts at the first block of the first function, with an empty graph.
LEMMA InitInvariant == Init => IInv
<1> SUFFICES ASSUME Init PROVE IInv
  OBVIOUS
<1>1. 1 \in DOMAIN Functions /\ fn = 1 /\ F = Functions[1] /\ bi = 1
  BY FunctionsFacts DEF Init, F
<1>2. 1 \in DOMAIN BlocksOf[F]
  BY <1>1, FunctionFacts
<1>3. Shape
  BY <1>1, <1>2 DEF Init, Shape, B, G, F
<1>4. todo = Succs(G, Block)
  BY <1>1 DEF Init, G, Block
<1>5. TypeOK
  BY <1>1, <1>2, <1>3, <1>4, Here, SuccessorsInside DEF Init, TypeOK, B
<1>6. Earlier(cfg, fn) = {}
  BY <1>1 DEF Earlier
<1>7. NoCrashSoFar /\ AtSucc /\ AtClimb /\ AtEnd
  BY <1>1, <1>3, <1>4, <1>6, StartOfFunction DEF Init
<1> QED
  BY <1>3, <1>5, <1>7 DEF IInv

\* The climb starts at the successor's node, if it has one.
LEMMA TakeSuccessorKeeps == IInv /\ TakeSuccessor => IInv'
<1> SUFFICES ASSUME IInv, TakeSuccessor PROVE IInv'
  OBVIOUS
<1> USE DEF IInv
<1>1. PICK s \in todo : n' = s /\ nNode' = Node(s) /\ todo' = todo \ {s}
  BY DEF TakeSuccessor
<1>2. /\ pc = "succ" /\ pc' = "climb" /\ bbGraph' = bbGraph
      /\ UNCHANGED <<cfg, pdt, fn, bi>>
  BY DEF TakeSuccessor
<1>3. F' = F /\ B' = B /\ G' = G /\ Block' = Block /\ Base' = Base /\ Shape'
  BY <1>2, SameBlock
<1>4. todo \subseteq Succs(G, Block) /\ s \in Succs(G, Block) /\ s \in B /\ s \in AllBlocks
  BY <1>1, <1>2, Here, SuccessorsInside DEF AtSucc
<1>5. nNode' = GetNode(B, G, s)
  BY <1>1, <1>4, Here
<1>6. TypeOK'
  BY <1>1, <1>2, <1>3, <1>4, <1>5 DEF TypeOK, GetNode, Block
<1>7. Taken' = Taken \cup {s} /\ Taken' \ {s} = Taken
  BY <1>1, <1>3, <1>4 DEF Taken
<1>8. /\ \A t \in Taken : ReachesExit(B, G, t)
      /\ bbGraph = Base \cup DependsOn(B, G, Block, Taken)
  BY <1>2 DEF AtSucc
<1>9. Climbing(s)'
  <2>1. CASE ~ReachesExit(B, G, s)
    BY <1>1, <1>2, <1>3, <1>5, <1>7, <1>8, <2>1 DEF Climbing, GetNode
  <2>2. CASE ReachesExit(B, G, s)
    <3>1. nNode' = s /\ n' = s /\ s # VirtualRoot
      BY <1>1, <1>4, <1>5, <2>2, Here DEF GetNode, Nameless
    <3>2. /\ StrictPostDominators(B, G, Block) \subseteq AtOrAbove(B, G, s)
          /\ \A d \in B : PostDominates(B, G, d, s) => d \in AtOrAbove(B, G, s)
          /\ PostDominates(B, G, s, s)
      BY <1>4, Here, ClimbStart
    <3>3. Below(B, G, Block, s, s) = {}
      BY <3>2 DEF Below
    <3> QED
      BY <1>2, <1>3, <1>4, <1>7, <1>8, <2>2, <3>1, <3>2, <3>3 DEF Climbing
  <2> QED
    BY <2>1, <2>2
<1>10. AtClimb'
  BY <1>1, <1>3, <1>4, <1>7, <1>8, <1>9 DEF AtClimb
<1>11. NoCrashSoFar'
  BY <1>2, <1>3 DEF NoCrashSoFar
<1> QED
  BY <1>2, <1>3, <1>6, <1>10, <1>11 DEF AtSucc, AtEnd

\* The block behind the pass is complete; after the last one the function is.
LEMMA NextBlockKeeps == IInv /\ NextBlock => IInv'
<1> SUFFICES ASSUME IInv, NextBlock PROVE IInv'
  OBVIOUS
<1> USE DEF IInv
<1>1. pc = "succ" /\ todo = {} /\ UNCHANGED <<cfg, pdt, fn, n, nNode, bbGraph>>
  BY DEF NextBlock
<1>2. /\ F' = F /\ B' = B /\ G' = G
      /\ Earlier(cfg, fn)' = Earlier(cfg, fn)
      /\ \A k : UpTo(cfg, F, k)' = UpTo(cfg, F, k)
  BY <1>1, SameFunction
<1>3. /\ Taken = Succs(G, Block)
      /\ \A s \in Succs(G, Block) : ReachesExit(B, G, s)
      /\ bbGraph = Base \cup DependsOn(B, G, Block, Succs(G, Block))
  BY <1>1 DEF AtSucc, Taken
<1>4. bbGraph = Earlier(cfg, fn) \cup UpTo(cfg, F, bi)
  BY <1>3, UpToNext DEF Base
<1>5. bi \in 1 .. Len(BlocksOf[F]) /\ Len(BlocksOf[F]) \in Nat \ {0}
  BY Here
<1>6. \A j \in 1 .. bi : \A s \in Succs(G, BlocksOf[F][j]) : ReachesExit(B, G, s)
  <2>1. \A j \in 1 .. bi - 1 : \A s \in Succs(G, BlocksOf[F][j]) : ReachesExit(B, G, s)
    BY <1>1 DEF NoCrashSoFar
  <2>2. \A j \in 1 .. bi : j \in 1 .. bi - 1 \/ j = bi
    BY <1>5
  <2> QED
    BY <1>3, <2>1, <2>2 DEF Block
<1>7. CASE bi < Len(BlocksOf[F])
  <2>1. /\ bi' = bi + 1 /\ bi' - 1 = bi /\ pc' = "succ"
        /\ todo' = Succs(G, BlocksOf[F][bi + 1])
    BY <1>1, <1>5, <1>7 DEF NextBlock, G
  <2>2. Block' = BlocksOf[F][bi + 1]
    BY <1>2, <2>1 DEF Block
  <2>3. bi' \in DOMAIN BlocksOf[F]
    BY <1>5, <1>7, <2>1, FunctionFacts DEF Shape, F
  <2>4. Shape'
    BY <1>1, <1>2, <2>3 DEF Shape
  <2>5. TypeOK'
    BY <1>1, <1>2, <2>1, <2>3, SuccessorsInside DEF TypeOK, B
  <2>6. Base' = bbGraph
    BY <1>2, <1>4, <2>1 DEF Base
  <2>7. Taken' = {} /\ DependsOn(B, G, Block', Taken') = {}
    BY <1>2, <2>1, <2>2 DEF Taken, DependsOn
  <2>8. AtSucc'
    BY <1>1, <1>2, <2>1, <2>2, <2>6, <2>7 DEF AtSucc
  <2>9. NoCrashSoFar'
    BY <1>1, <1>2, <1>6, <2>1 DEF NoCrashSoFar
  <2> QED
    BY <2>1, <2>4, <2>5, <2>8, <2>9 DEF AtClimb, AtEnd
<1>8. CASE ~(bi < Len(BlocksOf[F]))
  <2>1. pc' = "entries" /\ UNCHANGED <<bi, todo>> /\ bi = Len(BlocksOf[F])
    BY <1>1, <1>5, <1>8 DEF NextBlock
  <2>2. Shape'
    BY <1>1, <2>1, SameBlock
  <2>3. TypeOK'
    BY <1>1, <1>2, <2>1 DEF TypeOK
  <2>4. Leaves(B, G) /\ UpTo(cfg, F, bi) = ControlDependence(B, G)
    BY <1>6, <2>1, LeavesBlockwise, UpToAll
  <2>5. AtEnd'
    BY <1>1, <1>2, <1>4, <2>1, <2>4 DEF AtEnd
  <2>6. NoCrashSoFar'
    BY <1>1, <2>1 DEF NoCrashSoFar
  <2> QED
    BY <2>1, <2>2, <2>3, <2>5, <2>6 DEF AtSucc, AtClimb
<1> QED
  BY <1>7, <1>8

\* A null pointer is met only below a successor that reaches no exit.
LEMMA NullDereferenceKeeps == IInv /\ NullDereference => IInv'
<1> SUFFICES ASSUME IInv, NullDereference PROVE IInv'
  OBVIOUS
<1> USE DEF IInv
<1>1. pc = "climb" /\ pc' = "crash" /\ UNCHANGED <<cfg, pdt, fn, bi, todo, n, nNode>>
  BY DEF NullDereference
<1>2. F' = F /\ B' = B /\ G' = G /\ Block' = Block /\ Shape'
  BY <1>1, SameBlock
<1>3. PICK s \in Taken : Climbing(s)
  BY <1>1 DEF AtClimb
<1>4. s \in Succs(G, Block) /\ s \in B /\ Block \in B /\ Block # NULL
  BY <1>3, Here, SuccessorsInside DEF Taken, Nameless
<1>5. ~ReachesExit(B, G, s)
  <2> SUFFICES ASSUME ReachesExit(B, G, s) PROVE FALSE
    OBVIOUS
  <2>1. Node(Block) = Block
    BY <1>4, Here, ReachesExitBack DEF GetNode
  <2>2. nNode # NULL
    BY <1>3, Here DEF Climbing, Nameless
  <2> QED
    BY <1>4, <2>1, <2>2 DEF NullDereference
<1>6. n \in AllBlocks
  BY <1>3, <1>4, <1>5, Here DEF Climbing
<1>7. bbGraph' \subseteq bbGraph \cup {<<Block, n>>}
  BY DEF NullDereference
<1>8. TypeOK'
  BY <1>1, <1>2, <1>4, <1>6, <1>7, Here DEF TypeOK
<1>9. Crashing
  <2>1. PICK e \in G : e[2] = s
    BY <1>4 DEF Succs
  <2> QED
    BY <1>5, <2>1, Here DEF Crashing, G, B
<1>10. Crashing' = Crashing
  BY <1>1 DEF Crashing, CFGOf
<1> QED
  BY <1>1, <1>2, <1>8, <1>9, <1>10 DEF NoCrashSoFar, AtSucc, AtClimb, AtEnd

\* At the immediate post-dominator all that the successor brings has been recorded.
LEMMA StopClimbingKeeps == IInv /\ StopClimbing => IInv'
<1> SUFFICES ASSUME IInv, StopClimbing PROVE IInv'
  OBVIOUS
<1> USE DEF IInv
<1>1. /\ pc = "climb" /\ pc' = "succ" /\ Node(Block) # NULL /\ IDom(Node(Block)) = nNode
      /\ UNCHANGED <<cfg, pdt, fn, bi, todo, n, nNode, bbGraph>>
  BY DEF StopClimbing
<1>2. F' = F /\ B' = B /\ G' = G /\ Block' = Block /\ Base' = Base /\ Shape' /\ Taken' = Taken
  BY <1>1, SameBlock DEF Taken
<1>3. PICK s \in Taken : (\A t \in Taken \ {s} : ReachesExit(B, G, t)) /\ Climbing(s)
  BY <1>1 DEF AtClimb
<1>4. Block \in B /\ s \in B
  BY <1>3, Here, SuccessorsInside DEF Taken
<1>5. ReachesExit(B, G, Block) /\ nNode = GetIDom(B, G, Block)
  <2>1. Node(Block) = GetNode(B, G, Block)
    BY <1>4, Here
  <2>2. ReachesExit(B, G, Block) /\ Node(Block) = Block
    BY <1>1, <2>1 DEF GetNode
  <2> QED
    BY <1>1, <1>4, <2>2, Here
<1>6. ReachesExit(B, G, s)
  <2> SUFFICES ASSUME ~ReachesExit(B, G, s) PROVE FALSE
    OBVIOUS
  <2>1. ManyRoots(B, G)
    BY <1>4 DEF ManyRoots
  <2>2. GetIDom(B, G, Block) # NULL
    <3>1. CASE StrictPostDominators(B, G, Block) = {}
      BY <1>4, <2>1, <3>1, Here DEF GetIDom, Nameless
    <3>2. CASE StrictPostDominators(B, G, Block) # {}
      BY <1>4, <1>5, <3>2, Here, ImmediatePostDominator DEF Nameless, StrictPostDominators
    <3> QED
      BY <3>1, <3>2
  <2> QED
    BY <1>3, <1>5, <2>2 DEF Climbing
<1>7. bbGraph = Base \cup DependsOn(B, G, Block, Taken)
  <2>1. AtOrAbove(B, G, nNode) = StrictPostDominators(B, G, Block)
    BY <1>4, <1>5, Here, ClimbStop
  <2>2. DependsOn(B, G, Block, Taken) = DependsOn(B, G, Block, Taken \ {s}) \cup Below(B, G, Block, s, nNode)
    BY <2>1, ClimbComplete
  <2> QED
    BY <1>3, <1>6, <2>2 DEF Climbing
<1>8. AtSucc'
  <2>1. todo \subseteq Succs(G, Block)
    BY <1>1 DEF AtClimb
  <2> QED
    BY <1>1, <1>2, <1>3, <1>6, <1>7, <2>1 DEF AtSucc
<1>9. TypeOK'
  BY <1>1, <1>2 DEF TypeOK
<1>10. NoCrashSoFar'
  BY <1>1, <1>2 DEF NoCrashSoFar
<1> QED
  BY <1>1, <1>2, <1>8, <1>9, <1>10 DEF AtClimb, AtEnd

\* One turn of the loop goes on to the next tree node, or leaves at a single root.
LEMMA ClimbKeeps == IInv /\ Climb => IInv'
<1> SUFFICES ASSUME IInv, Climb PROVE IInv'
  OBVIOUS
<1> USE DEF IInv
<1> DEFINE m == IDom(nNode)
<1>1. /\ pc = "climb" /\ Node(Block) # NULL /\ nNode # NULL /\ IDom(Node(Block)) # nNode
      /\ bbGraph' = bbGraph \cup {<<Block, n>>} /\ nNode' = m
      /\ UNCHANGED <<cfg, pdt, fn, bi, todo>>
  BY DEF Climb
<1>2. F' = F /\ B' = B /\ G' = G /\ Block' = Block /\ Base' = Base /\ Shape' /\ Taken' = Taken
  BY <1>1, SameBlock DEF Taken
<1>3. PICK s \in Taken : (\A t \in Taken \ {s} : ReachesExit(B, G, t)) /\ Climbing(s)
  BY <1>1 DEF AtClimb
<1>4. /\ ReachesExit(B, G, s)
      /\ nNode \in B \cup {VirtualRoot}
      /\ nNode \in B => n = nNode /\ PostDominates(B, G, nNode, s) /\ ReachesExit(B, G, nNode)
      /\ nNode = VirtualRoot => GetIDom(B, G, Block) = VirtualRoot
      /\ StrictPostDominators(B, G, Block) \subseteq AtOrAbove(B, G, nNode)
      /\ bbGraph = Base \cup DependsOn(B, G, Block, Taken \ {s}) \cup Below(B, G, Block, s, nNode)
  BY <1>1, <1>3 DEF Climbing
<1>5. Block \in B /\ s \in Succs(G, Block) /\ ReachesExit(B, G, Block)
  <2>1. Block \in B /\ s \in Succs(G, Block)
    BY <1>3, Here DEF Taken
  <2> QED
    BY <1>4, <2>1, Here, ReachesExitBack
<1>6. nNode # GetIDom(B, G, Block)
  BY <1>1, <1>5, Here DEF GetNode
<1>7. nNode \in B /\ n = nNode /\ PostDominates(B, G, nNode, s) /\ ReachesExit(B, G, nNode)
  BY <1>4, <1>6
<1>8. m = GetIDom(B, G, nNode)
  BY <1>7, Here
<1> HIDE DEF m
<1>9. /\ AtOrAbove(B, G, nNode) = {nNode} \cup AtOrAbove(B, G, m)
      /\ nNode \notin AtOrAbove(B, G, m)
      /\ StrictPostDominators(B, G, Block) \subseteq AtOrAbove(B, G, m)
      /\ m \in B \cup {NULL, VirtualRoot}
      /\ m \in B => PostDominates(B, G, m, nNode) /\ ReachesExit(B, G, m)
      /\ m = VirtualRoot => GetIDom(B, G, Block) = VirtualRoot
  BY <1>4, <1>5, <1>6, <1>7, <1>8, Here, ClimbOn
<1>10. bbGraph' = Base \cup DependsOn(B, G, Block, Taken \ {s}) \cup Below(B, G, Block, s, m)
  <2>1. Below(B, G, Block, s, m) = Below(B, G, Block, s, nNode) \cup {<<Block, nNode>>}
    <3>1. nNode \in B /\ PostDominates(B, G, nNode, s)
      BY <1>7
    <3>2. /\ AtOrAbove(B, G, nNode) = {nNode} \cup AtOrAbove(B, G, m)
          /\ nNode \notin AtOrAbove(B, G, m)
      BY <1>9
    <3> QED
      BY ONLY <3>1, <3>2, ClimbAdds
  <2> QED
    BY <1>1, <1>4, <1>7, <2>1
<1>11. todo \subseteq Succs(G, Block)
  BY <1>1 DEF AtClimb
<1>12. /\ bbGraph' \subseteq (AllBlocks \cup {NULL}) \X AllBlocks
       /\ nNode' \in AllBlocks \cup {NULL, VirtualRoot}
       /\ n \in AllBlocks
  BY <1>1, <1>5, <1>7, <1>9, Here DEF TypeOK
<1>13. CASE m = NULL
  <2>1. pc' = "succ" /\ n' = n
    BY <1>1, <1>13 DEF Climb
  <2>2. AtOrAbove(B, G, m) = {}
    BY <1>13, Here DEF AtOrAbove, Nameless
  <2>3. AtOrAbove(B, G, m) = StrictPostDominators(B, G, Block)
    BY <1>9, <2>2
  <2>4. DependsOn(B, G, Block, Taken) = DependsOn(B, G, Block, Taken \ {s}) \cup Below(B, G, Block, s, m)
    BY <2>3, ClimbComplete
  <2>5. bbGraph' = Base \cup DependsOn(B, G, Block, Taken)
    BY <1>10, <2>4
  <2>6. AtSucc'
    BY <1>1, <1>2, <1>3, <1>4, <1>11, <2>5 DEF AtSucc
  <2>7. TypeOK'
    BY <1>1, <1>2, <1>12, <2>1 DEF TypeOK
  <2>8. NoCrashSoFar'
    BY <1>1, <1>2, <2>1 DEF NoCrashSoFar
  <2> QED
    BY <1>2, <2>1, <2>6, <2>7, <2>8 DEF AtClimb, AtEnd
<1>14. CASE m # NULL
  <2>1. pc' = "climb" /\ n' = GetBlock(m)
    BY <1>1, <1>14 DEF Climb
  <2>2. m \in B => n' = m /\ PostDominates(B, G, m, s)
    BY <1>7, <1>9, <2>1, Here, PostDominatesTransitive DEF GetBlock, Nameless
  <2>3. Climbing(s)'
    BY <1>1, <1>2, <1>4, <1>9, <1>10, <1>14, <2>2 DEF Climbing
  <2>4. AtClimb'
    BY <1>1, <1>2, <1>3, <1>11, <2>3 DEF AtClimb
  <2>5. n' \in AllBlocks \cup {NULL}
    BY <1>9, <1>14, <2>1, <2>2, Here DEF GetBlock
  <2>6. TypeOK'
    BY <1>1, <1>2, <1>12, <2>1, <2>5 DEF TypeOK
  <2>7. NoCrashSoFar'
    BY <1>1, <1>2, <2>1 DEF NoCrashSoFar
  <2> QED
    BY <1>2, <2>1, <2>4, <2>6, <2>7 DEF AtSucc, AtEnd
<1> QED
  BY <1>13, <1>14

\* The edges from ENTRY complete the function, and the next one starts from there.
LEMMA AddEntriesKeeps == IInv /\ AddEntries => IInv'
<1> SUFFICES ASSUME IInv, AddEntries PROVE IInv'
  OBVIOUS
<1> USE DEF IInv
<1>1. pc = "entries" /\ bbGraph' = bbGraph \cup EntryEdges(bbGraph) /\ UNCHANGED <<cfg, n, nNode>>
  BY DEF AddEntries
<1>2. Leaves(B, G) /\ bbGraph = Earlier(cfg, fn) \cup ControlDependence(B, G)
  BY <1>1 DEF AtEnd
<1>3. bbGraph' = Earlier(cfg, fn + 1)
  BY <1>1, <1>2, EntriesComplete
<1>4. \A j \in 1 .. fn : Leaves(Blocks(Functions[j]), Inner(cfg, Functions[j]))
  <2>1. \A j \in 1 .. fn - 1 : Leaves(Blocks(Functions[j]), Inner(cfg, Functions[j]))
    BY <1>1 DEF NoCrashSoFar
  <2>2. \A j \in 1 .. fn : j \in 1 .. fn - 1 \/ j = fn
    BY FunctionsFacts DEF Shape
  <2>3. Leaves(Blocks(Functions[fn]), Inner(cfg, Functions[fn]))
    BY <1>2, Here DEF B
  <2> QED
    BY <2>1, <2>2, <2>3
<1>5. fn \in 1 .. Len(Functions) /\ Len(Functions) \in Nat \ {0}
  BY FunctionsFacts DEF Shape
<1>6. bbGraph' \subseteq (AllBlocks \cup {NULL}) \X AllBlocks
  BY <1>1, Here DEF TypeOK, EntryEdges, B
<1>7. CASE fn < Len(Functions)
  <2> DEFINE g == Functions[fn + 1]
  <2>1. /\ fn' = fn + 1 /\ bi' = 1 /\ pc' = "succ"
        /\ pdt' = PostDominatorTree(Blocks(g), CFGOf(g))
        /\ todo' = Succs(CFGOf(g), BlocksOf[g][1])
    BY <1>7 DEF AddEntries
  <2>2. fn' \in DOMAIN Functions /\ fn' - 1 = fn
    BY <1>5, <1>7, <2>1, FunctionsFacts
  <2>3. F' = g /\ B' = Blocks(g) /\ G' = CFGOf(g) /\ G' = Inner(cfg', g) /\ Block' = BlocksOf[g][1]
    BY <1>1, <2>1 DEF F, B, G, CFGOf, Inner, Block
  <2>4. 1 \in DOMAIN BlocksOf[g]
    BY <2>1, <2>2, FunctionFacts
  <2>5. Shape'
    BY <1>1, <2>1, <2>2, <2>3, <2>4 DEF Shape
  <2>6. todo' \subseteq Blocks(g)
    BY <2>1 DEF CFGOf, Succs
  <2>7. TypeOK'
    BY <1>1, <1>6, <2>1, <2>2, <2>3, <2>4, <2>6 DEF TypeOK
  <2>8. NoCrashSoFar'
    BY <1>1, <1>4, <2>1, <2>2 DEF NoCrashSoFar
  <2>9. Taken' = {} /\ DependsOn(B', G', Block', Taken') = {}
    BY <2>1, <2>3 DEF Taken, DependsOn
  <2>10. Base' = Earlier(cfg, fn + 1)
    BY <1>1, <2>1 DEF Base, UpTo, Earlier
  <2>11. AtSucc'
    BY <1>3, <2>1, <2>3, <2>9, <2>10 DEF AtSucc
  <2> QED
    BY <2>1, <2>5, <2>7, <2>8, <2>11 DEF AtClimb, AtEnd
<1>8. CASE ~(fn < Len(Functions))
  <2>1. pc' = "done" /\ UNCHANGED <<pdt, fn, bi, todo>> /\ fn = Len(Functions)
    BY <1>5, <1>8 DEF AddEntries
  <2>2. F' = F /\ B' = B /\ G' = G /\ Shape'
    BY <1>1, <2>1, SameBlock
  <2>3. TypeOK'
    BY <1>1, <1>6, <2>1, <2>2 DEF TypeOK
  <2>4. Earlier(cfg', fn' + 1) = Earlier(cfg, fn + 1)
    BY <1>1, <2>1
  <2>5. AtEnd'
    BY <1>2, <1>3, <2>1, <2>2, <2>4 DEF AtEnd
  <2>6. NoCrashSoFar'
    BY <1>1, <2>1, <1>4, <1>5 DEF NoCrashSoFar
  <2> QED
    BY <2>1, <2>2, <2>3, <2>5, <2>6 DEF AtSucc, AtClimb
<1> QED
  BY <1>7, <1>8

\* Nothing changes, nothing is lost.
LEMMA StutteringKeeps == IInv /\ UNCHANGED vars => IInv'
<1> SUFFICES ASSUME IInv, UNCHANGED vars PROVE IInv'
  OBVIOUS
<1>1. UNCHANGED <<cfg, pdt, fn, bi, todo, n, nNode, bbGraph, pc>>
  BY DEF vars
<1>2. F' = F /\ B' = B /\ G' = G /\ Block' = Block /\ Base' = Base /\ (Shape => Shape')
  BY <1>1, SameBlock
<1>3. Taken' = Taken /\ (\A s : Climbing(s)' <=> Climbing(s)) /\ Crashing' = Crashing
  BY <1>1, <1>2 DEF Taken, Climbing, Crashing, CFGOf
<1>4. (TypeOK => TypeOK') /\ (NoCrashSoFar => NoCrashSoFar') /\ (AtSucc => AtSucc')
  BY <1>1, <1>2, <1>3 DEF TypeOK, NoCrashSoFar, AtSucc
<1>5. (AtClimb => AtClimb') /\ (AtEnd => AtEnd')
  BY <1>1, <1>2, <1>3 DEF AtClimb, AtEnd
<1> QED
  BY <1>2, <1>4, <1>5 DEF IInv

\* The invariant holds throughout.
THEOREM Invariance == Spec => []IInv
<1>1. IInv /\ [Next]_vars => IInv'
  BY TakeSuccessorKeeps, NextBlockKeeps, NullDereferenceKeeps, StopClimbingKeeps, ClimbKeeps,
     AddEntriesKeeps, StutteringKeeps DEF Next
<1> QED
  BY <1>1, InitInvariant, PTL DEF Spec

-----------------------------------------------------------------------------
(* What the invariant gives.                                                   *)

\* Every variable keeps its shape, for every module and every control-flow graph.
THEOREM TypeCorrectness == Spec => []TypeOK
<1>1. IInv => TypeOK
  BY DEF IInv
<1> QED
  BY <1>1, Invariance, PTL

\* When the pass is through, every block that is entered reaches an exit.
LEMMA DoneLeaves ==
    ASSUME IInv, pc = "done"
    PROVE  \A f \in Range1(Functions) : Leaves(Blocks(f), CFGOf(f))
<1> SUFFICES ASSUME NEW f \in Range1(Functions) PROVE Leaves(Blocks(f), CFGOf(f))
  OBVIOUS
<1>1. Shape /\ NoCrashSoFar /\ AtEnd
  BY DEF IInv
<1>2. PICK j \in 1 .. Len(Functions) : f = Functions[j]
  BY FunctionsFacts
<1>3. CFGOf(f) = Inner(cfg, f)
  BY DEF CFGOf, Inner
<1>4. CASE j = fn
  BY <1>1, <1>2, <1>3, <1>4, Here DEF AtEnd, B
<1>5. CASE j # fn
  <2>1. j \in 1 .. fn - 1
    BY <1>1, <1>2, <1>5, FunctionsFacts DEF AtEnd
  <2> QED
    BY <1>1, <1>2, <1>3, <2>1 DEF NoCrashSoFar
<1> QED
  BY <1>4, <1>5

\* The climb records exactly the control dependence of every function, and ENTRY
\* controls the block each function starts with: CDG.cpp's loops, for every module.
THEOREM Completeness == Spec => []Complete
<1>1. IInv => Complete
  <2> SUFFICES ASSUME IInv, pc = "done"
               PROVE  /\ bbGraph = UNION {Whole(Blocks(f), CFGOf(f)) : f \in Range1(Functions)}
                      /\ \A f \in Range1(Functions) : <<NULL, BlocksOf[f][1]>> \in bbGraph
    BY DEF Complete, Whole, Dependence
  <2>1. Shape /\ AtEnd
    BY DEF IInv
  <2>2. bbGraph = Earlier(cfg, fn + 1) /\ fn = Len(Functions) /\ (fn + 1) - 1 = fn
    BY <2>1, FunctionsFacts DEF AtEnd
  <2>3. bbGraph = UNION {Whole(Blocks(f), CFGOf(f)) : f \in Range1(Functions)}
    <3>1. bbGraph = UNION {Whole(Blocks(Functions[j]), CFGOf(Functions[j])) : j \in 1 .. Len(Functions)}
      BY <2>2 DEF Earlier, Inner, CFGOf
    <3> QED
      BY <3>1, FunctionsFacts
  <2>4. ASSUME NEW f \in Range1(Functions)
        PROVE  <<NULL, BlocksOf[f][1]>> \in Whole(Blocks(f), CFGOf(f))
    <3>1. PICK k \in DOMAIN Functions : f = Functions[k]
      BY DEF Range1
    <3>2. IsCFG(Blocks(f), CFGOf(f)) /\ BlocksOf[f][1] \in Blocks(f)
      BY <3>1, FunctionFacts DEF IsCFG, CFGOf
    <3>3. \A e \in CFGOf(f) : e[2] # BlocksOf[f][1] /\ ReachesExit(Blocks(f), CFGOf(f), e[2])
      BY <2>1, DoneLeaves, EntryAssumption DEF Shape, CFGOf, Leaves
    <3>4. \A a \in Blocks(f) : <<a, BlocksOf[f][1]>> \notin ControlDependence(Blocks(f), CFGOf(f))
      BY <3>2, <3>3, EntryDependsOnNothing
    <3> QED
      BY <3>2, <3>4 DEF Whole
  <2> QED
    BY <2>3, <2>4
<1> QED
  BY <1>1, Invariance, PTL

\* The pass dereferences a null pointer only for a module in which an edge leads to a
\* block that reaches no exit, and gets through only for one in which none does.
THEOREM CrashCorrectness == Spec => CrashExactly
<1>1. IInv => (pc = "crash" => Crashing)
  BY DEF IInv, AtEnd
<1>2. IInv => (pc = "done" => ~Crashing)
  BY DoneLeaves DEF Crashing, Leaves
<1> QED
  BY <1>1, <1>2, Invariance, PTL DEF CrashExactly
=============================================================================
