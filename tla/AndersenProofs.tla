---------------------------- MODULE AndersenProofs ----------------------------
(* Proofs about the pointer analysis, for any number of nodes and any constraints. *)
EXTENDS Andersen, SharedProofs

-----------------------------------------------------------------------------
(* Nodes, and loops over them.                                                 *)

LEMMA NodesAreNumbers == Nodes \subseteq Nat /\ IsFiniteSet(Nodes)
BY NumNodesAssumption, FS_Interval DEF Nodes

\* How InOrder takes a set of nodes apart.
Highest(S) == [s \in SUBSET S |-> Max(s)]

LEMMA HighestPicks ==
    ASSUME NEW S \in SUBSET Nodes
    PROVE  IsFiniteSet(S) /\ Picks(S, Highest(S)) /\ \A s \in SUBSET S : Highest(S)[s] = Max(s)
<1>1. IsFiniteSet(S)
  BY NodesAreNumbers, FS_Subset
<1>2. ASSUME NEW s \in SUBSET S, s # {}
      PROVE  Max(s) \in s
  <2>1. IsFiniteSet(s)
    BY <1>1, FS_Subset
  <2>2. s \subseteq Int
    BY NodesAreNumbers
  <2>3. \E x \in s : \A y \in s : x >= y
    BY ONLY <1>2, <2>1, <2>2, GreatestMember
  <2> QED
    BY <2>3 DEF Max
<1> QED
  BY <1>1, <1>2 DEF Picks, Highest

\* A loop over S by steps from a value in A to another ...
CanLoop(S, A, base, step) == S \in SUBSET Nodes /\ base \in A /\ step \in [A \X S -> A]

LoopsTo(S, A, base, step, h) ==
    /\ h \in [SUBSET S -> A]
    /\ h[{}] = base
    /\ \A s \in SUBSET S : s # {} =>
          /\ Max(s) \in s /\ s \ {Max(s)} \in SUBSET S
          /\ h[s] = step[<<h[s \ {Max(s)}], Max(s)>>]

\* ... has a result ...
LEMMA InOrderExists ==
    ASSUME NEW S, NEW A, NEW base, NEW step, CanLoop(S, A, base, step)
    PROVE  \E h : LoopsTo(S, A, base, step, h)
<1> DEFINE pick == Highest(S)
<1>1. IsFiniteSet(S) /\ Picks(S, pick) /\ \A s \in SUBSET S : pick[s] = Max(s)
  BY HighestPicks DEF CanLoop
<1> HIDE DEF pick
<1>2. PICK h : FoldsTo(S, pick, A, base, step, h)
  <2>1. CanFold(S, pick, A, base, step)
    BY <1>1 DEF CanFold, CanLoop
  <2> QED
    BY <2>1, FoldExists
<1>3. h \in [SUBSET S -> A] /\ h[{}] = base
  BY <1>2 DEF FoldsTo
<1>4. ASSUME NEW s \in SUBSET S, s # {}
      PROVE  /\ Max(s) \in s /\ s \ {Max(s)} \in SUBSET S
             /\ h[s] = step[<<h[s \ {Max(s)}], Max(s)>>]
  BY <1>1, <1>2, <1>4 DEF Picks, FoldsTo
<1> QED
  BY <1>3, <1>4 DEF LoopsTo

\* ... of which holds what each step keeps.
LEMMA InOrderKeeps ==
    ASSUME NEW S \in SUBSET Nodes, NEW g, NEW Good, g[{}] \in Good[{}],
           \A s \in SUBSET S : s # {} /\ Max(s) \in s /\ g[s \ {Max(s)}] \in Good[s \ {Max(s)}]
                                  => g[s] \in Good[s]
    PROVE  g[S] \in Good[S]
<1>1. IsFiniteSet(S) /\ Picks(S, Highest(S)) /\ \A s \in SUBSET S : Highest(S)[s] = Max(s)
  BY HighestPicks
<1>2. \A s \in SUBSET S : s # {} /\ g[s \ {Highest(S)[s]}] \in Good[s \ {Highest(S)[s]}]
                             => g[s] \in Good[s]
  BY <1>1 DEF Picks
<1> QED
  BY <1>1, <1>2, FoldKeeps

\* Enqueueing a node.
LEMMA EnqueueAdds ==
    ASSUME NEW q \in Seq(Nodes), NEW n \in Nodes
    PROVE  Enqueue(q, n) \in Seq(Nodes) /\ ToSet(Enqueue(q, n)) = ToSet(q) \cup {n}
<1>1. CASE n \in ToSet(q)
  BY <1>1 DEF Enqueue
<1>2. CASE n \notin ToSet(q)
  <2>1. Enqueue(q, n) = Append(q, n)
    BY <1>2 DEF Enqueue
  <2>2. DOMAIN Append(q, n) = 1 .. Len(q) + 1 /\ DOMAIN q = 1 .. Len(q) /\ Len(q) \in Nat
    OBVIOUS
  <2>3. \A i \in 1 .. Len(q) : Append(q, n)[i] = q[i]
    OBVIOUS
  <2>4. Append(q, n)[Len(q) + 1] = n
    OBVIOUS
  <2>5. ToSet(Append(q, n)) = ToSet(q) \cup {n}
    BY <2>2, <2>3, <2>4 DEF ToSet
  <2> QED
    BY <2>1, <2>5
<1> QED
  BY <1>1, <1>2

-----------------------------------------------------------------------------
(* What the graph says up to merging.                                          *)

Edges == [copy : SUBSET Nodes, load : SUBSET Nodes, store : SUBSET Nodes]
Graphs == UNION {[D -> Edges] : D \in SUBSET Nodes}
PointsToSets == UNION {[D -> SUBSET Nodes] : D \in SUBSET Nodes}

\* The edges of each kind, with the merge targets r of the nodes they lead to.
Copies(g, r) == {p \in Nodes \X Nodes : p[1] \in DOMAIN g /\ \E d \in g[p[1]].copy : r[d] = p[2]}
Loads(g, r) == {p \in Nodes \X Nodes : p[1] \in DOMAIN g /\ \E d \in g[p[1]].load : r[d] = p[2]}
Stores(g, r) == {p \in Nodes \X Nodes : p[1] \in DOMAIN g /\ \E d \in g[p[1]].store : r[d] = p[2]}

MergeMaps == {r \in [Nodes -> Nodes] : \A n \in Nodes : r[r[n]] = r[n]}

\* What the loops about a node n work on.
Inner(n) == {st \in [pts : PointsToSets, graph : Graphs, next : Seq(Nodes),
                     candidates : SUBSET Nodes, checked : SUBSET (Nodes \X Nodes)] :
                n \in DOMAIN st.graph /\ n \in DOMAIN st.pts}

\* From a to b the copy edges W are added, and the nodes they leave queued if they are new.
Adds(r, a, b, W) ==
    /\ b.pts = a.pts /\ b.candidates = a.candidates /\ b.checked = a.checked
    /\ DOMAIN b.graph = DOMAIN a.graph \cup {e[1] : e \in W}
    /\ Copies(b.graph, r) = Copies(a.graph, r) \cup W
    /\ Loads(b.graph, r) = Loads(a.graph, r) /\ Stores(b.graph, r) = Stores(a.graph, r)
    /\ ToSet(a.next) \subseteq ToSet(b.next)
    /\ \A e \in W : e \in Copies(a.graph, r) \/ e[1] \in ToSet(b.next)

\* Adding some edges, then others.
LEMMA AddsMore ==
    ASSUME NEW r, NEW a, NEW b, NEW c, NEW V, NEW W, Adds(r, a, b, V), Adds(r, b, c, W)
    PROVE  Adds(r, a, c, V \cup W)
BY DEF Adds

\* A graph with other edges at one node.
LEMMA GraphShape ==
    ASSUME NEW g, g \in Graphs
    PROVE  /\ DOMAIN g \in SUBSET Nodes
           /\ \A u \in DOMAIN g : g[u] \in Edges
           /\ g = [u \in DOMAIN g |-> g[u]]
BY DEF Graphs

LEMMA GraphFrom ==
    ASSUME NEW D \in SUBSET Nodes, NEW g, g = [u \in D |-> g[u]], \A u \in D : g[u] \in Edges
    PROVE  g \in Graphs /\ DOMAIN g = D
<1>1. g \in [D -> Edges] /\ DOMAIN g = D
  OBVIOUS
<1> QED
  BY <1>1 DEF Graphs

\* One edge.
LEMMA InsertAdds ==
    ASSUME NEW r \in MergeMaps, NEW n \in Nodes, NEW st \in Inner(n), NEW e \in Nodes \X Nodes,
           r[e[2]] = e[2]
    PROVE  InsertCopyEdge(st, e) \in Inner(n) /\ Adds(r, st, InsertCopyEdge(st, e), {e})
<1> DEFINE u == e[1]
           v == e[2]
           g == st.graph
           old(x) == IF x \in DOMAIN g THEN g[x] ELSE NoEdges
           h == [x \in DOMAIN g \cup {u} |->
                    IF x = u THEN [old(x) EXCEPT !.copy = @ \cup {v}] ELSE old(x)]
           t == InsertCopyEdge(st, e)
<1>1. /\ st.pts \in PointsToSets /\ g \in Graphs /\ st.next \in Seq(Nodes)
      /\ st.candidates \in SUBSET Nodes /\ st.checked \in SUBSET (Nodes \X Nodes)
      /\ n \in DOMAIN g /\ n \in DOMAIN st.pts
  BY DEF Inner
<1>2. u \in Nodes /\ v \in Nodes /\ e = <<u, v>> /\ r[v] = v
  OBVIOUS
<1>3. NoEdges \in Edges /\ NoEdges.copy = {} /\ NoEdges.load = {} /\ NoEdges.store = {}
  BY DEF NoEdges, Edges
<1>4. DOMAIN g \in SUBSET Nodes /\ \A x \in DOMAIN g : g[x] \in Edges
  BY <1>1, GraphShape
<1>5. CASE u \in DOMAIN g /\ v \in g[u].copy
  <2>1. t = st
    BY <1>5 DEF InsertCopyEdge
  <2>2. e \in Copies(g, r)
    BY <1>2, <1>5 DEF Copies
  <2> HIDE DEF t
  <2> QED
    BY <1>2, <1>5, <2>1, <2>2 DEF Adds, t
<1>6. CASE ~(u \in DOMAIN g /\ v \in g[u].copy)
  <2>1. t = [st EXCEPT !.graph = h, !.next = Enqueue(st.next, u)]
    BY <1>6 DEF InsertCopyEdge
  <2>2. /\ t.pts = st.pts /\ t.candidates = st.candidates /\ t.checked = st.checked
        /\ t.graph = h /\ t.next = Enqueue(st.next, u)
    BY <2>1 DEF Inner
  <2>3. t.next \in Seq(Nodes) /\ ToSet(t.next) = ToSet(st.next) \cup {u}
    BY <1>1, <1>2, <2>2, EnqueueAdds
  <2>4. ASSUME NEW x \in DOMAIN g \cup {u}
        PROVE  /\ h[x] \in Edges
               /\ h[x].copy = old(x).copy \cup (IF x = u THEN {v} ELSE {})
               /\ h[x].load = old(x).load /\ h[x].store = old(x).store
    BY <1>2, <1>3, <1>4 DEF Edges
  <2>5. h \in Graphs /\ DOMAIN h = DOMAIN g \cup {u}
    <3>1. DOMAIN g \cup {u} \in SUBSET Nodes
      BY <1>2, <1>4
    <3>2. h = [x \in DOMAIN g \cup {u} |-> h[x]]
      OBVIOUS
    <3>3. \A x \in DOMAIN g \cup {u} : h[x] \in Edges
      BY <2>4
    <3> HIDE DEF h
    <3> QED
      BY <3>1, <3>2, <3>3, GraphFrom
  <2>6. t \in Inner(n)
    BY <1>1, <2>1, <2>2, <2>3, <2>5 DEF Inner
  <2> HIDE DEF t, h
  <2>7. Copies(h, r) = Copies(g, r) \cup {e}
    BY <1>2, <1>3, <1>4, <2>4, <2>5 DEF Copies
  <2>8. Loads(h, r) = Loads(g, r) /\ Stores(h, r) = Stores(g, r)
    BY <1>3, <1>4, <2>4, <2>5 DEF Loads, Stores
  <2> QED
    BY <1>2, <2>2, <2>3, <2>5, <2>6, <2>7, <2>8 DEF Adds, t
<1> QED
  BY <1>5, <1>6

\* Several edges, one after the other.
LEMMA InsertAllAdds ==
    ASSUME NEW r \in MergeMaps, NEW n \in Nodes, NEW st \in Inner(n), NEW S \in SUBSET Nodes,
           NEW e \in [S -> Nodes \X Nodes], \A d \in S : r[e[d][2]] = e[d][2]
    PROVE  /\ InsertCopyEdges(st, e) \in Inner(n)
           /\ Adds(r, st, InsertCopyEdges(st, e), {e[d] : d \in S})
<1> DEFINE A == Inner(n)
           step == [p \in A \X S |-> InsertCopyEdge(p[1], e[p[2]])]
           Eqn(g) == g = [s \in SUBSET S |->
                             IF s = {} THEN st ELSE InsertCopyEdge(g[s \ {Max(s)}], e[Max(s)])]
           fold == CHOOSE g : Eqn(g)
           Good == [s \in SUBSET S |-> {t \in A : Adds(r, st, t, {e[d] : d \in s})}]
<1>1. InsertCopyEdges(st, e) = fold[S]
  BY DEF InsertCopyEdges, InOrder, MapThenFoldSet
<1>2. st \in A
  OBVIOUS
<1>3. ASSUME NEW t \in A, NEW d \in S
      PROVE  InsertCopyEdge(t, e[d]) \in A /\ Adds(r, t, InsertCopyEdge(t, e[d]), {e[d]})
  BY InsertAdds
<1>4. /\ step \in [A \X S -> A]
      /\ \A t \in A, d \in S : step[<<t, d>>] = InsertCopyEdge(t, e[d])
  BY <1>3
<1> HIDE DEF A, step
<1>5. Eqn(fold)
  <2>1. CanLoop(S, A, st, step)
    BY <1>2, <1>4 DEF CanLoop
  <2>2. PICK h : LoopsTo(S, A, st, step, h)
    BY <2>1, InOrderExists
  <2>3. Eqn(h)
    BY <1>4, <2>2 DEF LoopsTo
  <2> HIDE DEF Eqn
  <2> QED
    BY <2>3
<1> HIDE DEF fold
<1>6. fold[{}] \in Good[{}]
  <2>1. fold[{}] = st
    BY <1>5
  <2> QED
    BY <1>2, <2>1 DEF Adds
<1>7. ASSUME NEW s \in SUBSET S, s # {}, Max(s) \in s,
             fold[s \ {Max(s)}] \in Good[s \ {Max(s)}]
      PROVE  fold[s] \in Good[s]
  <2> DEFINE m == Max(s)
             a == fold[s \ {m}]
  <2>1. a \in A /\ Adds(r, st, a, {e[d] : d \in s \ {m}})
    BY <1>7
  <2>2. fold[s] = InsertCopyEdge(a, e[m])
    BY <1>5, <1>7
  <2>3. m \in s
    BY <1>7
  <2> HIDE DEF m, a
  <2>4. fold[s] \in A /\ Adds(r, a, fold[s], {e[m]})
    BY <1>3, <2>1, <2>2, <2>3
  <2>5. Adds(r, st, fold[s], {e[d] : d \in s \ {m}} \cup {e[m]})
    BY <2>1, <2>4, AddsMore
  <2>6. {e[d] : d \in s \ {m}} \cup {e[m]} = {e[d] : d \in s}
    BY <2>3
  <2> QED
    BY <2>4, <2>5, <2>6
<1>8. fold[S] \in Good[S]
  <2> HIDE DEF Good
  <2> QED
    BY <1>6, <1>7, InOrderKeeps
<1> QED
  BY <1>1, <1>8 DEF A

\* Renaming the targets of edges of n changes nothing up to merging.
LEMMA RenameAdds ==
    ASSUME NEW r \in MergeMaps, NEW n \in Nodes, NEW st \in Inner(n)
    PROVE  /\ LET t == [st EXCEPT !.graph[n].load = Rename(@, r)]
              IN  t \in Inner(n) /\ Adds(r, st, t, {})
           /\ LET t == [st EXCEPT !.graph[n].store = Rename(@, r)]
              IN  t \in Inner(n) /\ Adds(r, st, t, {})
<1> DEFINE g == st.graph
           loaded == [g EXCEPT ![n].load = Rename(@, r)]
           stored == [g EXCEPT ![n].store = Rename(@, r)]
           a == [st EXCEPT !.graph[n].load = Rename(@, r)]
           b == [st EXCEPT !.graph[n].store = Rename(@, r)]
<1>1. /\ st.pts \in PointsToSets /\ g \in Graphs /\ st.next \in Seq(Nodes)
      /\ st.candidates \in SUBSET Nodes /\ st.checked \in SUBSET (Nodes \X Nodes)
      /\ n \in DOMAIN g /\ n \in DOMAIN st.pts
  BY DEF Inner
<1>2. DOMAIN g \in SUBSET Nodes /\ \A u \in DOMAIN g : g[u] \in Edges
  BY <1>1, GraphShape
<1>3. \A D \in SUBSET Nodes : Rename(D, r) \in SUBSET Nodes /\ \A x \in Nodes :
          (\E d \in Rename(D, r) : r[d] = x) <=> (\E d \in D : r[d] = x)
  BY DEF Rename, MergeMaps
<1>4. /\ DOMAIN loaded = DOMAIN g /\ DOMAIN stored = DOMAIN g
      /\ loaded = [u \in DOMAIN g |-> loaded[u]] /\ stored = [u \in DOMAIN g |-> stored[u]]
  OBVIOUS
<1>5. ASSUME NEW u \in DOMAIN g
      PROVE  /\ loaded[u] \in Edges /\ loaded[u].copy = g[u].copy /\ loaded[u].store = g[u].store
             /\ loaded[u].load = IF u = n THEN Rename(g[u].load, r) ELSE g[u].load
             /\ stored[u] \in Edges /\ stored[u].copy = g[u].copy /\ stored[u].load = g[u].load
             /\ stored[u].store = IF u = n THEN Rename(g[u].store, r) ELSE g[u].store
  BY <1>2, <1>3 DEF Edges
<1>6. /\ a.pts = st.pts /\ a.candidates = st.candidates /\ a.checked = st.checked
      /\ a.graph = loaded /\ a.next = st.next
      /\ b.pts = st.pts /\ b.candidates = st.candidates /\ b.checked = st.checked
      /\ b.graph = stored /\ b.next = st.next
  BY DEF Inner
<1> HIDE DEF loaded, stored
<1>7. loaded \in Graphs /\ stored \in Graphs
  BY <1>2, <1>4, <1>5, GraphFrom
<1>8. a \in Inner(n) /\ b \in Inner(n)
  BY <1>1, <1>4, <1>6, <1>7 DEF Inner
<1> HIDE DEF a, b
<1>9. Copies(loaded, r) = Copies(g, r) /\ Copies(stored, r) = Copies(g, r)
  BY <1>4, <1>5 DEF Copies
<1>10. Loads(loaded, r) = Loads(g, r) /\ Loads(stored, r) = Loads(g, r)
  <2>1. ASSUME NEW u \in DOMAIN g, NEW x \in Nodes
        PROVE  (\E d \in loaded[u].load : r[d] = x) <=> (\E d \in g[u].load : r[d] = x)
    <3>1. g[u].load \in SUBSET Nodes
      BY <1>2 DEF Edges
    <3> QED
      BY <1>3, <1>5, <3>1
  <2>2. DOMAIN loaded = DOMAIN g /\ DOMAIN stored = DOMAIN g
    BY <1>4
  <2>3. \A u \in DOMAIN g : stored[u].load = g[u].load
    BY <1>5
  <2> QED
    BY <2>1, <2>2, <2>3 DEF Loads
<1>11. Stores(loaded, r) = Stores(g, r) /\ Stores(stored, r) = Stores(g, r)
  <2>1. ASSUME NEW u \in DOMAIN g, NEW x \in Nodes
        PROVE  (\E d \in stored[u].store : r[d] = x) <=> (\E d \in g[u].store : r[d] = x)
    <3>1. g[u].store \in SUBSET Nodes
      BY <1>2 DEF Edges
    <3> QED
      BY <1>3, <1>5, <3>1
  <2>2. DOMAIN loaded = DOMAIN g /\ DOMAIN stored = DOMAIN g
    BY <1>4
  <2>3. \A u \in DOMAIN g : loaded[u].store = g[u].store
    BY <1>5
  <2> QED
    BY <2>1, <2>2, <2>3 DEF Stores
<1>12. Adds(r, st, a, {}) /\ Adds(r, st, b, {})
  BY <1>4, <1>6, <1>9, <1>10, <1>11 DEF Adds
<1> QED
  BY <1>8, <1>12 DEF a, b

\* The copy edges back to n itself keep their names.
RenameCopies(n, st, r) ==
    [st EXCEPT !.graph[n].copy = {d \in @ : r[d] = n} \cup Rename({d \in @ : r[d] # n}, r)]

LEMMA RenameCopiesAdds ==
    ASSUME NEW r \in MergeMaps, NEW n \in Nodes, NEW st \in Inner(n)
    PROVE  RenameCopies(n, st, r) \in Inner(n) /\ Adds(r, st, RenameCopies(n, st, r), {})
<1> DEFINE g == st.graph
           Renamed(D) == {d \in D : r[d] = n} \cup Rename({d \in D : r[d] # n}, r)
           copied == [g EXCEPT ![n].copy = {d \in @ : r[d] = n} \cup Rename({d \in @ : r[d] # n}, r)]
           t == [st EXCEPT !.graph[n].copy =
                    {d \in @ : r[d] = n} \cup Rename({d \in @ : r[d] # n}, r)]
<1>1. /\ st.pts \in PointsToSets /\ g \in Graphs /\ st.next \in Seq(Nodes)
      /\ st.candidates \in SUBSET Nodes /\ st.checked \in SUBSET (Nodes \X Nodes)
      /\ n \in DOMAIN g /\ n \in DOMAIN st.pts
  BY DEF Inner
<1>2. DOMAIN g \in SUBSET Nodes /\ \A u \in DOMAIN g : g[u] \in Edges
  BY <1>1, GraphShape
<1>3. \A D \in SUBSET Nodes : Renamed(D) \in SUBSET Nodes /\ \A x \in Nodes :
          (\E d \in Renamed(D) : r[d] = x) <=> (\E d \in D : r[d] = x)
  BY DEF Rename, MergeMaps
<1>4. DOMAIN copied = DOMAIN g /\ copied = [u \in DOMAIN g |-> copied[u]]
  OBVIOUS
<1>5. ASSUME NEW u \in DOMAIN g
      PROVE  /\ copied[u] \in Edges /\ copied[u].load = g[u].load /\ copied[u].store = g[u].store
             /\ copied[u].copy = IF u = n THEN Renamed(g[u].copy) ELSE g[u].copy
  <2>1. g[u] \in Edges /\ Renamed(g[u].copy) \in SUBSET Nodes
    BY <1>2, <1>3 DEF Edges
  <2>2. CASE u # n
    <3>1. copied[u] = g[u]
      BY <2>2
    <3> QED
      BY <2>1, <2>2, <3>1
  <2>3. CASE u = n
    <3>1. copied[u] = [g[u] EXCEPT !.copy = Renamed(g[u].copy)]
      BY <2>3
    <3> HIDE DEF copied, Renamed
    <3> QED
      BY <2>1, <2>3, <3>1 DEF Edges
  <2> QED
    BY <2>2, <2>3
<1>6. /\ t.pts = st.pts /\ t.candidates = st.candidates /\ t.checked = st.checked
      /\ t.graph = copied /\ t.next = st.next
  BY DEF Inner
<1> HIDE DEF copied
<1>7. copied \in Graphs
  BY <1>2, <1>4, <1>5, GraphFrom
<1>8. t \in Inner(n)
  BY <1>1, <1>4, <1>6, <1>7 DEF Inner
<1> HIDE DEF t
<1>9. Loads(copied, r) = Loads(g, r) /\ Stores(copied, r) = Stores(g, r)
  BY <1>4, <1>5 DEF Loads, Stores
<1>10. Copies(copied, r) = Copies(g, r)
  <2>1. ASSUME NEW u \in DOMAIN g, NEW x \in Nodes
        PROVE  (\E d \in copied[u].copy : r[d] = x) <=> (\E d \in g[u].copy : r[d] = x)
    <3>1. g[u].copy \in SUBSET Nodes
      BY <1>2 DEF Edges
    <3> HIDE DEF Renamed
    <3> QED
      BY <1>3, <1>5, <3>1
  <2> QED
    BY <1>4, <2>1 DEF Copies
<1>11. Adds(r, st, t, {})
  BY <1>4, <1>6, <1>9, <1>10 DEF Adds
<1>12. RenameCopies(n, st, r) = t
  BY DEF RenameCopies, t
<1> QED
  BY <1>8, <1>11, <1>12

\* What the loads and stores of n ask for because n points to v.
LoadedBy(n, st, v, r) == {e \in Nodes \X Nodes : e[1] = r[v] /\ <<n, e[2]>> \in Loads(st.graph, r)}
StoredBy(n, st, v, r) == {e \in Nodes \X Nodes : e[2] = r[v] /\ <<n, e[1]>> \in Stores(st.graph, r)}

LEMMA PointeeLoadedAdds ==
    ASSUME NEW r \in MergeMaps, NEW n \in Nodes, NEW st \in Inner(n), NEW v \in Nodes
    PROVE  /\ PointeeLoaded(n, st, v, r) \in Inner(n)
           /\ Adds(r, st, PointeeLoaded(n, st, v, r), LoadedBy(n, st, v, r))
<1> DEFINE S == st.graph[n].load
           e == [d \in S |-> <<r[v], r[d]>>]
           a == InsertCopyEdges(st, e)
           W == {e[d] : d \in S}
<1>1. n \in DOMAIN st.graph /\ S \in SUBSET Nodes
  BY GraphShape DEF Inner, Edges
<1>2. e \in [S -> Nodes \X Nodes] /\ \A d \in S : r[e[d][2]] = e[d][2]
  BY <1>1 DEF MergeMaps
<1>3. W = LoadedBy(n, st, v, r)
  <2>1. \A x \in Nodes : <<n, x>> \in Loads(st.graph, r) <=> \E d \in S : r[d] = x
    BY <1>1 DEF Loads
  <2>2. r \in [Nodes -> Nodes] /\ r[v] \in Nodes /\ \A d \in S : r[d] \in Nodes
    BY <1>1 DEF MergeMaps
  <2>3. W = {<<r[v], r[d]>> : d \in S}
    OBVIOUS
  <2> HIDE DEF S, W
  <2>4. ASSUME NEW p \in W
        PROVE  p \in LoadedBy(n, st, v, r)
    BY <2>1, <2>2, <2>3 DEF LoadedBy
  <2>5. ASSUME NEW p \in LoadedBy(n, st, v, r)
        PROVE  p \in W
    <3>1. PICK d \in S : r[d] = p[2]
      BY <2>1 DEF LoadedBy
    <3>2. p = <<r[v], r[d]>>
      BY <3>1 DEF LoadedBy
    <3> QED
      BY <2>3, <3>2
  <2> QED
    BY <2>4, <2>5
<1> HIDE DEF S, e
<1>4. a \in Inner(n) /\ Adds(r, st, a, W)
  BY <1>1, <1>2, InsertAllAdds
<1> DEFINE b == [a EXCEPT !.graph[n].load = Rename(@, r)]
<1>5. PointeeLoaded(n, st, v, r) = b
  BY DEF PointeeLoaded, S, e
<1> HIDE DEF a, W
<1>6. b \in Inner(n) /\ Adds(r, a, b, {})
  BY <1>4, RenameAdds
<1> HIDE DEF b
<1>7. Adds(r, st, b, W \cup {})
  BY <1>4, <1>6, AddsMore
<1>8. W \cup {} = W
  OBVIOUS
<1> QED
  BY <1>3, <1>5, <1>6, <1>7, <1>8

LEMMA PointeeStoredAdds ==
    ASSUME NEW r \in MergeMaps, NEW n \in Nodes, NEW st \in Inner(n), NEW v \in Nodes
    PROVE  /\ PointeeStored(n, st, v, r) \in Inner(n)
           /\ Adds(r, st, PointeeStored(n, st, v, r), StoredBy(n, st, v, r))
<1> DEFINE S == st.graph[n].store
           e == [d \in S |-> <<r[d], r[v]>>]
           a == InsertCopyEdges(st, e)
           W == {e[d] : d \in S}
<1>1. n \in DOMAIN st.graph /\ S \in SUBSET Nodes
  BY GraphShape DEF Inner, Edges
<1>2. e \in [S -> Nodes \X Nodes] /\ \A d \in S : r[e[d][2]] = e[d][2]
  BY <1>1 DEF MergeMaps
<1>3. W = StoredBy(n, st, v, r)
  <2>1. \A x \in Nodes : <<n, x>> \in Stores(st.graph, r) <=> \E d \in S : r[d] = x
    BY <1>1 DEF Stores
  <2>2. r \in [Nodes -> Nodes] /\ r[v] \in Nodes /\ \A d \in S : r[d] \in Nodes
    BY <1>1 DEF MergeMaps
  <2>3. W = {<<r[d], r[v]>> : d \in S}
    OBVIOUS
  <2> HIDE DEF S, W
  <2>4. ASSUME NEW p \in W
        PROVE  p \in StoredBy(n, st, v, r)
    BY <2>1, <2>2, <2>3 DEF StoredBy
  <2>5. ASSUME NEW p \in StoredBy(n, st, v, r)
        PROVE  p \in W
    <3>1. PICK d \in S : r[d] = p[1]
      BY <2>1 DEF StoredBy
    <3>2. p = <<r[d], r[v]>>
      BY <3>1 DEF StoredBy
    <3> QED
      BY <2>3, <3>2
  <2> QED
    BY <2>4, <2>5
<1> HIDE DEF S, e
<1>4. a \in Inner(n) /\ Adds(r, st, a, W)
  BY <1>1, <1>2, InsertAllAdds
<1> DEFINE b == [a EXCEPT !.graph[n].store = Rename(@, r)]
<1>5. PointeeStored(n, st, v, r) = b
  BY DEF PointeeStored, S, e
<1> HIDE DEF a, W
<1>6. b \in Inner(n) /\ Adds(r, a, b, {})
  BY <1>4, RenameAdds
<1> HIDE DEF b
<1>7. Adds(r, st, b, W \cup {})
  BY <1>4, <1>6, AddsMore
<1>8. W \cup {} = W
  OBVIOUS
<1> QED
  BY <1>3, <1>5, <1>6, <1>7, <1>8

\* ... and because n points to the members of s.
Wanted(n, st, s, r) ==
    {e \in Nodes \X Nodes : \E v \in s : e \in LoadedBy(n, st, v, r) \cup StoredBy(n, st, v, r)}

\* One pointee.
LEMMA PointeeAdds ==
    ASSUME NEW r \in MergeMaps, NEW n \in Nodes, NEW a \in Inner(n), NEW v \in Nodes
    PROVE  LET t == PointeeStored(n, PointeeLoaded(n, a, v, r), v, r)
           IN  t \in Inner(n) /\ Adds(r, a, t, LoadedBy(n, a, v, r) \cup StoredBy(n, a, v, r))
<1> DEFINE b == PointeeLoaded(n, a, v, r)
           t == PointeeStored(n, b, v, r)
<1>1. b \in Inner(n) /\ Adds(r, a, b, LoadedBy(n, a, v, r))
  BY PointeeLoadedAdds
<1> HIDE DEF b
<1>2. t \in Inner(n) /\ Adds(r, b, t, StoredBy(n, b, v, r))
  BY <1>1, PointeeStoredAdds
<1>3. StoredBy(n, b, v, r) = StoredBy(n, a, v, r)
  BY <1>1 DEF Adds, StoredBy
<1> HIDE DEF t
<1>4. Adds(r, a, t, LoadedBy(n, a, v, r) \cup StoredBy(n, a, v, r))
  BY <1>1, <1>2, <1>3, AddsMore
<1> QED
  BY <1>2, <1>4 DEF t, b

LEMMA AfterIndirectAdds ==
    ASSUME NEW r \in MergeMaps, NEW n \in Nodes, NEW st \in Inner(n)
    PROVE  /\ AfterIndirect(n, st, r) \in Inner(n)
           /\ Adds(r, st, AfterIndirect(n, st, r), Wanted(n, st, st.pts[n], r))
<1> DEFINE S == st.pts[n]
           A == Inner(n)
           Pointee(t, v) == PointeeStored(n, PointeeLoaded(n, t, v, r), v, r)
           step == [p \in A \X S |-> Pointee(p[1], p[2])]
           Eqn(g) == g = [s \in SUBSET S |->
                             IF s = {} THEN st ELSE Pointee(g[s \ {Max(s)}], Max(s))]
           fold == CHOOSE g : Eqn(g)
           Good == [s \in SUBSET S |-> {t \in A : Adds(r, st, t, Wanted(n, st, s, r))}]
<1>1. AfterIndirect(n, st, r) = fold[S]
  BY DEF AfterIndirect, InOrder, MapThenFoldSet
<1>2. st \in A /\ S \in SUBSET Nodes
  BY DEF Inner, PointsToSets
<1> HIDE DEF S
<1>3. ASSUME NEW t \in A, NEW v \in S
      PROVE  /\ Pointee(t, v) \in A
             /\ Adds(r, t, Pointee(t, v), LoadedBy(n, t, v, r) \cup StoredBy(n, t, v, r))
  BY <1>2, PointeeAdds
<1> HIDE DEF Pointee
<1>4. /\ step \in [A \X S -> A]
      /\ \A t \in A, v \in S : step[<<t, v>>] = Pointee(t, v)
  BY <1>3
<1> HIDE DEF A, step
<1>5. Eqn(fold)
  <2>1. CanLoop(S, A, st, step)
    BY <1>2, <1>4 DEF CanLoop
  <2>2. PICK h : LoopsTo(S, A, st, step, h)
    BY <2>1, InOrderExists
  <2>3. Eqn(h)
    BY <1>4, <2>2 DEF LoopsTo
  <2> HIDE DEF Eqn
  <2> QED
    BY <2>3
<1> HIDE DEF fold
<1>6. fold[{}] \in Good[{}]
  <2>1. fold[{}] = st
    BY <1>5
  <2>2. Wanted(n, st, {}, r) = {}
    BY DEF Wanted
  <2> QED
    BY <1>2, <2>1, <2>2 DEF Adds
<1>7. ASSUME NEW s \in SUBSET S, s # {}, Max(s) \in s,
             fold[s \ {Max(s)}] \in Good[s \ {Max(s)}]
      PROVE  fold[s] \in Good[s]
  <2> DEFINE m == Max(s)
             a == fold[s \ {m}]
  <2>1. a \in A /\ Adds(r, st, a, Wanted(n, st, s \ {m}, r))
    BY <1>7
  <2>2. fold[s] = Pointee(a, m)
    BY <1>5, <1>7
  <2>3. m \in s
    BY <1>7
  <2> HIDE DEF m, a
  <2>4. fold[s] \in A /\ Adds(r, a, fold[s], LoadedBy(n, a, m, r) \cup StoredBy(n, a, m, r))
    BY <1>3, <2>1, <2>2, <2>3
  <2>5. Adds(r, st, fold[s], Wanted(n, st, s \ {m}, r) \cup (LoadedBy(n, a, m, r) \cup StoredBy(n, a, m, r)))
    BY <2>1, <2>4, AddsMore
  <2>6. LoadedBy(n, a, m, r) = LoadedBy(n, st, m, r) /\ StoredBy(n, a, m, r) = StoredBy(n, st, m, r)
    BY <2>1 DEF Adds, LoadedBy, StoredBy
  <2>7. Wanted(n, st, s \ {m}, r) \cup (LoadedBy(n, a, m, r) \cup StoredBy(n, a, m, r)) = Wanted(n, st, s, r)
    <3>1. LoadedBy(n, st, m, r) \in SUBSET (Nodes \X Nodes) /\ StoredBy(n, st, m, r) \in SUBSET (Nodes \X Nodes)
      BY DEF LoadedBy, StoredBy
    <3> QED
      BY <2>3, <2>6, <3>1 DEF Wanted
  <2> QED
    BY <2>4, <2>5, <2>7
<1>8. fold[S] \in Good[S]
  <2> HIDE DEF Good
  <2> QED
    BY <1>2, <1>6, <1>7, InOrderKeeps
<1> QED
  BY <1>1, <1>8 DEF A, S

-----------------------------------------------------------------------------
(* Handing on what n points to.                                                *)

Held(st, x) == IF x \in DOMAIN st.pts THEN st.pts[x] ELSE {}

\* From a to b the pointees of n are added to those of T, and what changes is queued.
Hands(n, a, b, T) ==
    /\ b.graph = a.graph
    /\ DOMAIN b.pts = DOMAIN a.pts \cup (T \ {n})
    /\ \A x \in Nodes : Held(b, x) = Held(a, x) \cup (IF x \in T \ {n} THEN Held(a, n) ELSE {})
    /\ ToSet(a.next) \subseteq ToSet(b.next)
    /\ \A x \in Nodes : Held(b, x) # Held(a, x) => x \in ToSet(b.next)

LEMMA HandsMore ==
    ASSUME NEW n \in Nodes, NEW a, NEW b, NEW c, NEW T, NEW U, Hands(n, a, b, T), Hands(n, b, c, U)
    PROVE  Hands(n, a, c, T \cup U)
<1>1. \A x \in Nodes : Held(c, x) = Held(a, x) \cup (IF x \in (T \cup U) \ {n} THEN Held(a, n) ELSE {})
  BY DEF Hands
<1> QED
  BY <1>1 DEF Hands

LEMMA PropagateToHands ==
    ASSUME NEW n \in Nodes, NEW st \in Inner(n), NEW u \in Nodes
    PROVE  PropagateTo(n, st, u) \in Inner(n) /\ Hands(n, st, PropagateTo(n, st, u), {u})
<1> DEFINE old == IF u \in DOMAIN st.pts THEN st.pts[u] ELSE {}
           new == old \cup st.pts[n]
           suspect == options.lcd /\ new = old /\ old = st.pts[n] /\ <<n, u>> \notin st.checked
           p == [x \in DOMAIN st.pts \cup {u} |-> IF x = u THEN new ELSE st.pts[x]]
           t == PropagateTo(n, st, u)
<1>1. /\ st.pts \in PointsToSets /\ st.graph \in Graphs /\ st.next \in Seq(Nodes)
      /\ st.candidates \in SUBSET Nodes /\ st.checked \in SUBSET (Nodes \X Nodes)
      /\ n \in DOMAIN st.graph /\ n \in DOMAIN st.pts
  BY DEF Inner
<1>2. DOMAIN st.pts \in SUBSET Nodes /\ \A x \in DOMAIN st.pts : st.pts[x] \in SUBSET Nodes
  BY <1>1 DEF PointsToSets
<1>3. CASE u = n
  <2>1. t = st
    BY <1>3 DEF PropagateTo
  <2> HIDE DEF t
  <2> QED
    BY <1>3, <2>1 DEF Hands, t
<1>4. CASE u # n
  <2>1. t = [st EXCEPT !.pts = p, !.next = IF new # old THEN Enqueue(@, u) ELSE @,
                       !.checked = IF suspect THEN @ \cup {<<n, u>>} ELSE @,
                       !.candidates = IF suspect THEN @ \cup {u} ELSE @]
    BY <1>4 DEF PropagateTo
  <2> HIDE DEF suspect, t, p, new, old
  <2>2. /\ t.pts = p /\ t.graph = st.graph
        /\ t.next = IF new # old THEN Enqueue(st.next, u) ELSE st.next
        /\ t.checked = IF suspect THEN st.checked \cup {<<n, u>>} ELSE st.checked
        /\ t.candidates = IF suspect THEN st.candidates \cup {u} ELSE st.candidates
    BY <2>1 DEF Inner
  <2>3. /\ t.next \in Seq(Nodes) /\ ToSet(st.next) \subseteq ToSet(t.next)
        /\ new # old => u \in ToSet(t.next)
    BY <1>1, <2>2, EnqueueAdds
  <2>4. new \in SUBSET Nodes
    BY <1>1, <1>2 DEF new, old
  <2>5. p \in PointsToSets /\ DOMAIN p = DOMAIN st.pts \cup {u}
    <3>1. p \in [DOMAIN st.pts \cup {u} -> SUBSET Nodes]
      BY <1>2, <2>4 DEF p
    <3> QED
      BY <1>2, <3>1 DEF PointsToSets
  <2>6. t \in Inner(n)
    <3>1. t.checked \in SUBSET (Nodes \X Nodes) /\ t.candidates \in SUBSET Nodes
      BY <1>1, <2>2
    <3>2. t = [pts |-> p, graph |-> st.graph, next |-> t.next, candidates |-> t.candidates,
               checked |-> t.checked]
      BY <2>1, <2>2 DEF Inner
    <3> QED
      BY <1>1, <2>2, <2>3, <2>5, <3>1, <3>2 DEF Inner
  <2>7. \A x \in Nodes : Held(t, x) = Held(st, x) \cup (IF x = u THEN Held(st, n) ELSE {})
    BY <1>1, <2>2 DEF Held, p, new, old
  <2>8. \A x \in Nodes : Held(t, x) # Held(st, x) => x \in ToSet(t.next)
    BY <2>2, <2>3 DEF Held, p, new, old
  <2>9. Hands(n, st, t, {u})
    BY <1>4, <2>2, <2>3, <2>5, <2>7, <2>8 DEF Hands
  <2> QED
    BY <2>6, <2>9 DEF t
<1> QED
  BY <1>3, <1>4

\* The representatives of the targets of n's copy edges.
Targets(g, n, r) == {x \in Nodes : <<n, x>> \in Copies(g, r)}

LEMMA AfterPropagationHands ==
    ASSUME NEW r \in MergeMaps, NEW n \in Nodes, NEW st \in Inner(n)
    PROVE  /\ AfterPropagation(n, st, r) \in Inner(n)
           /\ \E t : /\ Hands(n, st, t, Targets(st.graph, n, r))
                     /\ Adds(r, t, AfterPropagation(n, st, r), {})
<1> DEFINE S == st.graph[n].copy
           A == Inner(n)
           Copy(t, d) == PropagateTo(n, t, r[d])
           step == [p \in A \X S |-> Copy(p[1], p[2])]
           Eqn(g) == g = [s \in SUBSET S |->
                             IF s = {} THEN st ELSE Copy(g[s \ {Max(s)}], Max(s))]
           fold == CHOOSE g : Eqn(g)
           Good == [s \in SUBSET S |-> {t \in A : Hands(n, st, t, {r[d] : d \in s})}]
           u == fold[S]
<1>1. AfterPropagation(n, st, r) = RenameCopies(n, u, r)
  BY DEF AfterPropagation, InOrder, MapThenFoldSet, RenameCopies
<1>2. st \in A /\ S \in SUBSET Nodes /\ n \in DOMAIN st.graph
  BY GraphShape DEF Inner, Edges
<1>3. Targets(st.graph, n, r) = {r[d] : d \in S}
  <2>1. \A x \in Nodes : <<n, x>> \in Copies(st.graph, r) <=> \E d \in S : r[d] = x
    BY <1>2 DEF Copies
  <2>2. \A d \in S : r[d] \in Nodes
    BY <1>2 DEF MergeMaps
  <2> HIDE DEF S
  <2> QED
    BY <2>1, <2>2 DEF Targets
<1> HIDE DEF S
<1>4. ASSUME NEW t \in A, NEW d \in S
      PROVE  Copy(t, d) \in A /\ Hands(n, t, Copy(t, d), {r[d]})
  BY <1>2, PropagateToHands DEF MergeMaps
<1> HIDE DEF Copy
<1>5. /\ step \in [A \X S -> A]
      /\ \A t \in A, d \in S : step[<<t, d>>] = Copy(t, d)
  BY <1>4
<1> HIDE DEF A, step
<1>6. Eqn(fold)
  <2>1. CanLoop(S, A, st, step)
    BY <1>2, <1>5 DEF CanLoop
  <2>2. PICK h : LoopsTo(S, A, st, step, h)
    BY <2>1, InOrderExists
  <2>3. Eqn(h)
    BY <1>5, <2>2 DEF LoopsTo
  <2> HIDE DEF Eqn
  <2> QED
    BY <2>3
<1> HIDE DEF fold
<1>7. fold[{}] \in Good[{}]
  <2>1. fold[{}] = st
    BY <1>6
  <2> QED
    BY <1>2, <2>1 DEF Hands
<1>8. ASSUME NEW s \in SUBSET S, s # {}, Max(s) \in s,
             fold[s \ {Max(s)}] \in Good[s \ {Max(s)}]
      PROVE  fold[s] \in Good[s]
  <2> DEFINE m == Max(s)
             a == fold[s \ {m}]
  <2>1. a \in A /\ Hands(n, st, a, {r[d] : d \in s \ {m}})
    BY <1>8
  <2>2. fold[s] = Copy(a, m)
    BY <1>6, <1>8
  <2>3. m \in s
    BY <1>8
  <2> HIDE DEF m, a
  <2>4. fold[s] \in A /\ Hands(n, a, fold[s], {r[m]})
    BY <1>4, <2>1, <2>2, <2>3
  <2>5. Hands(n, st, fold[s], {r[d] : d \in s \ {m}} \cup {r[m]})
    BY <2>1, <2>4, HandsMore
  <2>6. {r[d] : d \in s \ {m}} \cup {r[m]} = {r[d] : d \in s}
    BY <2>3
  <2> QED
    BY <2>4, <2>5, <2>6
<1>9. u \in Good[S]
  <2> HIDE DEF Good
  <2> QED
    BY <1>2, <1>7, <1>8, InOrderKeeps
<1>10. u \in Inner(n) /\ Hands(n, st, u, Targets(st.graph, n, r))
  BY <1>3, <1>9 DEF A
<1> HIDE DEF u
<1>11. AfterPropagation(n, st, r) \in Inner(n) /\ Adds(r, u, AfterPropagation(n, st, r), {})
  BY <1>1, <1>10, RenameCopiesAdds
<1> QED
  BY <1>10, <1>11

\* What examining n comes to: from a, the nodes having been merged by r, to b.
Examines(n, a, b, r) ==
    \E W \in {Wanted(n, a, a.pts[n], r)} :
        /\ DOMAIN b.graph = DOMAIN a.graph \cup {e[1] : e \in W}
        /\ Copies(b.graph, r) = Copies(a.graph, r) \cup W
        /\ Loads(b.graph, r) = Loads(a.graph, r) /\ Stores(b.graph, r) = Stores(a.graph, r)
        /\ \E T \in {Targets(b.graph, n, r) \ {n}} :
              /\ DOMAIN b.pts = DOMAIN a.pts \cup T
              /\ \A x \in Nodes : Held(b, x) = Held(a, x) \cup (IF x \in T THEN Held(a, n) ELSE {})
        /\ ToSet(a.next) \subseteq ToSet(b.next)
        /\ \A e \in W : e \in Copies(a.graph, r) \/ e[1] \in ToSet(b.next)
        /\ \A x \in Nodes : Held(b, x) # Held(a, x) => x \in ToSet(b.next)

LEMMA ExaminedNode ==
    ASSUME NEW r \in MergeMaps, NEW n \in Nodes, NEW st \in Inner(n)
    PROVE  LET t == AfterPropagation(n, AfterIndirect(n, st, r), r)
           IN  t \in Inner(n) /\ Examines(n, st, t, r)
<1> DEFINE W == Wanted(n, st, st.pts[n], r)
           a == AfterIndirect(n, st, r)
           t == AfterPropagation(n, a, r)
           T == Targets(a.graph, n, r)
<1>1. a \in Inner(n) /\ Adds(r, st, a, W)
  BY AfterIndirectAdds
<1> HIDE DEF a, W
<1>2. t \in Inner(n)
  BY <1>1, AfterPropagationHands
<1>3. PICK b : Hands(n, a, b, T) /\ Adds(r, b, t, {})
  BY <1>1, AfterPropagationHands
<1> HIDE DEF t
<1>4. T = Targets(t.graph, n, r)
  BY <1>3 DEF Hands, Adds, Targets
<1>5. \A x : Held(a, x) = Held(st, x) /\ Held(b, x) = Held(t, x)
  BY <1>1, <1>3 DEF Adds, Held
<1> HIDE DEF T
<1>6. /\ DOMAIN t.graph = DOMAIN st.graph \cup {e[1] : e \in W}
      /\ Copies(t.graph, r) = Copies(st.graph, r) \cup W
      /\ Loads(t.graph, r) = Loads(st.graph, r) /\ Stores(t.graph, r) = Stores(st.graph, r)
  BY <1>1, <1>3 DEF Adds, Hands
<1>7. /\ ToSet(st.next) \subseteq ToSet(t.next)
      /\ \A e \in W : e \in Copies(st.graph, r) \/ e[1] \in ToSet(t.next)
  BY <1>1, <1>3 DEF Adds, Hands
<1>8. DOMAIN t.pts = DOMAIN st.pts \cup (T \ {n})
  BY <1>1, <1>3 DEF Adds, Hands
<1>9. \A x \in Nodes : Held(t, x) = Held(st, x) \cup (IF x \in T \ {n} THEN Held(st, n) ELSE {})
  BY <1>3, <1>5 DEF Hands
<1>10. \A x \in Nodes : Held(t, x) # Held(st, x) => x \in ToSet(t.next)
  BY <1>3, <1>5 DEF Adds, Hands
<1>11. Examines(n, st, t, r)
  BY <1>4, <1>6, <1>7, <1>8, <1>9, <1>10 DEF Examines, W
<1> QED
  BY <1>2, <1>11 DEF t, a

-----------------------------------------------------------------------------
(* Paths and components.                                                       *)

Transitive(Q, S) == \A x, y, z \in S : <<x, y>> \in Q /\ <<y, z>> \in Q => <<x, z>> \in Q

\* P is the transitive closure of E over S.
Closure(P, E, S) ==
    /\ P \in SUBSET (S \X S)
    /\ E \subseteq P
    /\ Transitive(P, S)
    /\ \A Q \in SUBSET (S \X S) : E \subseteq Q /\ Transitive(Q, S) => P \subseteq Q

\* The pairs joined by paths through the nodes of s alone, as found so far.
Through(s, R, E, S) ==
    /\ R \in SUBSET (S \X S)
    /\ E \subseteq R
    /\ \A x, y \in S, z \in s : <<x, z>> \in R /\ <<z, y>> \in R => <<x, y>> \in R
    /\ \A Q \in SUBSET (S \X S) : E \subseteq Q /\ Transitive(Q, S) => R \subseteq Q

LEMMA PathsAreClosure ==
    ASSUME NEW S, IsFiniteSet(S), NEW E \in SUBSET (S \X S)
    PROVE  Closure(Paths(E, S), E, S)
<1> DEFINE A == SUBSET (S \X S)
           Join(z, R) == R \cup ({x \in S : <<x, z>> \in R} \X {y \in S : <<z, y>> \in R})
           pick == [s \in SUBSET S |-> CHOOSE x \in s : TRUE]
           step == [p \in A \X S |-> Join(p[2], p[1])]
           Eqn(g) == g = [s \in SUBSET S |->
                             IF s = {} THEN E
                             ELSE Join(CHOOSE x \in s : TRUE, g[s \ {CHOOSE x \in s : TRUE}])]
           fold == CHOOSE g : Eqn(g)
           Good == [s \in SUBSET S |-> {R \in A : Through(s, R, E, S)}]
<1>1. Paths(E, S) = fold[S]
  BY DEF Paths, FoldSet, MapThenFoldSet
<1>2. /\ Picks(S, pick)
      /\ \A s \in SUBSET S : pick[s] = CHOOSE x \in s : TRUE
  BY DEF Picks
<1>3. ASSUME NEW R \in A, NEW z \in S
      PROVE  Join(z, R) \in A
  OBVIOUS
<1>4. /\ step \in [A \X S -> A]
      /\ \A R \in A, z \in S : step[<<R, z>>] = Join(z, R)
  BY <1>3
<1> HIDE DEF pick, step, Join
<1>5. Eqn(fold)
  <2>1. CanFold(S, pick, A, E, step)
    BY <1>2, <1>4 DEF CanFold
  <2>2. PICK h : FoldsTo(S, pick, A, E, step, h)
    BY <2>1, FoldExists
  <2>3. ASSUME NEW s \in SUBSET S, s # {}
        PROVE  h[s] = Join(pick[s], h[s \ {pick[s]}])
    BY <1>2, <1>4, <2>2, <2>3 DEF FoldsTo, Picks
  <2>4. Eqn(h)
    BY <1>2, <2>2, <2>3 DEF FoldsTo
  <2> HIDE DEF Eqn
  <2> QED
    BY <2>4
<1>6. /\ fold[{}] = E
      /\ \A s \in SUBSET S : s # {} => fold[s] = Join(pick[s], fold[s \ {pick[s]}])
  BY <1>2, <1>5
<1> HIDE DEF fold
<1>7. fold[{}] \in Good[{}]
  BY <1>6 DEF Through
<1>8. ASSUME NEW s \in SUBSET S, NEW z \in s, NEW R \in A, Through(s \ {z}, R, E, S)
      PROVE  Through(s, Join(z, R), E, S)
  <2>1. \A x, y \in S : <<x, y>> \in Join(z, R) <=>
            <<x, y>> \in R \/ (<<x, z>> \in R /\ <<z, y>> \in R)
    BY <1>8 DEF Join
  <2>2. Join(z, R) \in SUBSET (S \X S) /\ E \subseteq Join(z, R)
    BY <1>3, <1>8 DEF Join, Through
  <2>3. ASSUME NEW x \in S, NEW y \in S, NEW w \in s,
               <<x, w>> \in Join(z, R), <<w, y>> \in Join(z, R)
        PROVE  <<x, y>> \in Join(z, R)
    <3>1. \A a, b \in S : w # z /\ <<a, w>> \in R /\ <<w, b>> \in R => <<a, b>> \in R
      BY <1>8 DEF Through
    <3>2. z \in S /\ w \in S
      OBVIOUS
    <3> QED
      BY <2>1, <2>3, <3>1, <3>2
  <2>4. ASSUME NEW Q \in SUBSET (S \X S), E \subseteq Q, Transitive(Q, S)
        PROVE  Join(z, R) \subseteq Q
    <3>1. R \subseteq Q
      BY <1>8, <2>4 DEF Through
    <3>2. ASSUME NEW x \in S, NEW y \in S, <<x, y>> \in Join(z, R)
          PROVE  <<x, y>> \in Q
      <4>1. <<x, y>> \in R => <<x, y>> \in Q
        BY <3>1
      <4>2. <<x, z>> \in R /\ <<z, y>> \in R => <<x, y>> \in Q
        BY <2>4, <3>1 DEF Transitive
      <4> QED
        BY <2>1, <3>2, <4>1, <4>2
    <3> QED
      BY <2>2, <3>2
  <2> QED
    BY <2>2, <2>3, <2>4 DEF Through
<1>9. ASSUME NEW s \in SUBSET S, s # {}, fold[s \ {pick[s]}] \in Good[s \ {pick[s]}]
      PROVE  fold[s] \in Good[s]
  <2> DEFINE z == pick[s]
             R == fold[s \ {z}]
  <2>1. z \in s /\ fold[s] = Join(z, R)
    BY <1>2, <1>6, <1>9 DEF Picks
  <2>2. R \in A /\ Through(s \ {z}, R, E, S)
    BY <1>9
  <2> HIDE DEF z, R
  <2>3. Through(s, Join(z, R), E, S) /\ Join(z, R) \in A
    BY <1>3, <1>8, <2>1, <2>2
  <2> QED
    BY <2>1, <2>3
<1>10. fold[S] \in Good[S]
  <2> HIDE DEF Good
  <2> QED
    BY <1>2, <1>7, <1>9, FoldKeeps
<1> QED
  BY <1>1, <1>10 DEF Through, Closure, Transitive

\* A path starts with an edge.
LEMMA FirstEdge ==
    ASSUME NEW S, NEW E \in SUBSET (S \X S), NEW P, Closure(P, E, S),
           NEW x \in S, NEW y \in S, <<x, y>> \in P
    PROVE  \E z \in S : <<x, z>> \in E /\ (z = y \/ <<z, y>> \in P)
<1> DEFINE Q == {p \in S \X S : \E z \in S : <<p[1], z>> \in E /\ (z = p[2] \/ <<z, p[2]>> \in P)}
<1>1. E \subseteq Q
  OBVIOUS
<1>2. Q \subseteq P
  <2>1. ASSUME NEW a \in S, NEW b \in S, <<a, b>> \in Q
        PROVE  <<a, b>> \in P
    <3>1. PICK z \in S : <<a, z>> \in E /\ (z = b \/ <<z, b>> \in P)
      BY <2>1
    <3>2. <<a, z>> \in P
      BY <3>1 DEF Closure
    <3> QED
      BY <3>1, <3>2 DEF Closure, Transitive
  <2>2. Q \in SUBSET (S \X S)
    OBVIOUS
  <2> HIDE DEF Q
  <2> QED
    BY <2>1, <2>2
<1>3. Transitive(Q, S)
  BY <1>2 DEF Transitive, Closure
<1>4. P \subseteq Q
  BY <1>1, <1>3 DEF Closure
<1> QED
  BY <1>4

\* Two components are the same or have no member in common.
LEMMA ComponentsAreClasses ==
    ASSUME NEW S, IsFiniteSet(S), NEW E \in SUBSET (S \X S)
    PROVE  /\ UNION Components(E, S) = S
           /\ \A C \in Components(E, S) : C # {}
           /\ \A C, D \in Components(E, S), x \in S : x \in C /\ x \in D => C = D
           /\ \A C \in Components(E, S), x, y \in S :
                 x \in C => (y \in C <=> y = x \/ (<<x, y>> \in Paths(E, S) /\ <<y, x>> \in Paths(E, S)))
<1> DEFINE P == Paths(E, S)
           Class(x) == {y \in S : y = x \/ (<<x, y>> \in P /\ <<y, x>> \in P)}
<1>1. Components(E, S) = {Class(x) : x \in S}
  BY DEF Components
<1>2. Transitive(P, S)
  BY PathsAreClosure DEF Closure
<1> HIDE DEF P
<1>3. ASSUME NEW x \in S, NEW y \in Class(x)
      PROVE  Class(y) = Class(x)
  BY <1>2 DEF Transitive
<1>4. UNION Components(E, S) = S /\ \A C \in Components(E, S) : C # {}
  <2>1. \A x \in S : x \in Class(x) /\ Class(x) \in SUBSET S
    OBVIOUS
  <2> HIDE DEF Class
  <2> QED
    BY <1>1, <2>1
<1>5. ASSUME NEW C \in Components(E, S), NEW x \in S, x \in C
      PROVE  C = Class(x)
  <2>1. PICK z \in S : C = Class(z)
    BY <1>1
  <2> HIDE DEF Class
  <2> QED
    BY <1>3, <1>5, <2>1
<1>6. \A C, D \in Components(E, S), x \in S : x \in C /\ x \in D => C = D
  <2> HIDE DEF Class
  <2> QED
    BY <1>5
<1>7. \A C \in Components(E, S), x, y \in S :
          x \in C => (y \in C <=> y = x \/ (<<x, y>> \in P /\ <<y, x>> \in P))
  BY <1>5
<1> QED
  BY <1>4, <1>6, <1>7 DEF P

-----------------------------------------------------------------------------
(* Merging.                                                                    *)

\* Representatives move to representatives, which stay where they are.
GoodMove(r, to) ==
    /\ to \in [Nodes -> Nodes]
    /\ \A u \in Nodes : r[u] = u => r[to[u]] = to[u] /\ to[to[u]] = to[u]

Moved(r, to) == [n \in Nodes |-> to[r[n]]]

\* What p holds for n when r has the representatives.
HeldBy(p, r, n) == IF r[n] \in DOMAIN p THEN p[r[n]] ELSE {}

LEMMA MovePtsMerges ==
    ASSUME NEW p \in PointsToSets, NEW to \in [Nodes -> Nodes]
    PROVE  /\ MovePts(p, to) \in PointsToSets
           /\ DOMAIN MovePts(p, to) = {to[x] : x \in DOMAIN p}
           /\ \A x \in DOMAIN p : p[x] \subseteq MovePts(p, to)[to[x]]
           /\ \A u \in DOMAIN MovePts(p, to) : \A o \in MovePts(p, to)[u] :
                 \E x \in DOMAIN p : to[x] = u /\ o \in p[x]
<1> DEFINE q == MovePts(p, to)
           D == {to[x] : x \in DOMAIN p}
<1>1. DOMAIN p \in SUBSET Nodes /\ \A x \in DOMAIN p : p[x] \in SUBSET Nodes
  BY DEF PointsToSets
<1>2. q = [u \in D |-> UNION {p[x] : x \in {x \in DOMAIN p : to[x] = u}}]
  BY DEF MovePts
<1> HIDE DEF q
<1>3. D \in SUBSET Nodes
  BY <1>1
<1>4. ASSUME NEW u \in D
      PROVE  /\ q[u] \in SUBSET Nodes
             /\ \A x \in DOMAIN p : to[x] = u => p[x] \subseteq q[u]
             /\ \A o \in q[u] : \E x \in DOMAIN p : to[x] = u /\ o \in p[x]
  BY <1>1, <1>2
<1>5. q \in [D -> SUBSET Nodes]
  BY <1>2, <1>4
<1>6. q \in PointsToSets /\ DOMAIN q = D
  BY <1>3, <1>5 DEF PointsToSets
<1> QED
  BY <1>4, <1>6 DEF q

\* The nodes of h are those of g, moved by to, with the edges of all that moved there.
Gathers(g, to, h) ==
    /\ DOMAIN h = {to[x] : x \in DOMAIN g}
    /\ \A x \in DOMAIN g : /\ g[x].copy \subseteq h[to[x]].copy
                           /\ g[x].load \subseteq h[to[x]].load
                           /\ g[x].store \subseteq h[to[x]].store
    /\ \A u \in DOMAIN h :
          /\ \A d \in h[u].copy : \E x \in DOMAIN g : to[x] = u /\ d \in g[x].copy
          /\ \A d \in h[u].load : \E x \in DOMAIN g : to[x] = u /\ d \in g[x].load
          /\ \A d \in h[u].store : \E x \in DOMAIN g : to[x] = u /\ d \in g[x].store

LEMMA MoveGraphMerges ==
    ASSUME NEW g \in Graphs, NEW to \in [Nodes -> Nodes]
    PROVE  /\ MoveGraph(g, to) \in Graphs
           /\ DOMAIN MoveGraph(g, to) = {to[x] : x \in DOMAIN g}
           /\ Gathers(g, to, MoveGraph(g, to))
<1> DEFINE h == MoveGraph(g, to)
           D == {to[x] : x \in DOMAIN g}
           From(u) == {x \in DOMAIN g : to[x] = u}
<1>1. DOMAIN g \in SUBSET Nodes /\ \A x \in DOMAIN g : g[x] \in Edges
  BY GraphShape
<1>2. h = [u \in D |-> [copy  |-> UNION {g[x].copy : x \in From(u)},
                        load  |-> UNION {g[x].load : x \in From(u)},
                        store |-> UNION {g[x].store : x \in From(u)}]]
  BY DEF MoveGraph
<1> HIDE DEF h
<1>3. D \in SUBSET Nodes
  BY <1>1
<1>4. \A x \in DOMAIN g : g[x].copy \in SUBSET Nodes /\ g[x].load \in SUBSET Nodes /\ g[x].store \in SUBSET Nodes
  BY <1>1 DEF Edges
<1>5. ASSUME NEW u \in D
      PROVE  /\ h[u].copy = UNION {g[x].copy : x \in From(u)}
             /\ h[u].load = UNION {g[x].load : x \in From(u)}
             /\ h[u].store = UNION {g[x].store : x \in From(u)}
             /\ h[u] = [copy |-> h[u].copy, load |-> h[u].load, store |-> h[u].store]
  BY <1>2
<1>6. ASSUME NEW u \in D
      PROVE  /\ h[u] \in Edges
             /\ \A d : /\ d \in h[u].copy <=> \E x \in DOMAIN g : to[x] = u /\ d \in g[x].copy
                       /\ d \in h[u].load <=> \E x \in DOMAIN g : to[x] = u /\ d \in g[x].load
                       /\ d \in h[u].store <=> \E x \in DOMAIN g : to[x] = u /\ d \in g[x].store
  <2>1. \A d : d \in h[u].copy <=> \E x \in DOMAIN g : to[x] = u /\ d \in g[x].copy
    <3>1. h[u].copy = UNION {g[x].copy : x \in From(u)}
      BY <1>5
    <3> QED
      BY ONLY <3>1
  <2>2. \A d : d \in h[u].load <=> \E x \in DOMAIN g : to[x] = u /\ d \in g[x].load
    <3>1. h[u].load = UNION {g[x].load : x \in From(u)}
      BY <1>5
    <3> QED
      BY ONLY <3>1
  <2>3. \A d : d \in h[u].store <=> \E x \in DOMAIN g : to[x] = u /\ d \in g[x].store
    <3>1. h[u].store = UNION {g[x].store : x \in From(u)}
      BY <1>5
    <3> QED
      BY ONLY <3>1
  <2>4. h[u].copy \in SUBSET Nodes /\ h[u].load \in SUBSET Nodes /\ h[u].store \in SUBSET Nodes
    BY <1>4, <2>1, <2>2, <2>3
  <2>5. h[u] = [copy |-> h[u].copy, load |-> h[u].load, store |-> h[u].store]
    BY <1>5
  <2>6. h[u] \in Edges
    BY ONLY <2>4, <2>5 DEF Edges
  <2> QED
    BY <2>1, <2>2, <2>3, <2>6
<1>7. h = [u \in D |-> h[u]]
  BY <1>2
<1>8. h \in Graphs /\ DOMAIN h = D
  BY <1>3, <1>6, <1>7, GraphFrom
<1>9. \A x \in DOMAIN g : /\ g[x].copy \subseteq h[to[x]].copy
                         /\ g[x].load \subseteq h[to[x]].load
                         /\ g[x].store \subseteq h[to[x]].store
  <2> SUFFICES ASSUME NEW x \in DOMAIN g
               PROVE  /\ g[x].copy \subseteq h[to[x]].copy
                      /\ g[x].load \subseteq h[to[x]].load
                      /\ g[x].store \subseteq h[to[x]].store
    OBVIOUS
  <2>1. to[x] \in D
    OBVIOUS
  <2> QED
    BY <1>6, <2>1
<1>10. Gathers(g, to, h)
  BY <1>6, <1>8, <1>9 DEF Gathers
<1> QED
  BY <1>8, <1>10 DEF h

\* A move keeps the merge maps in shape, leaves nothing with nodes that were merged away,
\* and takes no pointee from a node.
LEMMA MoveKeeps ==
    ASSUME NEW r \in MergeMaps, NEW to, GoodMove(r, to),
           NEW p \in PointsToSets, \A u \in DOMAIN p : r[u] = u,
           NEW g \in Graphs, \A u \in DOMAIN g : r[u] = u
    PROVE  /\ Moved(r, to) \in MergeMaps
           /\ MovePts(p, to) \in PointsToSets
           /\ MoveGraph(g, to) \in Graphs
           /\ \A u \in DOMAIN MovePts(p, to) \cup DOMAIN MoveGraph(g, to) : Moved(r, to)[u] = u
           /\ \A n \in Nodes : HeldBy(p, r, n) \subseteq HeldBy(MovePts(p, to), Moved(r, to), n)
<1> DEFINE m == Moved(r, to)
<1>1. r \in [Nodes -> Nodes] /\ to \in [Nodes -> Nodes] /\ \A n \in Nodes : r[r[n]] = r[n]
  BY DEF MergeMaps, GoodMove
<1>2. \A n \in Nodes : m[n] = to[r[n]] /\ m[n] \in Nodes
  BY <1>1 DEF Moved
<1>3. ASSUME NEW x \in Nodes, r[x] = x
      PROVE  m[to[x]] = to[x]
  BY <1>1, <1>2, <1>3 DEF GoodMove
<1>4. m \in MergeMaps
  <2>1. m \in [Nodes -> Nodes]
    BY <1>1 DEF Moved
  <2>2. \A n \in Nodes : m[m[n]] = m[n]
    BY <1>1, <1>2, <1>3
  <2> QED
    BY <2>1, <2>2 DEF MergeMaps
<1> HIDE DEF m
<1>5. DOMAIN p \in SUBSET Nodes /\ DOMAIN g \in SUBSET Nodes
  BY GraphShape DEF PointsToSets
<1>6. \A u \in DOMAIN MovePts(p, to) : m[u] = u
  <2>1. DOMAIN MovePts(p, to) = {to[x] : x \in DOMAIN p}
    BY <1>1, MovePtsMerges
  <2> QED
    BY <1>3, <1>5, <2>1
<1>7. \A u \in DOMAIN MoveGraph(g, to) : m[u] = u
  <2>1. DOMAIN MoveGraph(g, to) = {to[x] : x \in DOMAIN g}
    BY <1>1, MoveGraphMerges
  <2> QED
    BY <1>3, <1>5, <2>1
<1>8. MovePts(p, to) \in PointsToSets /\ MoveGraph(g, to) \in Graphs
  BY <1>1, MovePtsMerges, MoveGraphMerges
<1>9. ASSUME NEW n \in Nodes
      PROVE  HeldBy(p, r, n) \subseteq HeldBy(MovePts(p, to), m, n)
  <2>1. CASE r[n] \in DOMAIN p
    <3>1. /\ DOMAIN MovePts(p, to) = {to[x] : x \in DOMAIN p}
          /\ \A x \in DOMAIN p : p[x] \subseteq MovePts(p, to)[to[x]]
      BY <1>1, MovePtsMerges
    <3>2. to[r[n]] \in DOMAIN MovePts(p, to) /\ p[r[n]] \subseteq MovePts(p, to)[to[r[n]]]
      BY <2>1, <3>1
    <3> QED
      BY <1>2, <2>1, <3>2 DEF HeldBy
  <2>2. CASE r[n] \notin DOMAIN p
    BY <2>2 DEF HeldBy
  <2> QED
    BY <2>1, <2>2
<1> QED
  BY <1>4, <1>6, <1>7, <1>8, <1>9 DEF m

\* Moving a set of nodes to a representative.
LEMMA MoveAllIsGood ==
    ASSUME NEW r \in MergeMaps, NEW S, NEW u \in Nodes, r[u] = u
    PROVE  GoodMove(r, MoveAll(S, u))
BY DEF GoodMove, MoveAll, MergeMaps

\* Nothing moves.
LEMMA NoMove ==
    ASSUME NEW r \in MergeMaps, NEW p \in PointsToSets, NEW g \in Graphs,
           NEW to, to = [u \in Nodes |-> u]
    PROVE  Moved(r, to) = r /\ MovePts(p, to) = p /\ MoveGraph(g, to) = g
<1>1. to \in [Nodes -> Nodes] /\ \A u \in Nodes : to[u] = u
  OBVIOUS
<1>2. Moved(r, to) = r
  BY DEF Moved, MergeMaps
<1>3. MovePts(p, to) = p
  <2> DEFINE q == MovePts(p, to)
  <2>1. DOMAIN p \in SUBSET Nodes /\ p = [x \in DOMAIN p |-> p[x]]
    BY DEF PointsToSets
  <2>2. q = [u \in {to[x] : x \in DOMAIN p} |-> UNION {p[x] : x \in {x \in DOMAIN p : to[x] = u}}]
    BY DEF MovePts
  <2> HIDE DEF q
  <2>3. DOMAIN q = DOMAIN p
    BY <1>1, <2>1, <2>2
  <2>4. ASSUME NEW u \in DOMAIN p
        PROVE  q[u] = p[u]
    <3>1. {x \in DOMAIN p : to[x] = u} = {u}
      BY <1>1, <2>1
    <3>2. q[u] = UNION {p[x] : x \in {x \in DOMAIN p : to[x] = u}}
      BY <2>2, <2>3
    <3>3. UNION {p[x] : x \in {u}} = p[u]
      OBVIOUS
    <3> QED
      BY <3>1, <3>2, <3>3
  <2>5. q = [u \in DOMAIN p |-> q[u]]
    BY <2>2, <2>3
  <2> QED
    BY <2>1, <2>4, <2>5 DEF q
<1>4. MoveGraph(g, to) = g
  <2> DEFINE h == MoveGraph(g, to)
             From(u) == {x \in DOMAIN g : to[x] = u}
  <2>1. DOMAIN g \in SUBSET Nodes /\ g = [x \in DOMAIN g |-> g[x]] /\ \A x \in DOMAIN g : g[x] \in Edges
    BY GraphShape
  <2>2. h = [u \in {to[x] : x \in DOMAIN g} |->
                [copy  |-> UNION {g[x].copy : x \in From(u)},
                 load  |-> UNION {g[x].load : x \in From(u)},
                 store |-> UNION {g[x].store : x \in From(u)}]]
    BY DEF MoveGraph
  <2> HIDE DEF h
  <2>3. {to[x] : x \in DOMAIN g} = DOMAIN g
    BY <1>1, <2>1
  <2>4. ASSUME NEW u \in DOMAIN g
        PROVE  h[u] = g[u]
    <3>1. From(u) = {u}
      BY <1>1, <2>1
    <3>2. g[u] = [copy |-> g[u].copy, load |-> g[u].load, store |-> g[u].store]
      BY <2>1 DEF Edges
    <3>3. UNION {g[x].copy : x \in {u}} = g[u].copy /\ UNION {g[x].load : x \in {u}} = g[u].load
          /\ UNION {g[x].store : x \in {u}} = g[u].store
      OBVIOUS
    <3>4. h[u] = [copy  |-> UNION {g[x].copy : x \in From(u)},
                  load  |-> UNION {g[x].load : x \in From(u)},
                  store |-> UNION {g[x].store : x \in From(u)}]
      BY <2>2, <2>3
    <3> HIDE DEF From
    <3> QED
      BY <3>1, <3>2, <3>3, <3>4
  <2>5. h = [u \in DOMAIN g |-> h[u]]
    BY <2>2, <2>3
  <2> QED
    BY <2>1, <2>4, <2>5 DEF h
<1> QED
  BY <1>2, <1>3, <1>4

\* The nodes of each component of R move to one of them.
ToRoots(R, CC, root) == [u \in Nodes |-> IF u \in R THEN root[CHOOSE C \in CC : u \in C] ELSE u]

LEMMA ToRootsIsGood ==
    ASSUME NEW r \in MergeMaps, NEW R \in SUBSET Nodes, \A u \in R : r[u] = u,
           NEW E \in SUBSET (R \X R), NEW root, \A C \in Components(E, R) : root[C] \in C
    PROVE  LET to == ToRoots(R, Components(E, R), root)
           IN  /\ GoodMove(r, to)
               /\ \A u \in R : \E C \in Components(E, R) : u \in C /\ to[u] = root[C]
<1> DEFINE CC == Components(E, R)
           to == ToRoots(R, CC, root)
<1>1. IsFiniteSet(R)
  BY NodesAreNumbers, FS_Subset
<1>2. UNION CC = R /\ \A C, D \in CC, x \in R : x \in C /\ x \in D => C = D
  BY <1>1, ComponentsAreClasses
<1> HIDE DEF CC
<1>3. ASSUME NEW C \in CC, NEW u \in C
      PROVE  to[u] = root[C] /\ to[u] \in C /\ u \in R
  <2>1. u \in R /\ (CHOOSE D \in CC : u \in D) = C
    BY <1>2
  <2>2. root[C] \in C
    BY DEF CC
  <2> QED
    BY <2>1, <2>2 DEF ToRoots
<1>4. \A u \in R : \E C \in CC : u \in C
  BY <1>2
<1>5. ASSUME NEW u \in R
      PROVE  to[u] \in R /\ to[to[u]] = to[u]
  BY <1>3, <1>4
<1>6. \A u \in Nodes \ R : to[u] = u
  BY DEF ToRoots
<1>7. to = [u \in Nodes |-> to[u]]
  BY DEF ToRoots
<1> HIDE DEF to
<1>8. GoodMove(r, to)
  BY <1>5, <1>6, <1>7 DEF GoodMove
<1>9. \A u \in R : \E C \in CC : u \in C /\ to[u] = root[C]
  BY <1>3, <1>4
<1> QED
  BY <1>8, <1>9 DEF CC, to

-----------------------------------------------------------------------------
(* The passes before solving.                                                  *)

ConstraintRecords ==
    [type : {"ADDR_OF", "COPY", "LOAD", "STORE"}, dest : Nodes, src : Nodes]

\* What was merged stays merged.
Coarser(r, m) == \A x, y \in Nodes : r[x] = r[y] => m[x] = m[y]

LEMMA MergedAsKeeps ==
    ASSUME NEW r \in MergeMaps, NEW label, NEW m \in MergedAs(label, r)
    PROVE  m \in MergeMaps /\ Coarser(r, m)
<1> DEFINE labels == {label[n] : n \in {n \in Nodes : r[n] = n}} \ {0}
<1>1. PICK keep \in [labels -> Nodes] :
          /\ \A l \in labels : keep[l] \in Labelled(label, r, l)
          /\ m = [n \in Nodes |-> IF label[r[n]] = 0 THEN r[n] ELSE keep[label[r[n]]]]
  BY DEF MergedAs
<1>2. r \in [Nodes -> Nodes] /\ \A n \in Nodes : r[r[n]] = r[n]
  BY DEF MergeMaps
<1>3. \A l \in labels : keep[l] \in Nodes /\ r[keep[l]] = keep[l] /\ label[keep[l]] = l
  BY <1>1 DEF Labelled
<1>4. \A n \in Nodes : label[r[n]] # 0 => label[r[n]] \in labels
  BY <1>2
<1>5. \A l \in labels : l # 0
  OBVIOUS
<1> HIDE DEF labels
<1>6. \A n \in Nodes : m[n] = IF label[r[n]] = 0 THEN r[n] ELSE keep[label[r[n]]]
  BY <1>1
<1>7. m \in [Nodes -> Nodes]
  <2>1. \A n \in Nodes : m[n] \in Nodes
    BY <1>2, <1>3, <1>4, <1>6
  <2> QED
    BY <1>1, <2>1
<1>8. ASSUME NEW n \in Nodes
      PROVE  m[m[n]] = m[n]
  <2>1. CASE label[r[n]] = 0
    BY <1>2, <1>6, <2>1
  <2>2. CASE label[r[n]] # 0
    <3> DEFINE l == label[r[n]]
               k == keep[l]
    <3>1. m[n] = k /\ k \in Nodes /\ r[k] = k /\ label[k] = l /\ l # 0
      BY <1>3, <1>4, <1>6, <2>2
    <3> HIDE DEF l, k
    <3>2. m[k] = keep[l]
      BY <1>6, <3>1
    <3> QED
      BY <3>1, <3>2 DEF k
  <2> QED
    BY <2>1, <2>2
<1>9. Coarser(r, m)
  BY <1>6 DEF Coarser
<1> QED
  BY <1>7, <1>8, <1>9 DEF MergeMaps

LEMMA RewriteKeeps ==
    ASSUME NEW r \in MergeMaps, NEW label, NEW c \in ConstraintRecords
    PROVE  RewriteOne(c, label, r) \in SUBSET ConstraintRecords
<1> DEFINE d == r[c.dest]
           s == r[c.src]
           AddressOf(n) == {x \in Nodes : r[x] = x /\ label[AdrNode(x)] = label[n]}
           New(type, to, from) == [type |-> type, dest |-> to, src |-> from]
           Copy(to, from) == IF to = from THEN {} ELSE {New("COPY", to, from)}
<1>1. d \in Nodes /\ s \in Nodes /\ c.src \in Nodes
  BY DEF MergeMaps, ConstraintRecords
<1>2. \A to, from \in Nodes :
          /\ New("ADDR_OF", to, from) \in ConstraintRecords /\ New("STORE", to, from) \in ConstraintRecords
          /\ New("LOAD", to, from) \in ConstraintRecords /\ New("COPY", to, from) \in ConstraintRecords
  BY DEF ConstraintRecords
<1>3. \A to, from \in Nodes : Copy(to, from) \in SUBSET ConstraintRecords
  BY <1>2
<1>4. \A n : AddressOf(n) \in SUBSET Nodes
  OBVIOUS
<1>5. RewriteOne(c, label, r) =
        IF label[c.dest] = 0 THEN {}
        ELSE IF c.type = "ADDR_OF" THEN {New("ADDR_OF", d, c.src)}
        ELSE IF c.type = "STORE" THEN
            IF AddressOf(d) = {} THEN {New("STORE", d, s)}
            ELSE UNION {Copy(x, s) : x \in AddressOf(d)}
        ELSE IF label[s] = 0 THEN {}
        ELSE IF c.type = "LOAD" THEN
            IF AddressOf(s) = {} THEN {New("LOAD", d, s)}
            ELSE UNION {Copy(d, x) : x \in AddressOf(s)}
        ELSE IF d = s \/ AddressOf(s) = {} THEN Copy(d, s)
        ELSE {New("ADDR_OF", d, x) : x \in AddressOf(s)}
  BY DEF RewriteOne
<1> HIDE DEF d, s, AddressOf, New, Copy
<1>6. UNION {Copy(x, s) : x \in AddressOf(d)} \in SUBSET ConstraintRecords
  BY <1>1, <1>3, <1>4
<1>7. UNION {Copy(d, x) : x \in AddressOf(s)} \in SUBSET ConstraintRecords
  BY <1>1, <1>3, <1>4
<1>8. {New("ADDR_OF", d, x) : x \in AddressOf(s)} \in SUBSET ConstraintRecords
  BY <1>1, <1>2, <1>4
<1>9. /\ {New("ADDR_OF", d, c.src)} \in SUBSET ConstraintRecords
      /\ {New("STORE", d, s)} \in SUBSET ConstraintRecords
      /\ {New("LOAD", d, s)} \in SUBSET ConstraintRecords
      /\ Copy(d, s) \in SUBSET ConstraintRecords
  BY <1>1, <1>2, <1>3
<1> QED
  BY <1>5, <1>6, <1>7, <1>8, <1>9

LEMMA OptimizedKeeps ==
    ASSUME rep \in MergeMaps, constraints \in SUBSET ConstraintRecords,
           NEW pass, NEW roots, NEW out \in Optimized(pass, roots)
    PROVE  out.rep \in MergeMaps /\ Coarser(rep, out.rep) /\ out.constraints \in SUBSET ConstraintRecords
<1>1. \E label, r : /\ r \in MergedAs(label, rep)
                    /\ out = [rep |-> r, constraints |-> UNION {RewriteOne(c, label, r) : c \in constraints}]
  BY DEF Optimized
<1>2. PICK label, r : /\ r \in MergedAs(label, rep)
                      /\ out = [rep |-> r, constraints |-> UNION {RewriteOne(c, label, r) : c \in constraints}]
  BY <1>1
<1>3. r \in MergeMaps /\ Coarser(rep, r)
  BY <1>2, MergedAsKeeps
<1>4. \A c \in constraints : RewriteOne(c, label, r) \in SUBSET ConstraintRecords
  BY <1>3, RewriteKeeps
<1>5. out.rep = r /\ out.constraints = UNION {RewriteOne(c, label, r) : c \in constraints}
  BY <1>2
<1> QED
  BY <1>3, <1>4, <1>5

-----------------------------------------------------------------------------
(* The offline pass of HCD.                                                    *)

LEMMA OfflineGraphShape ==
    ASSUME rep \in MergeMaps, constraints \in SUBSET ConstraintRecords
    PROVE  /\ OfflineNodes \subseteq 0 .. 2 * NumNodes - 1
           /\ IsFiniteSet(OfflineNodes)
           /\ OfflineEdges \in SUBSET (OfflineNodes \X OfflineNodes)
           /\ \A x \in OfflineNodes : x \in Nodes => rep[x] = x
           /\ \A e \in OfflineEdges : e[1] \in Nodes \/ e[2] \in Nodes
<1> DEFINE Big == 0 .. 2 * NumNodes - 1
<1>1. NumNodes \in Nat /\ \A n \in Nodes : n \in Int /\ 0 =< n /\ n < NumNodes
  BY NumNodesAssumption DEF Nodes
<1>2. \A n \in Nodes : n \in Big /\ RefNode(n) \in Big /\ RefNode(n) \notin Nodes
  BY <1>1 DEF RefNode, Nodes
<1>3. \A n \in Nodes : rep[n] \in Nodes /\ rep[rep[n]] = rep[n]
  BY DEF MergeMaps
<1>4. \A c \in constraints : c.dest \in Nodes /\ c.src \in Nodes
  BY DEF ConstraintRecords
<1>5. ASSUME NEW e \in OfflineEdges
      PROVE  /\ e = <<e[1], e[2]>> /\ e[1] \in Big /\ e[2] \in Big
             /\ e[1] \in Nodes => rep[e[1]] = e[1]
             /\ e[2] \in Nodes => rep[e[2]] = e[2]
             /\ e[1] \in Nodes \/ e[2] \in Nodes
  <2> DEFINE Fine(p) == /\ p = <<p[1], p[2]>> /\ p[1] \in Big /\ p[2] \in Big
                        /\ p[1] \in Nodes => rep[p[1]] = p[1]
                        /\ p[2] \in Nodes => rep[p[2]] = p[2]
                        /\ p[1] \in Nodes \/ p[2] \in Nodes
  <2>1. \E c \in constraints : \/ e = <<RefNode(rep[c.src]), rep[c.dest]>>
                               \/ e = <<rep[c.src], RefNode(rep[c.dest])>>
                               \/ e = <<rep[c.src], rep[c.dest]>>
    BY DEF OfflineEdges
  <2>2. ASSUME NEW c \in constraints
        PROVE  /\ Fine(<<RefNode(rep[c.src]), rep[c.dest]>>)
               /\ Fine(<<rep[c.src], RefNode(rep[c.dest])>>)
               /\ Fine(<<rep[c.src], rep[c.dest]>>)
    <3> DEFINE a == rep[c.src]
               b == rep[c.dest]
    <3>1. a \in Nodes /\ b \in Nodes /\ rep[a] = a /\ rep[b] = b
      BY <1>3, <1>4
    <3> HIDE DEF a, b
    <3>2. Fine(<<RefNode(a), b>>) /\ Fine(<<a, RefNode(b)>>) /\ Fine(<<a, b>>)
      <4> HIDE DEF Big
      <4> QED
        BY <1>2, <3>1
    <3> QED
      BY <3>2 DEF a, b
  <2> HIDE DEF Fine
  <2>3. Fine(e)
    BY <2>1, <2>2
  <2> QED
    BY <2>3 DEF Fine
<1> HIDE DEF Big
<1>6. \A x \in OfflineNodes : \E e \in OfflineEdges : x = e[1] \/ x = e[2]
  BY DEF OfflineNodes
<1>7. \A e \in OfflineEdges : e[1] \in OfflineNodes /\ e[2] \in OfflineNodes
  BY DEF OfflineNodes
<1>8. OfflineNodes \subseteq Big /\ \A x \in OfflineNodes : x \in Nodes => rep[x] = x
  BY <1>5, <1>6
<1>9. IsFiniteSet(OfflineNodes)
  <2>1. IsFiniteSet(Big)
    BY <1>1, FS_Interval DEF Big
  <2> QED
    BY <1>8, <2>1, FS_Subset
<1>10. OfflineEdges \in SUBSET (OfflineNodes \X OfflineNodes)
  BY <1>5, <1>7
<1>11. \A e \in OfflineEdges : e[1] \in Nodes \/ e[2] \in Nodes
  BY <1>5
<1> QED
  BY <1>8, <1>9, <1>10, <1>11 DEF Big

\* A cycle has a variable on it, since *n leads to and from variables, and its least
\* node is one.
LEMMA OfflineCyclesShape ==
    ASSUME rep \in MergeMaps, constraints \in SUBSET ConstraintRecords
    PROVE  /\ OfflineCycles \subseteq Components(OfflineEdges, OfflineNodes)
           /\ \A C \in OfflineCycles :
                 /\ C \subseteq OfflineNodes
                 /\ First(C) \in C /\ First(C) \in Nodes /\ rep[First(C)] = First(C)
                 /\ \E y \in C : y # First(C)
           /\ \A C, D \in OfflineCycles : \A x \in C : x \in D => C = D
<1> DEFINE E == OfflineEdges
           S == OfflineNodes
           P == Paths(E, S)
<1>1. OfflineCycles = {C \in Components(E, S) : Cardinality(C) > 1}
  BY DEF OfflineCycles
<1>2. /\ S \subseteq 0 .. 2 * NumNodes - 1 /\ IsFiniteSet(S) /\ E \in SUBSET (S \X S)
      /\ \A x \in S : x \in Nodes => rep[x] = x
      /\ \A e \in E : e[1] \in Nodes \/ e[2] \in Nodes
  BY OfflineGraphShape
<1> HIDE DEF E, S
<1>3. Closure(P, E, S)
  BY <1>2, PathsAreClosure
<1>4. /\ UNION Components(E, S) = S
      /\ \A C \in Components(E, S) : C # {}
      /\ \A C, D \in Components(E, S), x \in S : x \in C /\ x \in D => C = D
      /\ \A C \in Components(E, S), x, y \in S :
            x \in C => (y \in C <=> y = x \/ (<<x, y>> \in P /\ <<y, x>> \in P))
  BY <1>2, ComponentsAreClasses
<1> HIDE DEF P
<1>5. ASSUME NEW C \in OfflineCycles
      PROVE  /\ C \subseteq S
             /\ First(C) \in C /\ First(C) \in Nodes /\ rep[First(C)] = First(C)
             /\ \E y \in C : y # First(C)
  <2>1. C \in Components(E, S) /\ Cardinality(C) > 1
    BY <1>1
  <2>2. C \subseteq S /\ C # {}
    BY <1>4, <2>1
  <2>3. IsFiniteSet(C) /\ C \subseteq Int
    <3>1. IsFiniteSet(C)
      BY <1>2, <2>2, FS_Subset
    <3>2. C \subseteq Int
      BY <1>2, <2>2, NumNodesAssumption
    <3> QED
      BY <3>1, <3>2
  <2>4. First(C) \in C /\ \A y \in C : First(C) =< y
    <3>1. \E x \in C : \A y \in C : x =< y
      BY ONLY <2>2, <2>3, LeastMember
    <3> QED
      BY <3>1 DEF First
  <2>5. PICK y \in C : y # First(C)
    <3>1. ASSUME C = {First(C)}
          PROVE  FALSE
      <4>1. Cardinality(C) = 1
        BY <3>1, FS_Singleton
      <4> QED
        BY <2>1, <4>1
    <3> QED
      BY <2>4, <3>1
  <2>6. \E z \in C : z \in Nodes
    <3> DEFINE x == First(C)
    <3>1. x \in S /\ y \in S /\ x \in C /\ <<x, y>> \in P /\ <<y, x>> \in P
      BY <1>4, <2>1, <2>2, <2>4, <2>5
    <3> HIDE DEF x
    <3>2. PICK z \in S : <<x, z>> \in E /\ (z = y \/ <<z, y>> \in P)
      <4>1. E \in SUBSET (S \X S)
        BY <1>2
      <4>2. x \in S /\ y \in S /\ <<x, y>> \in P
        BY <3>1
      <4> QED
        BY ONLY <1>3, <4>1, <4>2, FirstEdge
    <3>3. <<x, z>> \in P /\ <<z, x>> \in P
      BY <1>3, <3>1, <3>2 DEF Closure, Transitive
    <3>4. z \in C
      BY <1>4, <2>1, <3>1, <3>3
    <3>5. x \in Nodes \/ z \in Nodes
      BY <1>2, <3>2
    <3> QED
      BY <3>1, <3>4, <3>5
  <2>7. First(C) \in Nodes
    <3>1. PICK z \in C : z \in Nodes
      BY <2>6
    <3>2. First(C) =< z /\ First(C) \in 0 .. 2 * NumNodes - 1
      BY <1>2, <2>2, <2>4
    <3> QED
      BY <3>1, <3>2, NumNodesAssumption DEF Nodes
  <2> QED
    BY <1>2, <2>2, <2>4, <2>5, <2>7
<1>6. \A C, D \in OfflineCycles : \A x \in C : x \in D => C = D
  BY <1>1, <1>4, <1>5
<1> QED
  BY <1>1, <1>5, <1>6 DEF E, S

\* Where the offline pass sends a node on a cycle.
OfflineTarget(x) == First(CHOOSE C \in OfflineCycles : x \in C)
OfflineMove == [u \in Nodes |-> IF u \in UNION OfflineCycles THEN OfflineTarget(u) ELSE u]

LEMMA OfflineMoveIsGood ==
    ASSUME rep \in MergeMaps, constraints \in SUBSET ConstraintRecords
    PROVE  /\ \A C \in OfflineCycles : \A x \in C : OfflineTarget(x) = First(C) /\ First(C) \in Nodes
           /\ GoodMove(rep, OfflineMove)
<1>1. /\ \A C \in OfflineCycles : First(C) \in C /\ First(C) \in Nodes /\ rep[First(C)] = First(C)
      /\ \A C, D \in OfflineCycles : \A x \in C : x \in D => C = D
  BY OfflineCyclesShape
<1>2. ASSUME NEW C \in OfflineCycles, NEW x \in C
      PROVE  OfflineTarget(x) = First(C)
  <2>1. (CHOOSE D \in OfflineCycles : x \in D) = C
    BY <1>1
  <2> QED
    BY <2>1 DEF OfflineTarget
<1>3. \A x \in UNION OfflineCycles :
          /\ OfflineTarget(x) \in Nodes /\ rep[OfflineTarget(x)] = OfflineTarget(x)
          /\ OfflineTarget(x) \in UNION OfflineCycles
          /\ OfflineTarget(OfflineTarget(x)) = OfflineTarget(x)
  BY <1>1, <1>2
<1>4. \A u \in Nodes : OfflineMove[u] = IF u \in UNION OfflineCycles THEN OfflineTarget(u) ELSE u
  BY DEF OfflineMove
<1>5. OfflineMove \in [Nodes -> Nodes]
  <2>1. \A u \in Nodes : OfflineMove[u] \in Nodes
    BY <1>3, <1>4
  <2>2. OfflineMove = [u \in Nodes |-> OfflineMove[u]]
    BY DEF OfflineMove
  <2> HIDE DEF OfflineMove
  <2> QED
    BY <2>1, <2>2
<1>6. GoodMove(rep, OfflineMove)
  BY <1>3, <1>4, <1>5 DEF GoodMove
<1> QED
  BY <1>1, <1>2, <1>6

-----------------------------------------------------------------------------
(* buildConstraintGraph.                                                       *)

LEMMA InitialPtsShape ==
    ASSUME rep \in MergeMaps, constraints \in SUBSET ConstraintRecords
    PROVE  /\ InitialPts \in PointsToSets
           /\ \A u \in DOMAIN InitialPts : rep[u] = u
           /\ \A u \in DOMAIN InitialPts : \A o \in InitialPts[u] :
                 \E c \in constraints : c.type = "ADDR_OF" /\ rep[c.dest] = u /\ c.src = o
           /\ \A c \in constraints : c.type = "ADDR_OF" =>
                 rep[c.dest] \in DOMAIN InitialPts /\ c.src \in InitialPts[rep[c.dest]]
<1> DEFINE A == Of("ADDR_OF")
           D == {rep[c.dest] : c \in A}
           p == InitialPts
<1>1. A = {c \in constraints : c.type = "ADDR_OF"}
  BY DEF Of
<1>2. \A c \in constraints : /\ c.dest \in Nodes /\ c.src \in Nodes
                             /\ rep[c.dest] \in Nodes /\ rep[rep[c.dest]] = rep[c.dest]
  BY DEF ConstraintRecords, MergeMaps
<1>3. p = [u \in D |-> {c.src : c \in {c \in A : rep[c.dest] = u}}]
  BY DEF InitialPts
<1> HIDE DEF p, A
<1>4. D \in SUBSET Nodes /\ \A u \in D : rep[u] = u
  BY <1>1, <1>2
<1>5. \A u \in D : \A o : o \in p[u] <=> \E c \in A : rep[c.dest] = u /\ c.src = o
  BY <1>3
<1>6. \A u \in D : p[u] \in SUBSET Nodes
  BY <1>1, <1>2, <1>5
<1>7. p \in [D -> SUBSET Nodes]
  BY <1>3, <1>6
<1>8. p \in PointsToSets /\ DOMAIN p = D
  BY <1>4, <1>7 DEF PointsToSets
<1> QED
  BY <1>1, <1>4, <1>5, <1>8 DEF p

LEMMA InitialGraphShape ==
    ASSUME rep \in MergeMaps, constraints \in SUBSET ConstraintRecords
    PROVE  /\ InitialGraph \in Graphs
           /\ \A u \in DOMAIN InitialGraph : rep[u] = u
           /\ \A u \in DOMAIN InitialGraph :
                 /\ \A d \in InitialGraph[u].copy : \E c \in constraints :
                       c.type = "COPY" /\ rep[c.src] = u /\ rep[c.dest] = d
                 /\ \A d \in InitialGraph[u].load : \E c \in constraints :
                       c.type = "LOAD" /\ rep[c.src] = u /\ rep[c.dest] = d
                 /\ \A d \in InitialGraph[u].store : \E c \in constraints :
                       c.type = "STORE" /\ rep[c.dest] = u /\ rep[c.src] = d
           /\ \A c \in constraints :
                 /\ c.type = "COPY" => /\ rep[c.src] \in DOMAIN InitialGraph
                                       /\ rep[c.dest] \in InitialGraph[rep[c.src]].copy
                 /\ c.type = "LOAD" => /\ rep[c.src] \in DOMAIN InitialGraph
                                       /\ rep[c.dest] \in InitialGraph[rep[c.src]].load
                 /\ c.type = "STORE" => /\ rep[c.dest] \in DOMAIN InitialGraph
                                        /\ rep[c.src] \in InitialGraph[rep[c.dest]].store
<1> DEFINE copy == {<<rep[c.src], rep[c.dest]>> : c \in Of("COPY")}
           load == {<<rep[c.src], rep[c.dest]>> : c \in Of("LOAD")}
           store == {<<rep[c.dest], rep[c.src]>> : c \in Of("STORE")}
           D == {e[1] : e \in copy \cup load \cup store}
           h == InitialGraph
<1>1. \A c \in constraints : /\ c.dest \in Nodes /\ c.src \in Nodes
                             /\ rep[c.dest] \in Nodes /\ rep[rep[c.dest]] = rep[c.dest]
                             /\ rep[c.src] \in Nodes /\ rep[rep[c.src]] = rep[c.src]
  BY DEF ConstraintRecords, MergeMaps
<1>2. /\ \A u, d : <<u, d>> \in copy <=> \E c \in constraints :
            c.type = "COPY" /\ rep[c.src] = u /\ rep[c.dest] = d
      /\ \A u, d : <<u, d>> \in load <=> \E c \in constraints :
            c.type = "LOAD" /\ rep[c.src] = u /\ rep[c.dest] = d
      /\ \A u, d : <<u, d>> \in store <=> \E c \in constraints :
            c.type = "STORE" /\ rep[c.dest] = u /\ rep[c.src] = d
  BY DEF Of
<1>3. copy \in SUBSET (Nodes \X Nodes) /\ load \in SUBSET (Nodes \X Nodes) /\ store \in SUBSET (Nodes \X Nodes)
  BY <1>1 DEF Of
<1>4. h = [u \in D |-> [copy |-> At(copy, u), load |-> At(load, u), store |-> At(store, u)]]
  BY DEF InitialGraph
<1> HIDE DEF h, copy, load, store
<1>5. \A K \in SUBSET (Nodes \X Nodes) : \A u :
          /\ At(K, u) \in SUBSET Nodes
          /\ \A d : d \in At(K, u) <=> <<u, d>> \in K
  BY DEF At
<1>6. \A u, d : <<u, d>> \in copy \/ <<u, d>> \in load \/ <<u, d>> \in store => u \in D
  OBVIOUS
<1>7. \A u \in D : \E d : <<u, d>> \in copy \/ <<u, d>> \in load \/ <<u, d>> \in store
  <2>1. ASSUME NEW u \in D
        PROVE  \E d : <<u, d>> \in copy \/ <<u, d>> \in load \/ <<u, d>> \in store
    <3>1. PICK e \in copy \cup load \cup store : e[1] = u
      OBVIOUS
    <3>2. e = <<u, e[2]>>
      BY <1>3, <3>1
    <3> QED
      BY <3>2
  <2> QED
    BY <2>1
<1> HIDE DEF D
<1>8. D \in SUBSET Nodes /\ \A u \in D : rep[u] = u
  <2>1. ASSUME NEW u \in D
        PROVE  \E c \in constraints : rep[c.src] = u \/ rep[c.dest] = u
    <3>1. PICK d : <<u, d>> \in copy \/ <<u, d>> \in load \/ <<u, d>> \in store
      BY <1>7
    <3>2. CASE <<u, d>> \in copy
      BY <1>2, <3>2
    <3>3. CASE <<u, d>> \in load
      BY <1>2, <3>3
    <3>4. CASE <<u, d>> \in store
      BY <1>2, <3>4
    <3> QED
      BY <3>1, <3>2, <3>3, <3>4
  <2> QED
    BY <1>1, <2>1
<1>9. ASSUME NEW u \in D
      PROVE  h[u].copy = At(copy, u) /\ h[u].load = At(load, u) /\ h[u].store = At(store, u)
             /\ h[u] \in Edges
  <2>1. h[u] = [copy |-> At(copy, u), load |-> At(load, u), store |-> At(store, u)]
    BY <1>4
  <2>2. At(copy, u) \in SUBSET Nodes /\ At(load, u) \in SUBSET Nodes /\ At(store, u) \in SUBSET Nodes
    BY <1>3, <1>5
  <2> QED
    BY ONLY <2>1, <2>2 DEF Edges
<1>10. h \in Graphs /\ DOMAIN h = D
  <2>1. h = [u \in D |-> h[u]]
    BY <1>4
  <2> QED
    BY <1>8, <1>9, <2>1, GraphFrom
<1>11. ASSUME NEW u \in D
       PROVE  \A d : /\ d \in h[u].copy <=> <<u, d>> \in copy
                     /\ d \in h[u].load <=> <<u, d>> \in load
                     /\ d \in h[u].store <=> <<u, d>> \in store
  BY <1>3, <1>5, <1>9
<1>12. ASSUME NEW u \in DOMAIN h
       PROVE  /\ \A d \in h[u].copy : \E c \in constraints :
                    c.type = "COPY" /\ rep[c.src] = u /\ rep[c.dest] = d
              /\ \A d \in h[u].load : \E c \in constraints :
                    c.type = "LOAD" /\ rep[c.src] = u /\ rep[c.dest] = d
              /\ \A d \in h[u].store : \E c \in constraints :
                    c.type = "STORE" /\ rep[c.dest] = u /\ rep[c.src] = d
  <2>1. u \in D
    BY <1>10
  <2>2. ASSUME NEW d \in h[u].copy
        PROVE  \E c \in constraints : c.type = "COPY" /\ rep[c.src] = u /\ rep[c.dest] = d
    <3>1. <<u, d>> \in copy
      BY <1>11, <2>1
    <3> QED
      BY <1>2, <3>1
  <2>3. ASSUME NEW d \in h[u].load
        PROVE  \E c \in constraints : c.type = "LOAD" /\ rep[c.src] = u /\ rep[c.dest] = d
    <3>1. <<u, d>> \in load
      BY <1>11, <2>1
    <3> QED
      BY <1>2, <3>1
  <2>4. ASSUME NEW d \in h[u].store
        PROVE  \E c \in constraints : c.type = "STORE" /\ rep[c.dest] = u /\ rep[c.src] = d
    <3>1. <<u, d>> \in store
      BY <1>11, <2>1
    <3> QED
      BY <1>2, <3>1
  <2> QED
    BY <2>2, <2>3, <2>4
<1>13. ASSUME NEW c \in constraints
       PROVE  /\ c.type = "COPY" => rep[c.src] \in DOMAIN h /\ rep[c.dest] \in h[rep[c.src]].copy
              /\ c.type = "LOAD" => rep[c.src] \in DOMAIN h /\ rep[c.dest] \in h[rep[c.src]].load
              /\ c.type = "STORE" => rep[c.dest] \in DOMAIN h /\ rep[c.src] \in h[rep[c.dest]].store
  <2>1. CASE c.type = "COPY"
    <3>1. <<rep[c.src], rep[c.dest]>> \in copy
      BY <1>2, <2>1
    <3> QED
      BY <1>6, <1>10, <1>11, <2>1, <3>1
  <2>2. CASE c.type = "LOAD"
    <3>1. <<rep[c.src], rep[c.dest]>> \in load
      BY <1>2, <2>2
    <3> QED
      BY <1>6, <1>10, <1>11, <2>2, <3>1
  <2>3. CASE c.type = "STORE"
    <3>1. <<rep[c.dest], rep[c.src]>> \in store
      BY <1>2, <2>3
    <3> QED
      BY <1>6, <1>10, <1>11, <2>3, <3>1
  <2> QED
    BY <2>1, <2>2, <2>3
<1> QED
  BY <1>8, <1>10, <1>12, <1>13 DEF h

LEMMA FirstWorkList ==
    ASSUME NEW S \in SUBSET Nodes
    PROVE  InOrder(Enqueue, << >>, S) \in Seq(Nodes) /\ ToSet(InOrder(Enqueue, << >>, S)) = S
<1> DEFINE A == Seq(Nodes)
           step == [p \in A \X S |-> Enqueue(p[1], p[2])]
           Eqn(g) == g = [s \in SUBSET S |->
                             IF s = {} THEN << >> ELSE Enqueue(g[s \ {Max(s)}], Max(s))]
           fold == CHOOSE g : Eqn(g)
           Good == [s \in SUBSET S |-> {q \in A : ToSet(q) = s}]
<1>1. InOrder(Enqueue, << >>, S) = fold[S]
  BY DEF InOrder, MapThenFoldSet
<1>2. << >> \in A /\ ToSet(<< >>) = {}
  BY DEF ToSet
<1>3. ASSUME NEW q \in A, NEW d \in S
      PROVE  Enqueue(q, d) \in A /\ ToSet(Enqueue(q, d)) = ToSet(q) \cup {d}
  BY EnqueueAdds
<1>4. /\ step \in [A \X S -> A]
      /\ \A q \in A, d \in S : step[<<q, d>>] = Enqueue(q, d)
  BY <1>3
<1> HIDE DEF A, step
<1>5. Eqn(fold)
  <2>1. CanLoop(S, A, << >>, step)
    BY <1>2, <1>4 DEF CanLoop
  <2>2. PICK h : LoopsTo(S, A, << >>, step, h)
    BY <2>1, InOrderExists
  <2>3. Eqn(h)
    BY <1>4, <2>2 DEF LoopsTo
  <2> HIDE DEF Eqn
  <2> QED
    BY <2>3
<1> HIDE DEF fold
<1>6. fold[{}] \in Good[{}]
  BY <1>2, <1>5
<1>7. ASSUME NEW s \in SUBSET S, s # {}, Max(s) \in s,
             fold[s \ {Max(s)}] \in Good[s \ {Max(s)}]
      PROVE  fold[s] \in Good[s]
  <2> DEFINE m == Max(s)
             q == fold[s \ {m}]
  <2>1. q \in A /\ ToSet(q) = s \ {m}
    BY <1>7
  <2>2. fold[s] = Enqueue(q, m)
    BY <1>5, <1>7
  <2>3. m \in s
    BY <1>7
  <2> HIDE DEF m, q
  <2>4. fold[s] \in A /\ ToSet(fold[s]) = (s \ {m}) \cup {m}
    BY <1>3, <2>1, <2>2, <2>3
  <2> QED
    BY <2>3, <2>4
<1>8. fold[S] \in Good[S]
  <2> HIDE DEF Good
  <2> QED
    BY <1>6, <1>7, InOrderKeeps
<1> QED
  BY <1>1, <1>8 DEF A

-----------------------------------------------------------------------------
(* The shape of the state, step by step.                                       *)

Maps == UNION {[D -> Nodes] : D \in SUBSET Nodes}

Shape ==
    /\ options \in [hcd : BOOLEAN, lcd : BOOLEAN]
    /\ constraints \in SUBSET ConstraintRecords
    /\ rep \in MergeMaps
    /\ collapseTo \in Maps
    /\ pts \in PointsToSets /\ graph \in Graphs
    /\ curr \in Seq(Nodes) /\ next \in Seq(Nodes)
    /\ candidates \in SUBSET Nodes /\ checked \in SUBSET (Nodes \X Nodes)
    /\ pc \in {"hvn", "hu", "offline", "build", "iterate", "process", "done", "undefined"}
    /\ pc \in {"hvn", "hu", "offline", "build"} => pts = << >> /\ graph = << >>

Tidy == Shape /\ OnlyRepresentatives

\* What NothingLost says of a step.
Kept ==
    /\ \A n \in Nodes : PointsTo(n) \subseteq PointsTo(n)'
    /\ \A m, n \in Nodes : rep[m] = rep[n] => rep'[m] = rep'[n]

LEMMA EmptyMaps == << >> \in PointsToSets /\ << >> \in Graphs /\ << >> \in Maps /\ DOMAIN << >> = {}
<1>1. << >> = [x \in {} |-> {}] /\ DOMAIN << >> = {}
  OBVIOUS
<1>2. << >> \in [{} -> SUBSET Nodes] /\ << >> \in [{} -> Edges] /\ << >> \in [{} -> Nodes]
  BY <1>1
<1> QED
  BY <1>1, <1>2 DEF PointsToSets, Graphs, Maps

LEMMA TidyStart == ASSUME AndersenInit PROVE Tidy
<1>1. constraints \in SUBSET ConstraintRecords
  BY ProblemsAssumption DEF AndersenInit, NothingSolved, ConstraintRecords
<1>2. options \in [hcd : BOOLEAN, lcd : BOOLEAN]
  BY OptionsAssumption DEF AndersenInit, NothingSolved
<1>3. rep \in MergeMaps
  BY DEF AndersenInit, NothingSolved, MergeMaps
<1>4. Shape
  BY <1>1, <1>2, <1>3, EmptyMaps DEF AndersenInit, NothingSolved, Begin, Shape
<1> QED
  BY <1>4, EmptyMaps DEF Tidy, OnlyRepresentatives, AndersenInit, NothingSolved

\* While nothing has been built nothing points anywhere.
LEMMA NothingYet ==
    ASSUME Tidy, pc \in {"hvn", "hu", "offline", "build"}
    PROVE  \A n \in Nodes : PointsTo(n) = {}
BY EmptyMaps DEF Tidy, Shape, PointsTo

LEMMA OptimizeStep ==
    ASSUME Tidy, RunHvn \/ RunHu
    PROVE  Tidy' /\ Kept
<1>1. PICK stage \in {"hvn", "hu"}, then \in {"hu", "offline", "build"} : Optimize(stage, then)
  BY DEF RunHvn, RunHu, Begin
<1>2. PICK roots, out : /\ out \in Optimized(stage, roots)
                        /\ rep' = out.rep /\ constraints' = out.constraints
  BY <1>1 DEF Optimize
<1>3. rep' \in MergeMaps /\ Coarser(rep, rep') /\ constraints' \in SUBSET ConstraintRecords
  BY <1>2, OptimizedKeeps DEF Tidy, Shape
<1>4. /\ pc = stage /\ pc' = then
      /\ UNCHANGED <<options, collapseTo, pts, graph, curr, next, candidates, checked>>
  BY <1>1 DEF Optimize
<1>5. pts = << >> /\ graph = << >>
  BY <1>1, <1>4 DEF Tidy, Shape
<1>6. Shape'
  BY <1>3, <1>4, <1>5 DEF Tidy, Shape
<1>7. OnlyRepresentatives'
  BY <1>4, <1>5, EmptyMaps DEF OnlyRepresentatives
<1>8. Kept
  BY <1>1, <1>3, <1>4, NothingYet DEF Kept, Coarser
<1> QED
  BY <1>6, <1>7, <1>8 DEF Tidy

LEMMA OfflineStep ==
    ASSUME Tidy, OfflineCycleDetection
    PROVE  /\ Tidy' /\ Kept
           /\ rep' = Moved(rep, OfflineMove) /\ GoodMove(rep, OfflineMove)
           /\ DOMAIN collapseTo' = {n \in Nodes : RefNode(n) \in UNION OfflineCycles}
           /\ \A n \in DOMAIN collapseTo' : collapseTo'[n] = OfflineTarget(RefNode(n))
           /\ pc' = "build" /\ UNCHANGED <<options, constraints, pts, graph>>
<1> DEFINE onCycle == UNION OfflineCycles
           D == {n \in Nodes : RefNode(n) \in onCycle}
<1>1. rep \in MergeMaps /\ constraints \in SUBSET ConstraintRecords /\ pc = "offline"
  BY DEF Tidy, Shape, OfflineCycleDetection
<1>2. /\ collapseTo' = [n \in D |-> OfflineTarget(RefNode(n))]
      /\ rep' = MoveRep(OfflineMove)
      /\ pc' = "build"
      /\ UNCHANGED <<options, constraints, pts, graph, curr, next, candidates, checked>>
  BY DEF OfflineCycleDetection, OfflineTarget, OfflineMove
<1>3. rep' = Moved(rep, OfflineMove)
  BY <1>2 DEF MoveRep, Moved
<1>4. /\ \A C \in OfflineCycles : \A x \in C : OfflineTarget(x) = First(C) /\ First(C) \in Nodes
      /\ GoodMove(rep, OfflineMove)
  BY <1>1, OfflineMoveIsGood
<1>5. pts = << >> /\ graph = << >>
  BY <1>1 DEF Tidy, Shape
<1>6. rep' \in MergeMaps
  BY <1>1, <1>3, <1>4, <1>5, EmptyMaps, MoveKeeps
<1>7. collapseTo' \in Maps
  <2>1. \A n \in D : OfflineTarget(RefNode(n)) \in Nodes
    BY <1>4
  <2>2. collapseTo' \in [D -> Nodes]
    BY <1>2, <2>1
  <2> QED
    BY <2>2 DEF Maps
<1>8. Shape'
  BY <1>2, <1>5, <1>6, <1>7 DEF Tidy, Shape
<1>9. OnlyRepresentatives'
  BY <1>2, <1>5, EmptyMaps DEF OnlyRepresentatives
<1>10. Kept
  BY <1>1, <1>3, NothingYet DEF Kept, Moved
<1>11. DOMAIN collapseTo' = D /\ \A n \in D : collapseTo'[n] = OfflineTarget(RefNode(n))
  BY <1>2
<1> QED
  BY <1>2, <1>3, <1>4, <1>8, <1>9, <1>10, <1>11 DEF Tidy

LEMMA BuildStep ==
    ASSUME Tidy, BuildConstraintGraph
    PROVE  /\ Tidy' /\ Kept
           /\ ToSet(curr') = DOMAIN pts' \cap DOMAIN graph'
<1>1. rep \in MergeMaps /\ constraints \in SUBSET ConstraintRecords /\ pc = "build"
  BY DEF Tidy, Shape, BuildConstraintGraph
<1>2. /\ pts' = InitialPts /\ graph' = InitialGraph
      /\ curr' = InOrder(Enqueue, << >>, {u \in DOMAIN pts' : rep[u] = u /\ u \in DOMAIN graph'})
      /\ pc' = "iterate"
      /\ UNCHANGED <<options, constraints, rep, collapseTo, next, candidates, checked>>
  BY DEF BuildConstraintGraph
<1>3. pts' \in PointsToSets /\ \A u \in DOMAIN pts' : rep[u] = u
  BY <1>1, <1>2, InitialPtsShape
<1>4. graph' \in Graphs /\ \A u \in DOMAIN graph' : rep[u] = u
  BY <1>1, <1>2, InitialGraphShape
<1>5. {u \in DOMAIN pts' : rep[u] = u /\ u \in DOMAIN graph'} = DOMAIN pts' \cap DOMAIN graph'
  BY <1>3
<1>6. DOMAIN pts' \cap DOMAIN graph' \in SUBSET Nodes
  BY <1>3 DEF PointsToSets
<1>7. curr' \in Seq(Nodes) /\ ToSet(curr') = DOMAIN pts' \cap DOMAIN graph'
  BY <1>2, <1>5, <1>6, FirstWorkList
<1>8. Shape'
  BY <1>2, <1>3, <1>4, <1>7 DEF Tidy, Shape
<1>9. OnlyRepresentatives'
  BY <1>2, <1>3, <1>4 DEF OnlyRepresentatives
<1>10. Kept
  BY <1>1, <1>2, NothingYet DEF Kept
<1> QED
  BY <1>7, <1>8, <1>9, <1>10 DEF Tidy

\* The graph once the cycle detector has been to the nodes of R.
Visited(R) ==
    [u \in DOMAIN graph \cup R |-> IF u \in DOMAIN graph THEN graph[u] ELSE NoEdges]

\* The copy edges between the nodes of R.
Between(R) == Copies(graph, rep) \cap (R \X R)

\* The cycle detector sends the nodes of R where to says: nodes meet if and only if
\* they are on a cycle of copy edges.
Detects(R, to) ==
    /\ R \in SUBSET Nodes
    /\ \A u \in R : rep[u] = u
    /\ GoodMove(rep, to)
    /\ \A x, y \in Nodes : to[x] = to[y] =>
          \/ x = y
          \/ /\ x \in R /\ y \in R
             /\ <<x, y>> \in Paths(Between(R), R) /\ <<y, x>> \in Paths(Between(R), R)
    /\ \A x, y \in R :
          <<x, y>> \in Paths(Between(R), R) /\ <<y, x>> \in Paths(Between(R), R) => to[x] = to[y]
    /\ rep' = Moved(rep, to)
    /\ pts' = MovePts(pts, to)
    /\ graph' = MoveGraph(Visited(R), to)

LEMMA CopyEdgesAreCopies ==
    ASSUME rep \in MergeMaps, graph \in Graphs
    PROVE  CopyEdges = Copies(graph, rep) /\ CopyEdges \in SUBSET (Nodes \X Nodes)
<1>1. DOMAIN graph \in SUBSET Nodes /\ \A u \in DOMAIN graph : graph[u].copy \in SUBSET Nodes
  BY GraphShape DEF Edges
<1>2. rep \in [Nodes -> Nodes]
  BY DEF MergeMaps
<1>3. ASSUME NEW e \in CopyEdges
      PROVE  e \in Copies(graph, rep)
  <2>1. PICK u \in DOMAIN graph : \E d \in graph[u].copy : e = <<u, rep[d]>>
    BY DEF CopyEdges
  <2> QED
    BY <1>1, <1>2, <2>1 DEF Copies
<1>4. ASSUME NEW e \in Copies(graph, rep)
      PROVE  e \in CopyEdges
  <2>1. e \in Nodes \X Nodes /\ e[1] \in DOMAIN graph
    BY DEF Copies
  <2>2. PICK d \in graph[e[1]].copy : rep[d] = e[2]
    BY DEF Copies
  <2>3. e = <<e[1], rep[d]>>
    BY <2>1, <2>2
  <2> QED
    BY <2>1, <2>3 DEF CopyEdges
<1>5. Copies(graph, rep) \in SUBSET (Nodes \X Nodes)
  BY DEF Copies
<1>6. CopyEdges = Copies(graph, rep)
  BY <1>3, <1>4
<1> QED
  BY <1>5, <1>6

LEMMA DetectStep ==
    ASSUME Tidy, DetectCycles
    PROVE  /\ \E R, to : Detects(R, to)
           /\ pc = "iterate" /\ pc' = "process" /\ candidates' = {}
           /\ UNCHANGED <<options, constraints, collapseTo, curr, next, checked>>
<1> DEFINE starts == {rep[c] : c \in candidates}
           reached == starts \cup {p[2] : p \in {p \in Paths(CopyEdges, Nodes) : p[1] \in starts}}
           E == CopyEdges \cap (reached \X reached)
           Entries(C) ==
               {x \in C : x \in starts \/ \E e \in CopyEdges : e[1] \in reached \ C /\ e[2] = x}
           components == Components(E, reached)
           visited == [u \in DOMAIN graph \cup reached |->
                          IF u \in DOMAIN graph THEN graph[u] ELSE NoEdges]
<1>1. rep \in MergeMaps /\ graph \in Graphs /\ candidates \in SUBSET Nodes /\ pts \in PointsToSets
  BY DEF Tidy, Shape
<1>2. PICK root \in [components -> reached] :
          /\ \A C \in components : root[C] \in Entries(C)
          /\ rep' = MoveRep(ToRoots(reached, components, root))
          /\ pts' = MovePts(pts, ToRoots(reached, components, root))
          /\ graph' = MoveGraph(visited, ToRoots(reached, components, root))
  <2>1. \E root \in {r \in [components -> reached] : \A C \in components : r[C] \in Entries(C)} :
           \E to \in {ToRoots(reached, components, root)} :
              /\ rep' = MoveRep(to)
              /\ pts' = MovePts(pts, to)
              /\ graph' = MoveGraph(visited, to)
    BY DEF DetectCycles, ToRoots
  <2> HIDE DEF components, visited, Entries
  <2> QED
    BY <2>1
<1>3. CopyEdges = Copies(graph, rep) /\ CopyEdges \in SUBSET (Nodes \X Nodes)
  BY <1>1, CopyEdgesAreCopies
<1>4. \A C \in components : root[C] \in C
  BY <1>2
<1>5. E = Between(reached) /\ visited = Visited(reached)
  BY <1>3 DEF Between, Visited
<1>6. /\ pc = "iterate" /\ pc' = "process" /\ candidates' = {}
      /\ UNCHANGED <<options, constraints, collapseTo, curr, next, checked>>
  BY DEF DetectCycles
<1> HIDE DEF components, visited, Entries, E
<1>7. reached \in SUBSET Nodes /\ \A u \in reached : rep[u] = u
  <2>1. Closure(Paths(CopyEdges, Nodes), CopyEdges, Nodes)
    BY <1>3, NodesAreNumbers, PathsAreClosure
  <2> DEFINE Q == {p \in Nodes \X Nodes : rep[p[2]] = p[2]}
  <2>2. ASSUME NEW e \in CopyEdges
        PROVE  e \in Q
    <3>1. e \in Nodes \X Nodes /\ e[1] \in DOMAIN graph /\ \E d \in graph[e[1]].copy : rep[d] = e[2]
      BY <1>3 DEF Copies
    <3>2. graph[e[1]].copy \in SUBSET Nodes
      BY <1>1, <3>1, GraphShape DEF Edges
    <3> QED
      BY <1>1, <3>1, <3>2 DEF MergeMaps
  <2>3. Transitive(Q, Nodes)
    BY DEF Transitive
  <2>4. Paths(CopyEdges, Nodes) \subseteq Q
    <3>1. CopyEdges \subseteq Q
      BY <2>2
    <3>2. Q \in SUBSET (Nodes \X Nodes)
      OBVIOUS
    <3> HIDE DEF Q
    <3> QED
      BY <2>1, <2>3, <3>1, <3>2 DEF Closure
  <2>5. starts \in SUBSET Nodes /\ \A u \in starts : rep[u] = u
    BY <1>1 DEF MergeMaps
  <2> HIDE DEF starts
  <2>6. ASSUME NEW u \in reached
        PROVE  u \in Nodes /\ rep[u] = u
    <3>1. CASE u \in starts
      BY <2>5, <3>1
    <3>2. CASE u \notin starts
      <4>1. PICK p \in Paths(CopyEdges, Nodes) : u = p[2]
        BY <3>2
      <4> QED
        BY <2>4, <4>1
    <3> QED
      BY <3>1, <3>2
  <2> HIDE DEF reached
  <2> QED
    BY <2>6
<1> HIDE DEF reached
<1> DEFINE to == ToRoots(reached, components, root)
<1>8. E \in SUBSET (reached \X reached) /\ components = Components(E, reached)
  BY DEF E, components
<1>9. /\ GoodMove(rep, to)
      /\ \A u \in reached : \E C \in components : u \in C /\ to[u] = root[C]
  BY <1>1, <1>4, <1>7, <1>8, ToRootsIsGood
<1>10. \A u \in Nodes \ reached : to[u] = u
  BY DEF ToRoots
<1>11. IsFiniteSet(reached)
  BY <1>7, NodesAreNumbers, FS_Subset
<1>12. /\ \A C \in components : C \subseteq reached
       /\ \A C, D \in components, x \in reached : x \in C /\ x \in D => C = D
       /\ \A C \in components, x, y \in reached :
             x \in C => (y \in C <=> y = x \/ (<<x, y>> \in Paths(E, reached) /\ <<y, x>> \in Paths(E, reached)))
  BY <1>8, <1>11, ComponentsAreClasses
<1> HIDE DEF to
<1>13. ASSUME NEW x \in Nodes, NEW y \in Nodes, to[x] = to[y], x # y
       PROVE  /\ x \in reached /\ y \in reached
              /\ <<x, y>> \in Paths(E, reached) /\ <<y, x>> \in Paths(E, reached)
  <2>1. \A u \in reached : to[u] \in reached
    BY <1>4, <1>9, <1>12
  <2>2. x \in reached /\ y \in reached
    BY <1>10, <1>13, <2>1
  <2>3. PICK C \in components : x \in C /\ to[x] = root[C]
    BY <1>9, <2>2
  <2>4. PICK D \in components : y \in D /\ to[y] = root[D]
    BY <1>9, <2>2
  <2>5. C = D
    <3>1. root[C] \in C /\ root[C] \in D /\ root[C] \in reached
      BY <1>4, <1>12, <1>13, <2>3, <2>4
    <3> QED
      BY <1>12, <3>1
  <2> QED
    BY <1>12, <1>13, <2>2, <2>3, <2>4, <2>5
<1>14. rep' = Moved(rep, to) /\ pts' = MovePts(pts, to) /\ graph' = MoveGraph(Visited(reached), to)
  BY <1>2, <1>5 DEF to, MoveRep, Moved
<1>15. ASSUME NEW x \in reached, NEW y \in reached,
              <<x, y>> \in Paths(E, reached), <<y, x>> \in Paths(E, reached)
       PROVE  to[x] = to[y]
  <2>1. PICK C \in components : x \in C /\ to[x] = root[C]
    BY <1>9
  <2>2. PICK D \in components : y \in D /\ to[y] = root[D]
    BY <1>9
  <2>3. y \in C
    BY <1>12, <1>15, <2>1
  <2>4. C = D
    BY <1>12, <2>2, <2>3
  <2> QED
    BY <2>1, <2>2, <2>4
<1>16. Detects(reached, to)
  BY <1>5, <1>7, <1>9, <1>13, <1>14, <1>15 DEF Detects
<1> QED
  BY <1>6, <1>16

\* Examining n, whose pointees move where to says, ends with b.
ExaminesFrom(n, to, b) ==
    /\ n = rep[Head(curr)] /\ n \in Nodes /\ rep[n] = n
    /\ n \in DOMAIN graph /\ n \in DOMAIN pts
    /\ GoodMove(rep, to) /\ to[n] = n
    /\ IF HasCollapseTarget(n)
       THEN \E V \in VisitedPointees(n, rep[collapseTo[n]]) :
                to = MoveAll({rep[v] : v \in V}, rep[collapseTo[n]])
       ELSE to = [u \in Nodes |-> u]
    /\ rep' = Moved(rep, to) /\ rep' \in MergeMaps
    /\ Start(to) \in Inner(n) /\ b \in Inner(n)
    /\ \A u \in DOMAIN Start(to).pts \cup DOMAIN Start(to).graph : rep'[u] = u
    /\ Examines(n, Start(to), b, rep')
    /\ pts' = b.pts /\ graph' = b.graph /\ next' = b.next
    /\ candidates' = b.candidates /\ checked' = b.checked

\* The node at the head of the worklist, and the target it has.
LEMMA HeadOfWorklist ==
    ASSUME Tidy, curr # << >>
    PROVE  /\ Head(curr) \in Nodes /\ Examined \in Nodes /\ rep[Examined] = Examined
           /\ Tail(curr) \in Seq(Nodes)
           /\ ToSet(curr) = {Head(curr)} \cup ToSet(Tail(curr))
           /\ \A n \in DOMAIN collapseTo :
                 rep[collapseTo[n]] \in Nodes /\ rep[rep[collapseTo[n]]] = rep[collapseTo[n]]
<1>1. curr \in Seq(Nodes) /\ rep \in MergeMaps /\ collapseTo \in Maps
  BY DEF Tidy, Shape
<1>2. Head(curr) \in Nodes /\ Tail(curr) \in Seq(Nodes)
  BY <1>1
<1>3. Examined \in Nodes /\ rep[Examined] = Examined
  BY <1>1, <1>2 DEF Examined, MergeMaps
<1>4. \A n \in DOMAIN collapseTo : collapseTo[n] \in Nodes
  BY <1>1 DEF Maps
<1>5. ToSet(curr) = {Head(curr)} \cup ToSet(Tail(curr))
  <2>1. Len(curr) \in Nat /\ Len(curr) >= 1 /\ DOMAIN curr = 1 .. Len(curr)
    BY <1>1
  <2>2. /\ DOMAIN Tail(curr) = 1 .. Len(curr) - 1
        /\ \A i \in 1 .. Len(curr) - 1 : Tail(curr)[i] = curr[i + 1]
        /\ Head(curr) = curr[1]
    BY <1>1, <2>1
  <2>3. \A i \in 1 .. Len(curr) : i = 1 \/ (i - 1 \in 1 .. Len(curr) - 1 /\ (i - 1) + 1 = i)
    BY <2>1
  <2>4. ASSUME NEW x \in ToSet(curr)
        PROVE  x \in {Head(curr)} \cup ToSet(Tail(curr))
    <3>1. PICK i \in 1 .. Len(curr) : x = curr[i]
      BY <2>1 DEF ToSet
    <3>2. CASE i = 1
      BY <2>2, <3>1, <3>2
    <3>3. CASE i # 1
      <4>1. i - 1 \in DOMAIN Tail(curr) /\ x = Tail(curr)[i - 1]
        BY <2>2, <2>3, <3>1, <3>3
      <4> QED
        BY <4>1 DEF ToSet
    <3> QED
      BY <3>2, <3>3
  <2>5. \A i \in 1 .. Len(curr) - 1 : i + 1 \in 1 .. Len(curr)
    BY <2>1
  <2>6. \A x : x \in {Head(curr)} \cup ToSet(Tail(curr)) => x \in ToSet(curr)
    BY <2>1, <2>2, <2>5 DEF ToSet
  <2> QED
    BY <2>4, <2>6
<1> QED
  BY <1>1, <1>2, <1>3, <1>4, <1>5 DEF MergeMaps

LEMMA ExamineShape ==
    ASSUME Tidy, ExamineNode
    PROVE  /\ \E n, to, b : ExaminesFrom(n, to, b)
           /\ pc = "process" /\ curr # << >> /\ curr' = Tail(curr)
           /\ UNCHANGED <<options, constraints, collapseTo, pc>>
<1> DEFINE n == Examined
           r(to) == MoveRep(to)
           b(to) == AfterPropagation(n, AfterIndirect(n, Start(to), MoveRep(to)), MoveRep(to))
<1>1. /\ pc = "process" /\ curr # << >> /\ curr' = Tail(curr)
      /\ UNCHANGED <<options, constraints, collapseTo, pc>>
  BY DEF ExamineNode
<1>2. PICK to \in PointeeMoves(n) :
          /\ rep' = MoveRep(to)
          /\ pts' = b(to).pts /\ graph' = b(to).graph /\ next' = b(to).next
          /\ candidates' = b(to).candidates /\ checked' = b(to).checked
  BY DEF ExamineNode
<1>3. Known(n)
  BY DEF ExamineNode
<1>4. n = rep[Head(curr)] /\ n \in Nodes /\ rep[n] = n
  BY <1>1, HeadOfWorklist DEF Examined
<1>5. PICK S, target :
          /\ to = MoveAll(S, target)
          /\ target \in Nodes /\ rep[target] = target
          /\ target = n \/ n \notin S
          /\ IF HasCollapseTarget(n)
             THEN \E U \in VisitedPointees(n, rep[collapseTo[n]]) :
                      to = MoveAll({rep[v] : v \in U}, rep[collapseTo[n]])
             ELSE to = MoveAll({}, n)
  <2>1. CASE HasCollapseTarget(n)
    <3>1. PICK V \in VisitedPointees(n, rep[collapseTo[n]]) :
              /\ rep[collapseTo[n]] = n \/ n \notin {rep[v] : v \in V}
              /\ to = MoveAll({rep[v] : v \in V}, rep[collapseTo[n]])
      BY <1>2, <2>1 DEF PointeeMoves
    <3>2. rep[collapseTo[n]] \in Nodes /\ rep[rep[collapseTo[n]]] = rep[collapseTo[n]]
      BY <1>1, <2>1, HeadOfWorklist DEF HasCollapseTarget
    <3> QED
      BY <2>1, <3>1, <3>2
  <2>2. CASE ~HasCollapseTarget(n)
    BY <1>2, <1>4, <2>2 DEF PointeeMoves
  <2> QED
    BY <2>1, <2>2
<1>6. MoveAll({}, n) = [u \in Nodes |-> u]
  BY DEF MoveAll
<1>7. to[n] = n
  BY <1>4, <1>5 DEF MoveAll
<1>8. /\ rep \in MergeMaps /\ pts \in PointsToSets /\ graph \in Graphs
      /\ next \in Seq(Nodes) /\ candidates \in SUBSET Nodes /\ checked \in SUBSET (Nodes \X Nodes)
      /\ \A u \in DOMAIN pts \cup DOMAIN graph : rep[u] = u
  BY DEF Tidy, Shape, OnlyRepresentatives
<1>9. GoodMove(rep, to)
  BY <1>5, <1>8, MoveAllIsGood
<1> DEFINE m == Moved(rep, to)
           s == Start(to)
           t == b(to)
<1>10. rep' = m /\ t = AfterPropagation(n, AfterIndirect(n, s, m), m)
  BY <1>2 DEF MoveRep, Moved
<1> HIDE DEF b
<1>11. /\ m \in MergeMaps /\ MovePts(pts, to) \in PointsToSets /\ MoveGraph(graph, to) \in Graphs
       /\ \A u \in DOMAIN MovePts(pts, to) \cup DOMAIN MoveGraph(graph, to) : m[u] = u
  BY <1>8, <1>9, MoveKeeps
<1>12. n \in DOMAIN graph /\ n \in DOMAIN pts
  BY <1>3 DEF Known
<1>13. n \in DOMAIN MovePts(pts, to) /\ n \in DOMAIN MoveGraph(graph, to)
  <2>1. to \in [Nodes -> Nodes]
    BY <1>9 DEF GoodMove
  <2>2. DOMAIN MovePts(pts, to) = {to[x] : x \in DOMAIN pts}
    BY <1>8, <2>1, MovePtsMerges
  <2>3. DOMAIN MoveGraph(graph, to) = {to[x] : x \in DOMAIN graph}
    BY <1>8, <2>1, MoveGraphMerges
  <2> QED
    BY <1>7, <1>12, <2>2, <2>3
<1>14. s \in Inner(n)
  BY <1>8, <1>11, <1>13 DEF Inner, Start
<1>15. s.pts = MovePts(pts, to) /\ s.graph = MoveGraph(graph, to)
  BY DEF Start
<1> HIDE DEF m, s
<1>16. t \in Inner(n) /\ Examines(n, s, t, m)
  BY <1>4, <1>10, <1>11, <1>14, ExaminedNode
<1>17. \A u \in DOMAIN s.pts \cup DOMAIN s.graph : m[u] = u
  BY <1>11, <1>15
<1>18. /\ pts' = t.pts /\ graph' = t.graph /\ next' = t.next
       /\ candidates' = t.candidates /\ checked' = t.checked
  BY <1>2
<1> HIDE DEF t, n
<1>19. rep' = Moved(rep, to) /\ rep' = m /\ s = Start(to)
  BY <1>10 DEF m, s
<1>20. ExaminesFrom(n, to, t)
  BY <1>4, <1>5, <1>6, <1>7, <1>9, <1>11, <1>12, <1>14, <1>16, <1>17, <1>18, <1>19 DEF ExaminesFrom
<1> QED
  BY <1>1, <1>20

\* Examining a node gives edges and pointees only to representatives, and takes none.
LEMMA ExaminesKeeps ==
    ASSUME NEW r \in MergeMaps, NEW n \in Nodes, NEW a \in Inner(n), NEW b, Examines(n, a, b, r),
           \A u \in DOMAIN a.pts \cup DOMAIN a.graph : r[u] = u
    PROVE  /\ \A u \in DOMAIN b.pts \cup DOMAIN b.graph : r[u] = u
           /\ \A x \in Nodes : HeldBy(a.pts, r, x) \subseteq HeldBy(b.pts, r, x)
<1>1. a.graph \in Graphs /\ a.pts \in PointsToSets /\ n \in DOMAIN a.pts
  BY DEF Inner
<1>2. r \in [Nodes -> Nodes] /\ \A x \in Nodes : r[r[x]] = r[x]
  BY DEF MergeMaps
<1> DEFINE W == Wanted(n, a, a.pts[n], r)
           T == Targets(b.graph, n, r) \ {n}
<1>3. /\ DOMAIN b.graph = DOMAIN a.graph \cup {e[1] : e \in W}
      /\ Copies(b.graph, r) = Copies(a.graph, r) \cup W
      /\ DOMAIN b.pts = DOMAIN a.pts \cup T
      /\ \A x \in Nodes : Held(b, x) = Held(a, x) \cup (IF x \in T THEN Held(a, n) ELSE {})
  BY DEF Examines
<1>4. \A u \in DOMAIN a.graph : a.graph[u].copy \in SUBSET Nodes /\ a.graph[u].load \in SUBSET Nodes
                                /\ a.graph[u].store \in SUBSET Nodes
  BY <1>1, GraphShape DEF Edges
<1>5. \A p \in Copies(a.graph, r) \cup Loads(a.graph, r) \cup Stores(a.graph, r) : r[p[2]] = p[2]
  <2>1. \A p \in Copies(a.graph, r) : r[p[2]] = p[2]
    BY <1>2, <1>4 DEF Copies
  <2>2. \A p \in Loads(a.graph, r) : r[p[2]] = p[2]
    BY <1>2, <1>4 DEF Loads
  <2>3. \A p \in Stores(a.graph, r) : r[p[2]] = p[2]
    BY <1>2, <1>4 DEF Stores
  <2> QED
    BY <2>1, <2>2, <2>3
<1>6. a.pts[n] \in SUBSET Nodes
  BY <1>1 DEF PointsToSets
<1>7. ASSUME NEW e \in W
      PROVE  r[e[1]] = e[1] /\ r[e[2]] = e[2]
  <2>1. PICK v \in a.pts[n] : e \in LoadedBy(n, a, v, r) \cup StoredBy(n, a, v, r)
    BY DEF Wanted
  <2>2. r[r[v]] = r[v]
    BY <1>2, <1>6, <2>1
  <2>3. CASE e \in LoadedBy(n, a, v, r)
    BY <1>5, <2>2, <2>3 DEF LoadedBy
  <2>4. CASE e \in StoredBy(n, a, v, r)
    BY <1>5, <2>2, <2>4 DEF StoredBy
  <2> QED
    BY <2>1, <2>3, <2>4
<1>8. \A u \in T : r[u] = u
  BY <1>3, <1>5, <1>7 DEF Targets
<1>9. \A u \in DOMAIN b.pts \cup DOMAIN b.graph : r[u] = u
  <2> HIDE DEF W, T
  <2> QED
    BY <1>3, <1>7, <1>8
<1>10. \A x \in Nodes : HeldBy(a.pts, r, x) = Held(a, r[x]) /\ HeldBy(b.pts, r, x) = Held(b, r[x])
  BY DEF HeldBy, Held
<1> HIDE DEF W, T
<1>11. \A x \in Nodes : HeldBy(a.pts, r, x) \subseteq HeldBy(b.pts, r, x)
  BY <1>2, <1>3, <1>10
<1> QED
  BY <1>9, <1>11

LEMMA VisitedIsAGraph ==
    ASSUME Tidy, NEW R \in SUBSET Nodes, \A u \in R : rep[u] = u
    PROVE  /\ Visited(R) \in Graphs /\ DOMAIN Visited(R) = DOMAIN graph \cup R
           /\ \A u \in DOMAIN Visited(R) : rep[u] = u
           /\ \A u \in DOMAIN Visited(R) :
                 Visited(R)[u] = IF u \in DOMAIN graph THEN graph[u] ELSE NoEdges
<1>1. graph \in Graphs /\ \A u \in DOMAIN graph : rep[u] = u
  BY DEF Tidy, Shape, OnlyRepresentatives
<1>2. DOMAIN graph \in SUBSET Nodes /\ \A u \in DOMAIN graph : graph[u] \in Edges
  BY <1>1, GraphShape
<1>3. NoEdges \in Edges
  BY DEF NoEdges, Edges
<1>4. /\ DOMAIN Visited(R) = DOMAIN graph \cup R
      /\ \A u \in DOMAIN graph \cup R :
            Visited(R)[u] = IF u \in DOMAIN graph THEN graph[u] ELSE NoEdges
  BY DEF Visited
<1>5. \A u \in DOMAIN graph \cup R : Visited(R)[u] \in Edges
  BY <1>2, <1>3, <1>4
<1>6. Visited(R) = [u \in DOMAIN graph \cup R |-> Visited(R)[u]]
  BY DEF Visited
<1>7. Visited(R) \in Graphs
  BY <1>2, <1>5, <1>6, GraphFrom
<1> QED
  BY <1>1, <1>4, <1>7

LEMMA DetectKeeps ==
    ASSUME Tidy, DetectCycles
    PROVE  Tidy' /\ Kept
<1>1. PICK R, to : Detects(R, to)
  BY DetectStep
<1>2. /\ R \in SUBSET Nodes /\ \A u \in R : rep[u] = u
      /\ GoodMove(rep, to)
      /\ rep' = Moved(rep, to) /\ pts' = MovePts(pts, to) /\ graph' = MoveGraph(Visited(R), to)
  BY <1>1 DEF Detects
<1>3. Visited(R) \in Graphs /\ \A u \in DOMAIN Visited(R) : rep[u] = u
  BY <1>2, VisitedIsAGraph
<1>4. rep \in MergeMaps /\ pts \in PointsToSets /\ \A u \in DOMAIN pts : rep[u] = u
  BY DEF Tidy, Shape, OnlyRepresentatives
<1>5. /\ rep' \in MergeMaps /\ pts' \in PointsToSets /\ graph' \in Graphs
      /\ \A u \in DOMAIN pts' \cup DOMAIN graph' : rep'[u] = u
      /\ \A n \in Nodes : HeldBy(pts, rep, n) \subseteq HeldBy(pts', rep', n)
  BY <1>2, <1>3, <1>4, MoveKeeps
<1>6. /\ pc = "iterate" /\ pc' = "process" /\ candidates' = {}
      /\ UNCHANGED <<options, constraints, collapseTo, curr, next, checked>>
  BY DetectStep
<1>7. Shape'
  BY <1>5, <1>6 DEF Tidy, Shape
<1>8. OnlyRepresentatives'
  BY <1>5 DEF OnlyRepresentatives
<1>9. \A m, n \in Nodes : rep[m] = rep[n] => rep'[m] = rep'[n]
  BY <1>2 DEF Moved
<1>10. Kept
  BY <1>5, <1>9 DEF Kept, PointsTo, HeldBy
<1> QED
  BY <1>7, <1>8, <1>10 DEF Tidy

\* What happens to the state when the node at the head of the worklist is merged away.
CollapsesTo(target, to) ==
    /\ target \in Nodes /\ rep[target] = target
    /\ to = MoveAll({rep[v] : v \in pts[Examined]}, target)
    /\ rep' = Moved(rep, to)
    /\ pts' = MovePts(pts, to) /\ graph' = MoveGraph(graph, to)
    /\ next' = Enqueue(next, target)
    /\ Examined \in DOMAIN collapseTo /\ target = rep[collapseTo[Examined]]

LEMMA CollapseShape ==
    ASSUME Tidy, CollapseExamined
    PROVE  /\ \E target, to : CollapsesTo(target, to)
           /\ Known(Examined) /\ options.hcd
           /\ pc = "process" /\ curr # << >> /\ curr' = Tail(curr)
           /\ UNCHANGED <<options, constraints, collapseTo, candidates, checked, pc>>
<1> DEFINE n == Examined
           u == rep[collapseTo[n]]
           t == MoveAll({rep[v] : v \in pts[n]}, u)
<1>1. /\ pc = "process" /\ curr # << >> /\ curr' = Tail(curr)
      /\ UNCHANGED <<options, constraints, collapseTo, candidates, checked, pc>>
  BY DEF CollapseExamined
<1>2. /\ Known(n) /\ HasCollapseTarget(n)
      /\ rep' = MoveRep(t) /\ pts' = MovePts(pts, t) /\ graph' = MoveGraph(graph, t)
      /\ next' = Enqueue(next, u)
  BY DEF CollapseExamined
<1>3. n \in DOMAIN collapseTo /\ options.hcd
  BY <1>2 DEF HasCollapseTarget
<1>4. u \in Nodes /\ rep[u] = u
  BY <1>1, <1>3, HeadOfWorklist
<1>5. rep' = Moved(rep, t)
  BY <1>2 DEF MoveRep, Moved
<1>6. CollapsesTo(u, t)
  BY <1>2, <1>3, <1>4, <1>5 DEF CollapsesTo
<1> QED
  BY <1>1, <1>2, <1>3, <1>6

LEMMA CollapseKeeps ==
    ASSUME Tidy, CollapseExamined
    PROVE  Tidy' /\ Kept
<1>1. PICK target, to : CollapsesTo(target, to)
  BY CollapseShape
<1>2. /\ target \in Nodes /\ rep[target] = target
      /\ to = MoveAll({rep[v] : v \in pts[Examined]}, target)
      /\ rep' = Moved(rep, to) /\ pts' = MovePts(pts, to) /\ graph' = MoveGraph(graph, to)
      /\ next' = Enqueue(next, target)
  BY <1>1 DEF CollapsesTo
<1>3. /\ rep \in MergeMaps /\ pts \in PointsToSets /\ \A u \in DOMAIN pts : rep[u] = u
      /\ graph \in Graphs /\ \A u \in DOMAIN graph : rep[u] = u
      /\ next \in Seq(Nodes)
  BY DEF Tidy, Shape, OnlyRepresentatives
<1>4. GoodMove(rep, to)
  BY <1>2, <1>3, MoveAllIsGood
<1>5. /\ rep' \in MergeMaps /\ pts' \in PointsToSets /\ graph' \in Graphs
      /\ \A u \in DOMAIN pts' \cup DOMAIN graph' : rep'[u] = u
      /\ \A n \in Nodes : HeldBy(pts, rep, n) \subseteq HeldBy(pts', rep', n)
  BY <1>2, <1>3, <1>4, MoveKeeps
<1>6. next' \in Seq(Nodes)
  BY <1>2, <1>3, EnqueueAdds
<1>7. /\ pc = "process" /\ curr # << >> /\ curr' = Tail(curr)
      /\ UNCHANGED <<options, constraints, collapseTo, candidates, checked, pc>>
  BY CollapseShape
<1>8. curr' \in Seq(Nodes)
  BY <1>7, HeadOfWorklist
<1>9. Shape'
  BY <1>5, <1>6, <1>7, <1>8 DEF Tidy, Shape
<1>10. OnlyRepresentatives'
  BY <1>5 DEF OnlyRepresentatives
<1>11. \A m, n \in Nodes : rep[m] = rep[n] => rep'[m] = rep'[n]
  BY <1>2 DEF Moved
<1>12. Kept
  BY <1>5, <1>11 DEF Kept, PointsTo, HeldBy
<1> QED
  BY <1>9, <1>10, <1>12 DEF Tidy

LEMMA ExamineKeeps ==
    ASSUME Tidy, ExamineNode
    PROVE  Tidy' /\ Kept
<1>1. PICK n, to, b : ExaminesFrom(n, to, b)
  BY ExamineShape
<1> DEFINE a == Start(to)
<1>2. /\ n \in Nodes /\ GoodMove(rep, to)
      /\ rep' = Moved(rep, to) /\ rep' \in MergeMaps
      /\ a \in Inner(n) /\ b \in Inner(n)
      /\ \A u \in DOMAIN a.pts \cup DOMAIN a.graph : rep'[u] = u
      /\ Examines(n, a, b, rep')
      /\ pts' = b.pts /\ graph' = b.graph /\ next' = b.next
      /\ candidates' = b.candidates /\ checked' = b.checked
  BY <1>1 DEF ExaminesFrom
<1>3. /\ rep \in MergeMaps /\ pts \in PointsToSets /\ \A u \in DOMAIN pts : rep[u] = u
      /\ graph \in Graphs /\ \A u \in DOMAIN graph : rep[u] = u
  BY DEF Tidy, Shape, OnlyRepresentatives
<1>4. a.pts = MovePts(pts, to)
  BY DEF Start
<1>5. \A x \in Nodes : HeldBy(pts, rep, x) \subseteq HeldBy(a.pts, rep', x)
  BY <1>2, <1>3, <1>4, MoveKeeps
<1> HIDE DEF a
<1>6. /\ \A u \in DOMAIN b.pts \cup DOMAIN b.graph : rep'[u] = u
      /\ \A x \in Nodes : HeldBy(a.pts, rep', x) \subseteq HeldBy(b.pts, rep', x)
  BY <1>2, ExaminesKeeps
<1>7. /\ pc = "process" /\ curr # << >> /\ curr' = Tail(curr)
      /\ UNCHANGED <<options, constraints, collapseTo, pc>>
  BY ExamineShape
<1>8. curr' \in Seq(Nodes)
  BY <1>7, HeadOfWorklist
<1>9. /\ b.pts \in PointsToSets /\ b.graph \in Graphs /\ b.next \in Seq(Nodes)
      /\ b.candidates \in SUBSET Nodes /\ b.checked \in SUBSET (Nodes \X Nodes)
  BY <1>2 DEF Inner
<1>10. Shape'
  BY <1>2, <1>7, <1>8, <1>9 DEF Tidy, Shape
<1>11. OnlyRepresentatives'
  BY <1>2, <1>6 DEF OnlyRepresentatives
<1>12. \A m, n1 \in Nodes : rep[m] = rep[n1] => rep'[m] = rep'[n1]
  BY <1>2 DEF Moved
<1>13. \A x \in Nodes : HeldBy(pts, rep, x) \subseteq HeldBy(pts', rep', x)
  BY <1>2, <1>5, <1>6
<1>14. Kept
  BY <1>12, <1>13 DEF Kept, PointsTo, HeldBy
<1> QED
  BY <1>10, <1>11, <1>14 DEF Tidy

\* The other steps leave the solution alone.
LEMMA QuietStep ==
    ASSUME Tidy,
           \/ MergePastTheEnd \/ BeginIteration \/ SwapWorkLists \/ Finish \/ SkipNode \/ Stopped
           \/ UNCHANGED vars
    PROVE  Tidy' /\ Kept /\ UNCHANGED <<options, constraints, rep, collapseTo, pts, graph>>
<1>1. CASE MergePastTheEnd
  BY <1>1 DEF MergePastTheEnd, Tidy, Shape, OnlyRepresentatives, Kept, PointsTo
<1>2. CASE BeginIteration
  BY <1>2 DEF BeginIteration, Tidy, Shape, OnlyRepresentatives, Kept, PointsTo
<1>3. CASE SwapWorkLists
  BY <1>3 DEF SwapWorkLists, Tidy, Shape, OnlyRepresentatives, Kept, PointsTo
<1>4. CASE Finish
  BY <1>4 DEF Finish, Tidy, Shape, OnlyRepresentatives, Kept, PointsTo
<1>5. CASE SkipNode
  BY <1>5, HeadOfWorklist DEF SkipNode, Tidy, Shape, OnlyRepresentatives, Kept, PointsTo
<1>6. CASE Stopped \/ UNCHANGED vars
  BY <1>6 DEF Stopped, vars, Tidy, Shape, OnlyRepresentatives, Kept, PointsTo
<1> QED
  BY <1>1, <1>2, <1>3, <1>4, <1>5, <1>6

LEMMA TidyNext ==
    ASSUME Tidy, [AndersenNext]_andersenVars
    PROVE  Tidy' /\ Kept
<1>1. CASE RunHvn \/ RunHu
  BY <1>1, OptimizeStep
<1>2. CASE Next
  BY <1>2, OfflineStep, BuildStep, DetectKeeps, CollapseKeeps, ExamineKeeps, QuietStep DEF Next
<1>3. CASE UNCHANGED vars
  BY <1>3, QuietStep
<1> QED
  BY <1>1, <1>2, <1>3 DEF AndersenNext, Solve, andersenVars

LEMMA TidyAlways == AndersenSpec => []Tidy
<1>1. AndersenInit => Tidy
  BY TidyStart
<1>2. Tidy /\ [AndersenNext]_andersenVars => Tidy'
  BY TidyNext
<1> QED
  BY <1>1, <1>2, PTL DEF AndersenSpec

\* Every node the analysis names is a node of its factory: merge targets, planned
\* targets, pointees, edges, worklists and candidates stay within its range.
THEOREM TypeCorrectness == AndersenSpec => []AndersenTypeOK
<1>1. Tidy => AndersenTypeOK
  <2> SUFFICES ASSUME Tidy
               PROVE  AndersenTypeOK
    OBVIOUS
  <2>1. Shape
    BY DEF Tidy
  <2>2. rep \in [Nodes -> Nodes] /\ \A n \in Nodes : rep[rep[n]] = rep[n]
    BY <2>1 DEF Shape, MergeMaps
  <2>3. \A c \in constraints : c.dest \in Nodes /\ c.src \in Nodes
    BY <2>1 DEF Shape, ConstraintRecords
  <2>4. \A n \in DOMAIN pts : n \in Nodes /\ pts[n] \subseteq Nodes
    BY <2>1 DEF Shape, PointsToSets
  <2>5. \A n \in DOMAIN graph : n \in Nodes /\ graph[n] \in Edges
    BY <2>1, GraphShape DEF Shape
  <2>6. DOMAIN collapseTo \subseteq Nodes
    BY <2>1 DEF Shape, Maps
  <2>7. ToSet(curr) \subseteq Nodes /\ ToSet(next) \subseteq Nodes
    BY <2>1 DEF Shape, ToSet
  <2>8. pc \in {"hvn", "hu"} \/ TypeOK
    BY <2>1, <2>2, <2>4, <2>5, <2>6, <2>7 DEF Shape, TypeOK, Edges
  <2> QED
    BY <2>2, <2>3, <2>8 DEF AndersenTypeOK
<1> QED
  BY <1>1, TidyAlways, PTL

\* Whatever the four passes merge, and in whatever order, points-to sets and edges are
\* kept by merge targets alone: no constraint is left with a node nobody reads.
THEOREM OnlyRepresentativesHold == AndersenSpec => []OnlyRepresentatives
<1>1. Tidy => OnlyRepresentatives
  BY DEF Tidy
<1> QED
  BY <1>1, TidyAlways, PTL

\* No step takes a pointee from a node or undoes a merge.
THEOREM NothingIsLost == AndersenSpec => NothingLost
<1>1. Tidy /\ [AndersenNext]_andersenVars => [Kept]_vars
  BY TidyNext
<1>2. [Kept]_vars <=> [/\ \A n \in Nodes : PointsTo(n) \subseteq PointsTo(n)'
                       /\ \A m, n \in Nodes : rep[m] = rep[n] => rep'[m] = rep'[n]]_vars
  BY DEF Kept
<1> QED
  BY <1>1, <1>2, TidyAlways, PTL DEF AndersenSpec, NothingLost

-----------------------------------------------------------------------------
(* What merging does to edges and pointees.                                    *)

\* An edge of f leads from a node that to sends to u to one that it sends to w.
ComesFrom(f, to, u, w) == \E x, y \in Nodes : to[x] = u /\ to[y] = w /\ <<x, y>> \in f

\* The edges of b are those of a, at the nodes where to sends them.
MovesTo(a, to, b) ==
    /\ \A x, y \in Nodes : <<x, y>> \in a => <<to[x], to[y]>> \in b
    /\ \A u, w \in Nodes : <<u, w>> \in b => ComesFrom(a, to, u, w)

LEMMA MovedEdges ==
    ASSUME NEW r \in MergeMaps, NEW to \in [Nodes -> Nodes], NEW g \in Graphs
    PROVE  /\ MovesTo(Copies(g, r), to, Copies(MoveGraph(g, to), Moved(r, to)))
           /\ MovesTo(Loads(g, r), to, Loads(MoveGraph(g, to), Moved(r, to)))
           /\ MovesTo(Stores(g, r), to, Stores(MoveGraph(g, to), Moved(r, to)))
<1> DEFINE h == MoveGraph(g, to)
           m == Moved(r, to)
<1>0. Gathers(g, to, h)
  BY MoveGraphMerges
<1>2. DOMAIN g \in SUBSET Nodes /\ \A x \in DOMAIN g : g[x] \in Edges
  BY GraphShape
<1>3. r \in [Nodes -> Nodes] /\ \A n \in Nodes : m[n] = to[r[n]]
  BY DEF MergeMaps, Moved
<1> HIDE DEF h, m
<1>1. /\ DOMAIN h = {to[x] : x \in DOMAIN g}
      /\ \A x \in DOMAIN g : /\ g[x].copy \subseteq h[to[x]].copy
                             /\ g[x].load \subseteq h[to[x]].load
                             /\ g[x].store \subseteq h[to[x]].store
      /\ \A u \in DOMAIN h :
            /\ \A d \in h[u].copy : \E x \in DOMAIN g : to[x] = u /\ d \in g[x].copy
            /\ \A d \in h[u].load : \E x \in DOMAIN g : to[x] = u /\ d \in g[x].load
            /\ \A d \in h[u].store : \E x \in DOMAIN g : to[x] = u /\ d \in g[x].store
  BY <1>0 DEF Gathers
<1>4. MovesTo(Copies(g, r), to, Copies(h, m))
  <2>1. ASSUME NEW x \in Nodes, NEW y \in Nodes, <<x, y>> \in Copies(g, r)
        PROVE  <<to[x], to[y]>> \in Copies(h, m)
    <3>1. x \in DOMAIN g /\ \E d \in g[x].copy : r[d] = y
      BY <2>1 DEF Copies
    <3>2. PICK d \in g[x].copy : r[d] = y
      BY <3>1
    <3>3. d \in Nodes
      BY <1>2, <3>1, <3>2 DEF Edges
    <3>4. to[x] \in DOMAIN h /\ d \in h[to[x]].copy /\ m[d] = to[y]
      BY <1>1, <1>3, <3>1, <3>2, <3>3
    <3> QED
      BY <3>4 DEF Copies
  <2>2. ASSUME NEW u \in Nodes, NEW w \in Nodes, <<u, w>> \in Copies(h, m)
        PROVE  ComesFrom(Copies(g, r), to, u, w)
    <3>1. u \in DOMAIN h /\ \E d \in h[u].copy : m[d] = w
      BY <2>2 DEF Copies
    <3>2. PICK d \in h[u].copy : m[d] = w
      BY <3>1
    <3>3. PICK x \in DOMAIN g : to[x] = u /\ d \in g[x].copy
      BY <1>1, <3>1, <3>2
    <3>4. x \in Nodes /\ d \in Nodes
      BY <1>2, <3>3 DEF Edges
    <3>5. r[d] \in Nodes /\ to[r[d]] = w
      BY <1>3, <3>2, <3>4
    <3>6. <<x, r[d]>> \in Copies(g, r)
      BY <3>3, <3>4, <3>5 DEF Copies
    <3> QED
      BY <3>3, <3>4, <3>5, <3>6 DEF ComesFrom
  <2> QED
    BY <2>1, <2>2 DEF MovesTo
<1>5. MovesTo(Loads(g, r), to, Loads(h, m))
  <2>1. ASSUME NEW x \in Nodes, NEW y \in Nodes, <<x, y>> \in Loads(g, r)
        PROVE  <<to[x], to[y]>> \in Loads(h, m)
    <3>1. x \in DOMAIN g /\ \E d \in g[x].load : r[d] = y
      BY <2>1 DEF Loads
    <3>2. PICK d \in g[x].load : r[d] = y
      BY <3>1
    <3>3. d \in Nodes
      BY <1>2, <3>1, <3>2 DEF Edges
    <3>4. to[x] \in DOMAIN h /\ d \in h[to[x]].load /\ m[d] = to[y]
      BY <1>1, <1>3, <3>1, <3>2, <3>3
    <3> QED
      BY <3>4 DEF Loads
  <2>2. ASSUME NEW u \in Nodes, NEW w \in Nodes, <<u, w>> \in Loads(h, m)
        PROVE  ComesFrom(Loads(g, r), to, u, w)
    <3>1. u \in DOMAIN h /\ \E d \in h[u].load : m[d] = w
      BY <2>2 DEF Loads
    <3>2. PICK d \in h[u].load : m[d] = w
      BY <3>1
    <3>3. PICK x \in DOMAIN g : to[x] = u /\ d \in g[x].load
      BY <1>1, <3>1, <3>2
    <3>4. x \in Nodes /\ d \in Nodes
      BY <1>2, <3>3 DEF Edges
    <3>5. r[d] \in Nodes /\ to[r[d]] = w
      BY <1>3, <3>2, <3>4
    <3>6. <<x, r[d]>> \in Loads(g, r)
      BY <3>3, <3>4, <3>5 DEF Loads
    <3> QED
      BY <3>3, <3>4, <3>5, <3>6 DEF ComesFrom
  <2> QED
    BY <2>1, <2>2 DEF MovesTo
<1>6. MovesTo(Stores(g, r), to, Stores(h, m))
  <2>1. ASSUME NEW x \in Nodes, NEW y \in Nodes, <<x, y>> \in Stores(g, r)
        PROVE  <<to[x], to[y]>> \in Stores(h, m)
    <3>1. x \in DOMAIN g /\ \E d \in g[x].store : r[d] = y
      BY <2>1 DEF Stores
    <3>2. PICK d \in g[x].store : r[d] = y
      BY <3>1
    <3>3. d \in Nodes
      BY <1>2, <3>1, <3>2 DEF Edges
    <3>4. to[x] \in DOMAIN h /\ d \in h[to[x]].store /\ m[d] = to[y]
      BY <1>1, <1>3, <3>1, <3>2, <3>3
    <3> QED
      BY <3>4 DEF Stores
  <2>2. ASSUME NEW u \in Nodes, NEW w \in Nodes, <<u, w>> \in Stores(h, m)
        PROVE  ComesFrom(Stores(g, r), to, u, w)
    <3>1. u \in DOMAIN h /\ \E d \in h[u].store : m[d] = w
      BY <2>2 DEF Stores
    <3>2. PICK d \in h[u].store : m[d] = w
      BY <3>1
    <3>3. PICK x \in DOMAIN g : to[x] = u /\ d \in g[x].store
      BY <1>1, <3>1, <3>2
    <3>4. x \in Nodes /\ d \in Nodes
      BY <1>2, <3>3 DEF Edges
    <3>5. r[d] \in Nodes /\ to[r[d]] = w
      BY <1>3, <3>2, <3>4
    <3>6. <<x, r[d]>> \in Stores(g, r)
      BY <3>3, <3>4, <3>5 DEF Stores
    <3> QED
      BY <3>3, <3>4, <3>5, <3>6 DEF ComesFrom
  <2> QED
    BY <2>1, <2>2 DEF MovesTo
<1> QED
  BY <1>4, <1>5, <1>6 DEF h, m

\* After a move, a pointee of u was one of a representative sent to the same node.
LEMMA MovedPointees ==
    ASSUME NEW r \in MergeMaps, NEW to, GoodMove(r, to),
           NEW p \in PointsToSets, \A x \in DOMAIN p : r[x] = x,
           NEW u \in Nodes, NEW o \in HeldBy(MovePts(p, to), Moved(r, to), u)
    PROVE  \E x \in Nodes : r[x] = x /\ to[x] = Moved(r, to)[u] /\ o \in HeldBy(p, r, x)
<1>1. to \in [Nodes -> Nodes] /\ DOMAIN p \in SUBSET Nodes
  BY DEF GoodMove, PointsToSets
<1> DEFINE q == MovePts(p, to)
           w == Moved(r, to)[u]
<1>2. \A v \in DOMAIN q : \A a \in q[v] : \E x \in DOMAIN p : to[x] = v /\ a \in p[x]
  BY <1>1, MovePtsMerges
<1>3. w \in DOMAIN q /\ o \in q[w]
  BY DEF HeldBy
<1>4. PICK x \in DOMAIN p : to[x] = w /\ o \in p[x]
  BY <1>2, <1>3
<1> QED
  BY <1>1, <1>4 DEF HeldBy

\* The cycle detector adds nodes without edges.
LEMMA VisitedEdges ==
    ASSUME Tidy, NEW R \in SUBSET Nodes, \A u \in R : rep[u] = u
    PROVE  /\ Copies(Visited(R), rep) = Copies(graph, rep)
           /\ Loads(Visited(R), rep) = Loads(graph, rep)
           /\ Stores(Visited(R), rep) = Stores(graph, rep)
<1>1. /\ DOMAIN Visited(R) = DOMAIN graph \cup R
      /\ \A u \in DOMAIN Visited(R) :
            Visited(R)[u] = IF u \in DOMAIN graph THEN graph[u] ELSE NoEdges
  BY VisitedIsAGraph
<1>2. /\ \A u \in DOMAIN graph : u \in DOMAIN Visited(R) /\ Visited(R)[u] = graph[u]
      /\ \A u \in DOMAIN Visited(R) : u \notin DOMAIN graph =>
            Visited(R)[u].copy = {} /\ Visited(R)[u].load = {} /\ Visited(R)[u].store = {}
  BY <1>1 DEF NoEdges
<1>3. \A p \in Nodes \X Nodes : p \in Copies(Visited(R), rep) <=> p \in Copies(graph, rep)
  BY <1>2 DEF Copies
<1>4. \A p \in Nodes \X Nodes : p \in Loads(Visited(R), rep) <=> p \in Loads(graph, rep)
  BY <1>2 DEF Loads
<1>5. \A p \in Nodes \X Nodes : p \in Stores(Visited(R), rep) <=> p \in Stores(graph, rep)
  BY <1>2 DEF Stores
<1>6. Copies(Visited(R), rep) \subseteq Nodes \X Nodes /\ Copies(graph, rep) \subseteq Nodes \X Nodes
  BY DEF Copies
<1>7. Loads(Visited(R), rep) \subseteq Nodes \X Nodes /\ Loads(graph, rep) \subseteq Nodes \X Nodes
  BY DEF Loads
<1>8. Stores(Visited(R), rep) \subseteq Nodes \X Nodes /\ Stores(graph, rep) \subseteq Nodes \X Nodes
  BY DEF Stores
<1>9. Copies(Visited(R), rep) = Copies(graph, rep)
  BY <1>3, <1>6
<1>10. Loads(Visited(R), rep) = Loads(graph, rep)
  BY <1>4, <1>7
<1>11. Stores(Visited(R), rep) = Stores(graph, rep)
  BY <1>5, <1>8
<1> QED
  BY <1>9, <1>10, <1>11

-----------------------------------------------------------------------------
(* Whoever is not queued has handed on what it holds.                          *)

Joined(g, r, x, y) == x = y \/ <<x, y>> \in Copies(g, r)

\* What n has done: its pointees have gone along its copy edges, and each of its loads
\* and stores has its copy edge for each pointee.
Handed(p, g, r, n) ==
    /\ \A x \in Nodes : <<n, x>> \in Copies(g, r) => HeldBy(p, r, n) \subseteq HeldBy(p, r, x)
    /\ \A v \in HeldBy(p, r, n), x \in Nodes :
          /\ <<n, x>> \in Loads(g, r) => Joined(g, r, r[v], x)
          /\ <<n, x>> \in Stores(g, r) => Joined(g, r, x, r[v])

\* Every representative outside Q has.
AllHanded(p, g, r, Q) == \A n \in Nodes : r[n] = n /\ n \notin Q => Handed(p, g, r, n)

\* Where the edges of W are needed: to give n what it asks for.
LEMMA ExaminesHandsOn ==
    ASSUME NEW r \in MergeMaps, NEW n \in Nodes, r[n] = n, NEW a \in Inner(n), NEW b \in Inner(n),
           Examines(n, a, b, r),
           \A u \in DOMAIN a.pts \cup DOMAIN a.graph : r[u] = u,
           NEW Q, NEW R, AllHanded(a.pts, a.graph, r, Q),
           \A m \in Nodes : m \in Q /\ r[m] = m => m = n \/ m \in R,
           \A m \in ToSet(b.next) : r[m] \in R
    PROVE  AllHanded(b.pts, b.graph, r, R)
<1> DEFINE W == Wanted(n, a, a.pts[n], r)
           T == Targets(b.graph, n, r) \ {n}
<1>1. /\ Copies(b.graph, r) = Copies(a.graph, r) \cup W
      /\ Loads(b.graph, r) = Loads(a.graph, r) /\ Stores(b.graph, r) = Stores(a.graph, r)
      /\ \A x \in Nodes : Held(b, x) = Held(a, x) \cup (IF x \in T THEN Held(a, n) ELSE {})
      /\ \A e \in W : e \in Copies(a.graph, r) \/ e[1] \in ToSet(b.next)
      /\ \A x \in Nodes : Held(b, x) # Held(a, x) => x \in ToSet(b.next)
  BY DEF Examines
<1>2. r \in [Nodes -> Nodes] /\ \A x \in Nodes : r[r[x]] = r[x]
  BY DEF MergeMaps
<1>3. \A x \in Nodes : HeldBy(a.pts, r, x) = Held(a, r[x]) /\ HeldBy(b.pts, r, x) = Held(b, r[x])
  BY DEF HeldBy, Held
<1>4. \A x \in Nodes : HeldBy(a.pts, r, x) \subseteq HeldBy(b.pts, r, x)
  BY ExaminesKeeps
<1>5. \A x, y \in Nodes : Joined(a.graph, r, x, y) => Joined(b.graph, r, x, y)
  BY <1>1 DEF Joined
<1>6. n \in DOMAIN a.pts /\ a.pts[n] \in SUBSET Nodes
  BY DEF Inner, PointsToSets
<1>7. b.graph \in Graphs
  BY DEF Inner
<1>8. \A x \in Nodes : <<n, x>> \in Copies(b.graph, r) => r[x] = x
  <2> SUFFICES ASSUME NEW x \in Nodes, <<n, x>> \in Copies(b.graph, r)
               PROVE  r[x] = x
    OBVIOUS
  <2>1. n \in DOMAIN b.graph /\ \E d \in b.graph[n].copy : r[d] = x
    BY DEF Copies
  <2>2. b.graph[n].copy \in SUBSET Nodes
    BY <1>7, <2>1, GraphShape DEF Edges
  <2> QED
    BY <1>2, <2>1, <2>2
<1>9. Handed(b.pts, b.graph, r, n)
  <2>1. HeldBy(b.pts, r, n) = a.pts[n] /\ Held(a, n) = a.pts[n]
    BY <1>1, <1>3, <1>6 DEF Held
  <2>2. ASSUME NEW x \in Nodes, <<n, x>> \in Copies(b.graph, r)
        PROVE  HeldBy(b.pts, r, n) \subseteq HeldBy(b.pts, r, x)
    <3>1. CASE x = n
      BY <3>1
    <3>2. CASE x # n
      <4>1. x \in T
        BY <2>2, <3>2 DEF Targets
      <4>2. Held(a, n) \subseteq Held(b, x)
        BY <1>1, <4>1
      <4> QED
        BY <1>3, <1>8, <2>1, <2>2, <4>2
    <3> QED
      BY <3>1, <3>2
  <2>3. ASSUME NEW v \in HeldBy(b.pts, r, n), NEW x \in Nodes, <<n, x>> \in Loads(b.graph, r)
        PROVE  Joined(b.graph, r, r[v], x)
    <3>1. v \in a.pts[n] /\ r[v] \in Nodes
      BY <1>2, <1>6, <2>1, <2>3
    <3>2. <<r[v], x>> \in LoadedBy(n, a, v, r)
      BY <1>1, <2>3, <3>1 DEF LoadedBy
    <3>3. <<r[v], x>> \in W
      BY <3>1, <3>2 DEF Wanted
    <3> QED
      BY <1>1, <3>3 DEF Joined
  <2>4. ASSUME NEW v \in HeldBy(b.pts, r, n), NEW x \in Nodes, <<n, x>> \in Stores(b.graph, r)
        PROVE  Joined(b.graph, r, x, r[v])
    <3>1. v \in a.pts[n] /\ r[v] \in Nodes
      BY <1>2, <1>6, <2>1, <2>4
    <3>2. <<x, r[v]>> \in StoredBy(n, a, v, r)
      BY <1>1, <2>4, <3>1 DEF StoredBy
    <3>3. <<x, r[v]>> \in W
      BY <3>1, <3>2 DEF Wanted
    <3> QED
      BY <1>1, <3>3 DEF Joined
  <2> QED
    BY <2>2, <2>3, <2>4 DEF Handed
<1>10. ASSUME NEW m \in Nodes, r[m] = m, m \notin R, m # n
       PROVE  Handed(b.pts, b.graph, r, m)
  <2>1. Handed(a.pts, a.graph, r, m)
    BY <1>10 DEF AllHanded
  <2>2. m \notin ToSet(b.next)
    BY <1>10
  <2>3. HeldBy(b.pts, r, m) = HeldBy(a.pts, r, m)
    BY <1>1, <1>3, <1>10, <2>2
  <2>4. HeldBy(a.pts, r, m) \subseteq Nodes
    BY DEF HeldBy, Inner, PointsToSets
  <2> HIDE DEF W, T
  <2>5. \A x \in Nodes : <<m, x>> \in Copies(b.graph, r) => <<m, x>> \in Copies(a.graph, r)
    BY <1>1, <2>2
  <2>6. ASSUME NEW x \in Nodes, <<m, x>> \in Copies(b.graph, r)
        PROVE  HeldBy(b.pts, r, m) \subseteq HeldBy(b.pts, r, x)
    BY <1>4, <2>1, <2>3, <2>5, <2>6 DEF Handed
  <2>7. ASSUME NEW v \in HeldBy(b.pts, r, m), NEW x \in Nodes
        PROVE  /\ <<m, x>> \in Loads(b.graph, r) => Joined(b.graph, r, r[v], x)
               /\ <<m, x>> \in Stores(b.graph, r) => Joined(b.graph, r, x, r[v])
    <3>1. r[v] \in Nodes
      BY <1>2, <2>3, <2>4
    <3>2. /\ <<m, x>> \in Loads(a.graph, r) => Joined(a.graph, r, r[v], x)
          /\ <<m, x>> \in Stores(a.graph, r) => Joined(a.graph, r, x, r[v])
      BY <2>1, <2>3 DEF Handed
    <3> QED
      BY <1>1, <1>5, <3>1, <3>2
  <2> QED
    BY <2>6, <2>7 DEF Handed
<1> QED
  BY <1>9, <1>10 DEF AllHanded

\* Nodes that lie on a cycle of copy edges and have all handed on what they hold, hold
\* the same.
LEMMA CycleHoldsTheSame ==
    ASSUME Tidy, NEW R, NEW to, Detects(R, to), NEW C \in SUBSET Nodes,
           \A x \in C : rep[x] = x /\ Handed(pts, graph, rep, x),
           \A x \in C, y \in Nodes : rep[y] = y => (to[x] = to[y] <=> y \in C),
           NEW x \in C, NEW y \in C
    PROVE  HeldBy(pts, rep, x) \subseteq HeldBy(pts, rep, y)
<1>1. /\ R \in SUBSET Nodes
      /\ \A u \in R : rep[u] = u
      /\ \A u, w \in Nodes : to[u] = to[w] =>
            \/ u = w
            \/ /\ u \in R /\ w \in R
               /\ <<u, w>> \in Paths(Between(R), R) /\ <<w, u>> \in Paths(Between(R), R)
      /\ \A u, w \in R :
            <<u, w>> \in Paths(Between(R), R) /\ <<w, u>> \in Paths(Between(R), R) => to[u] = to[w]
  <2>1. R \in SUBSET Nodes /\ \A u \in R : rep[u] = u
    BY DEF Detects
  <2>2. \A u, w \in Nodes : to[u] = to[w] =>
            \/ u = w
            \/ /\ u \in R /\ w \in R
               /\ <<u, w>> \in Paths(Between(R), R) /\ <<w, u>> \in Paths(Between(R), R)
    BY DEF Detects
  <2>3. \A u, w \in R :
            <<u, w>> \in Paths(Between(R), R) /\ <<w, u>> \in Paths(Between(R), R) => to[u] = to[w]
    BY DEF Detects
  <2> QED
    BY <2>1, <2>2, <2>3
<1> DEFINE P == Paths(Between(R), R)
           Q == {e \in P : e[1] \in C /\ e[2] \in C => HeldBy(pts, rep, e[1]) \subseteq HeldBy(pts, rep, e[2])}
<1>2. Closure(P, Between(R), R)
  <2>1. IsFiniteSet(R) /\ Between(R) \in SUBSET (R \X R)
    BY <1>1, NodesAreNumbers, FS_Subset DEF Between
  <2> QED
    BY <2>1, PathsAreClosure
<1>3. Between(R) \subseteq Q
  <2> SUFFICES ASSUME NEW e \in Between(R), e[1] \in C, e[2] \in C
               PROVE  HeldBy(pts, rep, e[1]) \subseteq HeldBy(pts, rep, e[2])
    BY <1>2 DEF Closure
  <2>1. e[1] \in Nodes /\ e[2] \in Nodes /\ e = <<e[1], e[2]>> /\ e \in Copies(graph, rep)
    BY <1>1 DEF Between
  <2> QED
    BY <2>1 DEF Handed
<1>4. Transitive(Q, R)
  <2> SUFFICES ASSUME NEW u \in R, NEW v \in R, NEW w \in R, <<u, v>> \in Q, <<v, w>> \in Q
               PROVE  <<u, w>> \in Q
    BY DEF Transitive
  <2>1. <<u, v>> \in P /\ <<v, w>> \in P /\ <<u, w>> \in P
    BY <1>2 DEF Closure, Transitive
  <2>2. CASE u \in C /\ w \in C
    <3>1. to[u] = to[w] /\ u \in Nodes /\ w \in Nodes
      BY <1>1, <2>2
    <3>2. u = w \/ <<w, u>> \in P
      BY <1>1, <3>1
    <3>3. <<v, u>> \in P
      <4>1. CASE u = w
        BY <2>1, <4>1
      <4>2. CASE <<w, u>> \in P
        BY <1>2, <2>1, <4>2 DEF Closure, Transitive
      <4> QED
        BY <3>2, <4>1, <4>2
    <3>4. to[u] = to[v]
      BY <1>1, <2>1, <3>3
    <3>5. v \in C
      BY <1>1, <2>2, <3>4
    <3>6. /\ HeldBy(pts, rep, u) \subseteq HeldBy(pts, rep, v)
          /\ HeldBy(pts, rep, v) \subseteq HeldBy(pts, rep, w)
      BY <2>2, <3>5
    <3> QED
      BY <2>1, <3>6
  <2>3. CASE ~(u \in C /\ w \in C)
    BY <2>1, <2>3
  <2> QED
    BY <2>2, <2>3
<1>5. P \subseteq Q
  <2>1. Q \in SUBSET (R \X R)
    BY <1>2 DEF Closure
  <2> HIDE DEF Q, P
  <2> QED
    BY <1>2, <1>3, <1>4, <2>1 DEF Closure
<1>6. to[x] = to[y] /\ x \in Nodes /\ y \in Nodes
  OBVIOUS
<1>7. CASE x = y
  BY <1>7
<1>8. CASE <<x, y>> \in P
  <2>1. <<x, y>> \in Q
    BY <1>5, <1>8
  <2> QED
    BY <2>1
<1> QED
  BY <1>1, <1>6, <1>7, <1>8

\* The queued nodes by their representatives r.
Waiting(r, a, b) == {r[m] : m \in ToSet(a) \cup ToSet(b)}

\* Merging cycles of nodes that have handed on what they hold makes no new work.
LEMMA DetectHandsOn ==
    ASSUME Tidy, NEW R, NEW to, Detects(R, to), NEW Q, NEW S,
           AllHanded(pts, graph, rep, Q), \A q \in Q : to[q] \in S
    PROVE  AllHanded(pts', graph', rep', S)
<1>1. /\ R \in SUBSET Nodes /\ \A u \in R : rep[u] = u
      /\ GoodMove(rep, to)
      /\ rep' = Moved(rep, to) /\ pts' = MovePts(pts, to) /\ graph' = MoveGraph(Visited(R), to)
  BY DEF Detects
<1>2. /\ rep \in MergeMaps /\ pts \in PointsToSets /\ graph \in Graphs
      /\ \A u \in DOMAIN pts \cup DOMAIN graph : rep[u] = u
  BY DEF Tidy, Shape, OnlyRepresentatives
<1>3. /\ to \in [Nodes -> Nodes] /\ rep \in [Nodes -> Nodes]
      /\ \A u \in Nodes : rep[rep[u]] = rep[u] /\ rep'[u] = to[rep[u]]
  BY <1>1, <1>2 DEF GoodMove, MergeMaps, Moved
<1>4. /\ MovesTo(Copies(graph, rep), to, Copies(graph', rep'))
      /\ MovesTo(Loads(graph, rep), to, Loads(graph', rep'))
      /\ MovesTo(Stores(graph, rep), to, Stores(graph', rep'))
  <2>1. Visited(R) \in Graphs
    BY <1>1, VisitedIsAGraph
  <2> QED
    BY <1>1, <1>2, <1>3, <2>1, MovedEdges, VisitedEdges
<1>5. \A x \in Nodes : HeldBy(pts, rep, x) \subseteq HeldBy(pts', rep', x)
  <2>1. Visited(R) \in Graphs /\ \A u \in DOMAIN Visited(R) : rep[u] = u
    BY <1>1, VisitedIsAGraph
  <2> QED
    BY <1>1, <1>2, <2>1, MoveKeeps
<1>6. \A x, y \in Nodes : Joined(graph, rep, x, y) => Joined(graph', rep', to[x], to[y])
  BY <1>4 DEF Joined, MovesTo
<1>7. \A u, w \in Nodes : <<u, w>> \in Copies(graph, rep) \cup Loads(graph, rep) \cup Stores(graph, rep)
                             => rep[u] = u /\ rep[w] = w
  <2>1. \A x \in DOMAIN graph : x \in Nodes /\ graph[x].copy \in SUBSET Nodes
                                /\ graph[x].load \in SUBSET Nodes /\ graph[x].store \in SUBSET Nodes
    BY <1>2, GraphShape DEF Edges
  <2>2. \A u, w \in Nodes : <<u, w>> \in Copies(graph, rep) => rep[u] = u /\ rep[w] = w
    BY <1>2, <1>3, <2>1 DEF Copies
  <2>3. \A u, w \in Nodes : <<u, w>> \in Loads(graph, rep) => rep[u] = u /\ rep[w] = w
    BY <1>2, <1>3, <2>1 DEF Loads
  <2>4. \A u, w \in Nodes : <<u, w>> \in Stores(graph, rep) => rep[u] = u /\ rep[w] = w
    BY <1>2, <1>3, <2>1 DEF Stores
  <2> QED
    BY <2>2, <2>3, <2>4
<1> SUFFICES ASSUME NEW n \in Nodes, rep'[n] = n, n \notin S
             PROVE  Handed(pts', graph', rep', n)
  BY DEF AllHanded
<1> DEFINE C == {x \in Nodes : rep[x] = x /\ to[x] = n}
<1>8. \A x \in C : rep[x] = x /\ Handed(pts, graph, rep, x)
  BY DEF AllHanded
<1>9. \A x, y \in C : HeldBy(pts, rep, x) \subseteq HeldBy(pts, rep, y)
  <2>1. \A x \in C, y \in Nodes : rep[y] = y => (to[x] = to[y] <=> y \in C)
    OBVIOUS
  <2>2. C \in SUBSET Nodes
    OBVIOUS
  <2> HIDE DEF C
  <2> QED
    BY <1>8, <2>1, <2>2, CycleHoldsTheSame
<1>10. ASSUME NEW o \in HeldBy(pts', rep', n), NEW x \in C
       PROVE  o \in HeldBy(pts, rep, x)
  <2>1. HeldBy(MovePts(pts, to), Moved(rep, to), n) = HeldBy(pts', rep', n) /\ Moved(rep, to)[n] = n
    BY <1>1
  <2>2. PICK y \in Nodes : rep[y] = y /\ to[y] = n /\ o \in HeldBy(pts, rep, y)
    BY <1>1, <1>2, <2>1, MovedPointees
  <2>3. y \in C
    BY <2>2
  <2> QED
    BY <1>9, <2>2, <2>3
<1>11. pts \in PointsToSets /\ HeldBy(pts', rep', n) \subseteq Nodes
  <2>1. pts' \in PointsToSets
    BY <1>1, <1>2, <1>3, MovePtsMerges
  <2> QED
    BY <1>2, <2>1 DEF HeldBy, PointsToSets
<1>12. ASSUME NEW w \in Nodes, <<n, w>> \in Copies(graph', rep')
       PROVE  HeldBy(pts', rep', n) \subseteq HeldBy(pts', rep', w)
  <2>1. PICK x, y \in Nodes : to[x] = n /\ to[y] = w /\ <<x, y>> \in Copies(graph, rep)
    <3>1. ComesFrom(Copies(graph, rep), to, n, w)
      BY <1>4, <1>12 DEF MovesTo
    <3> QED
      BY <3>1 DEF ComesFrom
  <2>2. x \in C /\ rep[y] = y
    BY <1>7, <2>1
  <2>3. HeldBy(pts, rep, x) \subseteq HeldBy(pts, rep, y)
    BY <1>8, <2>1, <2>2 DEF Handed
  <2>4. HeldBy(pts', rep', y) = HeldBy(pts', rep', w)
    <3>1. rep'[y] = w /\ rep'[w] = w
      BY <1>1, <1>3, <2>1, <2>2 DEF GoodMove
    <3> QED
      BY <3>1 DEF HeldBy
  <2> HIDE DEF C
  <2> QED
    BY <1>5, <1>10, <2>2, <2>3, <2>4
<1>13. ASSUME NEW v \in HeldBy(pts', rep', n), NEW w \in Nodes, <<n, w>> \in Loads(graph', rep')
       PROVE  Joined(graph', rep', rep'[v], w)
  <2>1. PICK x, y \in Nodes : to[x] = n /\ to[y] = w /\ <<x, y>> \in Loads(graph, rep)
    <3>1. ComesFrom(Loads(graph, rep), to, n, w)
      BY <1>4, <1>13 DEF MovesTo
    <3> QED
      BY <3>1 DEF ComesFrom
  <2>2. x \in C
    BY <1>7, <2>1
  <2>3. v \in HeldBy(pts, rep, x) /\ v \in Nodes /\ rep[v] \in Nodes
    BY <1>3, <1>10, <1>11, <2>2
  <2>4. Joined(graph, rep, rep[v], y)
    BY <1>8, <2>1, <2>2, <2>3 DEF Handed
  <2> QED
    BY <1>3, <1>6, <2>1, <2>3, <2>4
<1>14. ASSUME NEW v \in HeldBy(pts', rep', n), NEW w \in Nodes, <<n, w>> \in Stores(graph', rep')
       PROVE  Joined(graph', rep', w, rep'[v])
  <2>1. PICK x, y \in Nodes : to[x] = n /\ to[y] = w /\ <<x, y>> \in Stores(graph, rep)
    <3>1. ComesFrom(Stores(graph, rep), to, n, w)
      BY <1>4, <1>14 DEF MovesTo
    <3> QED
      BY <3>1 DEF ComesFrom
  <2>2. x \in C
    BY <1>7, <2>1
  <2>3. v \in HeldBy(pts, rep, x) /\ v \in Nodes /\ rep[v] \in Nodes
    BY <1>3, <1>10, <1>11, <2>2
  <2>4. Joined(graph, rep, y, rep[v])
    BY <1>8, <2>1, <2>2, <2>3 DEF Handed
  <2> QED
    BY <1>3, <1>6, <2>1, <2>3, <2>4
<1> QED
  BY <1>12, <1>13, <1>14 DEF Handed

\* Unless HCD runs, whatever is not queued has handed on what it holds.
Solving == pc \in {"iterate", "process", "done"}
Settled == ~options.hcd /\ Solving => AllHanded(pts, graph, rep, Waiting(rep, curr, next))

\* Without edges or pointees there is nothing to hand on.
LEMMA NothingToHandOn ==
    ASSUME Tidy, NEW n \in Nodes, rep[n] = n, n \notin DOMAIN pts \/ n \notin DOMAIN graph
    PROVE  Handed(pts, graph, rep, n)
<1>1. n \notin DOMAIN pts => HeldBy(pts, rep, n) = {}
  BY DEF HeldBy
<1>2. n \notin DOMAIN graph =>
          \A x \in Nodes : <<n, x>> \notin Copies(graph, rep) \cup Loads(graph, rep) \cup Stores(graph, rep)
  BY DEF Copies, Loads, Stores
<1> QED
  BY <1>1, <1>2 DEF Handed

LEMMA BuildSettles ==
    ASSUME Tidy, BuildConstraintGraph
    PROVE  Settled'
<1>1. Tidy' /\ ToSet(curr') = DOMAIN pts' \cap DOMAIN graph'
  BY BuildStep
<1> SUFFICES ASSUME NEW n \in Nodes, rep'[n] = n, n \notin Waiting(rep', curr', next')
             PROVE  Handed(pts', graph', rep', n)
  BY DEF Settled, AllHanded
<1>2. n \notin ToSet(curr')
  BY DEF Waiting
<1>3. n \notin DOMAIN pts' \/ n \notin DOMAIN graph'
  BY <1>1, <1>2
<1>4. n \notin DOMAIN pts' => HeldBy(pts', rep', n) = {}
  BY DEF HeldBy
<1>5. n \notin DOMAIN graph' =>
          \A x \in Nodes : /\ <<n, x>> \notin Copies(graph', rep')
                           /\ <<n, x>> \notin Loads(graph', rep') /\ <<n, x>> \notin Stores(graph', rep')
  BY DEF Copies, Loads, Stores
<1> QED
  BY <1>3, <1>4, <1>5 DEF Handed

LEMMA DetectSettles ==
    ASSUME Tidy, Settled, DetectCycles
    PROVE  Settled'
<1>1. PICK R, to : Detects(R, to)
  BY DetectStep
<1>2. /\ pc = "iterate" /\ UNCHANGED <<options, constraints, collapseTo, curr, next, checked>>
  BY DetectStep
<1> SUFFICES ASSUME ~options.hcd
             PROVE  AllHanded(pts', graph', rep', Waiting(rep', curr', next'))
  BY <1>2 DEF Settled
<1>3. AllHanded(pts, graph, rep, Waiting(rep, curr, next))
  BY <1>2 DEF Settled, Solving
<1>4. \A m \in Nodes : rep'[m] = to[rep[m]]
  BY <1>1 DEF Detects, Moved
<1>5. \A m \in ToSet(curr) \cup ToSet(next) : m \in Nodes
  BY DEF Tidy, Shape, ToSet
<1>6. \A q \in Waiting(rep, curr, next) : to[q] \in Waiting(rep', curr', next')
  BY <1>2, <1>4, <1>5 DEF Waiting
<1> QED
  BY <1>1, <1>3, <1>6, DetectHandsOn

LEMMA ExamineSettles ==
    ASSUME Tidy, Settled, ExamineNode
    PROVE  Settled'
<1>1. PICK n, to, b : ExaminesFrom(n, to, b)
  BY ExamineShape
<1>2. /\ pc = "process" /\ curr # << >> /\ curr' = Tail(curr)
      /\ UNCHANGED <<options, constraints, collapseTo, pc>>
  BY ExamineShape
<1> SUFFICES ASSUME ~options.hcd
             PROVE  AllHanded(pts', graph', rep', Waiting(rep', curr', next'))
  BY <1>2 DEF Settled
<1>3. AllHanded(pts, graph, rep, Waiting(rep, curr, next))
  BY <1>2 DEF Settled, Solving
<1> DEFINE a == Start(to)
<1>4. /\ n = rep[Head(curr)] /\ n \in Nodes /\ rep[n] = n
      /\ to = [u \in Nodes |-> u]
      /\ rep' = Moved(rep, to) /\ rep' \in MergeMaps
      /\ a \in Inner(n) /\ b \in Inner(n)
      /\ \A u \in DOMAIN a.pts \cup DOMAIN a.graph : rep'[u] = u
      /\ Examines(n, a, b, rep')
      /\ pts' = b.pts /\ graph' = b.graph /\ next' = b.next
  BY <1>1 DEF ExaminesFrom, HasCollapseTarget
<1>5. rep' = rep /\ a.pts = pts /\ a.graph = graph /\ a.next = next
  <2>1. rep \in MergeMaps /\ pts \in PointsToSets /\ graph \in Graphs
    BY DEF Tidy, Shape
  <2>2. Moved(rep, to) = rep /\ MovePts(pts, to) = pts /\ MoveGraph(graph, to) = graph
    BY <1>4, <2>1, NoMove
  <2> QED
    BY <1>4, <2>2 DEF Start
<1> HIDE DEF a
<1>6. ToSet(curr) = {Head(curr)} \cup ToSet(curr')
  BY <1>2, HeadOfWorklist
<1>7. ToSet(next) \subseteq ToSet(next')
  BY <1>4, <1>5 DEF Examines
<1>8. \A m \in Nodes : m \in Waiting(rep, curr, next) /\ rep'[m] = m =>
          m = n \/ m \in Waiting(rep', curr', next')
  BY <1>4, <1>5, <1>6, <1>7 DEF Waiting
<1>9. \A m \in ToSet(b.next) : rep'[m] \in Waiting(rep', curr', next')
  BY <1>4 DEF Waiting
<1>10. AllHanded(a.pts, a.graph, rep', Waiting(rep, curr, next)) /\ rep'[n] = n
  BY <1>3, <1>4, <1>5
<1>11. AllHanded(b.pts, b.graph, rep', Waiting(rep', curr', next'))
  BY <1>4, <1>8, <1>9, <1>10, ExaminesHandsOn
<1> QED
  BY <1>4, <1>11

LEMMA QuietSettles ==
    ASSUME Tidy, Settled,
           \/ MergePastTheEnd \/ BeginIteration \/ SwapWorkLists \/ Finish \/ SkipNode \/ Stopped
           \/ UNCHANGED vars
    PROVE  Settled'
<1>1. UNCHANGED <<options, constraints, rep, collapseTo, pts, graph>>
  BY QuietStep
<1>2. CASE MergePastTheEnd
  BY <1>2 DEF MergePastTheEnd, Settled, Solving
<1>3. CASE BeginIteration \/ Finish
  BY <1>3 DEF BeginIteration, Finish, Settled, Solving
<1>4. CASE SwapWorkLists
  <2>1. Waiting(rep, curr', next') = Waiting(rep, curr, next)
    BY <1>4 DEF SwapWorkLists, Waiting
  <2> QED
    BY <1>1, <1>4, <2>1 DEF SwapWorkLists, Settled, Solving
<1>5. CASE SkipNode
  <2>1. /\ curr # << >> /\ pc = "process" /\ UNCHANGED <<next, pc>> /\ curr' = Tail(curr)
        /\ Examined \notin DOMAIN graph \/ Examined \notin DOMAIN pts
    BY <1>5 DEF SkipNode
  <2>2. /\ ToSet(curr) = {Head(curr)} \cup ToSet(curr')
        /\ Examined \in Nodes /\ rep[Examined] = Examined
    BY <2>1, HeadOfWorklist
  <2>3. Handed(pts, graph, rep, Examined)
    BY <2>1, <2>2, NothingToHandOn
  <2>4. \A n \in Waiting(rep, curr, next) : n = Examined \/ n \in Waiting(rep, curr', next')
    BY <2>1, <2>2 DEF Waiting, Examined
  <2> QED
    BY <1>1, <2>1, <2>3, <2>4 DEF Settled, Solving, AllHanded
<1>6. CASE Stopped \/ UNCHANGED vars
  BY <1>6 DEF Stopped, vars, Settled, Solving, AllHanded, Handed, Joined
<1> QED
  BY <1>2, <1>3, <1>4, <1>5, <1>6 DEF Stopped

LEMMA SettledNext ==
    ASSUME Tidy, Settled, [AndersenNext]_andersenVars
    PROVE  Settled'
<1>1. CASE RunHvn \/ RunHu
  BY <1>1 DEF RunHvn, RunHu, Optimize, Begin, Settled, Solving
<1>2. CASE OfflineCycleDetection
  BY <1>2 DEF OfflineCycleDetection, Settled, Solving
<1>3. CASE CollapseExamined
  <2>1. options.hcd /\ UNCHANGED options
    BY <1>3, CollapseShape
  <2> QED
    BY <2>1 DEF Settled
<1>4. CASE BuildConstraintGraph \/ DetectCycles \/ ExamineNode
  BY <1>4, BuildSettles, DetectSettles, ExamineSettles
<1>5. CASE \/ MergePastTheEnd \/ BeginIteration \/ SwapWorkLists \/ Finish \/ SkipNode \/ Stopped
           \/ UNCHANGED vars
  BY <1>5, QuietSettles
<1> QED
  BY <1>1, <1>2, <1>3, <1>4, <1>5 DEF AndersenNext, Solve, Next, andersenVars

LEMMA SettledAlways == AndersenSpec => []Settled
<1>1. AndersenInit => Settled
  BY DEF AndersenInit, Settled, Solving, Begin
<1>2. Tidy /\ Settled /\ [AndersenNext]_andersenVars => Settled'
  BY SettledNext
<1> QED
  BY <1>1, <1>2, TidyAlways, PTL DEF AndersenSpec

\* Without HCD, whatever a node that is not queued holds has been handed on: no work is
\* forgotten when nodes are merged, worklists swapped or entries skipped.
THEOREM WorkIsHandedOn == AndersenSpec => []HandedOn
<1>1. Tidy /\ Settled => HandedOn
  <2> SUFFICES ASSUME Tidy, Settled, ~options.hcd, Solving,
                      NEW n \in DOMAIN graph \cap DOMAIN pts, ~Queued(n)
               PROVE  /\ \A d \in graph[n].copy : pts[n] \subseteq PointsTo(d)
                      /\ \A v \in pts[n] :
                            /\ \A d \in graph[n].load :
                                  rep[v] = rep[d] \/ (rep[v] \in DOMAIN graph
                                       /\ \E e \in graph[rep[v]].copy : rep[e] = rep[d])
                            /\ \A d \in graph[n].store :
                                  rep[d] = rep[v] \/ (rep[d] \in DOMAIN graph
                                       /\ \E e \in graph[rep[d]].copy : rep[e] = rep[v])
    BY DEF HandedOn, Solving
  <2>1. /\ rep \in MergeMaps /\ graph \in Graphs /\ pts \in PointsToSets
        /\ n \in Nodes /\ rep[n] = n
    BY DEF Tidy, Shape, OnlyRepresentatives, PointsToSets
  <2>2. graph[n].copy \in SUBSET Nodes /\ graph[n].load \in SUBSET Nodes /\ graph[n].store \in SUBSET Nodes
        /\ pts[n] \in SUBSET Nodes
    BY <2>1, GraphShape DEF Edges, PointsToSets
  <2>3. Handed(pts, graph, rep, n)
    BY <2>1 DEF Settled, AllHanded, Waiting, Queued
  <2>4. HeldBy(pts, rep, n) = pts[n] /\ \A x \in Nodes : HeldBy(pts, rep, x) = PointsTo(x)
    BY <2>1 DEF HeldBy, PointsTo
  <2>5. rep \in [Nodes -> Nodes] /\ \A x \in Nodes : rep[rep[x]] = rep[x]
    BY <2>1 DEF MergeMaps
  <2>6. /\ \A d \in graph[n].copy : <<n, rep[d]>> \in Copies(graph, rep)
        /\ \A d \in graph[n].load : <<n, rep[d]>> \in Loads(graph, rep)
        /\ \A d \in graph[n].store : <<n, rep[d]>> \in Stores(graph, rep)
    BY <2>1, <2>2, <2>5 DEF Copies, Loads, Stores
  <2>7. ASSUME NEW d \in graph[n].copy
        PROVE  pts[n] \subseteq PointsTo(d)
    <3>1. rep[d] \in Nodes /\ PointsTo(rep[d]) = PointsTo(d)
      BY <2>2, <2>5 DEF PointsTo
    <3> QED
      BY <2>3, <2>4, <2>6, <3>1 DEF Handed
  <2>8. \A x, y \in Nodes : Joined(graph, rep, x, y) =>
            x = y \/ (x \in DOMAIN graph /\ \E e \in graph[x].copy : rep[e] = y)
    BY DEF Joined, Copies
  <2>9. ASSUME NEW v \in pts[n], NEW d \in graph[n].load
        PROVE  rep[v] = rep[d] \/ (rep[v] \in DOMAIN graph
                    /\ \E e \in graph[rep[v]].copy : rep[e] = rep[d])
    <3>1. rep[d] \in Nodes /\ rep[v] \in Nodes
      BY <2>2, <2>5
    <3> QED
      BY <2>3, <2>4, <2>6, <2>8, <3>1 DEF Handed
  <2>10. ASSUME NEW v \in pts[n], NEW d \in graph[n].store
         PROVE  rep[d] = rep[v] \/ (rep[d] \in DOMAIN graph
                    /\ \E e \in graph[rep[d]].copy : rep[e] = rep[v])
    <3>1. rep[d] \in Nodes /\ rep[v] \in Nodes
      BY <2>2, <2>5
    <3> QED
      BY <2>3, <2>4, <2>6, <2>8, <3>1 DEF Handed
  <2> QED
    BY <2>7, <2>9, <2>10
<1> QED
  BY <1>1, TidyAlways, SettledAlways, PTL

-----------------------------------------------------------------------------
(* Nothing is missing.                                                         *)

\* Every constraint is in the graph, or was when the graph was built, up to merging.
Represented(cons, p, g, r) == \A c \in cons :
    /\ c.type = "ADDR_OF" => c.src \in HeldBy(p, r, c.dest)
    /\ c.type = "COPY" => <<r[c.src], r[c.dest]>> \in Copies(g, r)
    /\ c.type = "LOAD" => <<r[c.src], r[c.dest]>> \in Loads(g, r)
    /\ c.type = "STORE" => <<r[c.dest], r[c.src]>> \in Stores(g, r)

LEMMA BuildRepresents ==
    ASSUME rep \in MergeMaps, constraints \in SUBSET ConstraintRecords
    PROVE  Represented(constraints, InitialPts, InitialGraph, rep)
<1>1. /\ rep \in [Nodes -> Nodes] /\ \A n \in Nodes : rep[rep[n]] = rep[n]
      /\ \A c \in constraints : c.dest \in Nodes /\ c.src \in Nodes
  BY DEF MergeMaps, ConstraintRecords
<1> SUFFICES ASSUME NEW c \in constraints
             PROVE  /\ c.type = "ADDR_OF" => c.src \in HeldBy(InitialPts, rep, c.dest)
                    /\ c.type = "COPY" => <<rep[c.src], rep[c.dest]>> \in Copies(InitialGraph, rep)
                    /\ c.type = "LOAD" => <<rep[c.src], rep[c.dest]>> \in Loads(InitialGraph, rep)
                    /\ c.type = "STORE" => <<rep[c.dest], rep[c.src]>> \in Stores(InitialGraph, rep)
  BY DEF Represented
<1>2. c.type = "ADDR_OF" => c.src \in HeldBy(InitialPts, rep, c.dest)
  BY InitialPtsShape DEF HeldBy
<1>3. /\ c.type = "COPY" => /\ rep[c.src] \in DOMAIN InitialGraph
                            /\ rep[c.dest] \in InitialGraph[rep[c.src]].copy
      /\ c.type = "LOAD" => /\ rep[c.src] \in DOMAIN InitialGraph
                            /\ rep[c.dest] \in InitialGraph[rep[c.src]].load
      /\ c.type = "STORE" => /\ rep[c.dest] \in DOMAIN InitialGraph
                             /\ rep[c.src] \in InitialGraph[rep[c.dest]].store
  BY InitialGraphShape
<1>4. c.type = "COPY" => <<rep[c.src], rep[c.dest]>> \in Copies(InitialGraph, rep)
  BY <1>1, <1>3 DEF Copies
<1>5. c.type = "LOAD" => <<rep[c.src], rep[c.dest]>> \in Loads(InitialGraph, rep)
  BY <1>1, <1>3 DEF Loads
<1>6. c.type = "STORE" => <<rep[c.dest], rep[c.src]>> \in Stores(InitialGraph, rep)
  BY <1>1, <1>3 DEF Stores
<1> QED
  BY <1>2, <1>4, <1>5, <1>6

LEMMA MoveRepresents ==
    ASSUME NEW r \in MergeMaps, NEW to, GoodMove(r, to),
           NEW p \in PointsToSets, \A u \in DOMAIN p : r[u] = u,
           NEW g \in Graphs, \A u \in DOMAIN g : r[u] = u,
           NEW cons \in SUBSET ConstraintRecords, Represented(cons, p, g, r)
    PROVE  Represented(cons, MovePts(p, to), MoveGraph(g, to), Moved(r, to))
<1> DEFINE m == Moved(r, to)
           h == MoveGraph(g, to)
<1>1. to \in [Nodes -> Nodes] /\ r \in [Nodes -> Nodes] /\ \A n \in Nodes : m[n] = to[r[n]]
  BY DEF GoodMove, MergeMaps, Moved
<1>2. /\ MovesTo(Copies(g, r), to, Copies(h, m))
      /\ MovesTo(Loads(g, r), to, Loads(h, m))
      /\ MovesTo(Stores(g, r), to, Stores(h, m))
  BY <1>1, MovedEdges
<1>3. \A n \in Nodes : HeldBy(p, r, n) \subseteq HeldBy(MovePts(p, to), m, n)
  BY MoveKeeps
<1> HIDE DEF m, h
<1>4. ASSUME NEW c \in cons
      PROVE  /\ c.type = "ADDR_OF" => c.src \in HeldBy(MovePts(p, to), m, c.dest)
             /\ c.type = "COPY" => <<m[c.src], m[c.dest]>> \in Copies(h, m)
             /\ c.type = "LOAD" => <<m[c.src], m[c.dest]>> \in Loads(h, m)
             /\ c.type = "STORE" => <<m[c.dest], m[c.src]>> \in Stores(h, m)
  <2>1. c.dest \in Nodes /\ c.src \in Nodes /\ r[c.dest] \in Nodes /\ r[c.src] \in Nodes
    BY <1>1 DEF ConstraintRecords
  <2>2. c.type = "ADDR_OF" => c.src \in HeldBy(MovePts(p, to), m, c.dest)
    BY <1>3, <2>1 DEF Represented
  <2>3. c.type = "COPY" => <<m[c.src], m[c.dest]>> \in Copies(h, m)
    BY <1>1, <1>2, <2>1 DEF Represented, MovesTo
  <2>4. c.type = "LOAD" => <<m[c.src], m[c.dest]>> \in Loads(h, m)
    BY <1>1, <1>2, <2>1 DEF Represented, MovesTo
  <2>5. c.type = "STORE" => <<m[c.dest], m[c.src]>> \in Stores(h, m)
    BY <1>1, <1>2, <2>1 DEF Represented, MovesTo
  <2> QED
    BY <2>2, <2>3, <2>4, <2>5
<1> QED
  BY <1>4 DEF Represented, m, h

LEMMA ExaminesRepresents ==
    ASSUME NEW r \in MergeMaps, NEW n \in Nodes, NEW a \in Inner(n), NEW b, Examines(n, a, b, r),
           \A u \in DOMAIN a.pts \cup DOMAIN a.graph : r[u] = u,
           NEW cons \in SUBSET ConstraintRecords, Represented(cons, a.pts, a.graph, r)
    PROVE  Represented(cons, b.pts, b.graph, r)
<1>1. \A x \in Nodes : HeldBy(a.pts, r, x) \subseteq HeldBy(b.pts, r, x)
  BY ExaminesKeeps
<1>2. /\ Copies(a.graph, r) \subseteq Copies(b.graph, r)
      /\ Loads(b.graph, r) = Loads(a.graph, r) /\ Stores(b.graph, r) = Stores(a.graph, r)
  BY DEF Examines
<1>3. \A c \in cons : c.dest \in Nodes
  BY DEF ConstraintRecords
<1> QED
  BY <1>1, <1>2, <1>3 DEF Represented

\* Once the graph is built, every constraint is in it.
Covered == Solving => Represented(constraints, pts, graph, rep)

\* The next worklist is empty between iterations, and both are in the end.
Idle ==
    /\ pc \notin {"process", "undefined"} => next = << >>
    /\ pc = "done" => curr = << >>

LEMMA CoveredNext ==
    ASSUME Tidy, Covered, [AndersenNext]_andersenVars
    PROVE  Covered'
<1>1. /\ rep \in MergeMaps /\ pts \in PointsToSets /\ graph \in Graphs
      /\ constraints \in SUBSET ConstraintRecords
      /\ \A u \in DOMAIN pts \cup DOMAIN graph : rep[u] = u
  BY DEF Tidy, Shape, OnlyRepresentatives
<1>2. CASE RunHvn \/ RunHu
  BY <1>2 DEF RunHvn, RunHu, Optimize, Begin, Covered, Solving
<1>3. CASE OfflineCycleDetection
  BY <1>3 DEF OfflineCycleDetection, Covered, Solving
<1>4. CASE BuildConstraintGraph
  BY <1>1, <1>4, BuildRepresents DEF BuildConstraintGraph, Covered
<1>5. CASE DetectCycles
  <2>1. PICK R, to : Detects(R, to)
    BY <1>5, DetectStep
  <2>2. /\ R \in SUBSET Nodes /\ \A u \in R : rep[u] = u
        /\ GoodMove(rep, to)
        /\ rep' = Moved(rep, to) /\ pts' = MovePts(pts, to) /\ graph' = MoveGraph(Visited(R), to)
    BY <2>1 DEF Detects
  <2>3. pc = "iterate" /\ UNCHANGED constraints
    BY <1>5, DetectStep
  <2>4. Visited(R) \in Graphs /\ \A u \in DOMAIN Visited(R) : rep[u] = u
    BY <2>2, VisitedIsAGraph
  <2>5. Represented(constraints, pts, Visited(R), rep)
    BY <2>2, <2>3, VisitedEdges DEF Covered, Solving, Represented
  <2>6. Represented(constraints, pts', graph', rep')
    BY <1>1, <2>2, <2>4, <2>5, MoveRepresents
  <2> QED
    BY <2>3, <2>6 DEF Covered
<1>6. CASE CollapseExamined
  <2>1. PICK target, to : CollapsesTo(target, to)
    BY <1>6, CollapseShape
  <2>2. /\ target \in Nodes /\ rep[target] = target
        /\ to = MoveAll({rep[v] : v \in pts[Examined]}, target)
        /\ rep' = Moved(rep, to) /\ pts' = MovePts(pts, to) /\ graph' = MoveGraph(graph, to)
    BY <2>1 DEF CollapsesTo
  <2>3. GoodMove(rep, to)
    BY <1>1, <2>2, MoveAllIsGood
  <2>4. pc = "process" /\ UNCHANGED constraints
    BY <1>6, CollapseShape
  <2>5. Represented(constraints, pts, graph, rep)
    BY <2>4 DEF Covered, Solving
  <2>6. Represented(constraints, pts', graph', rep')
    BY <1>1, <2>2, <2>3, <2>5, MoveRepresents
  <2> QED
    BY <2>4, <2>6 DEF Covered
<1>7. CASE ExamineNode
  <2>1. PICK n, to, b : ExaminesFrom(n, to, b)
    BY <1>7, ExamineShape
  <2> DEFINE a == Start(to)
  <2>2. /\ n \in Nodes /\ GoodMove(rep, to)
        /\ rep' = Moved(rep, to) /\ rep' \in MergeMaps
        /\ a \in Inner(n)
        /\ \A u \in DOMAIN a.pts \cup DOMAIN a.graph : rep'[u] = u
        /\ Examines(n, a, b, rep')
        /\ pts' = b.pts /\ graph' = b.graph
    BY <2>1 DEF ExaminesFrom
  <2>3. a.pts = MovePts(pts, to) /\ a.graph = MoveGraph(graph, to)
    BY DEF Start
  <2>4. pc = "process" /\ UNCHANGED constraints
    BY <1>7, ExamineShape
  <2>5. Represented(constraints, pts, graph, rep)
    BY <2>4 DEF Covered, Solving
  <2> HIDE DEF a
  <2>6. Represented(constraints, a.pts, a.graph, rep')
    BY <1>1, <2>2, <2>3, <2>5, MoveRepresents
  <2>7. Represented(constraints, b.pts, b.graph, rep')
    BY <1>1, <2>2, <2>6, ExaminesRepresents
  <2> QED
    BY <2>2, <2>4, <2>7 DEF Covered
<1>8. CASE \/ MergePastTheEnd \/ BeginIteration \/ SwapWorkLists \/ Finish \/ SkipNode \/ Stopped
           \/ UNCHANGED vars
  <2>1. UNCHANGED <<options, constraints, rep, collapseTo, pts, graph>>
    BY <1>8, QuietStep
  <2>2. Solving' => Solving
    BY <1>8 DEF MergePastTheEnd, BeginIteration, SwapWorkLists, Finish, SkipNode, Stopped, vars, Solving
  <2> QED
    BY <2>1, <2>2 DEF Covered
<1> QED
  BY <1>2, <1>3, <1>4, <1>5, <1>6, <1>7, <1>8 DEF AndersenNext, Solve, Next, andersenVars

LEMMA IdleNext ==
    ASSUME Idle, [AndersenNext]_andersenVars
    PROVE  Idle'
<1>1. CASE RunHvn \/ RunHu
  BY <1>1 DEF RunHvn, RunHu, Optimize, Begin, Idle
<1>2. CASE OfflineCycleDetection \/ MergePastTheEnd \/ BuildConstraintGraph
  BY <1>2 DEF OfflineCycleDetection, MergePastTheEnd, BuildConstraintGraph, Idle
<1>3. CASE DetectCycles
  BY <1>3 DEF DetectCycles, Idle
<1>4. CASE BeginIteration \/ SwapWorkLists \/ Finish \/ SkipNode
  BY <1>4 DEF BeginIteration, SwapWorkLists, Finish, SkipNode, Idle
<1>5. CASE CollapseExamined
  BY <1>5 DEF CollapseExamined, Idle
<1>6. CASE ExamineNode
  BY <1>6 DEF ExamineNode, Idle
<1>7. CASE Stopped \/ UNCHANGED vars
  BY <1>7 DEF Stopped, vars, Idle
<1> QED
  BY <1>1, <1>2, <1>3, <1>4, <1>5, <1>6, <1>7 DEF AndersenNext, Solve, Next, andersenVars

LEMMA CoveredAlways == AndersenSpec => [](Covered /\ Idle)
<1>1. AndersenInit => Covered /\ Idle
  BY DEF AndersenInit, NothingSolved, Begin, Covered, Solving, Idle
<1>2. Tidy /\ Covered /\ [AndersenNext]_andersenVars => Covered'
  BY CoveredNext
<1>3. Idle /\ [AndersenNext]_andersenVars => Idle'
  BY IdleNext
<1> QED
  BY <1>1, <1>2, <1>3, TidyAlways, PTL DEF AndersenSpec

\* The pointees found, as pairs.
Found == {p \in Nodes \X Nodes : p[2] \in PointsTo(p[1])}

LEMMA EndSolves ==
    ASSUME Tidy, Settled, Covered, Idle, ~options.hcd, pc = "done"
    PROVE  Solves(Nodes, constraints, Found)
<1>1. /\ rep \in MergeMaps /\ pts \in PointsToSets /\ graph \in Graphs
      /\ constraints \in SUBSET ConstraintRecords
  BY DEF Tidy, Shape
<1>2. rep \in [Nodes -> Nodes] /\ \A n \in Nodes : rep[rep[n]] = rep[n]
  BY <1>1 DEF MergeMaps
<1>3. \A n \in Nodes : rep[n] = n => Handed(pts, graph, rep, n)
  <2>1. Waiting(rep, curr, next) = {}
    BY DEF Idle, Waiting, ToSet
  <2> QED
    BY <2>1 DEF Settled, Solving, AllHanded
<1>4. Represented(constraints, pts, graph, rep)
  BY DEF Covered, Solving
<1> DEFINE H(n) == HeldBy(pts, rep, n)
<1>5. \A n, o \in Nodes : <<n, o>> \in Found <=> o \in H(n)
  BY DEF Found, HeldBy, PointsTo
<1>6. \A m, n \in Nodes : rep[m] = rep[n] => H(m) = H(n)
  BY DEF HeldBy
<1>7. \A n \in Nodes : H(n) = H(rep[n]) /\ H(n) \subseteq Nodes
  BY <1>1, <1>2 DEF HeldBy, PointsToSets
<1>8. \A x, y \in Nodes : Joined(graph, rep, rep[x], rep[y]) => H(x) \subseteq H(y)
  BY <1>2, <1>3, <1>7 DEF Joined, Handed
<1> SUFFICES ASSUME NEW c \in constraints, NEW n \in Nodes, NEW o \in Nodes, Derives(Nodes, c, Found, n, o)
             PROVE  o \in H(n)
  BY <1>5 DEF Solves
<1>9. c.dest \in Nodes /\ c.src \in Nodes /\ rep[c.dest] \in Nodes /\ rep[c.src] \in Nodes
  BY <1>1, <1>2 DEF ConstraintRecords
<1>10. Handed(pts, graph, rep, rep[c.src]) /\ Handed(pts, graph, rep, rep[c.dest])
  BY <1>2, <1>3, <1>9
<1> HIDE DEF H
<1>11. CASE c.type = "ADDR_OF" /\ n = c.dest /\ o = c.src
  BY <1>4, <1>11 DEF Represented, H
<1>12. CASE c.type = "COPY" /\ n = c.dest /\ <<c.src, o>> \in Found
  BY <1>4, <1>5, <1>8, <1>9, <1>12 DEF Represented, Joined
<1>13. CASE c.type = "LOAD" /\ n = c.dest /\ \E v \in Nodes : <<c.src, v>> \in Found /\ <<v, o>> \in Found
  <2>1. PICK v \in Nodes : v \in H(c.src) /\ o \in H(v)
    BY <1>5, <1>9, <1>13
  <2>2. v \in H(rep[c.src])
    BY <1>7, <1>9, <2>1
  <2>3. Joined(graph, rep, rep[v], rep[c.dest])
    BY <1>4, <1>9, <1>10, <1>13, <2>2 DEF Represented, Handed, H
  <2> QED
    BY <1>8, <1>9, <1>13, <2>1, <2>3
<1>14. CASE c.type = "STORE" /\ <<c.dest, n>> \in Found /\ <<c.src, o>> \in Found
  <2>1. n \in H(c.dest) /\ o \in H(c.src)
    BY <1>5, <1>9, <1>14
  <2>2. n \in H(rep[c.dest])
    BY <1>7, <1>9, <2>1
  <2>3. Joined(graph, rep, rep[c.src], rep[n])
    BY <1>4, <1>9, <1>10, <1>14, <2>2 DEF Represented, Handed, H
  <2> QED
    BY <1>8, <1>9, <2>1, <2>3
<1> QED
  BY <1>11, <1>12, <1>13, <1>14 DEF Derives

\* Without HCD, solving ends with a solution of the constraints that the passes left,
\* whatever lazy cycle detection merged (with HCD it may not: see the run that says so).
THEOREM SolvedWithoutHcd == AndersenSpec => [](~options.hcd => FixedPointReached)
<1>1. Tidy /\ Settled /\ Covered /\ Idle => (~options.hcd => FixedPointReached)
  <2> SUFFICES ASSUME Tidy, Settled, Covered, Idle, ~options.hcd, pc = "done"
               PROVE  LET found == UNION {{n} \X PointsTo(n) : n \in Nodes}
                      IN  Consequences(constraints, found) = found
    BY DEF FixedPointReached
  <2>1. \A n \in Nodes : PointsTo(n) \subseteq Nodes
    BY DEF Tidy, Shape, PointsTo, PointsToSets
  <2>2. UNION {{n} \X PointsTo(n) : n \in Nodes} = Found
    <3>1. \A p : p \in UNION {{n} \X PointsTo(n) : n \in Nodes} <=> p \in Found
      BY <2>1 DEF Found
    <3> QED
      BY <3>1
  <2>3. constraints \in SUBSET ConstraintRecords /\ Found \in SUBSET (Nodes \X Nodes)
    BY DEF Tidy, Shape, Found
  <2>4. Consequences(constraints, Found) = Found
    BY <2>3, EndSolves, FixedIsSolved DEF ConstraintRecords, ConstraintsOver
  <2> QED
    BY <2>2, <2>4
<1> QED
  BY <1>1, TidyAlways, SettledAlways, CoveredAlways, PTL

-----------------------------------------------------------------------------
(* Nothing is spurious.                                                        *)

\* x and y hold the same in L.
Same(L, x, y) == \A o \in Nodes : <<x, o>> \in L <=> <<y, o>> \in L

\* Nodes are merged only when L does not tell them apart, pointees are in L, and what the
\* edges demand holds of L.
Sound(L, p, g, r) ==
    /\ \A x, y \in Nodes : r[x] = r[y] => Same(L, x, y)
    /\ \A x, o \in Nodes : o \in HeldBy(p, r, x) => <<x, o>> \in L
    /\ \A x, y, o \in Nodes : <<x, y>> \in Copies(g, r) /\ <<x, o>> \in L => <<y, o>> \in L
    /\ \A x, y, v, o \in Nodes :
          <<x, y>> \in Loads(g, r) /\ <<x, v>> \in L /\ <<v, o>> \in L => <<y, o>> \in L
    /\ \A x, y, v, o \in Nodes :
          <<x, y>> \in Stores(g, r) /\ <<x, v>> \in L /\ <<y, o>> \in L => <<v, o>> \in L

LEMMA BuildIsSound ==
    ASSUME rep \in MergeMaps, constraints \in SUBSET ConstraintRecords,
           NEW L, Solves(Nodes, constraints, L), \A x, y \in Nodes : rep[x] = rep[y] => Same(L, x, y)
    PROVE  Sound(L, InitialPts, InitialGraph, rep)
<1>1. /\ rep \in [Nodes -> Nodes] /\ \A n \in Nodes : rep[rep[n]] = rep[n]
      /\ \A c \in constraints : c.dest \in Nodes /\ c.src \in Nodes
  BY DEF MergeMaps, ConstraintRecords
<1>2. ASSUME NEW x \in Nodes, NEW o \in Nodes, o \in HeldBy(InitialPts, rep, x)
      PROVE  <<x, o>> \in L
  <2>1. PICK c \in constraints : c.type = "ADDR_OF" /\ rep[c.dest] = rep[x] /\ c.src = o
    BY <1>2, InitialPtsShape DEF HeldBy
  <2>2. <<c.dest, o>> \in L
    BY <1>1, <2>1 DEF Solves, Derives
  <2> QED
    BY <1>1, <2>1, <2>2 DEF Same
<1>3. InitialGraph \in Graphs
      /\ \A u \in DOMAIN InitialGraph :
            /\ \A d \in InitialGraph[u].copy : \E c \in constraints :
                  c.type = "COPY" /\ rep[c.src] = u /\ rep[c.dest] = d
            /\ \A d \in InitialGraph[u].load : \E c \in constraints :
                  c.type = "LOAD" /\ rep[c.src] = u /\ rep[c.dest] = d
            /\ \A d \in InitialGraph[u].store : \E c \in constraints :
                  c.type = "STORE" /\ rep[c.dest] = u /\ rep[c.src] = d
  BY InitialGraphShape
<1>4. ASSUME NEW x \in Nodes, NEW y \in Nodes, <<x, y>> \in Copies(InitialGraph, rep)
      PROVE  \E c \in constraints : c.type = "COPY" /\ rep[c.src] = rep[x] /\ rep[c.dest] = rep[y]
  <2>1. PICK d \in InitialGraph[x].copy : rep[d] = y /\ x \in DOMAIN InitialGraph
    BY <1>4 DEF Copies
  <2>2. PICK c \in constraints : c.type = "COPY" /\ rep[c.src] = x /\ rep[c.dest] = d
    BY <1>3, <2>1
  <2> QED
    BY <1>1, <2>1, <2>2
<1>5. ASSUME NEW x \in Nodes, NEW y \in Nodes, <<x, y>> \in Loads(InitialGraph, rep)
      PROVE  \E c \in constraints : c.type = "LOAD" /\ rep[c.src] = rep[x] /\ rep[c.dest] = rep[y]
  <2>1. PICK d \in InitialGraph[x].load : rep[d] = y /\ x \in DOMAIN InitialGraph
    BY <1>5 DEF Loads
  <2>2. PICK c \in constraints : c.type = "LOAD" /\ rep[c.src] = x /\ rep[c.dest] = d
    BY <1>3, <2>1
  <2> QED
    BY <1>1, <2>1, <2>2
<1>6. ASSUME NEW x \in Nodes, NEW y \in Nodes, <<x, y>> \in Stores(InitialGraph, rep)
      PROVE  \E c \in constraints : c.type = "STORE" /\ rep[c.dest] = rep[x] /\ rep[c.src] = rep[y]
  <2>1. PICK d \in InitialGraph[x].store : rep[d] = y /\ x \in DOMAIN InitialGraph
    BY <1>6 DEF Stores
  <2>2. PICK c \in constraints : c.type = "STORE" /\ rep[c.dest] = x /\ rep[c.src] = d
    BY <1>3, <2>1
  <2> QED
    BY <1>1, <2>1, <2>2
<1>7. \A x, y, o \in Nodes : rep[x] = rep[y] => (<<x, o>> \in L <=> <<y, o>> \in L)
  BY DEF Same
<1>8. ASSUME NEW x \in Nodes, NEW y \in Nodes, NEW o \in Nodes,
             <<x, y>> \in Copies(InitialGraph, rep), <<x, o>> \in L
      PROVE  <<y, o>> \in L
  <2>1. PICK c \in constraints : c.type = "COPY" /\ rep[c.src] = rep[x] /\ rep[c.dest] = rep[y]
    BY <1>4, <1>8
  <2>2. <<c.src, o>> \in L
    BY <1>1, <1>7, <1>8, <2>1
  <2>3. <<c.dest, o>> \in L
    BY <1>1, <2>1, <2>2 DEF Solves, Derives
  <2> QED
    BY <1>1, <1>7, <2>1, <2>3
<1>9. ASSUME NEW x \in Nodes, NEW y \in Nodes, NEW v \in Nodes, NEW o \in Nodes,
             <<x, y>> \in Loads(InitialGraph, rep), <<x, v>> \in L, <<v, o>> \in L
      PROVE  <<y, o>> \in L
  <2>1. PICK c \in constraints : c.type = "LOAD" /\ rep[c.src] = rep[x] /\ rep[c.dest] = rep[y]
    BY <1>5, <1>9
  <2>2. <<c.src, v>> \in L
    BY <1>1, <1>7, <1>9, <2>1
  <2>3. <<c.dest, o>> \in L
    BY <1>1, <1>9, <2>1, <2>2 DEF Solves, Derives
  <2> QED
    BY <1>1, <1>7, <2>1, <2>3
<1>10. ASSUME NEW x \in Nodes, NEW y \in Nodes, NEW v \in Nodes, NEW o \in Nodes,
              <<x, y>> \in Stores(InitialGraph, rep), <<x, v>> \in L, <<y, o>> \in L
       PROVE  <<v, o>> \in L
  <2>1. PICK c \in constraints : c.type = "STORE" /\ rep[c.dest] = rep[x] /\ rep[c.src] = rep[y]
    BY <1>6, <1>10
  <2>2. <<c.dest, v>> \in L /\ <<c.src, o>> \in L
    BY <1>1, <1>7, <1>10, <2>1
  <2> QED
    BY <1>1, <2>1, <2>2 DEF Solves, Derives
<1> QED
  BY <1>2, <1>8, <1>9, <1>10 DEF Sound

\* Edges lead from representatives to representatives.
LEMMA EdgesJoinReps ==
    ASSUME NEW r \in MergeMaps, NEW g \in Graphs, \A u \in DOMAIN g : r[u] = u
    PROVE  \A x, y \in Nodes : <<x, y>> \in Copies(g, r) \cup Loads(g, r) \cup Stores(g, r)
                                  => r[x] = x /\ r[y] = y
<1>1. \A x \in DOMAIN g : x \in Nodes /\ g[x].copy \in SUBSET Nodes
                          /\ g[x].load \in SUBSET Nodes /\ g[x].store \in SUBSET Nodes
  BY GraphShape DEF Edges
<1>2. r \in [Nodes -> Nodes] /\ \A n \in Nodes : r[r[n]] = r[n]
  BY DEF MergeMaps
<1>3. \A x, y \in Nodes : <<x, y>> \in Copies(g, r) => r[x] = x /\ r[y] = y
  BY <1>1, <1>2 DEF Copies
<1>4. \A x, y \in Nodes : <<x, y>> \in Loads(g, r) => r[x] = x /\ r[y] = y
  BY <1>1, <1>2 DEF Loads
<1>5. \A x, y \in Nodes : <<x, y>> \in Stores(g, r) => r[x] = x /\ r[y] = y
  BY <1>1, <1>2 DEF Stores
<1> QED
  BY <1>3, <1>4, <1>5

LEMMA MoveIsSound ==
    ASSUME NEW r \in MergeMaps, NEW to, GoodMove(r, to),
           NEW p \in PointsToSets, \A u \in DOMAIN p : r[u] = u,
           NEW g \in Graphs, \A u \in DOMAIN g : r[u] = u,
           NEW L, Sound(L, p, g, r), \A x \in Nodes : r[x] = x => Same(L, x, to[x])
    PROVE  Sound(L, MovePts(p, to), MoveGraph(g, to), Moved(r, to))
<1> DEFINE m == Moved(r, to)
           h == MoveGraph(g, to)
           q == MovePts(p, to)
<1>1. /\ to \in [Nodes -> Nodes] /\ r \in [Nodes -> Nodes]
      /\ \A n \in Nodes : m[n] = to[r[n]] /\ r[r[n]] = r[n]
  BY DEF GoodMove, MergeMaps, Moved
<1>2. /\ MovesTo(Copies(g, r), to, Copies(h, m))
      /\ MovesTo(Loads(g, r), to, Loads(h, m))
      /\ MovesTo(Stores(g, r), to, Stores(h, m))
  BY <1>1, MovedEdges
<1>3. \A x, y \in Nodes : <<x, y>> \in Copies(g, r) \cup Loads(g, r) \cup Stores(g, r) => r[x] = x /\ r[y] = y
  BY EdgesJoinReps
<1>4. ASSUME NEW u \in Nodes, NEW o \in HeldBy(q, m, u)
      PROVE  \E x \in Nodes : r[x] = x /\ to[x] = m[u] /\ o \in HeldBy(p, r, x)
  BY MovedPointees
<1> HIDE DEF m, h, q
<1>5. \A x, y, o \in Nodes : r[x] = r[y] => (<<x, o>> \in L <=> <<y, o>> \in L)
  BY DEF Sound, Same
<1>6. \A x, o \in Nodes : r[x] = x => (<<x, o>> \in L <=> <<to[x], o>> \in L)
  BY <1>1 DEF Same
<1>7. \A x, o \in Nodes : <<x, o>> \in L <=> <<m[x], o>> \in L
  <2> SUFFICES ASSUME NEW x \in Nodes, NEW o \in Nodes
               PROVE  <<x, o>> \in L <=> <<m[x], o>> \in L
    OBVIOUS
  <2>1. <<x, o>> \in L <=> <<r[x], o>> \in L
    BY <1>1, <1>5
  <2>2. <<r[x], o>> \in L <=> <<to[r[x]], o>> \in L
    BY <1>1, <1>6
  <2> QED
    BY <1>1, <2>1, <2>2
<1>8. \A x, y \in Nodes : m[x] = m[y] => Same(L, x, y)
  <2> SUFFICES ASSUME NEW x \in Nodes, NEW y \in Nodes, m[x] = m[y], NEW o \in Nodes
               PROVE  <<x, o>> \in L <=> <<y, o>> \in L
    BY DEF Same
  <2> QED
    BY <1>7
<1>9. ASSUME NEW u \in Nodes, NEW o \in Nodes, o \in HeldBy(q, m, u)
      PROVE  <<u, o>> \in L
  <2>1. PICK x \in Nodes : r[x] = x /\ to[x] = m[u] /\ o \in HeldBy(p, r, x)
    BY <1>4, <1>9
  <2>2. <<x, o>> \in L
    BY <2>1 DEF Sound
  <2> QED
    BY <1>6, <1>7, <2>1, <2>2
<1>10. ASSUME NEW u \in Nodes, NEW w \in Nodes, NEW o \in Nodes,
              <<u, w>> \in Copies(h, m), <<u, o>> \in L
       PROVE  <<w, o>> \in L
  <2>1. ComesFrom(Copies(g, r), to, u, w)
    BY <1>2, <1>10 DEF MovesTo
  <2>2. PICK x, y \in Nodes : to[x] = u /\ to[y] = w /\ <<x, y>> \in Copies(g, r)
    BY <2>1 DEF ComesFrom
  <2>3. r[x] = x /\ r[y] = y
    BY <1>3, <2>2
  <2>4. <<y, o>> \in L
    BY <1>6, <1>10, <2>2, <2>3 DEF Sound
  <2> QED
    BY <1>6, <2>2, <2>3, <2>4
<1>11. ASSUME NEW u \in Nodes, NEW w \in Nodes, NEW v \in Nodes, NEW o \in Nodes,
              <<u, w>> \in Loads(h, m), <<u, v>> \in L, <<v, o>> \in L
       PROVE  <<w, o>> \in L
  <2>1. ComesFrom(Loads(g, r), to, u, w)
    BY <1>2, <1>11 DEF MovesTo
  <2>2. PICK x, y \in Nodes : to[x] = u /\ to[y] = w /\ <<x, y>> \in Loads(g, r)
    BY <2>1 DEF ComesFrom
  <2>3. r[x] = x /\ r[y] = y
    BY <1>3, <2>2
  <2>4. <<y, o>> \in L
    BY <1>6, <1>11, <2>2, <2>3 DEF Sound
  <2> QED
    BY <1>6, <2>2, <2>3, <2>4
<1>12. ASSUME NEW u \in Nodes, NEW w \in Nodes, NEW v \in Nodes, NEW o \in Nodes,
              <<u, w>> \in Stores(h, m), <<u, v>> \in L, <<w, o>> \in L
       PROVE  <<v, o>> \in L
  <2>1. ComesFrom(Stores(g, r), to, u, w)
    BY <1>2, <1>12 DEF MovesTo
  <2>2. PICK x, y \in Nodes : to[x] = u /\ to[y] = w /\ <<x, y>> \in Stores(g, r)
    BY <2>1 DEF ComesFrom
  <2>3. r[x] = x /\ r[y] = y
    BY <1>3, <2>2
  <2>4. <<x, v>> \in L /\ <<y, o>> \in L
    BY <1>6, <1>12, <2>2, <2>3
  <2> QED
    BY <2>2, <2>4 DEF Sound
<1>13. Sound(L, q, h, m)
  BY <1>8, <1>9, <1>10, <1>11, <1>12 DEF Sound
<1> QED
  BY <1>13 DEF m, h, q

LEMMA ExaminesIsSound ==
    ASSUME NEW r \in MergeMaps, NEW n \in Nodes, r[n] = n, NEW a \in Inner(n), NEW b, Examines(n, a, b, r),
           \A u \in DOMAIN a.pts \cup DOMAIN a.graph : r[u] = u,
           NEW L, Sound(L, a.pts, a.graph, r)
    PROVE  Sound(L, b.pts, b.graph, r)
<1> DEFINE W == Wanted(n, a, a.pts[n], r)
           T == Targets(b.graph, n, r) \ {n}
<1>1. /\ Copies(b.graph, r) = Copies(a.graph, r) \cup W
      /\ Loads(b.graph, r) = Loads(a.graph, r) /\ Stores(b.graph, r) = Stores(a.graph, r)
      /\ \A x \in Nodes : Held(b, x) = Held(a, x) \cup (IF x \in T THEN Held(a, n) ELSE {})
  BY DEF Examines
<1>2. r \in [Nodes -> Nodes] /\ \A x \in Nodes : r[r[x]] = r[x]
  BY DEF MergeMaps
<1>3. \A x \in Nodes : HeldBy(a.pts, r, x) = Held(a, r[x]) /\ HeldBy(b.pts, r, x) = Held(b, r[x])
  BY DEF HeldBy, Held
<1>4. n \in DOMAIN a.pts /\ a.pts[n] \in SUBSET Nodes /\ Held(a, n) = a.pts[n]
  BY DEF Inner, PointsToSets, Held
<1>5. \A x, y, o \in Nodes : r[x] = r[y] => (<<x, o>> \in L <=> <<y, o>> \in L)
  BY DEF Sound, Same
<1>6. \A v \in a.pts[n] : <<n, v>> \in L
  BY <1>2, <1>3, <1>4 DEF Sound
<1>7. ASSUME NEW e \in W, NEW o \in Nodes, <<e[1], o>> \in L
      PROVE  <<e[2], o>> \in L
  <2>1. e \in Nodes \X Nodes
    BY DEF Wanted
  <2>2. PICK v \in a.pts[n] : e \in LoadedBy(n, a, v, r) \cup StoredBy(n, a, v, r)
    BY DEF Wanted
  <2>3. v \in Nodes /\ r[r[v]] = r[v] /\ r[v] \in Nodes /\ <<n, v>> \in L
    BY <1>2, <1>4, <1>6, <2>2
  <2>4. CASE e \in LoadedBy(n, a, v, r)
    <3>1. e[1] = r[v] /\ <<n, e[2]>> \in Loads(a.graph, r) /\ e[2] \in Nodes
      BY <2>1, <2>4 DEF LoadedBy
    <3>2. <<v, o>> \in L
      BY <1>5, <1>7, <2>3, <3>1
    <3> QED
      BY <2>3, <3>1, <3>2 DEF Sound
  <2>5. CASE e \in StoredBy(n, a, v, r)
    <3>1. e[2] = r[v] /\ <<n, e[1]>> \in Stores(a.graph, r) /\ e[1] \in Nodes
      BY <2>1, <2>5 DEF StoredBy
    <3>2. <<v, o>> \in L
      BY <1>7, <2>3, <3>1 DEF Sound
    <3> QED
      BY <1>5, <2>3, <3>1, <3>2
  <2> QED
    BY <2>2, <2>4, <2>5
<1>8. \A x, y, o \in Nodes : <<x, y>> \in Copies(b.graph, r) /\ <<x, o>> \in L => <<y, o>> \in L
  <2> SUFFICES ASSUME NEW x \in Nodes, NEW y \in Nodes, NEW o \in Nodes,
                      <<x, y>> \in Copies(b.graph, r), <<x, o>> \in L
               PROVE  <<y, o>> \in L
    OBVIOUS
  <2>1. CASE <<x, y>> \in Copies(a.graph, r)
    BY <2>1 DEF Sound
  <2>2. CASE <<x, y>> \in W
    <3> HIDE DEF W
    <3> QED
      BY <1>7, <2>2
  <2> QED
    BY <1>1, <2>1, <2>2
<1>9. ASSUME NEW x \in Nodes, NEW o \in Nodes, o \in HeldBy(b.pts, r, x)
      PROVE  <<x, o>> \in L
  <2>1. r[x] \in Nodes /\ o \in Held(b, r[x])
    BY <1>2, <1>3, <1>9
  <2>2. CASE o \in Held(a, r[x])
    BY <1>3, <2>2 DEF Sound
  <2>3. CASE o \notin Held(a, r[x])
    <3>1. r[x] \in T /\ o \in a.pts[n]
      BY <1>1, <1>4, <2>1, <2>3
    <3>2. <<n, r[x]>> \in Copies(b.graph, r)
      BY <3>1 DEF Targets
    <3>3. <<r[x], o>> \in L
      BY <1>6, <1>8, <2>1, <3>1, <3>2
    <3> QED
      BY <1>2, <1>5, <2>1, <3>3
  <2> QED
    BY <2>2, <2>3
<1> QED
  BY <1>1, <1>8, <1>9 DEF Sound

\* What a node of the offline graph takes in and gives out: *n gives what the pointees of
\* n hold, and takes what each of them gets.
TakesIn(L, a, o) ==
    IF a \in Nodes THEN <<a, o>> \in L
    ELSE \A m, v \in Nodes : a = RefNode(m) /\ <<m, v>> \in L => <<v, o>> \in L
GivesOut(L, a, o) ==
    IF a \in Nodes THEN <<a, o>> \in L
    ELSE \E m, v \in Nodes : a = RefNode(m) /\ <<m, v>> \in L /\ <<v, o>> \in L

LEMMA RefNodesApart ==
    /\ \A m \in Nodes : RefNode(m) \notin Nodes
    /\ \A m, n \in Nodes : RefNode(m) = RefNode(n) => m = n
    /\ \A a \in 0 .. 2 * NumNodes - 1 : a \notin Nodes => \E n \in Nodes : a = RefNode(n)
<1>1. NumNodes \in Nat
  BY NumNodesAssumption
<1>2. ASSUME NEW a \in 0 .. 2 * NumNodes - 1, a \notin Nodes
      PROVE  \E n \in Nodes : a = RefNode(n)
  <2>1. a - NumNodes \in Nodes /\ a = RefNode(a - NumNodes)
    BY <1>1, <1>2 DEF Nodes, RefNode
  <2> QED
    BY <2>1
<1>3. \A m, n \in Nodes : RefNode(m) \notin Nodes /\ (RefNode(m) = RefNode(n) => m = n)
  BY <1>1 DEF Nodes, RefNode
<1> QED
  BY <1>2, <1>3

LEMMA OfflineEdgesFlow ==
    ASSUME rep = [n \in Nodes |-> n], constraints \in SUBSET ConstraintRecords,
           NEW L, Solves(Nodes, constraints, L), NEW e \in OfflineEdges, NEW o \in Nodes,
           GivesOut(L, e[1], o)
    PROVE  TakesIn(L, e[2], o)
<1>1. \A c \in constraints : /\ c.dest \in Nodes /\ c.src \in Nodes
                             /\ rep[c.dest] = c.dest /\ rep[c.src] = c.src
  BY DEF ConstraintRecords
<1>2. /\ \A m \in Nodes : RefNode(m) \notin Nodes
      /\ \A m, n \in Nodes : RefNode(m) = RefNode(n) => m = n
  BY RefNodesApart
<1>3. \E c \in constraints :
          \/ c.type = "LOAD" /\ e = <<RefNode(c.src), c.dest>>
          \/ c.type = "STORE" /\ e = <<c.src, RefNode(c.dest)>>
          \/ c.type = "COPY" /\ e = <<c.src, c.dest>>
  BY <1>1 DEF OfflineEdges
<1>4. PICK c \in constraints :
          \/ c.type = "LOAD" /\ e = <<RefNode(c.src), c.dest>>
          \/ c.type = "STORE" /\ e = <<c.src, RefNode(c.dest)>>
          \/ c.type = "COPY" /\ e = <<c.src, c.dest>>
  BY <1>3
<1>5. CASE c.type = "LOAD" /\ e = <<RefNode(c.src), c.dest>>
  <2>1. PICK m, v \in Nodes : RefNode(c.src) = RefNode(m) /\ <<m, v>> \in L /\ <<v, o>> \in L
    BY <1>1, <1>2, <1>5 DEF GivesOut
  <2>2. m = c.src
    BY <1>1, <1>2, <2>1
  <2>3. <<c.dest, o>> \in L
    BY <1>1, <1>5, <2>1, <2>2 DEF Solves, Derives
  <2> QED
    BY <1>1, <1>5, <2>3 DEF TakesIn
<1>6. CASE c.type = "STORE" /\ e = <<c.src, RefNode(c.dest)>>
  <2>1. <<c.src, o>> \in L
    BY <1>1, <1>6 DEF GivesOut
  <2>2. ASSUME NEW m \in Nodes, NEW v \in Nodes, RefNode(c.dest) = RefNode(m), <<m, v>> \in L
        PROVE  <<v, o>> \in L
    <3>1. m = c.dest
      BY <1>1, <1>2, <2>2
    <3> QED
      BY <1>6, <2>1, <2>2, <3>1 DEF Solves, Derives
  <2> QED
    BY <1>1, <1>2, <1>6, <2>2 DEF TakesIn
<1>7. CASE c.type = "COPY" /\ e = <<c.src, c.dest>>
  <2>1. <<c.src, o>> \in L
    BY <1>1, <1>7 DEF GivesOut
  <2>2. <<c.dest, o>> \in L
    BY <1>1, <1>7, <2>1 DEF Solves, Derives
  <2> QED
    BY <1>1, <1>7, <2>2 DEF TakesIn
<1> QED
  BY <1>4, <1>5, <1>6, <1>7

\* What an offline cycle joins is the same in the end, provided that each *n on it has a
\* node to go through.
LEMMA OfflineCyclesAreSound ==
    ASSUME rep = [n \in Nodes |-> n], constraints \in SUBSET ConstraintRecords,
           NEW L, Solves(Nodes, constraints, L), NEW C \in OfflineCycles,
           \A n \in Nodes : RefNode(n) \in C => \E v \in Nodes : <<n, v>> \in L
    PROVE  /\ \A x \in Nodes : x \in C => Same(L, x, First(C))
           /\ \A n, v \in Nodes : RefNode(n) \in C /\ <<n, v>> \in L => Same(L, v, First(C))
<1> DEFINE S == OfflineNodes
           E == OfflineEdges
           P == Paths(E, S)
           Q == {e \in P : e[1] \in C /\ e[2] \in C =>
                               \A o \in Nodes : GivesOut(L, e[1], o) => TakesIn(L, e[2], o)}
<1>1. rep \in MergeMaps
  BY DEF MergeMaps
<1>2. /\ S \subseteq 0 .. 2 * NumNodes - 1 /\ IsFiniteSet(S) /\ E \in SUBSET (S \X S)
  BY <1>1, OfflineGraphShape
<1>3. Closure(P, E, S)
  BY <1>2, PathsAreClosure
<1>4. /\ C \in Components(E, S) /\ C \subseteq S
      /\ First(C) \in C /\ First(C) \in Nodes
  BY <1>1, OfflineCyclesShape
<1>a. \A x, y \in S :
          x \in C => (y \in C <=> y = x \/ (<<x, y>> \in P /\ <<y, x>> \in P))
  BY <1>2, <1>4, ComponentsAreClasses
<1>5. \A x, y \in C : x = y \/ (<<x, y>> \in P /\ <<y, x>> \in P)
  BY <1>4, <1>a
<1>6. \A x \in C, y \in S : <<x, y>> \in P /\ <<y, x>> \in P => y \in C
  BY <1>4, <1>a
<1>7. ASSUME NEW a \in C, NEW o \in Nodes, TakesIn(L, a, o)
      PROVE  GivesOut(L, a, o)
  <2>1. CASE a \in Nodes
    BY <1>7, <2>1 DEF TakesIn, GivesOut
  <2>2. CASE a \notin Nodes
    <3>1. PICK n \in Nodes : a = RefNode(n)
      BY <1>2, <1>4, <2>2, RefNodesApart
    <3>2. PICK v \in Nodes : <<n, v>> \in L
      BY <3>1
    <3> QED
      BY <1>7, <2>2, <3>1, <3>2 DEF TakesIn, GivesOut
  <2> QED
    BY <2>1, <2>2
<1>8. E \subseteq Q
  <2> SUFFICES ASSUME NEW e \in E, NEW o \in Nodes, GivesOut(L, e[1], o)
               PROVE  TakesIn(L, e[2], o)
    BY <1>3 DEF Closure
  <2> QED
    BY OfflineEdgesFlow
<1>9. Transitive(Q, S)
  <2> SUFFICES ASSUME NEW u \in S, NEW v \in S, NEW w \in S, <<u, v>> \in Q, <<v, w>> \in Q
               PROVE  <<u, w>> \in Q
    BY DEF Transitive
  <2>1. <<u, v>> \in P /\ <<v, w>> \in P /\ <<u, w>> \in P
    BY <1>3 DEF Closure, Transitive
  <2>2. CASE u \in C /\ w \in C
    <3>1. <<v, u>> \in P
      <4>1. CASE u = w
        BY <2>1, <4>1
      <4>2. CASE u # w
        <5>1. <<w, u>> \in P
          BY <1>5, <2>2, <4>2
        <5> QED
          BY <1>3, <2>1, <5>1 DEF Closure, Transitive
      <4> QED
        BY <4>1, <4>2
    <3>2. v \in C
      BY <1>6, <2>1, <2>2, <3>1
    <3>3. /\ \A o \in Nodes : GivesOut(L, u, o) => TakesIn(L, v, o)
          /\ \A o \in Nodes : GivesOut(L, v, o) => TakesIn(L, w, o)
      BY <2>2, <3>2
    <3>4. \A o \in Nodes : GivesOut(L, u, o) => TakesIn(L, w, o)
      BY <1>7, <3>2, <3>3
    <3> QED
      BY <2>1, <3>4
  <2>3. CASE ~(u \in C /\ w \in C)
    BY <2>1, <2>3
  <2> QED
    BY <2>2, <2>3
<1>10. P \subseteq Q
  <2>1. Q \in SUBSET (S \X S)
    BY <1>3 DEF Closure
  <2> HIDE DEF Q, P, E, S
  <2> QED
    BY <1>3, <1>8, <1>9, <2>1 DEF Closure
<1>11. ASSUME NEW a \in C, NEW b \in C, a # b, NEW o \in Nodes, GivesOut(L, a, o)
       PROVE  TakesIn(L, b, o)
  <2>1. <<a, b>> \in Q
    BY <1>5, <1>10, <1>11
  <2> QED
    BY <1>11, <2>1
<1> DEFINE f == First(C)
<1> HIDE DEF f, P, Q, E, S
<1>12. f \in C /\ f \in Nodes
  BY <1>4 DEF f
<1>13. ASSUME NEW x \in Nodes, x \in C, NEW o \in Nodes
       PROVE  <<x, o>> \in L <=> <<f, o>> \in L
  <2>1. CASE x = f
    BY <2>1
  <2>2. CASE x # f
    BY <1>11, <1>12, <1>13, <2>2 DEF TakesIn, GivesOut
  <2> QED
    BY <2>1, <2>2
<1>14. ASSUME NEW n \in Nodes, NEW v \in Nodes, RefNode(n) \in C, <<n, v>> \in L, NEW o \in Nodes
       PROVE  <<v, o>> \in L <=> <<f, o>> \in L
  <2>1. RefNode(n) \notin Nodes /\ RefNode(n) # f
    BY <1>12, RefNodesApart
  <2>2. ASSUME <<v, o>> \in L
        PROVE  <<f, o>> \in L
    <3>1. GivesOut(L, RefNode(n), o)
      BY <1>14, <2>1, <2>2 DEF GivesOut
    <3>2. TakesIn(L, f, o)
      BY <1>11, <1>12, <1>14, <2>1, <3>1
    <3> QED
      BY <1>12, <3>2 DEF TakesIn
  <2>3. ASSUME <<f, o>> \in L
        PROVE  <<v, o>> \in L
    <3>1. GivesOut(L, f, o)
      BY <1>12, <2>3 DEF GivesOut
    <3>2. TakesIn(L, RefNode(n), o)
      BY <1>11, <1>12, <1>14, <2>1, <3>1
    <3> QED
      BY <1>14, <2>1, <3>2 DEF TakesIn
  <2> QED
    BY <2>2, <2>3
<1> QED
  BY <1>13, <1>14 DEF f, Same

\* The least solution of the constraints that are solved.
Least == LeastSolution(constraints)

LEMMA LeastIsLeast ==
    ASSUME Tidy
    PROVE  IsLeastSolution(Nodes, constraints, Least)
BY LeastSolutionIsLeast, NodesAreNumbers DEF Tidy, Shape, Least, ConstraintRecords, ConstraintsOver

\* No pass has renamed the constraints.
Unoptimized == ~passes.hvn /\ ~passes.hu

Merged == \A x, y \in Nodes : rep[x] = rep[y] => Same(Least, x, y)

\* What HCD plans to merge is the same in the end.
Planned ==
    \A n \in DOMAIN collapseTo, v \in Nodes : <<n, v>> \in Least => Same(Least, v, collapseTo[n])

SoundSoFar ==
    /\ ~options.hcd => pc # "offline" /\ collapseTo = << >>
    /\ Unoptimized =>
          /\ constraints = original /\ pc \notin {"hvn", "hu"}
          /\ pc = "offline" => rep = [n \in Nodes |-> n]
          /\ ~HollowCycle(Least) =>
                /\ pc = "build" => Merged /\ Planned
                /\ Solving => Planned /\ Sound(Least, pts, graph, rep)

LEMMA SoundStart ==
    ASSUME AndersenInit
    PROVE  SoundSoFar
<1>1. /\ rep = [n \in Nodes |-> n] /\ collapseTo = << >> /\ constraints = original
      /\ pc = IF passes.hvn THEN "hvn" ELSE IF passes.hu THEN "hu" ELSE Begin
  BY DEF AndersenInit, NothingSolved
<1>2. Merged
  BY <1>1 DEF Merged, Same
<1>3. Planned
  BY <1>1, EmptyMaps DEF Planned
<1> QED
  BY <1>1, <1>2, <1>3 DEF SoundSoFar, Unoptimized, Begin, Solving

LEMMA OfflineIsSound ==
    ASSUME Tidy, OfflineCycleDetection, rep = [n \in Nodes |-> n], ~HollowCycle(Least)'
    PROVE  Merged' /\ Planned'
<1>1. /\ rep' = Moved(rep, OfflineMove)
      /\ DOMAIN collapseTo' = {n \in Nodes : RefNode(n) \in UNION OfflineCycles}
      /\ \A n \in DOMAIN collapseTo' : collapseTo'[n] = OfflineTarget(RefNode(n))
      /\ UNCHANGED constraints
  BY OfflineStep
<1>2. /\ rep \in MergeMaps /\ constraints \in SUBSET ConstraintRecords
      /\ Least \in SUBSET (Nodes \X Nodes) /\ Solves(Nodes, constraints, Least)
  BY LeastIsLeast DEF Tidy, Shape, IsLeastSolution
<1>3. Least' = Least
  BY <1>1 DEF Least
<1>4. \A n \in DOMAIN collapseTo' : \E v \in Nodes : <<n, v>> \in Least
  <2> SUFFICES ASSUME NEW n \in DOMAIN collapseTo'
               PROVE  \E v \in Nodes : <<n, v>> \in Least
    OBVIOUS
  <2>1. At(Least, n) # {}
    BY <1>3 DEF HollowCycle
  <2>2. PICK p \in Least : p[1] = n
    BY <2>1 DEF At
  <2>3. p = <<n, p[2]>> /\ p[2] \in Nodes
    BY <1>2, <2>2
  <2> QED
    BY <2>3
<1>5. \A C \in OfflineCycles : \A x \in C : OfflineTarget(x) = First(C) /\ First(C) \in Nodes
  BY <1>2, OfflineMoveIsGood
<1>6. ASSUME NEW C \in OfflineCycles
      PROVE  /\ \A x \in Nodes : x \in C => Same(Least, x, First(C))
             /\ \A n, v \in Nodes : RefNode(n) \in C /\ <<n, v>> \in Least => Same(Least, v, First(C))
  <2>1. \A n \in Nodes : RefNode(n) \in C => \E v \in Nodes : <<n, v>> \in Least
    BY <1>1, <1>4
  <2> QED
    BY <1>2, <2>1, OfflineCyclesAreSound
<1>7. \A x \in Nodes : Same(Least, x, OfflineMove[x])
  <2> SUFFICES ASSUME NEW x \in Nodes
               PROVE  Same(Least, x, OfflineMove[x])
    OBVIOUS
  <2>1. CASE x \in UNION OfflineCycles
    <3>1. PICK C \in OfflineCycles : x \in C
      BY <2>1
    <3>2. OfflineMove[x] = First(C)
      BY <1>5, <2>1, <3>1 DEF OfflineMove
    <3> QED
      BY <1>6, <3>1, <3>2
  <2>2. CASE x \notin UNION OfflineCycles
    BY <2>2 DEF OfflineMove, Same
  <2> QED
    BY <2>1, <2>2
<1>8. \A x \in Nodes : rep'[x] = OfflineMove[x]
  BY <1>1 DEF Moved
<1>9. Merged'
  <2> SUFFICES ASSUME NEW x \in Nodes, NEW y \in Nodes, rep'[x] = rep'[y], NEW o \in Nodes
               PROVE  <<x, o>> \in Least <=> <<y, o>> \in Least
    BY <1>3 DEF Merged, Same
  <2> QED
    BY <1>7, <1>8 DEF Same
<1>10. Planned'
  <2> SUFFICES ASSUME NEW n \in DOMAIN collapseTo', NEW v \in Nodes, <<n, v>> \in Least
               PROVE  Same(Least, v, collapseTo'[n])
    BY <1>3 DEF Planned, Same
  <2>1. PICK C \in OfflineCycles : RefNode(n) \in C
    BY <1>1
  <2>2. collapseTo'[n] = First(C) /\ n \in Nodes
    BY <1>1, <1>5, <2>1
  <2> QED
    BY <1>6, <2>1, <2>2
<1> QED
  BY <1>9, <1>10

\* Nodes that a cycle of copy edges joins hold the same in the end.
LEMMA DetectIsSound ==
    ASSUME Tidy, NEW R, NEW to, Detects(R, to), NEW L, Sound(L, pts, graph, rep)
    PROVE  Sound(L, pts', graph', rep')
<1>1. R \in SUBSET Nodes /\ \A u \in R : rep[u] = u
  BY DEF Detects
<1>2. GoodMove(rep, to)
  BY DEF Detects
<1>3. rep' = Moved(rep, to) /\ pts' = MovePts(pts, to) /\ graph' = MoveGraph(Visited(R), to)
  BY DEF Detects
<1>4. \A u, w \in Nodes : to[u] = to[w] =>
          \/ u = w
          \/ /\ u \in R /\ w \in R
             /\ <<u, w>> \in Paths(Between(R), R) /\ <<w, u>> \in Paths(Between(R), R)
  BY DEF Detects
<1> DEFINE Q == {e \in R \X R : \A o \in Nodes : <<e[1], o>> \in L => <<e[2], o>> \in L}
<1>5. Paths(Between(R), R) \subseteq Q
  <2>1. IsFiniteSet(R) /\ Between(R) \in SUBSET (R \X R)
    BY <1>1, NodesAreNumbers, FS_Subset DEF Between
  <2>2. Closure(Paths(Between(R), R), Between(R), R)
    BY <2>1, PathsAreClosure
  <2>3. Between(R) \subseteq Q
    <3> SUFFICES ASSUME NEW e \in Between(R), NEW o \in Nodes, <<e[1], o>> \in L
                 PROVE  <<e[2], o>> \in L
      BY <2>1
    <3>1. e[1] \in Nodes /\ e[2] \in Nodes /\ <<e[1], e[2]>> \in Copies(graph, rep)
      BY <1>1 DEF Between
    <3> QED
      BY <3>1 DEF Sound
  <2>4. Transitive(Q, R)
    BY DEF Transitive
  <2>5. Q \in SUBSET (R \X R)
    OBVIOUS
  <2> HIDE DEF Q
  <2> QED
    BY <2>2, <2>3, <2>4, <2>5 DEF Closure
<1>6. \A x \in Nodes : rep[x] = x => Same(L, x, to[x])
  <2> SUFFICES ASSUME NEW x \in Nodes, rep[x] = x
               PROVE  Same(L, x, to[x])
    OBVIOUS
  <2>1. to[x] \in Nodes /\ to[to[x]] = to[x]
    BY <1>2 DEF GoodMove
  <2>2. CASE to[x] = x
    BY <2>2 DEF Same
  <2>3. CASE to[x] # x
    <3>1. /\ <<x, to[x]>> \in Paths(Between(R), R) /\ <<to[x], x>> \in Paths(Between(R), R)
      BY <1>4, <2>1, <2>3
    <3>2. <<x, to[x]>> \in Q /\ <<to[x], x>> \in Q
      BY <1>5, <3>1
    <3> QED
      BY <3>2 DEF Same
  <2> QED
    BY <2>2, <2>3
<1>7. Visited(R) \in Graphs /\ \A u \in DOMAIN Visited(R) : rep[u] = u
  BY <1>1, VisitedIsAGraph
<1>8. Sound(L, pts, Visited(R), rep)
  BY <1>1, VisitedEdges DEF Sound
<1>9. rep \in MergeMaps /\ pts \in PointsToSets /\ \A u \in DOMAIN pts : rep[u] = u
  BY DEF Tidy, Shape, OnlyRepresentatives
<1> QED
  BY <1>2, <1>3, <1>6, <1>7, <1>8, <1>9, MoveIsSound

\* The pointees of n that HCD merges are the same in the end: also those that the loop
\* meets only because it has merged others.
LEMMA PlannedMoveIsSound ==
    ASSUME Tidy, NEW L, L = Least, Planned, Sound(L, pts, graph, rep),
           NEW n \in Nodes, rep[n] = n, n \in DOMAIN collapseTo, n \in DOMAIN pts,
           NEW V \in SUBSET Nodes,
           V = pts[n] \/ (rep[collapseTo[n]] = n /\ V \in VisitedPointees(n, n))
    PROVE  \A x \in Nodes : Same(L, x, MoveAll({rep[v] : v \in V}, rep[collapseTo[n]])[x])
<1>1. /\ rep \in [Nodes -> Nodes] /\ \A x \in Nodes : rep[rep[x]] = rep[x]
      /\ pts \in PointsToSets /\ collapseTo \in Maps
  BY DEF Tidy, Shape, MergeMaps
<1>2. collapseTo[n] \in Nodes /\ pts[n] \in SUBSET Nodes
  BY <1>1 DEF Maps, PointsToSets
<1>3. \A x, y, o \in Nodes : rep[x] = rep[y] => (<<x, o>> \in L <=> <<y, o>> \in L)
  BY DEF Sound, Same
<1>4. \A v, o \in Nodes : <<n, v>> \in L => (<<v, o>> \in L <=> <<collapseTo[n], o>> \in L)
  BY DEF Planned, Same
<1>5. \A x, o \in Nodes : o \in HeldBy(pts, rep, x) => <<x, o>> \in L
  BY DEF Sound
<1>6. \A v \in pts[n] : <<n, v>> \in L
  BY <1>2, <1>5 DEF HeldBy
<1>7. \A v \in V : <<n, v>> \in L
  <2>1. CASE V = pts[n]
    BY <1>6, <2>1
  <2>2. CASE rep[collapseTo[n]] = n /\ V \in VisitedPointees(n, n)
    <3> DEFINE Added(T) == UNION {pts[u] : u \in {rep[v] : v \in T} \cap DOMAIN pts}
               T == {v \in V : <<n, v>> \in L}
    <3>1. /\ pts[n] \subseteq V
          /\ \A U \in SUBSET V : pts[n] \subseteq U /\ Added(U) \cap V \subseteq U => U = V
      BY <2>2 DEF VisitedPointees
    <3>2. pts[n] \subseteq T
      BY <1>6, <3>1
    <3>3. ASSUME NEW o \in V, NEW v \in T, rep[v] \in DOMAIN pts, o \in pts[rep[v]]
          PROVE  o \in T
      <4>1. v \in Nodes /\ o \in Nodes /\ <<n, v>> \in L
        OBVIOUS
      <4>2. <<v, o>> \in L
        BY <1>5, <3>3, <4>1 DEF HeldBy
      <4>3. <<n, o>> \in L
        BY <1>1, <1>2, <1>3, <1>4, <2>2, <4>1, <4>2
      <4> QED
        BY <4>3
    <3>4. Added(T) \cap V \subseteq T
      <4> HIDE DEF T
      <4> QED
        BY <3>3
    <3>5. T = V
      <4>1. T \in SUBSET V
        OBVIOUS
      <4> HIDE DEF T, Added
      <4> QED
        BY <3>1, <3>2, <3>4, <4>1
    <3> QED
      BY <3>5
  <2> QED
    BY <2>1, <2>2
<1> SUFFICES ASSUME NEW x \in Nodes, NEW o \in Nodes
             PROVE  <<x, o>> \in L <=> <<MoveAll({rep[v] : v \in V}, rep[collapseTo[n]])[x], o>> \in L
  BY DEF Same
<1>8. CASE x \in {rep[v] : v \in V}
  <2>1. PICK v \in V : x = rep[v]
    BY <1>8
  <2>2. <<x, o>> \in L <=> <<v, o>> \in L
    BY <1>1, <1>3, <2>1
  <2>3. <<collapseTo[n], o>> \in L <=> <<rep[collapseTo[n]], o>> \in L
    BY <1>1, <1>2, <1>3
  <2> QED
    BY <1>4, <1>7, <1>8, <2>1, <2>2, <2>3 DEF MoveAll
<1>9. CASE x \notin {rep[v] : v \in V}
  BY <1>9 DEF MoveAll
<1> QED
  BY <1>8, <1>9

LEMMA CollapseIsSound ==
    ASSUME Tidy, CollapseExamined, Planned, Sound(Least, pts, graph, rep)
    PROVE  Sound(Least, pts', graph', rep')
<1>1. PICK target, to : CollapsesTo(target, to)
  BY CollapseShape
<1> DEFINE n == Examined
<1>2. /\ target \in Nodes /\ rep[target] = target
      /\ to = MoveAll({rep[v] : v \in pts[n]}, target)
      /\ rep' = Moved(rep, to) /\ pts' = MovePts(pts, to) /\ graph' = MoveGraph(graph, to)
      /\ n \in DOMAIN collapseTo /\ target = rep[collapseTo[n]]
  BY <1>1 DEF CollapsesTo
<1>3. /\ rep \in MergeMaps /\ pts \in PointsToSets /\ graph \in Graphs
      /\ \A u \in DOMAIN pts : rep[u] = u
      /\ \A u \in DOMAIN graph : rep[u] = u
  BY DEF Tidy, Shape, OnlyRepresentatives
<1>4. n \in Nodes /\ rep[n] = n /\ n \in DOMAIN pts
  BY CollapseShape, HeadOfWorklist DEF Known
<1>5. GoodMove(rep, to)
  BY <1>2, <1>3, MoveAllIsGood
<1>6. pts[n] \in SUBSET Nodes
  BY <1>3, <1>4 DEF PointsToSets
<1> HIDE DEF n
<1>7. \A x \in Nodes : Same(Least, x, to[x])
  BY <1>2, <1>4, <1>6, PlannedMoveIsSound
<1> QED
  BY <1>2, <1>3, <1>5, <1>7, MoveIsSound

LEMMA ExamineIsSound ==
    ASSUME Tidy, ExamineNode, Planned, Sound(Least, pts, graph, rep)
    PROVE  Sound(Least, pts', graph', rep')
<1>1. PICK n, to, b : ExaminesFrom(n, to, b)
  BY ExamineShape
<1> DEFINE a == Start(to)
<1>2. /\ n \in Nodes /\ rep[n] = n /\ n \in DOMAIN pts
      /\ GoodMove(rep, to) /\ to[n] = n
      /\ rep' = Moved(rep, to) /\ rep' \in MergeMaps
      /\ a \in Inner(n)
      /\ \A u \in DOMAIN a.pts \cup DOMAIN a.graph : rep'[u] = u
      /\ Examines(n, a, b, rep')
      /\ pts' = b.pts /\ graph' = b.graph
  BY <1>1 DEF ExaminesFrom
<1>3. IF HasCollapseTarget(n)
      THEN \E V \in VisitedPointees(n, rep[collapseTo[n]]) :
               to = MoveAll({rep[v] : v \in V}, rep[collapseTo[n]])
      ELSE to = [u \in Nodes |-> u]
  BY <1>1 DEF ExaminesFrom
<1>4. a.pts = MovePts(pts, to) /\ a.graph = MoveGraph(graph, to)
  BY DEF Start
<1> HIDE DEF a
<1>5. /\ rep \in MergeMaps /\ pts \in PointsToSets /\ graph \in Graphs
      /\ \A u \in DOMAIN pts : rep[u] = u
      /\ \A u \in DOMAIN graph : rep[u] = u
  BY DEF Tidy, Shape, OnlyRepresentatives
<1>6. \A x \in Nodes : Same(Least, x, to[x])
  <2>1. CASE ~HasCollapseTarget(n)
    BY <1>3, <2>1 DEF Same
  <2>2. CASE HasCollapseTarget(n)
    <3>1. PICK V \in VisitedPointees(n, rep[collapseTo[n]]) :
              to = MoveAll({rep[v] : v \in V}, rep[collapseTo[n]])
      BY <1>3, <2>2
    <3>2. n \in DOMAIN collapseTo /\ pts[n] \in SUBSET Nodes
      BY <1>2, <1>5, <2>2 DEF HasCollapseTarget, PointsToSets
    <3>3. V \in SUBSET Nodes /\ (V = pts[n] \/ (rep[collapseTo[n]] = n /\ V \in VisitedPointees(n, n)))
      BY <3>1, <3>2 DEF VisitedPointees
    <3> QED
      BY <1>2, <3>1, <3>2, <3>3, PlannedMoveIsSound
  <2> QED
    BY <2>1, <2>2
<1>7. Sound(Least, a.pts, a.graph, rep')
  BY <1>2, <1>4, <1>5, <1>6, MoveIsSound
<1>8. rep'[n] = n
  BY <1>2 DEF Moved
<1> QED
  BY <1>2, <1>7, <1>8, ExaminesIsSound

LEMMA SoundNext ==
    ASSUME Tidy, SoundSoFar, [AndersenNext]_andersenVars
    PROVE  SoundSoFar'
<1>1. CASE RunHvn \/ RunHu
  <2>1. /\ pc \in {"hvn", "hu"} /\ UNCHANGED <<options, collapseTo, passes>>
        /\ pc' = "hu" \/ pc' = Begin
    BY <1>1 DEF RunHvn, RunHu, Optimize
  <2> QED
    BY <2>1 DEF SoundSoFar, Unoptimized, Begin
<1>2. CASE OfflineCycleDetection /\ UNCHANGED <<passes, original, unseen>>
  <2>1. pc = "offline" /\ pc' = "build" /\ UNCHANGED <<options, constraints>>
    BY <1>2, OfflineStep DEF OfflineCycleDetection
  <2>2. ASSUME Unoptimized, ~HollowCycle(Least)'
        PROVE  Merged' /\ Planned'
    BY <1>2, <2>1, <2>2, OfflineIsSound DEF SoundSoFar
  <2> QED
    BY <1>2, <2>1, <2>2 DEF SoundSoFar, Unoptimized, Solving
<1>3. CASE /\ Next /\ UNCHANGED <<passes, original, unseen>> /\ ~OfflineCycleDetection
  <2>1. UNCHANGED <<options, constraints, collapseTo>>
    BY <1>3, BuildStep, DetectStep, CollapseShape, ExamineShape, QuietStep
       DEF Next, BuildConstraintGraph
  <2>2. Least' = Least /\ (Unoptimized' <=> Unoptimized) /\ (HollowCycle(Least)' <=> HollowCycle(Least))
    BY <1>3, <2>1 DEF Least, Unoptimized, HollowCycle
  <2>3. Planned' <=> Planned
    BY <2>1, <2>2 DEF Planned, Same
  <2>4. pc' \notin {"hvn", "hu", "offline", "build"}
    <3>1. CASE BuildConstraintGraph
      BY <3>1 DEF BuildConstraintGraph
    <3>2. CASE DetectCycles
      BY <3>2 DEF DetectCycles
    <3>3. CASE CollapseExamined
      BY <3>3, CollapseShape
    <3>4. CASE ExamineNode
      BY <3>4, ExamineShape
    <3>5. CASE MergePastTheEnd \/ BeginIteration \/ SwapWorkLists \/ Finish \/ SkipNode \/ Stopped
      BY <3>5 DEF MergePastTheEnd, BeginIteration, SwapWorkLists, Finish, SkipNode, Stopped, vars
    <3> QED
      BY <1>3, <3>1, <3>2, <3>3, <3>4, <3>5 DEF Next
  <2>5. ASSUME Unoptimized, ~HollowCycle(Least), Solving'
        PROVE  Planned /\ Sound(Least, pts', graph', rep')
    <3>1. CASE BuildConstraintGraph
      <4>1. pc = "build" /\ pts' = InitialPts /\ graph' = InitialGraph /\ rep' = rep
        BY <3>1 DEF BuildConstraintGraph
      <4>2. Merged /\ Planned
        BY <2>5, <4>1 DEF SoundSoFar
      <4>3. rep \in MergeMaps /\ constraints \in SUBSET ConstraintRecords /\ Solves(Nodes, constraints, Least)
        BY LeastIsLeast DEF Tidy, Shape, IsLeastSolution
      <4> QED
        BY <4>1, <4>2, <4>3, BuildIsSound DEF Merged
    <3>2. CASE Solving
      <4>1. Planned /\ Sound(Least, pts, graph, rep)
        BY <2>5, <3>2 DEF SoundSoFar
      <4>2. CASE DetectCycles
        <5>1. PICK R, to : Detects(R, to)
          BY <4>2, DetectStep
        <5> QED
          BY <4>1, <5>1, DetectIsSound
      <4>3. CASE CollapseExamined
        BY <4>1, <4>3, CollapseIsSound
      <4>4. CASE ExamineNode
        BY <4>1, <4>4, ExamineIsSound
      <4>5. CASE MergePastTheEnd \/ BeginIteration \/ SwapWorkLists \/ Finish \/ SkipNode \/ Stopped
        <5>1. UNCHANGED <<rep, pts, graph>>
          BY <4>5, QuietStep
        <5> QED
          BY <4>1, <5>1
      <4> QED
        BY <1>3, <3>1, <4>2, <4>3, <4>4, <4>5, <2>5 DEF Next
    <3>3. CASE ~Solving /\ ~BuildConstraintGraph
      <4>1. CASE DetectCycles
        BY <3>3, <4>1 DEF DetectCycles, Solving
      <4>2. CASE CollapseExamined
        BY <3>3, <4>2 DEF CollapseExamined, Solving
      <4>3. CASE ExamineNode
        BY <3>3, <4>3 DEF ExamineNode, Solving
      <4>4. CASE MergePastTheEnd \/ BeginIteration \/ SwapWorkLists \/ Finish \/ SkipNode \/ Stopped
        BY <2>5, <3>3, <4>4
           DEF MergePastTheEnd, BeginIteration, SwapWorkLists, Finish, SkipNode, Stopped, vars, Solving
      <4> QED
        BY <1>3, <3>3, <4>1, <4>2, <4>3, <4>4 DEF Next
    <3> QED
      BY <3>1, <3>2, <3>3
  <2>6. (~options.hcd)' => pc' # "offline" /\ collapseTo' = << >>
    BY <2>1, <2>4 DEF SoundSoFar
  <2>7. (Unoptimized /\ ~HollowCycle(Least) /\ Solving' => Planned /\ Sound(Least, pts', graph', rep'))
    BY <2>5
  <2>8. Sound(Least, pts, graph, rep)' <=> Sound(Least, pts', graph', rep')
    BY <2>2
  <2>9. Unoptimized => (constraints = original)'
    BY <1>3, <2>1 DEF SoundSoFar
  <2> QED
    BY <2>2, <2>3, <2>4, <2>6, <2>7, <2>8, <2>9 DEF SoundSoFar
<1>4. CASE UNCHANGED andersenVars
  <2>1. UNCHANGED <<options, constraints, rep, collapseTo, pts, graph, pc, passes, original>>
    BY <1>4 DEF andersenVars, vars
  <2>2. Least' = Least
    BY <2>1 DEF Least
  <2>3. HollowCycle(Least)' <=> HollowCycle(Least)
    BY <2>1, <2>2 DEF HollowCycle
  <2>4. Merged' <=> Merged
    BY <2>1, <2>2 DEF Merged, Same
  <2>5. Planned' <=> Planned
    BY <2>1, <2>2 DEF Planned, Same
  <2>6. Sound(Least, pts, graph, rep)' <=> Sound(Least, pts, graph, rep)
    BY <2>1, <2>2
  <2>7. (Solving' <=> Solving) /\ (Unoptimized' <=> Unoptimized)
    BY <2>1 DEF Solving, Unoptimized
  <2> QED
    BY <2>1, <2>3, <2>4, <2>5, <2>6, <2>7 DEF SoundSoFar
<1> QED
  BY <1>1, <1>2, <1>3, <1>4 DEF AndersenNext, Solve

LEMMA SoundAlways == AndersenSpec => []SoundSoFar
<1>1. AndersenInit => SoundSoFar
  BY SoundStart
<1>2. Tidy /\ SoundSoFar /\ [AndersenNext]_andersenVars => SoundSoFar'
  BY SoundNext
<1> QED
  BY <1>1, <1>2, TidyAlways, PTL DEF AndersenSpec

IInv == Tidy /\ Settled /\ Covered /\ Idle /\ SoundSoFar

LEMMA Inductive == AndersenSpec => []IInv
BY TidyAlways, SettledAlways, CoveredAlways, SoundAlways, PTL DEF IInv

\* What the analysis ends with, when no pass has renamed its constraints.
LEMMA EndIsLeast ==
    ASSUME IInv, Unoptimized, pc = "done"
    PROVE  /\ constraints = original /\ Least \in SUBSET (Nodes \X Nodes)
           /\ \A n \in Nodes : PointsTo(n) \subseteq Nodes /\ At(Least, n) \subseteq Nodes
           /\ ~HollowCycle(Least) => \A n \in Nodes : PointsTo(n) \subseteq At(Least, n)
           /\ ~HollowCycle(Least) => \A m, n \in Nodes : rep[m] = rep[n] => At(Least, m) = At(Least, n)
           /\ ~options.hcd => \A n \in Nodes : At(Least, n) \subseteq PointsTo(n)
           /\ ~options.hcd => ~HollowCycle(Least)
<1>1. Tidy /\ Settled /\ Covered /\ Idle /\ SoundSoFar
  BY DEF IInv
<1>2. /\ Least \in SUBSET (Nodes \X Nodes)
      /\ \A T \in SUBSET (Nodes \X Nodes) : Solves(Nodes, constraints, T) => Least \subseteq T
  BY <1>1, LeastIsLeast DEF IsLeastSolution
<1>3. \A n, o : o \in At(Least, n) <=> <<n, o>> \in Least
  BY <1>2 DEF At
<1>9. \A n, o : <<n, o>> \in Least => n \in Nodes /\ o \in Nodes
  BY <1>2
<1>10. \A n \in Nodes : At(Least, n) \subseteq Nodes
  BY <1>3, <1>9
<1>4. \A n \in Nodes : PointsTo(n) \subseteq Nodes
  BY <1>1 DEF Tidy, Shape, PointsTo, PointsToSets
<1>5. constraints = original
  BY <1>1 DEF SoundSoFar
<1>6. ASSUME ~HollowCycle(Least)
      PROVE  /\ \A n \in Nodes : PointsTo(n) \subseteq At(Least, n)
             /\ \A m, n \in Nodes : rep[m] = rep[n] => At(Least, m) = At(Least, n)
  <2>1. Sound(Least, pts, graph, rep)
    BY <1>1, <1>6 DEF SoundSoFar, Solving
  <2>2. ASSUME NEW n \in Nodes, NEW o \in PointsTo(n)
        PROVE  o \in At(Least, n)
    BY <1>3, <1>4, <2>1 DEF Sound, HeldBy, PointsTo
  <2>3. ASSUME NEW m \in Nodes, NEW n \in Nodes, rep[m] = rep[n]
        PROVE  At(Least, m) = At(Least, n)
    <3>1. \A o \in Nodes : <<m, o>> \in Least <=> <<n, o>> \in Least
      BY <2>1, <2>3 DEF Sound, Same
    <3>2. \A o : o \in At(Least, m) <=> o \in At(Least, n)
      BY <1>3, <1>9, <3>1
    <3> QED
      BY <3>2
  <2> QED
    BY <2>2, <2>3
<1>7. ASSUME ~options.hcd, NEW n \in Nodes, NEW o \in At(Least, n)
      PROVE  o \in PointsTo(n)
  <2>1. Solves(Nodes, constraints, Found) /\ Found \in SUBSET (Nodes \X Nodes)
    BY <1>1, <1>7, EndSolves DEF Found
  <2>2. <<n, o>> \in Found
    BY <1>2, <1>3, <1>7, <2>1
  <2> QED
    BY <2>2 DEF Found
<1>8. ASSUME ~options.hcd
      PROVE  ~HollowCycle(Least)
  <2>1. collapseTo = << >>
    BY <1>1, <1>8 DEF SoundSoFar
  <2> QED
    BY <2>1, EmptyMaps DEF HollowCycle
<1> QED
  BY <1>2, <1>4, <1>5, <1>6, <1>7, <1>8, <1>10

\* Whatever lazy and hybrid cycle detection merge, and in whatever order nodes are
\* examined: without HVN and HU the analysis ends with the least solution of the
\* constraints it collected.  HCD may leave pairs out, and adds some only where it finds
\* a cycle through the pointees of a node that has none.
THEOREM LeastSolutionFound == AndersenSpec => [](~passes.hvn /\ ~passes.hu => SolutionIsLeast)
<1>1. IInv => (~passes.hvn /\ ~passes.hu => SolutionIsLeast)
  <2> SUFFICES ASSUME IInv, ~passes.hvn, ~passes.hu, pc = "done", NEW n \in Nodes
               PROVE  /\ \/ (passes.hvn /\ passes.hu) \/ HollowCycle(LeastSolution(original))
                         \/ PointsTo(n) \subseteq At(LeastSolution(original), n)
                      /\ \/ unseen \/ options.hcd
                         \/ At(LeastSolution(original), n) \subseteq PointsTo(n)
    BY DEF SolutionIsLeast
  <2>1. /\ constraints = original
        /\ ~HollowCycle(Least) => PointsTo(n) \subseteq At(Least, n)
        /\ ~options.hcd => At(Least, n) \subseteq PointsTo(n)
    BY EndIsLeast DEF Unoptimized
  <2>2. LeastSolution(original) = Least
    BY <2>1 DEF Least
  <2> QED
    BY <2>1, <2>2
<1> QED
  BY <1>1, Inductive, PTL

\* Without HVN, HU and HCD the alias queries are right: NoAlias is answered only to
\* pointers that never hold the same object, MustAlias only to pointers that hold the same.
THEOREM AliasAnswersAreRight == AndersenSpec => [](~passes.hvn /\ ~passes.hu => AliasAnswersHold)
<1>1. IInv => (~passes.hvn /\ ~passes.hu => AliasAnswersHold)
  <2> DEFINE L == LeastSolution(original)
  <2> SUFFICES ASSUME IInv, ~passes.hvn, ~passes.hu, pc = "done", ~options.hcd,
                      NEW m \in Nodes, NEW n \in Nodes
               PROVE  CASE andersenAlias(m, n) = "NoAlias" -> At(L, m) \cap At(L, n) \subseteq {NullObject}
                        [] andersenAlias(m, n) = "MustAlias" /\ ~(passes.hvn /\ passes.hu) ->
                              At(L, m) = At(L, n)
                        [] OTHER -> TRUE
    BY DEF AliasAnswersHold
  <2>1. /\ constraints = original
        /\ PointsTo(m) = At(Least, m) /\ PointsTo(n) = At(Least, n)
        /\ rep[m] = rep[n] => At(Least, m) = At(Least, n)
    BY EndIsLeast DEF Unoptimized
  <2>2. L = Least
    BY <2>1 DEF Least
  <2> HIDE DEF L
  <2>3. ASSUME andersenAlias(m, n) = "NoAlias"
        PROVE  At(L, m) \cap At(L, n) \subseteq {NullObject}
    BY <2>1, <2>2, <2>3 DEF andersenAlias
  <2>4. ASSUME andersenAlias(m, n) = "MustAlias"
        PROVE  At(L, m) = At(L, n)
    BY <2>1, <2>2, <2>4 DEF andersenAlias
  <2> QED
    BY <2>3, <2>4
<1> QED
  BY <1>1, Inductive, PTL
=============================================================================
