--------------------------- MODULE ConstraintSolving ---------------------------
(* Andersen::solveConstraints (andersen/lib/ConstraintSolving.cpp): a points-to    *)
(* solution is propagated over a constraint graph by two alternating worklists,    *)
(* while nodes believed to be on a cycle are collapsed: lazily (LCD, found while   *)
(* propagating) or as planned by an offline pass (HCD).                            *)
(*                                                                                 *)
(* Nodes are the indices 0 .. NumNodes - 1.  pts and graph are the two maps of the *)
(* code: an absent entry differs from an empty one (an absent graph node is        *)
(* skipped, an empty points-to set is propagated and may look like a cycle).       *)
EXTENDS InclusionConstraints, SequencesExt

CONSTANTS
    NumNodes,       \* nodeFactory.getNumNodes()
    Problems,       \* the sets of constraints explored
    Options         \* the settings of EnableHCD and EnableLCD explored

Nodes == 0 .. NumNodes - 1

ASSUME NumNodesAssumption == NumNodes \in Nat \ {0}
ASSUME ProblemsAssumption ==
    \A p \in Problems :
        p \subseteq [type : {"ADDR_OF", "COPY", "LOAD", "STORE"}, dest : Nodes, src : Nodes]
ASSUME OptionsAssumption == Options \subseteq [hcd : BOOLEAN, lcd : BOOLEAN]

VARIABLES
    options,
    constraints,    \* as left by the optimizer; kept after the build, for the properties
    rep,            \* getMergeTarget of every node
    collapseTo,     \* OfflineCycleDetector::collapseMap
    pts,            \* ptsGraph
    graph,          \* constraintGraph: the copy, load and store edges of its nodes
    curr, next,     \* currWorkList, nextWorkList
    candidates,     \* cycleCandidates
    checked,        \* checkedEdges
    pc

vars == <<options, constraints, rep, collapseTo, pts, graph, curr, next, candidates,
          checked, pc>>

NoEdges == [copy |-> {}, load |-> {}, store |-> {}]

Begin == IF options.hcd THEN "offline" ELSE "build"

NothingSolved ==
    /\ options \in Options
    /\ constraints \in Problems
    /\ rep = [n \in Nodes |-> n]
    /\ collapseTo = << >>
    /\ pts = << >>
    /\ graph = << >>
    /\ curr = << >>
    /\ next = << >>
    /\ candidates = {}
    /\ checked = {}

Init == NothingSolved /\ pc = Begin

\* A loop over a set of nodes, which the sets of the code hand out in ascending order.
InOrder(op(_, _), base, S) ==
    MapThenFoldSet(LAMBDA x, st : op(st, x), base, LAMBDA x : x, LAMBDA T : Max(T), S)

\* AndersWorkList::enqueue.
Enqueue(q, n) == IF n \in ToSet(q) THEN q ELSE Append(q, n)

\* The pairs of S that a path of the edges E over S joins, by the nodes it may go through.
Paths(E, S) ==
    FoldSet(LAMBDA z, R : R \cup ({x \in S : <<x, z>> \in R} \X {y \in S : <<z, y>> \in R}), E, S)

\* The strongly connected components of the edges E over S.
Components(E, S) ==
    LET P == Paths(E, S)
    IN  {{y \in S : y = x \/ (<<x, y>> \in P /\ <<y, x>> \in P)} : x \in S}

(********************************************************************************)
(* Collapsing.  Every node u moves to to[u]: collapseNodes for each u # to[u].  *)
(********************************************************************************)
\* Mutant: collapsing forgets unionWith when both nodes have a points-to set.
MovePtsOverwriting(p, to) ==
    [u \in {to[x] : x \in DOMAIN p} |->
        IF u \in DOMAIN p THEN p[u] ELSE UNION {p[x] : x \in {x \in DOMAIN p : to[x] = u}}]

\* Mutant: getMergeTarget follows a single link.
MoveRepOneLink(to) == [n \in Nodes |-> IF rep[n] = n THEN to[n] ELSE rep[n]]

MoveRep(to) == [n \in Nodes |-> to[rep[n]]]
MovePts(p, to) ==
    [u \in {to[x] : x \in DOMAIN p} |-> UNION {p[x] : x \in {x \in DOMAIN p : to[x] = u}}]
MoveGraph(g, to) ==
    LET From(u) == {x \in DOMAIN g : to[x] = u}
    IN  [u \in {to[x] : x \in DOMAIN g} |->
            [copy  |-> UNION {g[x].copy : x \in From(u)},
             load  |-> UNION {g[x].load : x \in From(u)},
             store |-> UNION {g[x].store : x \in From(u)}]]

MoveAll(S, dst) == [u \in Nodes |-> IF u \in S THEN dst ELSE u]

(********************************************************************************)
(* The offline pass of HCD.  The node *n is RefNode(n).                         *)
(********************************************************************************)
RefNode(n) == n + NumNodes

OfflineEdges ==
    {<<RefNode(rep[c.src]), rep[c.dest]>> : c \in {c \in constraints : c.type = "LOAD"}}
    \cup {<<rep[c.src], RefNode(rep[c.dest])>> : c \in {c \in constraints : c.type = "STORE"}}
    \cup {<<rep[c.src], rep[c.dest]>> : c \in {c \in constraints : c.type = "COPY"}}

OfflineNodes == UNION {{e[1], e[2]} : e \in OfflineEdges}

OfflineCycles ==
    {C \in UNION {Components(E, OfflineNodes) : E \in {OfflineEdges}} : Cardinality(C) > 1}

First(C) == CHOOSE x \in C : \A y \in C : x =< y

\* The test of line 365, which takes RefNode(0) for a variable.
IsRef(x) == x > NumNodes

\* mergeNode is given RefNode(0), an index past the end of the nodes.
PastTheEnd(cycles) == \E C \in cycles : \E x \in C \ {First(C)} : x >= NumNodes /\ ~IsRef(x)

MergePastTheEnd ==
    /\ pc = "offline"
    /\ PastTheEnd(OfflineCycles)
    /\ pc' = "undefined"
    /\ UNCHANGED <<options, constraints, rep, collapseTo, pts, graph, curr, next,
                   candidates, checked>>

\* The least node of each cycle stands for it: its variables are merged at once, and
\* the pointees of n are to be when *n is on it.
OfflineCycleDetection ==
    /\ pc = "offline"
    /\ \E cycles \in {OfflineCycles} :
        /\ ~PastTheEnd(cycles)
        /\ \E onCycle \in {UNION cycles} :
           LET Target(x) == First(CHOOSE C \in cycles : x \in C)
           IN  /\ collapseTo' = [n \in {n \in Nodes : RefNode(n) \in onCycle} |-> Target(RefNode(n))]
               /\ rep' = MoveRep([u \in Nodes |-> IF u \in onCycle THEN Target(u) ELSE u])
    /\ pc' = "build"
    /\ UNCHANGED <<options, constraints, pts, graph, curr, next, candidates, checked>>

(********************************************************************************)
(* buildConstraintGraph and the first worklist.                                 *)
(********************************************************************************)
Of(type) == {c \in constraints : c.type = type}

\* The pointee of ADDR_OF is not replaced by its representative.
InitialPts ==
    [u \in {rep[c.dest] : c \in Of("ADDR_OF")} |->
        {c.src : c \in {c \in Of("ADDR_OF") : rep[c.dest] = u}}]

InitialGraph ==
    LET copy == {<<rep[c.src], rep[c.dest]>> : c \in Of("COPY")}
        load == {<<rep[c.src], rep[c.dest]>> : c \in Of("LOAD")}
        store == {<<rep[c.dest], rep[c.src]>> : c \in Of("STORE")}
    IN  [u \in {e[1] : e \in copy \cup load \cup store} |->
            [copy |-> At(copy, u), load |-> At(load, u), store |-> At(store, u)]]

BuildConstraintGraph ==
    /\ pc = "build"
    /\ pts' = InitialPts
    /\ graph' = InitialGraph
    /\ curr' = InOrder(Enqueue, << >>, {u \in DOMAIN pts' : rep[u] = u /\ u \in DOMAIN graph'})
    /\ pc' = "iterate"
    /\ UNCHANGED <<options, constraints, rep, collapseTo, next, candidates, checked>>

(********************************************************************************)
(* One iteration.                                                               *)
(********************************************************************************)
CopyEdges == UNION {{<<u, rep[d]>> : d \in graph[u].copy} : u \in DOMAIN graph}

BeginIteration ==
    /\ pc = "iterate"
    /\ curr # << >>
    /\ ~options.lcd \/ candidates = {}
    /\ pc' = "process"
    /\ UNCHANGED <<options, constraints, rep, collapseTo, pts, graph, curr, next,
                   candidates, checked>>

\* OnlineCycleDetector::run: the components the candidates reach collapse, each
\* into the node by which the depth-first search entered it: a candidate or the
\* target of an edge from outside.  The nodes reached get a graph node.
DetectCycles ==
    /\ pc = "iterate"
    /\ curr # << >>
    /\ options.lcd /\ candidates # {}
    /\ LET starts == {rep[c] : c \in candidates}
           reached == starts \cup {p[2] : p \in {p \in Paths(CopyEdges, Nodes) : p[1] \in starts}}
           Entries(C) ==
               {x \in C : x \in starts \/ \E e \in CopyEdges : e[1] \in reached \ C /\ e[2] = x}
           components == Components(CopyEdges \cap (reached \X reached), reached)
           visited == [u \in DOMAIN graph \cup reached |->
                          IF u \in DOMAIN graph THEN graph[u] ELSE NoEdges]
       IN  \E root \in {r \in [components -> reached] : \A C \in components : r[C] \in Entries(C)} :
           \E to \in {[u \in Nodes |-> IF u \in reached
                                       THEN root[CHOOSE C \in components : u \in C] ELSE u]} :
              /\ rep' = MoveRep(to)
              /\ pts' = MovePts(pts, to)
              /\ graph' = MoveGraph(visited, to)
    /\ candidates' = {}
    /\ pc' = "process"
    /\ UNCHANGED <<options, constraints, collapseTo, curr, next, checked>>

SwapWorkLists ==
    /\ pc = "process"
    /\ curr = << >>
    /\ curr' = next
    /\ next' = curr
    /\ pc' = "iterate"
    /\ UNCHANGED <<options, constraints, rep, collapseTo, pts, graph, candidates, checked>>

Finish ==
    /\ pc = "iterate"
    /\ curr = << >>
    /\ pc' = "done"
    /\ UNCHANGED <<options, constraints, rep, collapseTo, pts, graph, curr, next,
                   candidates, checked>>

(********************************************************************************)
(* Examining the node at the head of the current worklist.                      *)
(********************************************************************************)
Examined == rep[Head(curr)]

\* Nothing to do without a graph node or a points-to set.
SkipNode ==
    /\ pc = "process"
    /\ curr # << >>
    /\ Examined \notin DOMAIN graph \/ Examined \notin DOMAIN pts
    /\ curr' = Tail(curr)
    /\ UNCHANGED <<options, constraints, rep, collapseTo, pts, graph, next, candidates,
                   checked, pc>>

Known(n) == n \in DOMAIN graph /\ n \in DOMAIN pts

HasCollapseTarget(n) == options.hcd /\ n \in DOMAIN collapseTo

\* The pointees the loop at line 567 visits: when they are merged into n itself,
\* the set grows under the loop, which may or may not see what was added by those it
\* has visited.
VisitedPointees(n, target) ==
    LET Added(T) == UNION {pts[u] : u \in {rep[v] : v \in T} \cap DOMAIN pts}
    IN  IF target # n THEN {pts[n]}
        ELSE {V \in SUBSET Nodes :
                /\ pts[n] \subseteq V
                /\ \A T \in SUBSET V : pts[n] \subseteq T /\ Added(T) \cap V \subseteq T => T = V}

\* HCD on a node that points to itself: it is merged away, its target is next.
CollapseExamined ==
    /\ pc = "process"
    /\ curr # << >>
    /\ \E n \in {Examined} :
        /\ Known(n) /\ HasCollapseTarget(n)
        /\ \E target \in {rep[collapseTo[n]]} :
            /\ target # n
            /\ \E v \in pts[n] : rep[v] = n
            /\ LET to == MoveAll({rep[v] : v \in pts[n]}, target)
               IN  /\ rep' = MoveRep(to)
                   /\ pts' = MovePts(pts, to)
                   /\ graph' = MoveGraph(graph, to)
            /\ next' = Enqueue(next, target)
    /\ curr' = Tail(curr)
    /\ UNCHANGED <<options, constraints, collapseTo, candidates, checked, pc>>

\* ConstraintGraph::insertCopyEdge for an edge e; the node it leaves is queued when the
\* edge is new.
InsertCopyEdge(st, e) ==
    LET u == e[1]
    IN  IF u \in DOMAIN st.graph /\ e[2] \in st.graph[u].copy THEN st
        ELSE [st EXCEPT
                !.graph = [x \in DOMAIN @ \cup {u} |->
                    LET old == IF x \in DOMAIN @ THEN @[x] ELSE NoEdges
                    IN  IF x = u THEN [old EXCEPT !.copy = @ \cup {e[2]}] ELSE old],
                !.next = Enqueue(@, u)]

\* replaceLoadEdge and its siblings: merged targets take their representative's name.
Rename(D, r) == {r[d] : d \in D}

\* ... for the edges e[d], in the order of d.
InsertCopyEdges(st, e) == InOrder(LAMBDA s, d : InsertCopyEdge(s, e[d]), st, DOMAIN e)

\* Mutant: the pointee is not replaced by its representative (line 595).
PointeeLoaded_Unmerged(n, st, v, r) ==
    [InsertCopyEdges(st, [d \in st.graph[n].load |-> <<v, r[d]>>])
        EXCEPT !.graph[n].load = Rename(@, r)]

\* What the loads and stores of n ask for because n points to v.
PointeeLoaded(n, st, v, r) ==
    [InsertCopyEdges(st, [d \in st.graph[n].load |-> <<r[v], r[d]>>])
        EXCEPT !.graph[n].load = Rename(@, r)]
PointeeStored(n, st, v, r) ==
    [InsertCopyEdges(st, [d \in st.graph[n].store |-> <<r[d], r[v]>>])
        EXCEPT !.graph[n].store = Rename(@, r)]

AfterIndirect(n, st, r) ==
    LET Pointee(s, v) == PointeeStored(n, PointeeLoaded(n, s, v, r), v, r)
    IN  InOrder(Pointee, st, st.pts[n])

\* Mutants: a changed target is not queued; an unchanged one is.
PropagateToUnqueued(n, st, target) ==
    [st EXCEPT !.pts = [x \in DOMAIN @ \cup {target} |->
        IF x # target THEN @[x]
        ELSE @[n] \cup (IF target \in DOMAIN @ THEN @[target] ELSE {})]]
PropagateToAlwaysQueued(n, st, target) ==
    [PropagateToUnqueued(n, st, target) EXCEPT !.next = Enqueue(@, target)]

\* pts[target] |= pts[n], and the lazy cycle detection of an unchanged target.
PropagateTo(n, st, target) ==
    LET old == IF target \in DOMAIN st.pts THEN st.pts[target] ELSE {}
        new == old \cup st.pts[n]
        suspect == options.lcd /\ new = old /\ old = st.pts[n] /\ <<n, target>> \notin st.checked
    IN  IF target = n THEN st
        ELSE [st EXCEPT
                !.pts = [x \in DOMAIN @ \cup {target} |-> IF x = target THEN new ELSE @[x]],
                !.next = IF new # old THEN Enqueue(@, target) ELSE @,
                !.checked = IF suspect THEN @ \cup {<<n, target>>} ELSE @,
                !.candidates = IF suspect THEN @ \cup {target} ELSE @]

\* The edges back to n itself are left as they are.
AfterPropagation(n, st, r) ==
    LET Copy(s, d) == PropagateTo(n, s, r[d])
    IN  [InOrder(Copy, st, st.graph[n].copy) EXCEPT !.graph[n].copy =
            {d \in @ : r[d] = n} \cup Rename({d \in @ : r[d] # n}, r)]

\* How HCD moves the pointees of n, unless that merges n away (see CollapseExamined).
PointeeMoves(n) ==
    LET target == rep[collapseTo[n]]
        Pointees(V) == {rep[v] : v \in V}
    IN  IF ~HasCollapseTarget(n) THEN {MoveAll({}, n)}
        ELSE {MoveAll(Pointees(V), target) :
                V \in {V \in VisitedPointees(n, target) : target = n \/ n \notin Pointees(V)}}

\* What the loops about n work on, once the pointees have moved.
Start(to) ==
    [pts |-> MovePts(pts, to), graph |-> MoveGraph(graph, to), next |-> next,
     candidates |-> candidates, checked |-> checked]

\* Loads, stores and copies of the examined node, after HCD has merged its
\* pointees into its target.
ExamineNode ==
    /\ pc = "process"
    /\ curr # << >>
    /\ Known(Examined)
    /\ \E to \in PointeeMoves(Examined) :
       \E r \in {MoveRep(to)} :
       \E st \in {AfterPropagation(Examined, AfterIndirect(Examined, Start(to), r), r)} :
          /\ rep' = r
          /\ pts' = st.pts
          /\ graph' = st.graph
          /\ next' = st.next
          /\ candidates' = st.candidates
          /\ checked' = st.checked
    /\ curr' = Tail(curr)
    /\ UNCHANGED <<options, constraints, collapseTo, pc>>

Stopped == pc \in {"done", "undefined"} /\ UNCHANGED vars

Next ==
    \/ OfflineCycleDetection \/ MergePastTheEnd
    \/ BuildConstraintGraph
    \/ BeginIteration \/ DetectCycles \/ SwapWorkLists \/ Finish
    \/ SkipNode \/ CollapseExamined \/ ExamineNode
    \/ Stopped

Spec == Init /\ [][Next]_vars

\* The pass runs on one thread until it returns: weak fairness of Next, which is
\* enabled until the end (written out, for TLC to evaluate it quickly).
Running == []<>(pc \in {"done", "undefined"}) \/ []<><<Next>>_vars
FairSpec == Spec /\ Running

(********************************************************************************)
(* Properties                                                                   *)
(********************************************************************************)
TypeOK ==
    /\ pc \in {"offline", "build", "iterate", "process", "done", "undefined"}
    /\ rep \in [Nodes -> Nodes]
    /\ \A n \in Nodes : rep[rep[n]] = rep[n]
    /\ DOMAIN collapseTo \subseteq Nodes
    /\ \A n \in DOMAIN pts : n \in Nodes /\ pts[n] \subseteq Nodes
    /\ \A n \in DOMAIN graph :
        n \in Nodes /\ graph[n] \in [copy : SUBSET Nodes, load : SUBSET Nodes, store : SUBSET Nodes]
    /\ ToSet(curr) \cup ToSet(next) \cup candidates \subseteq Nodes
    /\ checked \subseteq Nodes \X Nodes

\* What getPointsToSet will look up for a node.
PointsTo(n) == IF rep[n] \in DOMAIN pts THEN pts[rep[n]] ELSE {}

\* Solving ends with a solution of the constraints (the comment at 482).
FixedPointReached ==
    pc = "done" =>
        LET found == UNION {{n} \X PointsTo(n) : n \in Nodes}
        IN  Consequences(constraints, found) = found

\* A node is queued under its own index or under that of a node merged into it.
Queued(n) == n \in {rep[m] : m \in ToSet(curr) \cup ToSet(next)}

\* Whatever a node that is not queued holds has been handed on: its copy edges are
\* propagated, and each of its loads and stores has its copy edge for each pointee.
\* (HCD breaks this, as it gives edges to a node that is not queued.)
HandedOn ==
    ~options.hcd /\ pc \in {"iterate", "process", "done"} =>
        \A n \in {n \in DOMAIN graph \cap DOMAIN pts : ~Queued(n)} :
            LET Linked(u, d) ==
                    \/ rep[u] = rep[d]
                    \/ rep[u] \in DOMAIN graph
                       /\ \E e \in graph[rep[u]].copy : rep[e] = rep[d]
            IN  /\ \A d \in graph[n].copy : pts[n] \subseteq PointsTo(d)
                /\ \A v \in pts[n] : /\ \A d \in graph[n].load : Linked(v, d)
                                     /\ \A d \in graph[n].store : Linked(d, v)

\* Only representatives keep a points-to set and edges once solving has begun, so
\* that no constraint is left with a node nobody reads.
OnlyRepresentatives ==
    \A n \in DOMAIN pts \cup DOMAIN graph : rep[n] = n

\* No step takes a pointee from a node, not even one that merges it with others,
\* and nodes that were merged stay merged.
NothingLost ==
    [][/\ \A n \in Nodes : PointsTo(n) \subseteq PointsTo(n)'
       /\ \A m, n \in Nodes : rep[m] = rep[n] => rep'[m] = rep'[n]]_vars

\* Solving stops, although nodes are queued again and again as sets grow.
Terminates == <>(pc \in {"done", "undefined"})
================================================================================
