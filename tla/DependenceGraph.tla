--------------------------- MODULE DependenceGraph ---------------------------
(* The system dependence graph the slicing passes walk over: DirectedGraph.h   *)
(* instantiated with SDGNode and SDGEdge (SDG.h).                              *)
(*                                                                             *)
(* succMap and predMap always hold the same pairs with the same attribute, so  *)
(* a graph is one set of triples <<A, attr, B>>.  insert() overwrites the      *)
(* attribute of a pair already there, hence at most one triple for a pair.     *)
EXTENDS FiniteSets

EdgeAttr == {"control", "flow", "call", "paramIn", "paramOut"}

IsGraph(g, N) ==
    /\ g \subseteq N \X EdgeAttr \X N
    /\ \A e1, e2 \in g : e1[1] = e2[1] /\ e1[3] = e2[3] => e1 = e2

\* DirectedGraph::insert for every pair <<A, B>> of a set of pairs, all with one
\* attribute: succMap[A][B] = predMap[B][A] = edge.
Insert(g, pairs, attr) ==
    {e \in g : <<e[1], e[3]>> \notin pairs} \cup {<<p[1], attr, p[2]>> : p \in pairs}

\* The members of predMap[n] (succMap[n]) whose SDGEdge::ifMask(mask) holds.
MaskedPreds(g, n, mask) == {e[1] : e \in {d \in g : d[3] = n /\ d[2] \in mask}}
MaskedSuccs(g, n, mask) == {e[3] : e \in {d \in g : d[1] = n /\ d[2] \in mask}}

Reversed(g) == {<<e[3], e[2], e[1]>> : e \in g}

\* T is closed when no edge of the mask enters T from outside T.
Closed(g, T, mask) == \A e \in g : e[2] \in mask /\ e[3] \in T => e[1] \in T

\* The nodes from which S is reached along edges of the mask: the least closed
\* set of nodes that contains S, written as the intersection of all of them.
Reaching(N, g, S, mask) ==
    {n \in N : \A T \in SUBSET N : S \subseteq T /\ Closed(g, T, mask) => n \in T}

\* The same set by rounds: S, then the masked predecessors of what is there already,
\* until nothing is new.
Collected(N, g, S, mask) ==
    LET grow[T \in SUBSET N] ==
            LET U == T \cup UNION {MaskedPreds(g, n, mask) : n \in T}
            IN  IF U = T THEN T ELSE grow[U]
    IN  grow[S]

\* What a work list that collects Reaching(N, g, S, mask) keeps true: nothing
\* marked or waiting is outside it, and the predecessors of a marked node that is
\* not waiting are marked or waiting.
WorkListInv(N, g, S, mask, result, work) ==
    /\ S \subseteq result
    /\ result \cup work \subseteq Reaching(N, g, S, mask)
    /\ \A n \in result \ work : MaskedPreds(g, n, mask) \subseteq result \cup work
=============================================================================
