----------------------------- MODULE CycleDetector -----------------------------
(* The search of andersen/include/CycleDetector.h (Tarjan's, as improved by Nuutila)*)
(* step by step: what it hands to processNodeOnCycle and processCycleRepNode, and   *)
(* when.  The other modules use its result, the components of the graph.            *)
(*                                                                                  *)
(* st: dfsNum, inComponent, sccStack and timestamp are the members of the class;    *)
(* mergedTo is what getRep follows in the detectors that merge a cycle when it is   *)
(* found; cycles are the components in the order found, as [rep, members]; failed   *)
(* is set by the assertions.                                                        *)
EXTENDS Integers, SequencesExt

NothingVisited(nodes) ==
    [dfsNum |-> << >>, inComponent |-> {}, sccStack |-> << >>, timestamp |-> 0,
     mergedTo |-> [n \in nodes |-> n], cycles |-> << >>, failed |-> FALSE]

\* The end of a visit: node is the root of a component, whose other members are on top
\* of the stack.
CloseCycle(st, node, merges) ==
    LET number == st.dfsNum[node]
        below == {k \in DOMAIN st.sccStack : st.dfsNum[st.sccStack[k]] < number}
        rest == IF below = {} THEN 0 ELSE CHOOSE k \in below : \A j \in below : j =< k
        cycle == {node} \cup ToSet(SubSeq(st.sccStack, rest + 1, Len(st.sccStack)))
    IN  [st EXCEPT !.inComponent = @ \cup cycle,
                   !.sccStack = SubSeq(@, 1, rest),
                   !.mergedTo = [n \in DOMAIN @ |-> IF merges /\ n \in cycle THEN node ELSE @[n]],
                   !.cycles = Append(@, [rep |-> node, members |-> cycle])]

\* visit, over the edges E; the successors of a node are a bit vector, in ascending order.
RECURSIVE Visit(_, _, _, _)
Visit(st, E, node, merges) ==
    LET myTimeStamp == st.timestamp
        Traverse(s, child) ==
            LET succRep == s.mergedTo[child]
                t == IF succRep \in DOMAIN s.dfsNum THEN s ELSE Visit(s, E, succRep, merges)
            IN  IF succRep \notin t.inComponent /\ t.dfsNum[node] > t.dfsNum[succRep]
                THEN [t EXCEPT !.dfsNum[node] = t.dfsNum[succRep]]
                ELSE t
        entered == [st EXCEPT !.timestamp = @ + 1,
                              !.failed = @ \/ node \in DOMAIN st.dfsNum,
                              !.dfsNum = (node :> myTimeStamp) @@ @]
        left == FoldLeft(Traverse, entered, SetToSortSeq({e[2] : e \in {e \in E : e[1] = node}}, <))
    IN  IF left.dfsNum[node] # myTimeStamp THEN [left EXCEPT !.sccStack = Append(@, node)]
        ELSE CloseCycle(left, node, merges)

\* runOnNode, with the assertions that no search leaves a node on the stack.
RunOnNode(st, E, node, merges) ==
    LET repNode == st.mergedTo[node]
        searched == IF repNode \in DOMAIN st.dfsNum THEN st ELSE Visit(st, E, repNode, merges)
    IN  [searched EXCEPT !.failed = @ \/ searched.sccStack # << >>]

\* One search from each of the roots in turn: runOnGraph, and the loop of
\* OnlineCycleDetector::run over the candidates.
RunFrom(E, nodes, roots, merges) ==
    FoldLeft(LAMBDA st, n : RunOnNode(st, E, n, merges), NothingVisited(nodes), roots)
================================================================================
