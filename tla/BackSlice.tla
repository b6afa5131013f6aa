------------------------------ MODULE BackSlice ------------------------------
(* BackSlice.cpp: the backward slicing pass.  It reads a criterion, marks the  *)
(* SDG nodes that reach it in two phases, each a work list over the            *)
(* predecessor map, and deletes from the module what is not marked.            *)
EXTENDS SlicePass

CONSTANT FunctionOf    \* the function an instruction belongs to

ASSUME FunctionOfAssumption == FunctionOf \in [Instruction -> Function]

\* The masks of the two calls in markVerticesOfBackSlice.
\* The mutants forget a bit.
Mask1 == {"control", "flow", "call", "paramIn"}
Mask2NoFlow == {"control", "paramOut"}
Mask2NoControl == {"flow", "paramOut"}
Mask2 == {"control", "flow", "paramOut"}

Init == Start("backward")

\* runOnModule when slice.conf cannot be opened: return false, nothing touched.
NoConf ==
    /\ pc = "readInit"
    /\ pc' = "noConf"
    /\ UNCHANGED <<pass, graph, criterion, markedNodes, workSet, functions, instructions>>

\* readInit marks the instructions slice.conf names (module SliceConf says which;
\* there may be none).  The first phase gets a copy of them as its work list.
ReadInit ==
    /\ pc = "readInit"
    /\ \E C \in Criteria :
          /\ criterion' = C
          /\ markedNodes' = C
          /\ workSet' = C
    /\ pc' = "phase1"
    /\ UNCHANGED <<pass, graph, functions, instructions>>

\* The predecessors a visit of n adds to the work list: an edge of the mask, from
\* a node that is not in the result.  The mutants forget the check against the
\* result, forget the mask, and push the map's entry instead of its key.
UnmarkedRevisit(n, result, mask) == MaskedPreds(graph, n, mask)
UnmarkedAnyEdge(n, result, mask) == MaskedPreds(graph, n, EdgeAttr) \ result
UnmarkedEntry(n, result, mask) == {e \in graph : e[3] = n /\ e[2] \in mask}
Unmarked(n, result, mask) == MaskedPreds(graph, n, mask) \ result

\* One turn of the loop of markReachingVerticesForBackSlice.  The set is ordered
\* by address, so *workSet.begin() is any of its members.
Visit(n, mask) ==
    /\ markedNodes' = markedNodes \cup {n}
    /\ workSet' = (workSet \ {n}) \cup Unmarked(n, markedNodes', mask)
    /\ UNCHANGED <<pass, graph, criterion, functions, instructions, pc>>

VisitPhase1 ==
    /\ pc = "phase1"
    /\ \E n \in workSet : Visit(n, Mask1)

\* The first call returns; the second one gets a copy of the result as work list
\* (in the mutant, of the criterion).
StartPhase2FromCriterion ==
    /\ pc = "phase1"
    /\ workSet = {}
    /\ workSet' = criterion
    /\ pc' = "phase2"
    /\ UNCHANGED <<pass, graph, criterion, markedNodes, functions, instructions>>
StartPhase2 ==
    /\ pc = "phase1"
    /\ workSet = {}
    /\ workSet' = markedNodes
    /\ pc' = "phase2"
    /\ UNCHANGED <<pass, graph, criterion, markedNodes, functions, instructions>>

VisitPhase2 ==
    /\ pc = "phase2"
    /\ \E n \in workSet : Visit(n, Mask2)

\* sliceModule: functions whose entry node is not marked leave the module, with
\* all their instructions; then, in the others, each instruction not marked.
SliceModule ==
    /\ pc = "phase2"
    /\ workSet = {}
    /\ functions' = {f \in functions : f \in markedNodes}
    /\ instructions' = {i \in instructions : FunctionOf[i] \in functions' /\ i \in markedNodes}
    /\ pc' = "done"
    /\ UNCHANGED <<pass, graph, criterion, markedNodes, workSet>>

Next ==
    /\ pass = "backward"
    /\ \/ NoConf
       \/ ReadInit
       \/ VisitPhase1
       \/ StartPhase2
       \/ VisitPhase2
       \/ SliceModule

Spec == Init /\ [][Next]_vars

-----------------------------------------------------------------------------
(* Properties.                                                                 *)

\* The slice promised for a criterion: two closures, one after the other.
Phase1Slice == Reaching(Node, graph, criterion, Mask1)
FullSlice == Reaching(Node, graph, Phase1Slice, Mask2)

\* When the pass finishes, markedNodes is exactly the two-phase slice of the
\* criterion: whatever the address order in which the work lists are emptied,
\* and although the second phase starts from nodes the first has visited, no
\* node of the slice is missed and none outside it is marked.
MarkedIsSlice == pass = "backward" /\ pc = "done" => markedNodes = FullSlice

\* While a phase runs, everything marked or on its work list belongs to the slice
\* of the phase, and a marked node whose predecessors are not all marked is still
\* on the work list, or they are: an emptied list has lost nothing.  This is the
\* loop invariant of markReachingVerticesForBackSlice.
Frontier ==
    /\ pass = "backward" /\ pc = "phase1" =>
          WorkListInv(Node, graph, criterion, Mask1, markedNodes, workSet)
    /\ pass = "backward" /\ pc = "phase2" =>
          WorkListInv(Node, graph, Phase1Slice, Mask2, markedNodes, workSet)

\* sliceModule leaves no dangling reference inside a function: an instruction it
\* keeps has every instruction of that function it depends on (its operands,
\* through flow edges, and the branches that control it) kept beside it.
\* removeFromParent of a used instruction would leave its user pointing at it.
DependencesKept ==
    pass = "backward" /\ pc = "done" =>
        \A i \in instructions :
            \A p \in MaskedPreds(graph, i, {"control", "flow"}) \cap Instruction :
                FunctionOf[p] = FunctionOf[i] => p \in instructions
=============================================================================
