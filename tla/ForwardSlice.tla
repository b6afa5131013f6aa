----------------------------- MODULE ForwardSlice -----------------------------
(* ForwardSlice.cpp: the forward slicing pass.  It walks the successor map with *)
(* the masks of the backward pass, in the same order, and deletes from the      *)
(* module the instructions that are not marked; functions stay, even empty.     *)
EXTENDS SlicePass

\* The masks of the two calls in markVerticesOfForwardSlice; the mutant leaves out
\* a bit.
ForwardMask1 == {"control", "flow", "call", "paramIn"}
ForwardMask2NoFlow == {"control", "paramOut"}
ForwardMask2 == {"control", "flow", "paramOut"}

ForwardInit == Start("forward")

\* runOnModule when slice.conf cannot be opened.
ForwardNoConf ==
    /\ pc = "readInit"
    /\ pc' = "noConf"
    /\ UNCHANGED <<pass, graph, criterion, markedNodes, workSet, functions, instructions>>

\* readInit marks the instructions slice.conf names; the first phase gets a copy.
ForwardReadInit ==
    /\ pc = "readInit"
    /\ \E C \in Criteria :
          /\ criterion' = C
          /\ markedNodes' = C
          /\ workSet' = C
    /\ pc' = "phase1"
    /\ UNCHANGED <<pass, graph, functions, instructions>>

\* The successors a visit of n adds to the work list.
ForwardUnmarked(n, result, mask) == MaskedSuccs(graph, n, mask) \ result

\* One turn of the loop of markReachingVerticesForForwardSlice: *workSet.begin()
\* is any member of a set ordered by address.
ForwardVisit(n, mask) ==
    /\ markedNodes' = markedNodes \cup {n}
    /\ workSet' = (workSet \ {n}) \cup ForwardUnmarked(n, markedNodes', mask)
    /\ UNCHANGED <<pass, graph, criterion, functions, instructions, pc>>

ForwardVisitPhase1 ==
    /\ pc = "phase1"
    /\ \E n \in workSet : ForwardVisit(n, ForwardMask1)

\* The second call gets a copy of the result of the first as its work list (in the
\* mutant, of the criterion).
ForwardStartPhase2FromCriterion ==
    /\ pc = "phase1"
    /\ workSet = {}
    /\ workSet' = criterion
    /\ pc' = "phase2"
    /\ UNCHANGED <<pass, graph, criterion, markedNodes, functions, instructions>>
ForwardStartPhase2 ==
    /\ pc = "phase1"
    /\ workSet = {}
    /\ workSet' = markedNodes
    /\ pc' = "phase2"
    /\ UNCHANGED <<pass, graph, criterion, markedNodes, functions, instructions>>

ForwardVisitPhase2 ==
    /\ pc = "phase2"
    /\ \E n \in workSet : ForwardVisit(n, ForwardMask2)

\* sliceModule: the instructions that are not marked leave the module.
ForwardSliceModule ==
    /\ pc = "phase2"
    /\ workSet = {}
    /\ instructions' = instructions \cap markedNodes
    /\ pc' = "done"
    /\ UNCHANGED <<pass, graph, criterion, markedNodes, workSet, functions>>

ForwardNext ==
    /\ pass = "forward"
    /\ \/ ForwardNoConf
       \/ ForwardReadInit
       \/ ForwardVisitPhase1
       \/ ForwardStartPhase2
       \/ ForwardVisitPhase2
       \/ ForwardSliceModule

ForwardSpec == ForwardInit /\ [][ForwardNext]_vars

-----------------------------------------------------------------------------
(* Properties.  A walk along successors is a walk along predecessors of the     *)
(* reversed graph, so what it reaches is stated with Reversed(graph).            *)

\* What the masks reach when they are read along successors: two closures, one
\* after the other.
ForwardPhase1Slice == Reaching(Node, Reversed(graph), criterion, ForwardMask1)
ForwardFullSlice == Reaching(Node, Reversed(graph), ForwardPhase1Slice, ForwardMask2)

\* The work lists lose nothing and add nothing: when the pass finishes, markedNodes
\* is what the two masks reach from the criterion one after the other, whatever the
\* address order of the visits, and although the second list starts with what the
\* first has visited.  Which nodes those masks should reach is another question:
\* StaysOutOfCallees.
ForwardMarkedIsSlice ==
    pass = "forward" /\ pc = "done" => markedNodes = ForwardFullSlice

\* ForwardSlice.cpp:103 says of the first phase: "Slice without descending into
\* called procedure".  An entry node is entered from call sites only, so while that
\* phase runs none is marked.  (The masks are those of the backward pass, where an
\* edge of kind call leads from a procedure to its callers.)
StaysOutOfCallees ==
    pass = "forward" /\ pc = "phase1" => markedNodes \cap Function = {}

\* While a phase runs, everything marked or waiting belongs to the slice of the
\* phase, and the successors of a marked node that is not waiting are marked or
\* waiting: an emptied list has lost nothing.
ForwardFrontier ==
    /\ pass = "forward" /\ pc = "phase1" =>
          WorkListInv(Node, Reversed(graph), criterion, ForwardMask1, markedNodes, workSet)
    /\ pass = "forward" /\ pc = "phase2" =>
          WorkListInv(Node, Reversed(graph), ForwardPhase1Slice, ForwardMask2, markedNodes, workSet)

\* No instruction the pass deletes depends, through a flow or a control edge, on
\* one it keeps: what the criterion affects is closed, in every function.
NoAffectedDeleted ==
    pass = "forward" /\ pc = "done" =>
        \A i \in instructions :
            MaskedSuccs(graph, i, {"control", "flow"}) \cap Instruction \subseteq instructions
===============================================================================
