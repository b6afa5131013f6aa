--------------------------- MODULE SlicePassProofs ---------------------------
(* Proofs about the backward slicing pass and, in the second half, about the   *)
(* forward one, for every module, every dependence graph over it and every     *)
(* criterion.                                                                  *)
EXTENDS BackSlice, ForwardSlice, SharedProofs

\* Until sliceModule runs the module is whole.
ModuleWhole == pc /= "done" => functions = Function /\ instructions = Instruction

\* The inductive invariant: the work lists (Frontier) explain the final marks, and
\* those explain what sliceModule leaves.
IInv ==
    /\ pass = "backward" /\ TypeOK /\ ModuleWhole
    /\ Frontier /\ MarkedIsSlice /\ DependencesKept

LEMMA InitInvariant == Init => IInv
<1> SUFFICES ASSUME Init PROVE IInv
  OBVIOUS
<1>1. TypeOK
  BY GraphsAssumption DEF Init, Start, TypeOK
<1> QED
  BY <1>1 DEF Init, Start, IInv, ModuleWhole, Frontier, MarkedIsSlice, DependencesKept

\* Which nodes a phase starts from, as sets of nodes.
LEMMA SeedsAreNodes ==
    ASSUME TypeOK
    PROVE  criterion \subseteq Node /\ Phase1Slice \subseteq Node
BY DEF TypeOK, Node, Phase1Slice, Reaching

\* A visit of a waiting node in either phase.
LEMMA VisitInvariant ==
    ASSUME IInv, VisitPhase1 \/ VisitPhase2
    PROVE  IInv'
<1>1. PICK n \in workSet, mask \in {Mask1, Mask2} :
          /\ Visit(n, mask)
          /\ \/ pc = "phase1" /\ mask = Mask1
             \/ pc = "phase2" /\ mask = Mask2
  BY DEF VisitPhase1, VisitPhase2
<1>2. UNCHANGED <<pass, graph, criterion, functions, instructions, pc>> /\ Phase1Slice' = Phase1Slice
  BY <1>1 DEF Visit, Phase1Slice
<1>3. IsGraph(graph, Node) /\ n \in Node
  BY <1>1 DEF IInv, TypeOK
<1>4. MaskedPreds(graph, n, mask) \subseteq Node
  BY <1>3 DEF MaskedPreds, IsGraph
<1>5. TypeOK'
  BY <1>1, <1>2, <1>3, <1>4 DEF IInv, TypeOK, Visit, Unmarked
<1>6. /\ markedNodes' = markedNodes \cup {n}
      /\ workSet' = (workSet \ {n}) \cup (MaskedPreds(graph, n, mask) \ (markedNodes \cup {n}))
  BY <1>1 DEF Visit, Unmarked
<1>7. Frontier'
  <2>1. CASE pc = "phase1" /\ mask = Mask1
    <3>1. WorkListInv(Node, graph, criterion, Mask1, markedNodes, workSet)
      BY <2>1 DEF IInv, Frontier
    <3>2. WorkListInv(Node, graph, criterion, Mask1, markedNodes', workSet')
      BY <1>3, <1>6, <2>1, <3>1, WorkListVisit
    <3> QED
      BY <1>2, <2>1, <3>2 DEF Frontier
  <2>2. CASE pc = "phase2" /\ mask = Mask2
    <3>1. WorkListInv(Node, graph, Phase1Slice, Mask2, markedNodes, workSet)
      BY <2>2 DEF IInv, Frontier
    <3>2. WorkListInv(Node, graph, Phase1Slice, Mask2, markedNodes', workSet')
      BY <1>3, <1>6, <2>2, <3>1, WorkListVisit
    <3> QED
      BY <1>2, <2>2, <3>2 DEF Frontier
  <2> QED
    BY <1>1, <2>1, <2>2
<1>8. pass' = "backward" /\ ModuleWhole' /\ MarkedIsSlice' /\ DependencesKept'
  BY <1>1, <1>2 DEF IInv, ModuleWhole, MarkedIsSlice, DependencesKept
<1> QED
  BY <1>5, <1>7, <1>8 DEF IInv

\* Between the phases: the first list is empty, so the first closure is complete
\* and is the seed of the second.
LEMMA StartPhase2Invariant ==
    ASSUME IInv, StartPhase2
    PROVE  IInv'
<1>1. UNCHANGED <<pass, graph, criterion, markedNodes>> /\ Phase1Slice' = Phase1Slice
  BY DEF StartPhase2, Phase1Slice
<1>2. markedNodes = Phase1Slice
  <2>1. WorkListInv(Node, graph, criterion, Mask1, markedNodes, {})
    BY DEF IInv, Frontier, StartPhase2
  <2>2. IsGraph(graph, Node)
    BY DEF IInv, TypeOK
  <2> QED
    BY <2>1, <2>2, WorkListEnd DEF Phase1Slice
<1>3. WorkListInv(Node, graph, Phase1Slice, Mask2, Phase1Slice, Phase1Slice)
  BY SeedsAreNodes, WorkListStart DEF IInv
<1>4. Frontier'
  BY <1>1, <1>2, <1>3 DEF Frontier, StartPhase2
<1>5. TypeOK'
  BY DEF IInv, TypeOK, StartPhase2
<1>6. pass' = "backward" /\ ModuleWhole' /\ MarkedIsSlice' /\ DependencesKept'
  BY DEF IInv, ModuleWhole, MarkedIsSlice, DependencesKept, StartPhase2
<1> QED
  BY <1>4, <1>5, <1>6 DEF IInv

\* The end of the second phase and the deletions.
LEMMA SliceModuleInvariant ==
    ASSUME IInv, SliceModule
    PROVE  IInv'
<1>1. UNCHANGED <<pass, graph, criterion, markedNodes>> /\ pc' = "done"
  BY DEF SliceModule
<1>2. IsGraph(graph, Node)
  BY DEF IInv, TypeOK
<1>3. markedNodes = FullSlice
  <2>1. WorkListInv(Node, graph, Phase1Slice, Mask2, markedNodes, {})
    BY DEF IInv, Frontier, SliceModule
  <2> QED
    BY <1>2, <2>1, WorkListEnd DEF FullSlice
<1>4. MarkedIsSlice'
  BY <1>1, <1>3 DEF MarkedIsSlice, FullSlice, Phase1Slice
<1>5. DependencesKept'
  <2>1. Closed(graph, markedNodes, Mask2)
    BY <1>2, <1>3, ReachingClosed DEF FullSlice
  <2> SUFFICES ASSUME NEW i \in instructions',
                      NEW p \in MaskedPreds(graph, i, {"control", "flow"}) \cap Instruction,
                      FunctionOf[p] = FunctionOf[i]
               PROVE  p \in instructions'
    BY <1>1 DEF DependencesKept
  <2>2. i \in markedNodes /\ FunctionOf[i] \in functions'
    BY DEF SliceModule
  <2>3. p \in markedNodes
    BY <2>1, <2>2 DEF MaskedPreds, Closed, Mask2
  <2>4. p \in instructions
    BY DEF IInv, ModuleWhole, SliceModule
  <2> QED
    BY <2>2, <2>3, <2>4 DEF SliceModule
<1>6. TypeOK'
  BY DEF IInv, TypeOK, SliceModule
<1>7. pass' = "backward" /\ ModuleWhole' /\ Frontier'
  BY <1>1 DEF IInv, ModuleWhole, Frontier
<1> QED
  BY <1>4, <1>5, <1>6, <1>7 DEF IInv

\* Every step keeps the inductive invariant.
LEMMA StepInvariant == IInv /\ [Next]_vars => IInv'
<1> SUFFICES ASSUME IInv, [Next]_vars PROVE IInv'
  OBVIOUS
<1>1. CASE NoConf
  BY <1>1 DEF NoConf, IInv, TypeOK, ModuleWhole, Frontier, MarkedIsSlice, DependencesKept
<1>2. CASE ReadInit
  <2>1. TypeOK'
    BY <1>2, CriteriaAssumption DEF ReadInit, IInv, TypeOK, Node
  <2>2. WorkListInv(Node, graph', criterion', Mask1, markedNodes', workSet')
    <3>1. criterion' \subseteq Node /\ markedNodes' = criterion' /\ workSet' = criterion'
      BY <1>2, CriteriaAssumption DEF ReadInit, Node
    <3> QED
      BY <3>1, WorkListStart
  <2>3. Frontier'
    BY <1>2, <2>2 DEF ReadInit, Frontier
  <2>4. pass' = "backward" /\ ModuleWhole' /\ MarkedIsSlice' /\ DependencesKept'
    BY <1>2 DEF ReadInit, IInv, ModuleWhole, MarkedIsSlice, DependencesKept
  <2> QED
    BY <2>1, <2>3, <2>4 DEF IInv
<1>3. CASE VisitPhase1 \/ VisitPhase2
  BY <1>3, VisitInvariant
<1>4. CASE StartPhase2
  BY <1>4, StartPhase2Invariant
<1>5. CASE SliceModule
  BY <1>5, SliceModuleInvariant
<1>6. CASE UNCHANGED vars
  BY <1>6 DEF vars, IInv, TypeOK, ModuleWhole, Frontier, MarkedIsSlice, DependencesKept,
              FullSlice, Phase1Slice
<1> QED
  BY <1>1, <1>2, <1>3, <1>4, <1>5, <1>6 DEF Next

LEMMA Invariance == Spec => []IInv
BY InitInvariant, StepInvariant, PTL DEF Spec

\* The pass keeps the types of its variables: work lists and marks hold SDG nodes
\* only and sliceModule never adds anything to the module.
THEOREM TypeCorrectness == Spec => []TypeOK
<1>1. IInv => TypeOK
  BY DEF IInv
<1> QED
  BY <1>1, Invariance, PTL

\* The loop invariant of both work lists.
THEOREM FrontierInvariant == Spec => []Frontier
<1>1. IInv => Frontier
  BY DEF IInv
<1> QED
  BY <1>1, Invariance, PTL

\* markVerticesOfBackSlice computes exactly the two-phase slice, for every graph,
\* criterion and address order.
THEOREM SliceCorrectness == Spec => []MarkedIsSlice
<1>1. IInv => MarkedIsSlice
  BY DEF IInv
<1> QED
  BY <1>1, Invariance, PTL

\* sliceModule keeps, of every instruction it keeps, all the dependences that lie
\* in the same function.
THEOREM DependencesCorrectness == Spec => []DependencesKept
<1>1. IInv => DependencesKept
  BY DEF IInv
<1> QED
  BY <1>1, Invariance, PTL

-----------------------------------------------------------------------------
(* The forward slicing pass, over the same constants and variables; a walk along *)
(* successors is a work list over the reversed graph.                            *)

\* Until sliceModule runs the module is whole.
ForwardWhole == pc /= "done" => instructions = Instruction

\* The inductive invariant: the work lists (Frontier) explain the final marks, and
\* those explain what sliceModule leaves.
ForwardIInv ==
    /\ pass = "forward" /\ TypeOK /\ ForwardWhole /\ ForwardFrontier
    /\ ForwardMarkedIsSlice /\ NoAffectedDeleted

LEMMA ForwardInitInvariant == ForwardInit => ForwardIInv
<1> SUFFICES ASSUME ForwardInit PROVE ForwardIInv
  OBVIOUS
<1>1. TypeOK
  BY GraphsAssumption DEF ForwardInit, Start, TypeOK
<1> QED
  BY <1>1 DEF ForwardInit, Start, ForwardIInv, ForwardWhole, ForwardFrontier,
              ForwardMarkedIsSlice, NoAffectedDeleted

\* Which nodes a phase starts from, as sets of nodes.
LEMMA ForwardSeedsAreNodes ==
    ASSUME TypeOK
    PROVE  criterion \subseteq Node /\ ForwardPhase1Slice \subseteq Node
BY DEF TypeOK, Node, ForwardPhase1Slice, Reaching

\* A visit of a waiting node in either phase.
LEMMA ForwardVisitInvariant ==
    ASSUME ForwardIInv, ForwardVisitPhase1 \/ ForwardVisitPhase2
    PROVE  ForwardIInv'
<1>1. PICK n \in workSet, mask \in {ForwardMask1, ForwardMask2} :
          /\ ForwardVisit(n, mask)
          /\ \/ pc = "phase1" /\ mask = ForwardMask1
             \/ pc = "phase2" /\ mask = ForwardMask2
  BY DEF ForwardVisitPhase1, ForwardVisitPhase2
<1>2. UNCHANGED <<pass, graph, criterion, functions, instructions, pc>> /\ ForwardPhase1Slice' = ForwardPhase1Slice
  BY <1>1 DEF ForwardVisit, ForwardPhase1Slice
<1>3. IsGraph(graph, Node) /\ IsGraph(Reversed(graph), Node) /\ n \in Node
  BY <1>1, ReverseIsGraph DEF ForwardIInv, TypeOK
<1>4. MaskedSuccs(graph, n, mask) \subseteq Node
  BY <1>3 DEF MaskedSuccs, IsGraph
<1>5. TypeOK'
  BY <1>1, <1>2, <1>3, <1>4 DEF ForwardIInv, TypeOK, ForwardVisit, ForwardUnmarked
<1>6. /\ markedNodes' = markedNodes \cup {n}
      /\ workSet' = (workSet \ {n}) \cup (MaskedPreds(Reversed(graph), n, mask) \ (markedNodes \cup {n}))
  BY <1>1, <1>3, SuccsArePredsOfReverse DEF ForwardVisit, ForwardUnmarked
<1>7. ForwardFrontier'
  <2>1. CASE pc = "phase1" /\ mask = ForwardMask1
    <3>1. WorkListInv(Node, Reversed(graph), criterion, ForwardMask1, markedNodes, workSet)
      BY <2>1 DEF ForwardIInv, ForwardFrontier
    <3>2. WorkListInv(Node, Reversed(graph), criterion, ForwardMask1, markedNodes', workSet')
      BY <1>3, <1>6, <2>1, <3>1, WorkListVisit
    <3> QED
      BY <1>2, <2>1, <3>2 DEF ForwardFrontier
  <2>2. CASE pc = "phase2" /\ mask = ForwardMask2
    <3>1. WorkListInv(Node, Reversed(graph), ForwardPhase1Slice, ForwardMask2, markedNodes, workSet)
      BY <2>2 DEF ForwardIInv, ForwardFrontier
    <3>2. WorkListInv(Node, Reversed(graph), ForwardPhase1Slice, ForwardMask2, markedNodes', workSet')
      BY <1>3, <1>6, <2>2, <3>1, WorkListVisit
    <3> QED
      BY <1>2, <2>2, <3>2 DEF ForwardFrontier
  <2> QED
    BY <1>1, <2>1, <2>2
<1>8. pass' = "forward" /\ ForwardWhole' /\ ForwardMarkedIsSlice' /\ NoAffectedDeleted'
  BY <1>1, <1>2 DEF ForwardIInv, ForwardWhole, ForwardMarkedIsSlice, NoAffectedDeleted
<1> QED
  BY <1>5, <1>7, <1>8 DEF ForwardIInv

\* Between the phases: the first list is empty, so the first closure is complete
\* and is the seed of the second.
LEMMA ForwardStartPhase2Invariant ==
    ASSUME ForwardIInv, ForwardStartPhase2
    PROVE  ForwardIInv'
<1>1. UNCHANGED <<pass, graph, criterion, markedNodes>> /\ ForwardPhase1Slice' = ForwardPhase1Slice
  BY DEF ForwardStartPhase2, ForwardPhase1Slice
<1>2. markedNodes = ForwardPhase1Slice
  <2>1. WorkListInv(Node, Reversed(graph), criterion, ForwardMask1, markedNodes, {})
    BY DEF ForwardIInv, ForwardFrontier, ForwardStartPhase2
  <2>2. IsGraph(Reversed(graph), Node)
    BY ReverseIsGraph DEF ForwardIInv, TypeOK
  <2> QED
    BY <2>1, <2>2, WorkListEnd DEF ForwardPhase1Slice
<1>3. WorkListInv(Node, Reversed(graph), ForwardPhase1Slice, ForwardMask2, ForwardPhase1Slice, ForwardPhase1Slice)
  BY ForwardSeedsAreNodes, WorkListStart DEF ForwardIInv
<1>4. ForwardFrontier'
  BY <1>1, <1>2, <1>3 DEF ForwardFrontier, ForwardStartPhase2
<1>5. TypeOK'
  BY DEF ForwardIInv, TypeOK, ForwardStartPhase2
<1>6. pass' = "forward" /\ ForwardWhole' /\ ForwardMarkedIsSlice' /\ NoAffectedDeleted'
  BY DEF ForwardIInv, ForwardWhole, ForwardMarkedIsSlice, NoAffectedDeleted,
         ForwardStartPhase2
<1> QED
  BY <1>4, <1>5, <1>6 DEF ForwardIInv

\* The end of the second phase and the deletions.
LEMMA ForwardSliceModuleInvariant ==
    ASSUME ForwardIInv, ForwardSliceModule
    PROVE  ForwardIInv'
<1>1. UNCHANGED <<pass, graph, criterion, markedNodes>> /\ pc' = "done"
  BY DEF ForwardSliceModule
<1>2. IsGraph(graph, Node) /\ IsGraph(Reversed(graph), Node)
  BY ReverseIsGraph DEF ForwardIInv, TypeOK
<1>3. markedNodes = ForwardFullSlice
  <2>1. WorkListInv(Node, Reversed(graph), ForwardPhase1Slice, ForwardMask2, markedNodes, {})
    BY DEF ForwardIInv, ForwardFrontier, ForwardSliceModule
  <2> QED
    BY <1>2, <2>1, WorkListEnd DEF ForwardFullSlice
<1>4. ForwardMarkedIsSlice'
  BY <1>1, <1>3 DEF ForwardMarkedIsSlice, ForwardFullSlice, ForwardPhase1Slice
<1>5. NoAffectedDeleted'
  <2>1. Closed(Reversed(graph), markedNodes, ForwardMask2)
    BY <1>2, <1>3, ReachingClosed DEF ForwardFullSlice
  <2> SUFFICES ASSUME NEW i \in instructions',
                      NEW s \in MaskedSuccs(graph, i, {"control", "flow"}) \cap Instruction
               PROVE  s \in instructions'
    BY <1>1 DEF NoAffectedDeleted
  <2>2. i \in markedNodes
    BY DEF ForwardSliceModule
  <2>3. s \in MaskedPreds(Reversed(graph), i, {"control", "flow"})
    BY <1>2, SuccsArePredsOfReverse
  <2>4. s \in markedNodes
    BY <2>1, <2>2, <2>3 DEF MaskedPreds, Closed, ForwardMask2
  <2>5. s \in instructions
    BY DEF ForwardIInv, ForwardWhole, ForwardSliceModule
  <2> QED
    BY <2>4, <2>5 DEF ForwardSliceModule
<1>6. TypeOK'
  BY DEF ForwardIInv, TypeOK, ForwardSliceModule
<1>7. pass' = "forward" /\ ForwardWhole' /\ ForwardFrontier'
  BY <1>1 DEF ForwardIInv, ForwardWhole, ForwardFrontier
<1> QED
  BY <1>4, <1>5, <1>6, <1>7 DEF ForwardIInv

\* Every step keeps the inductive invariant.
LEMMA ForwardStepInvariant == ForwardIInv /\ [ForwardNext]_vars => ForwardIInv'
<1> SUFFICES ASSUME ForwardIInv, [ForwardNext]_vars PROVE ForwardIInv'
  OBVIOUS
<1>1. CASE ForwardNoConf
  BY <1>1 DEF ForwardNoConf, ForwardIInv, TypeOK, ForwardWhole, ForwardFrontier,
              ForwardMarkedIsSlice, NoAffectedDeleted
<1>2. CASE ForwardReadInit
  <2>1. TypeOK'
    BY <1>2, CriteriaAssumption DEF ForwardReadInit, ForwardIInv,
                                                TypeOK, Node
  <2>2. WorkListInv(Node, Reversed(graph'), criterion', ForwardMask1, markedNodes', workSet')
    <3>1. criterion' \subseteq Node /\ markedNodes' = criterion' /\ workSet' = criterion'
      BY <1>2, CriteriaAssumption DEF ForwardReadInit, Node
    <3> QED
      BY <3>1, WorkListStart
  <2>3. ForwardFrontier'
    BY <1>2, <2>2 DEF ForwardReadInit, ForwardFrontier
  <2>4. pass' = "forward" /\ ForwardWhole' /\ ForwardMarkedIsSlice' /\ NoAffectedDeleted'
    BY <1>2 DEF ForwardReadInit, ForwardIInv, ForwardWhole, ForwardMarkedIsSlice,
                NoAffectedDeleted
  <2> QED
    BY <2>1, <2>3, <2>4 DEF ForwardIInv
<1>3. CASE ForwardVisitPhase1 \/ ForwardVisitPhase2
  BY <1>3, ForwardVisitInvariant
<1>4. CASE ForwardStartPhase2
  BY <1>4, ForwardStartPhase2Invariant
<1>5. CASE ForwardSliceModule
  BY <1>5, ForwardSliceModuleInvariant
<1>6. CASE UNCHANGED vars
  BY <1>6 DEF vars, ForwardIInv, TypeOK, ForwardWhole, ForwardFrontier,
              ForwardMarkedIsSlice, NoAffectedDeleted,
              ForwardFullSlice, ForwardPhase1Slice
<1> QED
  BY <1>1, <1>2, <1>3, <1>4, <1>5, <1>6 DEF ForwardNext

LEMMA ForwardInvariance == ForwardSpec => []ForwardIInv
BY ForwardInitInvariant, ForwardStepInvariant, PTL DEF ForwardSpec

\* The pass keeps the types of its variables: work lists and marks hold SDG nodes
\* only and sliceModule never adds anything to the module.
THEOREM ForwardTypeCorrectness == ForwardSpec => []TypeOK
<1>1. ForwardIInv => TypeOK
  BY DEF ForwardIInv
<1> QED
  BY <1>1, ForwardInvariance, PTL

\* The loop invariant of both work lists.
THEOREM ForwardFrontierInvariant == ForwardSpec => []ForwardFrontier
<1>1. ForwardIInv => ForwardFrontier
  BY DEF ForwardIInv
<1> QED
  BY <1>1, ForwardInvariance, PTL

\* markVerticesOfForwardSlice computes exactly what its two masks reach, for every graph,
\* criterion and address order.
THEOREM ForwardSliceCorrectness == ForwardSpec => []ForwardMarkedIsSlice
<1>1. ForwardIInv => ForwardMarkedIsSlice
  BY DEF ForwardIInv
<1> QED
  BY <1>1, ForwardInvariance, PTL

\* sliceModule deletes no instruction that depends on one it keeps.
THEOREM ForwardAffectedCorrectness == ForwardSpec => []NoAffectedDeleted
<1>1. ForwardIInv => NoAffectedDeleted
  BY DEF ForwardIInv
<1> QED
  BY <1>1, ForwardInvariance, PTL
=============================================================================
