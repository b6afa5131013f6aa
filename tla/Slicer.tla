-------------------------------- MODULE Slicer --------------------------------
(* The backward slicer as a whole: the SDG pass builds the graph of a module, then *)
(* the slicing pass marks it and cuts the module down.  BackSlice is instantiated  *)
(* with the nodes of the SDG, so its actions are those of that module.             *)
(*                                                                                *)
(* Each phase of the marking is one step that gives markedNodes the result of its   *)
(* work list: SlicePassProofs proves, for every graph, that the list ends in it.    *)
EXTENDS SDG

CONSTANT Criteria    \* the sets of instruction nodes slice.conf may name

ASSUME CriteriaAssumption == Criteria \subseteq SUBSET InstNodes

VARIABLES criterion, markedNodes, workSet, functions, instructions

NodeParent == [n \in InstNodes |-> EntryNode(ParentOf(n[2]))]
B == INSTANCE BackSlice WITH
        Function <- EntryNodes, Instruction <- InstNodes, AuxNode <- AuxNodes,
        FunctionOf <- NodeParent, Graphs <- {}, pass <- "backward"

sliceVars == <<criterion, markedNodes, workSet, functions, instructions>>
vars == <<prog, graph, pc, sliceVars>>

Init ==
    /\ prog \in Programs
    /\ graph = {}
    /\ criterion = {}
    /\ markedNodes = {}
    /\ workSet = {}
    /\ functions = EntryNodes
    /\ instructions = InstNodes
    /\ pc = "control"

\* The SDG pass (getAnalysis<SDG> in runOnModule) runs before the slicing pass.
BuildSDG == Build /\ UNCHANGED sliceVars

\* A phase of markVerticesOfBackSlice, from the first visit to the last.
MarkPhase(mask) ==
    /\ workSet # {}
    /\ markedNodes' = Collected(B!Node, graph, workSet, mask)
    /\ workSet' = {}
    /\ UNCHANGED <<prog, graph, criterion, functions, instructions, pc>>

ReadInit == B!ReadInit /\ UNCHANGED prog
MarkPhase1 == pc = "phase1" /\ MarkPhase(B!Mask1)
StartPhase2 == B!StartPhase2 /\ UNCHANGED prog
MarkPhase2 == pc = "phase2" /\ MarkPhase(B!Mask2)
SliceModule == B!SliceModule /\ UNCHANGED prog

Next ==
    \/ BuildSDG
    \/ ReadInit
    \/ MarkPhase1
    \/ StartPhase2
    \/ MarkPhase2
    \/ SliceModule

Spec == Init /\ [][Next]_vars

-----------------------------------------------------------------------------
(* What the cut module must still contain, said of the program and not of the     *)
(* graph.                                                                          *)

Kept(i) == InstNode(i) \in instructions
KeptFunction(f) == EntryNode(f) \in functions
Callee(ci) == prog.callee[ci]

\* Every block is reached from ENTRY over control dependences.  It fails for the
\* head of a loop that nothing outside the loop controls: the head depends on
\* itself, so CDG.cpp does not make it depend on ENTRY.
Rooted ==
    \A f \in Functions :
        LET dependence == BBGraph(f)
        IN  \A T \in (SUBSET BlocksOf[f]) \ {{}} :
                \E e \in dependence : e[1] \notin T /\ e[2] \in T

\* No store reaches a load of another function.
LocalMemory ==
    \A p \in PointerPairs : ParentOf(p[1][2]) = ParentOf(p[2][2])

\* The graph only grows while it is built: no insert of a later step overwrites the
\* attribute of an edge an earlier step made, although a pair of nodes has one edge
\* only and a recursive call joins the same two nodes in both directions.  What the
\* slicer is given has one attribute per edge, between nodes of the program.
NoEdgeLost ==
    [][/\ graph \subseteq graph'
       /\ pc' = "readInit" => IsGraph(graph', B!Node)]_vars

\* BackSlice.h:62 says of sliceModule: "Slice only nodes within the markedNodes".
\* An instruction that is marked is still in the module when the pass is through.
MarkedAreKept == pc = "done" => markedNodes \cap InstNodes \subseteq instructions

\* ... which the code does achieve when every block is reached from ENTRY.
MarkedAreKeptIfRooted ==
    pc = "done" /\ Rooted => markedNodes \cap InstNodes \subseteq instructions

\* The slice has all that its values come from: an instruction that is kept has its
\* operands, the branches that decide whether its block is executed and every store
\* it may read from kept, wherever they are, and a call that is kept still has its
\* callee and the callee's returns.  (Nothing is said of branches and returns that are
\* not marked: BackSlice.cpp:86-98 removes those, too, and nothing replaces them, so
\* a block of the slice may be left without a terminator.)
SourcesAreKept ==
    pc = "done" /\ Rooted =>
        /\ \A u \in prog.uses : Kept(u[2]) /\ u[1] \in Insts => Kept(u[1])
        /\ \A f \in Functions : \A e \in BBGraph(f) : \A k \in DOMAIN InstsOf[e[2]] :
              Kept(InstsOf[e[2]][k]) /\ e[1] # NULL => Kept(Terminator(e[1]))
        /\ \A l \in Loads : \A s \in Stores :
              Kept(l) /\ prog.address[l] \in AliasSetOf(prog.address[s]) => Kept(s)
        /\ \A ci \in KnownCalls :
              Kept(ci) => /\ KeptFunction(Callee(ci))
                          /\ \A r \in Rets : ParentOf(r) = Callee(ci) => Kept(r)

\* The functions control may enter the criterion through: those that hold a part of
\* it, and their callers.
Ascends(T) ==
    /\ \A n \in criterion : ParentOf(n[2]) \in T
    /\ \A ci \in KnownCalls : Callee(ci) \in T => ParentOf(ci) \in T
Ascended == {f \in Functions : \A T \in SUBSET Functions : Ascends(T) => f \in T}

\* The slice is entered the way the program is: every call of a function that leads
\* to the criterion is kept, and a function kept beyond those is called from the
\* slice, when memory does not tie functions together.
CallsAreKept ==
    pc = "done" /\ Rooted =>
        /\ \A ci \in KnownCalls : Callee(ci) \in Ascended => Kept(ci)
        /\ LocalMemory =>
              \A f \in Functions :
                  KeptFunction(f) /\ f \notin Ascended =>
                      \E ci \in KnownCalls : Callee(ci) = f /\ Kept(ci)
=============================================================================
