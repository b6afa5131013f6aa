------------------------------ MODULE SlicePass ------------------------------
(* What the two slicing passes have in common: the module they cut down, the    *)
(* dependence graph over it, the criteria, and the state both keep.             *)
(*                                                                              *)
(* The entry node of a function is named by the function and the node of an     *)
(* instruction by the instruction (entryNodeMap and instNodeMap of SDG.h).      *)
EXTENDS DependenceGraph

CONSTANTS
    Function,      \* functions with a body: the keys of entryNodeMap
    Instruction,   \* their instructions: the keys of instNodeMap
    AuxNode,       \* the caller and callee parameter nodes
    Graphs,        \* the dependence graphs the SDG pass may hand over
    Criteria       \* the sets of instructions slice.conf may name

ASSUME CriteriaAssumption == Criteria \subseteq SUBSET Instruction

Node == Function \cup Instruction \cup AuxNode

ASSUME GraphsAssumption == \A g \in Graphs : IsGraph(g, Node)

VARIABLES
    pass,          \* the pass opt was asked for: "backward" or "forward"
    graph,         \* SDG::graph
    criterion,     \* the keys of boundsMap: the nodes readInit marks
    markedNodes,   \* the pass's markedNodes, the resultSet of both phases
    workSet,       \* the work list of the running phase
    functions,     \* the functions with a body still in the module
    instructions,  \* and its instructions
    pc

vars == <<pass, graph, criterion, markedNodes, workSet, functions, instructions, pc>>

\* Before the pass runs: the module is whole, nothing is marked.
Start(p) ==
    /\ pass = p
    /\ graph \in Graphs
    /\ criterion = {}
    /\ markedNodes = {}
    /\ workSet = {}
    /\ functions = Function
    /\ instructions = Instruction
    /\ pc = "readInit"

-----------------------------------------------------------------------------
(* Properties of both passes.                                                  *)

\* Every variable keeps its shape: marked and waiting nodes are nodes of the
\* graph, and what is left of the module was in the module.
TypeOK ==
    /\ pass \in {"backward", "forward"}
    /\ IsGraph(graph, Node)
    /\ criterion \subseteq Instruction
    /\ markedNodes \subseteq Node
    /\ workSet \subseteq Node
    /\ functions \subseteq Function
    /\ instructions \subseteq Instruction
    /\ pc \in {"readInit", "noConf", "phase1", "phase2", "done"}

\* The pass ends, on cyclic graphs too: a node goes back on the work list only
\* until it has been marked.
Terminates == <>(pc \in {"done", "noConf"})
=============================================================================
