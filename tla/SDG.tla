---------------------------------- MODULE SDG ----------------------------------
(* SDG.cpp: the system dependence graph of a module, built in four steps from the *)
(* control dependence of each function (CDG.cpp), the calls, the def-use chains   *)
(* and the alias sets of the pointer analysis.                                    *)
(*                                                                                *)
(* The functions, blocks and instructions of the module are constants; what varies *)
(* between the programs explored is a record prog:                                *)
(*   cfg        the control-flow edges                                            *)
(*   callee     of each call: a function, a declaration, or NULL when it is not    *)
(*              known (getCalledFunction of an indirect call)                      *)
(*   actuals    of each call: the values passed, in order                         *)
(*   uses       <<value, instruction>> when the value is an operand, actuals and    *)
(*              addresses included                                                *)
(*   address    of each store and load: its pointer operand                       *)
(*   aliasSets  the sets AliasSetTracker puts the pointer operands into           *)
EXTENDS DependenceGraph, PostDominance, Naturals, Sequences

CONSTANTS
    Functions,      \* the functions with a body
    Declarations,   \* the functions without one
    BlocksOf,       \* the blocks of each function
    InstsOf,        \* the instructions of each block in order, terminator last
    Formals,        \* the arguments of each function, in order
    Calls, Rets, Loads, Stores,     \* the instructions with these opcodes
    OtherValues,    \* the values that are neither instructions nor arguments
    Programs        \* the programs explored

Blocks == UNION {BlocksOf[f] : f \in Functions}
Insts == UNION {{InstsOf[b][k] : k \in DOMAIN InstsOf[b]} : b \in Blocks}
Arguments == UNION {{Formals[f][k] : k \in DOMAIN Formals[f]} : f \in Functions}

Terminator(b) == InstsOf[b][Len(InstsOf[b])]
BlockOf(i) == CHOOSE b \in Blocks : \E k \in DOMAIN InstsOf[b] : InstsOf[b][k] = i
FunctionWith(b) == CHOOSE f \in Functions : b \in BlocksOf[f]
ParentOf(i) == FunctionWith(BlockOf(i))

\* A module as LLVM's verifier accepts it: it is finite, a block is in one function, an
\* instruction at one place of it, an argument in one function, a block is not empty.
ASSUME FiniteAssumption ==
    /\ IsFiniteSet(Functions) /\ IsFiniteSet(Insts)
    /\ IsFiniteSet(Arguments) /\ IsFiniteSet(OtherValues)
    /\ \A f \in Functions : IsFiniteSet(BlocksOf[f])
ASSUME PlacesAssumption ==
    /\ NULL \notin Functions \cup Blocks
    /\ \A f, g \in Functions : f # g => BlocksOf[f] \cap BlocksOf[g] = {}
    /\ \A b \in Blocks : InstsOf[b] \in Seq(Insts) /\ InstsOf[b] # <<>>
    /\ \A b, c \in Blocks : \A j \in DOMAIN InstsOf[b], k \in DOMAIN InstsOf[c] :
          InstsOf[b][j] = InstsOf[c][k] => b = c
    /\ \A f \in Functions : Formals[f] \in Seq(Arguments)
    /\ \A f, g \in Functions : \A j \in DOMAIN Formals[f], k \in DOMAIN Formals[g] :
          Formals[f][j] = Formals[g][k] => f = g
    /\ Calls \cup Rets \cup Loads \cup Stores \subseteq Insts

\* The operands of an instruction are instructions and arguments of its own function or
\* other values; a pointer operand is an operand.
WellFormed(p) ==
    /\ \A ci \in Calls : p.actuals[ci] \in Seq(Insts \cup Arguments \cup OtherValues)
    /\ p.uses \subseteq (Insts \cup Arguments \cup OtherValues) \X Insts
    /\ \A u \in p.uses :
          \/ u[1] \in Insts /\ ParentOf(u[1]) = ParentOf(u[2])
          \/ u[1] \in Arguments \ Insts
             /\ \E k \in DOMAIN Formals[ParentOf(u[2])] : u[1] = Formals[ParentOf(u[2])][k]
          \/ u[1] \notin Insts \cup Arguments
    /\ \A i \in Loads : <<p.address[i], i>> \in p.uses
ASSUME ProgramsAssumption == \A p \in Programs : WellFormed(p)

\* The instruction that ends a block is no store, and has no user: that excludes invoke,
\* which the front end for C does not produce.
ASSUME TerminatorAssumption ==
    \A b \in Blocks :
        /\ Terminator(b) \notin Stores
        /\ \A p \in Programs : \A u \in p.uses : u[1] # Terminator(b)

\* The SDG nodes, by the map of SDG.h that holds them.
InstNode(i) == <<"instNodeMap", i>>
EntryNode(f) == <<"entryNodeMap", f>>
CalleeInput(a) == <<"calleeInputNodeMap", a>>
CalleeOutput(f) == <<"calleeOutputNodeMap", f>>
CallerInput(ci, v) == <<"callerInputNodeMap", ci, v>>
CallerOutput(ci) == <<"callerOutputNodeMap", ci>>

InstNodes == {InstNode(i) : i \in Insts}
EntryNodes == {EntryNode(f) : f \in Functions}
AuxNodes ==
    {CalleeInput(a) : a \in Arguments} \cup {CalleeOutput(f) : f \in Functions}
    \cup {CallerInput(ci, v) : ci \in Calls, v \in Insts \cup Arguments \cup OtherValues}
    \cup {CallerOutput(ci) : ci \in Calls}

VARIABLES
    prog,     \* the module
    graph,    \* SDG::graph
    pc

\* What CDG.cpp leaves in _bbGraph for a function (module CDG): its control
\* dependence, and ENTRY, the null block, over the blocks without one.
BBGraph(f) ==
    LET D == ControlDependence(BlocksOf[f], prog.cfg \cap (BlocksOf[f] \X BlocksOf[f]))
    IN  D \cup {<<NULL, b>> : b \in {c \in BlocksOf[f] : \A e \in D : e[2] # c}}

\* Step 1: a block's terminator, or the entry node for ENTRY, controls every
\* instruction of the blocks that depend on it; the entry node controls the
\* parameter nodes of its function.
ControlSource(f, b) == IF b = NULL THEN EntryNode(f) ELSE InstNode(Terminator(b))
ControlPairs(f) ==
    (UNION {{<<ControlSource(f, e[1]), InstNode(InstsOf[e[2]][k])>> : k \in DOMAIN InstsOf[e[2]]} :
               e \in BBGraph(f)})
    \cup {<<EntryNode(f), CalleeInput(Formals[f][k])>> : k \in DOMAIN Formals[f]}
    \cup {<<EntryNode(f), CalleeOutput(f)>>}

BuildControl ==
    /\ pc = "control"
    /\ graph' = Insert(graph, UNION {ControlPairs(f) : f \in Functions}, "control")
    /\ pc' = "calls"
    /\ UNCHANGED prog

\* Step 2, for the calls of functions with a body: the call edge, the parameter nodes
\* of the call under its control, and the parameter edges.  The mutants leave out
\* the parameter edges in, and draw the call edge backwards.
KnownCalls == {ci \in Calls : prog.callee[ci] \in Functions}
ActualPairs(ci) ==
    {<<CallerInput(ci, prog.actuals[ci][k]), CalleeInput(Formals[prog.callee[ci]][k])>> :
        k \in DOMAIN prog.actuals[ci]}
CallPairsBackwards == {<<EntryNode(prog.callee[ci]), InstNode(ci)>> : ci \in KnownCalls}
CallPairsNone == {}
CallPairs == {<<InstNode(ci), EntryNode(prog.callee[ci])>> : ci \in KnownCalls}
CallerPairs ==
    (UNION {{<<InstNode(ci), p[1]>> : p \in ActualPairs(ci)} : ci \in KnownCalls})
    \cup {<<InstNode(ci), CallerOutput(ci)>> : ci \in KnownCalls}
ReturnPairsNone == {}
ReturnPairs == {<<CalleeOutput(prog.callee[ci]), CallerOutput(ci)>> : ci \in KnownCalls}

\* getCalledFunction is null for an indirect call and is used unchecked (SDG.cpp:121);
\* a call with more arguments than the callee has (varargs) fails the assertion at 140.
BadCall(ci) ==
    \/ prog.callee[ci] = NULL
    \/ /\ prog.callee[ci] \in Functions
       /\ Len(prog.actuals[ci]) > Len(Formals[prog.callee[ci]])

BuildCalls ==
    /\ pc = "calls"
    /\ \A ci \in Calls : ~BadCall(ci)
    /\ LET g1 == Insert(graph, CallPairs, "call")
           g2 == Insert(g1, CallerPairs, "control")
           g3 == Insert(g2, UNION {ActualPairs(ci) : ci \in KnownCalls}, "paramIn")
       IN  graph' = Insert(g3, ReturnPairs, "paramOut")
    /\ pc' = "flow"
    /\ UNCHANGED prog

CrashInCalls ==
    /\ pc = "calls"
    /\ \E ci \in Calls : BadCall(ci)
    /\ pc' = "crash"
    /\ UNCHANGED <<prog, graph>>

\* Step 3, generateIntraDDG: from definitions and arguments to their users, from a
\* return to the output node of its function, and from the output node of a call
\* (for a declaration, one made on the spot) to the call.
ValueNode(v) == IF v \in Insts THEN InstNode(v) ELSE CalleeInput(v)
FlowPairs ==
    {<<ValueNode(u[1]), InstNode(u[2])>> : u \in {w \in prog.uses : w[1] \in Insts \cup Arguments}}
    \cup {<<InstNode(r), CalleeOutput(ParentOf(r))>> : r \in Rets}
    \cup {<<CallerOutput(ci), InstNode(ci)>> : ci \in Calls}

BuildFlow ==
    /\ pc = "flow"
    /\ graph' = Insert(graph, FlowPairs, "flow")
    /\ pc' = "pointers"
    /\ UNCHANGED prog

\* Step 4, generateDefNodeMap and generatePointerEdges: a store flows to every load
\* through a pointer of the alias set of its own.  The set must hold instructions
\* only (the assertion at SDG.cpp:274 fails for a global or an argument).
AliasSetOf(p) == UNION {S \in prog.aliasSets : p \in S}
DefNodeMap == UNION {AliasSetOf(prog.address[s]) \X {s} : s \in Stores}
PointerPairs ==
    {<<InstNode(p[1]), InstNode(p[2])>> :
        p \in {q \in Stores \X Loads :
                  \E d \in DefNodeMap : d[2] = q[1] /\ <<d[1], q[2]>> \in prog.uses}}

BuildPointers ==
    /\ pc = "pointers"
    /\ \A d \in DefNodeMap : d[1] \in Insts
    /\ graph' = Insert(graph, PointerPairs, "flow")
    /\ pc' = "readInit"
    /\ UNCHANGED prog

CrashInPointers ==
    /\ pc = "pointers"
    /\ \E d \in DefNodeMap : d[1] \notin Insts
    /\ pc' = "crash"
    /\ UNCHANGED <<prog, graph>>

Build ==
    \/ BuildControl
    \/ BuildCalls
    \/ CrashInCalls
    \/ BuildFlow
    \/ BuildPointers
    \/ CrashInPointers
=============================================================================
