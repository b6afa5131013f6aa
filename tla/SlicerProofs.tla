----------------------------- MODULE SlicerProofs -----------------------------
(* Proofs about the backward slicer as a whole: what the cut module contains, for *)
(* every module of a program, every result of the pointer analysis and every      *)
(* criterion.                                                                     *)
EXTENDS Slicer, SharedProofs

-----------------------------------------------------------------------------
(* The inductive invariant.                                                    *)

N == B!Node
Tag(pairs, attr) == {<<p[1], attr, p[2]>> : p \in pairs}

\* The graph after each step that builds it: nothing is overwritten.
ControlGraph == Tag(UNION {ControlPairs(f) : f \in Functions}, "control")
CallGraph ==
    Tag(CallPairs, "call") \cup Tag(CallerPairs, "control")
    \cup Tag(UNION {ActualPairs(ci) : ci \in KnownCalls}, "paramIn")
    \cup Tag(ReturnPairs, "paramOut")
FlowGraph == Tag(FlowPairs, "flow")
MemoryGraph == Tag(PointerPairs, "flow")
SDGOfProgram == ControlGraph \cup CallGraph \cup FlowGraph \cup MemoryGraph

\* The calls of the program pass the assertions of SDG.cpp.
GoodCalls == \A ci \in Calls : ~BadCall(ci)

GraphSoFar ==
    /\ prog \in Programs
    /\ pc \notin {"control", "calls", "crash"} => GoodCalls
    /\ IsGraph(graph, N)
    /\ pc = "control" => graph = {}
    /\ pc = "calls" => graph = ControlGraph
    /\ pc = "flow" => graph = ControlGraph \cup CallGraph
    /\ pc = "pointers" => graph = ControlGraph \cup CallGraph \cup FlowGraph
    /\ pc \in {"readInit", "phase1", "phase2", "done"} => graph = SDGOfProgram

\* What the two phases mark.
Phase1Slice == Reaching(N, graph, criterion, B!Mask1)
FullSlice == Reaching(N, graph, Phase1Slice, B!Mask2)

MarksSoFar ==
    /\ criterion \subseteq InstNodes
    /\ pc = "phase1" =>
          \/ markedNodes = criterion /\ workSet = criterion
          \/ markedNodes = Phase1Slice /\ workSet = {}
    /\ pc = "phase2" =>
          \/ markedNodes = Phase1Slice /\ workSet = Phase1Slice
          \/ markedNodes = FullSlice /\ workSet = {}
    /\ pc = "done" => markedNodes = FullSlice

\* What is left of the module.
ModuleSoFar ==
    /\ pc # "done" => functions = EntryNodes /\ instructions = InstNodes
    /\ pc = "done" =>
          /\ functions = EntryNodes \cap markedNodes
          /\ instructions = {i \in InstNodes \cap markedNodes : EntryNode(ParentOf(i[2])) \in markedNodes}

IInv == GraphSoFar /\ MarksSoFar /\ ModuleSoFar

-----------------------------------------------------------------------------
(* The work list of a phase, and inserting edges.                              *)

\* Collecting by rounds yields exactly what reaches the seed.
LEMMA CollectedIsReaching ==
    ASSUME NEW M, IsFiniteSet(M), NEW g, IsGraph(g, M), NEW mask, NEW S \in SUBSET M
    PROVE  Collected(M, g, S, mask) = Reaching(M, g, S, mask)
<1> DEFINE Found(T) == T \cup UNION {MaskedPreds(g, m, mask) : m \in T}
           FF == [T \in SUBSET M |-> Found(T)]
           Eqn(h) == h = [T \in SUBSET M |-> IF Found(T) = T THEN T ELSE h[Found(T)]]
           grow == CHOOSE h : Eqn(h)
           witness == [T \in SUBSET M |-> Reaching(M, g, T, mask)]
<1>1. \A T \in SUBSET M : Found(T) \in SUBSET M
  BY DEF MaskedPreds, IsGraph
<1>2. \A T \in SUBSET M : Found(T) = T <=> Closed(g, T, mask)
  BY DEF MaskedPreds, Closed
<1>3. \A T \in SUBSET M, U \in SUBSET M : T \subseteq U => Found(T) \subseteq Found(U)
  OBVIOUS
<1>4. \A T \in SUBSET M : T \subseteq Found(T)
  OBVIOUS
<1> HIDE DEF Found
<1>5. Eqn(witness)
  <2> SUFFICES ASSUME NEW T \in SUBSET M
               PROVE  Reaching(M, g, T, mask) =
                         IF Found(T) = T THEN T ELSE Reaching(M, g, Found(T), mask)
    BY <1>1
  <2>1. CASE Found(T) = T
    BY <1>2, <2>1, ReachingContains, ReachingLeast
  <2>2. CASE Found(T) # T
    <3>1. ASSUME NEW U \in SUBSET M, Closed(g, U, mask)
          PROVE  T \subseteq U <=> Found(T) \subseteq U
      BY <1>2, <1>3, <1>4, <3>1
    <3> QED
      BY <2>2, <3>1 DEF Reaching
  <2> QED
    BY <2>1, <2>2
<1>6. Eqn(grow)
  <2>1. \E h : Eqn(h)
    BY <1>5
  <2> QED
    BY <2>1
<1>7. EndsInLeast(M, FF, grow)
  <2>1. \A T \in SUBSET M : grow[T] = IF FF[T] = T THEN T ELSE grow[FF[T]]
    <3> HIDE DEF grow
    <3> QED
      BY <1>6
  <2>2. GrowsBy(M, FF, grow)
    <3> HIDE DEF grow
    <3> QED
      BY <1>1, <1>3, <1>4, <2>1 DEF GrowsBy
  <2> HIDE DEF FF, grow
  <2> QED
    BY <2>2, GrowthEnds
<1>8. Collected(M, g, S, mask) = grow[S]
  BY DEF Collected, Found
<1> HIDE DEF grow
<1>9. Closed(g, grow[S], mask) /\ grow[S] \in SUBSET M /\ S \subseteq grow[S]
  BY <1>2, <1>7 DEF EndsInLeast
<1>10. \A T \in SUBSET M : S \subseteq T /\ Closed(g, T, mask) => grow[S] \subseteq T
  BY <1>2, <1>7 DEF EndsInLeast
<1>11. Reaching(M, g, S, mask) \subseteq grow[S]
  BY <1>9, ReachingLeast
<1>12. grow[S] \subseteq Reaching(M, g, S, mask)
  BY <1>9, <1>10 DEF Reaching
<1> QED
  BY <1>8, <1>11, <1>12

\* An insert that meets no edge of another attribute only adds.
LEMMA InsertAdds ==
    ASSUME NEW M, NEW g, IsGraph(g, M), NEW pairs, NEW attr,
           \A e \in g : <<e[1], e[3]>> \in pairs => e[2] = attr
    PROVE  Insert(g, pairs, attr) = g \cup Tag(pairs, attr)
<1>1. \A e \in g : e = <<e[1], e[2], e[3]>>
  BY DEF IsGraph
<1>2. ASSUME NEW e \in g, <<e[1], e[3]>> \in pairs
      PROVE  e \in Tag(pairs, attr)
  BY <1>1, <1>2 DEF Tag
<1> QED
  BY <1>2 DEF Insert, Tag

-----------------------------------------------------------------------------
(* Where the parts of a module are, and the nodes that stand for them.         *)

\* The block and the function of an instruction.
LEMMA InstPlace ==
    ASSUME NEW i \in Insts
    PROVE  /\ BlockOf(i) \in BlocksOf[ParentOf(i)]
           /\ ParentOf(i) \in Functions
           /\ \E k \in DOMAIN InstsOf[BlockOf(i)] : InstsOf[BlockOf(i)][k] = i
<1>1. \E b \in Blocks : \E k \in DOMAIN InstsOf[b] : InstsOf[b][k] = i
  BY DEF Insts
<1>2. BlockOf(i) \in Blocks /\ \E k \in DOMAIN InstsOf[BlockOf(i)] : InstsOf[BlockOf(i)][k] = i
  BY <1>1 DEF BlockOf
<1>3. \E f \in Functions : BlockOf(i) \in BlocksOf[f]
  BY <1>2 DEF Blocks
<1> QED
  BY <1>2, <1>3 DEF ParentOf, FunctionWith

\* ... are those that list it.
LEMMA PlaceOf ==
    ASSUME NEW f \in Functions, NEW b \in BlocksOf[f], NEW k \in DOMAIN InstsOf[b]
    PROVE  /\ InstsOf[b][k] \in Insts
           /\ BlockOf(InstsOf[b][k]) = b
           /\ ParentOf(InstsOf[b][k]) = f
<1>1. b \in Blocks
  BY DEF Blocks
<1>2. InstsOf[b][k] \in Insts
  BY <1>1 DEF Insts
<1>3. BlockOf(InstsOf[b][k]) = b
  <2>1. BlockOf(InstsOf[b][k]) \in Blocks
        /\ \E j \in DOMAIN InstsOf[BlockOf(InstsOf[b][k])] :
              InstsOf[BlockOf(InstsOf[b][k])][j] = InstsOf[b][k]
    BY <1>2, InstPlace DEF Blocks
  <2> QED
    BY <1>1, <2>1, PlacesAssumption
<1>4. ParentOf(InstsOf[b][k]) = f
  BY <1>2, <1>3, InstPlace, PlacesAssumption
<1> QED
  BY <1>2, <1>3, <1>4

\* A block ends in one of its instructions.
LEMMA TerminatorPlace ==
    ASSUME NEW f \in Functions, NEW b \in BlocksOf[f]
    PROVE  \E k \in DOMAIN InstsOf[b] : Terminator(b) = InstsOf[b][k]
<1>1. InstsOf[b] \in Seq(Insts) /\ InstsOf[b] # <<>>
  BY PlacesAssumption DEF Blocks
<1>2. Len(InstsOf[b]) \in DOMAIN InstsOf[b]
  BY <1>1
<1> QED
  BY <1>2 DEF Terminator

\* The control dependence between the blocks of a function.
LEMMA BBGraphEdge ==
    ASSUME NEW f \in Functions, NEW e \in BBGraph(f)
    PROVE  e[2] \in BlocksOf[f] /\ (e[1] = NULL \/ e[1] \in BlocksOf[f])
BY DEF BBGraph, ControlDependence

\* A node tells the map that holds it and the value it stands for.
LEMMA NodeNames ==
    /\ \A i, j : InstNode(i) = InstNode(j) => i = j
    /\ \A f, g : EntryNode(f) = EntryNode(g) => f = g
    /\ \A i : InstNode(i)[1] = "instNodeMap" /\ InstNode(i)[2] = i
    /\ \A f : EntryNode(f)[1] = "entryNodeMap" /\ EntryNode(f)[2] = f
    /\ \A a : CalleeInput(a)[1] = "calleeInputNodeMap" /\ CalleeInput(a)[2] = a
    /\ \A f : CalleeOutput(f)[1] = "calleeOutputNodeMap" /\ CalleeOutput(f)[2] = f
    /\ \A c, v : CallerInput(c, v)[1] = "callerInputNodeMap" /\ CallerInput(c, v)[2] = c
    /\ \A c : CallerOutput(c)[1] = "callerOutputNodeMap" /\ CallerOutput(c)[2] = c
BY DEF InstNode, EntryNode, CalleeInput, CalleeOutput, CallerInput, CallerOutput

\* Every node of the program is a node of the graph.
LEMMA NodesAreNodes ==
    /\ N = EntryNodes \cup InstNodes \cup AuxNodes
    /\ \A i \in Insts : InstNode(i) \in InstNodes
    /\ \A f \in Functions : EntryNode(f) \in EntryNodes /\ CalleeOutput(f) \in AuxNodes
    /\ \A a \in Arguments : CalleeInput(a) \in AuxNodes
    /\ \A c \in Calls : /\ CallerOutput(c) \in AuxNodes
                        /\ \A v \in Insts \cup Arguments \cup OtherValues :
                              CallerInput(c, v) \in AuxNodes
BY DEF N, B!Node, InstNodes, EntryNodes, AuxNodes

\* The formal parameters of a function are arguments of the module.
LEMMA FormalsAreArguments ==
    ASSUME NEW f \in Functions, NEW k \in DOMAIN Formals[f]
    PROVE  Formals[f][k] \in Arguments
BY DEF Arguments

\* An image of a finite set is finite.
LEMMA ImageFinite ==
    ASSUME NEW S, IsFiniteSet(S), NEW h, DOMAIN h = S
    PROVE  IsFiniteSet({h[x] : x \in S})
<1> DEFINE T == {h[x] : x \in S}
           g == [x \in S |-> h[x]]
<1>1. g \in Surjection(S, T)
  BY DEF Surjection
<1> QED
  BY <1>1, FS_Surjection

\* A finite module has finitely many nodes.
LEMMA NodesFinite == IsFiniteSet(N)
<1> DEFINE V == Insts \cup Arguments \cup OtherValues
           In == {CalleeInput(a) : a \in Arguments}
           Out == {CalleeOutput(f) : f \in Functions}
           Actual == {CallerInput(c, v) : c \in Calls, v \in V}
           Ret == {CallerOutput(c) : c \in Calls}
<1>1. IsFiniteSet(V) /\ IsFiniteSet(Calls)
  <2>1. IsFiniteSet(Insts \cup Arguments)
    BY FiniteAssumption, FS_Union
  <2>2. IsFiniteSet(V)
    BY <2>1, FiniteAssumption, FS_Union
  <2>3. Calls \subseteq Insts
    BY PlacesAssumption
  <2> QED
    BY <2>2, <2>3, FiniteAssumption, FS_Subset
<1>2. IsFiniteSet(InstNodes)
  <2> DEFINE h == [i \in Insts |-> InstNode(i)]
  <2>1. InstNodes = {h[x] : x \in Insts} /\ DOMAIN h = Insts
    BY DEF InstNodes
  <2> QED
    BY <2>1, FiniteAssumption, ImageFinite
<1>3. IsFiniteSet(EntryNodes)
  <2> DEFINE h == [f \in Functions |-> EntryNode(f)]
  <2>1. EntryNodes = {h[x] : x \in Functions} /\ DOMAIN h = Functions
    BY DEF EntryNodes
  <2> QED
    BY <2>1, FiniteAssumption, ImageFinite
<1>4. IsFiniteSet(In)
  <2> DEFINE h == [a \in Arguments |-> CalleeInput(a)]
  <2>1. In = {h[x] : x \in Arguments} /\ DOMAIN h = Arguments
    OBVIOUS
  <2> HIDE DEF h, In
  <2> QED
    BY <2>1, FiniteAssumption, ImageFinite
<1>5. IsFiniteSet(Out)
  <2> DEFINE h == [f \in Functions |-> CalleeOutput(f)]
  <2>1. Out = {h[x] : x \in Functions} /\ DOMAIN h = Functions
    OBVIOUS
  <2> HIDE DEF h, Out
  <2> QED
    BY <2>1, FiniteAssumption, ImageFinite
<1>6. IsFiniteSet(Actual)
  <2> DEFINE h == [x \in Calls \X V |-> CallerInput(x[1], x[2])]
  <2>1. \A c \in Calls, v \in V : <<c, v>> \in Calls \X V /\ h[<<c, v>>] = CallerInput(c, v)
    OBVIOUS
  <2>2. \A x \in Calls \X V : x[1] \in Calls /\ x[2] \in V /\ h[x] = CallerInput(x[1], x[2])
    OBVIOUS
  <2>3. DOMAIN h = Calls \X V
    OBVIOUS
  <2> HIDE DEF h, V
  <2>4. ASSUME NEW y \in Actual
        PROVE  y \in {h[x] : x \in Calls \X V}
    <3>1. PICK c \in Calls, v \in V : y = CallerInput(c, v)
      OBVIOUS
    <3>2. <<c, v>> \in Calls \X V /\ y = h[<<c, v>>]
      BY <2>1, <3>1
    <3> QED
      BY <3>2
  <2>5. ASSUME NEW y \in {h[x] : x \in Calls \X V}
        PROVE  y \in Actual
    <3>1. PICK x \in Calls \X V : y = h[x]
      BY <2>5
    <3>2. x[1] \in Calls /\ x[2] \in V /\ y = CallerInput(x[1], x[2])
      BY <2>2, <3>1
    <3> QED
      BY <3>2
  <2>6. Actual = {h[x] : x \in Calls \X V}
    <3> HIDE DEF Actual
    <3> QED
      BY <2>4, <2>5
  <2>7. IsFiniteSet(Calls \X V)
    BY <1>1, FS_Product
  <2> HIDE DEF Actual
  <2> QED
    BY <2>3, <2>6, <2>7, ImageFinite
<1>7. IsFiniteSet(Ret)
  <2> DEFINE h == [c \in Calls |-> CallerOutput(c)]
  <2>1. Ret = {h[x] : x \in Calls} /\ DOMAIN h = Calls
    OBVIOUS
  <2> HIDE DEF h, Ret
  <2> QED
    BY <1>1, <2>1, ImageFinite
<1>8. N = EntryNodes \cup InstNodes \cup (In \cup Out \cup Actual \cup Ret)
  BY NodesAreNodes DEF AuxNodes
<1> HIDE DEF In, Out, Actual, Ret
<1>9. IsFiniteSet(EntryNodes \cup InstNodes) /\ IsFiniteSet(In \cup Out)
  BY <1>2, <1>3, <1>4, <1>5, FS_Union
<1>10. IsFiniteSet(In \cup Out \cup Actual)
  BY <1>6, <1>9, FS_Union
<1>11. IsFiniteSet(In \cup Out \cup Actual \cup Ret)
  BY <1>7, <1>10, FS_Union
<1> QED
  BY <1>8, <1>9, <1>11, FS_Union

-----------------------------------------------------------------------------
(* The pairs each step inserts: between nodes of the graph, and from which of the *)
(* maps to which.                                                              *)

\* A set of pairs of nodes.
NodePairs(pairs) == \A p \in pairs : p = <<p[1], p[2]>> /\ p[1] \in N /\ p[2] \in N

\* Control pairs: entry nodes control instructions and parameter nodes, and only the
\* terminator of a block controls instructions as an instruction.
LEMMA ControlPairsKind ==
    ASSUME NEW f \in Functions
    PROVE  /\ NodePairs(ControlPairs(f))
           /\ \A p \in ControlPairs(f) :
                 \/ p[1][1] = "entryNodeMap"
                    /\ p[2][1] \in {"instNodeMap", "calleeInputNodeMap", "calleeOutputNodeMap"}
                 \/ /\ p[1][1] = "instNodeMap" /\ p[2][1] = "instNodeMap"
                    /\ \E b \in Blocks : p[1][2] = Terminator(b)
<1> DEFINE Kind(p) == \/ p[1][1] = "entryNodeMap"
                         /\ p[2][1] \in {"instNodeMap", "calleeInputNodeMap", "calleeOutputNodeMap"}
                      \/ /\ p[1][1] = "instNodeMap" /\ p[2][1] = "instNodeMap"
                         /\ \E b \in Blocks : p[1][2] = Terminator(b)
<1> SUFFICES ASSUME NEW p \in ControlPairs(f)
             PROVE  p = <<p[1], p[2]>> /\ p[1] \in N /\ p[2] \in N /\ Kind(p)
  BY DEF NodePairs
<1>1. EntryNode(f) \in N /\ CalleeOutput(f) \in N
  BY NodesAreNodes
<1>2. ASSUME NEW e \in BBGraph(f), NEW k \in DOMAIN InstsOf[e[2]],
             p = <<ControlSource(f, e[1]), InstNode(InstsOf[e[2]][k])>>
      PROVE  p[1] \in N /\ p[2] \in N /\ Kind(p)
  <2>1. e[2] \in BlocksOf[f] /\ (e[1] = NULL \/ (e[1] \in BlocksOf[f] /\ e[1] # NULL))
    BY BBGraphEdge, PlacesAssumption DEF Blocks
  <2>2. InstNode(InstsOf[e[2]][k]) \in N
    BY <2>1, PlaceOf, NodesAreNodes
  <2>3. CASE e[1] = NULL
    BY <1>1, <1>2, <2>2, <2>3, NodeNames DEF ControlSource
  <2>4. CASE e[1] \in BlocksOf[f] /\ e[1] # NULL
    <3>1. p[1] = InstNode(Terminator(e[1])) /\ p[2] = InstNode(InstsOf[e[2]][k])
      BY <1>2, <2>4 DEF ControlSource
    <3>2. Terminator(e[1]) \in Insts /\ e[1] \in Blocks
      BY <2>4, TerminatorPlace, PlaceOf DEF Blocks
    <3> QED
      BY <2>2, <3>1, <3>2, NodesAreNodes, NodeNames
  <2> QED
    BY <2>1, <2>3, <2>4
<1>3. ASSUME NEW k \in DOMAIN Formals[f], p = <<EntryNode(f), CalleeInput(Formals[f][k])>>
      PROVE  p[1] \in N /\ p[2] \in N /\ Kind(p)
  BY <1>1, <1>3, FormalsAreArguments, NodesAreNodes, NodeNames
<1>4. ASSUME p = <<EntryNode(f), CalleeOutput(f)>>
      PROVE  p[1] \in N /\ p[2] \in N /\ Kind(p)
  BY <1>1, <1>4, NodeNames
<1>5. \/ \E e \in BBGraph(f) : \E k \in DOMAIN InstsOf[e[2]] :
            p = <<ControlSource(f, e[1]), InstNode(InstsOf[e[2]][k])>>
      \/ \E k \in DOMAIN Formals[f] : p = <<EntryNode(f), CalleeInput(Formals[f][k])>>
      \/ p = <<EntryNode(f), CalleeOutput(f)>>
  BY DEF ControlPairs
<1> HIDE DEF Kind
<1> QED
  BY <1>2, <1>3, <1>4, <1>5

\* Call pairs: from a call to an entry node.
LEMMA CallPairsKind ==
    /\ NodePairs(CallPairs)
    /\ \A p \in CallPairs : p[1][1] = "instNodeMap" /\ p[2][1] = "entryNodeMap"
BY PlacesAssumption, NodesAreNodes, NodeNames DEF NodePairs, CallPairs, KnownCalls

\* Parameter pairs in: a call with no more arguments than its callee has joins its own
\* actuals to the callee's formals.
LEMMA ActualPairsKind ==
    ASSUME prog \in Programs, GoodCalls, NEW ci \in KnownCalls
    PROVE  /\ NodePairs(ActualPairs(ci))
           /\ \A p \in ActualPairs(ci) :
                 /\ p[1][1] = "callerInputNodeMap" /\ p[1][2] = ci
                 /\ p[2][1] = "calleeInputNodeMap"
                 /\ \E k \in DOMAIN Formals[prog.callee[ci]] : p[2][2] = Formals[prog.callee[ci]][k]
<1> DEFINE g == prog.callee[ci]
<1>1. ci \in Calls /\ g \in Functions /\ ~(Len(prog.actuals[ci]) > Len(Formals[g]))
  BY DEF KnownCalls, GoodCalls, BadCall
<1>2. /\ prog.actuals[ci] \in Seq(Insts \cup Arguments \cup OtherValues)
      /\ Formals[g] \in Seq(Arguments)
  BY <1>1, ProgramsAssumption, PlacesAssumption DEF WellFormed
<1> SUFFICES ASSUME NEW k \in DOMAIN prog.actuals[ci], NEW p,
                    p = <<CallerInput(ci, prog.actuals[ci][k]), CalleeInput(Formals[g][k])>>
             PROVE  /\ p[1] \in N /\ p[2] \in N
                    /\ p[1][1] = "callerInputNodeMap" /\ p[1][2] = ci
                    /\ p[2][1] = "calleeInputNodeMap"
                    /\ \E j \in DOMAIN Formals[g] : p[2][2] = Formals[g][j]
  BY DEF ActualPairs, NodePairs
<1>3. /\ k \in DOMAIN Formals[g] /\ Formals[g][k] \in Arguments
      /\ prog.actuals[ci][k] \in Insts \cup Arguments \cup OtherValues
  BY <1>1, <1>2
<1>4. CallerInput(ci, prog.actuals[ci][k]) \in N /\ CalleeInput(Formals[g][k]) \in N
  BY <1>1, <1>3, NodesAreNodes
<1> QED
  BY <1>3, <1>4, NodeNames

\* A call controls its own parameter nodes and no others.
LEMMA CallerPairsKind ==
    ASSUME prog \in Programs, GoodCalls
    PROVE  /\ NodePairs(CallerPairs)
           /\ \A p \in CallerPairs :
                 /\ p[1][1] = "instNodeMap" /\ p[1][2] \in KnownCalls /\ p[2][2] = p[1][2]
                 /\ p[2][1] \in {"callerInputNodeMap", "callerOutputNodeMap"}
<1> SUFFICES ASSUME NEW ci \in KnownCalls, NEW p,
                    \/ \E q \in ActualPairs(ci) : p = <<InstNode(ci), q[1]>>
                    \/ p = <<InstNode(ci), CallerOutput(ci)>>
             PROVE  /\ p = <<p[1], p[2]>> /\ p[1] \in N /\ p[2] \in N
                    /\ p[1][1] = "instNodeMap" /\ p[1][2] \in KnownCalls /\ p[2][2] = p[1][2]
                    /\ p[2][1] \in {"callerInputNodeMap", "callerOutputNodeMap"}
  BY DEF CallerPairs, NodePairs
<1>1. ci \in Calls /\ ci \in Insts
  BY PlacesAssumption DEF KnownCalls
<1>2. InstNode(ci) \in N /\ CallerOutput(ci) \in N
  BY <1>1, NodesAreNodes
<1>3. CASE p = <<InstNode(ci), CallerOutput(ci)>>
  BY <1>2, <1>3, NodeNames
<1>4. ASSUME NEW q \in ActualPairs(ci), p = <<InstNode(ci), q[1]>>
      PROVE  /\ p[2] \in N /\ p[2][1] = "callerInputNodeMap" /\ p[2][2] = ci
  BY <1>4, ActualPairsKind DEF NodePairs
<1> QED
  BY <1>2, <1>3, <1>4, NodeNames

\* Parameter pairs out: from the output node of a function to that of a call.
LEMMA ReturnPairsKind ==
    /\ NodePairs(ReturnPairs)
    /\ \A p \in ReturnPairs : p[1][1] = "calleeOutputNodeMap" /\ p[2][1] = "callerOutputNodeMap"
BY NodesAreNodes, NodeNames DEF NodePairs, ReturnPairs, KnownCalls

\* Flow pairs: a terminator is not the source of one that ends in an instruction.
LEMMA FlowPairsKind ==
    ASSUME prog \in Programs
    PROVE  /\ NodePairs(FlowPairs)
           /\ \A p \in FlowPairs :
                 \/ /\ p[1][1] = "instNodeMap" /\ p[2][1] = "instNodeMap"
                    /\ \A b \in Blocks : p[1][2] # Terminator(b)
                 \/ p[1][1] = "instNodeMap" /\ p[2][1] = "calleeOutputNodeMap"
                 \/ p[1][1] \in {"calleeInputNodeMap", "callerOutputNodeMap"} /\ p[2][1] = "instNodeMap"
<1> DEFINE Kind(p) ==
      \/ /\ p[1][1] = "instNodeMap" /\ p[2][1] = "instNodeMap"
         /\ \A b \in Blocks : p[1][2] # Terminator(b)
      \/ p[1][1] = "instNodeMap" /\ p[2][1] = "calleeOutputNodeMap"
      \/ p[1][1] \in {"calleeInputNodeMap", "callerOutputNodeMap"} /\ p[2][1] = "instNodeMap"
<1> SUFFICES ASSUME NEW p \in FlowPairs
             PROVE  p = <<p[1], p[2]>> /\ p[1] \in N /\ p[2] \in N /\ Kind(p)
  BY DEF NodePairs
<1>1. ASSUME NEW u \in prog.uses, u[1] \in Insts \cup Arguments, p = <<ValueNode(u[1]), InstNode(u[2])>>
      PROVE  p[1] \in N /\ p[2] \in N /\ Kind(p)
  <2>1. u[2] \in Insts /\ \A b \in Blocks : u[1] # Terminator(b)
    BY ProgramsAssumption, TerminatorAssumption DEF WellFormed
  <2> QED
    BY <1>1, <2>1, NodesAreNodes, NodeNames DEF ValueNode
<1>2. ASSUME NEW r \in Rets, p = <<InstNode(r), CalleeOutput(ParentOf(r))>>
      PROVE  p[1] \in N /\ p[2] \in N /\ Kind(p)
  <2>1. r \in Insts /\ ParentOf(r) \in Functions
    BY PlacesAssumption, InstPlace
  <2> QED
    BY <1>2, <2>1, NodesAreNodes, NodeNames
<1>3. ASSUME NEW ci \in Calls, p = <<CallerOutput(ci), InstNode(ci)>>
      PROVE  p[1] \in N /\ p[2] \in N /\ Kind(p)
  BY <1>3, PlacesAssumption, NodesAreNodes, NodeNames
<1>4. \/ \E u \in prog.uses : u[1] \in Insts \cup Arguments /\ p = <<ValueNode(u[1]), InstNode(u[2])>>
      \/ \E r \in Rets : p = <<InstNode(r), CalleeOutput(ParentOf(r))>>
      \/ \E ci \in Calls : p = <<CallerOutput(ci), InstNode(ci)>>
  BY DEF FlowPairs
<1> HIDE DEF Kind
<1> QED
  BY <1>1, <1>2, <1>3, <1>4

\* Memory pairs: from a store, which is no terminator, to a load.
LEMMA PointerPairsKind ==
    /\ NodePairs(PointerPairs)
    /\ \A p \in PointerPairs :
          /\ p[1][1] = "instNodeMap" /\ p[2][1] = "instNodeMap"
          /\ \A b \in Blocks : p[1][2] # Terminator(b)
<1>1. ASSUME NEW p \in PointerPairs
      PROVE  \E s \in Stores, l \in Loads : p = <<InstNode(s), InstNode(l)>>
  BY DEF PointerPairs
<1>2. Stores \subseteq Insts /\ Loads \subseteq Insts /\ \A b \in Blocks : Terminator(b) \notin Stores
  BY PlacesAssumption, TerminatorAssumption
<1> QED
  BY <1>1, <1>2, NodesAreNodes, NodeNames DEF NodePairs

-----------------------------------------------------------------------------
(* Building the graph.                                                         *)

\* An edge of a set of tagged pairs.
LEMMA TaggedEdge ==
    ASSUME NEW pairs, NodePairs(pairs), NEW attr, NEW e \in Tag(pairs, attr)
    PROVE  \E p \in pairs : e[1] = p[1] /\ e[2] = attr /\ e[3] = p[2] /\ <<e[1], e[3]>> = p
BY DEF Tag, NodePairs

\* ... of which an insert makes a graph again.
LEMMA InsertNodePairs ==
    ASSUME NEW g, IsGraph(g, N), NEW pairs, NodePairs(pairs), NEW attr \in EdgeAttr,
           \A e \in g : <<e[1], e[3]>> \in pairs => e[2] = attr
    PROVE  /\ Insert(g, pairs, attr) = g \cup Tag(pairs, attr)
           /\ IsGraph(g \cup Tag(pairs, attr), N)
<1>1. Insert(g, pairs, attr) = g \cup Tag(pairs, attr)
  BY InsertAdds
<1>2. pairs \subseteq N \X N
  BY DEF NodePairs
<1>3. IsGraph(Insert(g, pairs, attr), N)
  BY <1>2, InsertIsGraph
<1> QED
  BY <1>1, <1>3

AllControlPairs == UNION {ControlPairs(f) : f \in Functions}
AllActualPairs == UNION {ActualPairs(ci) : ci \in KnownCalls}

\* The pairs of all functions and of all calls together.
LEMMA AllNodePairs ==
    /\ NodePairs(AllControlPairs)
    /\ prog \in Programs /\ GoodCalls => NodePairs(AllActualPairs)
<1>1. NodePairs(AllControlPairs)
  BY ControlPairsKind DEF NodePairs, AllControlPairs
<1>2. ASSUME prog \in Programs, GoodCalls
      PROVE  NodePairs(AllActualPairs)
  BY <1>2, ActualPairsKind DEF NodePairs, AllActualPairs
<1> QED
  BY <1>1, <1>2

\* Which maps the edges lead from and to, step by step.
LEMMA ControlGraphKind ==
    ASSUME NEW e \in ControlGraph
    PROVE  /\ e[2] = "control"
           /\ \/ e[1][1] = "entryNodeMap"
                 /\ e[3][1] \in {"instNodeMap", "calleeInputNodeMap", "calleeOutputNodeMap"}
              \/ /\ e[1][1] = "instNodeMap" /\ e[3][1] = "instNodeMap"
                 /\ \E b \in Blocks : e[1][2] = Terminator(b)
<1>1. PICK p \in AllControlPairs : e[1] = p[1] /\ e[2] = "control" /\ e[3] = p[2]
  BY AllNodePairs, TaggedEdge DEF ControlGraph, AllControlPairs
<1>2. PICK f \in Functions : p \in ControlPairs(f)
  BY DEF AllControlPairs
<1> QED
  BY <1>1, <1>2, ControlPairsKind

\* ... step 2: never from an instruction to an instruction, never from a parameter of
\* the callee to an instruction.
LEMMA CallGraphKind ==
    ASSUME prog \in Programs, GoodCalls, NEW e \in CallGraph
    PROVE  \/ /\ e[1][1] = "instNodeMap"
              /\ e[3][1] \in {"entryNodeMap", "callerInputNodeMap", "callerOutputNodeMap"}
           \/ e[1][1] = "callerInputNodeMap"
           \/ e[1][1] = "calleeOutputNodeMap" /\ e[3][1] = "callerOutputNodeMap"
<1>1. CASE e \in Tag(CallPairs, "call")
  BY <1>1, CallPairsKind, TaggedEdge
<1>2. CASE e \in Tag(CallerPairs, "control")
  BY <1>2, CallerPairsKind, TaggedEdge
<1>3. CASE e \in Tag(AllActualPairs, "paramIn")
  <2>1. PICK p \in AllActualPairs : e[1] = p[1]
    BY <1>3, AllNodePairs, TaggedEdge
  <2>2. PICK ci \in KnownCalls : p \in ActualPairs(ci)
    BY DEF AllActualPairs
  <2> QED
    BY <2>1, <2>2, ActualPairsKind
<1>4. CASE e \in Tag(ReturnPairs, "paramOut")
  BY <1>4, ReturnPairsKind, TaggedEdge
<1> QED
  BY <1>1, <1>2, <1>3, <1>4 DEF CallGraph, AllActualPairs

\* ... step 3.
LEMMA FlowGraphKind ==
    ASSUME prog \in Programs, NEW e \in FlowGraph
    PROVE  e[2] = "flow"
BY FlowPairsKind, TaggedEdge DEF FlowGraph

\* Step 1 starts from the empty graph.
LEMMA BuildControlAdds ==
    ASSUME GraphSoFar, BuildControl
    PROVE  graph' = ControlGraph /\ IsGraph(graph', N)
<1>1. graph = {} /\ graph' = Insert({}, AllControlPairs, "control")
  BY DEF GraphSoFar, BuildControl, AllControlPairs
<1>2. IsGraph({}, N) /\ "control" \in EdgeAttr
  BY DEF IsGraph, EdgeAttr
<1>3. Insert({}, AllControlPairs, "control") = {} \cup Tag(AllControlPairs, "control")
      /\ IsGraph({} \cup Tag(AllControlPairs, "control"), N)
  BY <1>2, AllNodePairs, InsertNodePairs
<1> QED
  BY <1>1, <1>3 DEF ControlGraph, AllControlPairs

\* Step 2 draws its edges to entry nodes and to or from parameter nodes of calls.
LEMMA BuildCallsAdds ==
    ASSUME GraphSoFar, BuildCalls
    PROVE  GoodCalls /\ graph' = ControlGraph \cup CallGraph /\ IsGraph(graph', N)
<1> DEFINE g1 == ControlGraph \cup Tag(CallPairs, "call")
           g2 == g1 \cup Tag(CallerPairs, "control")
           g3 == g2 \cup Tag(AllActualPairs, "paramIn")
           g4 == g3 \cup Tag(ReturnPairs, "paramOut")
<1>1. prog \in Programs /\ GoodCalls /\ graph = ControlGraph /\ IsGraph(ControlGraph, N)
  BY DEF GraphSoFar, BuildCalls, GoodCalls
<1>2. {"call", "control", "paramIn", "paramOut"} \subseteq EdgeAttr
  BY DEF EdgeAttr
<1>3. Insert(ControlGraph, CallPairs, "call") = g1 /\ IsGraph(g1, N)
  <2>1. \A e \in ControlGraph : <<e[1], e[3]>> \notin CallPairs
    BY ControlGraphKind, CallPairsKind
  <2> QED
    BY <1>1, <1>2, <2>1, CallPairsKind, InsertNodePairs
<1>4. \A e \in g1 : /\ e[1][1] \in {"entryNodeMap", "instNodeMap"}
                    /\ e[3][1] \in {"entryNodeMap", "instNodeMap", "calleeInputNodeMap", "calleeOutputNodeMap"}
  <2>1. \A e \in Tag(CallPairs, "call") : e[1][1] = "instNodeMap" /\ e[3][1] = "entryNodeMap"
    BY CallPairsKind, TaggedEdge
  <2> QED
    BY <2>1, ControlGraphKind
<1> HIDE DEF g1
<1>5. Insert(g1, CallerPairs, "control") = g2 /\ IsGraph(g2, N)
  <2>1. \A e \in g1 : <<e[1], e[3]>> \notin CallerPairs
    BY <1>1, <1>4, CallerPairsKind
  <2> QED
    BY <1>1, <1>2, <1>3, <2>1, CallerPairsKind, InsertNodePairs
<1>6. \A e \in g2 : e[1][1] \in {"entryNodeMap", "instNodeMap"}
  <2>1. \A e \in Tag(CallerPairs, "control") : e[1][1] = "instNodeMap"
    BY <1>1, CallerPairsKind, TaggedEdge
  <2> QED
    BY <1>4, <2>1
<1> HIDE DEF g2
<1>7. \A p \in AllActualPairs : p[1][1] = "callerInputNodeMap"
  <2> SUFFICES ASSUME NEW ci \in KnownCalls, NEW p \in ActualPairs(ci)
               PROVE  p[1][1] = "callerInputNodeMap"
    BY DEF AllActualPairs
  <2> QED
    BY <1>1, ActualPairsKind
<1>8. Insert(g2, AllActualPairs, "paramIn") = g3 /\ IsGraph(g3, N)
  <2>1. \A e \in g2 : <<e[1], e[3]>> \notin AllActualPairs
    BY <1>6, <1>7
  <2> QED
    BY <1>1, <1>2, <1>5, <2>1, AllNodePairs, InsertNodePairs
<1>9. \A e \in g3 : e[1][1] \in {"entryNodeMap", "instNodeMap", "callerInputNodeMap"}
  <2>1. \A e \in Tag(AllActualPairs, "paramIn") : e[1][1] = "callerInputNodeMap"
    BY <1>1, <1>7, AllNodePairs, TaggedEdge
  <2> QED
    BY <1>6, <2>1
<1> HIDE DEF g3
<1>10. Insert(g3, ReturnPairs, "paramOut") = g4 /\ IsGraph(g4, N)
  <2>1. \A e \in g3 : <<e[1], e[3]>> \notin ReturnPairs
    BY <1>9, ReturnPairsKind
  <2> QED
    BY <1>2, <1>8, <2>1, ReturnPairsKind, InsertNodePairs
<1>11. graph' = g4
  BY <1>1, <1>3, <1>5, <1>8, <1>10 DEF BuildCalls, AllActualPairs
<1>12. g4 = ControlGraph \cup CallGraph
  BY DEF g1, g2, g3, CallGraph, AllActualPairs
<1> QED
  BY <1>1, <1>10, <1>11, <1>12

\* An edge of the first two steps joins no pair of the last two: only a terminator
\* controls instructions, and it has no users.
LEMMA ControlIsNotFlow ==
    ASSUME prog \in Programs, GoodCalls, NEW e \in ControlGraph \cup CallGraph
    PROVE  <<e[1], e[3]>> \notin FlowPairs \cup PointerPairs
<1>1. CASE e \in ControlGraph
  BY <1>1, ControlGraphKind, FlowPairsKind, PointerPairsKind
<1>2. CASE e \in CallGraph
  BY <1>2, CallGraphKind, FlowPairsKind, PointerPairsKind
<1> QED
  BY <1>1, <1>2

\* Step 3 adds the def-use chains and overwrites nothing.
LEMMA BuildFlowAdds ==
    ASSUME GraphSoFar, BuildFlow
    PROVE  graph' = ControlGraph \cup CallGraph \cup FlowGraph /\ IsGraph(graph', N)
<1>1. /\ prog \in Programs /\ GoodCalls /\ graph = ControlGraph \cup CallGraph
      /\ IsGraph(graph, N) /\ graph' = Insert(graph, FlowPairs, "flow")
  BY DEF GraphSoFar, BuildFlow
<1>2. \A e \in graph : <<e[1], e[3]>> \notin FlowPairs
  BY <1>1, ControlIsNotFlow
<1>3. "flow" \in EdgeAttr /\ NodePairs(FlowPairs)
  BY <1>1, FlowPairsKind DEF EdgeAttr
<1>4. Insert(graph, FlowPairs, "flow") = graph \cup FlowGraph /\ IsGraph(graph \cup FlowGraph, N)
  BY <1>1, <1>2, <1>3, InsertNodePairs DEF FlowGraph
<1> QED
  BY <1>1, <1>4

\* Step 4 adds the memory edges: a pair that is there already has their attribute.
LEMMA BuildPointersAdds ==
    ASSUME GraphSoFar, BuildPointers
    PROVE  graph' = SDGOfProgram /\ IsGraph(graph', N)
<1>1. /\ prog \in Programs /\ GoodCalls /\ graph = ControlGraph \cup CallGraph \cup FlowGraph
      /\ IsGraph(graph, N) /\ graph' = Insert(graph, PointerPairs, "flow")
  BY DEF GraphSoFar, BuildPointers
<1>2. \A e \in graph : <<e[1], e[3]>> \in PointerPairs => e[2] = "flow"
  BY <1>1, ControlIsNotFlow, FlowGraphKind
<1>3. "flow" \in EdgeAttr /\ NodePairs(PointerPairs)
  BY PointerPairsKind DEF EdgeAttr
<1>4. Insert(graph, PointerPairs, "flow") = graph \cup MemoryGraph
      /\ IsGraph(graph \cup MemoryGraph, N)
  BY <1>1, <1>2, <1>3, InsertNodePairs DEF MemoryGraph
<1> QED
  BY <1>1, <1>4 DEF SDGOfProgram

-----------------------------------------------------------------------------
(* The invariant holds throughout.                                             *)

\* The graph of a program depends on nothing but the program.
LEMMA SameProgram ==
    ASSUME UNCHANGED prog
    PROVE  /\ ControlGraph' = ControlGraph /\ CallGraph' = CallGraph
           /\ FlowGraph' = FlowGraph /\ MemoryGraph' = MemoryGraph
           /\ SDGOfProgram' = SDGOfProgram
           /\ GoodCalls' <=> GoodCalls
<1>1. /\ \A f : ControlPairs(f)' = ControlPairs(f)
      /\ KnownCalls' = KnownCalls
      /\ \A ci : ActualPairs(ci)' = ActualPairs(ci)
      /\ FlowPairs' = FlowPairs
  BY DEF ControlPairs, BBGraph, KnownCalls, ActualPairs, FlowPairs
<1>2. CallPairs' = CallPairs /\ CallerPairs' = CallerPairs /\ ReturnPairs' = ReturnPairs
  BY <1>1 DEF CallPairs, CallerPairs, ReturnPairs
<1>3. PointerPairs' = PointerPairs
  <2>1. DefNodeMap' = DefNodeMap
    BY DEF DefNodeMap, AliasSetOf
  <2> QED
    BY <2>1 DEF PointerPairs
<1>4. GoodCalls' <=> GoodCalls
  BY DEF GoodCalls, BadCall
<1>5. ControlGraph' = ControlGraph /\ CallGraph' = CallGraph
  BY <1>1, <1>2 DEF ControlGraph, CallGraph
<1>6. FlowGraph' = FlowGraph /\ MemoryGraph' = MemoryGraph
  BY <1>1, <1>3 DEF FlowGraph, MemoryGraph
<1> QED
  BY <1>4, <1>5, <1>6 DEF SDGOfProgram

\* A phase with a seed and nothing to do has found all.
LEMMA NothingReachesNothing ==
    ASSUME NEW g, NEW mask
    PROVE  Reaching(N, g, {}, mask) = {}
<1>1. Closed(g, {}, mask) /\ {} \in SUBSET N
  BY DEF Closed
<1> QED
  BY <1>1, ReachingLeast

\* Marking does what a phase of the abstract slice does.
LEMMA MarkPhaseReaches ==
    ASSUME IsGraph(graph, N), NEW mask, MarkPhase(mask), workSet \subseteq N
    PROVE  markedNodes' = Reaching(N, graph, workSet, mask)
BY NodesFinite, CollectedIsReaching DEF MarkPhase, N

\* Both phases start from nodes of the graph.
LEMMA SeedsAreNodes ==
    ASSUME MarksSoFar
    PROVE  criterion \subseteq N /\ Phase1Slice \subseteq N
BY NodesAreNodes DEF MarksSoFar, Phase1Slice, Reaching

\* The program as it comes, with no graph yet.
LEMMA InitInvariant == Init => IInv
BY DEF Init, IInv, GraphSoFar, MarksSoFar, ModuleSoFar, IsGraph

\* The steps of the SDG pass.
LEMMA BuildKeeps == IInv /\ BuildSDG => IInv'
<1> SUFFICES ASSUME IInv, BuildSDG PROVE IInv'
  OBVIOUS
<1>1. /\ Build /\ UNCHANGED <<criterion, markedNodes, workSet, functions, instructions>>
      /\ GraphSoFar /\ MarksSoFar /\ ModuleSoFar
  BY DEF BuildSDG, sliceVars, IInv
<1>2. UNCHANGED prog
  BY <1>1 DEF Build, BuildControl, BuildCalls, CrashInCalls, BuildFlow, BuildPointers, CrashInPointers
<1>3. /\ ControlGraph' = ControlGraph /\ CallGraph' = CallGraph
      /\ FlowGraph' = FlowGraph /\ SDGOfProgram' = SDGOfProgram
      /\ GoodCalls' <=> GoodCalls
  BY <1>2, SameProgram
<1>4. MarksSoFar' /\ ModuleSoFar'
  <2>1. pc' \in {"calls", "flow", "pointers", "readInit", "crash"}
        /\ pc \in {"control", "calls", "flow", "pointers"}
    BY <1>1 DEF Build, BuildControl, BuildCalls, CrashInCalls, BuildFlow, BuildPointers, CrashInPointers
  <2> QED
    BY <1>1, <2>1 DEF MarksSoFar, ModuleSoFar
<1>5. GraphSoFar'
  <2>1. CASE BuildControl
    <3>1. pc' = "calls"
      BY <2>1 DEF BuildControl
    <3> QED
      BY <1>1, <1>2, <1>3, <2>1, <3>1, BuildControlAdds DEF GraphSoFar
  <2>2. CASE BuildCalls
    <3>1. pc' = "flow"
      BY <2>2 DEF BuildCalls
    <3> QED
      BY <1>1, <1>2, <1>3, <2>2, <3>1, BuildCallsAdds DEF GraphSoFar
  <2>3. CASE BuildFlow
    <3>1. pc = "flow" /\ pc' = "pointers"
      BY <2>3 DEF BuildFlow
    <3> QED
      BY <1>1, <1>2, <1>3, <2>3, <3>1, BuildFlowAdds DEF GraphSoFar
  <2>4. CASE BuildPointers
    <3>1. pc = "pointers" /\ pc' = "readInit"
      BY <2>4 DEF BuildPointers
    <3> QED
      BY <1>1, <1>2, <1>3, <2>4, <3>1, BuildPointersAdds DEF GraphSoFar
  <2>5. CASE CrashInCalls \/ CrashInPointers
    BY <1>1, <1>2, <2>5 DEF GraphSoFar, CrashInCalls, CrashInPointers
  <2> QED
    BY <1>1, <2>1, <2>2, <2>3, <2>4, <2>5 DEF Build
<1> QED
  BY <1>4, <1>5 DEF IInv

\* A step of the slicing pass leaves the graph alone.
LEMMA GraphStays ==
    ASSUME GraphSoFar, UNCHANGED <<prog, graph>>,
           pc \in {"readInit", "phase1", "phase2"}, pc' \in {"phase1", "phase2", "done"}
    PROVE  GraphSoFar'
BY SameProgram DEF GraphSoFar

\* Reading slice.conf.
LEMMA ReadInitKeeps == IInv /\ ReadInit => IInv'
<1> SUFFICES ASSUME IInv, ReadInit PROVE IInv'
  OBVIOUS
<1>1. /\ pc = "readInit" /\ pc' = "phase1"
      /\ criterion' \in Criteria /\ markedNodes' = criterion' /\ workSet' = criterion'
      /\ UNCHANGED <<prog, graph, functions, instructions>>
  BY DEF ReadInit, B!ReadInit
<1>2. criterion' \subseteq InstNodes
  BY <1>1, CriteriaAssumption
<1> QED
  BY <1>1, <1>2, GraphStays DEF IInv, MarksSoFar, ModuleSoFar

\* The marking phases.
LEMMA MarkPhaseKeeps == IInv /\ (MarkPhase1 \/ MarkPhase2) => IInv'
<1> SUFFICES ASSUME IInv, MarkPhase1 \/ MarkPhase2 PROVE IInv'
  OBVIOUS
<1>1. /\ workSet # {} /\ workSet' = {} /\ pc \in {"phase1", "phase2"}
      /\ UNCHANGED <<prog, graph, criterion, functions, instructions, pc>>
  BY DEF MarkPhase1, MarkPhase2, MarkPhase
<1>2. GraphSoFar /\ MarksSoFar /\ ModuleSoFar /\ IsGraph(graph, N)
  BY DEF IInv, GraphSoFar
<1>3. criterion \subseteq N /\ Phase1Slice \subseteq N
  BY <1>2, SeedsAreNodes
<1>4. Phase1Slice' = Phase1Slice /\ FullSlice' = FullSlice
  BY <1>1 DEF Phase1Slice, FullSlice
<1>5. CASE MarkPhase1
  <2>1. pc = "phase1" /\ MarkPhase(B!Mask1) /\ workSet = criterion
    BY <1>1, <1>2, <1>5 DEF MarkPhase1, MarksSoFar
  <2>2. markedNodes' = Phase1Slice
    BY <1>2, <1>3, <2>1, MarkPhaseReaches DEF Phase1Slice
  <2> QED
    BY <1>1, <1>2, <1>4, <2>1, <2>2, GraphStays DEF IInv, MarksSoFar, ModuleSoFar
<1>6. CASE MarkPhase2
  <2>1. pc = "phase2" /\ MarkPhase(B!Mask2) /\ workSet = Phase1Slice
    BY <1>1, <1>2, <1>6 DEF MarkPhase2, MarksSoFar
  <2>2. markedNodes' = FullSlice
    BY <1>2, <1>3, <2>1, MarkPhaseReaches DEF FullSlice
  <2> QED
    BY <1>1, <1>2, <1>4, <2>1, <2>2, GraphStays DEF IInv, MarksSoFar, ModuleSoFar
<1> QED
  BY <1>5, <1>6

\* The start of the second phase.
LEMMA StartPhase2Keeps == IInv /\ StartPhase2 => IInv'
<1> SUFFICES ASSUME IInv, StartPhase2 PROVE IInv'
  OBVIOUS
<1>1. /\ pc = "phase1" /\ workSet = {} /\ workSet' = markedNodes /\ pc' = "phase2"
      /\ UNCHANGED <<prog, graph, criterion, markedNodes, functions, instructions>>
  BY DEF StartPhase2, B!StartPhase2
<1>2. markedNodes = Phase1Slice
  BY <1>1, NothingReachesNothing DEF IInv, MarksSoFar, Phase1Slice
<1>3. Phase1Slice' = Phase1Slice
  BY <1>1 DEF Phase1Slice
<1> QED
  BY <1>1, <1>2, <1>3, GraphStays DEF IInv, MarksSoFar, ModuleSoFar

\* Cutting the module down to what is marked.
LEMMA SliceModuleKeeps == IInv /\ SliceModule => IInv'
<1> SUFFICES ASSUME IInv, SliceModule PROVE IInv'
  OBVIOUS
<1>1. /\ pc = "phase2" /\ workSet = {} /\ pc' = "done"
      /\ functions' = {f \in functions : f \in markedNodes}
      /\ instructions' = {i \in instructions : NodeParent[i] \in functions' /\ i \in markedNodes}
      /\ UNCHANGED <<prog, graph, criterion, markedNodes, workSet>>
  BY DEF SliceModule, B!SliceModule
<1>2. functions = EntryNodes /\ instructions = InstNodes
  BY <1>1 DEF IInv, ModuleSoFar
<1>3. markedNodes = FullSlice
  BY <1>1, NothingReachesNothing DEF IInv, MarksSoFar, FullSlice
<1>4. Phase1Slice' = Phase1Slice /\ FullSlice' = FullSlice
  BY <1>1 DEF Phase1Slice, FullSlice
<1>5. \A i \in InstNodes : NodeParent[i] = EntryNode(ParentOf(i[2])) /\ NodeParent[i] \in EntryNodes
  <2> SUFFICES ASSUME NEW i \in InstNodes
               PROVE  NodeParent[i] = EntryNode(ParentOf(i[2])) /\ NodeParent[i] \in EntryNodes
    OBVIOUS
  <2>1. i[2] \in Insts
    BY NodeNames DEF InstNodes
  <2> QED
    BY <2>1, InstPlace, NodesAreNodes DEF NodeParent
<1>6. ModuleSoFar'
  BY <1>1, <1>2, <1>5 DEF ModuleSoFar
<1> QED
  BY <1>1, <1>3, <1>4, <1>6, GraphStays DEF IInv, MarksSoFar

\* A step of something else.
LEMMA StutteringKeeps == IInv /\ UNCHANGED vars => IInv'
<1> SUFFICES ASSUME IInv, UNCHANGED vars PROVE IInv'
  OBVIOUS
<1>1. UNCHANGED <<prog, graph, pc, criterion, markedNodes, workSet, functions, instructions>>
  BY DEF vars, sliceVars
<1>2. Phase1Slice' = Phase1Slice /\ FullSlice' = FullSlice
  BY <1>1 DEF Phase1Slice, FullSlice
<1> QED
  BY <1>1, <1>2, SameProgram DEF IInv, GraphSoFar, MarksSoFar, ModuleSoFar

\* In every reachable state the graph is that of the steps done, the marks are what the
\* abstract phases reach, and the module is cut to them.
THEOREM Invariance == Spec => []IInv
<1>1. IInv /\ [Next]_vars => IInv'
  BY BuildKeeps, ReadInitKeeps, MarkPhaseKeeps, StartPhase2Keeps, SliceModuleKeeps,
     StutteringKeeps DEF Next
<1> QED
  BY <1>1, InitInvariant, PTL DEF Spec

\* No insert overwrites the edge of an earlier step, in any module: the pairs the four
\* steps insert are disjoint, but for the two kinds of flow edges.
THEOREM NoEdgeIsLost == Spec => NoEdgeLost
<1>1. ASSUME IInv, [Next]_vars
      PROVE  [/\ graph \subseteq graph'
              /\ pc' = "readInit" => IsGraph(graph', B!Node)]_vars
  <2>1. GraphSoFar /\ GraphSoFar'
    BY <1>1, BuildKeeps, ReadInitKeeps, MarkPhaseKeeps, StartPhase2Keeps, SliceModuleKeeps,
       StutteringKeeps DEF Next, IInv
  <2>2. pc' = "readInit" => IsGraph(graph', B!Node)
    BY <2>1 DEF GraphSoFar, N
  <2>3. CASE BuildSDG
    <3>1. CASE BuildControl
      BY <2>1, <3>1 DEF GraphSoFar, BuildControl
    <3>2. CASE BuildCalls
      BY <2>1, <3>2, BuildCallsAdds DEF GraphSoFar, BuildCalls
    <3>3. CASE BuildFlow
      BY <2>1, <3>3, BuildFlowAdds DEF GraphSoFar, BuildFlow
    <3>4. CASE BuildPointers
      <4>1. graph \subseteq graph'
        BY <2>1, <3>4, BuildPointersAdds DEF GraphSoFar, BuildPointers, SDGOfProgram
      <4> QED
        BY <2>2, <4>1
    <3>5. CASE CrashInCalls \/ CrashInPointers
      BY <3>5 DEF CrashInCalls, CrashInPointers
    <3> QED
      BY <2>2, <2>3, <3>1, <3>2, <3>3, <3>4, <3>5 DEF BuildSDG, Build
  <2>4. CASE ReadInit \/ MarkPhase1 \/ StartPhase2 \/ MarkPhase2 \/ SliceModule
    <3>1. graph' = graph
      BY <2>4 DEF ReadInit, B!ReadInit, MarkPhase1, MarkPhase2, MarkPhase, StartPhase2,
                  B!StartPhase2, SliceModule, B!SliceModule
    <3> QED
      BY <2>2, <3>1
  <2> QED
    BY <1>1, <2>3, <2>4 DEF Next
<1> QED
  BY <1>1, Invariance, PTL DEF Spec, NoEdgeLost

-----------------------------------------------------------------------------
(* What closed sets of nodes contain.                                          *)

\* A control pair is a control edge of the finished graph.
LEMMA ControlEdge ==
    ASSUME NEW f \in Functions, NEW p \in ControlPairs(f)
    PROVE  <<p[1], "control", p[2]>> \in SDGOfProgram
BY DEF SDGOfProgram, ControlGraph, Tag

\* A marked instruction brings the entry node of its function: up the control
\* dependence of its block, which ends at ENTRY when every block is rooted there.
LEMMA EntryReached ==
    ASSUME Rooted, NEW T, NEW mask, "control" \in mask, Closed(SDGOfProgram, T, mask),
           NEW i \in Insts, InstNode(i) \in T
    PROVE  EntryNode(ParentOf(i)) \in T
<1> DEFINE f == ParentOf(i)
           Touched == {b \in BlocksOf[f] : \E k \in DOMAIN InstsOf[b] : InstNode(InstsOf[b][k]) \in T}
<1>1. f \in Functions /\ BlockOf(i) \in Touched
  BY InstPlace
<1>2. PICK e \in BBGraph(f) : e[1] \notin Touched /\ e[2] \in Touched
  <2>1. Touched \in (SUBSET BlocksOf[f]) \ {{}}
    BY <1>1
  <2> HIDE DEF f, Touched
  <2> QED
    BY <1>1, <2>1 DEF Rooted
<1>3. PICK k \in DOMAIN InstsOf[e[2]] : InstNode(InstsOf[e[2]][k]) \in T
  BY <1>2
<1>4. ControlSource(f, e[1]) \in T
  <2> DEFINE p == <<ControlSource(f, e[1]), InstNode(InstsOf[e[2]][k])>>
  <2>1. p \in ControlPairs(f)
    BY <1>2, <1>3 DEF ControlPairs
  <2>2. <<p[1], "control", p[2]>> \in SDGOfProgram
    BY <1>1, <2>1, ControlEdge
  <2> QED
    BY <1>3, <2>2 DEF Closed
<1>5. e[1] = NULL
  <2> SUFFICES ASSUME e[1] # NULL PROVE FALSE
    OBVIOUS
  <2>1. e[1] \in BlocksOf[f]
    BY <1>1, BBGraphEdge
  <2>2. InstNode(Terminator(e[1])) \in T
    BY <1>4 DEF ControlSource
  <2>3. \E j \in DOMAIN InstsOf[e[1]] : Terminator(e[1]) = InstsOf[e[1]][j]
    BY <1>1, <2>1, TerminatorPlace
  <2> QED
    BY <1>2, <2>1, <2>2, <2>3
<1> QED
  BY <1>4, <1>5 DEF ControlSource

\* What the final state says of the marks and of the module.
LEMMA DoneFacts ==
    ASSUME IInv, pc = "done"
    PROVE  /\ graph = SDGOfProgram /\ IsGraph(graph, N) /\ prog \in Programs /\ GoodCalls
           /\ criterion \subseteq Phase1Slice /\ Phase1Slice \subseteq markedNodes
           /\ Closed(SDGOfProgram, Phase1Slice, B!Mask1)
           /\ Closed(SDGOfProgram, markedNodes, B!Mask2)
           /\ markedNodes = FullSlice
           /\ \A i \in Insts : Kept(i) => InstNode(i) \in markedNodes
           /\ \A f \in Functions : KeptFunction(f) <=> EntryNode(f) \in markedNodes
<1>1. /\ graph = SDGOfProgram /\ IsGraph(graph, N) /\ prog \in Programs /\ GoodCalls
      /\ markedNodes = FullSlice
  BY DEF IInv, GraphSoFar, MarksSoFar
<1>2. criterion \subseteq N /\ Phase1Slice \subseteq N
  BY SeedsAreNodes DEF IInv
<1>3. criterion \subseteq Phase1Slice /\ Closed(graph, Phase1Slice, B!Mask1)
  BY <1>1, <1>2, ReachingContains, ReachingClosed DEF Phase1Slice
<1>4. Phase1Slice \subseteq FullSlice /\ Closed(graph, FullSlice, B!Mask2)
  BY <1>1, <1>2, ReachingContains, ReachingClosed DEF FullSlice
<1>5. \A i \in Insts : Kept(i) => InstNode(i) \in markedNodes
  BY DEF IInv, ModuleSoFar, Kept
<1>6. \A f \in Functions : KeptFunction(f) <=> EntryNode(f) \in markedNodes
  BY NodesAreNodes DEF IInv, ModuleSoFar, KeptFunction
<1> QED
  BY <1>1, <1>3, <1>4, <1>5, <1>6

\* Every marked instruction is kept.
LEMMA MarkedIsKept ==
    ASSUME IInv, pc = "done", Rooted, NEW i \in Insts, InstNode(i) \in markedNodes
    PROVE  Kept(i)
<1>1. EntryNode(ParentOf(i)) \in markedNodes
  BY DoneFacts, EntryReached DEF B!Mask2
<1>2. InstNode(i) \in InstNodes /\ InstNode(i)[2] = i
  BY NodesAreNodes, NodeNames
<1> QED
  BY <1>1, <1>2 DEF IInv, ModuleSoFar, Kept

\* BackSlice.h:62 holds of every program whose blocks are all reached from ENTRY.
THEOREM MarkedStay == Spec => []MarkedAreKeptIfRooted
<1>1. IInv => MarkedAreKeptIfRooted
  <2> SUFFICES ASSUME IInv, pc = "done", Rooted, NEW x \in markedNodes \cap InstNodes
               PROVE  x \in instructions
    BY DEF MarkedAreKeptIfRooted
  <2>1. PICK i \in Insts : x = InstNode(i)
    BY DEF InstNodes
  <2> QED
    BY <2>1, MarkedIsKept DEF Kept
<1> QED
  BY <1>1, Invariance, PTL

\* What a set closed under the edges of the mask takes in: the source of every pair the
\* four steps inserted with an attribute of the mask.
LEMMA ClosedUnderPairs ==
    ASSUME NEW T, NEW mask, Closed(SDGOfProgram, T, mask)
    PROVE  /\ "control" \in mask =>
                 /\ \A f \in Functions : \A p \in ControlPairs(f) : p[2] \in T => p[1] \in T
                 /\ \A p \in CallerPairs : p[2] \in T => p[1] \in T
           /\ "flow" \in mask => \A p \in FlowPairs \cup PointerPairs : p[2] \in T => p[1] \in T
           /\ "call" \in mask => \A p \in CallPairs : p[2] \in T => p[1] \in T
           /\ "paramOut" \in mask => \A p \in ReturnPairs : p[2] \in T => p[1] \in T
<1>1. \A f \in Functions : \A p \in ControlPairs(f) : <<p[1], "control", p[2]>> \in SDGOfProgram
  BY ControlEdge
<1>2. /\ \A p \in CallerPairs : <<p[1], "control", p[2]>> \in SDGOfProgram
      /\ \A p \in FlowPairs \cup PointerPairs : <<p[1], "flow", p[2]>> \in SDGOfProgram
      /\ \A p \in CallPairs : <<p[1], "call", p[2]>> \in SDGOfProgram
      /\ \A p \in ReturnPairs : <<p[1], "paramOut", p[2]>> \in SDGOfProgram
  BY DEF SDGOfProgram, CallGraph, FlowGraph, MemoryGraph, Tag
<1> QED
  BY <1>1, <1>2 DEF Closed

\* Nothing a kept instruction takes its value from is missing: every use, every
\* controlling branch, every store that may be read and every return of a called
\* function is an edge of the second phase's mask, so the sources are marked, and what
\* is marked is kept.
THEOREM SourcesStay == Spec => []SourcesAreKept
<1>1. IInv => SourcesAreKept
  <2> SUFFICES ASSUME IInv, pc = "done", Rooted
               PROVE  SourcesAreKept
    BY DEF SourcesAreKept
  <2>1. /\ \A f \in Functions : \A p \in ControlPairs(f) : p[2] \in markedNodes => p[1] \in markedNodes
        /\ \A p \in FlowPairs \cup PointerPairs : p[2] \in markedNodes => p[1] \in markedNodes
        /\ \A p \in ReturnPairs : p[2] \in markedNodes => p[1] \in markedNodes
    BY DoneFacts, ClosedUnderPairs DEF B!Mask2
  <2>2. /\ \A i \in Insts : Kept(i) <=> InstNode(i) \in markedNodes
        /\ \A f \in Functions : KeptFunction(f) <=> EntryNode(f) \in markedNodes
    BY DoneFacts, MarkedIsKept
  <2>3. WellFormed(prog) /\ Rets \cup Loads \cup Stores \cup Calls \subseteq Insts
    BY DoneFacts, ProgramsAssumption, PlacesAssumption
  <2>4. ASSUME NEW u \in prog.uses, Kept(u[2]), u[1] \in Insts
        PROVE  Kept(u[1])
    <3> DEFINE p == <<ValueNode(u[1]), InstNode(u[2])>>
    <3>1. p \in FlowPairs
      BY <2>4 DEF FlowPairs
    <3>2. u[2] \in Insts
      BY <2>3 DEF WellFormed
    <3> QED
      BY <2>1, <2>2, <2>4, <3>1, <3>2 DEF ValueNode
  <2>5. ASSUME NEW f \in Functions, NEW e \in BBGraph(f), NEW k \in DOMAIN InstsOf[e[2]],
               Kept(InstsOf[e[2]][k]), e[1] # NULL
        PROVE  Kept(Terminator(e[1]))
    <3> DEFINE p == <<ControlSource(f, e[1]), InstNode(InstsOf[e[2]][k])>>
    <3>1. p \in ControlPairs(f)
      BY DEF ControlPairs
    <3>2. e[2] \in BlocksOf[f] /\ e[1] \in BlocksOf[f]
      BY <2>5, BBGraphEdge
    <3>3. InstsOf[e[2]][k] \in Insts /\ Terminator(e[1]) \in Insts
      BY <3>2, PlaceOf, TerminatorPlace
    <3>4. InstNode(Terminator(e[1])) \in markedNodes
      BY <2>1, <2>2, <2>5, <3>1, <3>3 DEF ControlSource
    <3> QED
      BY <2>2, <3>3, <3>4
  <2>6. ASSUME NEW l \in Loads, NEW s \in Stores, Kept(l),
               prog.address[l] \in AliasSetOf(prog.address[s])
        PROVE  Kept(s)
    <3>1. <<prog.address[l], s>> \in DefNodeMap
      BY <2>6 DEF DefNodeMap
    <3>2. <<prog.address[l], l>> \in prog.uses
      BY <2>3 DEF WellFormed
    <3>3. <<InstNode(s), InstNode(l)>> \in PointerPairs
      <4> DEFINE q == <<s, l>>
                 d == <<prog.address[l], s>>
      <4>1. q \in Stores \X Loads /\ d[2] = q[1] /\ <<d[1], q[2]>> \in prog.uses
        BY <3>2
      <4>2. q \in {x \in Stores \X Loads :
                     \E y \in DefNodeMap : y[2] = x[1] /\ <<y[1], x[2]>> \in prog.uses}
        BY <3>1, <4>1
      <4> QED
        BY <4>2 DEF PointerPairs
    <3> QED
      BY <2>1, <2>2, <2>3, <2>6, <3>3
  <2>7. ASSUME NEW ci \in KnownCalls, Kept(ci)
        PROVE  /\ KeptFunction(Callee(ci))
               /\ \A r \in Rets : ParentOf(r) = Callee(ci) => Kept(r)
    <3>1. ci \in Calls /\ ci \in Insts /\ Callee(ci) \in Functions
      BY <2>3 DEF KnownCalls, Callee
    <3>2. CallerOutput(ci) \in markedNodes
      <4>1. <<CallerOutput(ci), InstNode(ci)>> \in FlowPairs
        BY <3>1 DEF FlowPairs
      <4> QED
        BY <2>1, <2>2, <2>7, <3>1, <4>1
    <3>3. CalleeOutput(Callee(ci)) \in markedNodes
      <4>1. <<CalleeOutput(Callee(ci)), CallerOutput(ci)>> \in ReturnPairs
        BY DEF ReturnPairs, Callee
      <4> QED
        BY <2>1, <3>2, <4>1
    <3>4. EntryNode(Callee(ci)) \in markedNodes
      <4>1. <<EntryNode(Callee(ci)), CalleeOutput(Callee(ci))>> \in ControlPairs(Callee(ci))
        BY DEF ControlPairs
      <4> QED
        BY <2>1, <3>1, <3>3, <4>1
    <3>5. ASSUME NEW r \in Rets, ParentOf(r) = Callee(ci)
          PROVE  Kept(r)
      <4>1. <<InstNode(r), CalleeOutput(Callee(ci))>> \in FlowPairs
        BY <3>5 DEF FlowPairs
      <4> QED
        BY <2>1, <2>2, <2>3, <3>3, <4>1
    <3> QED
      BY <2>2, <3>1, <3>4, <3>5
  <2> QED
    BY <2>4, <2>5, <2>6, <2>7 DEF SourcesAreKept
<1> QED
  BY <1>1, Invariance, PTL

-----------------------------------------------------------------------------
(* Which functions a slice enters.                                              *)

\* The function a node belongs to: that of its instruction or call, the function
\* itself, or the one with the argument.
Home(n, f) ==
    \/ n[1] \in {"instNodeMap", "callerInputNodeMap", "callerOutputNodeMap"} /\ ParentOf(n[2]) = f
    \/ n[1] \in {"entryNodeMap", "calleeOutputNodeMap"} /\ n[2] = f
    \/ n[1] = "calleeInputNodeMap" /\ \E k \in DOMAIN Formals[f] : n[2] = Formals[f][k]

Inside(T) == {n \in N : \E f \in T : Home(n, f)}

\* It is one function.
LEMMA OneHome ==
    ASSUME NEW n, NEW f \in Functions, NEW g \in Functions, Home(n, f), Home(n, g)
    PROVE  f = g
<1>1. CASE n[1] = "calleeInputNodeMap"
  BY <1>1, PlacesAssumption DEF Home
<1>2. CASE n[1] # "calleeInputNodeMap"
  BY <1>2 DEF Home
<1> QED
  BY <1>1, <1>2

\* The homes of the nodes the program's parts have.
LEMMA Homes ==
    /\ \A i : Home(InstNode(i), ParentOf(i))
    /\ \A f : Home(EntryNode(f), f) /\ Home(CalleeOutput(f), f)
    /\ \A f : \A k \in DOMAIN Formals[f] : Home(CalleeInput(Formals[f][k]), f)
    /\ \A ci : Home(CallerOutput(ci), ParentOf(ci))
BY NodeNames DEF Home

\* The control dependence of a function stays in it.
LEMMA ControlStays ==
    ASSUME NEW f \in Functions, NEW p \in ControlPairs(f)
    PROVE  Home(p[1], f) /\ Home(p[2], f)
<1>1. ASSUME NEW e \in BBGraph(f), NEW k \in DOMAIN InstsOf[e[2]],
             p = <<ControlSource(f, e[1]), InstNode(InstsOf[e[2]][k])>>
      PROVE  Home(p[1], f) /\ Home(p[2], f)
  <2>1. e[2] \in BlocksOf[f] /\ (e[1] = NULL \/ (e[1] # NULL /\ e[1] \in BlocksOf[f]))
    BY BBGraphEdge
  <2>2. ParentOf(InstsOf[e[2]][k]) = f
    BY <2>1, PlaceOf
  <2>3. ASSUME e[1] # NULL
        PROVE  ParentOf(Terminator(e[1])) = f
    BY <2>1, <2>3, TerminatorPlace, PlaceOf
  <2> QED
    BY <1>1, <2>2, <2>3, Homes DEF ControlSource
<1>2. \/ \E e \in BBGraph(f) : \E k \in DOMAIN InstsOf[e[2]] :
            p = <<ControlSource(f, e[1]), InstNode(InstsOf[e[2]][k])>>
      \/ \E k \in DOMAIN Formals[f] : p = <<EntryNode(f), CalleeInput(Formals[f][k])>>
      \/ p = <<EntryNode(f), CalleeOutput(f)>>
  BY DEF ControlPairs
<1> QED
  BY <1>1, <1>2, Homes

\* A value flows within its function.
LEMMA FlowStays ==
    ASSUME prog \in Programs, NEW p \in FlowPairs
    PROVE  \E f \in Functions : Home(p[1], f) /\ Home(p[2], f)
<1>1. ASSUME NEW u \in prog.uses, u[1] \in Insts \cup Arguments, p = <<ValueNode(u[1]), InstNode(u[2])>>
      PROVE  \E f \in Functions : Home(p[1], f) /\ Home(p[2], f)
  <2>1. u[2] \in Insts /\ ParentOf(u[2]) \in Functions
    BY ProgramsAssumption, InstPlace DEF WellFormed
  <2>2. \/ u[1] \in Insts /\ ParentOf(u[1]) = ParentOf(u[2])
        \/ u[1] \notin Insts /\ \E k \in DOMAIN Formals[ParentOf(u[2])] : u[1] = Formals[ParentOf(u[2])][k]
    BY <1>1, ProgramsAssumption DEF WellFormed
  <2>3. Home(ValueNode(u[1]), ParentOf(u[2]))
    BY <2>2, Homes DEF ValueNode
  <2> QED
    BY <1>1, <2>1, <2>3, Homes
<1>2. ASSUME NEW r \in Rets, p = <<InstNode(r), CalleeOutput(ParentOf(r))>>
      PROVE  \E f \in Functions : Home(p[1], f) /\ Home(p[2], f)
  BY <1>2, PlacesAssumption, InstPlace, Homes
<1>3. ASSUME NEW ci \in Calls, p = <<CallerOutput(ci), InstNode(ci)>>
      PROVE  \E f \in Functions : Home(p[1], f) /\ Home(p[2], f)
  BY <1>3, PlacesAssumption, InstPlace, Homes
<1>4. \/ \E u \in prog.uses : u[1] \in Insts \cup Arguments /\ p = <<ValueNode(u[1]), InstNode(u[2])>>
      \/ \E r \in Rets : p = <<InstNode(r), CalleeOutput(ParentOf(r))>>
      \/ \E ci \in Calls : p = <<CallerOutput(ci), InstNode(ci)>>
  BY DEF FlowPairs
<1> QED
  BY <1>1, <1>2, <1>3, <1>4

\* An edge stays in a function, or joins a call and the called function.
LEMMA EdgeHomes ==
    ASSUME prog \in Programs, GoodCalls, LocalMemory, NEW e \in SDGOfProgram
    PROVE  \/ /\ e[2] \in {"control", "flow"}
              /\ \E f \in Functions : Home(e[1], f) /\ Home(e[3], f)
           \/ /\ e[2] \in {"call", "paramIn"}
              /\ \E ci \in KnownCalls : Home(e[1], ParentOf(ci)) /\ Home(e[3], Callee(ci))
           \/ /\ e[2] = "paramOut"
              /\ \E ci \in KnownCalls : Home(e[1], Callee(ci)) /\ e[3] = CallerOutput(ci)
<1> DEFINE Stays == \E f \in Functions : Home(e[1], f) /\ Home(e[3], f)
<1>1. CASE e \in ControlGraph
  <2>1. PICK p \in AllControlPairs : e[1] = p[1] /\ e[2] = "control" /\ e[3] = p[2]
    BY <1>1, AllNodePairs, TaggedEdge DEF ControlGraph, AllControlPairs
  <2>2. PICK f \in Functions : p \in ControlPairs(f)
    BY DEF AllControlPairs
  <2> QED
    BY <2>1, <2>2, ControlStays
<1>2. CASE e \in Tag(CallPairs, "call")
  <2>1. PICK p \in CallPairs : e[1] = p[1] /\ e[2] = "call" /\ e[3] = p[2]
    BY <1>2, CallPairsKind, TaggedEdge
  <2>2. PICK ci \in KnownCalls : p = <<InstNode(ci), EntryNode(Callee(ci))>>
    BY DEF CallPairs, Callee
  <2>3. Home(e[1], ParentOf(ci)) /\ Home(e[3], Callee(ci))
    BY <2>1, <2>2, Homes
  <2> QED
    BY <2>1, <2>3
<1>3. CASE e \in Tag(CallerPairs, "control")
  <2>1. PICK p \in CallerPairs : e[1] = p[1] /\ e[2] = "control" /\ e[3] = p[2]
    BY <1>3, CallerPairsKind, TaggedEdge
  <2>2. /\ p[1][1] = "instNodeMap" /\ p[1][2] \in KnownCalls /\ p[2][2] = p[1][2]
        /\ p[2][1] \in {"callerInputNodeMap", "callerOutputNodeMap"}
    BY CallerPairsKind
  <2>3. ParentOf(p[1][2]) \in Functions
    BY <2>2, PlacesAssumption, InstPlace DEF KnownCalls
  <2> QED
    BY <2>1, <2>2, <2>3 DEF Home
<1>4. CASE e \in Tag(AllActualPairs, "paramIn")
  <2>1. PICK p \in AllActualPairs : e[1] = p[1] /\ e[2] = "paramIn" /\ e[3] = p[2]
    BY <1>4, AllNodePairs, TaggedEdge
  <2>2. PICK ci \in KnownCalls : p \in ActualPairs(ci)
    BY DEF AllActualPairs
  <2>3. Home(e[1], ParentOf(ci)) /\ Home(e[3], Callee(ci))
    BY <2>1, <2>2, ActualPairsKind DEF Home, Callee
  <2> QED
    BY <2>1, <2>3
<1>5. CASE e \in Tag(ReturnPairs, "paramOut")
  <2>1. PICK p \in ReturnPairs : e[1] = p[1] /\ e[2] = "paramOut" /\ e[3] = p[2]
    BY <1>5, ReturnPairsKind, TaggedEdge
  <2>2. PICK ci \in KnownCalls : p = <<CalleeOutput(Callee(ci)), CallerOutput(ci)>>
    BY DEF ReturnPairs, Callee
  <2>3. Home(e[1], Callee(ci)) /\ e[3] = CallerOutput(ci)
    BY <2>1, <2>2, Homes
  <2> QED
    BY <2>1, <2>3
<1>6. CASE e \in FlowGraph
  <2>1. PICK p \in FlowPairs : e[1] = p[1] /\ e[2] = "flow" /\ e[3] = p[2]
    BY <1>6, FlowPairsKind, TaggedEdge DEF FlowGraph
  <2> QED
    BY <2>1, FlowStays
<1>7. CASE e \in MemoryGraph
  <2>1. PICK p \in PointerPairs : e[1] = p[1] /\ e[2] = "flow" /\ e[3] = p[2]
    BY <1>7, PointerPairsKind, TaggedEdge DEF MemoryGraph
  <2>2. PICK s \in Stores, l \in Loads : p = <<InstNode(s), InstNode(l)>>
    BY DEF PointerPairs
  <2>3. ParentOf(s) = ParentOf(l) /\ ParentOf(s) \in Functions
    BY <2>2, NodeNames, PlacesAssumption, InstPlace DEF LocalMemory
  <2> QED
    BY <2>1, <2>2, <2>3, Homes
<1> QED
  BY <1>1, <1>2, <1>3, <1>4, <1>5, <1>6, <1>7 DEF SDGOfProgram, CallGraph, AllActualPairs

\* The least set of functions that ascends does ascend.
LEMMA AscendedAscends ==
    ASSUME IInv
    PROVE  Ascends(Ascended)
<1>1. \A n \in criterion : n[2] \in Insts
  BY NodeNames DEF IInv, MarksSoFar, InstNodes
<1>2. \A n \in criterion : ParentOf(n[2]) \in Ascended
  BY <1>1, InstPlace DEF Ascends, Ascended
<1>3. ASSUME NEW ci \in KnownCalls, Callee(ci) \in Ascended
      PROVE  ParentOf(ci) \in Ascended
  <2>1. ParentOf(ci) \in Functions
    BY PlacesAssumption, InstPlace DEF KnownCalls
  <2> QED
    BY <1>3, <2>1 DEF Ascends, Ascended
<1> QED
  BY <1>2, <1>3 DEF Ascends

\* The first phase enters every function that leads to the criterion, at its entry.
LEMMA AscendedAreEntered ==
    ASSUME IInv, pc = "done", Rooted, NEW f \in Ascended
    PROVE  EntryNode(f) \in Phase1Slice
<1> DEFINE A == {g \in Functions : EntryNode(g) \in Phase1Slice}
<1>1. \A i \in Insts : InstNode(i) \in Phase1Slice => ParentOf(i) \in A
  BY DoneFacts, EntryReached, InstPlace DEF B!Mask1
<1>2. \A n \in criterion : ParentOf(n[2]) \in A
  <2> SUFFICES ASSUME NEW n \in criterion PROVE ParentOf(n[2]) \in A
    OBVIOUS
  <2>1. PICK i \in Insts : n = InstNode(i)
    BY DEF IInv, MarksSoFar, InstNodes
  <2> QED
    BY <1>1, <2>1, DoneFacts, NodeNames
<1>3. ASSUME NEW ci \in KnownCalls, Callee(ci) \in A
      PROVE  ParentOf(ci) \in A
  <2>1. <<InstNode(ci), EntryNode(Callee(ci))>> \in CallPairs
    BY DEF CallPairs, Callee
  <2>2. InstNode(ci) \in Phase1Slice
    BY <1>3, <2>1, DoneFacts, ClosedUnderPairs DEF B!Mask1
  <2> QED
    BY <1>1, <2>2, PlacesAssumption DEF KnownCalls
<1>4. Ascends(A) /\ A \in SUBSET Functions
  BY <1>2, <1>3 DEF Ascends
<1> HIDE DEF A
<1>5. f \in A
  BY <1>4 DEF Ascended
<1> QED
  BY <1>5 DEF A

\* ... and no other.
LEMMA Phase1Ascends ==
    ASSUME IInv, pc = "done", LocalMemory
    PROVE  Phase1Slice \subseteq Inside(Ascended)
<1> DEFINE D == Inside(Ascended)
<1>1. Ascends(Ascended) /\ Ascended \subseteq Functions
  BY AscendedAscends DEF Ascended
<1>2. criterion \subseteq D
  <2> SUFFICES ASSUME NEW n \in criterion PROVE n \in D
    OBVIOUS
  <2>1. n \in InstNodes
    BY DEF IInv, MarksSoFar
  <2>2. n \in N /\ Home(n, ParentOf(n[2]))
    BY <2>1, NodesAreNodes, NodeNames DEF InstNodes, Home
  <2>3. ParentOf(n[2]) \in Ascended
    BY <1>1 DEF Ascends
  <2> QED
    BY <2>2, <2>3 DEF Inside
<1>3. Closed(graph, D, B!Mask1)
  <2> SUFFICES ASSUME NEW e \in graph, e[2] \in B!Mask1, e[3] \in D
               PROVE  e[1] \in D
    BY DEF Closed
  <2>1. e \in SDGOfProgram /\ e[1] \in N /\ prog \in Programs /\ GoodCalls
    BY DoneFacts DEF IsGraph
  <2>2. PICK h \in Ascended : Home(e[3], h)
    BY DEF Inside
  <2>3. ASSUME NEW f \in Functions, Home(e[1], f), Home(e[3], f)
        PROVE  e[1] \in D
    <3>1. f = h
      BY <1>1, <2>2, <2>3, OneHome
    <3> QED
      BY <2>1, <2>3, <3>1 DEF Inside
  <2>4. ASSUME NEW ci \in KnownCalls, Home(e[1], ParentOf(ci)), Home(e[3], Callee(ci))
        PROVE  e[1] \in D
    <3>1. Callee(ci) \in Functions
      BY DEF KnownCalls, Callee
    <3>2. Callee(ci) = h
      BY <1>1, <2>2, <2>4, <3>1, OneHome
    <3>3. ParentOf(ci) \in Ascended
      BY <1>1, <3>2 DEF Ascends
    <3> QED
      BY <2>1, <2>4, <3>3 DEF Inside
  <2>5. e[2] # "paramOut"
    BY DEF B!Mask1
  <2> QED
    BY <2>1, <2>3, <2>4, <2>5, EdgeHomes
<1>4. D \in SUBSET N
  BY DEF Inside
<1> HIDE DEF D
<1>5. Phase1Slice \subseteq D
  BY <1>2, <1>3, <1>4, ReachingLeast DEF Phase1Slice
<1> QED
  BY <1>5 DEF D

\* The second phase enters a further function only through a call it marked.
LEMMA Phase2Descends ==
    ASSUME IInv, pc = "done", LocalMemory, NEW f \in Functions, f \notin Ascended,
           EntryNode(f) \in markedNodes
    PROVE  \E ci \in KnownCalls : Callee(ci) = f /\ InstNode(ci) \in markedNodes
<1> DEFINE Called == {g \in Functions : \E ci \in KnownCalls : Callee(ci) = g /\ InstNode(ci) \in FullSlice}
           R == Ascended \cup Called
           D == FullSlice \cap Inside(R)
<1>1. /\ graph = SDGOfProgram /\ IsGraph(graph, N) /\ prog \in Programs /\ GoodCalls
      /\ markedNodes = FullSlice /\ Phase1Slice \subseteq FullSlice
      /\ Closed(SDGOfProgram, FullSlice, B!Mask2)
  BY DoneFacts
<1>2. R \subseteq Functions
  BY DEF Ascended
<1>3. Phase1Slice \subseteq D
  BY <1>1, Phase1Ascends DEF Inside
<1>4. Closed(graph, D, B!Mask2)
  <2> SUFFICES ASSUME NEW e \in graph, e[2] \in B!Mask2, e[3] \in FullSlice, e[3] \in Inside(R)
               PROVE  e[1] \in FullSlice /\ e[1] \in Inside(R)
    BY DEF Closed
  <2>1. e \in SDGOfProgram /\ e[1] \in N /\ e[1] \in FullSlice
    BY <1>1 DEF Closed, IsGraph
  <2>2. PICK h \in R : Home(e[3], h)
    BY DEF Inside
  <2>3. ASSUME NEW g \in Functions, Home(e[1], g), Home(e[3], g)
        PROVE  e[1] \in Inside(R)
    <3>1. g = h
      BY <1>2, <2>2, <2>3, OneHome
    <3> QED
      BY <2>1, <2>3, <3>1 DEF Inside
  <2>4. ASSUME NEW ci \in KnownCalls, Home(e[1], Callee(ci)), e[3] = CallerOutput(ci)
        PROVE  e[1] \in Inside(R)
    <3>1. <<InstNode(ci), CallerOutput(ci)>> \in CallerPairs
      BY DEF CallerPairs
    <3>2. InstNode(ci) \in FullSlice
      BY <1>1, <2>4, <3>1, ClosedUnderPairs DEF B!Mask2
    <3>3. Callee(ci) \in Called
      BY <3>2 DEF KnownCalls, Callee
    <3> QED
      BY <2>1, <2>4, <3>3 DEF Inside
  <2>5. e[2] \notin {"call", "paramIn"}
    BY DEF B!Mask2
  <2> HIDE DEF R
  <2> QED
    BY <1>1, <2>1, <2>3, <2>4, <2>5, EdgeHomes
<1>5. D \in SUBSET N
  BY DEF Inside
<1> HIDE DEF D
<1>6. FullSlice \subseteq D
  BY <1>3, <1>4, <1>5, ReachingLeast DEF FullSlice
<1>7. PICK g \in R : Home(EntryNode(f), g)
  BY <1>1, <1>6 DEF D, Inside
<1>8. g = f
  BY <1>2, <1>7, Homes, OneHome
<1>9. f \in Called
  BY <1>7, <1>8
<1> QED
  BY <1>1, <1>9

\* The slice is entered as the program is: a path of calls that leads to the criterion
\* is kept whole, and without memory that ties functions together a function is kept
\* for nothing but such a path or a call that is kept.
THEOREM SliceIsEntered == Spec => []CallsAreKept
<1>1. IInv => CallsAreKept
  <2> SUFFICES ASSUME IInv, pc = "done", Rooted
               PROVE  CallsAreKept
    BY DEF CallsAreKept
  <2>1. ASSUME NEW ci \in KnownCalls, Callee(ci) \in Ascended
        PROVE  Kept(ci)
    <3>1. EntryNode(Callee(ci)) \in Phase1Slice
      BY <2>1, AscendedAreEntered
    <3>2. <<InstNode(ci), EntryNode(Callee(ci))>> \in CallPairs
      BY DEF CallPairs, Callee
    <3>3. InstNode(ci) \in Phase1Slice
      BY <3>1, <3>2, DoneFacts, ClosedUnderPairs DEF B!Mask1
    <3>4. InstNode(ci) \in markedNodes /\ ci \in Insts
      BY <3>3, DoneFacts, PlacesAssumption DEF KnownCalls
    <3> QED
      BY <3>4, MarkedIsKept
  <2>2. ASSUME LocalMemory, NEW f \in Functions, KeptFunction(f), f \notin Ascended
        PROVE  \E ci \in KnownCalls : Callee(ci) = f /\ Kept(ci)
    <3>1. EntryNode(f) \in markedNodes
      BY <2>2, DoneFacts
    <3>2. PICK ci \in KnownCalls : Callee(ci) = f /\ InstNode(ci) \in markedNodes
      BY <2>2, <3>1, Phase2Descends
    <3> QED
      BY <3>2, MarkedIsKept, PlacesAssumption DEF KnownCalls
  <2> QED
    BY <2>1, <2>2 DEF CallsAreKept
<1> QED
  BY <1>1, Invariance, PTL
=============================================================================
