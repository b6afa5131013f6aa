---------------------------------- MODULE CDG ----------------------------------
(* CDG.cpp: control dependence between the basic blocks of a function, found by  *)
(* climbing the post-dominator tree from each successor of each block.  The pass *)
(* runs on one function after the other and never clears _bbGraph.               *)
EXTENDS PostDominance, Sequences, Integers

CONSTANTS
    Functions,   \* the functions with a body, in module order
    BlocksOf,    \* the blocks of a function in order, its entry block first
    CFGs         \* the control-flow graphs the functions may have together

VARIABLES
    cfg,       \* the control-flow edges of all functions
    pdt,       \* PDT: the post-dominator tree of the function
    fn,        \* position in Functions of the function the pass runs on
    bi,        \* position in BlocksOf[fn] of the block B of the first loop
    todo,      \* the successors of B the inner loop has not taken
    n, nNode,  \* N and NNode of the while loop
    bbGraph,   \* _bbGraph: <<A, B>> when B depends on A
    pc

Range1(s) == {s[k] : k \in DOMAIN s}
Blocks(f) == Range1(BlocksOf[f])
AllBlocks == UNION {Blocks(f) : f \in Range1(Functions)}

\* A module as LLVM's verifier accepts it: a function with a body has an entry block,
\* a block is in one function, and nothing branches to an entry block.
ASSUME FunctionsAssumption ==
    /\ Functions \in Seq(Range1(Functions)) /\ Functions # <<>>
    /\ \A f \in Range1(Functions) : BlocksOf[f] \in Seq(Blocks(f)) /\ BlocksOf[f] # <<>>
    /\ \A j, k \in DOMAIN Functions :
          j # k => Blocks(Functions[j]) \cap Blocks(Functions[k]) = {}
ASSUME NamesAssumption ==
    NULL \notin AllBlocks /\ VirtualRoot \notin AllBlocks /\ NULL # VirtualRoot
ASSUME EntryAssumption ==
    \A c \in CFGs : \A e \in c : \A f \in Range1(Functions) : e[2] # BlocksOf[f][1]

vars == <<cfg, pdt, fn, bi, todo, n, nNode, bbGraph, pc>>

F == Functions[fn]
CFGOf(f) == cfg \cap (Blocks(f) \X Blocks(f))
Block == BlocksOf[F][bi]
\* PDT.getNode (the mutant finds the virtual root for a block without a node).
NodeOrRoot(b) == IF pdt.node[b] = NULL THEN VirtualRoot ELSE pdt.node[b]
Node(b) == pdt.node[b]
IDom(m) == pdt.idom[m]

Init ==
    /\ cfg \in CFGs
    /\ pdt = PostDominatorTree(Blocks(Functions[1]), CFGOf(Functions[1]))
    /\ fn = 1
    /\ bi = 1
    /\ todo = Succs(CFGOf(Functions[1]), BlocksOf[Functions[1]][1])
    /\ n = NULL /\ nNode = NULL
    /\ bbGraph = {}
    /\ pc = "succ"

\* The inner for loop takes a successor N of B; their order is the terminator's.
TakeSuccessor ==
    /\ pc = "succ"
    /\ \E s \in todo :
          /\ n' = s
          /\ nNode' = Node(s)
          /\ todo' = todo \ {s}
    /\ pc' = "climb"
    /\ UNCHANGED <<cfg, pdt, fn, bi, bbGraph>>

\* The outer for loop goes on to the next block.
NextBlock ==
    /\ pc = "succ"
    /\ todo = {}
    /\ IF bi < Len(BlocksOf[F])
       THEN /\ bi' = bi + 1
            /\ todo' = Succs(CFGOf(F), BlocksOf[F][bi + 1])
            /\ UNCHANGED pc
       ELSE pc' = "entries" /\ UNCHANGED <<bi, todo>>
    /\ UNCHANGED <<cfg, pdt, fn, n, nNode, bbGraph>>

\* The loop's test calls getIDom on the node of B, its body on NNode: either may be
\* a null pointer, for a block that reaches no exit.
NullDereference ==
    /\ pc = "climb"
    /\ \/ Node(Block) = NULL
       \/ Node(Block) # NULL /\ nNode = NULL /\ IDom(Node(Block)) # NULL
    /\ bbGraph' = IF Node(Block) = NULL THEN bbGraph ELSE bbGraph \cup {<<Block, n>>}
    /\ pc' = "crash"
    /\ UNCHANGED <<cfg, pdt, fn, bi, todo, n, nNode>>

\* The while loop ends at the immediate post-dominator of B.
StopClimbing ==
    /\ pc = "climb"
    /\ Node(Block) # NULL
    /\ IDom(Node(Block)) = nNode
    /\ pc' = "succ"
    /\ UNCHANGED <<cfg, pdt, fn, bi, todo, n, nNode, bbGraph>>

\* One turn of the while loop: B controls N; go up one node, or leave at the root.
\* The mutants climb first, never climb, and climb past the immediate
\* post-dominator of B.
ClimbFirst ==
    /\ pc = "climb"
    /\ Node(Block) # NULL /\ nNode # NULL
    /\ IDom(Node(Block)) # nNode
    /\ nNode' = IDom(nNode)
    /\ IF nNode' = NULL
       THEN pc' = "succ" /\ UNCHANGED <<n, bbGraph>>
       ELSE /\ n' = GetBlock(nNode')
            /\ bbGraph' = bbGraph \cup {<<Block, n'>>}
            /\ UNCHANGED pc
    /\ UNCHANGED <<cfg, pdt, fn, bi, todo>>
ClimbNowhere ==
    /\ pc = "climb"
    /\ Node(Block) # NULL /\ nNode # NULL
    /\ IDom(Node(Block)) # nNode
    /\ bbGraph' = bbGraph \cup {<<Block, n>>}
    /\ UNCHANGED <<cfg, pdt, fn, bi, todo, n, nNode, pc>>
ClimbToRoot ==
    /\ pc = "climb"
    /\ nNode # NULL
    /\ bbGraph' = bbGraph \cup {<<Block, n>>}
    /\ nNode' = IDom(nNode)
    /\ IF nNode' = NULL
       THEN pc' = "succ" /\ UNCHANGED n
       ELSE n' = GetBlock(nNode') /\ UNCHANGED pc
    /\ UNCHANGED <<cfg, pdt, fn, bi, todo>>
Climb ==
    /\ pc = "climb"
    /\ Node(Block) # NULL /\ nNode # NULL
    /\ IDom(Node(Block)) # nNode
    /\ bbGraph' = bbGraph \cup {<<Block, n>>}
    /\ nNode' = IDom(nNode)
    /\ IF nNode' = NULL
       THEN pc' = "succ" /\ UNCHANGED n
       ELSE n' = GetBlock(nNode') /\ UNCHANGED pc
    /\ UNCHANGED <<cfg, pdt, fn, bi, todo>>

\* The second loop over the blocks of the function: ENTRY (the null block) controls
\* those that nothing controls.  Then the pass is asked for the next function. 
EntryEdges(g) ==
    {<<NULL, b>> : b \in {c \in Blocks(F) : \A e \in g : e[2] # c}}

AddEntries ==
    /\ pc = "entries"
    /\ bbGraph' = bbGraph \cup EntryEdges(bbGraph)
    /\ IF fn < Len(Functions)
       THEN /\ fn' = fn + 1
            /\ bi' = 1
            /\ LET g == Functions[fn + 1]
               IN  /\ pdt' = PostDominatorTree(Blocks(g), CFGOf(g))
                   /\ todo' = Succs(CFGOf(g), BlocksOf[g][1])
            /\ pc' = "succ"
       ELSE pc' = "done" /\ UNCHANGED <<pdt, fn, bi, todo>>
    /\ UNCHANGED <<cfg, n, nNode>>

Next ==
    \/ TakeSuccessor
    \/ NextBlock
    \/ NullDereference
    \/ StopClimbing
    \/ Climb
    \/ AddEntries

Spec == Init /\ [][Next]_vars

\* One thread of straight-line code: it always takes its next step.
FairSpec == Spec /\ WF_vars(Next)

-----------------------------------------------------------------------------
(* Properties.                                                                   *)

\* Every variable keeps its shape: a control dependence is never recorded on the
\* virtual root, which has no block.
TypeOK ==
    /\ fn \in DOMAIN Functions
    /\ bi \in DOMAIN BlocksOf[F]
    /\ todo \subseteq Blocks(F)
    /\ n \in AllBlocks \cup {NULL}
    /\ nNode \in AllBlocks \cup {NULL, VirtualRoot}
    /\ bbGraph \subseteq (AllBlocks \cup {NULL}) \X AllBlocks
    /\ pc \in {"succ", "climb", "entries", "crash", "done"}

\* When the pass is through, the edges between the blocks of each function are
\* exactly its control dependence, and ENTRY controls exactly the blocks without
\* one: the climb neither stops early nor passes the immediate post-dominator, with
\* loops, several exits and functions that came before.  The block a function starts
\* with is one of those, so that SDG.cpp finds an entry node with a function in it
\* (the assertion at SDG.cpp:129 and BackSlice.cpp:63), whatever loops follow it.
Dependence(f) == ControlDependence(Blocks(f), CFGOf(f))
Complete ==
    pc = "done" =>
        /\ bbGraph = UNION {Dependence(f) \cup
                               {<<NULL, b>> : b \in {c \in Blocks(f) :
                                   \A s \in Blocks(f) : <<s, c>> \notin Dependence(f)}} :
                            f \in Range1(Functions)}
        /\ \A f \in Range1(Functions) : <<NULL, BlocksOf[f][1]>> \in bbGraph

\* The pass ends for every control-flow graph; it dereferences a null pointer if and
\* only if some block with successors, or a successor of one, reaches no exit.
Terminates == <>(pc \in {"done", "crash"})
Crashing ==
    \E f \in Range1(Functions) :
        \E e \in CFGOf(f) : ~ReachesExit(Blocks(f), CFGOf(f), e[2])
CrashExactly == [](pc = "crash" => Crashing) /\ [](pc = "done" => ~Crashing)
=============================================================================
