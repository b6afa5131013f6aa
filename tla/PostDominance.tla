---------------------------- MODULE PostDominance ----------------------------
(* Post-dominance over a control-flow graph, and the control dependence that    *)
(* Ferrante, Ottenstein and Warren define from it.  A control-flow graph is a    *)
(* set of pairs of blocks; the blocks without a successor are the exits.         *)
(*                                                                               *)
(* LLVM's PostDominatorTree, which CDG.cpp queries, is modelled from that use:   *)
(* a node for each block that reaches an exit, and a virtual root without a      *)
(* block when there are several exits or a block without a node.                 *)
EXTENDS FiniteSets

Succs(cfg, b) == {e[2] : e \in {d \in cfg : d[1] = b}}
Exits(B, cfg) == {b \in B : Succs(cfg, b) = {}}

\* The blocks from which some path to an exit avoids D: the exits, then the blocks
\* with a successor among those found, until nothing is new.
ReachingExit(B, cfg, D) ==
    LET grow[T \in SUBSET (B \ D)] ==
            LET U == T \cup {b \in B \ D : Succs(cfg, b) \cap T # {}}
            IN  IF U = T THEN T ELSE grow[U]
    IN  grow[Exits(B, cfg) \ D]

ReachesExit(B, cfg, b) == b \in ReachingExit(B, cfg, {})
PostDominates(B, cfg, d, b) == b \notin ReachingExit(B, cfg, {d})
StrictPostDominators(B, cfg, b) == {d \in B \ {b} : PostDominates(B, cfg, d, b)}

\* D depends on S when S has a successor that D post-dominates but D does not
\* strictly post-dominate S.
ControlDependence(B, cfg) ==
    {e \in B \X B :
        /\ e[2] \notin StrictPostDominators(B, cfg, e[1])
        /\ \E n \in Succs(cfg, e[1]) : PostDominates(B, cfg, e[2], n)}

\* PDT.getNode: the tree node of a block is named by the block; NULL without one.
CONSTANTS NULL, VirtualRoot
GetNode(B, cfg, b) == IF ReachesExit(B, cfg, b) THEN b ELSE NULL

ManyRoots(B, cfg) ==
    Cardinality(Exits(B, cfg)) # 1 \/ \E b \in B : ~ReachesExit(B, cfg, b)

\* DomTreeNode::getIDom: the strict post-dominator that all the others post-dominate.
GetIDom(B, cfg, n) ==
    IF n = VirtualRoot THEN NULL
    ELSE LET P == StrictPostDominators(B, cfg, n)
         IN  IF P # {}
             THEN CHOOSE p \in P : P \ {p} \subseteq StrictPostDominators(B, cfg, p)
             ELSE IF ManyRoots(B, cfg) THEN VirtualRoot ELSE NULL

\* PostDominatorTree::runOnFunction: the nodes and their immediate post-dominators.
PostDominatorTree(B, cfg) ==
    [node |-> [b \in B |-> GetNode(B, cfg, b)],
     idom |-> [m \in {b \in B : ReachesExit(B, cfg, b)} \cup {VirtualRoot} |->
                  GetIDom(B, cfg, m)]]

\* DomTreeNode::getBlock.
GetBlock(n) == IF n = VirtualRoot THEN NULL ELSE n
=============================================================================
