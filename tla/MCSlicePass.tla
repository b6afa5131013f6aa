----------------------------- MODULE MCSlicePass -----------------------------
(* Either pass on every dependence graph of at most MaxEdges edges over a function *)
(* with two instructions and a function with one.  A parameter node has the edges   *)
(* of an instruction and cannot be named by slice.conf: an instruction outside the  *)
(* criterion stands for it.                                                         *)
EXTENDS BackSlice, ForwardSlice, Naturals

CONSTANT MaxEdges

\* opt runs one of the two; each is one thread of straight-line code, which always
\* takes its next step.
PassInit == Init \/ ForwardInit
PassNext == Next \/ ForwardNext
PassSpec == PassInit /\ [][PassNext]_vars /\ WF_vars(Next) /\ WF_vars(ForwardNext)

MCFunction == {"f", "g"}
MCInstruction == {"i", "j", "k"}
MCCriteria == SUBSET MCInstruction
MCFunctionOf == [n \in MCInstruction |-> IF n = "k" THEN "g" ELSE "f"]

\* The edges the SDG pass creates: calls into an entry node, control out of one, and
\* between other nodes one attribute for each way the two masks can treat an edge:
\* followed by both (flow stands for control too), by the first, by the second.
Triples ==
    {e \in MCInstruction \X {"flow", "call", "paramOut"} \X MCInstruction : e[1] /= e[3]}
    \cup MCFunction \X {"control"} \X MCInstruction
    \cup MCInstruction \X {"call"} \X MCFunction

\* The graphs of at most k edges, each one edge added to a smaller one.
GraphsOf[k \in 0 .. MaxEdges] ==
    IF k = 0 THEN {{}}
    ELSE GraphsOf[k - 1] \cup
            {Insert(g, {<<e[1], e[3]>>}, e[2]) : g \in GraphsOf[k - 1], e \in Triples}
MCGraphs == GraphsOf[MaxEdges]

\* The rounds by which module Slicer collects a phase give the set this module's
\* work list is proved to end with.
ASSUME CollectedIsReaching ==
    \A g \in GraphsOf[2], S \in Criteria, mask \in {Mask1, Mask2} :
        Collected(Node, g, S, mask) = Reaching(Node, g, S, mask)
=============================================================================
