--------------------------------- MODULE MCCDG ---------------------------------
(* All control-flow graphs of a function of four blocks and one of two, in which *)
(* a block has at most two successors and nothing branches to an entry block.    *)
EXTENDS CDG

MCFunctions == <<"f", "g">>
MCBlocksOf == [x \in {"f", "g"} |-> IF x = "f" THEN <<"f1", "f2", "f3", "f4">> ELSE <<"g1", "g2">>]

MCSuccessors(f) == {S \in SUBSET (Range1(MCBlocksOf[f]) \ {MCBlocksOf[f][1]}) : Cardinality(S) <= 2}
MCCFGsOf(f) ==
    {UNION {{b} \X s[b] : b \in DOMAIN s} :
        s \in [Range1(MCBlocksOf[f]) -> MCSuccessors(f)]}
MCCFGs == {p[1] \cup p[2] : p \in MCCFGsOf("f") \X MCCFGsOf("g")}
=============================================================================
